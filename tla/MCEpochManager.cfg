\* Two epochs, finalized early or late, while pools that are authorized and
\* revoked register two nullifiers, possibly again, and roots of another chain
\* arrive, the root of an empty epoch among them.
CONSTANTS
    Zero = Zero
    MAX_PROOF_DEPTH = 2
    Nullifier = {n1, n2}
    Account = {gov}
    Chain = {c}
    RemoteRoots = {Zero, r1}
    epochDuration = 2
    MaxEpoch = 1
    MaxNullifiers = 2
    MaxTime = 3
SPECIFICATION Spec
INVARIANTS
    EpochsAreInOrder
    LookupIsUnionOfEpochs
    RootsCommitToPrefixes
PROPERTIES
    FinalRootsAreFrozen
SYMMETRY Symmetry
