\* Depth 2 and a ring of two roots: the tree gets full, also with room for one
\* of two outputs.  Four nullifiers and epochs of three: a second spend finds its
\* epoch full until governance ends it.  A withdrawal may pay an account that does
\* not exist, and the contract itself.
CONSTANTS
    TREE_DEPTH = 2
    ROOT_HISTORY_SIZE = 2
    MAX_NULLIFIERS_PER_EPOCH = 3
    governance = gov
    Callers = {gov, bob}
    Missing = missing
    Contract = contract
    None = None
    ZERO_HASH = ZERO_HASH
    c1 = c1
    c2 = c2
    Commitment = {c1, c2}
    Outputs <- MCOutputs
    Nullifier = {n1, n2, n3, n4}
    ProofSizes = {384}
    MaxAmount = 2
    MaxBalance = 2
    MaxEpochs = 1
    RemoteKeys = {k1}
    RemoteRoots = {r1}
SYMMETRY Symmetry
SPECIFICATION Spec
INVARIANTS
    AccountIsExplained
    EpochsCommitToSpent
PROPERTY ImplementsPoolLedger
\* A full tree, spent nullifiers and MaxEpochs stop the model.
CHECK_DEADLOCK FALSE
