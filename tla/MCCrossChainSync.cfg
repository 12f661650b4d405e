\* One source chain with two epochs and three nullifiers, as the leaves, the padding
\* and the interior nodes of an epoch's tree are presented to the hub; the chain's
\* registration there may be renewed once.
CONSTANTS
    Zero = Zero
    MAX_PROOF_DEPTH = 2
    Nullifier = {n1, n2, n3}
    Parts = {}
    epochDuration = 1
    Presented <- MCPresented
    Proofs <- MCProofs
    SourceChain = 1
    ChainId = {1}
    Account = {governor, bridge}
    governance = governor
    SourceGovernor = governor
    Bridge = bridge
    EpochLists = {}
    Pool = pool
    MaxEpoch = 1
    MaxNullifiers = 3
    MaxTime = 1
    MaxRegistered = 2
    MaxSubmissions = 3
    MaxSnapshots = 0
SPECIFICATION SyncSpec
INVARIANT
    RootsAgree
    
PROPERTY ImplementsSpentSet
SYMMETRY Symmetry
