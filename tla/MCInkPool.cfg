\* Depth 2 and a ring of two roots: the tree takes three leaves of four, as the
\* last index can never be passed; a spend may find room for one of two outputs.
\* One commit hash, and blocks enough for it to mature and to expire.
CONSTANTS
    TREE_DEPTH = 2
    ROOT_HISTORY_SIZE = 2
    MIN_COMMIT_DELAY = 1
    MAX_COMMIT_DELAY = 2
    ZERO_VALUE = ZERO_VALUE
    Deployer = alice
    Accounts = {alice, bob}
    ZeroAccount = zero
    c1 = c1
    c2 = c2
    c3 = c3
    c4 = c4
    Commitment = {c1, c2, c3, c4}
    Outputs <- MCOutputs
    Nullifier = {n1, n2, n3, n4}
    CommitHash = {h1}
    ProofSizes = {192}
    MaxAmount = 1
    MaxBalance = 2
    MaxBlock = 3
    MaxEpochs = 1
    RemoteKeys = {k1}
    RemoteRoots = {r1}
SYMMETRY Symmetry
SPECIFICATION Spec
INVARIANTS
    EachCommitOneFate
    EpochRootsCommitToPrefixes
PROPERTIES
    ImplementsPoolLedger
    PausedPoolOnlyReveals
\* A full tree, spent nullifiers and MaxBlock stop the model.
CHECK_DEADLOCK FALSE
