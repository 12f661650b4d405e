\* Depth 3 and a ring of two roots: four deposits and two joins fill the tree.
\* Four nullifiers and lists of three: a second join finds its epoch full until
\* governance ends it.  An existential deposit of two, so that a withdrawal can
\* leave dust.
CONSTANTS
    TreeDepth = 3
    RootHistorySize = 2
    MaxNullifiersPerEpoch = 3
    ParaId = 1
    AppId = 1
    TestnetOnly = TRUE
    MainnetChains = {}
    Zero = Zero
    c1 = c1
    c2 = c2
    c3 = c3
    Commitment = {c1, c2, c3, c4}
    c4 = c4
    Outputs <- MCOutputs
    Nullifier = {n1, n2, n3, n4}
    ProofSizes = {160, 192}
    Users = {alice}
    PoolAccount = pool
    ExistentialDeposit = 2
    Supply = 5
    MaxAmount = 2
    MaxEpochs = 1
    Paras = {para}
    RemoteRoots = {r1}
SYMMETRY Symmetry
SPECIFICATION Spec
INVARIANTS
    EpochsCommitToSpent
    FundsCoverPool
PROPERTY ImplementsPoolLedger
\* A full tree, spent nullifiers and MaxEpochs stop the model.
CHECK_DEADLOCK FALSE
