\* Depth 2 and a ring of two roots: the tree gets full, also with room for one
\* of two outputs.  c1 and n1 have a second spelling each; one commitment and
\* one nullifier are no hexadecimal word.  Epochs of three.  A second
\* denomination, which the pool must refuse.
CONSTANTS
    tree_depth = 2
    root_history_size = 2
    max_nullifiers_per_epoch = 3
    accepted_denom = uatom
    Denoms = {uatom, uosmo}
    Governance = gov
    Senders = {gov, bob}
    None = None
    ZERO_HASH = ZERO_HASH
    c1 = c1
    C1 = C1
    c2 = c2
    Commitment = {c1, C1, c2, bad}
    Outputs <- MCOutputs
    n1 = n1
    N1 = N1
    n2 = n2
    bad = bad
    Nullifier = {n1, N1, n2, bad}
    Word <- MCWord
    ProofSizes = {384}
    MaxAmount = 1
    MaxBalance = 2
    MaxEpochs = 1
    RemoteKeys = {k1}
    RemoteRoots = {r1}
SPECIFICATION Spec
INVARIANTS
    EpochsCommitToSpent
    FundsCoverPool
PROPERTY ImplementsPoolLedger
\* A full tree, spent nullifiers and MaxEpochs stop the model.
CHECK_DEADLOCK FALSE
