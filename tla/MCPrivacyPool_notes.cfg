\* Spending against current and older roots, with two rounds of spends, while
\* governance replaces epoch managers, which authorize the pool or not.  One
\* committed deposit is revealed in its block or refunded in the next, also
\* while the recipient of a withdrawal has control.  Values are added modulo 3,
\* so that a sum can wrap.
CONSTANTS
    Address = {alice}
    MAX_PAUSE_DURATION = 1
    MaxPauses = 0
    n1 = n1
    n2 = n2
    n3 = n3
    h1 = h1
    ZeroCommitment = Zero
    Leaf = {Zero, n1, n2, n3}
    Capacity = 6
    HistorySize = 2
    NoteValue <- MCNoteValue
    FieldOrder = 3
    CommitHashes = {h1}
    Opening <- MCOpening
    MaxValue = 2
    Amounts = {0, 1, 2}
    HonestDeposits = TRUE
    TierLists <- NoTierLists
    EpochManagers = {em1, em2}
    ComplianceOracles = {}
    Admins = {alice}
    NoAddress = NoAddress
    MIN_COMMIT_DELAY = 0
    MAX_COMMIT_DELAY = 0
    MaxBlock = 1
SPECIFICATION Spec
INVARIANTS
    Solvency
    Backed
    NoDoubleSpend
    RegisteredAtMostOnce
SYMMETRY NotesSymmetry
