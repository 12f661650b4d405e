\* Liveness: one committed deposit, whose note somebody else may deposit first,
\* and two pauses; long enough for a commit made at any block to expire.  Tiers
\* and the compliance oracle change meanwhile.
CONSTANTS
    Address = {alice, bob}
    MAX_PAUSE_DURATION = 2
    MaxPauses = 2
    n1 = n1
    n2 = n2
    n3 = n3
    h1 = h1
    ZeroCommitment = Zero
    Leaf = {Zero, n1}
    Capacity = 2
    HistorySize = 2
    NoteValue <- MCNoteValue
    FieldOrder = 3
    CommitHashes = {h1}
    Opening <- MCOpening
    MaxValue = 2
    Amounts = {0, 1}
    HonestDeposits = TRUE
    TierLists <- OneTierLists
    EpochManagers = {}
    ComplianceOracles = {oracle}
    Admins = {alice}
    NoAddress = NoAddress
    MIN_COMMIT_DELAY = 1
    MAX_COMMIT_DELAY = 2
    MaxBlock = 5
SPECIFICATION FairSpec
INVARIANTS
    Solvency
    AllowedAreTheTiers
PROPERTIES
    CommitsAreSettled
    PausesEnd
    PauseFreezesNotes
