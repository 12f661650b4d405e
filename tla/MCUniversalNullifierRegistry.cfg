\* Two chains, which governance registers, deactivates and registers anew.
CONSTANTS
    Zero = Zero
    MAX_PROOF_DEPTH = 2
    inner = inner
    domain = domain
    n2 = n2
    n3 = n3
    Account = {gov, bridge}
    governance = gov
    ChainId = {1, 2}
    EpochLists <- MCEpochLists
    Nullifier <- MCNullifier
    Parts = {inner, domain}
    Presented <- MCPresented
    Proofs <- MCProofs
    MaxEpoch = 1
    MaxRegistered = 3
    MaxSubmissions = 2
    MaxSnapshots = 1
SPECIFICATION Spec
INVARIANTS
    LookupFindsReports
    
    MembersStayReportable
PROPERTIES
    RecordsAreFinal
    SnapshotsCoverActiveChains
