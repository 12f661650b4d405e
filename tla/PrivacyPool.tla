----------------------------- MODULE PrivacyPool -----------------------------
(***************************************************************************)
(* contracts/core/PrivacyPool.sol: the UTXO pool of one EVM chain.         *)
(*                                                                         *)
(* Abstractions.                                                           *)
(*  - The commitment tree is the append-only list `leaves' and a root is   *)
(*    the length of the prefix it commits to: MerkleTree implements this   *)
(*    view (RootHistory).                                                  *)
(*  - A commitment binds one note, so NoteValue is a function of it, and   *)
(*    the V2 nullifier is an injective function of the note: a nullifier   *)
(*    is named by its commitment.  ZeroCommitment opens to no note.        *)
(*  - A commit hash is keccak256(commitment, salt): Opening gives the one  *)
(*    commitment that opens it.                                            *)
(*  - The verifier accepts exactly the statements of the 2-in 2-out        *)
(*    circuit (noir/circuits/transfer), with exit_value on the output side *)
(*    for a withdrawal.  The circuit adds values as elements of the field  *)
(*    and checks no range, so its sums agree modulo FieldOrder.            *)
(*  - A transaction that reverts is no step.  A call that sends ether      *)
(*    (withdraw, reclaimExpiredCommit) is two steps: the effects up to the *)
(*    call, after which the callee runs with the guard set and may enter   *)
(*    every function the guard does not close; and the return of the call. *)
(***************************************************************************)
EXTENDS EmergencyPause, Sequences, FiniteSets, RootHistory

CONSTANTS
    ZeroCommitment,     \* bytes32(0), a member of Leaf
    NoteValue,          \* the value that a commitment binds
    FieldOrder,         \* the order of the circuit's field
    CommitHashes,       \* arguments of commitDeposit
    Opening,            \* the commitment in the preimage of a commit hash
    MaxValue,           \* the largest uint256
    Amounts,            \* ether amounts in calls
    HonestDeposits,     \* does every depositor pay the value the note binds?
    TierLists,          \* arguments of enableFixedDenominations
    EpochManagers,      \* addresses of epoch managers
    ComplianceOracles,  \* addresses of compliance oracles
    Admins,             \* accounts that may become governance or guardian
    NoAddress,          \* address(0)
    MIN_COMMIT_DELAY,
    MAX_COMMIT_DELAY,
    MaxBlock            \* bound on `now'

\* bytes32 is a finite type; amounts and note values fit in uint256; NoAddress is
\* no account.
ASSUME PoolAssumption ==
    /\ IsFiniteSet(Leaf)
    /\ ZeroCommitment \in Leaf
    /\ MaxValue \in Nat
    /\ NoteValue \in [Leaf -> 0..MaxValue]
    /\ IsFiniteSet(CommitHashes)
    /\ Opening \in [CommitHashes -> Leaf]
    /\ Amounts \subseteq 0..MaxValue
    /\ HonestDeposits \in BOOLEAN
    /\ Admins \subseteq Address
    /\ NoAddress \notin Address
    /\ NoAddress \notin EpochManagers
    /\ TierLists \subseteq Seq(Nat)
    /\ MIN_COMMIT_DELAY \in Nat
    /\ MAX_COMMIT_DELAY \in Nat
    /\ MaxBlock \in Nat

\* Note values are elements of the field.
ASSUME FieldAssumption ==
    FieldOrder \in Nat \ {0} /\ \A c \in Leaf : NoteValue[c] < FieldOrder

VARIABLES
    nullifierSpent,
    commitmentExists,
    poolBalance,
    ethBalance,               \* address(this).balance
    pendingCommits,
    status,                   \* _status of the reentrancy guard
    fixedDenominationsEnabled,
    allowedDenomination,
    denominationTiers,
    epochManager,
    complianceOracle,
    registrations,            \* external: calls of registerNullifier, counted
    authorizedIn,             \* external: managers that authorize this pool
    blocked,                  \* external: accounts that each oracle blocks
    timesSpent,               \* history: spends of each nullifier
    wraps                     \* history: by how many multiples of FieldOrder
                              \* the accepted spends pay out more than they take

noteVars  == <<leaves, nullifierSpent, registrations, timesSpent, wraps>>
fundVars  == <<poolBalance, ethBalance>>
adminVars == <<fixedDenominationsEnabled, allowedDenomination,
               denominationTiers, epochManager, complianceOracle>>
otherVars == <<authorizedIn, blocked>>
vars == <<noteVars, commitmentExists, fundVars, pendingCommits, status,
          adminVars, otherVars, pauseVars, governance, now>>

\* An entry of pendingCommits that was never written, or was deleted.
NoRecord == [depositor |-> NoAddress, value |-> 0, blockNumber |-> 0,
             revealed |-> FALSE]

-----------------------------------------------------------------------------
Init ==
    /\ HistoryInit
    /\ nullifierSpent = {}
    /\ commitmentExists = {}
    /\ poolBalance = 0
    /\ ethBalance = 0
    /\ pendingCommits = [h \in CommitHashes |-> NoRecord]
    /\ status = "NOT_ENTERED"
    /\ fixedDenominationsEnabled = FALSE
    /\ allowedDenomination = {}
    /\ denominationTiers = << >>
    /\ epochManager \in EpochManagers \cup {NoAddress}
    /\ complianceOracle \in ComplianceOracles \cup {NoAddress}
    /\ registrations = [m \in EpochManagers |-> [n \in Leaf |-> 0]]
    /\ authorizedIn = {}
    /\ blocked = [o \in ComplianceOracles |-> {}]
    /\ timesSpent = [n \in Leaf |-> 0]
    /\ wraps = 0
    /\ \E g \in Admins : _initPause(g)
    /\ governance \in Admins
    /\ now = 0

_checkDenomination(amount) ==
    fixedDenominationsEnabled => amount \in allowedDenomination

\* What a depositor sends for a commitment.  The code does not relate the two.
PaidFor(c) == IF HonestDeposits THEN {NoteValue[c]} ELSE Amounts

IsKnownVersion(root) == root \in KnownVersions(Len(leaves))

-----------------------------------------------------------------------------
commitDeposit(sender, h, value) ==
    /\ ~ paused
    /\ value # 0
    /\ _checkDenomination(value)
    /\ pendingCommits[h].depositor = NoAddress
    /\ pendingCommits' = [pendingCommits EXCEPT ![h] =
            [depositor |-> sender, value |-> value, blockNumber |-> now,
             revealed |-> FALSE]]
    /\ ethBalance' = ethBalance + value
    /\ UNCHANGED <<noteVars, commitmentExists, poolBalance, status, adminVars,
                   otherVars, pauseVars, governance, now>>

\* Mutant: whenNotPaused is missing.
revealDepositWhilePaused(sender, h) ==
    LET record == pendingCommits[h]
        c      == Opening[h]
    IN  /\ record.depositor = sender
        /\ ~ record.revealed
        /\ now >= record.blockNumber + MIN_COMMIT_DELAY
        /\ now <= record.blockNumber + MAX_COMMIT_DELAY
        /\ c \notin commitmentExists
        /\ pendingCommits' = [pendingCommits EXCEPT ![h].revealed = TRUE]
        /\ commitmentExists' = commitmentExists \cup {c}
        /\ Insert(c)
        /\ poolBalance' = poolBalance + record.value
        /\ UNCHANGED <<nullifierSpent, registrations, timesSpent, wraps,
                       ethBalance, status, adminVars, otherVars, pauseVars, governance, now>>

revealDeposit(sender, h) ==
    LET record == pendingCommits[h]
        c      == Opening[h]
    IN  /\ ~ paused
        /\ record.depositor = sender
        /\ ~ record.revealed
        /\ now >= record.blockNumber + MIN_COMMIT_DELAY
        /\ now <= record.blockNumber + MAX_COMMIT_DELAY
        /\ c \notin commitmentExists
        /\ pendingCommits' = [pendingCommits EXCEPT ![h].revealed = TRUE]
        /\ commitmentExists' = commitmentExists \cup {c}
        /\ Insert(c)
        /\ poolBalance' = poolBalance + record.value
        /\ UNCHANGED <<nullifierSpent, registrations, timesSpent, wraps,
                       ethBalance, status, adminVars, otherVars, pauseVars, governance, now>>

\* Mutant: the record of a refunded commit is kept.
reclaimExpiredCommitKeepsRecord(sender, h) ==
    /\ status # "ENTERED"
    /\ pendingCommits[h].depositor = sender
    /\ ~ pendingCommits[h].revealed
    /\ now > pendingCommits[h].blockNumber + MAX_COMMIT_DELAY
    /\ ethBalance >= pendingCommits[h].value
    /\ ethBalance' = ethBalance - pendingCommits[h].value
    /\ status' = "ENTERED"
    /\ UNCHANGED <<noteVars, commitmentExists, poolBalance, pendingCommits,
                   adminVars, otherVars, pauseVars, governance, now>>

\* Mutant: a commit whose commitment was deposited meanwhile is not refunded.
reclaimExpiredCommitIfUntaken(sender, h) ==
    /\ status # "ENTERED"
    /\ pendingCommits[h].depositor = sender
    /\ ~ pendingCommits[h].revealed
    /\ Opening[h] \notin commitmentExists
    /\ now > pendingCommits[h].blockNumber + MAX_COMMIT_DELAY
    /\ ethBalance >= pendingCommits[h].value
    /\ pendingCommits' = [pendingCommits EXCEPT ![h] = NoRecord]
    /\ ethBalance' = ethBalance - pendingCommits[h].value
    /\ status' = "ENTERED"
    /\ UNCHANGED <<noteVars, commitmentExists, poolBalance, adminVars,
                   otherVars, pauseVars, governance, now>>

\* Not stopped by a pause; ends in the call that refunds the depositor.
reclaimExpiredCommit(sender, h) ==
    LET record == pendingCommits[h]
    IN  /\ status # "ENTERED"
        /\ record.depositor = sender
        /\ ~ record.revealed
        /\ now > record.blockNumber + MAX_COMMIT_DELAY
        /\ ethBalance >= record.value
        /\ pendingCommits' = [pendingCommits EXCEPT ![h] = NoRecord]
        /\ ethBalance' = ethBalance - record.value
        /\ status' = "ENTERED"
        /\ UNCHANGED <<noteVars, commitmentExists, poolBalance, adminVars,
                       otherVars, pauseVars, governance, now>>

deposit(c, amount) ==
    /\ ~ paused
    /\ amount # 0
    /\ c \notin commitmentExists
    /\ _checkDenomination(amount)
    /\ commitmentExists' = commitmentExists \cup {c}
    /\ Insert(c)
    /\ poolBalance' = poolBalance + amount
    /\ ethBalance' = ethBalance + amount
    /\ UNCHANGED <<nullifierSpent, registrations, timesSpent, wraps,
                   pendingCommits, status, adminVars, otherVars, pauseVars, governance, now>>

-----------------------------------------------------------------------------
\* How often each nullifier occurs in a pair.
Occurrences(pair) ==
    [n \in Leaf |-> (IF pair[1] = n THEN 1 ELSE 0)
                    + (IF pair[2] = n THEN 1 ELSE 0)]

\* Mutant: only the first nullifier is looked up.
_checkFirstNullifier(nullifiers) ==
    /\ nullifiers[1] \notin nullifierSpent
    /\ nullifierSpent' = nullifierSpent \cup {nullifiers[1], nullifiers[2]}
    /\ timesSpent' = [n \in Leaf |->
                        timesSpent[n] + Occurrences(nullifiers)[n]]
    /\ epochManager # NoAddress => epochManager \in authorizedIn
    /\ registrations' =
         [m \in EpochManagers |->
            IF m # epochManager THEN registrations[m]
            ELSE [n \in Leaf |->
                    registrations[m][n] + Occurrences(nullifiers)[n]]]

\* The loop looks a nullifier up after it has marked the previous one, so an
\* equal pair is rejected.  A manager that does not authorize the pool makes
\* registerNullifier revert, and the spend with it.
_checkAndSpendNullifiers(nullifiers) ==
    /\ nullifiers[1] \notin nullifierSpent
    /\ nullifiers[2] \notin nullifierSpent \cup {nullifiers[1]}
    /\ nullifierSpent' = nullifierSpent \cup {nullifiers[1], nullifiers[2]}
    /\ timesSpent' = [n \in Leaf |->
                        timesSpent[n] + Occurrences(nullifiers)[n]]
    /\ epochManager # NoAddress => epochManager \in authorizedIn
    /\ registrations' =
         [m \in EpochManagers |->
            IF m # epochManager THEN registrations[m]
            ELSE [n \in Leaf |->
                    registrations[m][n] + Occurrences(nullifiers)[n]]]

_validateOutputCommitments(outputs) ==
    /\ outputs[1] # ZeroCommitment
    /\ outputs[2] # ZeroCommitment
    /\ outputs[1] # outputs[2]

\* What a spend pays out in excess of the notes it consumes.
Excess(nullifiers, outputs, exitValue) ==
    (NoteValue[outputs[1]] + NoteValue[outputs[2]] + exitValue)
      - (NoteValue[nullifiers[1]] + NoteValue[nullifiers[2]])

\* Mutant: the exit value counts as an input.
verifyProofExitAsInput(root, nullifiers, outputs, exitValue) ==
    /\ nullifiers[1] # nullifiers[2]
    /\ \A i \in 1..2 : /\ nullifiers[i] \in Committed(root)
                       /\ nullifiers[i] # ZeroCommitment
    /\ Excess(nullifiers, outputs, 0 - exitValue) % FieldOrder = 0

\* The circuit's statement: two different notes of the tree with this root
\* are consumed, and the values balance in the field.
verifyProof(root, nullifiers, outputs, exitValue) ==
    /\ nullifiers[1] # nullifiers[2]
    /\ \A i \in 1..2 : /\ nullifiers[i] \in Committed(root)
                       /\ nullifiers[i] # ZeroCommitment
    /\ Excess(nullifiers, outputs, exitValue) % FieldOrder = 0

countWraps(nullifiers, outputs, exitValue) ==
    wraps' = wraps + Excess(nullifiers, outputs, exitValue) \div FieldOrder

insertOutputs(outputs) ==
    /\ Len(leaves) + 2 <= Capacity
    /\ leaves' = Append(Append(leaves, outputs[1]), outputs[2])

\* A call that reverts changes nothing, so the order of the checks does not show.
\* The oracle's checkCompliance may refuse: then the call reverts.  The outputs
\* are neither looked up in commitmentExists nor added to it.
transfer(root, nullifiers, outputs) ==
    /\ ~ paused
    /\ IsKnownVersion(root)
    /\ _validateOutputCommitments(outputs)
    /\ verifyProof(root, nullifiers, outputs, 0)
    /\ _checkAndSpendNullifiers(nullifiers)
    /\ insertOutputs(outputs)
    /\ countWraps(nullifiers, outputs, 0)
    /\ UNCHANGED <<commitmentExists, fundVars, pendingCommits, status,
                   adminVars, otherVars, pauseVars, governance, now>>

\* Mutant: the pool's balance is not debited.
withdrawNoDebit(root, nullifiers, outputs, recipient, exitValue) ==
    /\ ~ paused
    /\ status # "ENTERED"
    /\ exitValue # 0
    /\ exitValue <= poolBalance
    /\ IsKnownVersion(root)
    /\ _validateOutputCommitments(outputs)
    /\ complianceOracle # NoAddress => recipient \notin blocked[complianceOracle]
    /\ verifyProof(root, nullifiers, outputs, exitValue)
    /\ _checkAndSpendNullifiers(nullifiers)
    /\ insertOutputs(outputs)
    /\ countWraps(nullifiers, outputs, exitValue)
    /\ ethBalance >= exitValue
    /\ ethBalance' = ethBalance - exitValue
    /\ status' = "ENTERED"
    /\ UNCHANGED <<commitmentExists, poolBalance, pendingCommits, adminVars,
                   otherVars, pauseVars, governance, now>>

withdraw(root, nullifiers, outputs, recipient, exitValue) ==
    /\ ~ paused
    /\ status # "ENTERED"
    /\ exitValue # 0
    /\ exitValue <= poolBalance
    /\ IsKnownVersion(root)
    /\ _validateOutputCommitments(outputs)
    /\ complianceOracle # NoAddress => recipient \notin blocked[complianceOracle]
    /\ verifyProof(root, nullifiers, outputs, exitValue)
    /\ _checkAndSpendNullifiers(nullifiers)
    /\ insertOutputs(outputs)
    /\ countWraps(nullifiers, outputs, exitValue)
    /\ poolBalance' = poolBalance - exitValue
    /\ ethBalance >= exitValue
    /\ ethBalance' = ethBalance - exitValue
    /\ status' = "ENTERED"
    /\ UNCHANGED <<commitmentExists, pendingCommits, adminVars, otherVars,
                   pauseVars, governance, now>>

\* The call to the recipient returns success; on failure all of it reverts.
callReturns ==
    /\ status = "ENTERED"
    /\ status' = "NOT_ENTERED"
    /\ UNCHANGED <<noteVars, commitmentExists, fundVars, pendingCommits,
                   adminVars, otherVars, pauseVars, governance, now>>

-----------------------------------------------------------------------------
coreVars == <<noteVars, commitmentExists, fundVars, pendingCommits, status, now>>

setEpochManager(sender, manager) ==
    /\ sender = governance
    /\ epochManager' = manager
    /\ UNCHANGED <<coreVars, otherVars, pauseVars, governance,
                   complianceOracle, fixedDenominationsEnabled,
                   allowedDenomination, denominationTiers>>

setGovernance(sender, newGovernance) ==
    /\ sender = governance
    /\ governance' = newGovernance
    /\ UNCHANGED <<coreVars, adminVars, otherVars, pauseVars>>

setComplianceOracle(sender, oracle) ==
    /\ sender = governance
    /\ complianceOracle' = oracle
    /\ UNCHANGED <<coreVars, otherVars, pauseVars, governance, epochManager,
                   fixedDenominationsEnabled, allowedDenomination,
                   denominationTiers>>

\* Mutant: the old tiers stay allowed.
enableFixedDenominationsKeeps(sender, denominations) ==
    /\ sender = governance
    /\ allowedDenomination' =
         allowedDenomination
           \cup {denominations[i] : i \in 1..Len(denominations)}
    /\ denominationTiers' = denominations
    /\ fixedDenominationsEnabled' = TRUE
    /\ UNCHANGED <<coreVars, otherVars, pauseVars, governance, epochManager,
                   complianceOracle>>

\* The old tiers are cleared through the list of them, then the new ones set.
enableFixedDenominations(sender, denominations) ==
    /\ sender = governance
    /\ allowedDenomination' =
         (allowedDenomination \ {denominationTiers[i] :
                                   i \in 1..Len(denominationTiers)})
           \cup {denominations[i] : i \in 1..Len(denominations)}
    /\ denominationTiers' = denominations
    /\ fixedDenominationsEnabled' = TRUE
    /\ UNCHANGED <<coreVars, otherVars, pauseVars, governance, epochManager,
                   complianceOracle>>

disableFixedDenominations(sender) ==
    /\ sender = governance
    /\ fixedDenominationsEnabled' = FALSE
    /\ UNCHANGED <<coreVars, otherVars, pauseVars, governance, epochManager,
                   complianceOracle, allowedDenomination, denominationTiers>>

PauseStep(sender) ==
    /\ \/ pause(sender)
       \/ unpause(sender)
       \/ \E g \in Admins : setGuardian(sender, g)
    /\ UNCHANGED <<coreVars, adminVars, otherVars, governance>>

\* The managers and oracles are other contracts, governed on their own.
Environment ==
    /\ \/ /\ \E m \in EpochManagers :
               authorizedIn' \in {authorizedIn \cup {m}, authorizedIn \ {m}}
          /\ UNCHANGED blocked
       \/ /\ \E o \in ComplianceOracles, list \in SUBSET Address :
               blocked' = [blocked EXCEPT ![o] = list]
          /\ UNCHANGED authorizedIn
    /\ UNCHANGED <<coreVars, adminVars, pauseVars, governance>>

\* No block is mined inside a transaction.
NextBlock ==
    /\ status # "ENTERED"
    /\ now < MaxBlock
    /\ now' = now + 1
    /\ UNCHANGED <<noteVars, commitmentExists, fundVars, pendingCommits, status,
                   adminVars, otherVars, pauseVars, governance>>

-----------------------------------------------------------------------------
DepositStep ==
    \/ \E c \in Leaf : \E amount \in PaidFor(c) : deposit(c, amount)
    \/ \E sender \in Address, h \in CommitHashes :
          \/ \E value \in PaidFor(Opening[h]) : commitDeposit(sender, h, value)
          \/ revealDeposit(sender, h)
          \/ reclaimExpiredCommit(sender, h)

\* Anybody may submit a spend: what authorizes it is the proof, and provers
\* only know the notes of a tree.  (An unknown root is rejected: isKnownRoot.)
SpendStep ==
    \E root \in KnownVersions(Len(leaves)) :
    \E nullifiers \in Committed(root) \X Committed(root), outputs \in Leaf \X Leaf :
        \/ transfer(root, nullifiers, outputs)
        \/ \E recipient \in Address, exitValue \in Amounts :
              withdraw(root, nullifiers, outputs, recipient, exitValue)

AdminStep ==
    \E sender \in Address :
        \/ \E m \in EpochManagers \cup {NoAddress} : setEpochManager(sender, m)
        \/ \E g \in Admins : setGovernance(sender, g)
        \/ \E o \in ComplianceOracles \cup {NoAddress} :
              setComplianceOracle(sender, o)
        \/ \E d \in TierLists : enableFixedDenominations(sender, d)
        \/ disableFixedDenominations(sender)
        \/ PauseStep(sender)

Next == \/ DepositStep
        \/ SpendStep
        \/ callReturns
        \/ AdminStep
        \/ Environment
        \/ NextBlock

Spec == Init /\ [][Next]_vars

\* Blocks are mined, calls return, a depositor claims an expired commit back,
\* and somebody other than governance ends a pause that has run its time.
\* Nothing is assumed of governance or of the guardian.
OutsiderUnpauses ==
    /\ \E sender \in Address \ {governance} : unpause(sender)
    /\ UNCHANGED <<coreVars, adminVars, otherVars, governance>>

FairSpec ==
    /\ Spec
    /\ WF_vars(NextBlock)
    /\ WF_vars(callReturns)
    /\ WF_vars(OutsiderUnpauses)
    /\ \A h \in CommitHashes :
          WF_vars(\E sender \in Address : reclaimExpiredCommit(sender, h))

-----------------------------------------------------------------------------
CommitRecord == [depositor : Address \cup {NoAddress}, value : 0..MaxValue,
                 blockNumber : Nat, revealed : BOOLEAN]

\* The type invariant.
TypeOK ==
    /\ leaves \in Seq(Leaf) /\ Len(leaves) <= Capacity
    /\ nullifierSpent \in SUBSET Leaf
    /\ commitmentExists \in SUBSET Leaf
    /\ poolBalance \in Nat
    /\ ethBalance \in Nat
    /\ pendingCommits \in [CommitHashes -> CommitRecord]
    /\ status \in {"NOT_ENTERED", "ENTERED"}
    /\ fixedDenominationsEnabled \in BOOLEAN
    /\ allowedDenomination \in SUBSET Nat
    /\ denominationTiers \in Seq(Nat)
    /\ epochManager \in EpochManagers \cup {NoAddress}
    /\ complianceOracle \in ComplianceOracles \cup {NoAddress}
    /\ registrations \in [EpochManagers -> [Leaf -> Nat]]
    /\ authorizedIn \in SUBSET EpochManagers
    /\ blocked \in [ComplianceOracles -> SUBSET Address]
    /\ timesSpent \in [Leaf -> Nat]
    /\ wraps \in Int
    /\ paused \in BOOLEAN /\ guardian \in Address
    /\ lastPauseTime \in Nat /\ pauseCount \in Nat
    /\ governance \in Address
    /\ now \in Nat

\* The sum of value[x] over S, as a number of coins: x holds coins 1..value[x].
Coins(S, value) == {coin \in S \X (1..MaxValue) : coin[2] <= value[coin[1]]}
Total(S, value) == Cardinality(Coins(S, value))

\* Notes of the tree that can still be spent.
Unspent == (Committed(Len(leaves)) \ nullifierSpent) \ {ZeroCommitment}

\* Ether held for a commit that was neither revealed nor reclaimed.
Escrow == [h \in CommitHashes |-> IF pendingCommits[h].revealed
                                  THEN 0 ELSE pendingCommits[h].value]

\* The ether of the contract is exactly the pool's balance and the escrowed
\* commits, also while a recipient's code runs in the middle of withdraw or
\* reclaimExpiredCommit: no value is revealed and reclaimed, or paid twice.
Solvency == ethBalance = poolBalance + Total(CommitHashes, Escrow)

\* The notes that can still be spent are worth no more than poolBalance and what
\* sums that wrap in the field have created: value comes from deposits, and a
\* spend that does not wrap creates none.  The circuit checks no range
\* (main.nr:117), so what it guarantees is this and not that wraps is 0.
\* (Less is possible: outputs are not checked for freshness, and two leaves
\* with the same commitment are one note.)
NotesAreBacked == Total(Unspent, NoteValue) <= poolBalance + wraps * FieldOrder

\* NotesAreBacked, when every depositor pays the value that its note binds.
Backed == HonestDeposits => NotesAreBacked

\* A nullifier is consumed at most once, by one transfer or one withdrawal, and
\* nullifierSpent records it.
NoDoubleSpend ==
    \A n \in Leaf : timesSpent[n] = IF n \in nullifierSpent THEN 1 ELSE 0

\* A nullifier reaches the epoch managers at most once in all, whichever
\* managers governance configures over time, and only if it is spent: the
\* managers do not check for duplicates themselves.
RegisteredAtMostOnce ==
    \A m1, m2 \in EpochManagers, n \in Leaf :
        /\ registrations[m1][n] <= timesSpent[n]
        /\ registrations[m1][n] > 0 /\ registrations[m2][n] > 0 => m1 = m2

\* Enabling fixed denominations retires every tier of earlier lists.
AllowedAreTheTiers ==
    allowedDenomination =
        {denominationTiers[i] : i \in 1..Len(denominationTiers)}

\* While the pool is paused no note is created or spent and poolBalance stays;
\* ether leaves only to the depositors of expired commits.
PauseFreezesNotes ==
    [][paused => /\ UNCHANGED <<noteVars, commitmentExists, poolBalance>>
                 /\ ethBalance' # ethBalance =>
                        \E h \in CommitHashes :
                            pendingCommits'[h].value < pendingCommits[h].value]_vars

\* A commit that is never revealed, because the pool was paused or because
\* someone else deposited its commitment first, is refunded in the end.
CommitsAreSettled ==
    \A h \in CommitHashes :
        (/\ pendingCommits[h].depositor # NoAddress
         /\ pendingCommits[h].blockNumber + MAX_COMMIT_DELAY < MaxBlock)
        ~> (pendingCommits[h].depositor = NoAddress \/ pendingCommits[h].revealed)

\* A pause ends even if governance never acts again.
PausesEnd ==
    (paused /\ lastPauseTime + MAX_PAUSE_DURATION <= MaxBlock) ~> ~ paused
=============================================================================
