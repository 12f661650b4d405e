---------------------- MODULE UniversalNullifierRegistry ----------------------
(***************************************************************************)
(* contracts/core/UniversalNullifierRegistry.sol: the hub that collects    *)
(* the epoch roots of all chains, aggregates them into snapshots, and      *)
(* records nullifiers that are proved to be spent on some chain.           *)
(*                                                                         *)
(* Names, counts and timestamps that no function reads are left out        *)
(* (`name', `lastUpdatedAt', `nullifierCount', a snapshot's `timestamp').  *)
(* A call that reverts is no step.                                         *)
(***************************************************************************)
EXTENDS EpochRootReference, FiniteSets

CONSTANTS
    Account,        \* accounts that send transactions
    governance,     \* set by the constructor, never changed
    ChainId,        \* chain ids, none of them 0
    EpochLists,     \* lists of nullifiers whose roots are submitted
    Nullifier,      \* the nullifiers of notes
    Parts,          \* what they are hashed from: secrets, commitments, domains
    Presented,      \* values that are presented as nullifiers, of notes or not
    Proofs,         \* proofs that come with them: [siblings, indices]
    MaxEpoch,       \* bound on epoch ids
    MaxRegistered,  \* bound on the length of registeredChainIds
    MaxSubmissions, \* bound on the number of roots that are accepted
    MaxSnapshots    \* bound on the number of snapshots

ASSUME RegistryAssumption ==
    /\ governance \in Account
    /\ ChainId \subseteq Nat \ {0}
    /\ MaxEpoch \in Nat
    /\ MaxRegistered \in Nat
    /\ MaxSubmissions \in Nat
    /\ MaxSnapshots \in Nat

\* The lists hold nullifiers that pools have registered.
ASSUME ListsAssumption == EpochLists \subseteq Seq(Nullifier)

\* No note has another's nullifier, or zero, for its secret or its domain.
ASSUME PartsAssumption == Parts \cap (Nullifier \cup {Zero}) = {}

VARIABLES
    chains,
    registeredChainIds,
    epochRoots,
    snapshots,
    globalRoot,
    nullifierSpentGlobal,
    submissions             \* history: the number of roots accepted

rootVars == <<epochRoots, submissions>>
snapshotVars == <<snapshots, globalRoot>>
vars == <<chains, registeredChainIds, rootVars, snapshotVars,
          nullifierSpentGlobal>>

EpochIds == 0..MaxEpoch

\* The roots that are submitted; that of an empty list is zero.
Roots == {_computeNullifierRoot(list) : list \in EpochLists}

\* What a mapping holds before it is written; address(0) sends nothing.
NoChain == [chainId |-> 0, bridgeAdapter |-> Zero, latestEpochId |-> 0,
            latestEpochRoot |-> Zero, active |-> FALSE]

-----------------------------------------------------------------------------
Init ==
    /\ chains = [c \in ChainId |-> NoChain]
    /\ registeredChainIds = << >>
    /\ epochRoots = [c \in ChainId |-> [e \in EpochIds |-> Zero]]
    /\ snapshots = << >>
    /\ globalRoot = Zero
    /\ nullifierSpentGlobal = [c \in ChainId |-> {}]
    /\ submissions = 0

\* Mutant: a test whether the id is listed already is the wrong way round.
registerChainLazily(sender, chainId, adapter) ==
    /\ sender = governance
    /\ ~ chains[chainId].active
    /\ Len(registeredChainIds) < MaxRegistered
    /\ chains' = [chains EXCEPT ![chainId] =
                    [chainId |-> chainId, bridgeAdapter |-> adapter,
                     latestEpochId |-> 0, latestEpochRoot |-> Zero,
                     active |-> TRUE]]
    /\ registeredChainIds' = IF chains[chainId].chainId = 0
                             THEN registeredChainIds
                             ELSE Append(registeredChainIds, chainId)
    /\ UNCHANGED <<rootVars, snapshotVars, nullifierSpentGlobal>>

\* An inactive chain may be registered anew: its record starts over, its entry
\* in registeredChainIds and its epoch roots stay.
registerChain(sender, chainId, adapter) ==
    /\ sender = governance
    /\ ~ chains[chainId].active
    /\ Len(registeredChainIds) < MaxRegistered
    /\ chains' = [chains EXCEPT ![chainId] =
                    [chainId |-> chainId, bridgeAdapter |-> adapter,
                     latestEpochId |-> 0, latestEpochRoot |-> Zero,
                     active |-> TRUE]]
    /\ registeredChainIds' = Append(registeredChainIds, chainId)
    /\ UNCHANGED <<rootVars, snapshotVars, nullifierSpentGlobal>>

\* Mutant: the record of the chain is deleted.
deactivateChainDeletes(sender, chainId) ==
    /\ sender = governance
    /\ chains[chainId].active
    /\ chains' = [chains EXCEPT ![chainId] = NoChain]
    /\ UNCHANGED <<registeredChainIds, rootVars, snapshotVars,
                   nullifierSpentGlobal>>

deactivateChain(sender, chainId) ==
    /\ sender = governance
    /\ chains[chainId].active
    /\ chains' = [chains EXCEPT ![chainId].active = FALSE]
    /\ UNCHANGED <<registeredChainIds, rootVars, snapshotVars,
                   nullifierSpentGlobal>>

updateBridgeAdapter(sender, chainId, newAdapter) ==
    /\ sender = governance
    /\ chains[chainId].chainId # 0
    /\ chains' = [chains EXCEPT ![chainId].bridgeAdapter = newAdapter]
    /\ UNCHANGED <<registeredChainIds, rootVars, snapshotVars,
                   nullifierSpentGlobal>>

onlyAuthorizedBridge(sender, chainId) ==
    /\ chains[chainId].active
    /\ sender \in {chains[chainId].bridgeAdapter, governance}

\* The checks of submitEpochRoot on the epoch: the next in sequence, where a
\* record that still has its initial values expects epoch 0, and not recorded.
Acceptable(chainId, epochId) ==
    LET reg == chains[chainId]
    IN  /\ epochId = IF reg.latestEpochRoot = Zero /\ reg.latestEpochId = 0
                     THEN 0 ELSE reg.latestEpochId + 1
        /\ epochRoots[chainId][epochId] = Zero

\* Mutant: the check for a recorded epoch is missing.
submitEpochRootAgain(sender, chainId, epochId, nullifierRoot) ==
    /\ onlyAuthorizedBridge(sender, chainId)
    /\ submissions < MaxSubmissions
    /\ epochId = IF /\ chains[chainId].latestEpochRoot = Zero
                    /\ chains[chainId].latestEpochId = 0
                 THEN 0 ELSE chains[chainId].latestEpochId + 1
    /\ epochRoots' = [epochRoots EXCEPT ![chainId][epochId] = nullifierRoot]
    /\ chains' = [chains EXCEPT ![chainId].latestEpochId = epochId,
                                ![chainId].latestEpochRoot = nullifierRoot]
    /\ submissions' = submissions + 1
    /\ UNCHANGED <<registeredChainIds, snapshotVars, nullifierSpentGlobal>>

submitEpochRoot(sender, chainId, epochId, nullifierRoot) ==
    /\ onlyAuthorizedBridge(sender, chainId)
    /\ submissions < MaxSubmissions
    /\ Acceptable(chainId, epochId)
    /\ epochRoots' = [epochRoots EXCEPT ![chainId][epochId] = nullifierRoot]
    /\ chains' = [chains EXCEPT ![chainId].latestEpochId = epochId,
                                ![chainId].latestEpochRoot = nullifierRoot]
    /\ submissions' = submissions + 1
    /\ UNCHANGED <<registeredChainIds, snapshotVars, nullifierSpentGlobal>>

-----------------------------------------------------------------------------
\* The entries of registeredChainIds that the loop of createGlobalSnapshot
\* aggregates, and the value of `aggregated' after the first i entries.
Contributes(i) ==
    /\ chains[registeredChainIds[i]].active
    /\ chains[registeredChainIds[i]].latestEpochRoot # Zero

\* Mutant: the root of the first chain is hashed in every round.
AggregateFirst ==
    LET after[i \in 0..Len(registeredChainIds)] ==
          IF i = 0 THEN Zero
          ELSE IF Contributes(i)
               THEN hash(after[i - 1], chains[registeredChainIds[1]].latestEpochRoot)
               ELSE after[i - 1]
    IN  after[Len(registeredChainIds)]

Aggregate ==
    LET after[i \in 0..Len(registeredChainIds)] ==
          IF i = 0 THEN Zero
          ELSE IF Contributes(i)
               THEN hash(after[i - 1], chains[registeredChainIds[i]].latestEpochRoot)
               ELSE after[i - 1]
    IN  after[Len(registeredChainIds)]

createGlobalSnapshot ==
    /\ Len(snapshots) < MaxSnapshots
    /\ snapshots' = Append(snapshots,
          [snapshotId |-> Len(snapshots), aggregatedRoot |-> Aggregate,
           chainCount |-> Cardinality({i \in 1..Len(registeredChainIds) :
                                         Contributes(i)})])
    /\ globalRoot' = Aggregate
    /\ UNCHANGED <<chains, registeredChainIds, rootVars, nullifierSpentGlobal>>

\* Mutant: an epoch that was not recorded is not rejected, nor its proof.
reportNullifierSpentUnproved(chainId, nullifier, epochId, proof, pathIndices) ==
    /\ chains[chainId].chainId # 0
    /\ nullifier \notin nullifierSpentGlobal[chainId]
    /\ \/ epochRoots[chainId][epochId] = Zero
       \/ _verifyInclusion(nullifier, epochRoots[chainId][epochId], proof,
                           pathIndices)
    /\ nullifierSpentGlobal' =
         [nullifierSpentGlobal EXCEPT ![chainId] = @ \cup {nullifier}]
    /\ UNCHANGED <<chains, registeredChainIds, rootVars, snapshotVars>>

\* Anybody may call it; a chain that was deactivated still counts.
reportNullifierSpent(chainId, nullifier, epochId, proof, pathIndices) ==
    /\ chains[chainId].chainId # 0
    /\ nullifier \notin nullifierSpentGlobal[chainId]
    /\ epochRoots[chainId][epochId] # Zero
    /\ _verifyInclusion(nullifier, epochRoots[chainId][epochId], proof,
                        pathIndices)
    /\ nullifierSpentGlobal' =
         [nullifierSpentGlobal EXCEPT ![chainId] = @ \cup {nullifier}]
    /\ UNCHANGED <<chains, registeredChainIds, rootVars, snapshotVars>>

\* The chain where a nullifier was spent: the first one of the list where it
\* is reported, 0 if there is none.
isNullifierSpentGlobally(nullifier) ==
    LET hits == {i \in 1..Len(registeredChainIds) :
                    nullifier \in nullifierSpentGlobal[registeredChainIds[i]]}
    IN  IF hits = {} THEN [spent |-> FALSE, spentOnChainId |-> 0]
        ELSE [spent |-> TRUE,
              spentOnChainId |-> registeredChainIds[
                                   CHOOSE i \in hits : \A j \in hits : i <= j]]

-----------------------------------------------------------------------------
GovernanceStep ==
    \E sender \in Account, c \in ChainId :
        \/ \E a \in Account : registerChain(sender, c, a)
        \/ deactivateChain(sender, c)
        \/ \E a \in Account : updateBridgeAdapter(sender, c, a)

Next ==
    \/ GovernanceStep
    \/ \E sender \in Account, c \in ChainId, e \in EpochIds, r \in Roots :
          submitEpochRoot(sender, c, e, r)
    \/ createGlobalSnapshot
    \/ \E c \in ChainId, n \in Presented, e \in EpochIds, p \in Proofs :
          reportNullifierSpent(c, n, e, p.siblings, p.indices)

Spec == Init /\ [][Next]_vars

-----------------------------------------------------------------------------
\* The global lookup finds a nullifier exactly if it is reported on some chain,
\* and names a chain where it is: deactivating a chain, or registering it anew,
\* hides none of its reports.
LookupFindsReports ==
    \A n \in Presented :
        LET answer == isNullifierSpentGlobally(n)
        IN  /\ answer.spent <=> \E c \in ChainId : n \in nullifierSpentGlobal[c]
            /\ answer.spent => n \in nullifierSpentGlobal[answer.spentOnChainId]

\* What is reported on a chain is under the root of a list that was recorded for
\* that chain, a proof made for one chain doing nothing on another: a note's
\* nullifier is an element of the list; any other value is one of the zeros that
\* pad the list, a node of its tree, or what a nullifier is the hash of.
ReportsAreCommitted ==
    \A c \in ChainId : \A n \in nullifierSpentGlobal[c] :
        \E e \in EpochIds, list \in EpochLists :
            /\ epochRoots[c][e] = _computeNullifierRoot(list)
            /\ Under(list, n, Nullifier, Parts)

\* Once the root of a list of two or more nullifiers is recorded for a chain,
\* reportNullifierSpent can be called with the Merkle proof of any of them:
\* whatever governance does to the chain later, it stays known, and the registry
\* accepts the proofs against the root that the chain's epoch manager computed.
MembersStayReportable ==
    \A c \in ChainId, e \in EpochIds, list \in EpochLists :
        /\ epochRoots[c][e] # Zero
        /\ epochRoots[c][e] = _computeNullifierRoot(list)
        => chains[c].chainId # 0 /\ MembersAreProvable(list)

\* A recorded root and a report are there for good, whatever governance does
\* to the chain.
RecordsAreFinal ==
    [][\A c \in ChainId :
         /\ \A e \in EpochIds : epochRoots[c][e] # Zero =>
                                    epochRoots'[c][e] = epochRoots[c][e]
         /\ nullifierSpentGlobal[c] \subseteq nullifierSpentGlobal'[c]]_vars

ActiveChains == {c \in ChainId : /\ chains[c].active
                                 /\ chains[c].latestEpochRoot # Zero}

\* The hash of the latest roots of chains w[1], ..., w[n], on top of each other.
Chained(w, n) ==
    LET after[i \in 0..n] ==
          IF i = 0 THEN Zero ELSE hash(after[i - 1], chains[w[i]].latestEpochRoot)
    IN  after[n]

\* A new snapshot, and the global root with it, commits to the latest root of
\* each active chain that has one, and to nothing else: of as many as it counts,
\* each chain once if no chain was ever registered anew.
SnapshotsCoverActiveChains ==
    [][snapshots' # snapshots =>
          LET new == snapshots'[Len(snapshots')]
          IN  \E w \in [1..new.chainCount -> ActiveChains] :
                 /\ new.aggregatedRoot = Chained(w, new.chainCount)
                 /\ globalRoot' = new.aggregatedRoot
                 /\ \A c \in ActiveChains : \E i \in 1..new.chainCount : w[i] = c
                 /\ (\A i, j \in 1..Len(registeredChainIds) :
                        registeredChainIds[i] = registeredChainIds[j] => i = j)
                       => \A i, j \in 1..new.chainCount : w[i] = w[j] => i = j]_vars
=============================================================================
