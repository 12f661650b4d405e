---------------------------- MODULE EpochManager ----------------------------
(***************************************************************************)
(* contracts/core/EpochManager.sol: the nullifiers that the pools of one   *)
(* chain spend, partitioned into epochs.  An epoch is finalized with a     *)
(* Merkle root of its nullifiers, which the bridges carry to other chains. *)
(*                                                                         *)
(* A mapping from addresses to booleans is the set of addresses it maps to *)
(* true; the key of remoteRoots is the hash of a pair, and so the pair.    *)
(* A call that reverts is no step.                                         *)
(***************************************************************************)
EXTENDS EpochRoot

CONSTANTS
    Nullifier,        \* the nullifiers that pools register
    Account,          \* pools, bridges and governance
    Chain,            \* ids of remote chains
    RemoteRoots,      \* roots that bridges deliver
    epochDuration,
    MaxEpoch,         \* bound on currentEpochId
    MaxNullifiers,    \* bound on the nullifiers of an epoch
    MaxTime           \* bound on `now'

ASSUME EpochManagerAssumption ==
    /\ epochDuration \in Nat
    /\ MaxEpoch \in Nat
    /\ MaxNullifiers \in Nat
    /\ MaxTime \in Nat

VARIABLES
    currentEpochId,
    epochs,
    _epochNullifiers,
    remoteRoots,
    localNullifiers,
    authorizedPools,
    authorizedBridges,
    governance,
    now               \* block.timestamp

epochVars == <<currentEpochId, epochs, _epochNullifiers, localNullifiers>>
adminVars == <<authorizedPools, authorizedBridges, governance>>
vars == <<epochVars, remoteRoots, adminVars, now>>

EpochIds == 0..MaxEpoch

\* What a mapping holds before it is written.
NoEpoch == [startTime |-> 0, endTime |-> 0, nullifierRoot |-> Zero,
            nullifierCount |-> 0, finalized |-> FALSE]
NoRemoteRoot == [nullifierRoot |-> Zero, receivedAt |-> 0]

NewEpoch == [startTime |-> now, endTime |-> now + epochDuration,
             nullifierRoot |-> Zero, nullifierCount |-> 0, finalized |-> FALSE]

-----------------------------------------------------------------------------
Init ==
    /\ currentEpochId = 0
    /\ now = 0
    /\ epochs = [e \in EpochIds |-> IF e = 0 THEN NewEpoch ELSE NoEpoch]
    /\ _epochNullifiers = [e \in EpochIds |-> << >>]
    /\ localNullifiers = {}
    /\ remoteRoots = [key \in Chain \X EpochIds |-> NoRemoteRoot]
    /\ authorizedPools = {}
    /\ authorizedBridges = {}
    /\ governance \in Account

\* Mutant: the root is taken of the list of the previous epoch.
FinalizedPrevious(e) ==
    [epochs[e] EXCEPT !.nullifierRoot = _computeNullifierRoot(
                            _epochNullifiers[IF e = 0 THEN 0 ELSE e - 1]),
                      !.endTime = now,
                      !.finalized = TRUE]

\* The record that _finalizeEpochInternal leaves of an epoch that is open.
Finalized(e) ==
    [epochs[e] EXCEPT !.nullifierRoot = _computeNullifierRoot(_epochNullifiers[e]),
                      !.endTime = now,
                      !.finalized = TRUE]

\* Mutant: an epoch may be finalized again.
_finalizeEpochInternalAgain(e) ==
    epochs' = [epochs EXCEPT ![e] = Finalized(e)]

_finalizeEpochInternal(e) ==
    /\ ~ epochs[e].finalized
    /\ epochs' = [epochs EXCEPT ![e] = Finalized(e)]

finalizeEpoch ==
    /\ _finalizeEpochInternal(currentEpochId)
    /\ UNCHANGED <<currentEpochId, _epochNullifiers, localNullifiers,
                   remoteRoots, adminVars, now>>

\* Mutant: an open epoch is left open.
startNewEpochLeavesOpen ==
    /\ now >= epochs[currentEpochId].endTime
    /\ currentEpochId < MaxEpoch
    /\ epochs' = [epochs EXCEPT ![currentEpochId + 1] = NewEpoch]
    /\ currentEpochId' = currentEpochId + 1
    /\ UNCHANGED <<_epochNullifiers, localNullifiers, remoteRoots, adminVars, now>>

\* Anybody may call it, also right after finalizeEpoch, which moves endTime.
startNewEpoch ==
    /\ now >= epochs[currentEpochId].endTime
    /\ currentEpochId < MaxEpoch
    /\ epochs' =
         [epochs EXCEPT ![currentEpochId] =
                            IF @.finalized THEN @ ELSE Finalized(currentEpochId),
                        ![currentEpochId + 1] = NewEpoch]
    /\ currentEpochId' = currentEpochId + 1
    /\ UNCHANGED <<_epochNullifiers, localNullifiers, remoteRoots, adminVars, now>>

\* Mutant: the nullifier goes to the epoch that comes next.
registerNullifierAhead(sender, nullifier) ==
    LET e == IF currentEpochId < MaxEpoch /\ epochs[currentEpochId].finalized
             THEN currentEpochId + 1 ELSE currentEpochId
    IN  /\ sender \in authorizedPools
        /\ Len(_epochNullifiers[e]) < MaxNullifiers
        /\ localNullifiers' = localNullifiers \cup {nullifier}
        /\ _epochNullifiers' = [_epochNullifiers EXCEPT ![e] = Append(@, nullifier)]
        /\ epochs' = [epochs EXCEPT ![e].nullifierCount = @ + 1]
        /\ UNCHANGED <<currentEpochId, remoteRoots, adminVars, now>>

\* Neither a duplicate nor an epoch that is already finalized is rejected.
registerNullifier(sender, nullifier) ==
    /\ sender \in authorizedPools
    /\ Len(_epochNullifiers[currentEpochId]) < MaxNullifiers
    /\ localNullifiers' = localNullifiers \cup {nullifier}
    /\ _epochNullifiers' =
         [_epochNullifiers EXCEPT ![currentEpochId] = Append(@, nullifier)]
    /\ epochs' = [epochs EXCEPT ![currentEpochId].nullifierCount = @ + 1]
    /\ UNCHANGED <<currentEpochId, remoteRoots, adminVars, now>>

\* A root that is there is replaced: the last delivery wins.
receiveRemoteEpochRoot(sender, sourceChainId, epochId, nullifierRoot) ==
    /\ sender \in authorizedBridges
    /\ nullifierRoot # Zero
    /\ remoteRoots' = [remoteRoots EXCEPT ![<<sourceChainId, epochId>>] =
                          [nullifierRoot |-> nullifierRoot, receivedAt |-> now]]
    /\ UNCHANGED <<epochVars, adminVars, now>>

-----------------------------------------------------------------------------
authorizePool(sender, pool) ==
    /\ sender = governance
    /\ authorizedPools' = authorizedPools \cup {pool}
    /\ UNCHANGED <<epochVars, remoteRoots, authorizedBridges, governance, now>>

revokePool(sender, pool) ==
    /\ sender = governance
    /\ authorizedPools' = authorizedPools \ {pool}
    /\ UNCHANGED <<epochVars, remoteRoots, authorizedBridges, governance, now>>

authorizeBridge(sender, bridge) ==
    /\ sender = governance
    /\ authorizedBridges' = authorizedBridges \cup {bridge}
    /\ UNCHANGED <<epochVars, remoteRoots, authorizedPools, governance, now>>

revokeBridge(sender, bridge) ==
    /\ sender = governance
    /\ authorizedBridges' = authorizedBridges \ {bridge}
    /\ UNCHANGED <<epochVars, remoteRoots, authorizedPools, governance, now>>

setGovernance(sender, _governance) ==
    /\ sender = governance
    /\ governance' = _governance
    /\ UNCHANGED <<epochVars, remoteRoots, authorizedPools, authorizedBridges, now>>

NextBlock ==
    /\ now < MaxTime
    /\ now' = now + 1
    /\ UNCHANGED <<epochVars, remoteRoots, adminVars>>

isNullifierSpentGlobal(nullifier) == nullifier \in localNullifiers

-----------------------------------------------------------------------------
EpochStep ==
    \/ startNewEpoch
    \/ finalizeEpoch
    \/ \E sender \in Account, n \in Nullifier : registerNullifier(sender, n)

RemoteStep ==
    \E sender \in Account, c \in Chain, e \in EpochIds, r \in RemoteRoots :
        receiveRemoteEpochRoot(sender, c, e, r)

AdminStep ==
    \E sender, a \in Account :
        \/ authorizePool(sender, a)
        \/ revokePool(sender, a)
        \/ authorizeBridge(sender, a)
        \/ revokeBridge(sender, a)
        \/ setGovernance(sender, a)

Next == EpochStep \/ RemoteStep \/ AdminStep \/ NextBlock

Spec == Init /\ [][Next]_vars

-----------------------------------------------------------------------------
Lists == UNION {[1..count -> Nullifier] : count \in 0..MaxNullifiers}
Root  == {_computeNullifierRoot(list) : list \in Lists}

EpochRecord == [startTime : Nat, endTime : Nat, nullifierRoot : Root,
                nullifierCount : Nat, finalized : BOOLEAN]
RemoteRecord == [nullifierRoot : RemoteRoots \cup {Zero}, receivedAt : Nat]

\* The type invariant.
TypeOK ==
    /\ currentEpochId \in EpochIds
    /\ epochs \in [EpochIds -> EpochRecord]
    /\ _epochNullifiers \in [EpochIds -> Lists]
    /\ remoteRoots \in [Chain \X EpochIds -> RemoteRecord]
    /\ localNullifiers \in SUBSET Nullifier
    /\ authorizedPools \in SUBSET Account
    /\ authorizedBridges \in SUBSET Account
    /\ governance \in Account
    /\ now \in Nat

\* The epochs up to the current one have begun, in the order of time; all but
\* the current one are finalized, so their roots are there to be bridged; and
\* no later epoch holds a nullifier yet.
EpochsAreInOrder ==
    \A e \in EpochIds :
        /\ e < currentEpochId =>
              /\ epochs[e].finalized
              /\ epochs[e].startTime <= epochs[e].endTime
              /\ epochs[e].endTime <= epochs[e + 1].startTime
        /\ e > currentEpochId =>
              ~ epochs[e].finalized /\ _epochNullifiers[e] = << >>

\* The chain's own lookup knows exactly the nullifiers that some epoch holds.
LookupIsUnionOfEpochs ==
    \A n \in Nullifier :
        isNullifierSpentGlobal(n) <=>
            \E e \in 0..currentEpochId :
                \E i \in 1..Len(_epochNullifiers[e]) : _epochNullifiers[e][i] = n

\* A finalized root commits to the epoch's nullifiers up to some point, in the
\* order they were registered: it names no nullifier that was not spent.
RootsCommitToPrefixes ==
    \A e \in EpochIds :
        epochs[e].finalized =>
            \E k \in 0..Len(_epochNullifiers[e]) :
                epochs[e].nullifierRoot =
                    _computeNullifierRoot(SubSeq(_epochNullifiers[e], 1, k))

\* A root that was finalized, and so may have been bridged, never changes, and
\* an epoch that is over takes no further nullifier.
FinalRootsAreFrozen ==
    [][\A e \in EpochIds :
         /\ epochs[e].finalized =>
               /\ epochs'[e].finalized
               /\ epochs'[e].nullifierRoot = epochs[e].nullifierRoot
               /\ epochs'[e].endTime = epochs[e].endTime
         /\ e < currentEpochId => _epochNullifiers'[e] = _epochNullifiers[e]]_vars
=============================================================================
