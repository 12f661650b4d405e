---------------------------- MODULE CrossChainSync ----------------------------
(***************************************************************************)
(* The synchronisation of nullifiers end to end: the EpochManager of a     *)
(* source chain, where a pool spends notes; the hub's                      *)
(* UniversalNullifierRegistry; and the EpochManager of a peer chain, which *)
(* stores the roots of others.                                             *)
(*                                                                         *)
(* Between them run relayers and bridges.  All that is assumed of these is *)
(* that they carry EpochFinalized events that were emitted: each event may *)
(* be delivered late, out of order, again, to one place only, or never.    *)
(***************************************************************************)
EXTENDS UniversalNullifierRegistry

CONSTANTS
    epochDuration,
    SourceChain,      \* the chain id of the source chain
    SourceGovernor,   \* governance of the source chain
    Bridge,           \* the bridge adapter at the hub and at the peer
    Pool,             \* the pool of the source chain
    MaxNullifiers, MaxTime

ASSUME SyncAssumption ==
    /\ SourceChain \in ChainId
    /\ epochDuration \in Nat
    /\ MaxNullifiers \in Nat
    /\ MaxTime \in Nat

VARIABLES
    \* The source chain's epoch manager, and the chain's clock.
    currentEpochId, epochs, _epochNullifiers, localNullifiers, remoteRoots,
    authorizedPools, authorizedBridges, sourceGovernance, now,
    \* The roots that the peer's epoch manager holds.
    peerRoots,
    \* The EpochFinalized events of the source chain.
    finalizedEvents

sourceVars == <<currentEpochId, epochs, _epochNullifiers, localNullifiers,
                remoteRoots, authorizedPools, authorizedBridges,
                sourceGovernance, now, finalizedEvents>>
syncVars == <<sourceVars, vars, peerRoots>>

Source == INSTANCE EpochManager
    WITH Account <- {Pool, SourceGovernor}, Chain <- {}, RemoteRoots <- {},
         governance <- sourceGovernance

\* Of the peer only the receipt of roots matters here.
Peer == INSTANCE EpochManager
    WITH Account <- {Bridge}, Chain <- {SourceChain}, RemoteRoots <- {},
         currentEpochId <- 0, epochs <- << >>, _epochNullifiers <- << >>,
         localNullifiers <- {}, authorizedPools <- {}, governance <- "peer",
         authorizedBridges <- {Bridge}, remoteRoots <- peerRoots

SyncInit ==
    /\ Source!Init /\ sourceGovernance = SourceGovernor
    /\ Init
    /\ peerRoots = [key \in {SourceChain} \X EpochIds |-> Peer!NoRemoteRoot]
    /\ finalizedEvents = {}

-----------------------------------------------------------------------------
\* A transfer or withdrawal on the source chain spends a note: the pool rejects
\* a nullifier that it has seen (PrivacyPool) and registers it otherwise.
Spend(n) ==
    /\ n \notin localNullifiers
    /\ Source!registerNullifier(Pool, n)
    /\ UNCHANGED <<vars, peerRoots, finalizedEvents>>

\* The event of an epoch that the step finalizes.
Emitted == {[epochId |-> e, nullifierRoot |-> epochs'[e].nullifierRoot,
             nullifierCount |-> epochs'[e].nullifierCount] :
                e \in {i \in EpochIds : /\ epochs'[i].finalized
                                        /\ epochs'[i] # epochs[i]}}

EndEpoch ==
    /\ Source!finalizeEpoch \/ Source!startNewEpoch
    /\ finalizedEvents' = finalizedEvents \cup Emitted
    /\ UNCHANGED <<vars, peerRoots>>

\* Blocks are mined on the source chain, whose governance authorizes the pool,
\* or does so no longer: then spends revert.
SourceStep ==
    /\ \/ Source!NextBlock
       \/ Source!authorizePool(SourceGovernor, Pool)
       \/ Source!revokePool(SourceGovernor, Pool)
    /\ UNCHANGED <<vars, peerRoots, finalizedEvents>>

DeliverToHub(event) ==
    /\ submitEpochRoot(Bridge, SourceChain, event.epochId, event.nullifierRoot)
    /\ UNCHANGED <<sourceVars, peerRoots>>

DeliverToPeer(event) ==
    /\ Peer!receiveRemoteEpochRoot(Bridge, SourceChain, event.epochId,
                                   event.nullifierRoot)
    /\ UNCHANGED <<sourceVars, vars>>

\* Anybody may report any value as a nullifier, spent or not, with any proof.
Report(n, epochId, proof) ==
    /\ reportNullifierSpent(SourceChain, n, epochId, proof.siblings,
                            proof.indices)
    /\ UNCHANGED <<sourceVars, peerRoots>>

HubGovernance ==
    /\ \/ registerChain(governance, SourceChain, Bridge)
       \/ deactivateChain(governance, SourceChain)
    /\ UNCHANGED <<sourceVars, peerRoots>>

SyncNext ==
    \/ \E n \in Nullifier : Spend(n)
    \/ EndEpoch
    \/ SourceStep
    \/ \E event \in finalizedEvents : DeliverToHub(event) \/ DeliverToPeer(event)
    \/ \E n \in Presented, e \in EpochIds, p \in Proofs : Report(n, e, p)
    \/ HubGovernance

SyncSpec == SyncInit /\ [][SyncNext]_syncVars

-----------------------------------------------------------------------------
\* The hub and the peer agree with the source chain on every root they hold,
\* whichever way the events were delivered and the chain was registered.
RootsAgree ==
    \A e \in EpochIds :
        /\ epochRoots[SourceChain][e] # Zero =>
               epochRoots[SourceChain][e] = epochs[e].nullifierRoot
        /\ peerRoots[<<SourceChain, e>>].nullifierRoot # Zero =>
               peerRoots[<<SourceChain, e>>].nullifierRoot = epochs[e].nullifierRoot

\* Whatever the hub took for a spent nullifier is under the root of a finalized
\* epoch of the source chain, as its pools had filled it by then: a nullifier
\* that one of them registered, or else a node of that epoch's tree, a zero that
\* pads it or a part of a nullifier, which reportNullifierSpent does not tell
\* from a leaf.
HubReportsAreUnderRoots ==
    \A n \in nullifierSpentGlobal[SourceChain] :
        \E e \in EpochIds : \E k \in 0..Len(_epochNullifiers[e]) :
            /\ epochs[e].finalized
            /\ epochs[e].nullifierRoot =
                  _computeNullifierRoot(SubSeq(_epochNullifiers[e], 1, k))
            /\ Under(SubSeq(_epochNullifiers[e], 1, k), n, Nullifier, Parts)

\* The whole implements SpentSet: of the nullifiers of notes the hub learns only
\* those that were spent on the source chain, and forgets none.
Promise == INSTANCE SpentSet
    WITH spent <- localNullifiers,
         known <- nullifierSpentGlobal[SourceChain] \cap Nullifier

ImplementsSpentSet == Promise!SpentSetSpec
=============================================================================
