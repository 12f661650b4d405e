------------------------------- MODULE Relayer -------------------------------
(***************************************************************************)
(* relayer/src: the daemon that carries EpochFinalized events to the hub's *)
(* registry and to the peer chains.  run_relayer starts one watcher per    *)
(* chain, an aggregator and a dispatch loop, joined by two bounded         *)
(* channels:                                                               *)
(*                                                                         *)
(*   chain --stream or polls--> watcher --events--> aggregator             *)
(*                                       --cmds--> dispatch loop --> chain *)
(*                                                                         *)
(* Nothing is persisted: a restart begins with empty channels, and watches *)
(* from the current block on.  A reorganisation finalizes the same epochs  *)
(* again, in blocks of the same numbers.  What a dispatched transaction    *)
(* does on its chain, and whether it succeeds, is not modelled: the daemon *)
(* goes on in the same way.                                                *)
(***************************************************************************)
EXTENDS Naturals, Sequences, SequencesExt

CONSTANTS
    chains,               \* config.chains: the chain ids, in order
    WithAdapter,          \* those with a bridge_adapter_address
    batching_enabled,
    batch_size,
    confirmation_blocks,
    ChannelSize,          \* capacity of the two channels (256 in the code)
    MaxBlock, MaxEpochs,  \* per chain, bounds on its blocks and on its epochs
    MayReorg,             \* the chains that reorganise, once each at most
    MaxFaults             \* bound on reorganisations, failed polls and restarts

ASSUME RelayerAssumption ==
    /\ chains \in Seq(Range(chains)) /\ IsInjective(chains)
    /\ WithAdapter \subseteq Range(chains) /\ MayReorg \subseteq Range(chains)
    /\ "registry" \notin Range(chains)
    /\ batching_enabled \in BOOLEAN /\ batch_size \in Nat
    /\ confirmation_blocks \in Nat /\ ChannelSize \in Nat \ {0}
    /\ \A c \in Range(chains) : MaxBlock[c] \in Nat /\ MaxEpochs[c] \in Nat

WatchedChains == Range(chains)

VARIABLES
    \* The chains: the number of the last block, and for each finalized epoch
    \* (counted from 1 here) the block of its event; the chains that reorganised
    \* while a subscription was there.
    head, finalized, reorged,
    \* Per chain, the watcher: what it does, the subscription's undelivered
    \* logs, the events read and not sent yet, whether the wait for the
    \* confirmations of a log of the subscription is over, and last_block.
    mode, stream, pending, confirmed, last_block,
    \* The channels, the aggregator's batch, the commands it is sending.
    events, batch, outbox, cmds,
    \* Whether the aggregator runs, or ended after the last watcher did.
    aggregator,
    awaiting,             \* whether the dispatch loop awaits a transaction
    \* History: the events that watchers sent since the last restart, the
    \* commands that were dispatched since then, and before.
    sent, done, earlier,
    faults

chainVars    == <<head, finalized, reorged>>
watcherVars  == <<mode, stream, pending, confirmed, last_block>>
queueVars    == <<batch, outbox, aggregator>>
dispatchVars == <<cmds, awaiting>>
historyVars  == <<sent, done, earlier>>
relayerVars  == <<chainVars, watcherVars, events, queueVars, dispatchVars, historyVars,
                  faults>>

Event(c, e) == [chain |-> c, epoch |-> e]

-----------------------------------------------------------------------------
(* Commands of an event: dispatch_event. *)

SubmitToRegistry(event) == [to |-> "registry", event |-> event]
SendToChain(c, event)   == [to |-> c, event |-> event]

\* The events go to every other chain that has an adapter.
is_target(c, event) == c # event.chain /\ c \in WithAdapter

dispatch_event(event) ==
    <<SubmitToRegistry(event)>>
      \o FlattenSeq([i \in 1..Len(chains) |->
                        IF is_target(chains[i], event)
                        THEN <<SendToChain(chains[i], event)>> ELSE << >>])

flush_batch(list) == FlattenSeq([i \in 1..Len(list) |-> dispatch_event(list[i])])

-----------------------------------------------------------------------------
(* The chains. *)

\* A block is produced; it may finalize an epoch, whose log every live
\* subscription receives.  The bound leaves room for the confirmations.
Block(c) ==
    /\ head[c] < MaxBlock[c]
    /\ head' = [head EXCEPT ![c] = @ + 1]
    /\ \/ UNCHANGED <<finalized, stream>>
       \/ /\ Len(finalized[c]) < MaxEpochs[c]
          /\ head[c] + 1 + confirmation_blocks <= MaxBlock[c]
          /\ finalized' = [finalized EXCEPT ![c] = Append(@, head[c] + 1)]
          /\ stream' = IF mode[c] = "ws"
                       THEN [stream EXCEPT ![c] = Append(@, Len(finalized[c]) + 1)]
                       ELSE stream
    /\ UNCHANGED <<reorged, mode, pending, confirmed, last_block, events, queueVars,
                   dispatchVars, historyVars, faults>>

\* The blocks from that of epoch e on are replaced by others that finalize the
\* same epochs.  A subscription is told of the logs removed, and of the new ones;
\* the watcher never looks at log.removed, and sees each epoch twice again.  (To
\* polling, which goes by block numbers, nothing has changed.)
Reorg(c, e) ==
    /\ c \in MayReorg \ reorged /\ mode[c] = "ws"
    /\ faults < MaxFaults /\ faults' = faults + 1
    /\ reorged' = reorged \cup {c}
    /\ LET again == [i \in 1..(Len(finalized[c]) + 1 - e) |-> e + i - 1]
       IN  stream' = [stream EXCEPT ![c] = @ \o again \o again]
    /\ UNCHANGED <<head, finalized, mode, pending, confirmed, last_block, events,
                   queueVars, dispatchVars, historyVars>>

-----------------------------------------------------------------------------
(* watch_chain: a WebSocket subscription, or polling if that fails. *)

Connect(c) ==
    /\ mode[c] = "connecting"
    /\ mode' = [mode EXCEPT ![c] = "ws"]
    /\ UNCHANGED <<chainVars, stream, pending, confirmed, last_block, events, queueVars,
                   dispatchVars, historyVars, faults>>

\* Connecting or subscribing fails; polling starts at the current block, or the
\* watcher gives up when it cannot read that.
FallBack(c) ==
    /\ mode[c] = "connecting"
    /\ \/ /\ mode' = [mode EXCEPT ![c] = "polling"]
          /\ last_block' = [last_block EXCEPT ![c] = head[c]]
       \/ /\ mode' = [mode EXCEPT ![c] = "stopped"]
          /\ UNCHANGED last_block
    /\ UNCHANGED <<chainVars, stream, pending, confirmed, events, queueVars,
                   dispatchVars, historyVars, faults>>

\* The connection of a subscription is lost for good: no further log comes, but
\* those that have come are still there to be read.
ConnectionLost(c) ==
    /\ mode[c] = "ws"
    /\ mode' = [mode EXCEPT ![c] = "lost"]
    /\ UNCHANGED <<chainVars, stream, pending, confirmed, last_block, events, queueVars,
                   dispatchVars, historyVars, faults>>

\* stream.next() returns a log: the watcher keeps to it until it is sent.
Receive(c) ==
    /\ mode[c] \in {"ws", "lost"} /\ pending[c] = << >> /\ stream[c] # << >>
    /\ pending' = [pending EXCEPT ![c] = <<Head(stream[c])>>]
    /\ confirmed' = [confirmed EXCEPT ![c] = confirmation_blocks = 0]
    /\ stream' = [stream EXCEPT ![c] = Tail(@)]
    /\ UNCHANGED <<chainVars, mode, last_block, events, queueVars, dispatchVars,
                   historyVars, faults>>

\* The loop reads a block number that is high enough.  It ignores errors: once
\* the connection is lost every read fails, and the watcher is here for good.
wait_for_confirmations(c) ==
    /\ mode[c] = "ws" /\ pending[c] # << >> /\ ~ confirmed[c]
    /\ head[c] >= finalized[c][Head(pending[c])] + confirmation_blocks
    /\ confirmed' = [confirmed EXCEPT ![c] = TRUE]
    /\ UNCHANGED <<chainVars, mode, stream, pending, last_block, events, queueVars,
                   dispatchVars, historyVars, faults>>

\* stream.next() returns None.  watch_via_ws then returns Ok: there is no fall
\* back to polling.
StreamEnds(c) ==
    /\ mode[c] = "lost" /\ pending[c] = << >> /\ stream[c] = << >>
    /\ mode' = [mode EXCEPT ![c] = "stopped"]
    /\ UNCHANGED <<chainVars, stream, pending, confirmed, last_block, events, queueVars,
                   dispatchVars, historyVars, faults>>

\* The logs of blocks from + 1 .. to that have their confirmations at block to.
confirmed_logs(c, from, to) ==
    FlattenSeq([e \in 1..Len(finalized[c]) |->
                   IF /\ finalized[c][e] \in (from + 1)..to
                      /\ to - finalized[c][e] >= confirmation_blocks
                   THEN <<e>> ELSE << >>])

\* Mutant: last_block moves on only after a poll that found no logs.
PollAgain(c) ==
    /\ mode[c] = "polling" /\ pending[c] = << >> /\ head[c] > last_block[c]
    /\ pending' = [pending EXCEPT ![c] = confirmed_logs(c, last_block[c], head[c])]
    /\ last_block' = [last_block EXCEPT ![c] = IF pending'[c] = << >> THEN head[c] ELSE @]
    /\ UNCHANGED <<chainVars, mode, stream, confirmed, events, queueVars, dispatchVars,
                   historyVars, faults>>

\* One turn of the polling loop; pending logs are sent before the next one.
\* last_block moves on also if get_logs failed.
Poll(c) ==
    /\ mode[c] = "polling" /\ pending[c] = << >> /\ head[c] > last_block[c]
    /\ last_block' = [last_block EXCEPT ![c] = head[c]]
    /\ \/ /\ pending' = [pending EXCEPT ![c] = confirmed_logs(c, last_block[c], head[c])]
          /\ UNCHANGED faults
       \/ /\ faults < MaxFaults /\ faults' = faults + 1
          /\ UNCHANGED pending
    /\ UNCHANGED <<chainVars, mode, stream, confirmed, events, queueVars, dispatchVars,
                   historyVars>>

\* Send on the channel, which waits for room.
SendEvent(c) ==
    /\ pending[c] # << >> /\ (confirmed[c] \/ mode[c] = "polling")
    /\ Len(events) < ChannelSize
    /\ events' = Append(events, Event(c, Head(pending[c])))
    /\ sent' = Append(sent, Event(c, Head(pending[c])))
    /\ pending' = [pending EXCEPT ![c] = Tail(@)]
    /\ confirmed' = [confirmed EXCEPT ![c] = FALSE]
    /\ UNCHANGED <<chainVars, mode, stream, last_block, queueVars, dispatchVars, done,
                   earlier, faults>>

-----------------------------------------------------------------------------
(* run_aggregator.  It receives nothing while it is sending commands. *)

\* Mutant: the event that fills the batch is not in it when it is flushed.
AggregateDrops ==
    /\ aggregator = "running" /\ outbox = << >> /\ events # << >>
    /\ events' = Tail(events)
    /\ IF Len(batch) + 1 >= batch_size
       THEN outbox' = flush_batch(batch) /\ batch' = << >>
       ELSE batch' = Append(batch, Head(events)) /\ UNCHANGED outbox
    /\ UNCHANGED <<chainVars, watcherVars, aggregator, dispatchVars, historyVars, faults>>

\* An event is received: it joins the batch, which is flushed when full, or is
\* dispatched at once.
Aggregate ==
    /\ aggregator = "running" /\ outbox = << >> /\ events # << >>
    /\ events' = Tail(events)
    /\ LET received == Append(batch, Head(events))
       IN  IF batching_enabled /\ Len(received) < batch_size
           THEN batch' = received /\ UNCHANGED outbox
           ELSE batch' = << >> /\ outbox' = flush_batch(received)
    /\ UNCHANGED <<chainVars, watcherVars, aggregator, dispatchVars, historyVars, faults>>

\* Mutant: the timeout does not flush what has accumulated.
BatchTimeoutNever ==
    /\ batching_enabled /\ aggregator = "running" /\ outbox = << >> /\ batch # << >>
    /\ Len(batch) >= batch_size
    /\ outbox' = flush_batch(batch) /\ batch' = << >>
    /\ UNCHANGED <<chainVars, watcherVars, aggregator, events, dispatchVars, historyVars,
                   faults>>

\* No event within batch_timeout.
BatchTimeout ==
    /\ batching_enabled /\ aggregator = "running" /\ outbox = << >> /\ batch # << >>
    /\ outbox' = flush_batch(batch) /\ batch' = << >>
    /\ UNCHANGED <<chainVars, watcherVars, aggregator, events, dispatchVars, historyVars,
                   faults>>

\* The next command is sent to the dispatch loop, when the channel has room.
SendCommand ==
    /\ outbox # << >> /\ Len(cmds) < ChannelSize
    /\ cmds' = Append(cmds, Head(outbox)) /\ outbox' = Tail(outbox)
    /\ UNCHANGED <<chainVars, watcherVars, events, batch, aggregator, awaiting, historyVars,
                   faults>>

\* All watchers are gone and their events received: flush and end.
WatchersClosed ==
    /\ aggregator = "running" /\ outbox = << >> /\ events = << >>
    /\ \A c \in WatchedChains : mode[c] = "stopped"
    /\ aggregator' = "ended"
    /\ outbox' = flush_batch(batch) /\ batch' = << >>
    /\ UNCHANGED <<chainVars, watcherVars, events, dispatchVars, historyVars, faults>>

-----------------------------------------------------------------------------
(* The dispatch loop of run_relayer.  A command is dispatched once: that it  *)
(* failed is logged and counted, and the loop goes on with the next.         *)

\* send_to_chain gives up on a chain that it does not know, or that has no
\* adapter, before any transaction is sent.
send_to_chain(cmd) == cmd.to \in WatchedChains /\ cmd.to \in WithAdapter

submit_to_registry(cmd) == cmd.to = "registry"

\* dispatch comes to send a transaction for the command.
dispatch(cmd) == submit_to_registry(cmd) \/ send_to_chain(cmd)

Dispatch ==
    /\ cmds # << >> /\ ~ awaiting
    /\ cmds' = Tail(cmds)
    /\ LET cmd == Head(cmds)
       IN  IF dispatch(cmd)
           THEN done' = Append(done, cmd) /\ awaiting' = TRUE
           ELSE UNCHANGED <<done, awaiting>>
    /\ UNCHANGED <<chainVars, watcherVars, events, queueVars, sent, earlier,
                   faults>>

\* The transaction is mined, or it reverts, or one of the requests for it fails.
\* Nothing bounds the time until its receipt comes.
send_evm_tx ==
    /\ awaiting /\ awaiting' = FALSE
    /\ UNCHANGED <<chainVars, watcherVars, events, queueVars, cmds, historyVars, faults>>

\* The process dies, or run_relayer returns once the aggregator has ended and
\* its commands are dispatched; docker-compose starts it again.
Restart ==
    /\ faults < MaxFaults /\ faults' = faults + 1
    /\ mode' = [c \in WatchedChains |-> "connecting"]
    /\ stream' = [c \in WatchedChains |-> << >>] /\ pending' = [c \in WatchedChains |-> << >>]
    /\ confirmed' = [c \in WatchedChains |-> FALSE]
    /\ last_block' = [c \in WatchedChains |-> 0]
    /\ events' = << >> /\ batch' = << >> /\ outbox' = << >>
    /\ cmds' = << >> /\ awaiting' = FALSE
    /\ aggregator' = "running"
    /\ sent' = << >> /\ done' = << >> /\ earlier' = earlier \o done
    /\ UNCHANGED chainVars

-----------------------------------------------------------------------------
RelayerInit ==
    /\ head = [c \in WatchedChains |-> 0] /\ finalized = [c \in WatchedChains |-> << >>]
    /\ reorged = {}
    /\ mode = [c \in WatchedChains |-> "connecting"]
    /\ stream = [c \in WatchedChains |-> << >>] /\ pending = [c \in WatchedChains |-> << >>]
    /\ confirmed = [c \in WatchedChains |-> FALSE]
    /\ last_block = [c \in WatchedChains |-> 0]
    /\ events = << >> /\ batch = << >> /\ outbox = << >>
    /\ cmds = << >> /\ awaiting = FALSE
    /\ aggregator = "running"
    /\ sent = << >> /\ done = << >> /\ earlier = << >>
    /\ faults = 0

ChainStep(c) == Block(c) \/ \E e \in 1..Len(finalized[c]) : Reorg(c, e)

WatcherStep(c) ==
    \/ Connect(c) \/ FallBack(c) \/ ConnectionLost(c) \/ StreamEnds(c)
    \/ Receive(c) \/ wait_for_confirmations(c) \/ Poll(c) \/ SendEvent(c)

RelayerNext ==
    \/ \E c \in WatchedChains : ChainStep(c) \/ WatcherStep(c)
    \/ Aggregate \/ BatchTimeout \/ SendCommand \/ WatchersClosed
    \/ Dispatch \/ send_evm_tx \/ Restart

RelayerSpec == RelayerInit /\ [][RelayerNext]_relayerVars

\* tokio runs every task that can go on.  Nothing is assumed of what the daemon
\* asks others for: blocks, block numbers, logs and receipts may never come.
FairSpec ==
    /\ RelayerSpec
    /\ \A c \in WatchedChains :
          WF_relayerVars(Receive(c)) /\ WF_relayerVars(SendEvent(c))
    /\ WF_relayerVars(Aggregate) /\ WF_relayerVars(BatchTimeout)
    /\ WF_relayerVars(SendCommand) /\ WF_relayerVars(Dispatch)

-----------------------------------------------------------------------------
\* The daemon loses, repeats and reorders nothing between the watchers and the
\* transactions: those that were tried, followed by the commands still in the
\* channels, the outbox and the batch, are the commands of the watched events.
PipelineIsExact ==
    done \o cmds \o outbox \o flush_batch(batch \o events) = flush_batch(sent)

\* Restarts, polling and subscriptions included, the epochs of each chain that
\* does not reorganise under a subscription are submitted to the registry in their
\* order and none is submitted twice: what the registry's sequence check relies on
\* (a missed epoch can never follow).
EpochsAreSubmittedInOrder ==
    LET all == earlier \o done
    IN  \A i, j \in 1..Len(all) :
            /\ i < j /\ all[i].to = "registry" /\ all[j].to = "registry"
            /\ all[i].event.chain = all[j].event.chain
            /\ all[i].event.chain \notin reorged
            => all[i].event.epoch < all[j].event.epoch

\* The two waits that nothing bounds: for the confirmations of an event, and for
\* the receipt of a transaction.
AwaitsConfirmations(c) == pending[c] # << >> /\ ~ confirmed[c]

\* A log that reached a subscription is dispatched to the registry, full channels
\* and half-full batches notwithstanding, unless its connection is lost or the
\* daemon restarts first, or the watcher waits for the confirmations of one event,
\* or the dispatch loop for one receipt, forever: one task never blocks another.
SubscribedEpochsAreSubmitted ==
    \A c \in WatchedChains : \A e \in 1..MaxEpochs[c] :
        Contains(stream[c], e)
          ~> \/ Contains(done, SubmitToRegistry(Event(c, e)))
             \/ mode[c] # "ws"
             \/ []AwaitsConfirmations(c)
             \/ []awaiting
=============================================================================
