# A verification of the Soul privacy pool

TLA+ specifications of the privacy pool stack of this repository: a UTXO pool
per chain, in five implementations (Solidity, Substrate, CosmWasm, NEAR, ink!),
the epochs that collect spent nullifiers, the hub that aggregates epoch roots of
all chains, the relayer that carries them, and the synchronisation between them.
TLC checks small instances; TLAPS proves every safety property of the state
machines for every value of the constants.

Paths below are relative to the repository (`src/` in `PROJECT.json`).

## 1. The system

Inventory of the parts, with the state each keeps, what can be done to it, and
what makes it correct.

| Part | State | Operations | Correct when |
|---|---|---|---|
| `contracts/libraries/MerkleTree.sol` | cached left subtrees, ring of recent roots, next index | `init`, `insert`, `isKnownRoot` | the root is that of the tree over all leaves; exactly the recent roots are known |
| `contracts/core/PrivacyPool.sol` | spent nullifiers, known commitments, pool balance, pending commits, denomination tiers, reentrancy guard, addresses of collaborators | deposit, commit/reveal/reclaim, transfer, withdraw, governance setters | a note is spent once, value is neither created nor lost, escrow is paid back once |
| `contracts/core/EmergencyPause.sol` | paused, guardian, time of the last pause | pause, unpause, setGuardian | a pause freezes the notes, and ends |
| `contracts/core/EpochManager.sol` | current epoch, epochs with roots, nullifier lists, remote roots, authorized pools and bridges | start/finalize epoch, register nullifier, receive remote root, governance | finalized roots are true and final, no nullifier is lost |
| `contracts/core/UniversalNullifierRegistry.sol` | record per chain, epoch roots, reported nullifiers, snapshots | register/deactivate chain, submit root, snapshot, report with proof | history is final, reports are proved, submission is sequential |
| `contracts/core/ComplianceOracle.sol` | blocked accounts and commitments, audit keys | block, unblock, check | a blocked party is refused |
| `contracts/core/GovernanceTimelock.sol` | queued transactions, delay, admin | queue, execute, cancel, change delay/admin | nothing executes before its delay, twice, or after cancellation |
| `contracts/core/MultiSigGovernance.sol` | owners, threshold, proposals, confirmations | submit, confirm, revoke, execute, change owners | what executes has the confirmations of enough owners |
| `contracts/core/RelayerFeeVault.sol` | stakes, claimable fees, vault balance | register, credit, claim, slash, deregister | ether covers stakes, fees and vault; no relay is paid twice |
| `contracts/bridges/*` | routes, peers, processed messages | send, receive | a message is processed once and only from its peer |
| `relayer/` (watcher, aggregator, dispatcher) | block cursor and subscription per chain, two bounded channels, batch; nothing on disk | watch, fall back to polling, aggregate, flush, dispatch, restart | what is watched is submitted, once and in order |
| `pallets/privacy-pool` | the pool, its tree and epochs in runtime storage; the currency's accounts | deposit, transfer, withdraw, finalize_epoch, sync_epoch_root | as the pool; the account covers the counted balance |
| `cosmwasm/contracts/privacy-pool` | the same in contract storage, as hexadecimal strings | the same, and governance messages | as the pool; only the accepted coin counts |
| `near/contracts/privacy-pool` | the same; payouts are receipts that run later | the same | as the pool; failed payouts are accounted for |
| `ink/privacy-pool` | nodes of the tree in a map, pending commits, pause flag | the same, commit, reveal, reclaim, pause | as the pool; a commit ends once; a pause stops value |
| `noir/circuits/*` | none | statements | inputs and outputs balance |
| `lumora-coprocessor/`, `sdk/`, `sdks/python`, `subgraph/` | wallets, jobs, indexed events | build proofs and transactions | notes are selected and recorded once |

How they interact. A pool calls its epoch manager for every nullifier it spends
and its compliance oracle for every spend. A finalized epoch emits
`EpochFinalized`; relayers observe it and, through bridge adapters, deliver the
root to the hub (`submitEpochRoot`) and to the epoch managers of other chains
(`receiveRemoteEpochRoot`). Anybody may then prove to the hub, with a Merkle
proof, that a nullifier was spent on a chain. Governance (a multi-signature
wallet behind a timelock) configures all of them. The pools of the other
platforms have their epochs built in and receive remote roots from governance or
an authorised relayer. Inside the relayer one watcher task per chain sends
events to the aggregator, which sends commands to the dispatch loop.

What is hard:

- *Re-entry.* `withdraw` and `reclaimExpiredCommit` call accounts that run code
  and may enter the functions that have no guard.
- *Time and pause.* Commits mature and expire by block number, while the pool is
  paused and unpaused and others deposit the same commitment.
- *Stale roots.* Proofs refer to roots that later insertions have replaced.
- *Indices.* The incremental tree and the in-place reduction of an epoch's
  nullifiers depend on parities and on lengths that are no powers of two.
- *Unreliable delivery.* Epoch roots arrive late, twice, out of order or never,
  while the hub accepts them in sequence only.
- *Life cycles.* Chains are deactivated and registered anew, managers replaced,
  tiers retired, epochs finalized early.
- *Platforms.* An account below the existential deposit is reaped; a payout runs
  after the call that asked for it; a panic undoes one message and leaves the
  data that causes it in place.
- *The relayer's tasks.* Bounded channels between tasks that wait on each other,
  batches that never fill, requests that fail or are never answered, connections
  that are lost, chains that reorganise, restarts that forget everything.
- *Numbers.* The circuit adds values in a field; the registry does not ask how
  deep a proof should be.

The hazards, each at its line and with the properties that guard it, are listed
in `PROJECT.json`.

## 2. Modules

    RootHistory <----implements---- MerkleTree --+
         ^                                       |   PrivacyPool_proofs
         | extends                EmergencyPause |   (of both)
         +---------- PrivacyPool ------^         |
                                                 |
    MerkleReference <---------------- extends ---+
         ^           <--- PalletPool   --+           PalletPool_proofs
         |           <--- CosmWasmPool --+           CosmWasmPool_proofs
         |           <--- NearPool     --+           NearPool_proofs
         |           <--- InkPool      --+           InkPool_proofs
         |                               +--implements--> PoolLedger
         +--- MerkleReference_proofs
         |
         +--- EpochRootReference <-----------+
                   | extends                 |
                   v                         | extends
               EpochRoot <--- EpochManager   |       EpochManager_proofs
                              ^ instances    |       (and of Relayer)
                              |              |
                              |  UniversalNullifierRegistry
                              |     ^ extends
                              |     |
                          CrossChainSync --implements--> SpentSet
                                                     CrossChainSync_proofs

    Relayer                      Poseidon

`MC...` modules give the constants of the checked instances. `MerkleReference`
(what a root commits to, and a tree built from scratch) and `EpochRootReference`
(the padded tree of an epoch, and the proofs read from it) hold the definitions
that the code is compared with. A `_proofs` module extends the module in its
line; `MerkleReference_proofs` has the lemmas about trees and induction that the
others share. `PrivacyPool_proofs` also has the proofs about `MerkleTree`,
`EpochManager_proofs` those about `Relayer`, and `CrossChainSync_proofs` those
about `EpochRoot` and the registry, which its module extends.

**Conventions.** Operators have the names of the functions they model. A call
that reverts is no step. A mapping to booleans is the set of keys mapped to
true. Hashes are free constructors (records), hence injective: Poseidon and
keccak are assumed collision free. An operator marked "Mutant" differs from the
definition after it in one plausible mistake; nothing uses it except the test
that the properties notice the mistake.

**MerkleTree / RootHistory.** `MerkleTree` has the arrays of the library:
`filledSubtrees`, `roots` as a ring, `currentRootIndex`, `nextLeafIndex`. `insert`
is the loop over the levels, as functions of the level. The state is prefixed
where a proof module sees it beside the pool's (`TreeSpec`). `RootHistory` is what
users of the library rely on: an append-only list, each recent version of which
can be recognised by its root. A root is named by the length of the list it
commits to.

**PrivacyPool** builds on `RootHistory` and `EmergencyPause` (the mixin). A
commitment stands for the note it binds and names the note's nullifier; the
verifier accepts exactly the statement of the transfer circuit, with the exit
value added on the output side for withdrawals. As in the circuit, values are
added as elements of a field and no range is checked: the sums agree modulo
`FieldOrder`. The history variable `wraps` counts by how many multiples of it the
spends so far have paid out more than they consumed. A function that sends ether is
two steps, the effects up to the call and `callReturns`; in between every other
action that the guard does not exclude may happen, which is re-entry.
`timesSpent` is a history variable. `registrations`, `authorizedIn` and
`blocked` stand for the epoch managers and oracles, which the pool only calls;
`Environment` changes them at any time. `HonestDeposits` says whether
depositors pay the value their commitment binds; the contract does not check it.

**EpochRoot** holds the pure parts: the in-place reduction of an epoch's
nullifiers to a root and the registry's verification of inclusion proofs, of any
depth up to `MAX_PROOF_DEPTH` and for any value. Loops
are recursive functions, so that the modules that use it can be proved about.
`EpochRootReference` says what they should agree on, for a list given as a
parameter: the members of the list have proofs; and whatever has one is *under*
the root (`Under`), a node of the tree, a zero that pads it, or a part of a leaf. The
registry accepts these too, since it asks neither for the height of the tree nor
for a leaf; the properties say that it accepts nothing else, and the nullifier of
a note only if it is in the list.

**EpochManager** has one action per function. The key of `remoteRoots` is the
hash of a pair, so it is the pair.

**UniversalNullifierRegistry** leaves out names and timestamps, which nothing
reads. `submissions` is a history variable. Anything may be reported
(`Presented`): `Nullifier` are the nullifiers of notes, and `Parts` the values that
these are hashed from, which open a leaf of the tree as if it were a node.

**SpentSet** is the abstract view of synchronisation: nullifiers are spent
somewhere, and a spent nullifier may become known at the hub.
**CrossChainSync** extends the registry, and adds the epoch manager of a source
chain and that of a peer. Relayers and bridges are a channel that carries
emitted events only, each any number of times, in any order, or never.

**PoolLedger** is what a shielded pool promises on any platform: an append-only
list of notes, a set of spent nullifiers that grows by two new ones at a time,
and a balance that deposits raise and withdrawals lower. Its list of notes is
mapped to *what the latest Merkle root commits to* (`LeavesUnder` takes a root
apart), so a tree whose root misses, repeats or reorders a note does not
implement it.

**PalletPool**, **CosmWasmPool**, **NearPool**, **InkPool** have one action per
dispatchable, message or call, with every check of it as a guard; an error or a
panic undoes the call, so it is no step. Proofs are what the verifiers look at:
a size and the inputs that the binding tag was computed over; as in the code,
nothing else of a proof is checked on these platforms. What differs:

- the pallet moves balances of `pallet_balances` (external), which reaps
  accounts; `dust` is what that took from the pool's account;
- the CosmWasm contract compares strings, and reads them only to hash them: `Word`
  is that reading (`hex_to_32` and the reduction modulo the field's order). Two
  spellings may have one word, and a string that has none is accepted as a
  nullifier and makes the hash of its epoch panic;
- a NEAR withdrawal leaves a receipt, which a later step runs or returns; other
  accounts, and the runtime with its share of burnt gas, may add to the
  contract's account (`ReceiveDirectly`). Its hash takes the two strings run
  together; they are assumed to be of one length, as every client makes them;
- the ink! contract reads inner nodes from a map in which absent nodes are zero,
  hashes commits with a delay window, and can be paused. `fate` is a history
  variable. Its tree depth of 32 is the width of its leaf index: moving the index
  past the last leaf overflows and panics, so that leaf is never used. The bound
  `1u32 << TREE_DEPTH` of the `TreeFull` check is no `u32` either, which rustc
  reports; the model gives it the meant value 2^TREE_DEPTH, with which the check
  never fires before the overflow.

**Relayer** has the tasks of `run_relayer`: per chain a watcher that subscribes
or polls, the aggregator, the dispatch loop, and the two channels between them.
Sending on a full channel waits. A subscription's connection may be lost at any
time (`ConnectionLost`): the logs that have come are still read, then the stream
ends and the watcher with it; but if an event waits for its confirmations then, it
waits for good, because the loop ignores errors. A chain may reorganise under a
subscription, which delivers the removed logs and the new ones (`Reorg`). The
dispatch loop awaits the receipt of each transaction for as long as that takes
(`awaiting`). `Restart` is the end of the process and its start by docker-compose;
nothing survives it but the chains. `sent`, `done`, `earlier` and `reorged` are
history variables. Reorganisations, failed polls and restarts are bounded together
(`MaxFaults`).

**Poseidon** runs the two Rust ports of the permutation, all 65 rounds (8 full,
57 partial), on the same inputs. The field is scaled to two digits in base 16
instead of four limbs of 64 bits; every round constant and matrix entry is the
last byte of the source's (the ports have equal tables, so they are written
once). The stand-ins of the moduli are 167 for the scalar field and 173 for the
base field; read from the wrong end, as the pallet reads its limbs, 173 is 218.

## 3. What TLC checks

| Run | Instance | What it shows |
|---|---|---|
| `trees` | depth 3, 3 root slots, leaves `a`, `b` and zero; all epochs of up to 8 nullifiers, proofs tried on those of up to 5, with leaves, nodes and padding as what they prove | the library implements `RootHistory`, exactly the last 3 roots are known; members of an epoch have proofs that the registry accepts; otherwise only nodes and padding of the tree have |
| `pool_notes` | 3 notes and the zero commitment, capacity 6, 2 known roots, 2 epoch managers, 1 commit, a field of order 3 | two rounds of spends, repeated commitments, stale roots, managers replaced: no double spend, no note registered twice, ether equals pool balance plus escrow, unspent notes are backed but for sums that wrap |
| `pool_live` | 1 commit, 2 pauses, tiers, an oracle, 6 blocks | every commit is revealed or refunded once and every pause ends; a pause freezes notes; retired tiers are no longer allowed |
| `epochs` | 2 epochs of 2 nullifiers, early and late finalization, a remote chain | past epochs are finalized, ordered and frozen; roots commit to prefixes of the lists; the lookup loses nothing |
| `registry` | 2 chains registered up to 3 times in all, 2 epochs, roots of 0, 1, 2 and 3 nullifiers; a nullifier, an inner node, the padding and a preimage are presented, with fitting and other proofs | records are final, reports are under a root recorded for their own chain and always found, members of a recorded epoch stay reportable, a snapshot commits to the latest root of each active chain |
| `cross_chain` | 2 epochs, 3 nullifiers, one renewal of the chain's registration; leaves, nodes and padding are presented | hub and peer hold only roots the source chain finalized; what the hub records is under a finalized root; the composition implements `SpentSet` for the nullifiers of notes |
| `pallet` | depth 3, 4 commitments and zero, 2 root slots, 4 nullifiers, lists of 3, 2 epochs, existential deposit 2 | implements `PoolLedger`, up to a full tree; each spent nullifier is listed once and finalized roots commit to their lists, also when a list has room for one of two; funds cover the pool up to dust |
| `cosmwasm` | depth 2, 2 root slots; a commitment and a nullifier in two spellings, one of each that is no word; lists of 3, 2 epochs, two coins | the same, also when the tree has room for one of two; a coin that is not accepted is never counted |
| `near` | depth 2, 2 root slots, 4 nullifiers, lists of 3, 2 epochs; recipients that do not exist or are the contract; direct transfers | the same, also when the tree has room for one of two; the account is the counted balance plus what came in without a deposit |
| `ink` | depth 2, 4 commitments and zero, one commit, 4 blocks | implements `PoolLedger` with its own tree, up to three of the four leaves; a commit ends once; epoch snapshots commit to prefixes of the notes; a pause leaves only reveals |
| `relayer` | 2 chains, 3 epochs, channels of 1, batches of 2; one restart, failed poll or reorganisation; connections lost at any time, confirmations and receipts that never come | between watchers and transactions nothing is lost, repeated or reordered; no epoch of a chain that did not reorganise is submitted twice or after a later one, restarts included; what reaches a subscription is submitted, unless its connection is lost or one wait never ends |

The bounds. In `trees`, depth 3 makes the path turn both ways at every level and
fills the tree. In `pallet`, four deposits and two joins fill a tree of depth 3. The
other pools have depth 2, at which a spend can also find room for one of its two
notes; in `ink` the last leaf stays empty, as in the code, so that three leaves are
all there are. What deeper trees do is left to the theorems. Two or three slots
make the ring wrap. A field of order 3 lets the sum of two values wrap. Three
notes and the zero commitment are needed to turn two notes into two fresh ones,
and capacity 6 for a second spend after that. Commit and pause runs have enough blocks for a commit made in
the first block to mature, expire and be reclaimed, before, in and after a pause.
Lists of up to eight nullifiers give epoch trees of heights 1 to 3 with and
without padding. Two
epochs show every transition between an epoch and the next; the theorems cover
any number. Lists of three nullifiers are odd, so that a spend can find room for
one of its two. In `relayer` every channel can be full and every batch half full
at any time, and two epochs of one chain are enough for an order; the third
comes from another chain, the one that may reorganise. Symmetry is used where no
property and no constant tells the values apart, and only for safety.

Fairness. `pool_live`: blocks are mined; a call to an account returns (it runs
out of gas at the latest); somebody who is not governance calls `unpause` after
the maximal duration, which the contract lets anybody do; a depositor reclaims an
expired commit. Nothing is assumed of governance or the guardian. The number of
pauses is bounded (`MaxPauses`), because a guardian may pause again after each
one. `relayer`: tokio runs each task that can go on: a watcher with a log, or
with an event that is confirmed and room in the channel; the aggregator with an
event, past its timeout, or with a command and room; the dispatch loop with a
command when no receipt is awaited. Nothing is assumed of what the daemon asks of
others: new blocks, block numbers, logs and receipts may never come, and
connections may be lost. So `SubscribedEpochsAreSubmitted` has exceptions: the
subscription is over or its connection lost, its watcher waits for one event's
confirmations forever, or the dispatch loop for one receipt forever. What it shows
is that nothing else holds an event up, and that the wait of one watcher holds up
none of another.

### A disagreement between code and comments

`poseidon` (expected to be violated): the pallet declares the "BN254 scalar field
modulus", most significant limb first. The limbs are the digits of the curve's
*base* field, and `sp_core::U256` takes its first limb for the least significant
one, so the pallet computes modulo a third number. Its hashes are then not those
of the CosmWasm contract, which says that it matches the Solidity library
exactly. With the right limbs the property holds.

### Observations without a run

Found while modelling, visible from the lines named.

- `PrivacyPool.sol:211`: a deposit is accepted for whatever amount is sent; the
  value a note binds is not compared with it, although the deposit circuit
  exposes the value "for value matching". `Backed` therefore has `HonestDeposits`
  as a premise.
- `noir/circuits/transfer/src/main.nr:117`: values are added in the field, and no
  range is checked: the outputs may be worth more than the inputs by a multiple of
  the field's order. `Backed` counts these (`wraps`).
- `EpochManager.sol:124`: nullifiers registered between `finalizeEpoch` and
  `startNewEpoch` belong to an epoch whose root is fixed: they are in no root.
- `UniversalNullifierRegistry.sol:184`: after an empty epoch 0, whose root is
  zero, the registry expects epoch 0 again, not epoch 1. `:137`: a chain that is
  deactivated and registered anew can submit nothing any more, since epoch 0 is
  recorded and no other is expected. It is in `registeredChainIds` twice, so a
  snapshot can count it twice (hence the premise of
  `SnapshotsCoverActiveChains`). The single nullifier of an epoch is its own root
  and cannot be reported, since empty proofs are rejected (hence the premise of
  `MembersAreProvable` in `EpochRootReference`). `:280`: inner nodes of an epoch's
  tree, the zeros that pad it and what a nullifier is hashed from have proofs, and
  are recorded as nullifiers when presented (`Under`); none of them is the
  nullifier of a note that was not spent.
- `EpochManager.sol:141`: a second root for the same chain and epoch replaces the
  first. That the peer's copies agree (`RootsAgree`) rests on the bridges, which
  carry only what was emitted.
- `watcher.rs:153`: a poll moves past blocks whose logs it failed to read and
  past logs that lack confirmations, and never returns to them; with
  `confirmation_blocks > 0` polling reports only epochs that are that old when
  first seen. The repository's README says of the relayer that it "watches
  `EpochFinalized` events on each chain and propagates epoch roots". `:88`: a
  subscription that ends is not replaced by polling, though the repository's
  README (line 215) has "WebSocket subscriptions with HTTP polling fallback": that
  is what happens when connecting fails. `:207`: when the connection is lost while
  an event waits for its confirmations, the loop goes on for good. `:59`: logs that
  a reorganisation removed are taken for new ones.
- `dispatcher.rs:203`: the receipt is awaited without a timeout; one transaction
  that is never mined stops the dispatch of all others.
- `dispatcher.rs`: `submitEpochRoot` is encoded with a `uint32` count and the
  remote call as `receiveRemoteRoot`, while the contracts have `uint256` and
  `receiveRemoteEpochRoot`; the destination passed to `sendMessage` is the source
  chain. `lib.rs:124` of the relayer uses `chain_config` after it was moved.
- `aggregator.rs:145`: an empty jitter range panics.
- CosmWasm: a malformed nullifier that was spent together with another makes
  `finalize_epoch` panic from then on. Coins attached to messages other than a
  deposit stay in the contract uncounted. CosmWasm and NEAR compare hashes as
  strings, so two spellings of one word are two nullifiers, or two commitments;
  NEAR hashes the strings run together, so that pairs of strings of other lengths
  may have one hash.
- NEAR: a payout that fails returns to the account and to nobody's note
  (it is in `unclaimed`). ink!: reclaiming an expired commit pays nothing back, and
  nothing ties a revealed commitment to its commit hash; a commit can be revealed
  while the pool is paused, which the Solidity pool forbids.

## 4. What is proved

All theorems are about the specifications that TLC checks, with constants
restricted only by the named assumptions of the modules (`PoolAssumption`,
`HistoryAssumption`, `EpochRootAssumption`, `EpochManagerAssumption`,
`RegistryAssumption`, `SyncAssumption`, `PalletAssumption`, `CosmWasmAssumption`,
`NearAssumption`, `InkAssumption`, `MerkleTreeAssumption`, `RelayerAssumption`):
sizes and bounds are naturals, zero is no commitment, the pool's account is no
user's, sets that are summed over are finite, chain ids are distinct and none is
the name of the registry. `PowersOfTwo` of the pools and of the library says that
2^(n+1) is twice 2^n up to the depth of the tree: arithmetic that the provers do
not have, which TLC evaluates; the theorems about the proofs that the registry
accepts have it as a hypothesis. Hashes of trees are pairs. A nullifier may be a pair, as it is a hash: what it is hashed from
are its *parts*, and the theorems about the registry assume that no part is zero or
a nullifier itself, and that zero is no hash (`LeavesAreApart`; `PartsAssumption` in
the registry). `LibraryKnowsTheRecentRoots` assumes that no hash is zero. Values
presented to the registry and proofs are not restricted.

`PrivacyPool_proofs`:

- `PoolTypeCorrect`: the type invariant is inductive.
- `PoolNoDoubleSpend`: `timesSpent` is the characteristic function of
  `nullifierSpent`; inductive with the type.
- `PoolRegistersOnce`: a nullifier reaches at most one epoch manager, once. It
  needs `NoDoubleSpend`: a spend finds the counters of its nullifiers at zero.
- `PoolSolvent`: the ether is pool balance plus escrow. Sums are cardinalities
  of sets of coins, so that the library's theorems on finite sets apply. It is
  not inductive alone: a record that was never written must hold nothing
  (`EmptyRecords`), or a commit would overwrite value.
- `PoolBacked`: unspent notes are worth no more than the pool's balance plus what
  sums that wrapped in the field have created, if depositors pay what their notes
  bind. The strengthening adds that an
  unrevealed commit holds the value of its note (`HonestEscrow`), which is what
  a reveal turns into a note later.
- `PoolTiersExact`: the allowed amounts are those of the latest list of tiers.
- `PoolPauseFreezes`: the action property that a paused pool makes and spends no
  note and pays only refunds, also when the pause falls inside a call.

`PrivacyPool_proofs`, about the Solidity library:

- `LibraryImplementsRootHistory`: every insertion appends its leaf, moves the ring
  on by one slot, and leaves there the root of the textbook tree over all leaves.
  The inductive invariant is `LibraryInv`. That the latest root is right is not
  enough: the next insertion reads `filledSubtrees`, so these are nodes of the
  reference tree wherever the path of the next index turns right (`LeftNodes`);
  and each slot of the ring holds the root of the version of its age, or was never
  written (`RingHolds`). The step is `InsertCells` below, with the precomputed
  zeros for right siblings.
- `LibraryKnowsTheRecentRoots`: `isKnownRoot` accepts exactly the roots of the last
  ROOT_HISTORY_SIZE versions. From `RingHolds`; that no hash is zero is needed
  because unwritten slots are zero, and zero is rejected.

`EpochManager_proofs`:

- `EpochsTypeCorrect`, `LookupCorrect`: inductive with the type.
- `EpochsOrdered`: past epochs are finalized and follow each other in time.
  Needs that no time recorded as a start or as a final end lies in the future
  (`Clock`).
- `RootsSound`: a finalized root commits to a prefix of its epoch's list, also
  after late registrations.
- `RootsFrozen`: the action property that finalized roots and past epochs never
  change.

`EpochManager_proofs`, about the relayer (`RelayerSpec`, without fairness):

- `RelayerIsExact`: commands dispatched, both channels, outbox and batch are at
  every moment the commands of the events sent. It is inductive with the type of
  the queues (`PipelineOK`); flushing distributes over the concatenation of
  batches (`FlushConcat`), which is proved from the definition of `FlattenSeq`.
- `RelayerKeepsEpochOrder`: for chains that did not reorganise under a
  subscription. Needs all of `RelayerInv`. Per chain, the epochs that
  wait are increasing, those about to be sent before those still in the
  subscription (`Watching`); and everything sent since the restart, or submitted
  before it, is *past* its watcher (`PastEpoch`): what the watcher still has, or
  will read, is later, because polling continues after `last_block` and a restart
  begins at the current block. With `PipelineOK`, what is submitted is a prefix of
  what was sent, so the order carries over (`SentInOrder`).

`MerkleReference_proofs` has no theorem of its own. Its lemmas are about a path
that is hashed up from a new leaf (`Climbs`):

- if the left siblings of the path are subtrees of the latest root (`Frontier`),
  the new root keeps every subtree beside the path (`InsertKeepsSubtrees`), so the
  leaves before the new one stay, the new one follows them (`InsertLeaf`), and the
  `Frontier` of the next index holds again. This is the inductive invariant behind
  the four refinements of `PoolLedger`; that only the leaves are right is not
  inductive, because the next insertion reads cached subtrees, not leaves;
- if both siblings are nodes of the reference tree, the insertion changes exactly
  the nodes of the path to those of the reference tree with the leaf appended
  (`InsertCells`).

`PalletPool_proofs`, `CosmWasmPool_proofs`, `NearPool_proofs`, `InkPool_proofs`:

- `PalletImplementsLedger`, `CosmWasmImplementsLedger`, `NearImplementsLedger`,
  `InkImplementsLedger`: every call is a step of `PoolLedger` or a stutter, where
  the notes are read from the latest root. The invariant is `TreeOK`, or `NodesOK`
  for ink!: `Frontier` for the cached subtrees, or for the nodes of the map that
  the next insertion will read. Two notes of a spend are two insertions in turn.
- `PalletFundsCovered`: a deposit keeps the depositor alive, so that exactly the
  amount arrives (`PayInEffect`); account and dust together lose no more than a
  withdrawal pays (`PayOutEffect`), also when the pool pays itself.
  `CosmWasmFundsCovered`: only the accepted coin raises the counter.
  `NearAccountExplained`: the amount of a payout leaves counter and account
  together, and counts as unclaimed if it comes back, as do direct transfers.
- `PalletEpochsCommit`, `CosmWasmEpochsCommit`, `NearEpochsCommit`: the lists of the
  epochs hold what is spent and nothing else (`SpentIsListed`), each once
  (`ListedOnce`), and a finalized epoch is a past one, so that its list no longer
  grows (`RootsOfLists`). For the pallet the first two are one statement about the
  number of places (`SpentOnce`). The root function stays opaque.
- `InkCommitsOneFate` is inductive once records and fates are known to have the
  same hashes; `InkPauseFreezes` is an action property that uses it: the commit a
  reveal finds unmarked is still open.
- `InkSnapshotsCommit`: the snapshots of finalized epochs are reference roots of
  prefixes of the notes. `Frontier` says nothing about empty subtrees, so the
  invariant is stronger: the whole map of nodes, absent ones read as zero, is the
  reference tree over the notes (`SparseTree`).

`CrossChainSync_proofs`:

- `MembersVerify`: for every list of 2 to 2^MAX_PROOF_DEPTH values, the registry
  accepts the textbook Merkle proof of each element against the manager's root.
  `_nextPowerOfTwo` is the width of the least tree with room for the list
  (`NextPowerIsWidth`); a pass of the reduction reads no cell that it has
  overwritten (`ReducePairs`), so the array in use up to m cells is the layer of
  the tree with m nodes (`RootIsTheTree`); and `_verifyInclusion`, after h
  siblings, is at the node over the leaf at height h.
- `OnlyNodesProvable`: of whatever value, with whatever proof, the registry accepts
  only what is under the root: nodes and padding of the tree, and parts of
  nullifiers; and the nullifier of a note only if it is in the list. It is
  `OnlyNodesVerify` and `OnlyMembersVerify`: a proof that `_verifyInclusion` accepts
  is a path of hashes from the value to the root (`Reaches`), and such a path goes
  down from the root through nodes of the tree (`ReachesNode`) until it ends, at a
  leaf or below one at the latest. These two theorems are for every list what
  `ProvableAreTheMembers` of the `trees` run checks on short ones.
- About the registry: `LookupComplete`, `RecordsKept`, `SnapshotsComplete`,
  with the invariant that a chain with a record or a report is in
  `registeredChainIds` (`RecordsAreListed`), which the loops of the lookup and the
  snapshot run over. The loops are recursive functions of their index. A
  snapshot's root is the chain of hashes over the entries that contribute
  (`LoopAggregates`, by induction over the loop), which are all active chains.
- `ReportsCommitted`: what the registry records for a chain is under the root of a
  list that was submitted there. The lemma that matters is
  `OnlyMembersVerify`: a proof, of whatever depth, that `_verifyInclusion` accepts
  for a note's nullifier against `_computeNullifierRoot(list)` is for an element of
  the list. Each layer of the reduction in place, the padded ones included, is kept
  free of nodes from which another nullifier can be reached (`Clean`). That zero is
  no nullifier cannot be dropped: the padding has proofs.
- `MembersReportable`: a nullifier of a recorded epoch stays reportable. Only an
  active chain submits, an active chain has a record, and no call removes one
  (`RootsAreOfKnownChains`, `ChainsStayKnown`); the rest is `MembersVerify`.
- `RootsSynchronised`: the inductive invariant `SyncInv` says that events in the
  channel name finalized roots (`EventsAreFinal`), copies at hub and peer too
  (`CopiesAreFinal`), and that epochs beyond the current one are open
  (`OpenAhead`), so that none of them is finalized twice.
- `HubReportsUnderRoots`: whatever the hub records for the source chain is under a
  root that the source chain finalized, whichever way it came
  (`ReportIsUnder`).
- `SpentSetImplemented`: the composition implements `SpentSet` for the nullifiers of
  notes. A finalized root is that of a prefix of an epoch's list
  (`RootsArePrefixes`), which holds nullifiers spent on the source chain
  (`ListsAreSpent`), and by `OnlyMembersVerify` the hub learns of no other; inner nodes and padding
  that the hub records are not nullifiers of notes, and stay outside the mapping.

Every proof has a lemma on the effect of each action that matters, then one step
per action. What recursive functions compute is proved by their defining
equation: a function that satisfies it is shown to exist, by induction over the
least natural that is no member of a set, which avoids the induction theorems
that take an operator as a parameter.

Only model-checked:

- liveness (`CommitsAreSettled`, `PausesEnd`, `SubscribedEpochsAreSubmitted`): the
  prover does not reason about fairness;
- `Poseidon`, a computation.

## 5. Not modelled, and why

- Elliptic-curve verifiers and proof generation (`lumora-coprocessor`, a stateless
  service; the gadgets of its `circuits.rs` are placeholders for the hash): out of
  TLC's reach, used through their statements. Of the circuits only the statement
  of `noir/circuits/transfer` is used, also for withdrawals with the exit value on
  the output side, because the pool passes two nullifiers and two outputs to
  `verifyWithdrawProof`; `noir/circuits/withdraw` has one input and one output and
  does not fit these public inputs.
- `relayer/src/core` and `relayer/src/adapters`: the daemon never constructs them.
  `pallets/.../xcm_handler.rs`: nothing calls it. `health.rs` and `metrics.rs`:
  counters that nothing reads back.
- `GovernanceTimelock`, `MultiSigGovernance`: the modules let governance act at
  any time, which admits whatever these let through. `RelayerFeeVault`,
  `StealthAnnouncer`, `ComplianceOracle` (beyond its answers), the bridge adapters
  (beyond an unreliable channel), clients, subgraph, deployment scripts.

Worth doing next: the governance contracts as components of their own, so that what
the modules let governance do can be narrowed to what a timelock lets through; and
the bridge adapters, so that the unreliable channel of `CrossChainSync` can be
shown to admit what they do.
