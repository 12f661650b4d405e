------------------------------- MODULE InkPool -------------------------------
(***************************************************************************)
(* ink/privacy-pool/lib.rs: the shielded pool as an ink! contract, with    *)
(* its own note tree (inner nodes in a map, absent ones read as zero),     *)
(* commit-reveal deposits and an emergency pause.                          *)
(*                                                                         *)
(* A message that returns Err or panics is undone.  The domain-tagged      *)
(* keccak256 of two nodes is a free constructor.  Amounts are those sent   *)
(* along with a message (transferred_value).                               *)
(***************************************************************************)
EXTENDS Naturals, Sequences, FiniteSets, MerkleReference

CONSTANTS
    TREE_DEPTH, ROOT_HISTORY_SIZE, MIN_COMMIT_DELAY, MAX_COMMIT_DELAY,
    ZERO_VALUE,
    Deployer,              \* the first governance
    Accounts,              \* who calls
    ZeroAccount,           \* AccountId::from([0u8; 32])
    Commitment, Outputs,   \* non-zero commitments; the output pairs in use
    Nullifier,             \* non-zero nullifiers
    CommitHash,            \* hashes that name commits
    ProofSizes,
    MaxAmount, MaxBalance, \* bounds on one amount, and on the pool
    MaxBlock, MaxEpochs,   \* bounds on the block number and current_epoch
    RemoteKeys, RemoteRoots

ASSUME InkAssumption ==
    /\ TREE_DEPTH \in Nat \ {0} /\ ROOT_HISTORY_SIZE \in Nat \ {0}
    /\ MIN_COMMIT_DELAY \in Nat /\ MAX_COMMIT_DELAY \in Nat
    /\ MIN_COMMIT_DELAY <= MAX_COMMIT_DELAY
    /\ MaxAmount \in Nat /\ MaxBalance \in Nat /\ MaxBlock \in Nat /\ MaxEpochs \in Nat
    /\ Deployer \in Accounts /\ ZeroAccount \notin Accounts
    /\ ZERO_VALUE \notin Commitment \cup Nullifier
    /\ Outputs \subseteq (Commitment \cup {ZERO_VALUE}) \X (Commitment \cup {ZERO_VALUE})

ASSUME PowersOfTwo == Powers(TREE_DEPTH)

VARIABLES
    governance, paused,
    tree,            \* leaves, nodes, next_leaf_index, current_root,
                     \* root_history, root_history_cursor
    nullifiers,      \* the spent ones
    current_epoch, epochs, remote_roots,
    pool_balance,
    pending_commits, \* a function on the commit hashes used so far
    block,           \* the chain: current block number
    fate             \* history: what became of each commit, and of its note

epochVars == <<current_epoch, epochs>>
vars == <<governance, paused, tree, nullifiers, epochVars, remote_roots,
          pool_balance, pending_commits, block, fate>>

Nullifiers == Nullifier \cup {ZERO_VALUE}
Notes      == Commitment \cup {ZERO_VALUE}

-----------------------------------------------------------------------------
keccak256(left, right) == <<left, right>>

Node(nodes, level, index) ==
    IF <<level, index>> \in DOMAIN nodes THEN nodes[<<level, index>>] ELSE ZERO_VALUE

\* Mutant: the two leaves of a pair are hashed in the wrong order.
update_treeSwapped(t, leaf) ==
    LET at(level) == t.next \div 2^level
        hash[level \in 0..TREE_DEPTH] ==
          IF level = 0 THEN leaf
          ELSE IF (at(level - 1) % 2 = 0) # (level = 1)
               THEN keccak256(hash[level - 1], Node(t.nodes, level - 1, at(level - 1) + 1))
               ELSE keccak256(Node(t.nodes, level - 1, at(level) * 2), hash[level - 1])
        written == {<<level, at(level)>> : level \in 0..TREE_DEPTH}
    IN  [t EXCEPT !.nodes = [key \in DOMAIN t.nodes \cup written |->
                               IF key \in written THEN hash[key[1]] ELSE t.nodes[key]],
                  !.current_root = hash[TREE_DEPTH],
                  !.leaves = @ \cup {leaf}, !.next = @ + 1]

\* Insert the leaf at the next index and recompute the nodes above it: what
\* deposit, transfer, withdraw and reveal_deposit do around update_tree.
update_tree(t, leaf) ==
    LET at(level) == t.next \div 2^level
        hash[level \in 0..TREE_DEPTH] ==
          IF level = 0 THEN leaf
          ELSE IF at(level - 1) % 2 = 0
               THEN keccak256(hash[level - 1], Node(t.nodes, level - 1, at(level - 1) + 1))
               ELSE keccak256(Node(t.nodes, level - 1, at(level - 1) - 1), hash[level - 1])
        written == {<<level, at(level)>> : level \in 0..TREE_DEPTH}
    IN  [t EXCEPT !.nodes = [key \in DOMAIN t.nodes \cup written |->
                               IF key \in written THEN hash[key[1]] ELSE t.nodes[key]],
                  !.current_root = hash[TREE_DEPTH],
                  !.leaves = @ \cup {leaf}, !.next = @ + 1]

\* next_leaf_index is a u32 and TREE_DEPTH is 32: moving it past the last leaf
\* overflows and panics, in all four messages.  The TreeFull check that two of
\* them make before it, next_leaf_index >= 1u32 << TREE_DEPTH, has no value in
\* the source: a u32 cannot be shifted by 32, which rustc reports.  The model
\* gives it the value that is meant, with which it never fires.
CanInsert(t, leaf) == leaf \notin t.leaves /\ t.next + 1 < 2^TREE_DEPTH

push_root(t) ==
    [t EXCEPT !.root_history = [slot \in DOMAIN @ \cup {t.cursor} |->
                                  IF slot = t.cursor THEN t.current_root ELSE @[slot]],
              !.cursor = (@ + 1) % ROOT_HISTORY_SIZE]

\* The current root is known from the start, when it is still zero.
is_known_root(root) ==
    \/ root = tree.current_root
    \/ \E slot \in DOMAIN tree.root_history : tree.root_history[slot] = root

\* Roots a caller may name: the recorded ones, and one that is not known.
NamedRoots == {tree.current_root, ZERO_VALUE}
                 \cup {tree.root_history[slot] : slot \in DOMAIN tree.root_history}

\* The root is not among the inputs the tag is bound to, nor are recipient and
\* amount; outputs need not be distinct (the duplicate check sees to that).
verify_proof_structure(proof, nfs, outputs) ==
    /\ proof.size \in 192..4096 /\ proof.size % 32 = 0
    /\ nfs[1] # nfs[2] /\ \A i \in 1..2 : nfs[i] # ZERO_VALUE
    /\ \A i \in 1..2 : outputs[i] # ZERO_VALUE
    /\ (proof.size - 128) % 64 = 0
    /\ proof.binding = <<nfs, outputs>>

-----------------------------------------------------------------------------
OpenEpoch == [root |-> ZERO_VALUE, finalized |-> FALSE]

new ==
    /\ governance = Deployer /\ paused = FALSE
    /\ tree = [leaves |-> {}, nodes |-> << >>, next |-> 0,
               current_root |-> ZERO_VALUE, cursor |-> 0,
               root_history |-> << >>]
    /\ nullifiers = {}
    /\ current_epoch = 0 /\ epochs = [epoch \in {0} |-> OpenEpoch]
    /\ remote_roots = << >>
    /\ pool_balance = 0 /\ pending_commits = << >>
    /\ block = 0 /\ fate = << >>

deposit(commitment, value) ==
    /\ ~ paused
    /\ value > 0
    /\ CanInsert(tree, commitment)
    /\ tree' = push_root(update_tree(tree, commitment))
    /\ pool_balance' = pool_balance + value
    /\ UNCHANGED <<governance, paused, nullifiers, epochVars, remote_roots,
                   pending_commits, block, fate>>

\* Steps 1 to 5 of transfer, which withdraw repeats.  In withdraw a zero output
\* is passed over, but the proof check has already rejected it.
Spend(proof, root, nfs, outputs) ==
    LET t1 == update_tree(tree, outputs[1])
    IN  /\ ~ paused
        /\ is_known_root(root)
        /\ \A i \in 1..2 : nfs[i] \notin nullifiers
        /\ verify_proof_structure(proof, nfs, outputs)
        /\ nullifiers' = nullifiers \cup {nfs[1], nfs[2]}
        /\ CanInsert(tree, outputs[1]) /\ CanInsert(t1, outputs[2])
        /\ tree' = push_root(update_tree(t1, outputs[2]))

transfer(proof, root, nfs, outputs) ==
    /\ Spend(proof, root, nfs, outputs)
    /\ UNCHANGED <<governance, paused, epochVars, remote_roots, pool_balance,
                   pending_commits, block, fate>>

\* Zero may be withdrawn.  The transfer to the recipient fails only for lack of
\* funds, and the contract holds pool_balance.
withdraw(proof, root, nfs, outputs, amount) ==
    /\ Spend(proof, root, nfs, outputs)
    /\ amount <= pool_balance
    /\ pool_balance' = pool_balance - amount
    /\ UNCHANGED <<governance, paused, epochVars, remote_roots, pending_commits,
                   block, fate>>

\* The snapshot is the root of the notes, not of the nullifiers.
finalize_epoch(caller) ==
    LET next == current_epoch + 1
    IN  /\ current_epoch < MaxEpochs
        /\ caller = governance
        /\ ~ epochs[current_epoch].finalized
        /\ epochs' = [epoch \in 0..next |->
             CASE epoch = current_epoch ->
                    [root |-> tree.current_root, finalized |-> TRUE]
               [] epoch = next -> OpenEpoch
               [] OTHER -> epochs[epoch]]
        /\ current_epoch' = next
        /\ UNCHANGED <<governance, paused, tree, nullifiers, remote_roots,
                       pool_balance, pending_commits, block, fate>>

sync_remote_root(caller, key, root) ==
    /\ caller = governance
    /\ remote_roots' = [k \in DOMAIN remote_roots \cup {key} |->
                          IF k = key THEN root ELSE remote_roots[k]]
    /\ UNCHANGED <<governance, paused, tree, nullifiers, epochVars, pool_balance,
                   pending_commits, block, fate>>

-----------------------------------------------------------------------------
(* Commit-reveal deposits.  The record of a commit does not hold its value.  *)

Elapsed(hash) == block - pending_commits[hash].block_number

\* Mutant: a pause does not stop commits.
commit_depositPaused(caller, hash, value) ==
    /\ hash \notin DOMAIN pending_commits
    /\ value > 0
    /\ pending_commits' = [h \in DOMAIN pending_commits \cup {hash} |->
          IF h = hash
          THEN [depositor |-> caller, block_number |-> block, revealed |-> FALSE]
          ELSE pending_commits[h]]
    /\ pool_balance' = pool_balance + value
    /\ fate' = [h \in DOMAIN fate \cup {hash} |-> IF h = hash THEN "open" ELSE fate[h]]
    /\ UNCHANGED <<governance, paused, tree, nullifiers, epochVars, remote_roots, block>>

commit_deposit(caller, hash, value) ==
    /\ ~ paused
    /\ hash \notin DOMAIN pending_commits
    /\ value > 0
    /\ pending_commits' = [h \in DOMAIN pending_commits \cup {hash} |->
          IF h = hash
          THEN [depositor |-> caller, block_number |-> block, revealed |-> FALSE]
          ELSE pending_commits[h]]
    /\ pool_balance' = pool_balance + value
    /\ fate' = [h \in DOMAIN fate \cup {hash} |-> IF h = hash THEN "open" ELSE fate[h]]
    /\ UNCHANGED <<governance, paused, tree, nullifiers, epochVars, remote_roots, block>>

\* Mutant: the record is not marked.
reveal_depositUnmarked(caller, hash, commitment) ==
    /\ hash \in DOMAIN pending_commits
    /\ pending_commits[hash].depositor = caller
    /\ ~ pending_commits[hash].revealed
    /\ Elapsed(hash) \in MIN_COMMIT_DELAY..MAX_COMMIT_DELAY
    /\ CanInsert(tree, commitment)
    /\ tree' = push_root(update_tree(tree, commitment))
    /\ fate' = [fate EXCEPT ![hash] = IF @ = "open" THEN "note" ELSE "again"]
    /\ UNCHANGED <<governance, paused, nullifiers, epochVars, remote_roots,
                   pool_balance, pending_commits, block>>

\* A pause does not stop reveals.  Nothing ties the commitment to the hash.
reveal_deposit(caller, hash, commitment) ==
    /\ hash \in DOMAIN pending_commits
    /\ pending_commits[hash].depositor = caller
    /\ ~ pending_commits[hash].revealed
    /\ Elapsed(hash) \in MIN_COMMIT_DELAY..MAX_COMMIT_DELAY
    /\ CanInsert(tree, commitment)
    /\ pending_commits' = [pending_commits EXCEPT ![hash].revealed = TRUE]
    /\ tree' = push_root(update_tree(tree, commitment))
    /\ fate' = [fate EXCEPT ![hash] = IF @ = "open" THEN "note" ELSE "again"]
    /\ UNCHANGED <<governance, paused, nullifiers, epochVars, remote_roots,
                   pool_balance, block>>

\* Anyone may do it; nothing is paid back and pool_balance keeps the value.
reclaim_expired_commit(hash) ==
    /\ hash \in DOMAIN pending_commits
    /\ ~ pending_commits[hash].revealed
    /\ Elapsed(hash) > MAX_COMMIT_DELAY
    /\ pending_commits' = [pending_commits EXCEPT ![hash].revealed = TRUE]
    /\ fate' = [fate EXCEPT ![hash] = IF @ = "open" THEN "lost" ELSE "again"]
    /\ UNCHANGED <<governance, paused, tree, nullifiers, epochVars, remote_roots,
                   pool_balance, block>>

-----------------------------------------------------------------------------
SetPaused(caller, value) ==
    /\ caller = governance
    /\ paused' = value
    /\ UNCHANGED <<governance, tree, nullifiers, epochVars, remote_roots,
                   pool_balance, pending_commits, block, fate>>

pause(caller)   == SetPaused(caller, TRUE)
unpause(caller) == SetPaused(caller, FALSE)

transfer_governance(caller, new_governance) ==
    /\ caller = governance
    /\ new_governance # ZeroAccount
    /\ governance' = new_governance
    /\ UNCHANGED <<paused, tree, nullifiers, epochVars, remote_roots,
                   pool_balance, pending_commits, block, fate>>

\* The chain makes a block.
Tick ==
    /\ block < MaxBlock
    /\ block' = block + 1
    /\ UNCHANGED <<governance, paused, tree, nullifiers, epochVars, remote_roots,
                   pool_balance, pending_commits, fate>>

Pay(value) == value \in 0..MaxAmount /\ pool_balance + value <= MaxBalance

Next ==
    \/ \E commitment \in Notes, value \in 0..MaxAmount :
          Pay(value) /\ deposit(commitment, value)
    \/ \E nfs \in Nullifiers \X Nullifiers, outputs \in Outputs,
          root \in NamedRoots, size \in ProofSizes :
          LET proof == [size |-> size, binding |-> <<nfs, outputs>>]
          IN  \/ transfer(proof, root, nfs, outputs)
              \/ \E amount \in 0..MaxAmount :
                    withdraw(proof, root, nfs, outputs, amount)
    \/ \E caller \in Accounts :
          \/ finalize_epoch(caller)
          \/ \E key \in RemoteKeys, root \in RemoteRoots :
                sync_remote_root(caller, key, root)
          \/ pause(caller)
          \/ unpause(caller)
          \/ \E account \in Accounts \cup {ZeroAccount} :
                transfer_governance(caller, account)
          \/ \E hash \in CommitHash, value \in 0..MaxAmount :
                Pay(value) /\ commit_deposit(caller, hash, value)
          \/ \E hash \in CommitHash, commitment \in Notes :
                reveal_deposit(caller, hash, commitment)
    \/ \E hash \in CommitHash : reclaim_expired_commit(hash)
    \/ Tick

Spec == new /\ [][Next]_vars

-----------------------------------------------------------------------------
\* A commit ends once: with one note, revealed by its depositor in time, or
\* with none, after it has expired; and its record says so.
EachCommitOneFate ==
    \A hash \in DOMAIN pending_commits :
        /\ fate[hash] \in {"open", "note", "lost"}
        /\ fate[hash] = "open" <=> ~ pending_commits[hash].revealed
        /\ fate[hash] = "lost" => Elapsed(hash) > MAX_COMMIT_DELAY

\* While the pool is paused its value stands still: nothing is spent, paid in
\* or paid out; only commits made before the pause can still become notes.
PausedPoolOnlyReveals ==
    [][paused => /\ UNCHANGED <<nullifiers, pool_balance>>
                 /\ tree' # tree => \E hash \in DOMAIN fate :
                                       fate[hash] = "open" /\ fate'[hash] = "note"]_vars

\* The notes that the current root commits to.
CommittedNotes == LeavesUnder(tree.current_root, TREE_DEPTH, tree.next)

\* The root of a list of notes: this contract has zero for every subtree in
\* which there is no note.
SparseRoot(notes) ==
    ReferenceRoot(notes, TREE_DEPTH, [level \in 0..TREE_DEPTH |-> ZERO_VALUE])

\* The snapshots of finalized epochs are roots of prefixes of the list of
\* notes, each at least as long as the one before: no note disappears from,
\* or moves in, what an epoch published.
EpochRootsCommitToPrefixes ==
    \E length \in [0..current_epoch -> 0..tree.next] :
        \A epoch \in 0..current_epoch :
            /\ epoch > 0 => length[epoch - 1] <= length[epoch]
            /\ epochs[epoch].finalized =>
                  epochs[epoch].root = SparseRoot(SubSeq(CommittedNotes, 1, length[epoch]))

Ledger == INSTANCE PoolLedger
            WITH Note <- Notes, Nullifier <- Nullifiers, Capacity <- 2^TREE_DEPTH,
                 leaves <- CommittedNotes,
                 spent <- nullifiers, balance <- pool_balance

\* The contract implements the abstract pool, deposits in two steps included:
\* a commit raises the balance, its reveal appends the note.
ImplementsPoolLedger == Ledger!LedgerSpec
=============================================================================
