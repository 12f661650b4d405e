------------------------------- MODULE NearPool -------------------------------
(***************************************************************************)
(* near/contracts/privacy-pool: the shielded pool as a NEAR contract       *)
(* (src/lib.rs), with its proof checks (src/verifier.rs) and hashes        *)
(* (src/hash.rs).                                                          *)
(*                                                                         *)
(* A failed assert! undoes the call.  A withdrawal only asks for a         *)
(* transfer: the contract's state is saved, the amount leaves its account  *)
(* with the receipt, and the receipt runs in a later block, where it may   *)
(* fail.  No callback is attached, so the contract never learns; the       *)
(* runtime then returns the amount to the contract's account.              *)
(*                                                                         *)
(* Commitments and nullifiers are taken to be strings of one length, as    *)
(* the SDK makes them: hash.rs hashes the two strings run together, which  *)
(* is one-to-one on those only.                                            *)
(***************************************************************************)
EXTENDS Naturals, Sequences, FiniteSets, MerkleReference

CONSTANTS
    TREE_DEPTH, ROOT_HISTORY_SIZE, MAX_NULLIFIERS_PER_EPOCH,
    governance,            \* the account given to new
    Callers,               \* accounts that call, governance among them
    Missing,               \* a recipient whose account does not exist
    Contract,              \* the contract's own account, as a recipient
    None,                  \* no relayer is authorised
    ZERO_HASH,
    Commitment, Outputs,   \* non-zero commitments; the output pairs in use
    Nullifier,             \* non-zero nullifiers
    ProofSizes,
    MaxAmount, MaxBalance, \* bounds on one amount, and on the pool
    MaxEpochs,             \* bound on current_epoch_id
    RemoteKeys, RemoteRoots

ASSUME NearAssumption ==
    /\ TREE_DEPTH \in Nat \ {0} /\ ROOT_HISTORY_SIZE \in Nat \ {0}
    /\ MAX_NULLIFIERS_PER_EPOCH \in Nat /\ MaxEpochs \in Nat
    /\ MaxAmount \in Nat /\ MaxBalance \in Nat
    /\ governance \in Callers
    /\ Missing \notin Callers /\ Contract \notin Callers /\ Missing # Contract
    /\ ZERO_HASH \notin Commitment \cup Nullifier
    /\ Outputs \subseteq (Commitment \cup {ZERO_HASH}) \X (Commitment \cup {ZERO_HASH})

ASSUME PowersOfTwo == Powers(TREE_DEPTH)

VARIABLES
    tree,                \* next_leaf_index, filled_subtrees, roots, current_root_index
    nullifier_spent, commitment_exists, pool_balance,
    current_epoch_id, epochs, epoch_nullifiers, remote_epoch_roots,
    authorized_relayer,
    account,             \* the runtime: balance of the contract's account above
                         \* what it had when it was deployed
    receipts,            \* transfers that have not run yet
    unclaimed            \* history: sum of what came into the account with no
                         \* deposit: transfers that failed or that the contract
                         \* sent to itself, and what is sent to it directly

epochVars == <<current_epoch_id, epochs, epoch_nullifiers>>
runtime   == <<account, receipts, unclaimed>>
vars == <<tree, nullifier_spent, commitment_exists, pool_balance, epochVars,
          remote_epoch_roots, authorized_relayer, runtime>>

Nullifiers == Nullifier \cup {ZERO_HASH}
Notes      == Commitment \cup {ZERO_HASH}
Levels     == 0..(TREE_DEPTH - 1)
Slots      == 0..(ROOT_HISTORY_SIZE - 1)

-----------------------------------------------------------------------------
poseidon_hash_hex(left, right) == <<left, right>>

zero_hash[level \in 0..TREE_DEPTH] ==
    IF level = 0 THEN ZERO_HASH
    ELSE poseidon_hash_hex(zero_hash[level - 1], zero_hash[level - 1])

compute_nullifier_root(nullifiers) ==
    LET chain[i \in 1..Len(nullifiers)] ==
          IF i = 1 THEN nullifiers[1]
          ELSE poseidon_hash_hex(chain[i - 1], nullifiers[i])
    IN  IF nullifiers = << >> THEN ZERO_HASH ELSE chain[Len(nullifiers)]

\* Mutant: the index of the next leaf is not moved past a second output.
insert_leafSame(t, leaf) ==
    LET path[level \in 0..TREE_DEPTH] ==
          IF level = 0 THEN leaf
          ELSE IF (t.next \div 2^(level - 1)) % 2 = 0
               THEN poseidon_hash_hex(path[level - 1], zero_hash[level - 1])
               ELSE poseidon_hash_hex(t.filled[level - 1], path[level - 1])
        slot == (t.current + 1) % ROOT_HISTORY_SIZE
    IN  [t EXCEPT !.next = IF t.next % 2 = 0 THEN t.next + 1 ELSE t.next,
                  !.current = slot, !.roots[slot] = path[TREE_DEPTH]]

insert_leaf(t, leaf) ==
    LET isLeft(level) == (t.next \div 2^level) % 2 = 0
        path[level \in 0..TREE_DEPTH] ==
          IF level = 0 THEN leaf
          ELSE IF isLeft(level - 1)
               THEN poseidon_hash_hex(path[level - 1], zero_hash[level - 1])
               ELSE poseidon_hash_hex(t.filled[level - 1], path[level - 1])
        slot == (t.current + 1) % ROOT_HISTORY_SIZE
    IN  [next    |-> t.next + 1, current |-> slot,
         filled  |-> [level \in Levels |->
                       IF isLeft(level) THEN path[level] ELSE t.filled[level]],
         roots   |-> [t.roots EXCEPT ![slot] = path[TREE_DEPTH]]]

HasRoom(t, leaves) == t.next + leaves <= 2^TREE_DEPTH

is_known_root(root) ==
    root # ZERO_HASH /\ \E slot \in Slots : tree.roots[slot] = root

\* Roots a caller may name: the stored ones, and one that is not known.
NamedRoots == {tree.roots[slot] : slot \in Slots}

\* The views that clients read the pool through.
get_pool_status ==
    [total_deposits |-> tree.next, pool_balance |-> pool_balance,
     current_epoch |-> current_epoch_id, latest_root |-> tree.roots[tree.current]]
is_nullifier_spent(nullifier) == nullifier \in nullifier_spent

\* Exit value and recipient are not among the inputs the tag is bound to.
verify_proof_binding(proof, root, nullifiers, outputs) ==
    /\ proof.size \in 384..8192 /\ proof.size % 2 = 0
    /\ nullifiers[1] # nullifiers[2] /\ \A i \in 1..2 : nullifiers[i] # ZERO_HASH
    /\ root # ZERO_HASH
    /\ outputs[1] # outputs[2] /\ \A i \in 1..2 : outputs[i] # ZERO_HASH
    /\ proof.binding = <<root, nullifiers, outputs>>

-----------------------------------------------------------------------------
OpenEpoch == [nullifier_root |-> ZERO_HASH, nullifier_count |-> 0, finalized |-> FALSE]

new ==
    /\ tree = [next |-> 0, current |-> 0,
               filled |-> [level \in Levels |-> zero_hash[level]],
               roots |-> [slot \in Slots |->
                            IF slot = 0 THEN zero_hash[TREE_DEPTH] ELSE ZERO_HASH]]
    /\ nullifier_spent = {} /\ commitment_exists = {} /\ pool_balance = 0
    /\ current_epoch_id = 0
    /\ epochs = [epoch \in {0} |-> OpenEpoch]
    /\ epoch_nullifiers = [epoch \in {0} |-> << >>]
    /\ remote_epoch_roots = << >>
    /\ authorized_relayer = None
    /\ account = 0 /\ receipts = {} /\ unclaimed = 0

\* The attached amount is in the account before the call runs.
deposit(commitment, amount) ==
    /\ amount > 0
    /\ commitment \notin commitment_exists
    /\ commitment_exists' = commitment_exists \cup {commitment}
    /\ HasRoom(tree, 1) /\ tree' = insert_leaf(tree, commitment)
    /\ pool_balance' = pool_balance + amount
    /\ account' = account + amount
    /\ UNCHANGED <<nullifier_spent, epochVars, remote_epoch_roots,
                   authorized_relayer, receipts, unclaimed>>

check_and_spend_nullifiers(nullifiers) ==
    LET listed == epoch_nullifiers[current_epoch_id] \o nullifiers
    IN  /\ \A i \in 1..2 : nullifiers[i] \notin nullifier_spent
        /\ nullifiers[1] # nullifiers[2]
        /\ Len(listed) <= MAX_NULLIFIERS_PER_EPOCH
        /\ nullifier_spent' = nullifier_spent \cup {nullifiers[1], nullifiers[2]}
        /\ epoch_nullifiers' = [epoch_nullifiers EXCEPT ![current_epoch_id] = listed]

InsertOutputs(outputs) ==
    /\ HasRoom(tree, 2)
    /\ tree' = insert_leaf(insert_leaf(tree, outputs[1]), outputs[2])

transfer(proof, root, nullifiers, outputs) ==
    /\ is_known_root(root)
    /\ check_and_spend_nullifiers(nullifiers)
    /\ verify_proof_binding(proof, root, nullifiers, outputs)
    /\ InsertOutputs(outputs)
    /\ UNCHANGED <<commitment_exists, pool_balance, current_epoch_id, epochs,
                   remote_epoch_roots, authorized_relayer, runtime>>

\* A receipt is named by the leaf index its call started at.
Receipt(recipient, amount) == [id |-> tree.next, to |-> recipient, amount |-> amount]

\* Mutant: the amount is taken off when the receipt has run, not before.
withdrawEager(proof, root, nullifiers, outputs, recipient, exit_amount) ==
    /\ exit_amount > 0 /\ exit_amount <= pool_balance
    /\ is_known_root(root)
    /\ check_and_spend_nullifiers(nullifiers)
    /\ verify_proof_binding(proof, root, nullifiers, outputs)
    /\ InsertOutputs(outputs)
    /\ pool_balance' = pool_balance
    /\ receipts' = receipts \cup {Receipt(recipient, exit_amount)}
    /\ account' = account - exit_amount
    /\ UNCHANGED <<commitment_exists, current_epoch_id, epochs,
                   remote_epoch_roots, authorized_relayer, unclaimed>>

withdraw(proof, root, nullifiers, outputs, recipient, exit_amount) ==
    /\ exit_amount > 0
    /\ exit_amount <= pool_balance
    /\ is_known_root(root)
    /\ check_and_spend_nullifiers(nullifiers)
    /\ verify_proof_binding(proof, root, nullifiers, outputs)
    /\ InsertOutputs(outputs)
    /\ pool_balance' = pool_balance - exit_amount
    /\ account >= exit_amount                  \* or the receipt is not made
    /\ account' = account - exit_amount
    /\ receipts' = receipts \cup {Receipt(recipient, exit_amount)}
    /\ UNCHANGED <<commitment_exists, current_epoch_id, epochs,
                   remote_epoch_roots, authorized_relayer, unclaimed>>

\* The runtime runs a receipt: the recipient is paid, or the account that the
\* receipt came from is.
RunReceipt(receipt) ==
    LET comesBack == receipt.to \in {Missing, Contract}
    IN  /\ receipts' = receipts \ {receipt}
        /\ account' = IF comesBack THEN account + receipt.amount ELSE account
        /\ unclaimed' = IF comesBack THEN unclaimed + receipt.amount ELSE unclaimed
        /\ UNCHANGED <<tree, nullifier_spent, commitment_exists, pool_balance,
                       epochVars, remote_epoch_roots, authorized_relayer>>

\* The runtime adds to the account without a call of deposit: a plain transfer
\* to the contract, or the contract's share of the gas a call has burnt.
ReceiveDirectly(amount) ==
    /\ unclaimed + amount <= MaxBalance
    /\ account' = account + amount
    /\ unclaimed' = unclaimed + amount
    /\ UNCHANGED <<tree, nullifier_spent, commitment_exists, pool_balance,
                   epochVars, remote_epoch_roots, authorized_relayer, receipts>>

set_authorized_relayer(caller, relayer) ==
    /\ caller = governance
    /\ authorized_relayer' = relayer
    /\ UNCHANGED <<tree, nullifier_spent, commitment_exists, pool_balance,
                   epochVars, remote_epoch_roots, runtime>>

\* Mutant: the list of the new epoch starts as a copy of the old one.
finalize_epochKeeps(caller) ==
    LET next == current_epoch_id + 1
    IN  /\ current_epoch_id < MaxEpochs /\ caller = governance
        /\ epochs' = [epoch \in 0..next |->
             IF epoch = next THEN OpenEpoch
             ELSE [epochs[epoch] EXCEPT !.finalized = TRUE]]
        /\ epoch_nullifiers' = [epoch \in 0..next |->
             epoch_nullifiers[IF epoch = next THEN current_epoch_id ELSE epoch]]
        /\ current_epoch_id' = next
        /\ UNCHANGED <<tree, nullifier_spent, commitment_exists, pool_balance,
                       remote_epoch_roots, authorized_relayer, runtime>>

finalize_epoch(caller) ==
    LET list == epoch_nullifiers[current_epoch_id]
        next == current_epoch_id + 1
    IN  /\ current_epoch_id < MaxEpochs
        /\ caller = governance
        /\ ~ epochs[current_epoch_id].finalized
        /\ epochs' = [epoch \in 0..next |->
             CASE epoch = current_epoch_id ->
                    [nullifier_root  |-> compute_nullifier_root(list),
                     nullifier_count |-> Len(list), finalized |-> TRUE]
               [] epoch = next -> OpenEpoch
               [] OTHER -> epochs[epoch]]
        /\ epoch_nullifiers' = [epoch \in 0..next |->
             IF epoch = next THEN << >> ELSE epoch_nullifiers[epoch]]
        /\ current_epoch_id' = next
        /\ UNCHANGED <<tree, nullifier_spent, commitment_exists, pool_balance,
                       remote_epoch_roots, authorized_relayer, runtime>>

sync_epoch_root(caller, key, root) ==
    /\ caller \in {governance, authorized_relayer}
    /\ remote_epoch_roots' = [k \in DOMAIN remote_epoch_roots \cup {key} |->
                                IF k = key THEN root ELSE remote_epoch_roots[k]]
    /\ UNCHANGED <<tree, nullifier_spent, commitment_exists, pool_balance,
                   epochVars, authorized_relayer, runtime>>

Next ==
    \/ \E commitment \in Notes, amount \in 0..MaxAmount :
          pool_balance + amount <= MaxBalance /\ deposit(commitment, amount)
    \/ \E nullifiers \in Nullifiers \X Nullifiers, outputs \in Outputs,
          root \in NamedRoots, size \in ProofSizes :
          LET proof == [size |-> size, binding |-> <<root, nullifiers, outputs>>]
          IN  \/ transfer(proof, root, nullifiers, outputs)
              \/ \E recipient \in Callers \cup {Missing, Contract},
                    exit_amount \in 1..MaxAmount :
                    withdraw(proof, root, nullifiers, outputs, recipient, exit_amount)
    \/ \E receipt \in receipts : RunReceipt(receipt)
    \/ \E amount \in 1..MaxAmount : ReceiveDirectly(amount)
    \/ \E caller \in Callers :
          \/ \E relayer \in Callers \cup {None} : set_authorized_relayer(caller, relayer)
          \/ finalize_epoch(caller)
          \/ \E key \in RemoteKeys, root \in RemoteRoots :
                sync_epoch_root(caller, key, root)

Spec == new /\ [][Next]_vars

-----------------------------------------------------------------------------
\* Each yocto of the pool is in the contract's account whatever the receipts in
\* flight turn into: the account holds what pool_balance counts and, besides
\* it, exactly what came in with no deposit.  Of that, what failed transfers
\* brought back is what no note and no counter of the contract stands for any more.
AccountIsExplained == account = pool_balance + unclaimed

\* The epochs list every spent nullifier once, and the root of a finalized
\* epoch still commits to its whole list.
EpochsCommitToSpent ==
    LET all == {p \in (0..current_epoch_id) \X (1..MAX_NULLIFIERS_PER_EPOCH) :
                  p[2] <= Len(epoch_nullifiers[p[1]])}
    IN  /\ {epoch_nullifiers[p[1]][p[2]] : p \in all} = nullifier_spent
        /\ Cardinality(all) = Cardinality(nullifier_spent)
        /\ \A epoch \in DOMAIN epochs : epochs[epoch].finalized =>
              epochs[epoch].nullifier_root =
                  compute_nullifier_root(epoch_nullifiers[epoch])

Ledger == INSTANCE PoolLedger
            WITH Note <- Notes, Nullifier <- Nullifiers, Capacity <- 2^TREE_DEPTH,
                 leaves <- LeavesUnder(get_pool_status.latest_root, TREE_DEPTH,
                                       get_pool_status.total_deposits),
                 spent <- {n \in Nullifiers : is_nullifier_spent(n)},
                 balance <- get_pool_status.pool_balance

\* A client that only asks the contract (get_pool_status, is_nullifier_spent) sees
\* the abstract pool: notes are appended, two new nullifiers are spent at a
\* time, and the balance falls only with a withdrawal.
ImplementsPoolLedger == Ledger!LedgerSpec
=============================================================================
