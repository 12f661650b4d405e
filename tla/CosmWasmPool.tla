----------------------------- MODULE CosmWasmPool -----------------------------
(***************************************************************************)
(* cosmwasm/contracts/privacy-pool: the shielded pool as a CosmWasm        *)
(* contract (src/contract.rs, state in src/state.rs).                      *)
(*                                                                         *)
(* A message is atomic: an error or a panic undoes it together with the    *)
(* funds it carried, and so does a failure of the BankMsg it returns.      *)
(* Hashes, commitments and nullifiers are hex strings that the contract    *)
(* compares as strings.  Only hashing reads them: hex_to_32 takes the      *)
(* first 64 digits in either case, the sponge reduces the number modulo    *)
(* the field's order, and a string that does not start with 64 digits      *)
(* panics.  `Word' is that reading, on the strings that have one; of two   *)
(* words, poseidon_hash_hex is a free constructor.                         *)
(***************************************************************************)
EXTENDS Naturals, Sequences, FiniteSets, MerkleReference

CONSTANTS
    tree_depth, root_history_size, max_nullifiers_per_epoch,  \* Config
    accepted_denom, Denoms,   \* the coin of the pool, and every coin
    Governance,               \* who instantiates the contract names
    Senders,                  \* who sends messages, Governance among them
    None,                     \* no relayer is authorised
    ZERO_HASH,
    Commitment, Outputs,      \* non-zero commitments; the output pairs in use
    Nullifier,                \* non-zero strings that callers spend
    Word,                     \* the word hashing reads, a function on those of
                              \* all these strings that it can read
    ProofSizes,               \* the lengths of the proofs callers send
    MaxAmount, MaxBalance,    \* bounds on one amount, and on the pool
    MaxEpochs,                \* bound on CURRENT_EPOCH_ID
    RemoteKeys, RemoteRoots   \* (chain, epoch) pairs, and strings for them

ASSUME CosmWasmAssumption ==
    /\ tree_depth \in Nat \ {0} /\ root_history_size \in Nat \ {0}
    /\ max_nullifiers_per_epoch \in Nat /\ MaxEpochs \in Nat
    /\ MaxAmount \in Nat /\ MaxBalance \in Nat
    /\ accepted_denom \in Denoms /\ Governance \in Senders /\ None \notin Senders
    /\ ZERO_HASH \notin Commitment \cup Nullifier
    /\ ZERO_HASH \in DOMAIN Word /\ Word[ZERO_HASH] = ZERO_HASH
    /\ Outputs \subseteq (Commitment \cup {ZERO_HASH}) \X (Commitment \cup {ZERO_HASH})

ASSUME PowersOfTwo == Powers(tree_depth)

VARIABLES
    config,             \* the two fields of CONFIG that change
    tree,               \* NEXT_LEAF_INDEX, FILLED_SUBTREES, ROOTS, CURRENT_ROOT_INDEX
    NULLIFIER_SPENT,
    COMMITMENT_EXISTS,
    POOL_BALANCE,
    CURRENT_EPOCH_ID, EPOCHS, EPOCH_NULLIFIERS,
    REMOTE_EPOCH_ROOTS, \* a function on the keys written so far
    bank                \* what the contract's own account holds of each coin

epochVars == <<CURRENT_EPOCH_ID, EPOCHS, EPOCH_NULLIFIERS>>
vars == <<config, tree, NULLIFIER_SPENT, COMMITMENT_EXISTS, POOL_BALANCE,
          epochVars, REMOTE_EPOCH_ROOTS, bank>>

Nullifiers == Nullifier \cup {ZERO_HASH}
Notes      == Commitment \cup {ZERO_HASH}
Words      == {Word[string] : string \in Notes \cap DOMAIN Word}
Levels     == 0..(tree_depth - 1)
Slots      == 0..(root_history_size - 1)

-----------------------------------------------------------------------------
\* Of two words: whoever calls it has read them.
poseidon_hash_hex(left, right) == <<left, right>>

CanRead(string) == string \in DOMAIN Word
hex_to_32(string) == Word[string]

zero_hash[level \in 0..tree_depth] ==
    IF level = 0 THEN ZERO_HASH
    ELSE poseidon_hash_hex(zero_hash[level - 1], zero_hash[level - 1])

\* Mutant: the filled subtree is saved after it has been hashed.
insert_leafLate(t, leaf) ==
    LET isLeft(level) == (t.next \div 2^level) % 2 = 0
        path[level \in 0..tree_depth] ==
          IF level = 0 THEN hex_to_32(leaf)
          ELSE IF isLeft(level - 1)
               THEN poseidon_hash_hex(path[level - 1], zero_hash[level - 1])
               ELSE poseidon_hash_hex(t.filled[level - 1], path[level - 1])
        slot == (t.current + 1) % root_history_size
    IN  [next    |-> t.next + 1, current |-> slot,
         filled  |-> [level \in Levels |->
                       IF isLeft(level) THEN path[level + 1] ELSE t.filled[level]],
         roots   |-> [t.roots EXCEPT ![slot] = path[tree_depth]]]

\* FILLED_SUBTREES keeps the leaf as it was sent; nothing but hashing reads it.
insert_leaf(t, leaf) ==
    LET isLeft(level) == (t.next \div 2^level) % 2 = 0
        path[level \in 0..tree_depth] ==
          IF level = 0 THEN hex_to_32(leaf)
          ELSE IF isLeft(level - 1)
               THEN poseidon_hash_hex(path[level - 1], zero_hash[level - 1])
               ELSE poseidon_hash_hex(t.filled[level - 1], path[level - 1])
        slot == (t.current + 1) % root_history_size
    IN  [next    |-> t.next + 1, current |-> slot,
         filled  |-> [level \in Levels |->
                       IF isLeft(level) THEN path[level] ELSE t.filled[level]],
         roots   |-> [t.roots EXCEPT ![slot] = path[tree_depth]]]

HasRoom(t, leaves) == t.next + leaves <= 2^tree_depth

\* A slot that was never saved fails to load and is passed over.
is_known_root(root) ==
    root # ZERO_HASH /\ \E slot \in Slots : tree.roots[slot] = root

\* Roots a caller may name: the saved ones, and one that is not known.
NamedRoots == {tree.roots[slot] : slot \in Slots}

\* The answers of the contract's queries.
query_PoolStatus ==
    [total_deposits |-> tree.next, pool_balance |-> POOL_BALANCE,
     current_epoch |-> CURRENT_EPOCH_ID, latest_root |-> tree.roots[tree.current]]
query_IsSpent(nullifier) == nullifier \in NULLIFIER_SPENT

\* The tag of a proof is bound to the root, the nullifiers and the outputs, and
\* to nothing else: exit value and recipient are free.
verify_proof_binding(proof, root, nullifiers, outputs) ==
    /\ proof.size \in 384..8192 /\ proof.size % 2 = 0
    /\ nullifiers[1] # nullifiers[2] /\ \A i \in 1..2 : nullifiers[i] # ZERO_HASH
    /\ root # ZERO_HASH
    /\ outputs[1] # outputs[2] /\ \A i \in 1..2 : outputs[i] # ZERO_HASH
    /\ proof.binding = <<root, nullifiers, outputs>>

-----------------------------------------------------------------------------
OpenEpoch == [nullifier_root |-> ZERO_HASH, nullifier_count |-> 0, finalized |-> FALSE]

instantiate ==
    /\ config = [governance |-> Governance, authorized_relayer |-> None]
    /\ tree = [next |-> 0, current |-> 0,
               filled |-> [level \in Levels |-> zero_hash[level]],
               roots |-> [slot \in Slots |->
                            IF slot = 0 THEN zero_hash[tree_depth] ELSE ZERO_HASH]]
    /\ NULLIFIER_SPENT = {} /\ COMMITMENT_EXISTS = {} /\ POOL_BALANCE = 0
    /\ CURRENT_EPOCH_ID = 0
    /\ EPOCHS = [epoch \in {0} |-> OpenEpoch]
    /\ EPOCH_NULLIFIERS = [epoch \in {0} |-> << >>]
    /\ REMOTE_EPOCH_ROOTS = << >>
    /\ bank = [denom \in Denoms |-> 0]

\* Mutant: any coin is taken for the accepted one.
execute_depositAnyDenom(funds, commitment) ==
    /\ \E denom \in Denoms :
          /\ funds[denom] > 0
          /\ POOL_BALANCE' = POOL_BALANCE + funds[denom]
    /\ commitment \notin COMMITMENT_EXISTS
    /\ COMMITMENT_EXISTS' = COMMITMENT_EXISTS \cup {commitment}
    /\ HasRoom(tree, 1) /\ CanRead(commitment)
    /\ tree' = insert_leaf(tree, commitment)
    /\ bank' = [denom \in Denoms |-> bank[denom] + funds[denom]]
    /\ UNCHANGED <<config, NULLIFIER_SPENT, epochVars, REMOTE_EPOCH_ROOTS>>

\* The message carries coins; only the accepted one is counted, the others
\* stay with the contract all the same.
execute_deposit(funds, commitment) ==
    LET amount == funds[accepted_denom]
    IN  /\ amount # 0
        /\ commitment \notin COMMITMENT_EXISTS
        /\ COMMITMENT_EXISTS' = COMMITMENT_EXISTS \cup {commitment}
        /\ HasRoom(tree, 1) /\ CanRead(commitment)
        /\ tree' = insert_leaf(tree, commitment)
        /\ POOL_BALANCE' = POOL_BALANCE + amount
        /\ bank' = [denom \in Denoms |-> bank[denom] + funds[denom]]
        /\ UNCHANGED <<config, NULLIFIER_SPENT, epochVars, REMOTE_EPOCH_ROOTS>>

\* Mutant: only the first nullifier is listed in the epoch.
check_and_spend_nullifiersFirst(nullifiers) ==
    LET listed == Append(EPOCH_NULLIFIERS[CURRENT_EPOCH_ID], nullifiers[1])
    IN  /\ \A i \in 1..2 : nullifiers[i] \notin NULLIFIER_SPENT
        /\ NULLIFIER_SPENT' = NULLIFIER_SPENT \cup {nullifiers[1], nullifiers[2]}
        /\ EPOCH_NULLIFIERS' = [EPOCH_NULLIFIERS EXCEPT ![CURRENT_EPOCH_ID] = listed]

check_and_spend_nullifiers(nullifiers) ==
    LET listed == EPOCH_NULLIFIERS[CURRENT_EPOCH_ID] \o nullifiers
    IN  /\ \A i \in 1..2 : nullifiers[i] \notin NULLIFIER_SPENT
        /\ nullifiers[1] # nullifiers[2]
        /\ Len(listed) <= max_nullifiers_per_epoch
        /\ NULLIFIER_SPENT' = NULLIFIER_SPENT \cup {nullifiers[1], nullifiers[2]}
        /\ EPOCH_NULLIFIERS' = [EPOCH_NULLIFIERS EXCEPT ![CURRENT_EPOCH_ID] = listed]

InsertOutputs(outputs) ==
    /\ HasRoom(tree, 2)
    /\ \A i \in 1..2 : CanRead(outputs[i])
    /\ tree' = insert_leaf(insert_leaf(tree, outputs[1]), outputs[2])

execute_transfer(proof, root, nullifiers, outputs) ==
    /\ is_known_root(root)
    /\ check_and_spend_nullifiers(nullifiers)
    /\ verify_proof_binding(proof, root, nullifiers, outputs)
    /\ InsertOutputs(outputs)
    /\ UNCHANGED <<config, COMMITMENT_EXISTS, POOL_BALANCE, CURRENT_EPOCH_ID,
                   EPOCHS, REMOTE_EPOCH_ROOTS, bank>>

\* `toSelf': the recipient is the contract's own address.
execute_withdraw(proof, root, nullifiers, outputs, toSelf, exit_value) ==
    /\ exit_value # 0
    /\ exit_value <= POOL_BALANCE
    /\ is_known_root(root)
    /\ check_and_spend_nullifiers(nullifiers)
    /\ verify_proof_binding(proof, root, nullifiers, outputs)
    /\ InsertOutputs(outputs)
    /\ POOL_BALANCE' = POOL_BALANCE - exit_value
    /\ exit_value <= bank[accepted_denom]       \* or BankMsg::Send fails
    /\ bank' = IF toSelf THEN bank
               ELSE [bank EXCEPT ![accepted_denom] = @ - exit_value]
    /\ UNCHANGED <<config, COMMITMENT_EXISTS, CURRENT_EPOCH_ID, EPOCHS,
                   REMOTE_EPOCH_ROOTS>>

\* One nullifier alone is its own root and is not read; two or more are.
Hashable(nullifiers) ==
    Len(nullifiers) >= 2 => \A i \in 1..Len(nullifiers) : CanRead(nullifiers[i])

compute_nullifier_root(nullifiers) ==
    LET chain[i \in 1..Len(nullifiers)] ==
          IF i = 1 THEN hex_to_32(nullifiers[1])
          ELSE poseidon_hash_hex(chain[i - 1], hex_to_32(nullifiers[i]))
    IN  CASE nullifiers = << >>    -> ZERO_HASH
          [] Len(nullifiers) = 1 -> nullifiers[1]
          [] OTHER               -> chain[Len(nullifiers)]

execute_finalize_epoch(sender) ==
    LET list == EPOCH_NULLIFIERS[CURRENT_EPOCH_ID]
        next == CURRENT_EPOCH_ID + 1
    IN  /\ CURRENT_EPOCH_ID < MaxEpochs
        /\ sender = config.governance
        /\ ~ EPOCHS[CURRENT_EPOCH_ID].finalized
        /\ Hashable(list)
        /\ EPOCHS' = [epoch \in 0..next |->
             CASE epoch = CURRENT_EPOCH_ID ->
                    [nullifier_root  |-> compute_nullifier_root(list),
                     nullifier_count |-> Len(list), finalized |-> TRUE]
               [] epoch = next -> OpenEpoch
               [] OTHER -> EPOCHS[epoch]]
        /\ EPOCH_NULLIFIERS' = [epoch \in 0..next |->
             IF epoch = next THEN << >> ELSE EPOCH_NULLIFIERS[epoch]]
        /\ CURRENT_EPOCH_ID' = next
        /\ UNCHANGED <<config, tree, NULLIFIER_SPENT, COMMITMENT_EXISTS,
                       POOL_BALANCE, REMOTE_EPOCH_ROOTS, bank>>

\* Any non-empty string is taken, and replaces what the key held.
execute_sync_epoch_root(sender, key, root) ==
    /\ sender \in {config.governance, config.authorized_relayer}
    /\ REMOTE_EPOCH_ROOTS' = [k \in DOMAIN REMOTE_EPOCH_ROOTS \cup {key} |->
                                IF k = key THEN root ELSE REMOTE_EPOCH_ROOTS[k]]
    /\ UNCHANGED <<config, tree, NULLIFIER_SPENT, COMMITMENT_EXISTS,
                   POOL_BALANCE, epochVars, bank>>

execute_update_governance(sender, new_governance) ==
    /\ sender = config.governance
    /\ config' = [config EXCEPT !.governance = new_governance]
    /\ UNCHANGED <<tree, NULLIFIER_SPENT, COMMITMENT_EXISTS, POOL_BALANCE,
                   epochVars, REMOTE_EPOCH_ROOTS, bank>>

execute_set_authorized_relayer(sender, relayer) ==
    /\ sender = config.governance
    /\ config' = [config EXCEPT !.authorized_relayer = relayer]
    /\ UNCHANGED <<tree, NULLIFIER_SPENT, COMMITMENT_EXISTS, POOL_BALANCE,
                   epochVars, REMOTE_EPOCH_ROOTS, bank>>

execute ==
    \/ \E funds \in [Denoms -> 0..MaxAmount], commitment \in Notes :
          /\ POOL_BALANCE + funds[accepted_denom] <= MaxBalance
          /\ execute_deposit(funds, commitment)
    \/ \E nullifiers \in Nullifiers \X Nullifiers, outputs \in Outputs,
          root \in NamedRoots, size \in ProofSizes :
          LET proof == [size |-> size, binding |-> <<root, nullifiers, outputs>>]
          IN  \/ execute_transfer(proof, root, nullifiers, outputs)
              \/ \E toSelf \in BOOLEAN, exit_value \in 1..MaxAmount :
                    execute_withdraw(proof, root, nullifiers, outputs, toSelf,
                                     exit_value)
    \/ \E sender \in Senders :
          \/ execute_finalize_epoch(sender)
          \/ \E key \in RemoteKeys, root \in RemoteRoots :
                execute_sync_epoch_root(sender, key, root)
          \/ \E new_governance \in Senders :
                execute_update_governance(sender, new_governance)
          \/ \E relayer \in Senders \cup {None} :
                execute_set_authorized_relayer(sender, relayer)

Spec == instantiate /\ [][execute]_vars

-----------------------------------------------------------------------------
\* The nullifiers of an epoch, and those of all epochs.
InEpoch(epoch) == {EPOCH_NULLIFIERS[epoch][i] : i \in 1..Len(EPOCH_NULLIFIERS[epoch])}
AllListed == UNION {InEpoch(epoch) : epoch \in DOMAIN EPOCH_NULLIFIERS}

\* What governance publishes is what was spent: the epochs partition the spent
\* nullifiers, no list repeats one, and the root of a finalized epoch still
\* commits to its whole list.
EpochsCommitToSpent ==
    /\ AllListed = NULLIFIER_SPENT
    /\ \A e1, e2 \in DOMAIN EPOCH_NULLIFIERS :
          e1 # e2 => InEpoch(e1) \cap InEpoch(e2) = {}
    /\ \A epoch \in DOMAIN EPOCHS :
          /\ Cardinality(InEpoch(epoch)) = Len(EPOCH_NULLIFIERS[epoch])
          /\ Len(EPOCH_NULLIFIERS[epoch]) <= max_nullifiers_per_epoch
          /\ EPOCHS[epoch].finalized =>
                EPOCHS[epoch].nullifier_root =
                    compute_nullifier_root(EPOCH_NULLIFIERS[epoch])

\* The coins that POOL_BALANCE counts are in the contract's account, in the
\* accepted denomination, whatever other coins the deposits carried: the
\* BankMsg of a withdrawal never fails for lack of funds.
FundsCoverPool == POOL_BALANCE <= bank[accepted_denom]

Ledger == INSTANCE PoolLedger
            WITH Note <- Words, Nullifier <- Nullifiers, Capacity <- 2^tree_depth,
                 leaves <- LeavesUnder(query_PoolStatus.latest_root, tree_depth,
                                       query_PoolStatus.total_deposits),
                 spent <- {n \in Nullifiers : query_IsSpent(n)},
                 balance <- query_PoolStatus.pool_balance

\* A client that only asks the contract (LatestRoot, IsSpent, PoolStatus) sees
\* the abstract pool: notes are appended, two new nullifiers are spent at a
\* time, and the balance falls only with a withdrawal.  A note is the word of
\* its commitment: two spellings of one word are two deposits of one note.
ImplementsPoolLedger == Ledger!LedgerSpec
=============================================================================
