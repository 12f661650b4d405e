------------------------------ MODULE PalletPool ------------------------------
(***************************************************************************)
(* pallets/privacy-pool: the shielded pool as a Substrate pallet           *)
(* (src/lib.rs) with its proof checks (src/verifier.rs).                   *)
(*                                                                         *)
(* A dispatchable is one storage transaction: an error undoes everything   *)
(* it wrote, so each call is one action whose guard is the conjunction of  *)
(* its checks.  poseidon_hash is a free constructor.  Blake2_256 binds a   *)
(* proof to the inputs it was made for; as in the code, nothing else of    *)
(* the proof is verified.  Block numbers are left out: no call reads them. *)
(***************************************************************************)
EXTENDS Naturals, Sequences, FiniteSets, MerkleReference

CONSTANTS
    TreeDepth, RootHistorySize, MaxNullifiersPerEpoch,  \* Config of the pallet
    ParaId, AppId,       \* the domain of the pool
    TestnetOnly,         \* TESTNET_ONLY, TRUE in the source
    MainnetChains,       \* the chain ids of is_mainnet_chain
    Zero,                \* H256::zero()
    Commitment,          \* the non-zero commitments callers use
    Outputs,             \* the pairs of output commitments callers use
    Nullifier,           \* the non-zero nullifiers callers use
    ProofSizes,          \* the sizes, in bytes, of the proofs callers send
    Users, PoolAccount,  \* accounts of the currency
    ExistentialDeposit,  \* the least balance of an account that exists
    Supply,              \* what each user holds at genesis
    MaxAmount,           \* bound on the value of a deposit or a withdrawal
    MaxEpochs,           \* bound on CurrentEpochId
    Paras, RemoteRoots   \* the peers, and the roots they may announce

ASSUME PalletAssumption ==
    /\ TreeDepth \in Nat \ {0} /\ RootHistorySize \in Nat \ {0}
    /\ MaxNullifiersPerEpoch \in Nat /\ MaxEpochs \in Nat
    /\ ExistentialDeposit \in Nat \ {0} /\ MaxAmount \in Nat
    /\ Supply \in Nat /\ Supply >= ExistentialDeposit
    /\ Zero \notin Commitment \cup Nullifier
    /\ Outputs \subseteq (Commitment \cup {Zero}) \X (Commitment \cup {Zero})
    /\ PoolAccount \notin Users

ASSUME PowersOfTwo == Powers(TreeDepth)

VARIABLES
    tree,               \* NextLeafIndex, FilledSubtrees, Roots, CurrentRootIndex
    NullifierSpent,
    CommitmentExists,
    PoolBalance,
    CurrentEpochId,
    Epochs,             \* a function on the epochs started so far
    EpochNullifiers,    \* the list of each of them
    RemoteEpochRoots,   \* a set of <<para, epoch, root>>, at most one per key
    free,               \* the currency: free balance of each account
    dust                \* what the currency took when it reaped PoolAccount

epochVars == <<CurrentEpochId, Epochs, EpochNullifiers>>
currency  == <<free, dust>>
vars == <<tree, NullifierSpent, CommitmentExists, PoolBalance, epochVars,
          RemoteEpochRoots, currency>>

Nullifiers == Nullifier \cup {Zero}
Notes      == Commitment \cup {Zero}
Amounts    == 1..MaxAmount
Accounts   == Users \cup {PoolAccount}
Levels     == 0..(TreeDepth - 1)
Slots      == 0..(RootHistorySize - 1)

-----------------------------------------------------------------------------
(* The note tree.                                                          *)

poseidon_hash(left, right) == <<left, right>>

zero_hash[level \in 0..TreeDepth] ==
    IF level = 0 THEN Zero
    ELSE poseidon_hash(zero_hash[level - 1], zero_hash[level - 1])

\* Mutant: a right turn reads the zero subtree instead of the filled one.
insert_leafForgets(t, leaf) ==
    LET path[level \in 0..TreeDepth] ==
          IF level = 0 THEN leaf
          ELSE poseidon_hash(path[level - 1], zero_hash[level - 1])
        slot == (t.current + 1) % RootHistorySize
    IN  [next |-> t.next + 1, current |-> slot, filled |-> t.filled,
         roots |-> [t.roots EXCEPT ![slot] = path[TreeDepth]]]

\* The tree after insert_leaf; TreeFull is HasRoom, below.
insert_leaf(t, leaf) ==
    LET isLeft(level) == (t.next \div 2^level) % 2 = 0
        path[level \in 0..TreeDepth] ==
          IF level = 0 THEN leaf
          ELSE IF isLeft(level - 1)
               THEN poseidon_hash(path[level - 1], zero_hash[level - 1])
               ELSE poseidon_hash(t.filled[level - 1], path[level - 1])
        slot == (t.current + 1) % RootHistorySize
    IN  [next    |-> t.next + 1,
         filled  |-> [level \in Levels |->
                        IF isLeft(level) THEN path[level] ELSE t.filled[level]],
         roots   |-> [t.roots EXCEPT ![slot] = path[TreeDepth]],
         current |-> slot]

HasRoom(t, leaves) == t.next + leaves <= 2^TreeDepth

\* Every slot is looked at, backwards from the current one; the order does not
\* matter.  A slot never written reads as zero.
is_known_root(root) == root # Zero /\ \E slot \in Slots : tree.roots[slot] = root

get_latest_root == tree.roots[tree.current]

\* Roots a caller may name: the recorded ones, and some that are not.
NamedRoots == {tree.roots[slot] : slot \in Slots} \cup {Zero}

-----------------------------------------------------------------------------
(* verifier.rs.  A proof is its size and the inputs its binding tag was    *)
(* computed over.                                                          *)

WellFormed(proof) == proof.size \in 192..4096 /\ proof.size % 32 = 0

\* 128 bytes of tag, commitment and evaluation, then 1 to 32 rounds of 64.
verify_halo2_ipa_proof(proof, inputs) ==
    LET rounds == (proof.size - 128) \div 64
    IN  /\ (proof.size - 128) % 64 = 0 /\ rounds \in 1..32
        /\ proof.binding = inputs

ValidNullifiers(nullifiers) ==
    nullifiers[1] # nullifiers[2] /\ \A i \in 1..2 : nullifiers[i] # Zero

verify_transfer(proof, root, nullifiers, outputs) ==
    /\ ~ (TestnetOnly /\ ParaId \in MainnetChains)
    /\ WellFormed(proof)
    /\ root # Zero
    /\ ValidNullifiers(nullifiers)
    /\ outputs[1] # outputs[2] /\ \A i \in 1..2 : outputs[i] # Zero
    /\ ParaId # 0 /\ AppId # 0
    /\ verify_halo2_ipa_proof(proof,
           <<root, nullifiers, outputs, ParaId, AppId>>)   \* encode_transfer_inputs

\* The outputs are neither checked nor bound.
verify_withdraw(proof, root, nullifiers, outputs, exit_value) ==
    /\ WellFormed(proof)
    /\ root # Zero
    /\ ValidNullifiers(nullifiers)
    /\ exit_value # 0
    /\ verify_halo2_ipa_proof(proof,
           <<root, nullifiers, exit_value>>)               \* encode_withdraw_inputs

-----------------------------------------------------------------------------
(* The currency (pallet_balances, external).                               *)

CanTransfer(from, to, value, keepAlive) ==
    /\ value <= free[from]
    /\ from = to \/ free[to] + value >= ExistentialDeposit
    /\ keepAlive => free[from] - value >= ExistentialDeposit

\* An account left with less than the existential deposit is reaped.
CurrencyTransfer(from, to, value) ==
    LET rest  == free[from] - value
        taken == IF rest < ExistentialDeposit THEN rest ELSE 0
    IN  IF from = to THEN UNCHANGED currency
        ELSE /\ free' = [free EXCEPT ![from] = rest - taken, ![to] = @ + value]
             /\ dust' = dust + taken

-----------------------------------------------------------------------------
OpenEpoch == [nullifier_root |-> Zero, nullifier_count |-> 0, finalized |-> FALSE]

Init ==
    /\ tree = [next    |-> 0, current |-> 0,
               filled  |-> [level \in Levels |-> zero_hash[level]],
               roots   |-> [slot \in Slots |->
                              IF slot = 0 THEN zero_hash[TreeDepth] ELSE Zero]]
    /\ NullifierSpent = {} /\ CommitmentExists = {} /\ PoolBalance = 0
    /\ CurrentEpochId = 0
    /\ Epochs = [epoch \in {0} |-> OpenEpoch]
    /\ EpochNullifiers = [epoch \in {0} |-> << >>]
    /\ RemoteEpochRoots = {}
    /\ free = [account \in Accounts |-> IF account \in Users THEN Supply ELSE 0]
    /\ dust = 0

\* Mutant: a failed currency transfer is ignored.
depositUnpaid(who, commitment, amount) ==
    /\ commitment \notin CommitmentExists
    /\ IF CanTransfer(who, PoolAccount, amount, TRUE)
       THEN CurrencyTransfer(who, PoolAccount, amount) ELSE UNCHANGED currency
    /\ CommitmentExists' = CommitmentExists \cup {commitment}
    /\ HasRoom(tree, 1) /\ tree' = insert_leaf(tree, commitment)
    /\ PoolBalance' = PoolBalance + amount
    /\ UNCHANGED <<NullifierSpent, epochVars, RemoteEpochRoots>>

deposit(who, commitment, amount) ==
    /\ amount > 0
    /\ commitment \notin CommitmentExists
    /\ CanTransfer(who, PoolAccount, amount, TRUE)
    /\ CurrencyTransfer(who, PoolAccount, amount)
    /\ CommitmentExists' = CommitmentExists \cup {commitment}
    /\ HasRoom(tree, 1) /\ tree' = insert_leaf(tree, commitment)
    /\ PoolBalance' = PoolBalance + amount
    /\ UNCHANGED <<NullifierSpent, epochVars, RemoteEpochRoots>>

\* Mutant: the nullifiers are listed in the epoch that follows.
check_and_spend_nullifiersLate(nullifiers) ==
    /\ \A i \in 1..2 : nullifiers[i] \notin NullifierSpent
    /\ NullifierSpent' = NullifierSpent \cup {nullifiers[1], nullifiers[2]}
    /\ LET epoch == IF CurrentEpochId = 0 THEN 0 ELSE CurrentEpochId - 1
       IN  EpochNullifiers' = [EpochNullifiers EXCEPT ![epoch] = @ \o nullifiers]

check_and_spend_nullifiers(nullifiers) ==
    LET listed == EpochNullifiers[CurrentEpochId] \o nullifiers
    IN  /\ \A i \in 1..2 : nullifiers[i] \notin NullifierSpent
        /\ nullifiers[1] # nullifiers[2]
        /\ Len(listed) <= MaxNullifiersPerEpoch
        /\ NullifierSpent' = NullifierSpent \cup {nullifiers[1], nullifiers[2]}
        /\ EpochNullifiers' = [EpochNullifiers EXCEPT ![CurrentEpochId] = listed]

\* Both outputs go into the tree; CommitmentExists does not learn of them.
InsertOutputs(outputs) ==
    /\ HasRoom(tree, 2)
    /\ tree' = insert_leaf(insert_leaf(tree, outputs[1]), outputs[2])

transfer(proof, root, nullifiers, outputs) ==
    /\ is_known_root(root)
    /\ check_and_spend_nullifiers(nullifiers)
    /\ verify_transfer(proof, root, nullifiers, outputs)
    /\ InsertOutputs(outputs)
    /\ UNCHANGED <<CommitmentExists, PoolBalance, CurrentEpochId, Epochs,
                   RemoteEpochRoots, currency>>

withdraw(proof, root, nullifiers, outputs, recipient, exit_value) ==
    /\ exit_value > 0
    /\ exit_value <= PoolBalance
    /\ is_known_root(root)
    /\ check_and_spend_nullifiers(nullifiers)
    /\ verify_withdraw(proof, root, nullifiers, outputs, exit_value)
    /\ InsertOutputs(outputs)
    /\ PoolBalance' = PoolBalance - exit_value
    /\ CanTransfer(PoolAccount, recipient, exit_value, FALSE)
    /\ CurrencyTransfer(PoolAccount, recipient, exit_value)
    /\ UNCHANGED <<CommitmentExists, CurrentEpochId, Epochs, RemoteEpochRoots>>

\* A chain of hashes, in the order the nullifiers were spent in.
compute_nullifier_root(nullifiers) ==
    LET chain[i \in 1..Len(nullifiers)] ==
          IF i = 1 THEN nullifiers[1]
          ELSE poseidon_hash(chain[i - 1], nullifiers[i])
    IN  IF nullifiers = << >> THEN Zero ELSE chain[Len(nullifiers)]

\* Root origin.  EpochDuration is not consulted: any block may end an epoch.
finalize_epoch ==
    LET list == EpochNullifiers[CurrentEpochId]
        next == CurrentEpochId + 1
    IN  /\ CurrentEpochId < MaxEpochs
        /\ ~ Epochs[CurrentEpochId].finalized
        /\ Epochs' = [epoch \in 0..next |->
             CASE epoch = CurrentEpochId ->
                    [nullifier_root  |-> compute_nullifier_root(list),
                     nullifier_count |-> Len(list), finalized |-> TRUE]
               [] epoch = next -> OpenEpoch
               [] OTHER -> Epochs[epoch]]
        /\ EpochNullifiers' = [epoch \in 0..next |->
             IF epoch = next THEN << >> ELSE EpochNullifiers[epoch]]
        /\ CurrentEpochId' = next
        /\ UNCHANGED <<tree, NullifierSpent, CommitmentExists, PoolBalance,
                       RemoteEpochRoots, currency>>

\* Root origin.  A later announcement replaces an earlier one.
sync_epoch_root(para, epoch, root) ==
    /\ root # Zero
    /\ RemoteEpochRoots' = {r \in RemoteEpochRoots : r[1] # para \/ r[2] # epoch}
                              \cup {<<para, epoch, root>>}
    /\ UNCHANGED <<tree, NullifierSpent, CommitmentExists, PoolBalance,
                   epochVars, currency>>

Next ==
    \/ \E who \in Users, commitment \in Notes, amount \in Amounts :
          deposit(who, commitment, amount)
    \/ \E nullifiers \in Nullifiers \X Nullifiers, outputs \in Outputs,
          root \in NamedRoots, size \in ProofSizes :
          \/ transfer([size |-> size,
                       binding |-> <<root, nullifiers, outputs, ParaId, AppId>>],
                      root, nullifiers, outputs)
          \/ \E recipient \in Accounts, exit_value \in Amounts :
                withdraw([size |-> size,
                          binding |-> <<root, nullifiers, exit_value>>],
                         root, nullifiers, outputs, recipient, exit_value)
    \/ finalize_epoch
    \/ \E para \in Paras, epoch \in {0}, root \in RemoteRoots \cup {Zero} :
          sync_epoch_root(para, epoch, root)

Spec == Init /\ [][Next]_vars

-----------------------------------------------------------------------------
\* The places a nullifier is listed at.
Listed(nullifier) ==
    {p \in (0..CurrentEpochId) \X (1..MaxNullifiersPerEpoch) :
        p[2] <= Len(EpochNullifiers[p[1]]) /\ EpochNullifiers[p[1]][p[2]] = nullifier}

\* What the other chains learn is what was spent: every spent nullifier is
\* listed in exactly one epoch, at one place, nothing else is listed, and the
\* root of a finalized epoch still commits to its whole list.
EpochsCommitToSpent ==
    /\ \A nullifier \in Nullifiers :
          Cardinality(Listed(nullifier)) =
              IF nullifier \in NullifierSpent THEN 1 ELSE 0
    /\ \A epoch \in 0..CurrentEpochId :
          /\ Epochs[epoch].finalized <=> epoch < CurrentEpochId
          /\ Epochs[epoch].finalized =>
                /\ Epochs[epoch].nullifier_count = Len(EpochNullifiers[epoch])
                /\ Epochs[epoch].nullifier_root =
                       compute_nullifier_root(EpochNullifiers[epoch])

\* The tokens that PoolBalance counts are in the pool's account, but for the
\* remainders below the existential deposit that the currency took when a
\* withdrawal (ExistenceRequirement::AllowDeath) emptied the account.
FundsCoverPool == PoolBalance <= free[PoolAccount] + dust

Ledger == INSTANCE PoolLedger
            WITH Note <- Notes, Capacity <- 2^TreeDepth,
                 leaves <- LeavesUnder(get_latest_root, TreeDepth, tree.next),
                 spent <- NullifierSpent, balance <- PoolBalance

\* The pallet implements the abstract pool: every call appends to the list of
\* notes its latest root commits to, spends two new nullifiers or none, and
\* never pays out more than it counts.
ImplementsPoolLedger == Ledger!LedgerSpec
=============================================================================
