------------------------- MODULE CosmWasmPool_proofs -------------------------
(***************************************************************************)
(* Proofs about CosmWasmPool, for every set of coins and senders, and for  *)
(* lists and epochs of any length; compute_nullifier_root stays opaque.    *)
(***************************************************************************)
EXTENDS CosmWasmPool, FiniteSetTheorems, FunctionTheorems, MerkleReference_proofs,
        TLAPS

-----------------------------------------------------------------------------
(* The funds. *)

FundsType == POOL_BALANCE \in Nat /\ bank \in [Denoms -> Nat]

FundsInv == FundsType /\ FundsCoverPool

LEMMA FundsInit == instantiate => FundsInv
BY CosmWasmAssumption DEF instantiate, FundsInv, FundsType, FundsCoverPool

LEMMA FundsUnchanged ==
    ASSUME FundsInv, UNCHANGED <<POOL_BALANCE, bank>>
    PROVE  FundsInv'
BY DEF FundsInv, FundsType, FundsCoverPool

LEMMA FundsStep == FundsInv /\ [execute]_vars => FundsInv'
<1> SUFFICES ASSUME FundsInv, [execute]_vars PROVE FundsInv'
  OBVIOUS
<1> USE CosmWasmAssumption
<1>0. /\ POOL_BALANCE \in Nat /\ bank \in [Denoms -> Nat]
      /\ bank[accepted_denom] \in Nat /\ POOL_BALANCE <= bank[accepted_denom]
  BY DEF FundsInv, FundsType, FundsCoverPool
\* What is counted is what arrives in the accepted coin; other coins only add
\* to their own entries.
<1>1. ASSUME NEW funds \in [Denoms -> 0..MaxAmount], NEW commitment,
             execute_deposit(funds, commitment)
      PROVE  FundsInv'
  <2>1. /\ POOL_BALANCE' = POOL_BALANCE + funds[accepted_denom]
        /\ bank' = [denom \in Denoms |-> bank[denom] + funds[denom]]
    BY <1>1 DEF execute_deposit
  <2>2. \A denom \in Denoms : funds[denom] \in Nat OBVIOUS
  <2>3. bank' \in [Denoms -> Nat] BY <1>0, <2>1, <2>2
  <2>4. bank'[accepted_denom] = bank[accepted_denom] + funds[accepted_denom]
    BY <2>1
  <2>5. POOL_BALANCE' \in Nat /\ POOL_BALANCE' <= bank'[accepted_denom]
    BY <1>0, <2>1, <2>2, <2>4
  <2> QED BY <2>3, <2>5 DEF FundsInv, FundsType, FundsCoverPool
<1>2. ASSUME NEW proof, NEW root, NEW nullifiers, NEW outputs,
             execute_transfer(proof, root, nullifiers, outputs)
      PROVE  FundsInv'
  BY <1>2, FundsUnchanged DEF execute_transfer
\* The payout leaves counter and account together, or the account keeps it.
<1>3. ASSUME NEW proof, NEW root, NEW nullifiers, NEW outputs,
             NEW toSelf, NEW exit_value \in 1..MaxAmount,
             execute_withdraw(proof, root, nullifiers, outputs, toSelf, exit_value)
      PROVE  FundsInv'
  <2>1. /\ exit_value <= POOL_BALANCE /\ exit_value <= bank[accepted_denom]
        /\ POOL_BALANCE' = POOL_BALANCE - exit_value
        /\ bank' = IF toSelf THEN bank
                   ELSE [bank EXCEPT ![accepted_denom] = @ - exit_value]
    BY <1>3 DEF execute_withdraw
  <2>2. exit_value \in Nat OBVIOUS
  <2>3. POOL_BALANCE' \in Nat BY <1>0, <2>1, <2>2
  <2>4. CASE toSelf
    <3>1. bank' = bank BY <2>1, <2>4
    <3>2. POOL_BALANCE' <= bank'[accepted_denom] BY <1>0, <2>1, <2>2, <3>1
    <3> QED BY <1>0, <2>3, <3>1, <3>2 DEF FundsInv, FundsType, FundsCoverPool
  <2>5. CASE ~ toSelf
    <3>1. bank' = [bank EXCEPT ![accepted_denom] = @ - exit_value] BY <2>1, <2>5
    <3>2. bank[accepted_denom] - exit_value \in Nat BY <1>0, <2>1, <2>2
    <3>3. /\ bank' \in [Denoms -> Nat]
          /\ bank'[accepted_denom] = bank[accepted_denom] - exit_value
      BY <1>0, <3>1, <3>2
    <3>4. POOL_BALANCE' <= bank'[accepted_denom] BY <1>0, <2>1, <2>2, <3>3
    <3> QED BY <2>3, <3>3, <3>4 DEF FundsInv, FundsType, FundsCoverPool
  <2> QED BY <2>4, <2>5
<1>4. ASSUME NEW sender, execute_finalize_epoch(sender) PROVE FundsInv'
  BY <1>4, FundsUnchanged DEF execute_finalize_epoch
<1>5. ASSUME NEW sender, NEW key, NEW root, execute_sync_epoch_root(sender, key, root)
      PROVE  FundsInv'
  BY <1>5, FundsUnchanged DEF execute_sync_epoch_root
<1>6. ASSUME NEW sender, NEW new_governance,
             execute_update_governance(sender, new_governance)
      PROVE  FundsInv'
  BY <1>6, FundsUnchanged DEF execute_update_governance
<1>7. ASSUME NEW sender, NEW relayer, execute_set_authorized_relayer(sender, relayer)
      PROVE  FundsInv'
  BY <1>7, FundsUnchanged DEF execute_set_authorized_relayer
<1>8. CASE UNCHANGED vars BY <1>8, FundsUnchanged DEF vars
<1> QED BY <1>1, <1>2, <1>3, <1>4, <1>5, <1>6, <1>7, <1>8 DEF execute

\* The contract's account covers POOL_BALANCE in the accepted coin, whatever
\* coins deposits carried: contract.rs execute_withdraw finds what it pays out.
THEOREM CosmWasmFundsCovered == Spec => []FundsCoverPool
<1>1. FundsInv => FundsCoverPool BY DEF FundsInv
<1> QED BY FundsInit, FundsStep, <1>1, PTL DEF Spec

-----------------------------------------------------------------------------
(* The lists of the epochs. *)

ListsType ==
    /\ NULLIFIER_SPENT \subseteq Nullifiers
    /\ CURRENT_EPOCH_ID \in Nat
    /\ DOMAIN EPOCHS = 0..CURRENT_EPOCH_ID
    /\ EPOCH_NULLIFIERS \in [0..CURRENT_EPOCH_ID -> Seq(Nullifiers)]
    /\ \A epoch \in 0..CURRENT_EPOCH_ID :
          Len(EPOCH_NULLIFIERS[epoch]) <= max_nullifiers_per_epoch

Listed(epoch, i) ==
    epoch \in 0..CURRENT_EPOCH_ID /\ i \in 1..Len(EPOCH_NULLIFIERS[epoch])

SpentIsListed ==
    /\ \A epoch, i : Listed(epoch, i) => EPOCH_NULLIFIERS[epoch][i] \in NULLIFIER_SPENT
    /\ \A nullifier \in NULLIFIER_SPENT : \E epoch, i :
          Listed(epoch, i) /\ EPOCH_NULLIFIERS[epoch][i] = nullifier

ListedOnce ==
    \A epoch1, i1, epoch2, i2 :
        /\ Listed(epoch1, i1) /\ Listed(epoch2, i2)
        /\ EPOCH_NULLIFIERS[epoch1][i1] = EPOCH_NULLIFIERS[epoch2][i2]
        => epoch1 = epoch2 /\ i1 = i2

RootsOfLists ==
    \A epoch \in 0..CURRENT_EPOCH_ID :
        EPOCHS[epoch].finalized =>
            /\ epoch < CURRENT_EPOCH_ID
            /\ EPOCHS[epoch].nullifier_root =
                   compute_nullifier_root(EPOCH_NULLIFIERS[epoch])

ListsInv == ListsType /\ SpentIsListed /\ ListedOnce /\ RootsOfLists

LEMMA ListsInit == instantiate => ListsInv
<1> SUFFICES ASSUME instantiate PROVE ListsInv OBVIOUS
<1>1. /\ NULLIFIER_SPENT = {} /\ CURRENT_EPOCH_ID = 0
      /\ EPOCHS = [epoch \in {0} |-> OpenEpoch]
      /\ EPOCH_NULLIFIERS = [epoch \in {0} |-> << >>]
  BY DEF instantiate
<1>2. 0..CURRENT_EPOCH_ID = {0} /\ EPOCH_NULLIFIERS[0] = << >> /\ Len(<< >>) = 0
  BY <1>1
<1>3. \A epoch, i : ~ Listed(epoch, i) BY <1>2 DEF Listed
<1>4. ListsType BY <1>1, <1>2, CosmWasmAssumption DEF ListsType
<1>5. SpentIsListed /\ ListedOnce BY <1>1, <1>3 DEF SpentIsListed, ListedOnce
<1>6. RootsOfLists BY <1>1, <1>2 DEF RootsOfLists, OpenEpoch
<1> QED BY <1>4, <1>5, <1>6 DEF ListsInv

LEMMA ListsUnchanged ==
    ASSUME ListsInv, UNCHANGED <<NULLIFIER_SPENT, epochVars>>
    PROVE  ListsInv'
BY DEF ListsInv, ListsType, SpentIsListed, ListedOnce, RootsOfLists, Listed, epochVars

LEMMA TwoMore ==
    ASSUME NEW S, NEW s \in Seq(S), NEW a \in S, NEW b \in S
    PROVE  /\ s \o <<a, b>> \in Seq(S)
           /\ Len(s \o <<a, b>>) = Len(s) + 2
           /\ \A i \in 1..Len(s) : (s \o <<a, b>>)[i] = s[i]
           /\ (s \o <<a, b>>)[Len(s) + 1] = a
           /\ (s \o <<a, b>>)[Len(s) + 2] = b
OBVIOUS

\* A spend lists each of its nullifiers at one new place of the open epoch.
LEMMA SpendEffect ==
    ASSUME ListsInv, NEW nullifiers \in Nullifiers \X Nullifiers,
           check_and_spend_nullifiers(nullifiers),
           UNCHANGED <<CURRENT_EPOCH_ID, EPOCHS>>
    PROVE  ListsInv'
<1> DEFINE e == CURRENT_EPOCH_ID
           list == EPOCH_NULLIFIERS[e]
           n1 == nullifiers[1]
           n2 == nullifiers[2]
           listed == list \o nullifiers
<1>0. ListsType /\ SpentIsListed /\ ListedOnce /\ RootsOfLists BY DEF ListsInv
<1>1. /\ n1 \in Nullifiers \ NULLIFIER_SPENT /\ n2 \in Nullifiers \ NULLIFIER_SPENT
      /\ n1 # n2 /\ nullifiers = <<n1, n2>>
      /\ Len(listed) <= max_nullifiers_per_epoch
      /\ NULLIFIER_SPENT' = NULLIFIER_SPENT \cup {n1, n2}
      /\ EPOCH_NULLIFIERS' = [EPOCH_NULLIFIERS EXCEPT ![e] = listed]
  <2>1. /\ \A i \in 1..2 : nullifiers[i] \notin NULLIFIER_SPENT
        /\ nullifiers[1] # nullifiers[2]
        /\ Len(listed) <= max_nullifiers_per_epoch
        /\ NULLIFIER_SPENT' = NULLIFIER_SPENT \cup {nullifiers[1], nullifiers[2]}
        /\ EPOCH_NULLIFIERS' = [EPOCH_NULLIFIERS EXCEPT ![e] = listed]
    BY DEF check_and_spend_nullifiers
  <2>2. 1 \in 1..2 /\ 2 \in 1..2 OBVIOUS
  <2>3. n1 \in Nullifiers /\ n2 \in Nullifiers OBVIOUS
  <2>4. nullifiers = <<n1, n2>> OBVIOUS
  <2>5. n1 \notin NULLIFIER_SPENT /\ n2 \notin NULLIFIER_SPENT BY <2>1, <2>2, Zenon
  <2> HIDE DEF listed
  <2> QED BY <2>1, <2>3, <2>4, <2>5
<1>2. e \in Nat /\ e \in 0..e /\ list \in Seq(Nullifiers) /\ Len(list) \in Nat
  BY <1>0 DEF ListsType
<1>3. /\ listed \in Seq(Nullifiers) /\ Len(listed) = Len(list) + 2
      /\ \A i \in 1..Len(list) : listed[i] = list[i]
      /\ listed[Len(list) + 1] = n1 /\ listed[Len(list) + 2] = n2
  <2>1. n1 \in Nullifiers /\ n2 \in Nullifiers /\ listed = list \o <<n1, n2>> BY <1>1
  <2> HIDE DEF list, listed, n1, n2
  <2> QED BY <1>2, <2>1, TwoMore
<1>4. /\ \A epoch \in (0..e) \ {e} : EPOCH_NULLIFIERS'[epoch] = EPOCH_NULLIFIERS[epoch]
      /\ EPOCH_NULLIFIERS'[e] = listed
      /\ EPOCH_NULLIFIERS' \in [0..e -> Seq(Nullifiers)]
  BY <1>0, <1>1, <1>2, <1>3 DEF ListsType
<1>5. ListsType' BY <1>0, <1>1, <1>4 DEF ListsType
<1> HIDE DEF list, listed, n1, n2
\* The new places, and what is at each.
<1>6. ASSUME NEW epoch, NEW i
      PROVE  Listed(epoch, i)' <=> \/ Listed(epoch, i)
                                   \/ epoch = e /\ i = Len(list) + 1
                                   \/ epoch = e /\ i = Len(list) + 2
  <2>1. Listed(epoch, i)' <=> epoch \in 0..e /\ i \in 1..Len(EPOCH_NULLIFIERS'[epoch])
    BY DEF Listed
  <2>2. CASE epoch = e
    <3>1. i \in 1..Len(listed) <=>
            i \in 1..Len(list) \/ i = Len(list) + 1 \/ i = Len(list) + 2
      BY <1>2, <1>3
    <3> QED BY <1>2, <1>4, <2>1, <2>2, <3>1 DEF Listed, list
  <2>3. CASE epoch # e BY <1>4, <2>1, <2>3 DEF Listed
  <2> QED BY <2>2, <2>3
<1>7. ASSUME NEW epoch, NEW i, Listed(epoch, i)
      PROVE  EPOCH_NULLIFIERS'[epoch][i] = EPOCH_NULLIFIERS[epoch][i]
  <2>1. CASE epoch = e BY <1>3, <1>4, <1>7, <2>1 DEF Listed, list
  <2>2. CASE epoch # e BY <1>4, <1>7, <2>2 DEF Listed
  <2> QED BY <2>1, <2>2
<1>8. /\ EPOCH_NULLIFIERS'[e][Len(list) + 1] = n1
      /\ EPOCH_NULLIFIERS'[e][Len(list) + 2] = n2
  BY <1>3, <1>4
<1>9. \A epoch, i : Listed(epoch, i) =>
        EPOCH_NULLIFIERS[epoch][i] \in NULLIFIER_SPENT \ {n1, n2}
  BY <1>0, <1>1 DEF SpentIsListed
<1>10. SpentIsListed'
  <2>1. ASSUME NEW epoch, NEW i, Listed(epoch, i)'
        PROVE  EPOCH_NULLIFIERS'[epoch][i] \in NULLIFIER_SPENT'
    BY <1>1, <1>6, <1>7, <1>8, <1>9, <2>1
  <2>2. ASSUME NEW nullifier \in NULLIFIER_SPENT'
        PROVE  \E epoch, i : Listed(epoch, i)'
                               /\ EPOCH_NULLIFIERS'[epoch][i] = nullifier
    <3>1. CASE nullifier = n1 BY <1>6, <1>8, <3>1
    <3>2. CASE nullifier = n2 BY <1>6, <1>8, <3>2
    <3>3. CASE nullifier \in NULLIFIER_SPENT
      BY <1>0, <1>6, <1>7, <3>3 DEF SpentIsListed
    <3> QED BY <1>1, <2>2, <3>1, <3>2, <3>3
  <2> QED BY <2>1, <2>2, Zenon DEF SpentIsListed
<1>11. ListedOnce'
  <2>1. ASSUME NEW epoch1, NEW i1, NEW epoch2, NEW i2,
               Listed(epoch1, i1)', Listed(epoch2, i2)',
               EPOCH_NULLIFIERS'[epoch1][i1] = EPOCH_NULLIFIERS'[epoch2][i2]
        PROVE  epoch1 = epoch2 /\ i1 = i2
    <3>1. CASE Listed(epoch1, i1) /\ Listed(epoch2, i2)
      BY <1>0, <1>7, <2>1, <3>1 DEF ListedOnce
    <3>2. CASE Listed(epoch1, i1) /\ ~ Listed(epoch2, i2)
      BY <1>6, <1>7, <1>8, <1>9, <2>1, <3>2
    <3>3. CASE ~ Listed(epoch1, i1) /\ Listed(epoch2, i2)
      BY <1>6, <1>7, <1>8, <1>9, <2>1, <3>3
    <3>4. CASE ~ Listed(epoch1, i1) /\ ~ Listed(epoch2, i2)
      BY <1>1, <1>6, <1>8, <2>1, <3>4
    <3> QED BY <3>1, <3>2, <3>3, <3>4
  <2> QED BY <2>1, Zenon DEF ListedOnce
<1>12. RootsOfLists'
  <2>1. ASSUME NEW epoch \in 0..e, EPOCHS[epoch].finalized
        PROVE  EPOCH_NULLIFIERS'[epoch] = EPOCH_NULLIFIERS[epoch]
    <3>1. epoch < e BY <1>0, <2>1 DEF RootsOfLists
    <3> QED BY <1>2, <1>4, <3>1
  <2> QED BY <1>0, <2>1 DEF RootsOfLists
<1> QED BY <1>5, <1>10, <1>11, <1>12 DEF ListsInv

\* The open epoch is closed over its whole list, and an empty one opened.
LEMMA FinalizeEffect ==
    ASSUME ListsInv, NEW sender, execute_finalize_epoch(sender)
    PROVE  ListsInv'
<1> DEFINE e == CURRENT_EPOCH_ID
           next == e + 1
           list == EPOCH_NULLIFIERS[e]
           closed == [nullifier_root  |-> compute_nullifier_root(list),
                      nullifier_count |-> Len(list), finalized |-> TRUE]
<1>0. ListsType /\ SpentIsListed /\ ListedOnce /\ RootsOfLists BY DEF ListsInv
<1>1. /\ EPOCHS' = [epoch \in 0..next |->
            CASE epoch = e -> closed
              [] epoch = next -> OpenEpoch
              [] OTHER -> EPOCHS[epoch]]
      /\ EPOCH_NULLIFIERS' = [epoch \in 0..next |->
            IF epoch = next THEN << >> ELSE EPOCH_NULLIFIERS[epoch]]
      /\ CURRENT_EPOCH_ID' = next /\ NULLIFIER_SPENT' = NULLIFIER_SPENT
  BY DEF execute_finalize_epoch
<1>2. /\ e \in Nat /\ next \in Nat /\ e \in 0..e /\ e # next /\ e < next
      /\ 0..next = (0..e) \cup {next} /\ next \notin 0..e
  BY <1>0 DEF ListsType
<1>3. /\ \A epoch \in 0..e : EPOCH_NULLIFIERS'[epoch] = EPOCH_NULLIFIERS[epoch]
      /\ EPOCH_NULLIFIERS'[next] = << >>
  BY <1>1, <1>2
<1>4. /\ \A epoch \in (0..e) \ {e} : EPOCHS'[epoch] = EPOCHS[epoch]
      /\ EPOCHS'[e] = closed /\ EPOCHS'[next] = OpenEpoch /\ DOMAIN EPOCHS' = 0..next
  BY <1>1, <1>2
<1>5. ListsType'
  <2>1. EPOCH_NULLIFIERS' \in [0..next -> Seq(Nullifiers)]
    BY <1>0, <1>1, <1>2, <1>3 DEF ListsType
  <2>2. Len(<< >>) <= max_nullifiers_per_epoch BY CosmWasmAssumption
  <2> HIDE DEF next
  <2> QED BY <1>0, <1>1, <1>2, <1>3, <1>4, <2>1, <2>2 DEF ListsType
<1>6. ASSUME NEW epoch, NEW i
      PROVE  /\ Listed(epoch, i)' <=> Listed(epoch, i)
             /\ Listed(epoch, i) =>
                  EPOCH_NULLIFIERS'[epoch][i] = EPOCH_NULLIFIERS[epoch][i]
  <2>1. Listed(epoch, i)' <=>
          epoch \in 0..next /\ i \in 1..Len(EPOCH_NULLIFIERS'[epoch])
    BY <1>1 DEF Listed
  <2>2. i \notin 1..Len(<< >>) OBVIOUS
  <2> HIDE DEF next
  <2> QED BY <1>2, <1>3, <2>1, <2>2 DEF Listed
<1>7. SpentIsListed' /\ ListedOnce'
  <2> HIDE DEF next, closed
  <2>0. NULLIFIER_SPENT' = NULLIFIER_SPENT BY <1>1
  <2>1. ASSUME NEW epoch, NEW i, Listed(epoch, i)'
        PROVE  EPOCH_NULLIFIERS'[epoch][i] \in NULLIFIER_SPENT'
    BY <1>0, <1>6, <2>0, <2>1 DEF SpentIsListed
  <2>2. ASSUME NEW nullifier \in NULLIFIER_SPENT'
        PROVE  \E epoch, i : Listed(epoch, i)'
                               /\ EPOCH_NULLIFIERS'[epoch][i] = nullifier
    <3>1. PICK epoch, i : Listed(epoch, i) /\ EPOCH_NULLIFIERS[epoch][i] = nullifier
      BY <1>0, <2>0, <2>2 DEF SpentIsListed
    <3> QED BY <1>6, <3>1
  <2>3. SpentIsListed' BY <2>1, <2>2, Zenon DEF SpentIsListed
  <2>4. ASSUME NEW epoch1, NEW i1, NEW epoch2, NEW i2,
               Listed(epoch1, i1)', Listed(epoch2, i2)',
               EPOCH_NULLIFIERS'[epoch1][i1] = EPOCH_NULLIFIERS'[epoch2][i2]
        PROVE  epoch1 = epoch2 /\ i1 = i2
    BY <1>0, <1>6, <2>4 DEF ListedOnce
  <2>5. ListedOnce' BY <2>4, Zenon DEF ListedOnce
  <2> QED BY <2>3, <2>5
<1>8. RootsOfLists'
  <2>1. ASSUME NEW epoch \in 0..next, EPOCHS'[epoch].finalized
        PROVE  /\ epoch < next
               /\ EPOCHS'[epoch].nullifier_root =
                      compute_nullifier_root(EPOCH_NULLIFIERS'[epoch])
    <3>1. CASE epoch = next BY <1>4, <2>1, <3>1 DEF OpenEpoch
    <3>2. CASE epoch = e BY <1>2, <1>3, <1>4, <3>2
    <3>3. CASE epoch # e /\ epoch # next
      <4>1. epoch \in (0..e) \ {e} /\ epoch < next BY <1>2, <3>3
      <4> QED BY <1>0, <1>3, <1>4, <2>1, <4>1 DEF RootsOfLists
    <3> QED BY <3>1, <3>2, <3>3
  <2> QED BY <1>1, <2>1 DEF RootsOfLists
<1> QED BY <1>5, <1>7, <1>8 DEF ListsInv

LEMMA ListsStep == ListsInv /\ [execute]_vars => ListsInv'
<1> SUFFICES ASSUME ListsInv, [execute]_vars PROVE ListsInv'
  OBVIOUS
<1>1. ASSUME NEW funds, NEW commitment, execute_deposit(funds, commitment)
      PROVE  ListsInv'
  BY <1>1, ListsUnchanged DEF execute_deposit
<1>2. ASSUME NEW proof, NEW root, NEW nullifiers \in Nullifiers \X Nullifiers,
             NEW outputs, execute_transfer(proof, root, nullifiers, outputs)
      PROVE  ListsInv'
  BY <1>2, SpendEffect DEF execute_transfer
<1>3. ASSUME NEW proof, NEW root, NEW nullifiers \in Nullifiers \X Nullifiers,
             NEW outputs, NEW toSelf, NEW exit_value,
             execute_withdraw(proof, root, nullifiers, outputs, toSelf, exit_value)
      PROVE  ListsInv'
  BY <1>3, SpendEffect DEF execute_withdraw
<1>4. ASSUME NEW sender, execute_finalize_epoch(sender) PROVE ListsInv'
  BY <1>4, FinalizeEffect
<1>5. ASSUME NEW sender, NEW key, NEW root, execute_sync_epoch_root(sender, key, root)
      PROVE  ListsInv'
  BY <1>5, ListsUnchanged DEF execute_sync_epoch_root
<1>6. ASSUME NEW sender, NEW new_governance,
             execute_update_governance(sender, new_governance)
      PROVE  ListsInv'
  BY <1>6, ListsUnchanged DEF execute_update_governance
<1>7. ASSUME NEW sender, NEW relayer, execute_set_authorized_relayer(sender, relayer)
      PROVE  ListsInv'
  BY <1>7, ListsUnchanged DEF execute_set_authorized_relayer
<1>8. CASE UNCHANGED vars BY <1>8, ListsUnchanged DEF vars
<1> QED BY <1>1, <1>2, <1>3, <1>4, <1>5, <1>6, <1>7, <1>8 DEF execute

\* A list without repetitions has as many elements as places.
LEMMA InEpochCount ==
    ASSUME ListsInv, NEW epoch \in 0..CURRENT_EPOCH_ID
    PROVE  Cardinality(InEpoch(epoch)) = Len(EPOCH_NULLIFIERS[epoch])
<1> DEFINE list == EPOCH_NULLIFIERS[epoch]
           at == [i \in 1..Len(list) |-> list[i]]
<1>1. list \in Seq(Nullifiers) /\ Len(list) \in Nat BY DEF ListsInv, ListsType
<1>2. InEpoch(epoch) = {list[i] : i \in 1..Len(list)} BY DEF InEpoch
<1>3. \A i \in 1..Len(list) : Listed(epoch, i) BY DEF Listed
<1>4. \A i, j \in 1..Len(list) : list[i] = list[j] => i = j
  BY <1>3 DEF ListsInv, ListedOnce
<1> HIDE DEF list
<1>5. /\ at \in [1..Len(list) -> InEpoch(epoch)]
      /\ \A n \in InEpoch(epoch) : \E i \in 1..Len(list) : at[i] = n
      /\ \A i, j \in 1..Len(list) : at[i] = at[j] => i = j
  BY <1>2, <1>4
<1> HIDE DEF at
<1>6. at \in Bijection(1..Len(list), InEpoch(epoch))
  BY <1>5 DEF Bijection, Injection, Surjection, IsInjective
<1>7. ExistsBijection(1..Len(list), InEpoch(epoch)) BY <1>6 DEF ExistsBijection
<1>8. IsFiniteSet(1..Len(list)) /\ Cardinality(1..Len(list)) = Len(list)
  <2> DEFINE k == Len(list)
  <2>1. 1 \in Int /\ k \in Int /\ k \in Nat BY <1>1
  <2> HIDE DEF k
  <2>2. /\ IsFiniteSet(1..k)
        /\ Cardinality(1..k) = IF 1 > k THEN 0 ELSE k - 1 + 1
    BY <2>1, FS_Interval, Zenon
  <2>3. Cardinality(1..k) = k BY <2>1, <2>2
  <2> QED BY <2>2, <2>3 DEF k
<1> QED BY <1>7, <1>8, FS_Bijection DEF list

LEMMA ListsInvImplies == ListsInv => EpochsCommitToSpent
<1> SUFFICES ASSUME ListsInv PROVE EpochsCommitToSpent OBVIOUS
<1>0. ListsType /\ SpentIsListed /\ ListedOnce /\ RootsOfLists BY DEF ListsInv
<1>1. /\ DOMAIN EPOCH_NULLIFIERS = 0..CURRENT_EPOCH_ID
      /\ DOMAIN EPOCHS = 0..CURRENT_EPOCH_ID
  BY <1>0 DEF ListsType
<1>2. ASSUME NEW epoch \in 0..CURRENT_EPOCH_ID, NEW n
      PROVE  n \in InEpoch(epoch) <=>
                \E i : Listed(epoch, i) /\ EPOCH_NULLIFIERS[epoch][i] = n
  BY DEF InEpoch, Listed
<1>3. ASSUME NEW n PROVE n \in AllListed <=> n \in NULLIFIER_SPENT
  <2>1. n \in AllListed <=> \E epoch \in 0..CURRENT_EPOCH_ID : n \in InEpoch(epoch)
    BY <1>1 DEF AllListed
  <2>2. \A epoch, i : Listed(epoch, i) => epoch \in 0..CURRENT_EPOCH_ID BY DEF Listed
  <2> QED BY <1>0, <1>2, <2>1, <2>2 DEF SpentIsListed
<1>4. AllListed = NULLIFIER_SPENT BY <1>3
<1>5. \A e1, e2 \in 0..CURRENT_EPOCH_ID :
         e1 # e2 => InEpoch(e1) \cap InEpoch(e2) = {}
  BY <1>0, <1>2 DEF ListedOnce
<1>6. \A epoch \in 0..CURRENT_EPOCH_ID :
         /\ Cardinality(InEpoch(epoch)) = Len(EPOCH_NULLIFIERS[epoch])
         /\ Len(EPOCH_NULLIFIERS[epoch]) <= max_nullifiers_per_epoch
         /\ EPOCHS[epoch].finalized =>
               EPOCHS[epoch].nullifier_root =
                   compute_nullifier_root(EPOCH_NULLIFIERS[epoch])
  BY <1>0, InEpochCount DEF ListsType, RootsOfLists
<1> QED BY <1>1, <1>4, <1>5, <1>6 DEF EpochsCommitToSpent

\* What contract.rs execute_finalize_epoch publishes is what transfers and
\* withdrawals spent: the epochs partition the spent nullifiers, and the root
\* of a finalized epoch stays that of its whole list.
THEOREM CosmWasmEpochsCommit == Spec => []EpochsCommitToSpent
BY ListsInit, ListsStep, ListsInvImplies, PTL DEF Spec

-----------------------------------------------------------------------------
(* The notes: the contract implements PoolLedger.                          *)

NotesInv == TreeOK(tree, tree_depth, root_history_size) /\ POOL_BALANCE \in Nat

LEMMA InsertIsShared ==
    ASSUME NEW t, NEW leaf
    PROVE  insert_leaf(t, leaf)
             = Inserted(t, hex_to_32(leaf), zero_hash, tree_depth, root_history_size)
<1> DEFINE path == CHOOSE path : Climbs(t.next, hex_to_32(leaf), t.filled, zero_hash, tree_depth, path)
           slot == (t.current + 1) % root_history_size
           filled == [level \in 0..(tree_depth - 1) |-> IF (t.next \div 2^level) % 2 = 0
                                                   THEN path[level] ELSE t.filled[level]]
           roots == [t.roots EXCEPT ![slot] = path[tree_depth]]
<1>1. insert_leaf(t, leaf) = [next |-> t.next + 1, current |-> slot,
                              filled |-> filled, roots |-> roots]
  BY Zenon DEF insert_leaf, Climbs, poseidon_hash_hex, Levels
<1>2. Inserted(t, hex_to_32(leaf), zero_hash, tree_depth, root_history_size)
        = [next |-> t.next + 1, filled |-> filled, roots |-> roots, current |-> slot]
  BY Zenon DEF Inserted
<1> HIDE DEF filled, roots, slot
<1> QED BY <1>1, <1>2

LEMMA AppendsIsShared ==
    ASSUME NEW k, Appended(Kept(tree, tree_depth), Kept(tree', tree_depth), k, 2^tree_depth, Words)
    PROVE  Ledger!Appends(k)
<1>1. Kept(tree, tree_depth) = LeavesUnder(query_PoolStatus.latest_root, tree_depth,
                                           query_PoolStatus.total_deposits)
  BY DEF Kept, query_PoolStatus
<1>2. Kept(tree', tree_depth) = LeavesUnder(query_PoolStatus'.latest_root, tree_depth,
                                            query_PoolStatus'.total_deposits)
  BY DEF Kept, query_PoolStatus
<1> QED BY <1>1, <1>2 DEF Appended, Ledger!Appends

LEMMA DepositAppends ==
    ASSUME NotesInv, NEW note \in Notes, HasRoom(tree, 1), CanRead(note),
           tree' = insert_leaf(tree, note)
    PROVE  TreeOK(tree', tree_depth, root_history_size) /\ Ledger!Appends(1)
<1>1. tree' = Inserted(tree, hex_to_32(note), zero_hash, tree_depth, root_history_size)
  BY InsertIsShared
<1>4. hex_to_32(note) \in Words BY DEF Words, CanRead, hex_to_32
<1>2. tree.next + 1 <= 2^tree_depth BY DEF HasRoom
<1>3. /\ TreeOK(tree', tree_depth, root_history_size)
      /\ Appended(Kept(tree, tree_depth), Kept(tree', tree_depth), 1, 2^tree_depth, Words)
  BY <1>1, <1>2, <1>4, InsertOne, CosmWasmAssumption, PowersOfTwo DEF NotesInv
<1> QED BY <1>3, AppendsIsShared

LEMMA OutputsAppend ==
    ASSUME NotesInv, NEW outputs \in Outputs, InsertOutputs(outputs)
    PROVE  TreeOK(tree', tree_depth, root_history_size) /\ Ledger!Appends(2)
<1>1. tree' = Inserted(Inserted(tree, hex_to_32(outputs[1]), zero_hash, tree_depth,
                                root_history_size),
                       hex_to_32(outputs[2]), zero_hash, tree_depth, root_history_size)
  BY InsertIsShared DEF InsertOutputs
<1>2. tree.next + 2 <= 2^tree_depth BY DEF InsertOutputs, HasRoom
<1>3. hex_to_32(outputs[1]) \in Words /\ hex_to_32(outputs[2]) \in Words
  <2>1. outputs[1] \in Notes /\ outputs[2] \in Notes BY CosmWasmAssumption DEF Notes
  <2> QED BY <2>1 DEF InsertOutputs, CanRead, Words, hex_to_32
<1>4. /\ TreeOK(tree', tree_depth, root_history_size)
      /\ Appended(Kept(tree, tree_depth), Kept(tree', tree_depth), 2, 2^tree_depth, Words)
  BY <1>1, <1>2, <1>3, InsertTwo, CosmWasmAssumption, PowersOfTwo DEF NotesInv
<1> QED BY <1>4, AppendsIsShared

LEMMA NotesStart == instantiate => NotesInv /\ Ledger!LedgerInit
<1> SUFFICES ASSUME instantiate PROVE NotesInv /\ Ledger!LedgerInit
  OBVIOUS
<1> USE CosmWasmAssumption, PowersOfTwo
<1>1. /\ tree.next = 0 /\ tree.current = 0
      /\ DOMAIN tree.roots = 0..(root_history_size - 1)
      /\ POOL_BALANCE = 0 /\ NULLIFIER_SPENT = {}
  BY DEF instantiate, Slots
<1>2. 0 \in 0..(root_history_size - 1) /\ 2^tree_depth \in Nat BY PowersArePositive
<1>3. Frontier(tree.roots[tree.current], tree_depth, 0, tree.filled) BY EmptyFrontier
<1>4. TreeOK(tree, tree_depth, root_history_size) BY <1>1, <1>2, <1>3 DEF TreeOK
<1>5. query_PoolStatus.total_deposits = 0 /\ query_PoolStatus.pool_balance = 0
  BY <1>1 DEF query_PoolStatus
<1>6. LeavesUnder(query_PoolStatus.latest_root, tree_depth, query_PoolStatus.total_deposits) = << >>
  BY <1>5 DEF LeavesUnder
<1>7. {n \in Nullifiers : query_IsSpent(n)} = {} BY <1>1 DEF query_IsSpent
<1> QED BY <1>1, <1>4, <1>5, <1>6, <1>7 DEF NotesInv, Ledger!LedgerInit

\* What the views say of nullifiers and balance.
LEMMA ViewsOfState ==
    /\ query_PoolStatus.pool_balance = POOL_BALANCE
    /\ query_PoolStatus'.pool_balance = POOL_BALANCE'
    /\ {n \in Nullifiers : query_IsSpent(n)} = {n \in Nullifiers : n \in NULLIFIER_SPENT}
    /\ {n \in Nullifiers : query_IsSpent(n)}' = {n \in Nullifiers : n \in NULLIFIER_SPENT'}
BY DEF query_PoolStatus, query_IsSpent

\* Two nullifiers that were not spent, and are now.
LEMMA TwoSpent ==
    ASSUME NEW nuls \in Nullifiers \X Nullifiers, check_and_spend_nullifiers(nuls)
    PROVE  LET seen == {n \in Nullifiers : n \in NULLIFIER_SPENT}
               now == {n \in Nullifiers : n \in NULLIFIER_SPENT'}
           IN  \E nul1, nul2 \in Nullifiers \ seen :
                  nul1 # nul2 /\ now = seen \cup {nul1, nul2}
<1> DEFINE seen == {n \in Nullifiers : n \in NULLIFIER_SPENT}
           now == {n \in Nullifiers : n \in NULLIFIER_SPENT'}
<1>1. /\ nuls[1] \in Nullifiers /\ nuls[1] \notin NULLIFIER_SPENT
      /\ nuls[2] \in Nullifiers /\ nuls[2] \notin NULLIFIER_SPENT
      /\ nuls[1] # nuls[2]
      /\ NULLIFIER_SPENT' = NULLIFIER_SPENT \cup {nuls[1], nuls[2]}
  BY DEF check_and_spend_nullifiers
<1>2. nuls[1] \in Nullifiers \ seen /\ nuls[2] \in Nullifiers \ seen BY <1>1
<1>3. now = seen \cup {nuls[1], nuls[2]} BY <1>1
<1> QED BY <1>1, <1>2, <1>3

LEMMA JoinIsShared ==
    ASSUME NEW nuls \in Nullifiers \X Nullifiers, check_and_spend_nullifiers(nuls),
           Ledger!Appends(2), POOL_BALANCE' <= POOL_BALANCE
    PROVE  Ledger!Join
<1> DEFINE seen == {n \in Nullifiers : n \in NULLIFIER_SPENT}
           now == {n \in Nullifiers : n \in NULLIFIER_SPENT'}
<1>1. \E nul1, nul2 \in Nullifiers \ seen : nul1 # nul2 /\ now = seen \cup {nul1, nul2}
  BY TwoSpent
<1>2. /\ {n \in Nullifiers : query_IsSpent(n)} = seen
      /\ {n \in Nullifiers : query_IsSpent(n)}' = now
  BY ViewsOfState
<1>3. query_PoolStatus'.pool_balance <= query_PoolStatus.pool_balance BY ViewsOfState
<1> HIDE DEF seen, now
<1> QED BY <1>1, <1>2, <1>3 DEF Ledger!Join

LEMMA NotesStep ==
    ASSUME NotesInv, [execute]_vars
    PROVE  NotesInv' /\ [Ledger!LedgerNext]_(Ledger!ledger)
<1>1. ASSUME NEW funds \in [Denoms -> 0..MaxAmount], NEW note \in Notes,
             execute_deposit(funds, note)
      PROVE  NotesInv' /\ Ledger!Shield
  <2>1. TreeOK(tree', tree_depth, root_history_size) /\ Ledger!Appends(1)
    BY <1>1, DepositAppends DEF execute_deposit
  <2>2. funds[accepted_denom] \in Nat /\ funds[accepted_denom] > 0
        /\ POOL_BALANCE' = POOL_BALANCE + funds[accepted_denom]
    BY <1>1, CosmWasmAssumption DEF execute_deposit
  <2>3. POOL_BALANCE' \in Nat /\ POOL_BALANCE' > POOL_BALANCE BY <2>2 DEF NotesInv
  <2>4. query_PoolStatus'.pool_balance > query_PoolStatus.pool_balance BY <2>3, ViewsOfState
  <2>5. NULLIFIER_SPENT' = NULLIFIER_SPENT BY <1>1 DEF execute_deposit
  <2>6. {n \in Nullifiers : query_IsSpent(n)}' = {n \in Nullifiers : query_IsSpent(n)}
    BY <2>5 DEF query_IsSpent
  <2> QED BY <2>1, <2>3, <2>4, <2>6 DEF NotesInv, Ledger!Shield
<1>2. ASSUME NEW nuls \in Nullifiers \X Nullifiers, NEW outputs \in Outputs,
             NEW proof, NEW root, execute_transfer(proof, root, nuls, outputs)
      PROVE  NotesInv' /\ Ledger!Join
  <2>1. TreeOK(tree', tree_depth, root_history_size) /\ Ledger!Appends(2)
    BY <1>2, OutputsAppend DEF execute_transfer
  <2>2. check_and_spend_nullifiers(nuls) BY <1>2 DEF execute_transfer
  <2>3. POOL_BALANCE' \in Nat /\ POOL_BALANCE' <= POOL_BALANCE BY <1>2 DEF execute_transfer, NotesInv
  <2> QED BY <2>1, <2>2, <2>3, JoinIsShared DEF NotesInv
<1>3. ASSUME NEW nuls \in Nullifiers \X Nullifiers, NEW outputs \in Outputs,
             NEW proof, NEW root, NEW toSelf, NEW exit_value \in 1..MaxAmount,
             execute_withdraw(proof, root, nuls, outputs, toSelf, exit_value)
      PROVE  NotesInv' /\ Ledger!Join
  <2>1. TreeOK(tree', tree_depth, root_history_size) /\ Ledger!Appends(2)
    BY <1>3, OutputsAppend DEF execute_withdraw
  <2>2. check_and_spend_nullifiers(nuls) BY <1>3 DEF execute_withdraw
  <2>3. /\ exit_value \in Nat /\ exit_value <= POOL_BALANCE
        /\ POOL_BALANCE' = POOL_BALANCE - exit_value
    BY <1>3, CosmWasmAssumption DEF execute_withdraw
  <2>4. POOL_BALANCE' \in Nat /\ POOL_BALANCE' <= POOL_BALANCE BY <2>3 DEF NotesInv
  <2> QED BY <2>1, <2>2, <2>4, JoinIsShared DEF NotesInv
<1>4. ASSUME UNCHANGED <<tree, NULLIFIER_SPENT, POOL_BALANCE>>
      PROVE  NotesInv' /\ UNCHANGED Ledger!ledger
  <2>1. query_PoolStatus'.latest_root = query_PoolStatus.latest_root
        /\ query_PoolStatus'.total_deposits = query_PoolStatus.total_deposits
        /\ query_PoolStatus'.pool_balance = query_PoolStatus.pool_balance
    BY <1>4 DEF query_PoolStatus
  <2>2. {n \in Nullifiers : query_IsSpent(n)}' = {n \in Nullifiers : query_IsSpent(n)}
    BY <1>4 DEF query_IsSpent
  <2> QED BY <1>4, <2>1, <2>2 DEF NotesInv, Ledger!ledger
<1>5. \/ \E funds \in [Denoms -> 0..MaxAmount], note \in Notes : execute_deposit(funds, note)
      \/ \E nuls \in Nullifiers \X Nullifiers, outputs \in Outputs :
            \/ \E proof, root : execute_transfer(proof, root, nuls, outputs)
            \/ \E proof, root, toSelf : \E exit_value \in 1..MaxAmount :
                  execute_withdraw(proof, root, nuls, outputs, toSelf, exit_value)
      \/ UNCHANGED <<tree, NULLIFIER_SPENT, POOL_BALANCE>>
  <2>1. ASSUME NEW sender, execute_finalize_epoch(sender)
        PROVE  UNCHANGED <<tree, NULLIFIER_SPENT, POOL_BALANCE>>
    BY <2>1 DEF execute_finalize_epoch
  <2>2. ASSUME NEW sender, NEW key, NEW root, execute_sync_epoch_root(sender, key, root)
        PROVE  UNCHANGED <<tree, NULLIFIER_SPENT, POOL_BALANCE>>
    BY <2>2 DEF execute_sync_epoch_root
  <2>3. ASSUME NEW sender, NEW to, execute_update_governance(sender, to)
        PROVE  UNCHANGED <<tree, NULLIFIER_SPENT, POOL_BALANCE>>
    BY <2>3 DEF execute_update_governance
  <2>4. ASSUME NEW sender, NEW relayer, execute_set_authorized_relayer(sender, relayer)
        PROVE  UNCHANGED <<tree, NULLIFIER_SPENT, POOL_BALANCE>>
    BY <2>4 DEF execute_set_authorized_relayer
  <2>5. ASSUME UNCHANGED vars PROVE UNCHANGED <<tree, NULLIFIER_SPENT, POOL_BALANCE>>
    BY <2>5 DEF vars
  <2> QED BY <2>1, <2>2, <2>3, <2>4, <2>5, Zenon DEF execute
<1>6. NotesInv' /\ (Ledger!Shield \/ Ledger!Join \/ UNCHANGED Ledger!ledger)
  BY <1>1, <1>2, <1>3, <1>4, <1>5, Zenon
<1> QED BY <1>6, Zenon DEF Ledger!LedgerNext

\* A client that asks the contract (LatestRoot, IsSpent, PoolStatus) sees the
\* abstract pool: a deposit of the accepted coin appends its note and raises the
\* balance, a transfer and a withdrawal append two notes for two nullifiers that
\* were not spent, and no other message shows.  The notes are what the latest
\* root of insert_leaf commits to, at every depth.
THEOREM CosmWasmImplementsLedger == Spec => ImplementsPoolLedger
BY NotesStart, NotesStep, PTL DEF Spec, ImplementsPoolLedger, Ledger!LedgerSpec
=============================================================================
