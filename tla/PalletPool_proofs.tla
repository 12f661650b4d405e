-------------------------- MODULE PalletPool_proofs --------------------------
(***************************************************************************)
(* Proofs about PalletPool, for every depth, every set of users and        *)
(* nullifiers, and any existential deposit: its funds, its epochs (where   *)
(* compute_nullifier_root stays opaque) and its notes.                     *)
(***************************************************************************)
EXTENDS PalletPool, FiniteSetTheorems, MerkleReference_proofs, TLAPS

-----------------------------------------------------------------------------
(* The funds. *)

FundsType ==
    /\ PoolBalance \in Nat
    /\ free \in [Accounts -> Nat]
    /\ dust \in Nat

FundsInv == FundsType /\ FundsCoverPool

\* A user pays the pool and stays alive: nothing is reaped.
LEMMA PayInEffect ==
    ASSUME FundsType, NEW who \in Users, NEW amount \in Amounts,
           CanTransfer(who, PoolAccount, amount, TRUE),
           CurrencyTransfer(who, PoolAccount, amount)
    PROVE  /\ free' \in [Accounts -> Nat]
           /\ free'[PoolAccount] = free[PoolAccount] + amount
           /\ dust' = dust
<1> USE PalletAssumption
<1>1. /\ who \in Accounts /\ PoolAccount \in Accounts /\ who # PoolAccount
      /\ amount \in Nat
  BY DEF Accounts, Amounts
<1>2. free[who] \in Nat /\ free[PoolAccount] \in Nat BY <1>1 DEF FundsType
<1>3. /\ amount <= free[who]
      /\ free[who] - amount >= ExistentialDeposit
  BY DEF CanTransfer
<1>4. ~ (free[who] - amount < ExistentialDeposit) BY <1>1, <1>2, <1>3
<1>5. /\ free' = [free EXCEPT ![who] = free[who] - amount - 0,
                              ![PoolAccount] = @ + amount]
      /\ dust' = dust + 0
  BY <1>1, <1>4 DEF CurrencyTransfer
<1>6. free[who] - amount - 0 \in Nat BY <1>1, <1>2, <1>3
<1> QED BY <1>1, <1>2, <1>5, <1>6 DEF FundsType

\* The pool pays somebody, perhaps itself: account and dust together lose at
\* most what is paid.
LEMMA PayOutEffect ==
    ASSUME FundsType, NEW recipient \in Accounts, NEW amount \in Amounts,
           CanTransfer(PoolAccount, recipient, amount, FALSE),
           CurrencyTransfer(PoolAccount, recipient, amount)
    PROVE  /\ free' \in [Accounts -> Nat] /\ dust' \in Nat
           /\ free'[PoolAccount] + dust' >= free[PoolAccount] + dust - amount
<1> USE PalletAssumption
<1>1. PoolAccount \in Accounts /\ amount \in Nat BY DEF Accounts, Amounts
<1>2. free[PoolAccount] \in Nat /\ free[recipient] \in Nat /\ dust \in Nat
  BY <1>1 DEF FundsType
<1>3. amount <= free[PoolAccount] BY DEF CanTransfer
<1>4. CASE recipient = PoolAccount
  <2>1. free' = free /\ dust' = dust BY <1>4 DEF CurrencyTransfer, currency
  <2> QED BY <1>1, <1>2, <2>1 DEF FundsType
<1>5. CASE recipient # PoolAccount
  <2> DEFINE rest == free[PoolAccount] - amount
             taken == IF rest < ExistentialDeposit THEN rest ELSE 0
  <2>1. rest \in Nat /\ taken \in Nat /\ rest - taken \in Nat BY <1>1, <1>2, <1>3
  <2>2. /\ free' = [free EXCEPT ![PoolAccount] = rest - taken,
                                ![recipient] = @ + amount]
        /\ dust' = dust + taken
    BY <1>5 DEF CurrencyTransfer
  <2>3. free'[PoolAccount] = rest - taken
    BY <1>1, <1>5, <2>2 DEF FundsType
  <2>4. free' \in [Accounts -> Nat]
    BY <1>1, <1>2, <2>1, <2>2 DEF FundsType
  <2>5. free'[PoolAccount] + dust' = rest + dust
    BY <1>2, <2>1, <2>2, <2>3
  <2> QED BY <1>1, <1>2, <2>1, <2>2, <2>4, <2>5
<1> QED BY <1>4, <1>5

LEMMA FundsInit == Init => FundsInv
<1> USE PalletAssumption
<1> SUFFICES ASSUME Init PROVE FundsInv OBVIOUS
<1>1. /\ PoolBalance = 0 /\ dust = 0
      /\ free = [account \in Accounts |-> IF account \in Users THEN Supply ELSE 0]
  BY DEF Init
<1>2. PoolAccount \in Accounts BY DEF Accounts
<1>3. free \in [Accounts -> Nat] /\ free[PoolAccount] = 0 BY <1>1, <1>2
<1> QED BY <1>1, <1>3 DEF FundsInv, FundsType, FundsCoverPool

LEMMA FundsStep == FundsInv /\ [Next]_vars => FundsInv'
<1> USE PalletAssumption
<1> SUFFICES ASSUME FundsInv, [Next]_vars PROVE FundsInv'
  OBVIOUS
<1>0. FundsType /\ PoolBalance <= free[PoolAccount] + dust
  BY DEF FundsInv, FundsCoverPool
<1>00. PoolBalance \in Nat /\ free[PoolAccount] \in Nat /\ dust \in Nat
  BY <1>0 DEF FundsType, Accounts
<1>1. ASSUME NEW who \in Users, NEW commitment \in Notes, NEW amount \in Amounts,
             deposit(who, commitment, amount)
      PROVE  FundsInv'
  <2>1. /\ CanTransfer(who, PoolAccount, amount, TRUE)
        /\ CurrencyTransfer(who, PoolAccount, amount)
        /\ PoolBalance' = PoolBalance + amount
    BY <1>1 DEF deposit
  <2>2. /\ free' \in [Accounts -> Nat] /\ dust' = dust
        /\ free'[PoolAccount] = free[PoolAccount] + amount
    BY <1>0, <2>1, PayInEffect
  <2>3. amount \in Nat BY DEF Amounts
  <2>4. PoolBalance' <= free'[PoolAccount] + dust' BY <1>0, <1>00, <2>1, <2>2, <2>3
  <2>5. PoolBalance' \in Nat BY <1>00, <2>1, <2>3
  <2> QED BY <1>00, <2>2, <2>4, <2>5 DEF FundsInv, FundsType, FundsCoverPool
<1>2. ASSUME NEW proof, NEW root, NEW nullifiers, NEW outputs,
             transfer(proof, root, nullifiers, outputs)
      PROVE  FundsInv'
  <2>1. UNCHANGED <<PoolBalance, free, dust>> BY <1>2 DEF transfer, currency
  <2> QED BY <2>1 DEF FundsInv, FundsType, FundsCoverPool
<1>3. ASSUME NEW proof, NEW root, NEW nullifiers, NEW outputs,
             NEW recipient \in Accounts, NEW exit_value \in Amounts,
             withdraw(proof, root, nullifiers, outputs, recipient, exit_value)
      PROVE  FundsInv'
  <2>1. /\ exit_value <= PoolBalance
        /\ PoolBalance' = PoolBalance - exit_value
        /\ CanTransfer(PoolAccount, recipient, exit_value, FALSE)
        /\ CurrencyTransfer(PoolAccount, recipient, exit_value)
    BY <1>3 DEF withdraw
  <2>2. /\ free' \in [Accounts -> Nat] /\ dust' \in Nat
        /\ free'[PoolAccount] + dust' >= free[PoolAccount] + dust - exit_value
    BY <1>0, <2>1, PayOutEffect
  <2>3. exit_value \in Nat /\ free'[PoolAccount] \in Nat
    BY <2>2 DEF Amounts, Accounts
  <2>4. PoolBalance' \in Nat /\ PoolBalance' <= free'[PoolAccount] + dust'
    BY <1>0, <1>00, <2>1, <2>2, <2>3
  <2> QED BY <2>2, <2>4 DEF FundsInv, FundsType, FundsCoverPool
<1>4. CASE finalize_epoch
  <2>1. UNCHANGED <<PoolBalance, free, dust>>
    BY <1>4 DEF finalize_epoch, currency
  <2> QED BY <2>1 DEF FundsInv, FundsType, FundsCoverPool
<1>5. ASSUME NEW para, NEW epoch, NEW root, sync_epoch_root(para, epoch, root)
      PROVE  FundsInv'
  <2>1. UNCHANGED <<PoolBalance, free, dust>>
    BY <1>5 DEF sync_epoch_root, currency
  <2> QED BY <2>1 DEF FundsInv, FundsType, FundsCoverPool
<1>6. CASE UNCHANGED vars
  <2>1. UNCHANGED <<PoolBalance, free, dust>> BY <1>6 DEF vars, currency
  <2> QED BY <2>1 DEF FundsInv, FundsType, FundsCoverPool
<1> QED BY <1>1, <1>2, <1>3, <1>4, <1>5, <1>6 DEF Next

\* The pool's account, with what reaping took from it, covers PoolBalance:
\* lib.rs deposit counts what it was paid, and withdraw pays what it uncounts.
THEOREM PalletFundsCovered == Spec => []FundsCoverPool
<1>1. FundsInv => FundsCoverPool BY DEF FundsInv
<1> QED BY FundsInit, FundsStep, <1>1, PTL DEF Spec

-----------------------------------------------------------------------------
(* The lists of the epochs. *)

EpochRecords == [nullifier_root : {compute_nullifier_root(s) : s \in Seq(Nullifiers)},
                 nullifier_count : Nat, finalized : BOOLEAN]

ListsType ==
    /\ NullifierSpent \subseteq Nullifiers
    /\ CurrentEpochId \in Nat
    /\ Epochs \in [0..CurrentEpochId -> EpochRecords]
    /\ EpochNullifiers \in [0..CurrentEpochId -> Seq(Nullifiers)]

SpentOnce ==
    \A nullifier \in Nullifiers :
        Cardinality(Listed(nullifier)) = IF nullifier \in NullifierSpent THEN 1 ELSE 0

RootsOfLists ==
    \A epoch \in 0..CurrentEpochId :
        /\ Epochs[epoch].finalized <=> epoch < CurrentEpochId
        /\ Epochs[epoch].finalized =>
              /\ Epochs[epoch].nullifier_count = Len(EpochNullifiers[epoch])
              /\ Epochs[epoch].nullifier_root =
                     compute_nullifier_root(EpochNullifiers[epoch])

ListsInv == ListsType /\ SpentOnce /\ RootsOfLists

LEMMA ListedIsFinite ==
    ASSUME ListsType, NEW nullifier
    PROVE  IsFiniteSet(Listed(nullifier))
<1>1. IsFiniteSet(0..CurrentEpochId) /\ IsFiniteSet(1..MaxNullifiersPerEpoch)
  BY FS_Interval, PalletAssumption DEF ListsType
<1>2. IsFiniteSet((0..CurrentEpochId) \X (1..MaxNullifiersPerEpoch))
  BY <1>1, FS_Product
<1>3. Listed(nullifier) \subseteq (0..CurrentEpochId) \X (1..MaxNullifiersPerEpoch)
  BY DEF Listed
<1> QED BY <1>2, <1>3, FS_Subset

LEMMA UnspentIsUnlisted ==
    ASSUME ListsType, SpentOnce, NEW nullifier \in Nullifiers \ NullifierSpent
    PROVE  Listed(nullifier) = {}
<1>1. Cardinality(Listed(nullifier)) = 0 BY DEF SpentOnce
<1>2. IsFiniteSet(Listed(nullifier)) BY ListedIsFinite
<1> QED BY <1>1, <1>2, FS_EmptySet

LEMMA OpenEpochType == OpenEpoch \in EpochRecords /\ ~ OpenEpoch.finalized
<1>1. << >> \in Seq(Nullifiers) OBVIOUS
<1>2. compute_nullifier_root(<< >>) = Zero BY DEF compute_nullifier_root
<1> QED BY <1>1, <1>2 DEF OpenEpoch, EpochRecords

LEMMA ListsInit == Init => ListsInv
<1> SUFFICES ASSUME Init PROVE ListsInv OBVIOUS
<1>1. /\ NullifierSpent = {} /\ CurrentEpochId = 0
      /\ Epochs = [epoch \in {0} |-> OpenEpoch]
      /\ EpochNullifiers = [epoch \in {0} |-> << >>]
  BY DEF Init
<1>2. 0..CurrentEpochId = {0} BY <1>1
<1>3. ListsType BY <1>1, <1>2, OpenEpochType DEF ListsType
<1>4. ASSUME NEW nullifier \in Nullifiers PROVE Cardinality(Listed(nullifier)) = 0
  <2>1. \A p \in (0..CurrentEpochId) \X (1..MaxNullifiersPerEpoch) :
           ~ (p[2] <= Len(EpochNullifiers[p[1]]))
    BY <1>1, <1>2, PalletAssumption
  <2>2. Listed(nullifier) = {} BY <2>1 DEF Listed
  <2> QED BY <2>2, FS_EmptySet
<1>5. SpentOnce BY <1>1, <1>4 DEF SpentOnce
<1>6. RootsOfLists BY <1>1, <1>2, OpenEpochType DEF RootsOfLists
<1> QED BY <1>3, <1>5, <1>6 DEF ListsInv

LEMMA ListsUnchanged ==
    ASSUME ListsInv, UNCHANGED <<NullifierSpent, CurrentEpochId, Epochs, EpochNullifiers>>
    PROVE  ListsInv'
BY DEF ListsInv, ListsType, SpentOnce, RootsOfLists, Listed

LEMMA TwoMore ==
    ASSUME NEW S, NEW s \in Seq(S), NEW a \in S, NEW b \in S
    PROVE  /\ s \o <<a, b>> \in Seq(S)
           /\ Len(s \o <<a, b>>) = Len(s) + 2
           /\ \A i \in 1..Len(s) : (s \o <<a, b>>)[i] = s[i]
           /\ (s \o <<a, b>>)[Len(s) + 1] = a
           /\ (s \o <<a, b>>)[Len(s) + 2] = b
OBVIOUS

\* A spend lists each of its nullifiers at one new place of the open epoch.
LEMMA SpendEffect ==
    ASSUME ListsInv, NEW nullifiers \in Nullifiers \X Nullifiers,
           check_and_spend_nullifiers(nullifiers),
           UNCHANGED <<CurrentEpochId, Epochs>>
    PROVE  ListsInv'
<1> USE PalletAssumption
<1> DEFINE e == CurrentEpochId
           list == EpochNullifiers[e]
           n1 == nullifiers[1]
           n2 == nullifiers[2]
           listed == list \o nullifiers
           Places == (0..e) \X (1..MaxNullifiersPerEpoch)
<1>0. ListsType /\ SpentOnce /\ RootsOfLists BY DEF ListsInv
<1>1. /\ n1 \in Nullifiers \ NullifierSpent /\ n2 \in Nullifiers \ NullifierSpent
      /\ n1 # n2 /\ nullifiers = <<n1, n2>>
      /\ Len(listed) <= MaxNullifiersPerEpoch
      /\ NullifierSpent' = NullifierSpent \cup {n1, n2}
      /\ EpochNullifiers' = [EpochNullifiers EXCEPT ![e] = listed]
  <2>1. /\ \A i \in 1..2 : nullifiers[i] \notin NullifierSpent
        /\ nullifiers[1] # nullifiers[2]
        /\ Len(listed) <= MaxNullifiersPerEpoch
        /\ NullifierSpent' = NullifierSpent \cup {nullifiers[1], nullifiers[2]}
        /\ EpochNullifiers' = [EpochNullifiers EXCEPT ![e] = listed]
    BY DEF check_and_spend_nullifiers
  <2>2. 1 \in 1..2 /\ 2 \in 1..2 OBVIOUS
  <2>3. n1 \in Nullifiers /\ n2 \in Nullifiers OBVIOUS
  <2>4. nullifiers = <<n1, n2>> OBVIOUS
  <2>5. n1 \notin NullifierSpent /\ n2 \notin NullifierSpent BY <2>1, <2>2, Zenon
  <2> HIDE DEF listed
  <2> QED BY <2>1, <2>3, <2>4, <2>5
<1>2. e \in Nat /\ e \in 0..e /\ list \in Seq(Nullifiers) /\ Len(list) \in Nat
  BY <1>0 DEF ListsType
<1>3. /\ listed \in Seq(Nullifiers) /\ Len(listed) = Len(list) + 2
      /\ \A i \in 1..Len(list) : listed[i] = list[i]
      /\ listed[Len(list) + 1] = n1 /\ listed[Len(list) + 2] = n2
  <2>1. n1 \in Nullifiers /\ n2 \in Nullifiers /\ listed = list \o <<n1, n2>> BY <1>1
  <2> HIDE DEF list, listed, n1, n2
  <2> QED BY <1>2, <2>1, TwoMore
<1>4. /\ \A epoch \in (0..e) \ {e} : EpochNullifiers'[epoch] = EpochNullifiers[epoch]
      /\ EpochNullifiers'[e] = listed
      /\ EpochNullifiers' \in [0..e -> Seq(Nullifiers)]
  BY <1>0, <1>1, <1>2, <1>3 DEF ListsType
<1>5. ListsType' BY <1>0, <1>1, <1>4 DEF ListsType
<1>6. Listed(n1) = {} /\ Listed(n2) = {} BY <1>0, <1>1, UnspentIsUnlisted
<1>7. \A nullifier : Listed(nullifier)' =
        {p \in Places : p[2] <= Len(EpochNullifiers'[p[1]])
                          /\ EpochNullifiers'[p[1]][p[2]] = nullifier}
  BY DEF Listed
<1>8. ASSUME NEW nullifier \in Nullifiers, NEW p \in Places
      PROVE  p \in Listed(nullifier)' <=>
                \/ p \in Listed(nullifier)
                \/ p = <<e, Len(list) + 1>> /\ nullifier = n1
                \/ p = <<e, Len(list) + 2>> /\ nullifier = n2
  <2>1. p[1] \in 0..e /\ p[2] \in 1..MaxNullifiersPerEpoch /\ p = <<p[1], p[2]>>
    OBVIOUS
  <2>2. p \in Listed(nullifier)' <=>
           p[2] <= Len(EpochNullifiers'[p[1]]) /\ EpochNullifiers'[p[1]][p[2]] = nullifier
    BY <1>7
  <2>3. p \in Listed(nullifier) <=>
           p[2] <= Len(EpochNullifiers[p[1]]) /\ EpochNullifiers[p[1]][p[2]] = nullifier
    BY DEF Listed
  <2>4. CASE p[1] # e
    <3>1. EpochNullifiers'[p[1]] = EpochNullifiers[p[1]] BY <1>4, <2>1, <2>4
    <3> QED BY <2>2, <2>3, <2>4, <3>1
  <2>5. CASE p[1] = e
    <3> HIDE DEF list, listed, n1, n2, e
    <3>1. /\ p \in Listed(nullifier)' <=> p[2] <= Len(listed) /\ listed[p[2]] = nullifier
          /\ p \in Listed(nullifier) <=> p[2] <= Len(list) /\ list[p[2]] = nullifier
      BY <1>4, <2>2, <2>3, <2>5 DEF list
    <3>2. CASE p[2] <= Len(list)
      <4>1. listed[p[2]] = list[p[2]] BY <1>2, <1>3, <2>1, <3>2
      <4>2. p[2] # Len(list) + 1 /\ p[2] # Len(list) + 2 /\ p[2] <= Len(listed)
        BY <1>2, <1>3, <2>1, <3>2
      <4> QED BY <3>1, <3>2, <4>1, <4>2
    <3>3. CASE p[2] = Len(list) + 1
      <4>1. /\ p[2] <= Len(listed) /\ ~ (p[2] <= Len(list)) /\ p[2] # Len(list) + 2
            /\ p = <<e, Len(list) + 1>>
        BY <1>2, <1>3, <2>1, <2>5, <3>3
      <4> QED BY <1>3, <3>1, <3>3, <4>1
    <3>4. CASE p[2] = Len(list) + 2
      <4>1. /\ p[2] <= Len(listed) /\ ~ (p[2] <= Len(list)) /\ p[2] # Len(list) + 1
            /\ p = <<e, Len(list) + 2>>
        BY <1>2, <1>3, <2>1, <2>5, <3>4
      <4> QED BY <1>3, <3>1, <3>4, <4>1
    <3>5. CASE p[2] > Len(list) + 2
      <4>1. /\ ~ (p[2] <= Len(listed)) /\ ~ (p[2] <= Len(list))
            /\ p[2] # Len(list) + 1 /\ p[2] # Len(list) + 2
        BY <1>2, <1>3, <2>1, <3>5
      <4> QED BY <3>1, <4>1
    <3> QED BY <1>2, <2>1, <3>2, <3>3, <3>4, <3>5
  <2> QED BY <2>4, <2>5
<1>9. /\ <<e, Len(list) + 1>> \in Places /\ <<e, Len(list) + 2>> \in Places
  BY <1>1, <1>2, <1>3
<1>10. \A nullifier : Listed(nullifier) \subseteq Places /\ Listed(nullifier)' \subseteq Places
  BY <1>7 DEF Listed
<1>11. ASSUME NEW nullifier \in Nullifiers
       PROVE  Cardinality(Listed(nullifier)') =
                 IF nullifier \in NullifierSpent' THEN 1 ELSE 0
  <2> HIDE DEF Places, list, listed, n1, n2, e
  <2>1. CASE nullifier = n1
    <3>1. Listed(nullifier)' = {<<e, Len(list) + 1>>}
      BY <1>1, <1>6, <1>8, <1>9, <1>10, <2>1
    <3>2. Cardinality({<<e, Len(list) + 1>>}) = 1 BY FS_Singleton
    <3> QED BY <1>1, <2>1, <3>1, <3>2
  <2>2. CASE nullifier = n2
    <3>1. Listed(nullifier)' = {<<e, Len(list) + 2>>}
      BY <1>1, <1>6, <1>8, <1>9, <1>10, <2>2
    <3>2. Cardinality({<<e, Len(list) + 2>>}) = 1 BY FS_Singleton
    <3> QED BY <1>1, <2>2, <3>1, <3>2
  <2>3. CASE nullifier # n1 /\ nullifier # n2
    <3>1. Listed(nullifier)' = Listed(nullifier) BY <1>8, <1>10, <2>3
    <3>2. nullifier \in NullifierSpent' <=> nullifier \in NullifierSpent BY <1>1, <2>3
    <3> QED BY <1>0, <3>1, <3>2 DEF SpentOnce
  <2> QED BY <2>1, <2>2, <2>3
<1>12. SpentOnce'
  <2> SUFFICES ASSUME NEW nullifier \in Nullifiers
               PROVE  Cardinality(Listed(nullifier)') =
                         IF nullifier \in NullifierSpent' THEN 1 ELSE 0
    BY DEF SpentOnce
  <2> QED BY <1>11
<1>13. RootsOfLists'
  <2>1. ASSUME NEW epoch \in 0..e, Epochs[epoch].finalized
        PROVE  EpochNullifiers'[epoch] = EpochNullifiers[epoch]
    <3>1. epoch < e BY <1>0, <2>1 DEF RootsOfLists
    <3> QED BY <1>2, <1>4, <3>1
  <2> QED BY <1>0, <2>1 DEF RootsOfLists
<1> QED BY <1>5, <1>12, <1>13 DEF ListsInv

\* The open epoch is closed over its whole list, and an empty one opened.
LEMMA FinalizeEffect == ASSUME ListsInv, finalize_epoch PROVE ListsInv'
<1> USE PalletAssumption
<1> DEFINE e == CurrentEpochId
           next == e + 1
           list == EpochNullifiers[e]
           closed == [nullifier_root  |-> compute_nullifier_root(list),
                      nullifier_count |-> Len(list), finalized |-> TRUE]
<1>0. ListsType /\ SpentOnce /\ RootsOfLists BY DEF ListsInv
<1>1. /\ Epochs' = [epoch \in 0..next |->
            CASE epoch = e -> closed
              [] epoch = next -> OpenEpoch
              [] OTHER -> Epochs[epoch]]
      /\ EpochNullifiers' = [epoch \in 0..next |->
            IF epoch = next THEN << >> ELSE EpochNullifiers[epoch]]
      /\ CurrentEpochId' = next /\ NullifierSpent' = NullifierSpent
  BY DEF finalize_epoch
<1>2. /\ e \in Nat /\ next \in Nat /\ e \in 0..e /\ e # next
      /\ 0..next = (0..e) \cup {next} /\ next \notin 0..e
      /\ list \in Seq(Nullifiers) /\ Len(list) \in Nat
  BY <1>0 DEF ListsType
<1>3. closed \in EpochRecords BY <1>2 DEF EpochRecords
<1>4. /\ \A epoch \in 0..e : EpochNullifiers'[epoch] = EpochNullifiers[epoch]
      /\ EpochNullifiers'[next] = << >>
  BY <1>1, <1>2
<1>5. /\ \A epoch \in (0..e) \ {e} : Epochs'[epoch] = Epochs[epoch]
      /\ Epochs'[e] = closed /\ Epochs'[next] = OpenEpoch
  BY <1>1, <1>2
<1>6. ListsType'
  <2>1. EpochNullifiers' \in [0..next -> Seq(Nullifiers)]
    BY <1>0, <1>1, <1>2, <1>4 DEF ListsType
  <2>2. Epochs' \in [0..next -> EpochRecords]
    <3> HIDE DEF closed
    <3>1. \A epoch \in 0..next : Epochs'[epoch] \in EpochRecords
      BY <1>0, <1>2, <1>3, <1>5, OpenEpochType DEF ListsType
    <3> QED BY <1>1, <3>1
  <2> QED BY <1>0, <1>1, <1>2, <2>1, <2>2 DEF ListsType
<1>7. ASSUME NEW nullifier PROVE Listed(nullifier)' = Listed(nullifier)
  <2>1. Listed(nullifier)' =
          {p \in (0..next) \X (1..MaxNullifiersPerEpoch) :
             p[2] <= Len(EpochNullifiers'[p[1]])
               /\ EpochNullifiers'[p[1]][p[2]] = nullifier}
    BY <1>1 DEF Listed
  <2>2. Len(<< >>) = 0 /\ \A i \in 1..MaxNullifiersPerEpoch : ~ (i <= 0) OBVIOUS
  <2>3. \A p \in Listed(nullifier)' : p[1] \in 0..e
    BY <1>2, <1>4, <2>1, <2>2
  <2> HIDE DEF next
  <2>4. Listed(nullifier)' \subseteq Listed(nullifier)
    BY <1>4, <2>1, <2>3 DEF Listed
  <2>5. Listed(nullifier) \subseteq Listed(nullifier)'
    BY <1>2, <1>4, <2>1 DEF Listed
  <2> QED BY <2>4, <2>5
<1>8. SpentOnce' BY <1>0, <1>1, <1>7 DEF SpentOnce
<1>9. RootsOfLists'
  <2>1. ASSUME NEW epoch \in 0..next
        PROVE  /\ Epochs'[epoch].finalized <=> epoch < next
               /\ Epochs'[epoch].finalized =>
                     /\ Epochs'[epoch].nullifier_count = Len(EpochNullifiers'[epoch])
                     /\ Epochs'[epoch].nullifier_root =
                            compute_nullifier_root(EpochNullifiers'[epoch])
    <3>1. CASE epoch = next BY <1>2, <1>5, <3>1, OpenEpochType
    <3>2. CASE epoch = e BY <1>2, <1>4, <1>5, <3>2
    <3>3. CASE epoch # e /\ epoch # next
      <4>1. epoch \in (0..e) \ {e} /\ epoch < e /\ epoch < next BY <1>2, <3>3
      <4>2. Epochs'[epoch] = Epochs[epoch]
              /\ EpochNullifiers'[epoch] = EpochNullifiers[epoch]
        BY <1>4, <1>5, <4>1
      <4> QED BY <1>0, <4>1, <4>2 DEF RootsOfLists
    <3> QED BY <3>1, <3>2, <3>3
  <2> QED BY <1>1, <2>1 DEF RootsOfLists
<1> QED BY <1>6, <1>8, <1>9 DEF ListsInv

LEMMA ListsStep == ListsInv /\ [Next]_vars => ListsInv'
<1> SUFFICES ASSUME ListsInv, [Next]_vars PROVE ListsInv'
  OBVIOUS
<1>1. ASSUME NEW who, NEW commitment, NEW amount, deposit(who, commitment, amount)
      PROVE  ListsInv'
  BY <1>1, ListsUnchanged DEF deposit, epochVars
<1>2. ASSUME NEW proof, NEW root, NEW outputs, NEW nullifiers \in Nullifiers \X Nullifiers,
             transfer(proof, root, nullifiers, outputs)
      PROVE  ListsInv'
  BY <1>2, SpendEffect DEF transfer
<1>3. ASSUME NEW proof, NEW root, NEW outputs, NEW nullifiers \in Nullifiers \X Nullifiers,
             NEW recipient, NEW exit_value,
             withdraw(proof, root, nullifiers, outputs, recipient, exit_value)
      PROVE  ListsInv'
  BY <1>3, SpendEffect DEF withdraw
<1>4. CASE finalize_epoch BY <1>4, FinalizeEffect
<1>5. ASSUME NEW para, NEW epoch, NEW root, sync_epoch_root(para, epoch, root)
      PROVE  ListsInv'
  BY <1>5, ListsUnchanged DEF sync_epoch_root, epochVars
<1>6. CASE UNCHANGED vars BY <1>6, ListsUnchanged DEF vars, epochVars
<1> QED BY <1>1, <1>2, <1>3, <1>4, <1>5, <1>6 DEF Next

\* What lib.rs finalize_epoch publishes is what transfer and withdraw spent: each
\* spent nullifier is listed once, and finalized roots commit to whole lists.
THEOREM PalletEpochsCommit == Spec => []EpochsCommitToSpent
<1>1. ListsInv => EpochsCommitToSpent
  BY DEF ListsInv, SpentOnce, RootsOfLists, EpochsCommitToSpent
<1> QED BY ListsInit, ListsStep, <1>1, PTL DEF Spec

-----------------------------------------------------------------------------
(* The notes: the pallet implements PoolLedger.                            *)

NotesInv == TreeOK(tree, TreeDepth, RootHistorySize) /\ PoolBalance \in Nat

LEMMA InsertIsShared ==
    ASSUME NEW t, NEW leaf
    PROVE  insert_leaf(t, leaf) = Inserted(t, leaf, zero_hash, TreeDepth, RootHistorySize)
BY Zenon DEF insert_leaf, Inserted, Climbs, poseidon_hash, Levels

LEMMA AppendsIsShared ==
    ASSUME NEW k,
           Appended(Kept(tree, TreeDepth), Kept(tree', TreeDepth), k, 2^TreeDepth, Notes)
    PROVE  Ledger!Appends(k)
BY DEF Appended, Kept, Ledger!Appends, get_latest_root

LEMMA DepositAppends ==
    ASSUME NotesInv, NEW note \in Notes, HasRoom(tree, 1),
           tree' = insert_leaf(tree, note)
    PROVE  TreeOK(tree', TreeDepth, RootHistorySize) /\ Ledger!Appends(1)
<1>1. tree' = Inserted(tree, note, zero_hash, TreeDepth, RootHistorySize)
  BY InsertIsShared
<1>2. tree.next + 1 <= 2^TreeDepth BY DEF HasRoom
<1>3. /\ TreeOK(tree', TreeDepth, RootHistorySize)
      /\ Appended(Kept(tree, TreeDepth), Kept(tree', TreeDepth), 1, 2^TreeDepth, Notes)
  BY <1>1, <1>2, InsertOne, PalletAssumption, PowersOfTwo DEF NotesInv
<1> QED BY <1>3, AppendsIsShared

LEMMA OutputsAppend ==
    ASSUME NotesInv, NEW outputs \in Outputs, InsertOutputs(outputs)
    PROVE  TreeOK(tree', TreeDepth, RootHistorySize) /\ Ledger!Appends(2)
<1>1. tree' = Inserted(Inserted(tree, outputs[1], zero_hash, TreeDepth, RootHistorySize),
                       outputs[2], zero_hash, TreeDepth, RootHistorySize)
  BY InsertIsShared DEF InsertOutputs
<1>2. tree.next + 2 <= 2^TreeDepth BY DEF InsertOutputs, HasRoom
<1>3. outputs[1] \in Notes /\ outputs[2] \in Notes BY PalletAssumption DEF Notes
<1>4. /\ TreeOK(tree', TreeDepth, RootHistorySize)
      /\ Appended(Kept(tree, TreeDepth), Kept(tree', TreeDepth), 2, 2^TreeDepth, Notes)
  BY <1>1, <1>2, <1>3, InsertTwo, PalletAssumption, PowersOfTwo DEF NotesInv
<1> QED BY <1>4, AppendsIsShared

LEMMA NotesStart == Init => NotesInv /\ Ledger!LedgerInit
<1> SUFFICES ASSUME Init PROVE NotesInv /\ Ledger!LedgerInit
  OBVIOUS
<1> USE PalletAssumption, PowersOfTwo
<1>1. /\ tree.next = 0 /\ tree.current = 0
      /\ DOMAIN tree.roots = 0..(RootHistorySize - 1)
  BY DEF Init, Slots
<1>2. 0 \in 0..(RootHistorySize - 1) /\ 2^TreeDepth \in Nat BY PowersArePositive
<1>3. Frontier(tree.roots[tree.current], TreeDepth, 0, tree.filled) BY EmptyFrontier
<1>4. TreeOK(tree, TreeDepth, RootHistorySize) BY <1>1, <1>2, <1>3 DEF TreeOK
<1>5. LeavesUnder(get_latest_root, TreeDepth, tree.next) = << >>
  BY <1>1 DEF LeavesUnder
<1> QED BY <1>4, <1>5 DEF Init, NotesInv, Ledger!LedgerInit

\* Two nullifiers that were not spent, and are now.
LEMMA TwoSpent ==
    ASSUME NEW nullifiers \in Nullifiers \X Nullifiers,
           check_and_spend_nullifiers(nullifiers), ValidNullifiers(nullifiers)
    PROVE  \E nul1, nul2 \in Nullifier \ NullifierSpent :
              nul1 # nul2 /\ NullifierSpent' = NullifierSpent \cup {nul1, nul2}
<1>1. /\ nullifiers[1] \in Nullifier \ NullifierSpent
      /\ nullifiers[2] \in Nullifier \ NullifierSpent
      /\ nullifiers[1] # nullifiers[2]
      /\ NullifierSpent' = NullifierSpent \cup {nullifiers[1], nullifiers[2]}
  BY DEF check_and_spend_nullifiers, ValidNullifiers, Nullifiers
<1> QED BY <1>1

LEMMA NotesStep ==
    ASSUME NotesInv, [Next]_vars
    PROVE  NotesInv' /\ [Ledger!LedgerNext]_(Ledger!ledger)
<1>1. ASSUME NEW who \in Users, NEW commitment \in Notes, NEW amount \in Amounts,
             deposit(who, commitment, amount)
      PROVE  NotesInv' /\ Ledger!Shield
  <2>1. TreeOK(tree', TreeDepth, RootHistorySize) /\ Ledger!Appends(1)
    BY <1>1, DepositAppends DEF deposit
  <2>2. amount \in Nat /\ amount > 0 /\ PoolBalance' = PoolBalance + amount
    BY <1>1, PalletAssumption DEF deposit, Amounts
  <2>3. PoolBalance' \in Nat /\ PoolBalance' > PoolBalance BY <2>2 DEF NotesInv
  <2>4. NullifierSpent' = NullifierSpent BY <1>1 DEF deposit
  <2> QED BY <2>1, <2>3, <2>4 DEF NotesInv, Ledger!Shield
<1>2. ASSUME NEW nullifiers \in Nullifiers \X Nullifiers, NEW outputs \in Outputs,
             NEW proof, NEW root, transfer(proof, root, nullifiers, outputs)
      PROVE  NotesInv' /\ Ledger!Join
  <2>1. TreeOK(tree', TreeDepth, RootHistorySize) /\ Ledger!Appends(2)
    BY <1>2, OutputsAppend DEF transfer
  <2>2. \E nul1, nul2 \in Nullifier \ NullifierSpent :
           nul1 # nul2 /\ NullifierSpent' = NullifierSpent \cup {nul1, nul2}
    BY <1>2, TwoSpent DEF transfer, verify_transfer
  <2>3. PoolBalance' \in Nat /\ PoolBalance' <= PoolBalance
    BY <1>2 DEF transfer, NotesInv
  <2> QED BY <2>1, <2>2, <2>3 DEF NotesInv, Ledger!Join
<1>3. ASSUME NEW nullifiers \in Nullifiers \X Nullifiers, NEW outputs \in Outputs,
             NEW proof, NEW root, NEW recipient \in Accounts,
             NEW exit_value \in Amounts,
             withdraw(proof, root, nullifiers, outputs, recipient, exit_value)
      PROVE  NotesInv' /\ Ledger!Join
  <2>1. TreeOK(tree', TreeDepth, RootHistorySize) /\ Ledger!Appends(2)
    BY <1>3, OutputsAppend DEF withdraw
  <2>2. \E nul1, nul2 \in Nullifier \ NullifierSpent :
           nul1 # nul2 /\ NullifierSpent' = NullifierSpent \cup {nul1, nul2}
    BY <1>3, TwoSpent DEF withdraw, verify_withdraw
  <2>3. /\ exit_value \in Nat /\ exit_value <= PoolBalance
        /\ PoolBalance' = PoolBalance - exit_value
    BY <1>3, PalletAssumption DEF withdraw, Amounts
  <2>4. PoolBalance' \in Nat /\ PoolBalance' <= PoolBalance BY <2>3 DEF NotesInv
  <2> QED BY <2>1, <2>2, <2>4 DEF NotesInv, Ledger!Join
<1>4. ASSUME UNCHANGED <<tree, NullifierSpent, PoolBalance>>
      PROVE  NotesInv' /\ UNCHANGED Ledger!ledger
  BY <1>4 DEF NotesInv, Ledger!ledger, get_latest_root
<1>5. \/ \E who \in Users, commitment \in Notes, amount \in Amounts :
            deposit(who, commitment, amount)
      \/ \E nullifiers \in Nullifiers \X Nullifiers, outputs \in Outputs :
            \/ \E proof, root : transfer(proof, root, nullifiers, outputs)
            \/ \E proof, root : \E recipient \in Accounts, exit_value \in Amounts :
                  withdraw(proof, root, nullifiers, outputs, recipient, exit_value)
      \/ UNCHANGED <<tree, NullifierSpent, PoolBalance>>
  <2>1. ASSUME finalize_epoch PROVE UNCHANGED <<tree, NullifierSpent, PoolBalance>>
    BY <2>1 DEF finalize_epoch
  <2>2. ASSUME NEW para, NEW epoch, NEW root, sync_epoch_root(para, epoch, root)
        PROVE  UNCHANGED <<tree, NullifierSpent, PoolBalance>>
    BY <2>2 DEF sync_epoch_root
  <2>3. ASSUME UNCHANGED vars PROVE UNCHANGED <<tree, NullifierSpent, PoolBalance>>
    BY <2>3 DEF vars
  <2> QED BY <2>1, <2>2, <2>3, Zenon DEF Next
<1>6. NotesInv' /\ (Ledger!Shield \/ Ledger!Join \/ UNCHANGED Ledger!ledger)
  BY <1>1, <1>2, <1>3, <1>4, <1>5, Zenon
<1> QED BY <1>6, Zenon DEF Ledger!LedgerNext

\* Every call of the pallet is a step of the abstract pool, or none: a deposit
\* appends its note and raises the balance, a transfer and a withdrawal append
\* two notes for two nullifiers that were not spent, and what a withdrawal takes
\* was in the pool.  The notes are what the latest Merkle root commits to, so
\* the proof is about insert_leaf at every depth: no insertion loses, moves or
\* changes an older note.
THEOREM PalletImplementsLedger == Spec => ImplementsPoolLedger
BY NotesStart, NotesStep, PTL DEF Spec, ImplementsPoolLedger, Ledger!LedgerSpec
=============================================================================
