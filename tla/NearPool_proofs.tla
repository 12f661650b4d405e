--------------------------- MODULE NearPool_proofs ---------------------------
(***************************************************************************)
(* Proofs about NearPool, for any number of payouts in flight, and for     *)
(* lists and epochs of any length; compute_nullifier_root stays opaque.    *)
(***************************************************************************)
EXTENDS NearPool, FiniteSetTheorems, FunctionTheorems, MerkleReference_proofs,
        TLAPS

-----------------------------------------------------------------------------
\* What the contract counts, and the amounts of the receipts, are amounts.
AccountType ==
    /\ pool_balance \in Nat /\ account \in Nat /\ unclaimed \in Nat
    /\ \A receipt \in receipts : receipt.amount \in Nat

AccountInv == AccountType /\ AccountIsExplained

LEMMA AccountInit == new => AccountInv
BY DEF new, AccountInv, AccountType, AccountIsExplained

LEMMA AccountUnchanged ==
    ASSUME AccountInv, UNCHANGED <<pool_balance, account, receipts, unclaimed>>
    PROVE  AccountInv'
BY DEF AccountInv, AccountType, AccountIsExplained

LEMMA AccountStep == AccountInv /\ [Next]_vars => AccountInv'
<1> SUFFICES ASSUME AccountInv, [Next]_vars PROVE AccountInv'
  OBVIOUS
<1>0. AccountType /\ account = pool_balance + unclaimed
  BY DEF AccountInv, AccountIsExplained
<1> USE NearAssumption
<1>1. ASSUME NEW commitment, NEW amount \in 0..MaxAmount, deposit(commitment, amount)
      PROVE  AccountInv'
  <2>1. /\ pool_balance' = pool_balance + amount /\ account' = account + amount
        /\ receipts' = receipts /\ unclaimed' = unclaimed
    BY <1>1 DEF deposit
  <2>2. pool_balance' \in Nat /\ account' \in Nat /\ account' = pool_balance' + unclaimed'
    BY <1>0, <2>1 DEF AccountType
  <2> QED BY <1>0, <2>1, <2>2 DEF AccountInv, AccountType, AccountIsExplained
<1>2. ASSUME NEW proof, NEW root, NEW nullifiers, NEW outputs,
             transfer(proof, root, nullifiers, outputs)
      PROVE  AccountInv'
  BY <1>2, AccountUnchanged DEF transfer, runtime
\* The amount leaves the counter and the account together, and travels.
<1>3. ASSUME NEW proof, NEW root, NEW nullifiers, NEW outputs, NEW recipient,
             NEW exit_amount \in 1..MaxAmount,
             withdraw(proof, root, nullifiers, outputs, recipient, exit_amount)
      PROVE  AccountInv'
  <2>1. /\ exit_amount <= pool_balance /\ exit_amount <= account
        /\ pool_balance' = pool_balance - exit_amount
        /\ account' = account - exit_amount /\ unclaimed' = unclaimed
        /\ receipts' = receipts \cup {Receipt(recipient, exit_amount)}
    BY <1>3 DEF withdraw
  <2>2. exit_amount \in Nat /\ Receipt(recipient, exit_amount).amount = exit_amount
    BY DEF Receipt
  <2>3. /\ pool_balance' \in Nat /\ account' \in Nat /\ unclaimed' \in Nat
        /\ account' = pool_balance' + unclaimed'
    BY <1>0, <2>1, <2>2 DEF AccountType
  <2>4. \A receipt \in receipts' : receipt.amount \in Nat
    BY <1>0, <2>1, <2>2 DEF AccountType
  <2> QED BY <2>3, <2>4 DEF AccountInv, AccountType, AccountIsExplained
\* It arrives, or comes back and is counted as unclaimed.
<1>4. ASSUME NEW receipt \in receipts, RunReceipt(receipt)
      PROVE  AccountInv'
  <2>1. /\ receipts' = receipts \ {receipt} /\ pool_balance' = pool_balance
        /\ \/ account' = account /\ unclaimed' = unclaimed
           \/ /\ account' = account + receipt.amount
              /\ unclaimed' = unclaimed + receipt.amount
    BY <1>4 DEF RunReceipt
  <2>2. receipt.amount \in Nat BY <1>0 DEF AccountType
  <2>3. /\ account' \in Nat /\ unclaimed' \in Nat
        /\ account' = pool_balance' + unclaimed'
    BY <1>0, <2>1, <2>2 DEF AccountType
  <2> QED BY <1>0, <2>1, <2>3 DEF AccountInv, AccountType, AccountIsExplained
<1>5. ASSUME NEW caller, NEW relayer, set_authorized_relayer(caller, relayer)
      PROVE  AccountInv'
  BY <1>5, AccountUnchanged DEF set_authorized_relayer, runtime
<1>6. ASSUME NEW caller, finalize_epoch(caller)
      PROVE  AccountInv'
  BY <1>6, AccountUnchanged DEF finalize_epoch, runtime
<1>7. ASSUME NEW caller, NEW key, NEW root, sync_epoch_root(caller, key, root)
      PROVE  AccountInv'
  BY <1>7, AccountUnchanged DEF sync_epoch_root, runtime
<1>8. ASSUME NEW amount \in 1..MaxAmount, ReceiveDirectly(amount)
      PROVE  AccountInv'
  <2>1. /\ receipts' = receipts /\ pool_balance' = pool_balance
        /\ account' = account + amount /\ unclaimed' = unclaimed + amount
    BY <1>8 DEF ReceiveDirectly
  <2>2. amount \in Nat BY NearAssumption
  <2>3. /\ account' \in Nat /\ unclaimed' \in Nat
        /\ account' = pool_balance' + unclaimed'
    BY <1>0, <2>1, <2>2 DEF AccountType
  <2> QED BY <1>0, <2>1, <2>3 DEF AccountInv, AccountType, AccountIsExplained
<1>9. CASE UNCHANGED vars
  BY <1>9, AccountUnchanged DEF vars, runtime
<1> QED BY <1>1, <1>2, <1>3, <1>4, <1>5, <1>6, <1>7, <1>8, <1>9 DEF Next

\* The contract's account holds what pool_balance counts and, besides it, just
\* what failed payouts of withdraw brought back and what was sent to it without
\* a deposit, however many payouts are in flight.
THEOREM NearAccountExplained == Spec => []AccountIsExplained
<1>1. AccountInv => AccountIsExplained BY DEF AccountInv
<1> QED BY AccountInit, AccountStep, <1>1, PTL DEF Spec
-----------------------------------------------------------------------------
(* The lists of the epochs. *)

ListsType ==
    /\ nullifier_spent \subseteq Nullifiers
    /\ current_epoch_id \in Nat
    /\ DOMAIN epochs = 0..current_epoch_id
    /\ epoch_nullifiers \in [0..current_epoch_id -> Seq(Nullifiers)]
    /\ \A epoch \in 0..current_epoch_id :
          Len(epoch_nullifiers[epoch]) <= MAX_NULLIFIERS_PER_EPOCH

Listed(epoch, i) ==
    epoch \in 0..current_epoch_id /\ i \in 1..Len(epoch_nullifiers[epoch])

SpentIsListed ==
    /\ \A epoch, i : Listed(epoch, i) => epoch_nullifiers[epoch][i] \in nullifier_spent
    /\ \A nullifier \in nullifier_spent : \E epoch, i :
          Listed(epoch, i) /\ epoch_nullifiers[epoch][i] = nullifier

ListedOnce ==
    \A epoch1, i1, epoch2, i2 :
        /\ Listed(epoch1, i1) /\ Listed(epoch2, i2)
        /\ epoch_nullifiers[epoch1][i1] = epoch_nullifiers[epoch2][i2]
        => epoch1 = epoch2 /\ i1 = i2

RootsOfLists ==
    \A epoch \in 0..current_epoch_id :
        epochs[epoch].finalized =>
            /\ epoch < current_epoch_id
            /\ epochs[epoch].nullifier_root =
                   compute_nullifier_root(epoch_nullifiers[epoch])

ListsInv == ListsType /\ SpentIsListed /\ ListedOnce /\ RootsOfLists

LEMMA ListsInit == new => ListsInv
<1> SUFFICES ASSUME new PROVE ListsInv OBVIOUS
<1>1. /\ nullifier_spent = {} /\ current_epoch_id = 0
      /\ epochs = [epoch \in {0} |-> OpenEpoch]
      /\ epoch_nullifiers = [epoch \in {0} |-> << >>]
  BY DEF new
<1>2. 0..current_epoch_id = {0} /\ epoch_nullifiers[0] = << >> /\ Len(<< >>) = 0
  BY <1>1
<1>3. \A epoch, i : ~ Listed(epoch, i) BY <1>2 DEF Listed
<1>4. ListsType BY <1>1, <1>2, NearAssumption DEF ListsType
<1>5. SpentIsListed /\ ListedOnce BY <1>1, <1>3 DEF SpentIsListed, ListedOnce
<1>6. RootsOfLists BY <1>1, <1>2 DEF RootsOfLists, OpenEpoch
<1> QED BY <1>4, <1>5, <1>6 DEF ListsInv

LEMMA ListsUnchanged ==
    ASSUME ListsInv, UNCHANGED <<nullifier_spent, epochVars>>
    PROVE  ListsInv'
BY DEF ListsInv, ListsType, SpentIsListed, ListedOnce, RootsOfLists, Listed, epochVars

LEMMA TwoMore ==
    ASSUME NEW S, NEW s \in Seq(S), NEW a \in S, NEW b \in S
    PROVE  /\ s \o <<a, b>> \in Seq(S)
           /\ Len(s \o <<a, b>>) = Len(s) + 2
           /\ \A i \in 1..Len(s) : (s \o <<a, b>>)[i] = s[i]
           /\ (s \o <<a, b>>)[Len(s) + 1] = a
           /\ (s \o <<a, b>>)[Len(s) + 2] = b
OBVIOUS

\* A spend lists each of its nullifiers at one new place of the open epoch.
LEMMA SpendEffect ==
    ASSUME ListsInv, NEW nullifiers \in Nullifiers \X Nullifiers,
           check_and_spend_nullifiers(nullifiers),
           UNCHANGED <<current_epoch_id, epochs>>
    PROVE  ListsInv'
<1> DEFINE e == current_epoch_id
           list == epoch_nullifiers[e]
           n1 == nullifiers[1]
           n2 == nullifiers[2]
           listed == list \o nullifiers
<1>0. ListsType /\ SpentIsListed /\ ListedOnce /\ RootsOfLists BY DEF ListsInv
<1>1. /\ n1 \in Nullifiers \ nullifier_spent /\ n2 \in Nullifiers \ nullifier_spent
      /\ n1 # n2 /\ nullifiers = <<n1, n2>>
      /\ Len(listed) <= MAX_NULLIFIERS_PER_EPOCH
      /\ nullifier_spent' = nullifier_spent \cup {n1, n2}
      /\ epoch_nullifiers' = [epoch_nullifiers EXCEPT ![e] = listed]
  <2>1. /\ \A i \in 1..2 : nullifiers[i] \notin nullifier_spent
        /\ nullifiers[1] # nullifiers[2]
        /\ Len(listed) <= MAX_NULLIFIERS_PER_EPOCH
        /\ nullifier_spent' = nullifier_spent \cup {nullifiers[1], nullifiers[2]}
        /\ epoch_nullifiers' = [epoch_nullifiers EXCEPT ![e] = listed]
    BY DEF check_and_spend_nullifiers
  <2>2. 1 \in 1..2 /\ 2 \in 1..2 OBVIOUS
  <2>3. n1 \in Nullifiers /\ n2 \in Nullifiers OBVIOUS
  <2>4. nullifiers = <<n1, n2>> OBVIOUS
  <2>5. n1 \notin nullifier_spent /\ n2 \notin nullifier_spent BY <2>1, <2>2, Zenon
  <2> HIDE DEF listed
  <2> QED BY <2>1, <2>3, <2>4, <2>5
<1>2. e \in Nat /\ e \in 0..e /\ list \in Seq(Nullifiers) /\ Len(list) \in Nat
  BY <1>0 DEF ListsType
<1>3. /\ listed \in Seq(Nullifiers) /\ Len(listed) = Len(list) + 2
      /\ \A i \in 1..Len(list) : listed[i] = list[i]
      /\ listed[Len(list) + 1] = n1 /\ listed[Len(list) + 2] = n2
  <2>1. n1 \in Nullifiers /\ n2 \in Nullifiers /\ listed = list \o <<n1, n2>> BY <1>1
  <2> HIDE DEF list, listed, n1, n2
  <2> QED BY <1>2, <2>1, TwoMore
<1>4. /\ \A epoch \in (0..e) \ {e} : epoch_nullifiers'[epoch] = epoch_nullifiers[epoch]
      /\ epoch_nullifiers'[e] = listed
      /\ epoch_nullifiers' \in [0..e -> Seq(Nullifiers)]
  BY <1>0, <1>1, <1>2, <1>3 DEF ListsType
<1>5. ListsType' BY <1>0, <1>1, <1>4 DEF ListsType
<1> HIDE DEF list, listed, n1, n2
\* The new places, and what is at each.
<1>6. ASSUME NEW epoch, NEW i
      PROVE  Listed(epoch, i)' <=> \/ Listed(epoch, i)
                                   \/ epoch = e /\ i = Len(list) + 1
                                   \/ epoch = e /\ i = Len(list) + 2
  <2>1. Listed(epoch, i)' <=> epoch \in 0..e /\ i \in 1..Len(epoch_nullifiers'[epoch])
    BY DEF Listed
  <2>2. CASE epoch = e
    <3>1. i \in 1..Len(listed) <=>
            i \in 1..Len(list) \/ i = Len(list) + 1 \/ i = Len(list) + 2
      BY <1>2, <1>3
    <3> QED BY <1>2, <1>4, <2>1, <2>2, <3>1 DEF Listed, list
  <2>3. CASE epoch # e BY <1>4, <2>1, <2>3 DEF Listed
  <2> QED BY <2>2, <2>3
<1>7. ASSUME NEW epoch, NEW i, Listed(epoch, i)
      PROVE  epoch_nullifiers'[epoch][i] = epoch_nullifiers[epoch][i]
  <2>1. CASE epoch = e BY <1>3, <1>4, <1>7, <2>1 DEF Listed, list
  <2>2. CASE epoch # e BY <1>4, <1>7, <2>2 DEF Listed
  <2> QED BY <2>1, <2>2
<1>8. /\ epoch_nullifiers'[e][Len(list) + 1] = n1
      /\ epoch_nullifiers'[e][Len(list) + 2] = n2
  BY <1>3, <1>4
<1>9. \A epoch, i : Listed(epoch, i) =>
        epoch_nullifiers[epoch][i] \in nullifier_spent \ {n1, n2}
  BY <1>0, <1>1 DEF SpentIsListed
<1>10. SpentIsListed'
  <2>1. ASSUME NEW epoch, NEW i, Listed(epoch, i)'
        PROVE  epoch_nullifiers'[epoch][i] \in nullifier_spent'
    BY <1>1, <1>6, <1>7, <1>8, <1>9, <2>1
  <2>2. ASSUME NEW nullifier \in nullifier_spent'
        PROVE  \E epoch, i : Listed(epoch, i)'
                               /\ epoch_nullifiers'[epoch][i] = nullifier
    <3>1. CASE nullifier = n1 BY <1>6, <1>8, <3>1
    <3>2. CASE nullifier = n2 BY <1>6, <1>8, <3>2
    <3>3. CASE nullifier \in nullifier_spent
      BY <1>0, <1>6, <1>7, <3>3 DEF SpentIsListed
    <3> QED BY <1>1, <2>2, <3>1, <3>2, <3>3
  <2> QED BY <2>1, <2>2, Zenon DEF SpentIsListed
<1>11. ListedOnce'
  <2>1. ASSUME NEW epoch1, NEW i1, NEW epoch2, NEW i2,
               Listed(epoch1, i1)', Listed(epoch2, i2)',
               epoch_nullifiers'[epoch1][i1] = epoch_nullifiers'[epoch2][i2]
        PROVE  epoch1 = epoch2 /\ i1 = i2
    <3>1. CASE Listed(epoch1, i1) /\ Listed(epoch2, i2)
      BY <1>0, <1>7, <2>1, <3>1 DEF ListedOnce
    <3>2. CASE Listed(epoch1, i1) /\ ~ Listed(epoch2, i2)
      BY <1>6, <1>7, <1>8, <1>9, <2>1, <3>2
    <3>3. CASE ~ Listed(epoch1, i1) /\ Listed(epoch2, i2)
      BY <1>6, <1>7, <1>8, <1>9, <2>1, <3>3
    <3>4. CASE ~ Listed(epoch1, i1) /\ ~ Listed(epoch2, i2)
      BY <1>1, <1>6, <1>8, <2>1, <3>4
    <3> QED BY <3>1, <3>2, <3>3, <3>4
  <2> QED BY <2>1, Zenon DEF ListedOnce
<1>12. RootsOfLists'
  <2>1. ASSUME NEW epoch \in 0..e, epochs[epoch].finalized
        PROVE  epoch_nullifiers'[epoch] = epoch_nullifiers[epoch]
    <3>1. epoch < e BY <1>0, <2>1 DEF RootsOfLists
    <3> QED BY <1>2, <1>4, <3>1
  <2> QED BY <1>0, <2>1 DEF RootsOfLists
<1> QED BY <1>5, <1>10, <1>11, <1>12 DEF ListsInv

\* The open epoch is closed over its whole list, and an empty one opened.
LEMMA FinalizeEffect ==
    ASSUME ListsInv, NEW caller, finalize_epoch(caller)
    PROVE  ListsInv'
<1> DEFINE e == current_epoch_id
           next == e + 1
           list == epoch_nullifiers[e]
           closed == [nullifier_root  |-> compute_nullifier_root(list),
                      nullifier_count |-> Len(list), finalized |-> TRUE]
<1>0. ListsType /\ SpentIsListed /\ ListedOnce /\ RootsOfLists BY DEF ListsInv
<1>1. /\ epochs' = [epoch \in 0..next |->
            CASE epoch = e -> closed
              [] epoch = next -> OpenEpoch
              [] OTHER -> epochs[epoch]]
      /\ epoch_nullifiers' = [epoch \in 0..next |->
            IF epoch = next THEN << >> ELSE epoch_nullifiers[epoch]]
      /\ current_epoch_id' = next /\ nullifier_spent' = nullifier_spent
  BY DEF finalize_epoch
<1>2. /\ e \in Nat /\ next \in Nat /\ e \in 0..e /\ e # next /\ e < next
      /\ 0..next = (0..e) \cup {next} /\ next \notin 0..e
  BY <1>0 DEF ListsType
<1>3. /\ \A epoch \in 0..e : epoch_nullifiers'[epoch] = epoch_nullifiers[epoch]
      /\ epoch_nullifiers'[next] = << >>
  BY <1>1, <1>2
<1>4. /\ \A epoch \in (0..e) \ {e} : epochs'[epoch] = epochs[epoch]
      /\ epochs'[e] = closed /\ epochs'[next] = OpenEpoch /\ DOMAIN epochs' = 0..next
  BY <1>1, <1>2
<1>5. ListsType'
  <2>1. epoch_nullifiers' \in [0..next -> Seq(Nullifiers)]
    BY <1>0, <1>1, <1>2, <1>3 DEF ListsType
  <2>2. Len(<< >>) <= MAX_NULLIFIERS_PER_EPOCH BY NearAssumption
  <2> HIDE DEF next
  <2> QED BY <1>0, <1>1, <1>2, <1>3, <1>4, <2>1, <2>2 DEF ListsType
<1>6. ASSUME NEW epoch, NEW i
      PROVE  /\ Listed(epoch, i)' <=> Listed(epoch, i)
             /\ Listed(epoch, i) =>
                  epoch_nullifiers'[epoch][i] = epoch_nullifiers[epoch][i]
  <2>1. Listed(epoch, i)' <=>
          epoch \in 0..next /\ i \in 1..Len(epoch_nullifiers'[epoch])
    BY <1>1 DEF Listed
  <2>2. i \notin 1..Len(<< >>) OBVIOUS
  <2> HIDE DEF next
  <2> QED BY <1>2, <1>3, <2>1, <2>2 DEF Listed
<1>7. SpentIsListed' /\ ListedOnce'
  <2> HIDE DEF next, closed
  <2>0. nullifier_spent' = nullifier_spent BY <1>1
  <2>1. ASSUME NEW epoch, NEW i, Listed(epoch, i)'
        PROVE  epoch_nullifiers'[epoch][i] \in nullifier_spent'
    BY <1>0, <1>6, <2>0, <2>1 DEF SpentIsListed
  <2>2. ASSUME NEW nullifier \in nullifier_spent'
        PROVE  \E epoch, i : Listed(epoch, i)'
                               /\ epoch_nullifiers'[epoch][i] = nullifier
    <3>1. PICK epoch, i : Listed(epoch, i) /\ epoch_nullifiers[epoch][i] = nullifier
      BY <1>0, <2>0, <2>2 DEF SpentIsListed
    <3> QED BY <1>6, <3>1
  <2>3. SpentIsListed' BY <2>1, <2>2, Zenon DEF SpentIsListed
  <2>4. ASSUME NEW epoch1, NEW i1, NEW epoch2, NEW i2,
               Listed(epoch1, i1)', Listed(epoch2, i2)',
               epoch_nullifiers'[epoch1][i1] = epoch_nullifiers'[epoch2][i2]
        PROVE  epoch1 = epoch2 /\ i1 = i2
    BY <1>0, <1>6, <2>4 DEF ListedOnce
  <2>5. ListedOnce' BY <2>4, Zenon DEF ListedOnce
  <2> QED BY <2>3, <2>5
<1>8. RootsOfLists'
  <2>1. ASSUME NEW epoch \in 0..next, epochs'[epoch].finalized
        PROVE  /\ epoch < next
               /\ epochs'[epoch].nullifier_root =
                      compute_nullifier_root(epoch_nullifiers'[epoch])
    <3>1. CASE epoch = next BY <1>4, <2>1, <3>1 DEF OpenEpoch
    <3>2. CASE epoch = e BY <1>2, <1>3, <1>4, <3>2
    <3>3. CASE epoch # e /\ epoch # next
      <4>1. epoch \in (0..e) \ {e} /\ epoch < next BY <1>2, <3>3
      <4> QED BY <1>0, <1>3, <1>4, <2>1, <4>1 DEF RootsOfLists
    <3> QED BY <3>1, <3>2, <3>3
  <2> QED BY <1>1, <2>1 DEF RootsOfLists
<1> QED BY <1>5, <1>7, <1>8 DEF ListsInv

LEMMA ListsStep == ListsInv /\ [Next]_vars => ListsInv'
<1> SUFFICES ASSUME ListsInv, [Next]_vars PROVE ListsInv'
  OBVIOUS
<1>1. ASSUME NEW commitment, NEW amount, deposit(commitment, amount)
      PROVE  ListsInv'
  BY <1>1, ListsUnchanged DEF deposit
<1>2. ASSUME NEW proof, NEW root, NEW nullifiers \in Nullifiers \X Nullifiers,
             NEW outputs, transfer(proof, root, nullifiers, outputs)
      PROVE  ListsInv'
  BY <1>2, SpendEffect DEF transfer
<1>3. ASSUME NEW proof, NEW root, NEW nullifiers \in Nullifiers \X Nullifiers,
             NEW outputs, NEW recipient, NEW exit_amount,
             withdraw(proof, root, nullifiers, outputs, recipient, exit_amount)
      PROVE  ListsInv'
  BY <1>3, SpendEffect DEF withdraw
<1>4. ASSUME NEW receipt, RunReceipt(receipt) PROVE ListsInv'
  BY <1>4, ListsUnchanged DEF RunReceipt
<1>5. ASSUME NEW caller, NEW relayer, set_authorized_relayer(caller, relayer)
      PROVE  ListsInv'
  BY <1>5, ListsUnchanged DEF set_authorized_relayer
<1>6. ASSUME NEW caller, finalize_epoch(caller) PROVE ListsInv'
  BY <1>6, FinalizeEffect
<1>7. ASSUME NEW caller, NEW key, NEW root, sync_epoch_root(caller, key, root)
      PROVE  ListsInv'
  BY <1>7, ListsUnchanged DEF sync_epoch_root
<1>8. ASSUME NEW amount, ReceiveDirectly(amount) PROVE ListsInv'
  BY <1>8, ListsUnchanged DEF ReceiveDirectly
<1>9. CASE UNCHANGED vars BY <1>9, ListsUnchanged DEF vars
<1> QED BY <1>1, <1>2, <1>3, <1>4, <1>5, <1>6, <1>7, <1>8, <1>9 DEF Next

\* Places and spent nullifiers correspond one to one, so they are equally many.
LEMMA ListsInvImplies == ListsInv => EpochsCommitToSpent
<1> SUFFICES ASSUME ListsInv PROVE EpochsCommitToSpent OBVIOUS
<1>0. ListsType /\ SpentIsListed /\ ListedOnce /\ RootsOfLists BY DEF ListsInv
<1> DEFINE Rows == (0..current_epoch_id) \X (1..MAX_NULLIFIERS_PER_EPOCH)
           all == {p \in Rows : p[2] <= Len(epoch_nullifiers[p[1]])}
           at == [p \in all |-> epoch_nullifiers[p[1]][p[2]]]
<1>1. ASSUME NEW p PROVE p \in all <=> p = <<p[1], p[2]>> /\ Listed(p[1], p[2])
  <2>1. ASSUME p \in all PROVE p = <<p[1], p[2]>> /\ Listed(p[1], p[2])
    <3>1. /\ p[1] \in 0..current_epoch_id /\ p[2] \in 1..MAX_NULLIFIERS_PER_EPOCH
          /\ p = <<p[1], p[2]>> /\ p[2] <= Len(epoch_nullifiers[p[1]])
      BY <2>1
    <3>2. Len(epoch_nullifiers[p[1]]) \in Nat BY <1>0, <3>1 DEF ListsType
    <3>3. p[2] \in 1..Len(epoch_nullifiers[p[1]]) BY <3>1, <3>2, NearAssumption
    <3> QED BY <3>1, <3>3 DEF Listed
  <2>2. ASSUME p = <<p[1], p[2]>>, Listed(p[1], p[2]) PROVE p \in all
    <3>1. /\ p[1] \in 0..current_epoch_id /\ p[2] \in 1..Len(epoch_nullifiers[p[1]])
          /\ Len(epoch_nullifiers[p[1]]) \in Nat
          /\ Len(epoch_nullifiers[p[1]]) <= MAX_NULLIFIERS_PER_EPOCH
      BY <1>0, <2>2 DEF Listed, ListsType
    <3>2. p[2] \in 1..MAX_NULLIFIERS_PER_EPOCH /\ p[2] <= Len(epoch_nullifiers[p[1]])
      BY <3>1, NearAssumption
    <3> QED BY <2>2, <3>1, <3>2
  <2> QED BY <2>1, <2>2
<1>2. IsFiniteSet(all)
  <2>1. IsFiniteSet(0..current_epoch_id) /\ IsFiniteSet(1..MAX_NULLIFIERS_PER_EPOCH)
    BY <1>0, FS_Interval, NearAssumption DEF ListsType
  <2>2. IsFiniteSet(Rows) BY <2>1, FS_Product
  <2>3. all \subseteq Rows OBVIOUS
  <2> QED BY <2>2, <2>3, FS_Subset
<1> HIDE DEF all
<1>3. \A p \in all : at[p] = epoch_nullifiers[p[1]][p[2]] /\ at[p] \in nullifier_spent
  BY <1>0, <1>1 DEF SpentIsListed
<1>4. \A nullifier \in nullifier_spent : \E p \in all : at[p] = nullifier
  <2> TAKE nullifier \in nullifier_spent
  <2>1. PICK epoch, i : Listed(epoch, i) /\ epoch_nullifiers[epoch][i] = nullifier
    BY <1>0 DEF SpentIsListed
  <2>2. <<epoch, i>>[1] = epoch /\ <<epoch, i>>[2] = i OBVIOUS
  <2>3. <<epoch, i>> \in all BY <1>1, <2>1, <2>2, Zenon
  <2>4. at[<<epoch, i>>] = epoch_nullifiers[epoch][i] BY <1>3, <2>2, <2>3
  <2> QED BY <2>1, <2>3, <2>4
<1>5. \A p, q \in all : at[p] = at[q] => p = q
  BY <1>0, <1>1, <1>3 DEF ListedOnce
<1>6. at \in [all -> nullifier_spent] BY <1>3
<1>7. ExistsBijection(all, nullifier_spent)
  <2>1. at \in Bijection(all, nullifier_spent)
    BY <1>4, <1>5, <1>6 DEF Bijection, Injection, Surjection, IsInjective
  <2> QED BY <2>1 DEF ExistsBijection
<1>8. Cardinality(all) = Cardinality(nullifier_spent) BY <1>2, <1>7, FS_Bijection
<1>9. {epoch_nullifiers[p[1]][p[2]] : p \in all} = nullifier_spent
  BY <1>3, <1>4
<1>10. \A epoch \in DOMAIN epochs : epochs[epoch].finalized =>
          epochs[epoch].nullifier_root = compute_nullifier_root(epoch_nullifiers[epoch])
  BY <1>0 DEF ListsType, RootsOfLists
<1> QED BY <1>8, <1>9, <1>10 DEF EpochsCommitToSpent, all

\* What lib.rs finalize_epoch publishes is what transfer and withdraw spent: the
\* epochs list each spent nullifier once, and finalized roots stay those of
\* the whole lists.
THEOREM NearEpochsCommit == Spec => []EpochsCommitToSpent
BY ListsInit, ListsStep, ListsInvImplies, PTL DEF Spec

-----------------------------------------------------------------------------
(* The notes: the contract implements PoolLedger.                          *)

NotesInv == TreeOK(tree, TREE_DEPTH, ROOT_HISTORY_SIZE) /\ pool_balance \in Nat

LEMMA InsertIsShared ==
    ASSUME NEW t, NEW leaf
    PROVE  insert_leaf(t, leaf) = Inserted(t, leaf, zero_hash, TREE_DEPTH, ROOT_HISTORY_SIZE)
<1> DEFINE path == CHOOSE path : Climbs(t.next, leaf, t.filled, zero_hash, TREE_DEPTH, path)
           slot == (t.current + 1) % ROOT_HISTORY_SIZE
           filled == [level \in 0..(TREE_DEPTH - 1) |-> IF (t.next \div 2^level) % 2 = 0
                                                   THEN path[level] ELSE t.filled[level]]
           roots == [t.roots EXCEPT ![slot] = path[TREE_DEPTH]]
<1>1. insert_leaf(t, leaf) = [next |-> t.next + 1, current |-> slot,
                              filled |-> filled, roots |-> roots]
  BY Zenon DEF insert_leaf, Climbs, poseidon_hash_hex, Levels
<1>2. Inserted(t, leaf, zero_hash, TREE_DEPTH, ROOT_HISTORY_SIZE)
        = [next |-> t.next + 1, filled |-> filled, roots |-> roots, current |-> slot]
  BY Zenon DEF Inserted
<1> HIDE DEF filled, roots, slot
<1> QED BY <1>1, <1>2

LEMMA AppendsIsShared ==
    ASSUME NEW k, Appended(Kept(tree, TREE_DEPTH), Kept(tree', TREE_DEPTH), k, 2^TREE_DEPTH, Notes)
    PROVE  Ledger!Appends(k)
<1>1. Kept(tree, TREE_DEPTH) = LeavesUnder(get_pool_status.latest_root, TREE_DEPTH,
                                           get_pool_status.total_deposits)
  BY DEF Kept, get_pool_status
<1>2. Kept(tree', TREE_DEPTH) = LeavesUnder(get_pool_status'.latest_root, TREE_DEPTH,
                                            get_pool_status'.total_deposits)
  BY DEF Kept, get_pool_status
<1> QED BY <1>1, <1>2 DEF Appended, Ledger!Appends

LEMMA DepositAppends ==
    ASSUME NotesInv, NEW note \in Notes, HasRoom(tree, 1),
           tree' = insert_leaf(tree, note)
    PROVE  TreeOK(tree', TREE_DEPTH, ROOT_HISTORY_SIZE) /\ Ledger!Appends(1)
<1>1. tree' = Inserted(tree, note, zero_hash, TREE_DEPTH, ROOT_HISTORY_SIZE) BY InsertIsShared
<1>2. tree.next + 1 <= 2^TREE_DEPTH BY DEF HasRoom
<1>3. /\ TreeOK(tree', TREE_DEPTH, ROOT_HISTORY_SIZE)
      /\ Appended(Kept(tree, TREE_DEPTH), Kept(tree', TREE_DEPTH), 1, 2^TREE_DEPTH, Notes)
  BY <1>1, <1>2, InsertOne, NearAssumption, PowersOfTwo DEF NotesInv
<1> QED BY <1>3, AppendsIsShared

LEMMA OutputsAppend ==
    ASSUME NotesInv, NEW outputs \in Outputs, InsertOutputs(outputs)
    PROVE  TreeOK(tree', TREE_DEPTH, ROOT_HISTORY_SIZE) /\ Ledger!Appends(2)
<1>1. tree' = Inserted(Inserted(tree, outputs[1], zero_hash, TREE_DEPTH, ROOT_HISTORY_SIZE),
                       outputs[2], zero_hash, TREE_DEPTH, ROOT_HISTORY_SIZE)
  BY InsertIsShared DEF InsertOutputs
<1>2. tree.next + 2 <= 2^TREE_DEPTH BY DEF InsertOutputs, HasRoom
<1>3. outputs[1] \in Notes /\ outputs[2] \in Notes BY NearAssumption DEF Notes
<1>4. /\ TreeOK(tree', TREE_DEPTH, ROOT_HISTORY_SIZE)
      /\ Appended(Kept(tree, TREE_DEPTH), Kept(tree', TREE_DEPTH), 2, 2^TREE_DEPTH, Notes)
  BY <1>1, <1>2, <1>3, InsertTwo, NearAssumption, PowersOfTwo DEF NotesInv
<1> QED BY <1>4, AppendsIsShared

LEMMA NotesStart == new => NotesInv /\ Ledger!LedgerInit
<1> SUFFICES ASSUME new PROVE NotesInv /\ Ledger!LedgerInit
  OBVIOUS
<1> USE NearAssumption, PowersOfTwo
<1>1. /\ tree.next = 0 /\ tree.current = 0
      /\ DOMAIN tree.roots = 0..(ROOT_HISTORY_SIZE - 1)
      /\ pool_balance = 0 /\ nullifier_spent = {}
  BY DEF new, Slots
<1>2. 0 \in 0..(ROOT_HISTORY_SIZE - 1) /\ 2^TREE_DEPTH \in Nat BY PowersArePositive
<1>3. Frontier(tree.roots[tree.current], TREE_DEPTH, 0, tree.filled) BY EmptyFrontier
<1>4. TreeOK(tree, TREE_DEPTH, ROOT_HISTORY_SIZE) BY <1>1, <1>2, <1>3 DEF TreeOK
<1>5. get_pool_status.total_deposits = 0 /\ get_pool_status.pool_balance = 0
  BY <1>1 DEF get_pool_status
<1>6. LeavesUnder(get_pool_status.latest_root, TREE_DEPTH, get_pool_status.total_deposits) = << >>
  BY <1>5 DEF LeavesUnder
<1>7. {n \in Nullifiers : is_nullifier_spent(n)} = {} BY <1>1 DEF is_nullifier_spent
<1> QED BY <1>1, <1>4, <1>5, <1>6, <1>7 DEF NotesInv, Ledger!LedgerInit

\* What the views say of nullifiers and balance.
LEMMA ViewsOfState ==
    /\ get_pool_status.pool_balance = pool_balance
    /\ get_pool_status'.pool_balance = pool_balance'
    /\ {n \in Nullifiers : is_nullifier_spent(n)} = {n \in Nullifiers : n \in nullifier_spent}
    /\ {n \in Nullifiers : is_nullifier_spent(n)}' = {n \in Nullifiers : n \in nullifier_spent'}
BY DEF get_pool_status, is_nullifier_spent

\* Two nullifiers that were not spent, and are now.
LEMMA TwoSpent ==
    ASSUME NEW nuls \in Nullifiers \X Nullifiers, check_and_spend_nullifiers(nuls)
    PROVE  LET seen == {n \in Nullifiers : n \in nullifier_spent}
               now == {n \in Nullifiers : n \in nullifier_spent'}
           IN  \E nul1, nul2 \in Nullifiers \ seen :
                  nul1 # nul2 /\ now = seen \cup {nul1, nul2}
<1> DEFINE seen == {n \in Nullifiers : n \in nullifier_spent}
           now == {n \in Nullifiers : n \in nullifier_spent'}
<1>1. /\ nuls[1] \in Nullifiers /\ nuls[1] \notin nullifier_spent
      /\ nuls[2] \in Nullifiers /\ nuls[2] \notin nullifier_spent
      /\ nuls[1] # nuls[2]
      /\ nullifier_spent' = nullifier_spent \cup {nuls[1], nuls[2]}
  BY DEF check_and_spend_nullifiers
<1>2. nuls[1] \in Nullifiers \ seen /\ nuls[2] \in Nullifiers \ seen BY <1>1
<1>3. now = seen \cup {nuls[1], nuls[2]} BY <1>1
<1> QED BY <1>1, <1>2, <1>3

LEMMA JoinIsShared ==
    ASSUME NEW nuls \in Nullifiers \X Nullifiers, check_and_spend_nullifiers(nuls),
           Ledger!Appends(2), pool_balance' <= pool_balance
    PROVE  Ledger!Join
<1> DEFINE seen == {n \in Nullifiers : n \in nullifier_spent}
           now == {n \in Nullifiers : n \in nullifier_spent'}
<1>1. \E nul1, nul2 \in Nullifiers \ seen : nul1 # nul2 /\ now = seen \cup {nul1, nul2}
  BY TwoSpent
<1>2. /\ {n \in Nullifiers : is_nullifier_spent(n)} = seen
      /\ {n \in Nullifiers : is_nullifier_spent(n)}' = now
  BY ViewsOfState
<1>3. get_pool_status'.pool_balance <= get_pool_status.pool_balance BY ViewsOfState
<1> HIDE DEF seen, now
<1> QED BY <1>1, <1>2, <1>3 DEF Ledger!Join

LEMMA NotesStep ==
    ASSUME NotesInv, [Next]_vars
    PROVE  NotesInv' /\ [Ledger!LedgerNext]_(Ledger!ledger)
<1>1. ASSUME NEW note \in Notes, NEW amount \in 0..MaxAmount, deposit(note, amount)
      PROVE  NotesInv' /\ Ledger!Shield
  <2>1. TreeOK(tree', TREE_DEPTH, ROOT_HISTORY_SIZE) /\ Ledger!Appends(1)
    BY <1>1, DepositAppends DEF deposit
  <2>2. amount \in Nat /\ amount > 0
        /\ pool_balance' = pool_balance + amount
    BY <1>1, NearAssumption DEF deposit
  <2>3. pool_balance' \in Nat /\ pool_balance' > pool_balance BY <2>2 DEF NotesInv
  <2>4. get_pool_status'.pool_balance > get_pool_status.pool_balance BY <2>3, ViewsOfState
  <2>5. nullifier_spent' = nullifier_spent BY <1>1 DEF deposit
  <2>6. {n \in Nullifiers : is_nullifier_spent(n)}' = {n \in Nullifiers : is_nullifier_spent(n)}
    BY <2>5 DEF is_nullifier_spent
  <2> QED BY <2>1, <2>3, <2>4, <2>6 DEF NotesInv, Ledger!Shield
<1>2. ASSUME NEW nuls \in Nullifiers \X Nullifiers, NEW outputs \in Outputs,
             NEW proof, NEW root, transfer(proof, root, nuls, outputs)
      PROVE  NotesInv' /\ Ledger!Join
  <2>1. TreeOK(tree', TREE_DEPTH, ROOT_HISTORY_SIZE) /\ Ledger!Appends(2)
    BY <1>2, OutputsAppend DEF transfer
  <2>2. check_and_spend_nullifiers(nuls) BY <1>2 DEF transfer
  <2>3. pool_balance' \in Nat /\ pool_balance' <= pool_balance BY <1>2 DEF transfer, NotesInv
  <2> QED BY <2>1, <2>2, <2>3, JoinIsShared DEF NotesInv
<1>3. ASSUME NEW nuls \in Nullifiers \X Nullifiers, NEW outputs \in Outputs,
             NEW proof, NEW root, NEW recipient, NEW exit_amount \in 1..MaxAmount,
             withdraw(proof, root, nuls, outputs, recipient, exit_amount)
      PROVE  NotesInv' /\ Ledger!Join
  <2>1. TreeOK(tree', TREE_DEPTH, ROOT_HISTORY_SIZE) /\ Ledger!Appends(2)
    BY <1>3, OutputsAppend DEF withdraw
  <2>2. check_and_spend_nullifiers(nuls) BY <1>3 DEF withdraw
  <2>3. /\ exit_amount \in Nat /\ exit_amount <= pool_balance
        /\ pool_balance' = pool_balance - exit_amount
    BY <1>3, NearAssumption DEF withdraw
  <2>4. pool_balance' \in Nat /\ pool_balance' <= pool_balance BY <2>3 DEF NotesInv
  <2> QED BY <2>1, <2>2, <2>4, JoinIsShared DEF NotesInv
<1>4. ASSUME UNCHANGED <<tree, nullifier_spent, pool_balance>>
      PROVE  NotesInv' /\ UNCHANGED Ledger!ledger
  <2>1. get_pool_status'.latest_root = get_pool_status.latest_root
        /\ get_pool_status'.total_deposits = get_pool_status.total_deposits
        /\ get_pool_status'.pool_balance = get_pool_status.pool_balance
    BY <1>4 DEF get_pool_status
  <2>2. {n \in Nullifiers : is_nullifier_spent(n)}' = {n \in Nullifiers : is_nullifier_spent(n)}
    BY <1>4 DEF is_nullifier_spent
  <2> QED BY <1>4, <2>1, <2>2 DEF NotesInv, Ledger!ledger
<1>5. \/ \E note \in Notes, amount \in 0..MaxAmount : deposit(note, amount)
      \/ \E nuls \in Nullifiers \X Nullifiers, outputs \in Outputs :
            \/ \E proof, root : transfer(proof, root, nuls, outputs)
            \/ \E proof, root, recipient : \E exit_amount \in 1..MaxAmount :
                  withdraw(proof, root, nuls, outputs, recipient, exit_amount)
      \/ UNCHANGED <<tree, nullifier_spent, pool_balance>>
  <2>1. ASSUME NEW receipt, RunReceipt(receipt)
        PROVE  UNCHANGED <<tree, nullifier_spent, pool_balance>>
    BY <2>1 DEF RunReceipt
  <2>2. ASSUME NEW caller, NEW relayer, set_authorized_relayer(caller, relayer)
        PROVE  UNCHANGED <<tree, nullifier_spent, pool_balance>>
    BY <2>2 DEF set_authorized_relayer
  <2>3. ASSUME NEW caller, finalize_epoch(caller)
        PROVE  UNCHANGED <<tree, nullifier_spent, pool_balance>>
    BY <2>3 DEF finalize_epoch
  <2>4. ASSUME NEW caller, NEW key, NEW root, sync_epoch_root(caller, key, root)
        PROVE  UNCHANGED <<tree, nullifier_spent, pool_balance>>
    BY <2>4 DEF sync_epoch_root
  <2>5. ASSUME NEW amount, ReceiveDirectly(amount)
        PROVE  UNCHANGED <<tree, nullifier_spent, pool_balance>>
    BY <2>5 DEF ReceiveDirectly
  <2>6. ASSUME UNCHANGED vars PROVE UNCHANGED <<tree, nullifier_spent, pool_balance>>
    BY <2>6 DEF vars
  <2> QED BY <2>1, <2>2, <2>3, <2>4, <2>5, <2>6, Zenon DEF Next
<1>6. NotesInv' /\ (Ledger!Shield \/ Ledger!Join \/ UNCHANGED Ledger!ledger)
  BY <1>1, <1>2, <1>3, <1>4, <1>5, Zenon
<1> QED BY <1>6, Zenon DEF Ledger!LedgerNext

\* A client that asks the contract (get_pool_status, is_nullifier_spent) sees the
\* abstract pool, whatever the receipts in flight turn into: a deposit appends
\* its note and raises the balance, a transfer and a withdrawal append two notes
\* for two nullifiers that were not spent, and nothing else shows.  The notes
\* are what the latest root of insert_leaf commits to, at every depth.
THEOREM NearImplementsLedger == Spec => ImplementsPoolLedger
BY NotesStart, NotesStep, PTL DEF Spec, ImplementsPoolLedger, Ledger!LedgerSpec
=============================================================================
