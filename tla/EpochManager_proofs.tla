------------------------- MODULE EpochManager_proofs -------------------------
(***************************************************************************)
(* Proofs about the epochs: about EpochManager, which closes them, and     *)
(* about Relayer, which carries them to the other chains.  They hold for   *)
(* every set of nullifiers and accounts, every list of chains and all      *)
(* bounds.  _computeNullifierRoot stays opaque but for the empty list.     *)
(***************************************************************************)
EXTENDS EpochManager, Relayer, MerkleReference_proofs, SequenceTheorems, TLAPS

-----------------------------------------------------------------------------
\* The lists of an epoch are the sequences of at most MaxNullifiers nullifiers.
LEMMA ListsAreSequences ==
    \A s : s \in Lists <=> s \in Seq(Nullifier) /\ Len(s) <= MaxNullifiers
<1> USE EpochManagerAssumption
<1>1. ASSUME NEW s, s \in Lists
      PROVE  s \in Seq(Nullifier) /\ Len(s) <= MaxNullifiers
  <2>1. PICK count \in 0..MaxNullifiers : s \in [1..count -> Nullifier]
    BY <1>1 DEF Lists
  <2> QED BY <2>1
<1>2. ASSUME NEW s, s \in Seq(Nullifier), Len(s) <= MaxNullifiers
      PROVE  s \in Lists
  <2>1. s \in [1..Len(s) -> Nullifier] BY <1>2
  <2>2. Len(s) \in 0..MaxNullifiers BY <1>2
  <2> QED BY <2>1, <2>2 DEF Lists
<1> QED BY <1>1, <1>2

\* An epoch without nullifiers has the root zero.
LEMMA EmptyRoot == << >> \in Lists /\ Zero \in Root
<1>1. << >> \in Lists
  <2>1. << >> \in Seq(Nullifier) /\ Len(<< >>) = 0 OBVIOUS
  <2>2. Len(<< >>) <= MaxNullifiers BY <2>1, EpochManagerAssumption
  <2> QED BY <2>1, <2>2, ListsAreSequences, Zenon
<1>2. _computeNullifierRoot(<< >>) = Zero BY DEF _computeNullifierRoot
<1> QED BY <1>1, <1>2 DEF Root

LEMMA AppendInLists ==
    ASSUME NEW s \in Lists, NEW n \in Nullifier, Len(s) < MaxNullifiers
    PROVE  Append(s, n) \in Lists
<1>1. s \in Seq(Nullifier) BY ListsAreSequences, Zenon
<1>2. Append(s, n) \in Seq(Nullifier) BY <1>1
<1>3. Len(Append(s, n)) <= MaxNullifiers BY <1>1, EpochManagerAssumption
<1> QED BY <1>2, <1>3, ListsAreSequences, Zenon

-----------------------------------------------------------------------------
LEMMA FinalizedType ==
    ASSUME TypeOK, NEW e \in EpochIds
    PROVE  /\ Finalized(e) \in EpochRecord
           /\ Finalized(e).finalized
           /\ Finalized(e).endTime = now
           /\ Finalized(e).startTime = epochs[e].startTime
           /\ Finalized(e).nullifierRoot =
                  _computeNullifierRoot(_epochNullifiers[e])
<1>1. epochs[e] \in EpochRecord /\ _epochNullifiers[e] \in Lists /\ now \in Nat
  BY DEF TypeOK
<1>2. _computeNullifierRoot(_epochNullifiers[e]) \in Root BY <1>1 DEF Root
<1> QED BY <1>1, <1>2 DEF Finalized, EpochRecord

LEMMA NewEpochType ==
    ASSUME now \in Nat
    PROVE  NewEpoch \in EpochRecord /\ ~ NewEpoch.finalized
           /\ NewEpoch.startTime = now
BY EmptyRoot, EpochManagerAssumption DEF NewEpoch, EpochRecord

\* Type correctness, for every set of nullifiers, accounts and chains.
THEOREM EpochsTypeCorrect == Spec => []TypeOK
<1> USE EpochManagerAssumption
<1>1. Init => TypeOK
  <2> SUFFICES ASSUME Init PROVE TypeOK OBVIOUS
  <2>1. now = 0 BY DEF Init
  <2>2. NewEpoch \in EpochRecord BY <2>1, NewEpochType
  <2>3. NoEpoch \in EpochRecord BY EmptyRoot DEF NoEpoch, EpochRecord
  <2>4. epochs \in [EpochIds -> EpochRecord] BY <2>2, <2>3 DEF Init
  <2>5. _epochNullifiers \in [EpochIds -> Lists] BY EmptyRoot DEF Init
  <2>6. NoRemoteRoot \in RemoteRecord BY DEF NoRemoteRoot, RemoteRecord
  <2>7. remoteRoots \in [Chain \X EpochIds -> RemoteRecord] BY <2>6 DEF Init
  <2> QED BY <2>1, <2>4, <2>5, <2>7 DEF Init, TypeOK, EpochIds
<1>2. TypeOK /\ [Next]_vars => TypeOK'
  <2> SUFFICES ASSUME TypeOK, [Next]_vars PROVE TypeOK' OBVIOUS
  <2>1. CASE startNewEpoch
    <3>1. currentEpochId \in EpochIds /\ currentEpochId + 1 \in EpochIds
      BY <2>1 DEF startNewEpoch, TypeOK, EpochIds
    <3>2. NewEpoch \in EpochRecord BY NewEpochType DEF TypeOK
    <3>3. Finalized(currentEpochId) \in EpochRecord BY <3>1, FinalizedType
    <3>4. epochs' \in [EpochIds -> EpochRecord]
      BY <2>1, <3>1, <3>2, <3>3 DEF startNewEpoch, TypeOK
    <3> QED BY <2>1, <3>1, <3>4 DEF startNewEpoch, TypeOK, adminVars
  <2>2. CASE finalizeEpoch
    <3>1. currentEpochId \in EpochIds BY DEF TypeOK
    <3>2. Finalized(currentEpochId) \in EpochRecord BY <3>1, FinalizedType
    <3>3. epochs' \in [EpochIds -> EpochRecord]
      BY <2>2, <3>1, <3>2 DEF finalizeEpoch, _finalizeEpochInternal, TypeOK
    <3> QED BY <2>2, <3>3 DEF finalizeEpoch, TypeOK, adminVars
  <2>3. ASSUME NEW sender \in Account, NEW n \in Nullifier,
               registerNullifier(sender, n)
        PROVE  TypeOK'
    <3>1. currentEpochId \in EpochIds BY DEF TypeOK
    <3>2. Append(_epochNullifiers[currentEpochId], n) \in Lists
      BY <2>3, <3>1, AppendInLists DEF registerNullifier, TypeOK
    <3>3. _epochNullifiers' \in [EpochIds -> Lists]
      BY <2>3, <3>1, <3>2 DEF registerNullifier, TypeOK
    <3>4. epochs' \in [EpochIds -> EpochRecord]
      <4> DEFINE record == [epochs[currentEpochId] EXCEPT !.nullifierCount = @ + 1]
      <4>1. epochs[currentEpochId] \in EpochRecord BY <3>1 DEF TypeOK
      <4>2. record \in EpochRecord BY <4>1 DEF EpochRecord
      <4>3. epochs' = [epochs EXCEPT ![currentEpochId] = record]
        BY <2>3 DEF registerNullifier
      <4> HIDE DEF record
      <4> QED BY <3>1, <4>2, <4>3 DEF TypeOK
    <3>5. localNullifiers' \in SUBSET Nullifier
      BY <2>3 DEF registerNullifier, TypeOK
    <3> QED BY <2>3, <3>3, <3>4, <3>5 DEF registerNullifier, TypeOK, adminVars
  <2>4. CASE RemoteStep
    <3>1. PICK sender \in Account, c \in Chain, e \in EpochIds, r \in RemoteRoots :
            receiveRemoteEpochRoot(sender, c, e, r)
      BY <2>4 DEF RemoteStep
    <3>2. [nullifierRoot |-> r, receivedAt |-> now] \in RemoteRecord
      BY DEF RemoteRecord, TypeOK
    <3>3. remoteRoots' \in [Chain \X EpochIds -> RemoteRecord]
      BY <3>1, <3>2 DEF receiveRemoteEpochRoot, TypeOK
    <3> QED BY <3>1, <3>3 DEF receiveRemoteEpochRoot, TypeOK, epochVars, adminVars
  <2>5. CASE AdminStep
    BY <2>5 DEF AdminStep, authorizePool, revokePool, authorizeBridge,
                revokeBridge, setGovernance, TypeOK, epochVars
  <2>6. CASE NextBlock
    BY <2>6 DEF NextBlock, TypeOK, epochVars, adminVars
  <2>7. CASE UNCHANGED vars
    BY <2>7 DEF vars, epochVars, adminVars, TypeOK
  <2> QED BY <2>1, <2>2, <2>3, <2>4, <2>5, <2>6, <2>7 DEF Next, EpochStep
<1> QED BY <1>1, <1>2, PTL DEF Spec

-----------------------------------------------------------------------------
\* What a step does to the epochs.
LEMMA EpochEffects ==
    ASSUME TypeOK, [Next]_vars
    PROVE  \/ startNewEpoch
           \/ finalizeEpoch
           \/ \E sender \in Account, n \in Nullifier : registerNullifier(sender, n)
           \/ UNCHANGED epochVars /\ now' >= now
<1>1. CASE RemoteStep
  BY <1>1 DEF RemoteStep, receiveRemoteEpochRoot, TypeOK
<1>2. CASE AdminStep
  BY <1>2 DEF AdminStep, authorizePool, revokePool, authorizeBridge,
              revokeBridge, setGovernance, TypeOK
<1>3. CASE NextBlock
  BY <1>3 DEF NextBlock, TypeOK
<1>4. CASE UNCHANGED vars
  BY <1>4 DEF vars, TypeOK
<1> QED BY <1>1, <1>2, <1>3, <1>4 DEF Next, EpochStep

\* The epochs after each of these steps, epoch by epoch.
LEMMA StartEffect ==
    ASSUME TypeOK, startNewEpoch
    PROVE  /\ currentEpochId + 1 \in EpochIds
           /\ currentEpochId' = currentEpochId + 1
           /\ now >= epochs[currentEpochId].endTime
           /\ now' = now /\ _epochNullifiers' = _epochNullifiers
           /\ localNullifiers' = localNullifiers
           /\ epochs'[currentEpochId] = IF epochs[currentEpochId].finalized
                                        THEN epochs[currentEpochId]
                                        ELSE Finalized(currentEpochId)
           /\ epochs'[currentEpochId + 1] = NewEpoch
           /\ \A e \in EpochIds : e # currentEpochId /\ e # currentEpochId + 1 =>
                                      epochs'[e] = epochs[e]
BY EpochManagerAssumption DEF startNewEpoch, TypeOK, EpochIds

LEMMA FinalizeEffect ==
    ASSUME TypeOK, finalizeEpoch
    PROVE  /\ ~ epochs[currentEpochId].finalized
           /\ currentEpochId' = currentEpochId
           /\ now' = now /\ _epochNullifiers' = _epochNullifiers
           /\ localNullifiers' = localNullifiers
           /\ epochs'[currentEpochId] = Finalized(currentEpochId)
           /\ \A e \in EpochIds : e # currentEpochId => epochs'[e] = epochs[e]
BY DEF finalizeEpoch, _finalizeEpochInternal, TypeOK

LEMMA RegisterEffect ==
    ASSUME TypeOK, NEW sender \in Account, NEW n \in Nullifier,
           registerNullifier(sender, n)
    PROVE  /\ currentEpochId' = currentEpochId
           /\ now' = now
           /\ localNullifiers' = localNullifiers \cup {n}
           /\ _epochNullifiers'[currentEpochId] =
                  Append(_epochNullifiers[currentEpochId], n)
           /\ \A e \in EpochIds : e # currentEpochId =>
                                      _epochNullifiers'[e] = _epochNullifiers[e]
           /\ \A e \in EpochIds :
                 /\ epochs'[e].startTime = epochs[e].startTime
                 /\ epochs'[e].endTime = epochs[e].endTime
                 /\ epochs'[e].nullifierRoot = epochs[e].nullifierRoot
                 /\ epochs'[e].finalized = epochs[e].finalized
BY DEF registerNullifier, TypeOK, EpochRecord

-----------------------------------------------------------------------------
\* The current epoch has begun, and if it is finalized then by now: with it
\* EpochsAreInOrder is inductive.
Clock ==
    /\ epochs[currentEpochId].startTime <= now
    /\ epochs[currentEpochId].finalized =>
          /\ epochs[currentEpochId].startTime <= epochs[currentEpochId].endTime
          /\ epochs[currentEpochId].endTime <= now

\* Past epochs are finalized and follow each other in time, later ones are
\* untouched, however finalizeEpoch, startNewEpoch and registerNullifier mix.
THEOREM EpochsOrdered == Spec => []EpochsAreInOrder
<1> DEFINE Inv == TypeOK /\ EpochsAreInOrder /\ Clock
<1> USE EpochManagerAssumption
<1>1. Init /\ TypeOK => Inv
  <2> SUFFICES ASSUME Init, TypeOK PROVE Inv OBVIOUS
  <2>1. 0 \in EpochIds /\ epochs[0] = NewEpoch
    BY DEF Init, EpochIds
  <2>2. \A e \in EpochIds : e > 0 => epochs[e] = NoEpoch /\ _epochNullifiers[e] = << >>
    BY DEF Init, EpochIds
  <2>3. Clock BY <2>1, NewEpochType DEF Init, Clock
  <2>4. EpochsAreInOrder
    BY <2>2 DEF Init, EpochsAreInOrder, EpochIds, NoEpoch
  <2> QED BY <2>3, <2>4
<1>2. Inv /\ TypeOK' /\ [Next]_vars => Inv'
  <2> SUFFICES ASSUME Inv, TypeOK', [Next]_vars PROVE EpochsAreInOrder' /\ Clock'
    OBVIOUS
  <2>0. /\ currentEpochId \in EpochIds /\ now \in Nat
        /\ \A e \in EpochIds : /\ epochs[e].startTime \in Nat
                               /\ epochs[e].endTime \in Nat
    BY DEF TypeOK, EpochRecord
  <2>1. CASE startNewEpoch
    <3> DEFINE c == currentEpochId
    <3>1. /\ c + 1 \in EpochIds /\ currentEpochId' = c + 1
          /\ now >= epochs[c].endTime /\ now' = now
          /\ _epochNullifiers' = _epochNullifiers
          /\ epochs'[c] = IF epochs[c].finalized THEN epochs[c] ELSE Finalized(c)
          /\ epochs'[c + 1] = NewEpoch
          /\ \A e \in EpochIds : e # c /\ e # c + 1 => epochs'[e] = epochs[e]
      BY <2>1, StartEffect
    <3>2. /\ epochs'[c + 1].startTime = now /\ ~ epochs'[c + 1].finalized
      BY <3>1, <2>0, NewEpochType
    <3>3. /\ epochs'[c].finalized
          /\ epochs'[c].startTime = epochs[c].startTime
          /\ epochs'[c].startTime <= epochs'[c].endTime
          /\ epochs'[c].endTime <= now
      BY <3>1, <2>0, FinalizedType DEF Clock
    <3>4. Clock' BY <3>1, <3>2, <2>0 DEF Clock
    <3>5. ASSUME NEW e \in EpochIds, e < c + 1
          PROVE  /\ epochs'[e].finalized
                 /\ epochs'[e].startTime <= epochs'[e].endTime
                 /\ epochs'[e].endTime <= epochs'[e + 1].startTime
      <4>1. CASE e = c BY <4>1, <3>2, <3>3
      <4>2. CASE e # c
        <5>1. e < c /\ e + 1 \in EpochIds /\ e + 1 # c + 1 BY <4>2, <3>5, <2>0 DEF EpochIds
        <5>2. epochs'[e] = epochs[e] BY <4>2, <3>1, <3>5, <2>0 DEF EpochIds
        <5>3. epochs'[e + 1].startTime = epochs[e + 1].startTime
          BY <5>1, <3>1, <3>3
        <5> QED BY <5>1, <5>2, <5>3 DEF EpochsAreInOrder
      <4> QED BY <4>1, <4>2
    <3>6. ASSUME NEW e \in EpochIds, e > c + 1
          PROVE  ~ epochs'[e].finalized /\ _epochNullifiers'[e] = << >>
      <4>1. e > c /\ e # c /\ e # c + 1 BY <3>6, <2>0 DEF EpochIds
      <4> QED BY <4>1, <3>1 DEF EpochsAreInOrder
    <3> QED BY <3>1, <3>4, <3>5, <3>6 DEF EpochsAreInOrder
  <2>2. CASE finalizeEpoch
    <3>1. Clock'
      BY <2>0, <2>2, FinalizeEffect, FinalizedType DEF Clock
    <3>2. \A e \in EpochIds : epochs'[e].startTime = epochs[e].startTime
      BY <2>0, <2>2, FinalizeEffect, FinalizedType
    <3>3. ASSUME NEW e \in EpochIds, e # currentEpochId
          PROVE  epochs'[e] = epochs[e]
      BY <2>2, <3>3, FinalizeEffect
    <3>4. currentEpochId' = currentEpochId /\ _epochNullifiers' = _epochNullifiers
      BY <2>2, FinalizeEffect
    <3>5. \A e \in EpochIds : e < currentEpochId => e + 1 \in EpochIds
      BY <2>0 DEF EpochIds
    <3> QED BY <2>0, <3>1, <3>2, <3>3, <3>4, <3>5 DEF EpochsAreInOrder, EpochIds
  <2>3. ASSUME NEW sender \in Account, NEW n \in Nullifier,
               registerNullifier(sender, n)
        PROVE  EpochsAreInOrder' /\ Clock'
    <3>1. Clock' BY <2>0, <2>3, RegisterEffect DEF Clock
    <3>2. ASSUME NEW e \in EpochIds
          PROVE  /\ epochs'[e].startTime = epochs[e].startTime
                 /\ epochs'[e].endTime = epochs[e].endTime
                 /\ epochs'[e].finalized = epochs[e].finalized
      BY <2>3, RegisterEffect
    <3>3. ASSUME NEW e \in EpochIds, e # currentEpochId
          PROVE  _epochNullifiers'[e] = _epochNullifiers[e]
      BY <2>3, <3>3, RegisterEffect
    <3>4. currentEpochId' = currentEpochId BY <2>3, RegisterEffect
    <3>5. \A e \in EpochIds : e < currentEpochId => e + 1 \in EpochIds
      BY <2>0 DEF EpochIds
    <3> QED BY <2>0, <3>1, <3>2, <3>3, <3>4, <3>5 DEF EpochsAreInOrder, EpochIds
  <2>4. CASE UNCHANGED epochVars /\ now' >= now
    <3>1. now' \in Nat BY DEF TypeOK
    <3> QED BY <2>0, <2>4, <3>1 DEF epochVars, EpochsAreInOrder, Clock, EpochIds
  <2> QED BY <2>1, <2>2, <2>3, <2>4, EpochEffects
<1> QED BY <1>1, <1>2, EpochsTypeCorrect, PTL DEF Spec

-----------------------------------------------------------------------------
\* An element of a list that grows at its end.
LEMMA AppendElements ==
    ASSUME NEW S, NEW s \in Seq(S), NEW x \in S, NEW y
    PROVE  (\E i \in 1..Len(Append(s, x)) : Append(s, x)[i] = y)
             <=> (y = x \/ \E i \in 1..Len(s) : s[i] = y)
<1>1. Len(Append(s, x)) = Len(s) + 1 /\ Len(s) \in Nat OBVIOUS
<1>2. \A i \in 1..Len(s) : Append(s, x)[i] = s[i] OBVIOUS
<1>3. Append(s, x)[Len(s) + 1] = x OBVIOUS
<1>4. ASSUME NEW i \in 1..Len(Append(s, x)), Append(s, x)[i] = y
      PROVE  y = x \/ \E j \in 1..Len(s) : s[j] = y
  <2>1. CASE i = Len(s) + 1 BY <2>1, <1>3, <1>4
  <2>2. CASE i \in 1..Len(s) BY <2>2, <1>2, <1>4
  <2> QED BY <2>1, <2>2, <1>1
<1>5. CASE y = x
  <2>1. Len(s) + 1 \in 1..Len(Append(s, x)) BY <1>1
  <2> QED BY <1>3, <1>5, <2>1
<1>6. ASSUME NEW j \in 1..Len(s), s[j] = y
      PROVE  \E i \in 1..Len(Append(s, x)) : Append(s, x)[i] = y
  <2>1. j \in 1..Len(Append(s, x)) BY <1>1
  <2> QED BY <1>2, <1>6, <2>1
<1> QED BY <1>4, <1>5, <1>6

\* Is n in the list?
Holds(list, n) == \E i \in 1..Len(list) : list[i] = n

\* isNullifierSpentGlobal knows exactly the nullifiers of the epochs up to the
\* current one: none is lost when an epoch ends or a pool is revoked.
THEOREM LookupCorrect == Spec => []LookupIsUnionOfEpochs
<1> USE EpochManagerAssumption
<1> DEFINE Inv == TypeOK /\ EpochsAreInOrder /\ LookupIsUnionOfEpochs
<1>0. LookupIsUnionOfEpochs <=>
        \A n \in Nullifier : n \in localNullifiers <=>
            \E e \in 0..currentEpochId : Holds(_epochNullifiers[e], n)
  BY DEF LookupIsUnionOfEpochs, isNullifierSpentGlobal, Holds
<1>1. Init => LookupIsUnionOfEpochs
  <2> SUFFICES ASSUME Init PROVE LookupIsUnionOfEpochs OBVIOUS
  <2>1. 0 \in EpochIds BY DEF EpochIds
  <2>2. _epochNullifiers[0] = << >> BY <2>1 DEF Init
  <2>3. \A n \in Nullifier : ~ Holds(_epochNullifiers[0], n) BY <2>2 DEF Holds
  <2>4. currentEpochId = 0 /\ localNullifiers = {} BY DEF Init
  <2> QED BY <1>0, <2>3, <2>4
<1>2. Inv /\ TypeOK' /\ [Next]_vars => LookupIsUnionOfEpochs'
  <2> SUFFICES ASSUME Inv, TypeOK', [Next]_vars PROVE LookupIsUnionOfEpochs'
    OBVIOUS
  <2>0. currentEpochId \in EpochIds /\ currentEpochId \in Nat BY DEF TypeOK, EpochIds
  <2>1. CASE startNewEpoch
    <3>1. /\ currentEpochId + 1 \in EpochIds /\ currentEpochId' = currentEpochId + 1
          /\ _epochNullifiers' = _epochNullifiers
          /\ localNullifiers' = localNullifiers
      BY <2>1, StartEffect
    <3>2. currentEpochId + 1 > currentEpochId BY <2>0
    <3>3. _epochNullifiers[currentEpochId + 1] = << >>
      BY <3>1, <3>2 DEF EpochsAreInOrder
    <3>4. \A n : ~ Holds(_epochNullifiers[currentEpochId + 1], n) BY <3>3 DEF Holds
    <3>5. 0..currentEpochId' = 0..currentEpochId \cup {currentEpochId + 1}
      BY <2>0, <3>1
    <3>6. \A n \in Nullifier : n \in localNullifiers' <=>
                \E e \in 0..currentEpochId' : Holds(_epochNullifiers'[e], n)
      BY <1>0, <3>1, <3>4, <3>5
    <3> QED BY <3>6 DEF LookupIsUnionOfEpochs, isNullifierSpentGlobal, Holds
  <2>2. CASE finalizeEpoch
    BY <2>2, FinalizeEffect DEF LookupIsUnionOfEpochs, isNullifierSpentGlobal
  <2>3. ASSUME NEW sender \in Account, NEW x \in Nullifier,
               registerNullifier(sender, x)
        PROVE  LookupIsUnionOfEpochs'
    <3> DEFINE c == currentEpochId
    <3>1. /\ currentEpochId' = c
          /\ localNullifiers' = localNullifiers \cup {x}
          /\ _epochNullifiers'[c] = Append(_epochNullifiers[c], x)
          /\ \A e \in EpochIds : e # c => _epochNullifiers'[e] = _epochNullifiers[e]
      BY <2>3, RegisterEffect
    <3>2. _epochNullifiers[c] \in Seq(Nullifier)
      <4>1. _epochNullifiers[c] \in Lists BY <2>0 DEF TypeOK
      <4> QED BY <4>1, ListsAreSequences, Zenon
    <3>3. ASSUME NEW n \in Nullifier
          PROVE  Holds(_epochNullifiers'[c], n) <=> n = x \/ Holds(_epochNullifiers[c], n)
      BY <3>1, <3>2, AppendElements DEF Holds
    <3>4. ASSUME NEW n \in Nullifier, NEW e \in 0..c, e # c
          PROVE  Holds(_epochNullifiers'[e], n) <=> Holds(_epochNullifiers[e], n)
      <4>1. e \in EpochIds BY <2>0, <3>4 DEF EpochIds
      <4> QED BY <4>1, <3>1, <3>4 DEF Holds
    <3>5. c \in 0..c BY <2>0
    <3>6. ASSUME NEW n \in Nullifier
          PROVE  n \in localNullifiers' <=> \E e \in 0..c : Holds(_epochNullifiers'[e], n)
      <4>1. n \in localNullifiers <=> \E e \in 0..c : Holds(_epochNullifiers[e], n) BY <1>0
      <4>2. n \in localNullifiers' <=> n = x \/ n \in localNullifiers BY <3>1
      <4>3. (\E e \in 0..c : Holds(_epochNullifiers'[e], n))
              <=> (n = x \/ \E e \in 0..c : Holds(_epochNullifiers[e], n))
        BY <3>3, <3>4, <3>5
      <4> QED BY <4>1, <4>2, <4>3
    <3> QED BY <3>1, <3>6 DEF LookupIsUnionOfEpochs, isNullifierSpentGlobal, Holds
  <2>4. CASE UNCHANGED epochVars
    BY <2>4 DEF epochVars, LookupIsUnionOfEpochs, isNullifierSpentGlobal
  <2> QED BY <2>1, <2>2, <2>3, <2>4, EpochEffects
<1> QED BY <1>1, <1>2, EpochsTypeCorrect, EpochsOrdered, PTL DEF Spec

-----------------------------------------------------------------------------
\* Is this the root of the list up to some point?
Commits(root, list) ==
    \E k \in 0..Len(list) : root = _computeNullifierRoot(SubSeq(list, 1, k))

LEMMA CommitsToItself ==
    ASSUME NEW s \in Seq(Nullifier)
    PROVE  Commits(_computeNullifierRoot(s), s)
<1>1. SubSeq(s, 1, Len(s)) = s /\ Len(s) \in 0..Len(s) OBVIOUS
<1> QED BY <1>1 DEF Commits

LEMMA CommitsGrows ==
    ASSUME NEW s \in Seq(Nullifier), NEW n \in Nullifier, NEW root,
           Commits(root, s)
    PROVE  Commits(root, Append(s, n))
<1>1. PICK k \in 0..Len(s) : root = _computeNullifierRoot(SubSeq(s, 1, k))
  BY DEF Commits
<1>2. SubSeq(Append(s, n), 1, k) = SubSeq(s, 1, k) OBVIOUS
<1>3. k \in 0..Len(Append(s, n)) OBVIOUS
<1> QED BY <1>1, <1>2, <1>3 DEF Commits

\* A finalized root never names a nullifier that its epoch does not hold, even
\* when pools go on registering nullifiers after finalizeEpoch.
THEOREM RootsSound == Spec => []RootsCommitToPrefixes
<1> USE EpochManagerAssumption
<1>0. RootsCommitToPrefixes <=>
        \A e \in EpochIds : epochs[e].finalized =>
            Commits(epochs[e].nullifierRoot, _epochNullifiers[e])
  BY DEF RootsCommitToPrefixes, Commits
<1>1. Init => RootsCommitToPrefixes
  <2> SUFFICES ASSUME Init PROVE RootsCommitToPrefixes OBVIOUS
  <2>1. \A e \in EpochIds : ~ epochs[e].finalized
    BY NewEpochType DEF Init, NoEpoch
  <2> QED BY <1>0, <2>1
<1>2. TypeOK /\ RootsCommitToPrefixes /\ [Next]_vars => RootsCommitToPrefixes'
  <2> SUFFICES ASSUME TypeOK, RootsCommitToPrefixes, [Next]_vars
               PROVE  RootsCommitToPrefixes'
    OBVIOUS
  <2>a. \A e \in EpochIds : epochs[e].finalized =>
            Commits(epochs[e].nullifierRoot, _epochNullifiers[e])
    BY <1>0
  <2> SUFFICES ASSUME NEW e \in EpochIds, epochs'[e].finalized
               PROVE  Commits(epochs'[e].nullifierRoot, _epochNullifiers'[e])
    BY DEF RootsCommitToPrefixes, Commits
  <2>0. /\ currentEpochId \in EpochIds /\ now \in Nat
    BY DEF TypeOK
  <2>l. _epochNullifiers[e] \in Seq(Nullifier)
    <3>1. _epochNullifiers[e] \in Lists BY DEF TypeOK
    <3> QED BY <3>1, ListsAreSequences, Zenon
  <2>c. Finalized(e).nullifierRoot = _computeNullifierRoot(_epochNullifiers[e])
    BY FinalizedType
  <2>1. CASE startNewEpoch
    <3>1. _epochNullifiers' = _epochNullifiers BY <2>1, StartEffect
    <3>2. CASE e = currentEpochId
      <4>1. epochs'[e] = IF epochs[e].finalized THEN epochs[e] ELSE Finalized(e)
        BY <2>1, <3>2, StartEffect
      <4> QED BY <4>1, <3>1, <2>a, <2>c, <2>l, CommitsToItself
    <3>3. CASE e = currentEpochId + 1
      BY <2>0, <2>1, <3>3, StartEffect, NewEpochType
    <3>4. CASE e # currentEpochId /\ e # currentEpochId + 1
      BY <2>1, <2>a, <3>1, <3>4, StartEffect
    <3> QED BY <3>2, <3>3, <3>4
  <2>2. CASE finalizeEpoch
    <3>1. _epochNullifiers' = _epochNullifiers BY <2>2, FinalizeEffect
    <3>2. CASE e = currentEpochId
      <4>1. epochs'[e] = Finalized(e) BY <2>2, <3>2, FinalizeEffect
      <4> QED BY <4>1, <3>1, <2>c, <2>l, CommitsToItself
    <3>3. CASE e # currentEpochId BY <2>2, <2>a, <3>1, <3>3, FinalizeEffect
    <3> QED BY <3>2, <3>3
  <2>3. ASSUME NEW sender \in Account, NEW n \in Nullifier,
               registerNullifier(sender, n)
        PROVE  Commits(epochs'[e].nullifierRoot, _epochNullifiers'[e])
    <3>1. /\ epochs[e].finalized
          /\ epochs'[e].nullifierRoot = epochs[e].nullifierRoot
      BY <2>3, RegisterEffect
    <3>2. _epochNullifiers'[e] = IF e = currentEpochId
                                 THEN Append(_epochNullifiers[e], n)
                                 ELSE _epochNullifiers[e]
      BY <2>3, RegisterEffect
    <3>3. Commits(epochs[e].nullifierRoot, _epochNullifiers[e]) BY <2>a, <3>1
    <3> QED BY <2>l, <3>1, <3>2, <3>3, CommitsGrows
  <2>4. CASE UNCHANGED epochVars BY <2>4, <2>a DEF epochVars
  <2> QED BY <2>1, <2>2, <2>3, <2>4, EpochEffects
<1> QED BY <1>1, <1>2, EpochsTypeCorrect, PTL DEF Spec

-----------------------------------------------------------------------------
\* A root that bridges may have carried away is never changed, and an epoch
\* that is over takes no further nullifier.
THEOREM RootsFrozen == Spec => FinalRootsAreFrozen
<1> DEFINE Frozen ==
      \A e \in EpochIds :
         /\ epochs[e].finalized =>
               /\ epochs'[e].finalized
               /\ epochs'[e].nullifierRoot = epochs[e].nullifierRoot
               /\ epochs'[e].endTime = epochs[e].endTime
         /\ e < currentEpochId => _epochNullifiers'[e] = _epochNullifiers[e]
<1>1. TypeOK /\ EpochsAreInOrder /\ [Next]_vars => [Frozen]_vars
  <2> SUFFICES ASSUME TypeOK, EpochsAreInOrder, [Next]_vars, NEW e \in EpochIds
               PROVE  /\ epochs[e].finalized =>
                            /\ epochs'[e].finalized
                            /\ epochs'[e].nullifierRoot = epochs[e].nullifierRoot
                            /\ epochs'[e].endTime = epochs[e].endTime
                      /\ e < currentEpochId =>
                            _epochNullifiers'[e] = _epochNullifiers[e]
    OBVIOUS
  <2>1. CASE startNewEpoch
    <3>1. currentEpochId \in Nat BY DEF TypeOK, EpochIds
    <3>2. currentEpochId + 1 \in EpochIds BY <2>1, StartEffect
    <3>3. ~ epochs[currentEpochId + 1].finalized
      BY <3>1, <3>2 DEF EpochsAreInOrder
    <3>4. epochs[e].finalized => epochs'[e] = epochs[e]
      BY <2>1, <3>3, StartEffect
    <3> QED BY <2>1, <3>4, StartEffect
  <2>2. CASE finalizeEpoch BY <2>2, FinalizeEffect
  <2>3. ASSUME NEW sender \in Account, NEW n \in Nullifier,
               registerNullifier(sender, n)
        PROVE  /\ epochs[e].finalized =>
                     /\ epochs'[e].finalized
                     /\ epochs'[e].nullifierRoot = epochs[e].nullifierRoot
                     /\ epochs'[e].endTime = epochs[e].endTime
               /\ e < currentEpochId =>
                     _epochNullifiers'[e] = _epochNullifiers[e]
    <3>1. e < currentEpochId => e # currentEpochId BY DEF TypeOK, EpochIds
    <3> QED BY <2>3, <3>1, RegisterEffect
  <2>4. CASE UNCHANGED epochVars BY <2>4 DEF epochVars
  <2> QED BY <2>1, <2>2, <2>3, <2>4, EpochEffects
<1> QED BY <1>1, EpochsTypeCorrect, EpochsOrdered, PTL DEF Spec, FinalRootsAreFrozen
-----------------------------------------------------------------------------
(* FlattenSeq, which the relayer's loops over lists amount to. *)

\* The partial results of FlattenSeq.
Flattens(seqs, top, f) ==
    f = [i \in 1..top |-> IF i = 1 THEN seqs[i] ELSE f[i - 1] \o seqs[i]]

LEMMA FlattensExists ==
    ASSUME NEW seqs, NEW top \in Nat
    PROVE  \E f : Flattens(seqs, top, f)
<1> DEFINE S == {n \in Nat : \E f : Flattens(seqs, n, f)}
<1>1. 0 \in S
  <2> DEFINE f == [i \in 1..0 |-> seqs[i]]
  <2>1. Flattens(seqs, 0, f)
    <3>1. \A i \in 1..0 : FALSE OBVIOUS
    <3> QED BY <3>1 DEF Flattens
  <2> QED BY <2>1
<1>2. ASSUME NEW n \in Nat, n \in S PROVE n + 1 \in S
  <2>1. PICK g : Flattens(seqs, n, g) BY <1>2
  <2> DEFINE last == IF n = 0 THEN seqs[n + 1] ELSE g[n] \o seqs[n + 1]
             f == [i \in 1..(n + 1) |-> IF i = n + 1 THEN last ELSE g[i]]
  <2>2. \A i \in 1..n : g[i] = IF i = 1 THEN seqs[i] ELSE g[i - 1] \o seqs[i]
    BY <2>1 DEF Flattens
  <2>3. f[n + 1] = last /\ \A i \in 1..n : f[i] = g[i]
    <3> HIDE DEF last
    <3>1. n + 1 \in 1..(n + 1) /\ \A i \in 1..n : i \in 1..(n + 1) /\ i # n + 1 OBVIOUS
    <3> QED BY <3>1
  <2>4. f = [i \in 1..(n + 1) |-> f[i]] OBVIOUS
  <2> HIDE DEF f
  <2>5. ASSUME NEW i \in 1..(n + 1)
        PROVE  f[i] = IF i = 1 THEN seqs[i] ELSE f[i - 1] \o seqs[i]
    <3>1. CASE i = n + 1 /\ n = 0 BY <2>3, <3>1
    <3>2. CASE i = n + 1 /\ n # 0
      <4>1. i - 1 = n /\ n \in 1..n /\ i # 1 BY <3>2
      <4> QED BY <2>3, <3>2, <4>1
    <3>3. CASE i # n + 1 /\ i = 1
      <4>1. i \in 1..n BY <3>3
      <4> QED BY <2>2, <2>3, <3>3, <4>1
    <3>4. CASE i # n + 1 /\ i # 1
      <4>1. i \in 1..n /\ i - 1 \in 1..n BY <3>4
      <4> QED BY <2>2, <2>3, <3>4, <4>1
    <3> QED BY <3>1, <3>2, <3>3, <3>4
  <2>6. Flattens(seqs, n + 1, f) BY <2>4, <2>5 DEF Flattens
  <2> QED BY <2>6
<1> HIDE DEF S
<1>3. top \in S BY <1>1, <1>2, InductiveSet
<1> QED BY <1>3 DEF S

\* The function of FlattenSeq.
FlattenOf(seqs) == CHOOSE f : Flattens(seqs, Len(seqs), f)

LEMMA FlattenValues ==
    ASSUME NEW T, NEW seqs \in Seq(Seq(T))
    PROVE  /\ Len(seqs) = 0 => FlattenSeq(seqs) = << >>
           /\ Len(seqs) # 0 => FlattenSeq(seqs) = FlattenOf(seqs)[Len(seqs)]
           /\ \A i \in 1..Len(seqs) :
                 FlattenOf(seqs)[i] = IF i = 1 THEN seqs[i]
                                      ELSE FlattenOf(seqs)[i - 1] \o seqs[i]
<1>1. Len(seqs) \in Nat BY LenProperties
<1>2. Flattens(seqs, Len(seqs), FlattenOf(seqs)) BY <1>1, FlattensExists DEF FlattenOf
<1>3. Len(seqs) # 0 => FlattenSeq(seqs) = FlattenOf(seqs)[Len(seqs)]
  BY Zenon DEF FlattenSeq, FlattenOf, Flattens
<1>4. Len(seqs) = 0 => FlattenSeq(seqs) = seqs BY Zenon DEF FlattenSeq
<1>5. Len(seqs) = 0 => seqs = << >> BY EmptySeq
<1> DEFINE f == FlattenOf(seqs)
<1>6. f = [i \in 1..Len(seqs) |-> IF i = 1 THEN seqs[i] ELSE f[i - 1] \o seqs[i]]
  BY <1>2, Zenon DEF Flattens
<1> HIDE DEF f
<1>7. \A i \in 1..Len(seqs) : f[i] = IF i = 1 THEN seqs[i] ELSE f[i - 1] \o seqs[i]
  BY <1>6
<1> QED BY <1>3, <1>4, <1>5, <1>7 DEF f

\* One more list: its elements follow those of the others.
LEMMA FlattenAppend ==
    ASSUME NEW T, NEW seqs \in Seq(Seq(T)), NEW more \in Seq(Seq(T)),
           Len(more) = Len(seqs) + 1,
           \A i \in 1..Len(seqs) : more[i] = seqs[i]
    PROVE  FlattenSeq(more) = FlattenSeq(seqs) \o more[Len(more)]
<1> DEFINE n == Len(seqs)  f == FlattenOf(seqs)  g == FlattenOf(more)
<1>1. n \in Nat /\ Len(more) = n + 1 BY LenProperties
<1>2. /\ n = 0 => FlattenSeq(seqs) = << >>
      /\ n # 0 => FlattenSeq(seqs) = f[n]
      /\ \A i \in 1..n : f[i] = IF i = 1 THEN seqs[i] ELSE f[i - 1] \o seqs[i]
  BY FlattenValues
<1>3. /\ FlattenSeq(more) = g[n + 1]
      /\ \A i \in 1..(n + 1) : g[i] = IF i = 1 THEN more[i] ELSE g[i - 1] \o more[i]
  <2>1. /\ Len(more) # 0 => FlattenSeq(more) = g[Len(more)]
        /\ \A i \in 1..Len(more) : g[i] = IF i = 1 THEN more[i] ELSE g[i - 1] \o more[i]
    BY FlattenValues
  <2> DEFINE m == Len(more)
  <2>2. m # 0 /\ m = n + 1 BY <1>1
  <2>3. /\ FlattenSeq(more) = g[m]
        /\ \A i \in 1..m : g[i] = IF i = 1 THEN more[i] ELSE g[i - 1] \o more[i]
    BY <2>1, <2>2
  <2> HIDE DEF g, n, m
  <2> QED BY <2>2, <2>3, Zenon
<1>4. more[n + 1] \in Seq(T)
  <2>1. n + 1 \in 1..Len(more) BY <1>1
  <2> QED BY <2>1, ElementOfSeq
<1>0. \A i \in 1..n : more[i] = seqs[i] OBVIOUS
<1> HIDE DEF n, f, g
<1> DEFINE S == {i \in Nat : i + 1 \in 1..n => g[i + 1] = f[i + 1]}
<1>5. 0 \in S
  <2>1. 0 + 1 = 1 OBVIOUS
  <2>2. 1 \in 1..n => 1 \in 1..(n + 1) BY <1>1
  <2>3. 1 \in 1..n => g[1] = f[1] BY <1>0, <1>2, <1>3, <2>2
  <2> QED BY <2>1, <2>3
<1>6. ASSUME NEW i \in Nat, i \in S PROVE i + 1 \in S
  <2> SUFFICES ASSUME (i + 1) + 1 \in 1..n PROVE g[(i + 1) + 1] = f[(i + 1) + 1]
    OBVIOUS
  <2> DEFINE k == (i + 1) + 1
  <2>1. k \in 1..n /\ k \in 1..(n + 1) /\ k # 1 /\ k - 1 = i + 1 /\ i + 1 \in 1..n BY <1>1
  <2>2. g[k - 1] = f[k - 1] BY <1>6, <2>1
  <2> HIDE DEF k
  <2>3. g[k] = f[k] BY <1>0, <1>2, <1>3, <2>1, <2>2
  <2> QED BY <2>3 DEF k
<1> HIDE DEF S
<1>7. \A i \in Nat : i \in S BY <1>5, <1>6, InductiveSet
<1>8. CASE n = 0
  <2>1. g[n + 1] = more[n + 1] BY <1>1, <1>3, <1>8
  <2>2. << >> \o more[n + 1] = more[n + 1] BY <1>4, ConcatEmptySeq
  <2> QED BY <1>1, <1>2, <1>3, <1>8, <2>1, <2>2
<1>9. CASE n # 0
  <2>1. n - 1 \in Nat /\ (n - 1) + 1 = n /\ n \in 1..n BY <1>1, <1>9
  <2>2. n - 1 \in S BY <1>7, <2>1
  <2>3. g[n] = f[n] BY <2>1, <2>2 DEF S
  <2>4. n + 1 \in 1..(n + 1) /\ n + 1 # 1 /\ (n + 1) - 1 = n BY <1>1, <1>9
  <2>5. g[n + 1] = g[n] \o more[n + 1] BY <1>3, <2>4
  <2> QED BY <1>1, <1>2, <1>3, <1>9, <2>3, <2>5
<1> QED BY <1>8, <1>9

\* Induction on lists, with a set instead of a predicate.
LEMMA InductiveList ==
    ASSUME NEW T, NEW Good, << >> \in Good,
           \A s \in Seq(T) : \A x \in T : s \in Good => Append(s, x) \in Good
    PROVE  \A s \in Seq(T) : s \in Good
<1> DEFINE S == {n \in Nat : \A s \in Seq(T) : Len(s) = n => s \in Good}
<1>1. 0 \in S
  <2>1. \A s \in Seq(T) : Len(s) = 0 => s = << >> BY EmptySeq
  <2> QED BY <2>1
<1>2. ASSUME NEW n \in Nat, n \in S PROVE n + 1 \in S
  <2> SUFFICES ASSUME NEW s \in Seq(T), Len(s) = n + 1 PROVE s \in Good
    OBVIOUS
  <2>1. s # << >> OBVIOUS
  <2>2. PICK r \in Seq(T), x \in T : s = Append(r, x) BY <2>1, SequenceEmptyOrAppend
  <2>3. Len(r) \in Nat /\ Len(s) = Len(r) + 1 BY <2>2, LenProperties, AppendProperties
  <2>4. Len(r) = n BY <2>3
  <2>5. r \in Good BY <1>2, <2>4
  <2> QED BY <2>2, <2>5
<1> HIDE DEF S
<1>3. \A n \in Nat : n \in S BY <1>1, <1>2, InductiveSet
<1>4. \A s \in Seq(T) : Len(s) \in Nat BY LenProperties
<1> QED BY <1>3, <1>4 DEF S

LEMMA FlattenSnoc ==
    ASSUME NEW T, NEW seqs \in Seq(Seq(T)), NEW x \in Seq(T)
    PROVE  FlattenSeq(Append(seqs, x)) = FlattenSeq(seqs) \o x
<1> DEFINE more == Append(seqs, x)
<1>1. /\ more \in Seq(Seq(T)) /\ Len(more) = Len(seqs) + 1
      /\ \A i \in 1..Len(seqs) : more[i] = seqs[i]
      /\ more[Len(seqs) + 1] = x
  BY AppendProperties
<1> HIDE DEF more
<1>2. FlattenSeq(more) = FlattenSeq(seqs) \o more[Len(more)] BY <1>1, FlattenAppend
<1> QED BY <1>1, <1>2 DEF more

LEMMA FlattenEmpty == FlattenSeq(<< >>) = << >>
<1>1. Len(<< >>) = 0 BY EmptySeq
<1> QED BY <1>1, Zenon DEF FlattenSeq

LEMMA FlattenInSeq ==
    ASSUME NEW T, NEW seqs \in Seq(Seq(T))
    PROVE  FlattenSeq(seqs) \in Seq(T)
<1> DEFINE Good == {q \in Seq(Seq(T)) : FlattenSeq(q) \in Seq(T)}
<1>1. << >> \in Good BY FlattenEmpty, EmptySeq
<1>2. ASSUME NEW q \in Seq(Seq(T)), NEW x \in Seq(T), q \in Good
      PROVE  Append(q, x) \in Good
  <2>1. FlattenSeq(Append(q, x)) = FlattenSeq(q) \o x BY FlattenSnoc
  <2>2. FlattenSeq(q) \o x \in Seq(T) BY <1>2, ConcatProperties
  <2>3. Append(q, x) \in Seq(Seq(T)) BY AppendProperties
  <2> QED BY <2>1, <2>2, <2>3
<1> HIDE DEF Good
<1>3. seqs \in Good BY <1>1, <1>2, InductiveList
<1> QED BY <1>3 DEF Good

-----------------------------------------------------------------------------
(* The commands of events. *)

Events == [chain : WatchedChains, epoch : Nat \ {0}]

Commands == [to : {"registry"} \cup WithAdapter, event : Events]

ToRegistry(cmd) == cmd.to = "registry"

LEMMA DispatchShape ==
    ASSUME NEW event \in Events
    PROVE  /\ dispatch_event(event) \in Seq(Commands)
           /\ Len(dispatch_event(event)) \in Nat \ {0}
           /\ dispatch_event(event)[1] = SubmitToRegistry(event)
           /\ \A i \in 1..Len(dispatch_event(event)) :
                 i # 1 => ~ ToRegistry(dispatch_event(event)[i])
<1> DEFINE T == [to : WithAdapter, event : Events]
           seqs == [i \in 1..Len(chains) |->
                      IF is_target(chains[i], event)
                      THEN <<SendToChain(chains[i], event)>> ELSE << >>]
           first == <<SubmitToRegistry(event)>>
           rest == FlattenSeq(seqs)
<1>1. dispatch_event(event) = first \o rest BY DEF dispatch_event
<1>2. Len(chains) \in Nat BY RelayerAssumption, LenProperties
<1>3. ASSUME NEW i \in 1..Len(chains)
      PROVE  (IF is_target(chains[i], event)
              THEN <<SendToChain(chains[i], event)>> ELSE << >>) \in Seq(T)
  <2>1. CASE is_target(chains[i], event)
    <3>1. SendToChain(chains[i], event) \in T BY <2>1 DEF is_target, SendToChain
    <3> HIDE DEF T
    <3>2. <<SendToChain(chains[i], event)>> \in Seq(T) BY <3>1
    <3> QED BY <2>1, <3>2
  <2>2. CASE ~ is_target(chains[i], event)
    <3> HIDE DEF T
    <3>1. << >> \in Seq(T) BY EmptySeq
    <3> QED BY <2>2, <3>1
  <2> QED BY <2>1, <2>2
<1>4. seqs \in Seq(Seq(T))
  <2>1. seqs \in [1..Len(chains) -> Seq(T)]
    <3> HIDE DEF T
    <3> QED BY <1>3
  <2> HIDE DEF seqs, T
  <2> QED BY <1>2, <2>1
<1>5. T \subseteq Commands BY DEF Commands
<1>6. first \in Seq(Commands) /\ Len(first) = 1 /\ first[1] = SubmitToRegistry(event)
  <2>1. SubmitToRegistry(event) \in Commands BY DEF SubmitToRegistry, Commands
  <2> HIDE DEF T
  <2> QED BY <2>1
<1>7. \A x \in T : ~ ToRegistry(x) BY RelayerAssumption DEF ToRegistry
<1> HIDE DEF T, seqs, first
<1>8. rest \in Seq(T) BY <1>4, FlattenInSeq
<1> HIDE DEF rest
<1>9. rest \in Seq(Commands) BY <1>5, <1>8, SeqMonotonic
<1>10. /\ first \o rest \in Seq(Commands)
       /\ Len(first \o rest) = Len(first) + Len(rest)
       /\ \A i \in 1..(Len(first) + Len(rest)) :
             (first \o rest)[i] = IF i <= Len(first) THEN first[i] ELSE rest[i - Len(first)]
  BY <1>6, <1>9, ConcatProperties
<1>11. Len(rest) \in Nat /\ \A i \in 1..Len(rest) : rest[i] \in T
  BY <1>8, LenProperties, ElementOfSeq
<1>12. (first \o rest)[1] = first[1]
  <2>1. 1 \in 1..(Len(first) + Len(rest)) /\ 1 <= Len(first) BY <1>6, <1>11
  <2> QED BY <1>10, <2>1
<1>13. ASSUME NEW i \in 1..Len(first \o rest), i # 1
       PROVE  ~ ToRegistry((first \o rest)[i])
  <2>1. i \in 1..(Len(first) + Len(rest)) /\ ~ (i <= Len(first)) /\ i - Len(first) \in 1..Len(rest)
    BY <1>6, <1>10, <1>11, <1>13
  <2>2. (first \o rest)[i] = rest[i - Len(first)] BY <1>10, <2>1
  <2> QED BY <1>7, <1>11, <2>1, <2>2
<1>14. Len(first \o rest) \in Nat \ {0} BY <1>6, <1>10, <1>11
<1> QED BY <1>1, <1>6, <1>10, <1>12, <1>13, <1>14

\* What flush_batch flattens.
PerEvent(list) == [i \in 1..Len(list) |-> dispatch_event(list[i])]

LEMMA FlushAppend ==
    /\ flush_batch(<< >>) = << >>
    /\ \A list \in Seq(Events) : flush_batch(list) \in Seq(Commands)
    /\ \A list \in Seq(Events) : \A event \in Events :
          flush_batch(Append(list, event)) = flush_batch(list) \o dispatch_event(event)
<1>1. \A list : flush_batch(list) = FlattenSeq(PerEvent(list)) BY DEF flush_batch, PerEvent
<1>2. ASSUME NEW list \in Seq(Events)
      PROVE  /\ PerEvent(list) \in Seq(Seq(Commands)) /\ Len(PerEvent(list)) = Len(list)
             /\ \A i \in 1..Len(list) : PerEvent(list)[i] = dispatch_event(list[i])
  <2>1. Len(list) \in Nat /\ \A i \in 1..Len(list) : list[i] \in Events
    BY LenProperties, ElementOfSeq
  <2>2. \A i \in 1..Len(list) : dispatch_event(list[i]) \in Seq(Commands)
    BY <2>1, DispatchShape
  <2> DEFINE T == Seq(Commands)
  <2>3. PerEvent(list) \in [1..Len(list) -> T] BY <2>2 DEF PerEvent
  <2> HIDE DEF T
  <2>4. PerEvent(list) \in Seq(T) /\ Len(PerEvent(list)) = Len(list)
    BY <2>1, <2>3
  <2>5. \A i \in 1..Len(list) : PerEvent(list)[i] = dispatch_event(list[i])
    BY DEF PerEvent
  <2> QED BY <2>4, <2>5 DEF T
<1>3. ASSUME NEW list \in Seq(Events) PROVE flush_batch(list) \in Seq(Commands)
  BY <1>1, <1>2, FlattenInSeq
<1>4. flush_batch(<< >>) = << >>
  <2>1. << >> \in Seq(Events) /\ Len(<< >>) = 0 BY EmptySeq
  <2>2. PerEvent(<< >>) \in Seq(Seq(Commands)) /\ Len(PerEvent(<< >>)) = 0 BY <1>2, <2>1
  <2>3. PerEvent(<< >>) = << >> BY <2>2, EmptySeq
  <2> QED BY <1>1, <2>3, FlattenEmpty
<1>5. ASSUME NEW list \in Seq(Events), NEW event \in Events
      PROVE  flush_batch(Append(list, event)) = flush_batch(list) \o dispatch_event(event)
  <2> DEFINE grown == Append(list, event)
  <2>1. /\ grown \in Seq(Events) /\ Len(grown) = Len(list) + 1 /\ grown[Len(list) + 1] = event
        /\ \A i \in 1..Len(list) : grown[i] = list[i]
    BY AppendProperties
  <2>2. Len(list) \in Nat BY LenProperties
  <2> HIDE DEF grown
  <2>3. /\ PerEvent(list) \in Seq(Seq(Commands)) /\ Len(PerEvent(list)) = Len(list)
        /\ \A i \in 1..Len(list) : PerEvent(list)[i] = dispatch_event(list[i])
    BY <1>2
  <2>4. /\ PerEvent(grown) \in Seq(Seq(Commands)) /\ Len(PerEvent(grown)) = Len(grown)
        /\ \A i \in 1..Len(grown) : PerEvent(grown)[i] = dispatch_event(grown[i])
    BY <1>2, <2>1
  <2>5. \A i \in 1..Len(list) : PerEvent(grown)[i] = PerEvent(list)[i]
    <3>1. \A i \in 1..Len(list) : i \in 1..Len(grown) BY <2>1, <2>2
    <3> QED BY <2>1, <2>3, <2>4, <3>1
  <2>6. PerEvent(grown)[Len(grown)] = dispatch_event(event)
    <3>1. Len(grown) \in 1..Len(grown) BY <2>1, <2>2
    <3> QED BY <2>1, <2>4, <3>1
  <2>7. FlattenSeq(PerEvent(grown)) = FlattenSeq(PerEvent(list)) \o PerEvent(grown)[Len(PerEvent(grown))]
    BY <2>1, <2>3, <2>4, <2>5, FlattenAppend
  <2> QED BY <1>1, <2>4, <2>6, <2>7 DEF grown
<1> QED BY <1>3, <1>4, <1>5

LEMMA ConcatAppend ==
    ASSUME NEW T, NEW s \in Seq(T), NEW t \in Seq(T), NEW x \in T
    PROVE  s \o Append(t, x) = Append(s \o t, x)
<1> DEFINE last == <<x>>
<1>1. last \in Seq(T) OBVIOUS
<1>2. Append(t, x) = t \o last BY AppendIsConcat
<1>3. s \o t \in Seq(T) BY ConcatProperties
<1>4. Append(s \o t, x) = (s \o t) \o last BY <1>3, AppendIsConcat
<1> HIDE DEF last
<1>5. (s \o t) \o last = s \o (t \o last) BY <1>1, ConcatAssociative
<1> QED BY <1>2, <1>4, <1>5

LEMMA FlushConcat ==
    ASSUME NEW a \in Seq(Events), NEW b \in Seq(Events)
    PROVE  flush_batch(a \o b) = flush_batch(a) \o flush_batch(b)
<1> DEFINE Good == {t \in Seq(Events) : flush_batch(a \o t) = flush_batch(a) \o flush_batch(t)}
<1>0. \A t \in Seq(Events) : flush_batch(t) \in Seq(Commands) BY FlushAppend
<1>1. << >> \in Good
  <2>1. a \o << >> = a /\ << >> \in Seq(Events) BY ConcatEmptySeq, EmptySeq
  <2>2. flush_batch(a) \o << >> = flush_batch(a) BY <1>0, ConcatEmptySeq
  <2> QED BY <2>1, <2>2, FlushAppend
<1>2. ASSUME NEW t \in Seq(Events), NEW x \in Events, t \in Good
      PROVE  Append(t, x) \in Good
  <2>1. a \o Append(t, x) = Append(a \o t, x) BY ConcatAppend
  <2>2. a \o t \in Seq(Events) BY ConcatProperties
  <2>3. flush_batch(Append(a \o t, x)) = flush_batch(a \o t) \o dispatch_event(x)
    BY <2>2, FlushAppend
  <2>4. flush_batch(a \o t) = flush_batch(a) \o flush_batch(t) BY <1>2
  <2>5. (flush_batch(a) \o flush_batch(t)) \o dispatch_event(x) =
          flush_batch(a) \o (flush_batch(t) \o dispatch_event(x))
    BY <1>0, DispatchShape, ConcatAssociative
  <2>6. flush_batch(Append(t, x)) = flush_batch(t) \o dispatch_event(x) BY FlushAppend
  <2>7. Append(t, x) \in Seq(Events) BY AppendProperties
  <2> QED BY <2>1, <2>3, <2>4, <2>5, <2>6, <2>7
<1> HIDE DEF Good
<1>3. b \in Good BY <1>1, <1>2, InductiveList
<1> QED BY <1>3 DEF Good

\* The commands for the registry come one for one, and in order, from the events.
FromEvents(list, out) ==
    /\ \A i \in 1..Len(out) : ToRegistry(out[i]) => \E p \in 1..Len(list) : out[i].event = list[p]
    /\ \A i, j \in 1..Len(out) : i < j /\ ToRegistry(out[i]) /\ ToRegistry(out[j]) =>
          \E p, q \in 1..Len(list) : p < q /\ out[i].event = list[p] /\ out[j].event = list[q]

LEMMA FlushOrder ==
    ASSUME NEW list \in Seq(Events)
    PROVE  FromEvents(list, flush_batch(list))
<1> DEFINE Good == {t \in Seq(Events) : FromEvents(t, flush_batch(t))}
<1>1. << >> \in Good
  <2>1. << >> \in Seq(Events) /\ Len(<< >>) = 0 BY EmptySeq
  <2>2. \A i \in 1..0 : FALSE OBVIOUS
  <2>3. FromEvents(<< >>, << >>) BY <2>1, <2>2 DEF FromEvents
  <2> QED BY <2>1, <2>3, FlushAppend
<1>2. ASSUME NEW t \in Seq(Events), NEW x \in Events, t \in Good
      PROVE  Append(t, x) \in Good
  <2> DEFINE out == flush_batch(t)  more == dispatch_event(x)  grown == Append(t, x)
             n == Len(t)  k == Len(out)  all == out \o more
  <2>1. FromEvents(t, out) BY <1>2
  <2>2. flush_batch(grown) = all BY FlushAppend
  <2>3. /\ grown \in Seq(Events) /\ Len(grown) = n + 1 /\ grown[n + 1] = x
        /\ \A i \in 1..n : grown[i] = t[i]
    BY AppendProperties
  <2>4. out \in Seq(Commands) /\ more \in Seq(Commands) BY FlushAppend, DispatchShape
  <2>5. /\ more[1].event = x /\ Len(more) \in Nat
        /\ \A i \in 1..Len(more) : i # 1 => ~ ToRegistry(more[i])
    <3>1. SubmitToRegistry(x).event = x BY DEF SubmitToRegistry
    <3> QED BY <3>1, DispatchShape
  <2> HIDE DEF out, more, grown
  <2>6. n \in Nat /\ k \in Nat BY <2>4, LenProperties
  <2>7. /\ Len(all) = k + Len(more)
        /\ \A i \in 1..(k + Len(more)) : all[i] = IF i <= k THEN out[i] ELSE more[i - k]
    BY <2>4, ConcatProperties
  <2> HIDE DEF n, k, all
  <2>8. ASSUME NEW i \in 1..Len(all), ToRegistry(all[i])
        PROVE  \/ i \in 1..k /\ all[i] = out[i]
               \/ i = k + 1 /\ all[i].event = x
    <3>1. i \in 1..(k + Len(more)) BY <2>7
    <3>2. CASE i <= k BY <2>6, <2>7, <3>1, <3>2
    <3>3. CASE ~ (i <= k)
      <4>1. i - k \in 1..Len(more) /\ all[i] = more[i - k] BY <2>5, <2>6, <2>7, <3>1, <3>3
      <4>2. i - k = 1 BY <2>5, <2>8, <4>1
      <4> QED BY <2>5, <2>6, <3>1, <4>1, <4>2
    <3> QED BY <3>2, <3>3
  <2>9. n + 1 \in 1..Len(grown) /\ \A p \in 1..n : p \in 1..Len(grown) /\ p < n + 1
    BY <2>3, <2>6
  <2>10. ASSUME NEW i \in 1..k, ToRegistry(out[i])
         PROVE  \E p \in 1..n : out[i].event = grown[p]
    <3>1. PICK p \in 1..n : out[i].event = t[p] BY <2>1, <2>10 DEF FromEvents, n, k
    <3> QED BY <2>3, <3>1
  <2>11. ASSUME NEW i \in 1..k, NEW j \in 1..k, i < j, ToRegistry(out[i]), ToRegistry(out[j])
         PROVE  \E p, q \in 1..n : p < q /\ out[i].event = grown[p] /\ out[j].event = grown[q]
    <3>1. PICK p, q \in 1..n : p < q /\ out[i].event = t[p] /\ out[j].event = t[q]
      BY <2>1, <2>11 DEF FromEvents, n, k
    <3> QED BY <2>3, <3>1
  <2>12. ASSUME NEW i \in 1..Len(all), ToRegistry(all[i])
         PROVE  \E p \in 1..Len(grown) : all[i].event = grown[p]
    BY <2>3, <2>8, <2>9, <2>10, <2>12
  <2>13. ASSUME NEW i \in 1..Len(all), NEW j \in 1..Len(all), i < j,
                ToRegistry(all[i]), ToRegistry(all[j])
         PROVE  \E p, q \in 1..Len(grown) :
                   p < q /\ all[i].event = grown[p] /\ all[j].event = grown[q]
    <3>1. CASE j \in 1..k /\ all[j] = out[j]
      <4>1. i \in 1..k /\ all[i] = out[i] BY <2>6, <2>8, <2>13, <3>1
      <4>2. PICK p, q \in 1..n : p < q /\ out[i].event = grown[p] /\ out[j].event = grown[q]
        BY <2>11, <2>13, <3>1, <4>1
      <4> QED BY <2>9, <3>1, <4>1, <4>2
    <3>2. CASE j = k + 1 /\ all[j].event = x
      <4>1. i \in 1..k /\ all[i] = out[i] BY <2>6, <2>8, <2>13, <3>2
      <4>2. PICK p \in 1..n : out[i].event = grown[p] BY <2>10, <2>13, <4>1
      <4> QED BY <2>3, <2>9, <3>2, <4>1, <4>2
    <3> QED BY <2>8, <2>13, <3>1, <3>2
  <2>14. FromEvents(grown, all) BY <2>12, <2>13 DEF FromEvents
  <2> QED BY <2>2, <2>3, <2>14 DEF grown
<1> HIDE DEF Good
<1>3. list \in Good BY <1>1, <1>2, InductiveList
<1> QED BY <1>3 DEF Good

-----------------------------------------------------------------------------
(* The watcher of one chain: h is the chain's last block, f the blocks of    *)
(* its epochs, m what the watcher does, s the subscription's logs, p the     *)
(* epochs it is about to send and b its last_block.                          *)

Increasing(s) == \A i, j \in 1..Len(s) : i < j => s[i] < s[j]

Modes == {"connecting", "ws", "lost", "polling", "stopped"}

\* Epochs wait in their order: first those about to be sent, then the logs of
\* the subscription, of which there are none without one.
Watching(h, f, m, s, p, b) ==
    /\ h \in Nat /\ f \in Seq(Nat) /\ m \in Modes /\ b \in Nat
    /\ s \in Seq(1..Len(f)) /\ p \in Seq(1..Len(f))
    /\ Increasing(f) /\ Increasing(s) /\ Increasing(p)
    /\ \A e \in 1..Len(f) : f[e] <= h
    /\ \A i \in 1..Len(p) : \A j \in 1..Len(s) : p[i] < s[j]
    /\ m \notin {"ws", "lost"} => s = << >>
    /\ m = "polling" => \A i \in 1..Len(p) : f[p[i]] <= b

\* The watcher is past epoch e: all that it still has, or will read, is later.
Past(e, f, m, s, p, b) ==
    /\ e \in 1..Len(f)
    /\ \A i \in 1..Len(p) : e < p[i]
    /\ \A j \in 1..Len(s) : e < s[j]
    /\ m = "polling" => f[e] <= b

InLine(c) ==
    Watching(head[c], finalized[c], mode[c], stream[c], pending[c], last_block[c])

\* A chain that reorganised under a subscription is watched out of line, but what
\* is read of it are still epochs.
WatcherOK(c) == c \in reorged \/ InLine(c)

PastEpoch(c, e) ==
    c \in reorged \/ Past(e, finalized[c], mode[c], stream[c], pending[c], last_block[c])

Positive == Nat \ {0}

LogsOK(c) ==
    /\ head[c] \in Nat /\ finalized[c] \in Seq(Nat) /\ last_block[c] \in Nat
    /\ stream[c] \in Seq(Positive) /\ pending[c] \in Seq(Positive)

WatchersOK ==
    /\ DOMAIN head = WatchedChains /\ DOMAIN finalized = WatchedChains
    /\ DOMAIN mode = WatchedChains /\ DOMAIN stream = WatchedChains
    /\ DOMAIN pending = WatchedChains /\ DOMAIN last_block = WatchedChains
    /\ \A c \in WatchedChains : LogsOK(c) /\ WatcherOK(c)

QueuesOK ==
    /\ events \in Seq(Events) /\ batch \in Seq(Events) /\ sent \in Seq(Events)
    /\ outbox \in Seq(Commands) /\ cmds \in Seq(Commands)
    /\ done \in Seq(Commands) /\ earlier \in Seq(Commands)

InOrder(a, b, except) ==
    a.chain = b.chain /\ a.chain \notin except => a.epoch < b.epoch

\* Everything that was sent, or submitted before the restart, is past its
\* watcher and in order.
SentInOrder ==
    /\ \A i \in 1..Len(sent) : PastEpoch(sent[i].chain, sent[i].epoch)
    /\ \A i, j \in 1..Len(sent) : i < j => InOrder(sent[i], sent[j], reorged)
    /\ \A i \in 1..Len(earlier) : ToRegistry(earlier[i]) =>
          /\ PastEpoch(earlier[i].event.chain, earlier[i].event.epoch)
          /\ \A j \in 1..Len(sent) : InOrder(earlier[i].event, sent[j], reorged)
          /\ \A j \in 1..Len(earlier) : i < j /\ ToRegistry(earlier[j]) =>
                InOrder(earlier[i].event, earlier[j].event, reorged)

\* The indices that a loop over a list keeps.
Keeps(q, out) ==
    /\ out \in Seq(Nat) /\ Increasing(out)
    /\ \A k \in 1..Len(out) : out[k] \in 1..Len(q) /\ q[out[k]] = <<out[k]>>

IsFilter(q) == \A i \in 1..Len(q) : q[i] \in {<<i>>, << >>}

LEMMA FilterKeeps ==
    ASSUME NEW q \in Seq(Seq(Nat)), IsFilter(q)
    PROVE  Keeps(q, FlattenSeq(q))
<1> DEFINE Good == {t \in Seq(Seq(Nat)) : IsFilter(t) => Keeps(t, FlattenSeq(t))}
<1>1. << >> \in Good
  <2>1. << >> \in Seq(Seq(Nat)) /\ << >> \in Seq(Nat) /\ Len(<< >>) = 0 BY EmptySeq
  <2>2. \A i \in 1..0 : FALSE OBVIOUS
  <2>3. Keeps(<< >>, << >>) BY <2>1, <2>2 DEF Keeps, Increasing
  <2> QED BY <2>1, <2>3, FlattenEmpty
<1>2. ASSUME NEW t \in Seq(Seq(Nat)), NEW x \in Seq(Nat), t \in Good
      PROVE  Append(t, x) \in Good
  <2> DEFINE u == Append(t, x)  n == Len(t)  out == FlattenSeq(t)
  <2>1. /\ u \in Seq(Seq(Nat)) /\ Len(u) = n + 1 /\ u[n + 1] = x
        /\ \A i \in 1..n : u[i] = t[i]
    BY AppendProperties
  <2>2. n \in Nat BY LenProperties
  <2>3. FlattenSeq(u) = out \o x BY FlattenSnoc
  <2>i. \A i \in 1..n : i \in 1..(n + 1) BY <2>2
  <2> SUFFICES ASSUME IsFilter(u) PROVE Keeps(u, out \o x)
    BY <2>1, <2>3
  <2>4. IsFilter(t) /\ x \in {<<n + 1>>, << >>}
    <3>1. n + 1 \in 1..(n + 1) BY <2>2
    <3> HIDE DEF u, n
    <3>2. \A i \in 1..n : t[i] \in {<<i>>, << >>} BY <2>1, <2>i DEF IsFilter
    <3>3. x \in {<<n + 1>>, << >>} BY <2>1, <3>1 DEF IsFilter
    <3> QED BY <3>2, <3>3 DEF IsFilter, n
  <2>5. Keeps(t, out) BY <1>2, <2>4
  <2> HIDE DEF u, out
  <2>6. /\ out \in Seq(Nat) /\ Len(out) \in Nat /\ Increasing(out)
        /\ \A k \in 1..Len(out) : out[k] \in 1..n /\ u[out[k]] = <<out[k]>>
    <3>1. \A k \in 1..Len(out) : out[k] \in 1..n /\ t[out[k]] = <<out[k]>>
      BY <2>5 DEF Keeps
    <3> QED BY <2>1, <2>5, <3>1, LenProperties DEF Keeps
  <2> HIDE DEF n
  <2>7. CASE x = << >>
    <3>1. out \o x = out BY <2>6, <2>7, ConcatEmptySeq
    <3> QED BY <2>1, <2>6, <2>i, <3>1 DEF Keeps
  <2>8. CASE x = <<n + 1>>
    <3> DEFINE all == Append(out, n + 1)
    <3>1. out \o x = all BY <2>2, <2>6, <2>8, AppendIsConcat
    <3>2. /\ all \in Seq(Nat) /\ Len(all) = Len(out) + 1 /\ all[Len(out) + 1] = n + 1
          /\ \A k \in 1..Len(out) : all[k] = out[k]
      BY <2>2, <2>6, AppendProperties
    <3> HIDE DEF all
    <3>3. \A k \in 1..Len(all) : k \in 1..Len(out) \/ k = Len(out) + 1 BY <2>6, <3>2
    <3>4. \A k \in 1..Len(all) : all[k] \in 1..(n + 1) /\ u[all[k]] = <<all[k]>>
      <4>1. n + 1 \in 1..(n + 1) BY <2>2
      <4> QED BY <2>1, <2>6, <2>8, <2>i, <3>2, <3>3, <4>1
    <3>5. Increasing(all)
      <4>1. \A k \in 1..Len(out) : out[k] < n + 1 BY <2>2, <2>6
      <4>2. ASSUME NEW i \in 1..Len(all), NEW j \in 1..Len(all), i < j
            PROVE  all[i] < all[j]
        <5>1. i \in 1..Len(out) BY <2>6, <3>2, <4>2
        <5>2. CASE j \in 1..Len(out)
          <6>1. out[i] < out[j] BY <2>6, <4>2, <5>1, <5>2 DEF Increasing
          <6> QED BY <3>2, <5>1, <5>2, <6>1
        <5>3. CASE j = Len(out) + 1
          <6>1. all[i] = out[i] /\ all[j] = n + 1 BY <3>2, <5>1, <5>3
          <6> QED BY <4>1, <5>1, <6>1
        <5> QED BY <3>3, <5>2, <5>3
      <4> QED BY <4>2 DEF Increasing
    <3> QED BY <2>1, <3>1, <3>2, <3>4, <3>5 DEF Keeps
  <2> QED BY <2>4, <2>7, <2>8
<1> HIDE DEF Good
<1>3. q \in Good BY <1>1, <1>2, InductiveList
<1> QED BY <1>3 DEF Good

LEMMA ConfirmedLogs ==
    ASSUME NEW c, finalized[c] \in Seq(Nat), NEW from \in Nat, NEW to \in Nat
    PROVE  /\ confirmed_logs(c, from, to) \in Seq(1..Len(finalized[c]))
           /\ Increasing(confirmed_logs(c, from, to))
           /\ \A k \in 1..Len(confirmed_logs(c, from, to)) :
                 finalized[c][confirmed_logs(c, from, to)[k]] \in (from + 1)..to
<1> DEFINE f == finalized[c]
           keep(e) == f[e] \in (from + 1)..to /\ to - f[e] >= confirmation_blocks
           q == [e \in 1..Len(f) |-> IF keep(e) THEN <<e>> ELSE << >>]
           out == confirmed_logs(c, from, to)
<1>1. out = FlattenSeq(q) BY DEF confirmed_logs
<1>2. Len(f) \in Nat BY LenProperties
<1>3. q \in Seq(Seq(Nat)) /\ Len(q) = Len(f)
      /\ \A e \in 1..Len(f) : q[e] = IF keep(e) THEN <<e>> ELSE << >>
  <2> HIDE DEF keep, f
  <2>1. \A e \in 1..Len(f) : q[e] = IF keep(e) THEN <<e>> ELSE << >> OBVIOUS
  <2>2. \A e \in 1..Len(f) : (IF keep(e) THEN <<e>> ELSE << >>) \in Seq(Nat)
    <3>1. \A e \in Nat : <<e>> \in Seq(Nat) OBVIOUS
    <3>2. << >> \in Seq(Nat) OBVIOUS
    <3>3. \A e \in 1..Len(f) : e \in Nat BY <1>2
    <3> QED BY <3>1, <3>2, <3>3, Zenon
  <2>3. q \in [1..Len(f) -> Seq(Nat)] BY <2>2
  <2> DEFINE T == Seq(Nat)
  <2> HIDE DEF q, T
  <2>4. q \in Seq(T) /\ Len(q) = Len(f) BY <1>2, <2>3 DEF T
  <2> QED BY <2>1, <2>4 DEF T, q
<1> HIDE DEF q
<1>4. IsFilter(q)
  <2> HIDE DEF keep
  <2> QED BY <1>3 DEF IsFilter
<1>5. Keeps(q, FlattenSeq(q)) BY <1>3, <1>4, FilterKeeps
<1>6. Keeps(q, out) BY <1>1, <1>5
<1> HIDE DEF out
<1>7. ASSUME NEW k \in 1..Len(out) PROVE out[k] \in 1..Len(f) /\ f[out[k]] \in (from + 1)..to
  <2>1. out[k] \in 1..Len(f) /\ q[out[k]] = <<out[k]>> BY <1>3, <1>6 DEF Keeps
  <2>2. keep(out[k])
    <3> HIDE DEF keep
    <3>1. \A e : <<e>> # << >> OBVIOUS
    <3> QED BY <1>3, <2>1, <3>1
  <2> QED BY <2>1, <2>2
<1>8. out \in Seq(1..Len(f))
  <2>1. out \in Seq(Nat) BY <1>6 DEF Keeps
  <2>2. Len(out) \in Nat /\ out \in [1..Len(out) -> Nat] BY <2>1, LenProperties
  <2> DEFINE T == 1..Len(f)
  <2>3. \A k \in 1..Len(out) : out[k] \in T BY <1>7
  <2> HIDE DEF T
  <2>4. out \in [1..Len(out) -> T] BY <2>2, <2>3
  <2>5. out \in Seq(T) BY <2>2, <2>4
  <2> QED BY <2>5 DEF T
<1> QED BY <1>6, <1>7, <1>8 DEF Keeps, out

\* A watched chain and its watcher change together.
Onward(h, f, m, s, p, b, h2, f2, m2, s2, p2, b2) ==
    /\ Watching(h2, f2, m2, s2, p2, b2)
    /\ \A e : Past(e, f, m, s, p, b) => Past(e, f2, m2, s2, p2, b2)

LEMMA OnwardBlock ==
    ASSUME NEW h, NEW f, NEW m, NEW s, NEW p, NEW b, Watching(h, f, m, s, p, b)
    PROVE  Onward(h, f, m, s, p, b, h + 1, f, m, s, p, b)
<1>1. h \in Nat /\ f \in Seq(Nat) BY DEF Watching
<1>2. \A e \in 1..Len(f) : f[e] \in Nat /\ f[e] <= h BY <1>1 DEF Watching
<1>3. \A e \in 1..Len(f) : f[e] <= h + 1 BY <1>1, <1>2
<1>4. h + 1 \in Nat BY <1>1
<1> QED BY <1>3, <1>4 DEF Onward, Watching

LEMMA OnwardFinalize ==
    ASSUME NEW h, NEW f, NEW m, NEW s, NEW p, NEW b, Watching(h, f, m, s, p, b),
           NEW s2, s2 = IF m = "ws" THEN Append(s, Len(f) + 1) ELSE s
    PROVE  Onward(h, f, m, s, p, b, h + 1, Append(f, h + 1), m, s2, p, b)
<1> DEFINE n == Len(f)  g == Append(f, h + 1)
<1>1. /\ h \in Nat /\ f \in Seq(Nat) /\ s \in Seq(1..n) /\ p \in Seq(1..n)
      /\ Increasing(f) /\ Increasing(s) /\ Increasing(p)
      /\ \A e \in 1..n : f[e] <= h
      /\ m \in Modes /\ b \in Nat
      /\ \A i \in 1..Len(p) : \A j \in 1..Len(s) : p[i] < s[j]
      /\ m \notin {"ws", "lost"} => s = << >>
      /\ m = "polling" => \A i \in 1..Len(p) : f[p[i]] <= b
  BY DEF Watching
<1>2. /\ n \in Nat /\ Len(s) \in Nat /\ Len(p) \in Nat
      /\ \A j \in 1..Len(s) : s[j] \in 1..n
      /\ \A i \in 1..Len(p) : p[i] \in 1..n
      /\ \A e \in 1..n : f[e] \in Nat
  BY <1>1, LenProperties, ElementOfSeq
<1>3. g \in Seq(Nat) /\ Len(g) = n + 1 /\ g[n + 1] = h + 1 /\ \A e \in 1..n : g[e] = f[e]
  BY <1>1, AppendProperties
<1> HIDE DEF n, g
<1>f. h \in Nat /\ \A e \in 1..n : f[e] < h + 1 /\ f[e] <= h + 1
  <2>1. ASSUME NEW e \in 1..n PROVE f[e] < h + 1 /\ f[e] <= h + 1
    <3>1. f[e] \in Nat /\ f[e] <= h /\ h \in Nat BY <1>1, <1>2
    <3> QED BY <3>1
  <2> QED BY <1>1, <2>1
<1>i. 1..n \subseteq 1..(n + 1) /\ n + 1 \in 1..(n + 1) BY <1>2
<1>4. p \in Seq(1..(n + 1)) /\ s \in Seq(1..(n + 1)) BY <1>1, <1>i, SeqMonotonic
<1>5. Increasing(g)
  <2>1. ASSUME NEW i \in 1..Len(g), NEW j \in 1..Len(g), i < j PROVE g[i] < g[j]
    <3>1. i \in 1..n BY <1>2, <1>3, <2>1
    <3>2. CASE j \in 1..n
      <4>1. f[i] < f[j] BY <1>1, <2>1, <3>1, <3>2 DEF Increasing, n
      <4> QED BY <1>3, <3>1, <3>2, <4>1
    <3>3. CASE j = n + 1 BY <1>f, <1>3, <3>1, <3>3
    <3> QED BY <1>2, <1>3, <3>2, <3>3
  <2> QED BY <2>1 DEF Increasing
<1>6. \A e \in 1..Len(g) : g[e] <= h + 1
  <2>1. \A e \in 1..(n + 1) : e \in 1..n \/ e = n + 1 BY <1>2
  <2>2. h + 1 <= h + 1 BY <1>f
  <2> QED BY <1>f, <1>3, <2>1, <2>2
<1>7. m = "polling" => \A i \in 1..Len(p) : g[p[i]] <= b BY <1>1, <1>2, <1>3
<1>8. /\ s2 \in Seq(1..(n + 1)) /\ Increasing(s2)
      /\ m \notin {"ws", "lost"} => s2 = << >>
      /\ \A j \in 1..Len(s2) : s2[j] = n + 1 \/ (j \in 1..Len(s) /\ s2[j] = s[j])
  <2>1. CASE m # "ws"
    <3>1. s2 = s BY <2>1
    <3> QED BY <1>1, <1>4, <2>1, <3>1
  <2>2. CASE m = "ws"
    <3>1. s2 = Append(s, n + 1) BY <2>2 DEF n
    <3>2. /\ s2 \in Seq(1..(n + 1)) /\ Len(s2) = Len(s) + 1 /\ s2[Len(s) + 1] = n + 1
          /\ \A j \in 1..Len(s) : s2[j] = s[j]
      <4> DEFINE T == 1..(n + 1)
      <4>1. s \in Seq(T) /\ n + 1 \in T BY <1>4, <1>i
      <4> HIDE DEF T
      <4>2. /\ Append(s, n + 1) \in Seq(T) /\ Len(Append(s, n + 1)) = Len(s) + 1
            /\ Append(s, n + 1)[Len(s) + 1] = n + 1
            /\ \A j \in 1..Len(s) : Append(s, n + 1)[j] = s[j]
        BY <4>1, AppendProperties
      <4> QED BY <3>1, <4>2 DEF T
    <3>3. \A j \in 1..Len(s2) : j \in 1..Len(s) \/ j = Len(s) + 1 BY <1>2, <3>2
    <3>6. ASSUME NEW j \in 1..Len(s2) PROVE s2[j] = n + 1 \/ (j \in 1..Len(s) /\ s2[j] = s[j])
      <4>1. CASE j \in 1..Len(s) BY <3>2, <4>1
      <4>2. CASE j = Len(s) + 1 BY <3>2, <4>2
      <4> QED BY <3>3, <4>1, <4>2
    <3>4. ASSUME NEW i \in 1..Len(s2), NEW j \in 1..Len(s2), i < j PROVE s2[i] < s2[j]
      <4>1. i \in 1..Len(s) BY <1>2, <3>2, <3>4
      <4>2. CASE j \in 1..Len(s)
        <5>1. s[i] < s[j] BY <1>1, <3>4, <4>1, <4>2 DEF Increasing
        <5> QED BY <3>2, <4>1, <4>2, <5>1
      <4>3. CASE j = Len(s) + 1
        <5>1. s[i] < n + 1 BY <1>2, <4>1
        <5> QED BY <3>2, <4>1, <4>3, <5>1
      <4> QED BY <3>3, <4>2, <4>3
    <3>5. Increasing(s2) BY <3>4 DEF Increasing
    <3> QED BY <2>2, <3>2, <3>5, <3>6
  <2> QED BY <2>1, <2>2
<1>9. \A i \in 1..Len(p) : \A j \in 1..Len(s2) : p[i] < s2[j]
  <2>1. \A i \in 1..Len(p) : p[i] < n + 1 BY <1>2
  <2> QED BY <1>1, <1>8, <2>1
<1>10. h + 1 \in Nat BY <1>1
<1>11. Watching(h + 1, g, m, s2, p, b)
  BY <1>1, <1>3, <1>4, <1>5, <1>6, <1>7, <1>8, <1>9, <1>10 DEF Watching
<1>12. ASSUME NEW e, Past(e, f, m, s, p, b) PROVE Past(e, g, m, s2, p, b)
  <2>1. /\ e \in 1..n /\ \A i \in 1..Len(p) : e < p[i]
        /\ \A j \in 1..Len(s) : e < s[j]
        /\ m = "polling" => f[e] <= b
    BY <1>12 DEF Past, n
  <2>2. e \in 1..(n + 1) /\ e < n + 1 BY <1>2, <2>1
  <2>3. \A j \in 1..Len(s2) : e < s2[j] BY <1>8, <2>1, <2>2
  <2>4. m = "polling" => g[e] <= b BY <1>3, <2>1, <1>12 DEF Past
  <2> QED BY <1>3, <2>1, <2>2, <2>3, <2>4 DEF Past
<1> QED BY <1>11, <1>12 DEF Onward, g

\* Connecting, falling back, the loss and the end of a subscription, and a restart.
LEMMA OnwardMode ==
    ASSUME NEW h, NEW f, NEW m, NEW s, NEW p, NEW b, Watching(h, f, m, s, p, b)
    PROVE  /\ m = "connecting" => Onward(h, f, m, s, p, b, h, f, "ws", s, p, b)
           /\ m = "connecting" => Onward(h, f, m, s, p, b, h, f, "polling", s, p, h)
           /\ m = "connecting" => Onward(h, f, m, s, p, b, h, f, "stopped", s, p, b)
           /\ m = "ws" => Onward(h, f, m, s, p, b, h, f, "lost", s, p, b)
           /\ s = << >> => Onward(h, f, m, s, p, b, h, f, "stopped", s, p, b)
           /\ Onward(h, f, m, s, p, b, h, f, "connecting", << >>, << >>, 0)
<1>1. /\ h \in Nat /\ f \in Seq(Nat) /\ s \in Seq(1..Len(f)) /\ p \in Seq(1..Len(f))
      /\ Increasing(f) /\ Increasing(s) /\ Increasing(p)
      /\ \A e \in 1..Len(f) : f[e] <= h
      /\ b \in Nat
      /\ m \notin {"ws", "lost"} => s = << >>
      /\ \A i \in 1..Len(p) : \A j \in 1..Len(s) : p[i] < s[j]
  BY DEF Watching
<1>2. \A i \in 1..Len(p) : p[i] \in 1..Len(f) BY <1>1, ElementOfSeq
<1>3. \A i \in 1..Len(p) : f[p[i]] <= h BY <1>1, <1>2
<1>4. \A k : k \in 1..Len(<< >>) => FALSE BY EmptySeq
<1>5. << >> \in Seq(1..Len(f)) /\ Increasing(<< >>) BY <1>4, EmptySeq DEF Increasing
<1>6. Modes = {"ws", "lost", "polling", "stopped", "connecting"} /\ 0 \in Nat BY DEF Modes
<1>8. m = "connecting" => Onward(h, f, m, s, p, b, h, f, "ws", s, p, b)
  BY <1>1, <1>6 DEF Onward, Watching, Past
<1>9. m = "connecting" => Onward(h, f, m, s, p, b, h, f, "polling", s, p, h)
  BY <1>1, <1>3, <1>6 DEF Onward, Watching, Past
<1>10. m = "ws" => Onward(h, f, m, s, p, b, h, f, "lost", s, p, b)
  BY <1>1, <1>6 DEF Onward, Watching, Past
<1>11. s = << >> => Onward(h, f, m, s, p, b, h, f, "stopped", s, p, b)
  BY <1>1, <1>6 DEF Onward, Watching, Past
<1>12. Onward(h, f, m, s, p, b, h, f, "connecting", << >>, << >>, 0)
  BY <1>1, <1>4, <1>5, <1>6 DEF Onward, Watching, Past
<1>13. m = "connecting" => s = << >> BY <1>1
<1> QED BY <1>8, <1>9, <1>10, <1>11, <1>12, <1>13

LEMMA OnwardReceive ==
    ASSUME NEW h, NEW f, NEW m \in {"ws", "lost"}, NEW s, NEW p, NEW b,
           Watching(h, f, m, s, p, b), p = << >>, s # << >>
    PROVE  Onward(h, f, m, s, p, b, h, f, m, Tail(s), <<Head(s)>>, b)
<1> DEFINE T == 1..Len(f)  q == <<Head(s)>>  r == Tail(s)
<1>1. /\ h \in Nat /\ f \in Seq(Nat) /\ s \in Seq(T) /\ Increasing(f) /\ Increasing(s)
      /\ \A e \in 1..Len(f) : f[e] <= h
      /\ m \in Modes /\ b \in Nat
  BY DEF Watching
<1>2. Len(f) \in Nat /\ Len(s) \in Nat BY <1>1, LenProperties
<1>3. /\ Head(s) \in T /\ r \in Seq(T) /\ Len(r) = Len(s) - 1 /\ Head(s) = s[1]
      /\ \A j \in 1..Len(r) : r[j] = s[j + 1]
  <2> HIDE DEF T
  <2>1. Head(s) = s[1] BY <1>1
  <2> QED BY <1>1, <2>1, HeadTailProperties
<1>4. q \in Seq(T) /\ Len(q) = 1 /\ q[1] = s[1] /\ 1 \in 1..Len(q)
  <2> HIDE DEF T
  <2> QED BY <1>3
<1> HIDE DEF q, r
<1>5. \A j \in 1..Len(r) : j + 1 \in 1..Len(s) /\ 1 < j + 1 /\ 1 \in 1..Len(s) BY <1>2, <1>3
<1>6. \A j \in 1..Len(r) : s[1] < r[j] BY <1>1, <1>3, <1>5 DEF Increasing
<1>7. \A i \in 1..Len(q) : i = 1 BY <1>4
<1>8. Increasing(q) BY <1>7 DEF Increasing
<1>9. Increasing(r)
  <2>1. ASSUME NEW i \in 1..Len(r), NEW j \in 1..Len(r), i < j PROVE r[i] < r[j]
    <3>1. i + 1 < j + 1 BY <1>2, <1>3, <2>1
    <3> QED BY <1>1, <1>3, <1>5, <3>1 DEF Increasing
  <2> QED BY <2>1 DEF Increasing
<1>10. \A i \in 1..Len(q) : \A j \in 1..Len(r) : q[i] < r[j] BY <1>4, <1>6, <1>7
<1>11. m # "polling" OBVIOUS
<1>12. Watching(h, f, m, r, q, b)
  BY <1>1, <1>3, <1>4, <1>8, <1>9, <1>10, <1>11 DEF Watching
<1>13. ASSUME NEW e, Past(e, f, m, s, p, b) PROVE Past(e, f, m, r, q, b)
  <2>1. e \in 1..Len(f) /\ \A j \in 1..Len(s) : e < s[j] BY <1>13 DEF Past
  <2>2. 1 \in 1..Len(s) BY <1>2, EmptySeq, <1>1
  <2>3. \A i \in 1..Len(q) : e < q[i] BY <1>4, <1>7, <2>1, <2>2
  <2>4. \A j \in 1..Len(r) : e < r[j] BY <1>3, <1>5, <2>1
  <2> QED BY <1>11, <2>1, <2>3, <2>4 DEF Past
<1> QED BY <1>12, <1>13 DEF Onward, q, r

\* A poll reads only events of blocks after last_block: later epochs than all
\* that were read before.
LEMMA OnwardPoll ==
    ASSUME NEW h, NEW f, NEW s, NEW p, NEW b, Watching(h, f, "polling", s, p, b),
           p = << >>, h > b, NEW q, q \in Seq(1..Len(f)), Increasing(q),
           \A k \in 1..Len(q) : f[q[k]] \in (b + 1)..h
    PROVE  Onward(h, f, "polling", s, p, b, h, f, "polling", s, q, h)
<1>1. /\ h \in Nat /\ f \in Seq(Nat) /\ Increasing(f) /\ s = << >>
      /\ \A e \in 1..Len(f) : f[e] <= h
      /\ "polling" \in Modes /\ b \in Nat
  BY DEF Watching
<1>2. Len(f) \in Nat /\ Len(q) \in Nat /\ \A k \in 1..Len(q) : q[k] \in 1..Len(f)
  BY <1>1, LenProperties, ElementOfSeq
<1>3. \A k : k \in 1..Len(s) => FALSE BY <1>1, EmptySeq
<1>4. \A k \in 1..Len(q) : f[q[k]] <= h BY <1>1, <1>2
<1>5. "polling" \notin {"ws", "lost"} OBVIOUS
<1>6. s \in Seq(1..Len(f)) /\ Increasing(s) BY DEF Watching
<1>7. Watching(h, f, "polling", s, q, h)
  BY <1>1, <1>3, <1>4, <1>5, <1>6 DEF Watching
<1>8. ASSUME NEW e, Past(e, f, "polling", s, p, b) PROVE Past(e, f, "polling", s, q, h)
  <2>1. e \in 1..Len(f) /\ f[e] <= b BY <1>8 DEF Past
  <2>2. ASSUME NEW k \in 1..Len(q) PROVE e < q[k]
    <3>1. f[q[k]] \in Nat /\ f[e] \in Nat BY <1>1, <1>2, <2>1, ElementOfSeq
    <3>2. f[q[k]] >= b + 1 OBVIOUS
    <3>b. b \in Nat /\ f[e] <= b BY <1>1, <2>1
    <3>3. f[e] < f[q[k]] BY <3>1, <3>2, <3>b
    <3>4. q[k] \in 1..Len(f) BY <1>2
    <3>5. q[k] # e BY <3>1, <3>3
    <3>6. ~ (q[k] < e)
      <4> SUFFICES ASSUME q[k] < e PROVE FALSE
        OBVIOUS
      <4>1. f[q[k]] < f[e] BY <1>1, <2>1, <3>4 DEF Increasing
      <4> QED BY <3>1, <3>3, <4>1
    <3> QED BY <1>2, <2>1, <3>4, <3>5, <3>6
  <2>3. f[e] <= h BY <1>1, <2>1
  <2> QED BY <1>3, <2>1, <2>2, <2>3 DEF Past
<1> QED BY <1>7, <1>8 DEF Onward

LEMMA OnwardSend ==
    ASSUME NEW h, NEW f, NEW m, NEW s, NEW p, NEW b, Watching(h, f, m, s, p, b), p # << >>
    PROVE  /\ Onward(h, f, m, s, p, b, h, f, m, s, Tail(p), b)
           /\ Head(p) \in 1..Len(f)
           /\ Past(Head(p), f, m, s, Tail(p), b)
           /\ \A e : Past(e, f, m, s, p, b) => e < Head(p)
<1> DEFINE T == 1..Len(f)  r == Tail(p)
<1>1. /\ h \in Nat /\ f \in Seq(Nat) /\ p \in Seq(T) /\ s \in Seq(T)
      /\ Increasing(f) /\ Increasing(s) /\ Increasing(p)
      /\ \A e \in 1..Len(f) : f[e] <= h
      /\ m \in Modes /\ b \in Nat
      /\ \A i \in 1..Len(p) : \A j \in 1..Len(s) : p[i] < s[j]
      /\ m \notin {"ws", "lost"} => s = << >>
      /\ m = "polling" => \A i \in 1..Len(p) : f[p[i]] <= b
  BY DEF Watching
<1>2. Len(f) \in Nat /\ Len(p) \in Nat BY <1>1, LenProperties
<1>3. /\ Head(p) \in T /\ r \in Seq(T) /\ Len(r) = Len(p) - 1 /\ Head(p) = p[1]
      /\ \A j \in 1..Len(r) : r[j] = p[j + 1]
  <2> HIDE DEF T
  <2>1. Head(p) = p[1] BY <1>1
  <2> QED BY <1>1, <2>1, HeadTailProperties
<1> HIDE DEF r
<1>4. 1 \in 1..Len(p) BY <1>1, <1>2, EmptySeq
<1>5. \A j \in 1..Len(r) : j + 1 \in 1..Len(p) /\ 1 < j + 1 BY <1>2, <1>3
<1>6. \A j \in 1..Len(r) : p[1] < r[j] BY <1>1, <1>3, <1>4, <1>5 DEF Increasing
<1>7. Increasing(r)
  <2>1. ASSUME NEW i \in 1..Len(r), NEW j \in 1..Len(r), i < j PROVE r[i] < r[j]
    <3>1. i + 1 < j + 1 BY <1>2, <1>3, <2>1
    <3> QED BY <1>1, <1>3, <1>5, <3>1 DEF Increasing
  <2> QED BY <2>1 DEF Increasing
<1>8. \A i \in 1..Len(r) : \A j \in 1..Len(s) : r[i] < s[j] BY <1>1, <1>3, <1>5
<1>9. m = "polling" => \A i \in 1..Len(r) : f[r[i]] <= b BY <1>1, <1>3, <1>5
<1>10. Watching(h, f, m, s, r, b) BY <1>1, <1>3, <1>7, <1>8, <1>9 DEF Watching
<1>11. ASSUME NEW e, Past(e, f, m, s, p, b) PROVE Past(e, f, m, s, r, b) /\ e < Head(p)
  <2>1. \A i \in 1..Len(p) : e < p[i] BY <1>11 DEF Past
  <2>2. \A i \in 1..Len(r) : e < r[i] BY <1>3, <1>5, <2>1
  <2>3. e < Head(p) BY <1>3, <1>4, <2>1
  <2> QED BY <1>11, <2>2, <2>3 DEF Past
<1>12. Past(Head(p), f, m, s, r, b)
  <2>1. \A j \in 1..Len(s) : Head(p) < s[j] BY <1>1, <1>3, <1>4
  <2>2. m = "polling" => f[Head(p)] <= b BY <1>1, <1>3, <1>4
  <2> QED BY <1>3, <1>6, <2>1, <2>2 DEF Past
<1> QED BY <1>3, <1>10, <1>11, <1>12 DEF Onward, r

-----------------------------------------------------------------------------
(* Steps of the watchers. *)

Stays(c) ==
    /\ head'[c] = head[c] /\ finalized'[c] = finalized[c] /\ mode'[c] = mode[c]
    /\ stream'[c] = stream[c] /\ pending'[c] = pending[c] /\ last_block'[c] = last_block[c]

Moves(c) == Onward(head[c], finalized[c], mode[c], stream[c], pending[c], last_block[c],
                   head'[c], finalized'[c], mode'[c], stream'[c], pending'[c], last_block'[c])

Goes(c) == LogsOK(c)' /\ (c \in reorged' \/ Moves(c))

SameDomains ==
    /\ DOMAIN head' = DOMAIN head /\ DOMAIN finalized' = DOMAIN finalized
    /\ DOMAIN mode' = DOMAIN mode /\ DOMAIN stream' = DOMAIN stream
    /\ DOMAIN pending' = DOMAIN pending /\ DOMAIN last_block' = DOMAIN last_block

\* No watcher goes back to an epoch that it is past.
PastStays == \A c \in WatchedChains : \A e : PastEpoch(c, e) => PastEpoch(c, e)'

LEMMA WatchersMove ==
    ASSUME WatchersOK, SameDomains, reorged \subseteq reorged',
           \A c \in WatchedChains : Stays(c) \/ Goes(c)
    PROVE  WatchersOK' /\ PastStays
<1>1. ASSUME NEW c \in WatchedChains
      PROVE  LogsOK(c)' /\ WatcherOK(c)' /\ \A e : PastEpoch(c, e) => PastEpoch(c, e)'
  <2>1. LogsOK(c) /\ WatcherOK(c) BY DEF WatchersOK
  <2>2. CASE Stays(c) BY <2>1, <2>2 DEF Stays, LogsOK, WatcherOK, InLine, PastEpoch
  <2>3. CASE LogsOK(c)' /\ c \in reorged' BY <2>3 DEF WatcherOK, PastEpoch
  <2>4. CASE LogsOK(c)' /\ Moves(c) BY <2>4 DEF Moves, Onward, WatcherOK, InLine, PastEpoch
  <2> QED BY <2>2, <2>3, <2>4 DEF Goes
<1>2. WatchersOK' BY <1>1 DEF WatchersOK, SameDomains
<1> QED BY <1>1, <1>2 DEF PastStays

\* What a step of one chain and its watcher does to all of them.
OneMoves(c) ==
    /\ SameDomains /\ reorged \subseteq reorged'
    /\ \A d \in WatchedChains : Stays(d) \/ Goes(d)

\* It is enough to look at a chain in line.
LEMMA OnlyInLine ==
    ASSUME WatchersOK, NEW c \in WatchedChains, SameDomains, reorged' = reorged,
           LogsOK(c)', InLine(c) => Moves(c),
           \A d \in WatchedChains : d # c => Stays(d)
    PROVE  OneMoves(c)
<1>1. WatcherOK(c) BY DEF WatchersOK
<1>2. Goes(c) BY <1>1 DEF Goes, WatcherOK
<1> QED BY <1>2 DEF OneMoves

\* The steps of one chain and its watcher, but for the sending of an event.
Watches(c) ==
    \/ ChainStep(c) \/ Connect(c) \/ FallBack(c) \/ ConnectionLost(c) \/ StreamEnds(c)
    \/ Receive(c) \/ wait_for_confirmations(c) \/ Poll(c)

LEMMA BlockMoves ==
    ASSUME WatchersOK, NEW c \in WatchedChains, Block(c)
    PROVE  OneMoves(c)
<1>1. /\ c \in DOMAIN head /\ c \in DOMAIN finalized /\ c \in DOMAIN stream BY DEF WatchersOK
<1>2. /\ head' = [head EXCEPT ![c] = @ + 1]
      /\ UNCHANGED <<reorged, mode, pending, last_block>>
  BY DEF Block
<1>3. LogsOK(c) BY DEF WatchersOK
<1> DEFINE h == head[c]  f == finalized[c]  m == mode[c]  s == stream[c]
           p == pending[c]  b == last_block[c]
<1>4. h \in Nat /\ h + 1 \in Nat /\ f \in Seq(Nat) /\ s \in Seq(Positive) BY <1>3 DEF LogsOK
<1>5. CASE UNCHANGED <<finalized, stream>>
  <2>1. ASSUME InLine(c) PROVE Moves(c)
    <3>1. Watching(h, f, m, s, p, b) BY <2>1 DEF InLine
    <3>2. Onward(h, f, m, s, p, b, h + 1, f, m, s, p, b)
      <4> HIDE DEF h, f, m, s, p, b
      <4> QED BY <3>1, OnwardBlock
    <3> QED BY <1>1, <1>2, <1>5, <3>2 DEF Moves
  <2>2. LogsOK(c)' BY <1>1, <1>2, <1>3, <1>4, <1>5 DEF LogsOK
  <2>3. \A d \in WatchedChains : d # c => Stays(d) BY <1>1, <1>2, <1>5 DEF Stays
  <2>4. SameDomains BY <1>1, <1>2, <1>5 DEF SameDomains
  <2> QED BY <1>2, <2>1, <2>2, <2>3, <2>4, OnlyInLine
<1>6. CASE /\ finalized' = [finalized EXCEPT ![c] = Append(@, head[c] + 1)]
           /\ stream' = IF mode[c] = "ws"
                        THEN [stream EXCEPT ![c] = Append(@, Len(finalized[c]) + 1)]
                        ELSE stream
  <2> DEFINE s2 == IF m = "ws" THEN Append(s, Len(f) + 1) ELSE s
  <2>2. /\ stream'[c] = s2 /\ DOMAIN stream' = DOMAIN stream
        /\ \A d \in WatchedChains : d # c => stream'[d] = stream[d]
    BY <1>1, <1>6
  <2>3. /\ finalized'[c] = Append(f, h + 1) /\ DOMAIN finalized' = DOMAIN finalized
        /\ \A d \in WatchedChains : d # c => finalized'[d] = finalized[d]
    BY <1>1, <1>6
  <2>4. ASSUME InLine(c) PROVE Moves(c)
    <3>1. Watching(h, f, m, s, p, b) BY <2>4 DEF InLine
    <3>2. Onward(h, f, m, s, p, b, h + 1, Append(f, h + 1), m, s2, p, b)
      <4> HIDE DEF h, f, m, s, p, b
      <4> QED BY <3>1, OnwardFinalize
    <3> QED BY <1>1, <1>2, <2>2, <2>3, <3>2 DEF Moves
  <2>5. \A d \in WatchedChains : d # c => Stays(d) BY <1>1, <1>2, <2>2, <2>3 DEF Stays
  <2>6. SameDomains BY <1>1, <1>2, <2>2, <2>3 DEF SameDomains
  <2>7. s2 \in Seq(Positive)
    <3>1. Len(f) + 1 \in Positive BY <1>4, LenProperties DEF Positive
    <3> HIDE DEF s, f
    <3> QED BY <1>4, <3>1, AppendProperties
  <2>8. Append(f, h + 1) \in Seq(Nat)
    <3> HIDE DEF f, h
    <3> QED BY <1>4, AppendProperties
  <2>9. LogsOK(c)'
    <3> HIDE DEF s2
    <3> QED BY <1>1, <1>2, <1>3, <1>4, <2>2, <2>3, <2>7, <2>8 DEF LogsOK
  <2> QED BY <1>2, <2>4, <2>5, <2>6, <2>9, OnlyInLine
<1> QED BY <1>5, <1>6 DEF Block

LEMMA ReorgMoves ==
    ASSUME WatchersOK, NEW c \in WatchedChains, NEW e \in 1..Len(finalized[c]), Reorg(c, e)
    PROVE  OneMoves(c)
<1> DEFINE n == Len(finalized[c]) + 1 - e
           again == [i \in 1..n |-> e + i - 1]
           s == stream[c] \o again \o again
<1>1. c \in DOMAIN stream /\ LogsOK(c) BY DEF WatchersOK
<1>2. /\ reorged' = reorged \cup {c} /\ stream' = [stream EXCEPT ![c] = s]
      /\ UNCHANGED <<head, finalized, mode, pending, last_block>>
  BY <1>1 DEF Reorg
<1>3. Len(finalized[c]) \in Nat BY <1>1, LenProperties DEF LogsOK
<1>4. n \in Nat /\ \A i \in 1..n : e + i - 1 \in Positive BY <1>3 DEF Positive
<1>5. again \in Seq(Positive)
  <2> HIDE DEF n
  <2>1. again \in [1..n -> Positive] BY <1>4
  <2> HIDE DEF again
  <2> QED BY <1>4, <2>1
<1>6. s \in Seq(Positive)
  <2> HIDE DEF again
  <2>1. stream[c] \o again \in Seq(Positive) BY <1>1, <1>5, ConcatProperties DEF LogsOK
  <2> QED BY <1>5, <2>1, ConcatProperties
<1> HIDE DEF s
<1>7. Goes(c) BY <1>1, <1>2, <1>6 DEF Goes, LogsOK
<1>8. SameDomains /\ \A d \in WatchedChains : d # c => Stays(d)
  BY <1>1, <1>2 DEF SameDomains, Stays
<1> QED BY <1>2, <1>7, <1>8 DEF OneMoves

LEMMA ModeMoves ==
    ASSUME WatchersOK, NEW c \in WatchedChains,
           Connect(c) \/ FallBack(c) \/ ConnectionLost(c) \/ StreamEnds(c)
    PROVE  OneMoves(c)
<1>1. c \in DOMAIN mode /\ c \in DOMAIN last_block BY DEF WatchersOK
<1>3. LogsOK(c) BY DEF WatchersOK
<1> DEFINE h == head[c]  f == finalized[c]  m == mode[c]  s == stream[c]
           p == pending[c]  b == last_block[c]
<1>5. ASSUME InLine(c)
      PROVE  /\ m = "connecting" => Onward(h, f, m, s, p, b, h, f, "ws", s, p, b)
             /\ m = "connecting" => Onward(h, f, m, s, p, b, h, f, "polling", s, p, h)
             /\ m = "connecting" => Onward(h, f, m, s, p, b, h, f, "stopped", s, p, b)
             /\ m = "ws" => Onward(h, f, m, s, p, b, h, f, "lost", s, p, b)
             /\ s = << >> => Onward(h, f, m, s, p, b, h, f, "stopped", s, p, b)
  <2>1. Watching(h, f, m, s, p, b) BY <1>5 DEF InLine
  <2> HIDE DEF h, f, m, s, p, b
  <2> QED BY <2>1, OnwardMode
<1>p. UNCHANGED <<reorged, head, finalized, stream, pending>>
  BY DEF Connect, FallBack, ConnectionLost, StreamEnds, chainVars
<1>6. CASE Connect(c)
  <2>1. m = "connecting" /\ mode' = [mode EXCEPT ![c] = "ws"] /\ last_block' = last_block
    BY <1>6 DEF Connect
  <2>2. InLine(c) => Moves(c) BY <1>1, <1>p, <1>5, <2>1 DEF Moves
  <2>3. /\ LogsOK(c)' /\ SameDomains
        /\ \A d \in WatchedChains : d # c => Stays(d)
    BY <1>1, <1>3, <1>p, <2>1 DEF LogsOK, SameDomains, Stays
  <2> QED BY <1>p, <2>2, <2>3, OnlyInLine
<1>7. CASE FallBack(c)
  <2>1. m = "connecting" BY <1>7 DEF FallBack
  <2>2. CASE /\ mode' = [mode EXCEPT ![c] = "polling"]
             /\ last_block' = [last_block EXCEPT ![c] = head[c]]
    <3>1. InLine(c) => Moves(c) BY <1>1, <1>p, <1>5, <2>1, <2>2 DEF Moves
    <3>2. /\ LogsOK(c)' /\ SameDomains
          /\ \A d \in WatchedChains : d # c => Stays(d)
      BY <1>1, <1>3, <1>p, <2>2 DEF LogsOK, SameDomains, Stays
    <3> QED BY <1>p, <3>1, <3>2, OnlyInLine
  <2>3. CASE mode' = [mode EXCEPT ![c] = "stopped"] /\ last_block' = last_block
    <3>1. InLine(c) => Moves(c) BY <1>1, <1>p, <1>5, <2>1, <2>3 DEF Moves
    <3>2. /\ LogsOK(c)' /\ SameDomains
          /\ \A d \in WatchedChains : d # c => Stays(d)
      BY <1>1, <1>3, <1>p, <2>3 DEF LogsOK, SameDomains, Stays
    <3> QED BY <1>p, <3>1, <3>2, OnlyInLine
  <2> QED BY <1>7, <2>2, <2>3 DEF FallBack
<1>8. CASE ConnectionLost(c)
  <2>1. m = "ws" /\ mode' = [mode EXCEPT ![c] = "lost"] /\ last_block' = last_block
    BY <1>8 DEF ConnectionLost
  <2>2. InLine(c) => Moves(c) BY <1>1, <1>p, <1>5, <2>1 DEF Moves
  <2>3. /\ LogsOK(c)' /\ SameDomains
        /\ \A d \in WatchedChains : d # c => Stays(d)
    BY <1>1, <1>3, <1>p, <2>1 DEF LogsOK, SameDomains, Stays
  <2> QED BY <1>p, <2>2, <2>3, OnlyInLine
<1>9. CASE StreamEnds(c)
  <2>1. s = << >> /\ mode' = [mode EXCEPT ![c] = "stopped"] /\ last_block' = last_block
    BY <1>9 DEF StreamEnds
  <2>2. InLine(c) => Moves(c) BY <1>1, <1>p, <1>5, <2>1 DEF Moves
  <2>3. /\ LogsOK(c)' /\ SameDomains
        /\ \A d \in WatchedChains : d # c => Stays(d)
    BY <1>1, <1>3, <1>p, <2>1 DEF LogsOK, SameDomains, Stays
  <2> QED BY <1>p, <2>2, <2>3, OnlyInLine
<1> QED BY <1>6, <1>7, <1>8, <1>9

LEMMA ReadMoves ==
    ASSUME WatchersOK, NEW c \in WatchedChains,
           Receive(c) \/ wait_for_confirmations(c) \/ Poll(c)
    PROVE  OneMoves(c)
<1>1. c \in DOMAIN pending /\ c \in DOMAIN last_block /\ c \in DOMAIN stream BY DEF WatchersOK
<1>3. LogsOK(c) BY DEF WatchersOK
<1> DEFINE h == head[c]  f == finalized[c]  m == mode[c]  s == stream[c]
           p == pending[c]  b == last_block[c]
<1>4. h \in Nat /\ b \in Nat /\ f \in Seq(Nat) /\ s \in Seq(Positive) /\ p \in Seq(Positive)
  BY <1>3 DEF LogsOK
<1>5. CASE Receive(c)
  <2>1. /\ m \in {"ws", "lost"} /\ p = << >> /\ s # << >>
        /\ pending' = [pending EXCEPT ![c] = <<Head(s)>>]
        /\ stream' = [stream EXCEPT ![c] = Tail(@)]
        /\ UNCHANGED <<reorged, head, finalized, mode, last_block>>
    BY <1>5 DEF Receive, chainVars
  <2>2. ASSUME InLine(c) PROVE Moves(c)
    <3>1. Watching(h, f, m, s, p, b) BY <2>2 DEF InLine
    <3>2. Onward(h, f, m, s, p, b, h, f, m, Tail(s), <<Head(s)>>, b)
      <4> HIDE DEF h, f, m, s, p, b
      <4> QED BY <2>1, <3>1, OnwardReceive
    <3> QED BY <1>1, <2>1, <3>2 DEF Moves
  <2>3. Tail(s) \in Seq(Positive) /\ <<Head(s)>> \in Seq(Positive)
    <3> HIDE DEF s
    <3>1. Tail(s) \in Seq(Positive) /\ Head(s) \in Positive BY <1>4, <2>1, HeadTailProperties
    <3> QED BY <3>1
  <2>4. LogsOK(c)' BY <1>1, <1>3, <2>1, <2>3 DEF LogsOK
  <2>5. SameDomains /\ \A d \in WatchedChains : d # c => Stays(d)
    BY <1>1, <2>1 DEF SameDomains, Stays
  <2> QED BY <2>1, <2>2, <2>4, <2>5, OnlyInLine
<1>6. CASE Poll(c)
  <2> DEFINE logs == confirmed_logs(c, b, h)
  <2>1. /\ m = "polling" /\ p = << >> /\ h > b
        /\ last_block' = [last_block EXCEPT ![c] = h]
        /\ pending' = [pending EXCEPT ![c] = logs] \/ pending' = pending
        /\ UNCHANGED <<reorged, head, finalized, mode, stream>>
    BY <1>6 DEF Poll, chainVars
  <2>3. /\ logs \in Seq(1..Len(f)) /\ Increasing(logs)
        /\ \A k \in 1..Len(logs) : f[logs[k]] \in (b + 1)..h
    <3> HIDE DEF h, b
    <3> QED BY <1>4, ConfirmedLogs
  <2> HIDE DEF logs
  <2>4. ASSUME InLine(c)
        PROVE  /\ Onward(h, f, m, s, p, b, h, f, m, s, logs, h)
               /\ Onward(h, f, m, s, p, b, h, f, m, s, p, h)
    <3>1. Watching(h, f, "polling", s, p, b) BY <2>1, <2>4 DEF InLine
    <3>2. Onward(h, f, "polling", s, p, b, h, f, "polling", s, logs, h)
      <4> HIDE DEF h, f, m, s, p, b
      <4> QED BY <2>1, <2>3, <3>1, OnwardPoll
    <3>3. Onward(h, f, "polling", s, p, b, h, f, "polling", s, p, h)
      <4>1. p \in Seq(1..Len(f)) /\ Increasing(p) BY <3>1 DEF Watching
      <4>2. \A k \in 1..Len(p) : FALSE BY <2>1, EmptySeq
      <4> HIDE DEF h, f, m, s, p, b
      <4> QED BY <2>1, <3>1, <4>1, <4>2, OnwardPoll
    <3> QED BY <2>1, <3>2, <3>3
  <2>5. InLine(c) => Moves(c) BY <1>1, <2>1, <2>4 DEF Moves
  <2>6. logs \in Seq(Positive)
    <3>1. Len(f) \in Nat BY <1>4, LenProperties
    <3>2. 1..Len(f) \subseteq Positive BY <3>1 DEF Positive
    <3> QED BY <2>3, <3>2, SeqMonotonic
  <2>7. LogsOK(c)' BY <1>1, <1>3, <1>4, <2>1, <2>6 DEF LogsOK
  <2>8. /\ DOMAIN pending' = DOMAIN pending
        /\ \A d \in WatchedChains : d # c => pending'[d] = pending[d]
    <3>1. CASE pending' = pending BY <3>1
    <3>2. CASE pending' = [pending EXCEPT ![c] = logs] BY <3>2
    <3> QED BY <2>1, <3>1, <3>2
  <2>9. SameDomains /\ \A d \in WatchedChains : d # c => Stays(d)
    BY <1>1, <2>1, <2>8 DEF SameDomains, Stays
  <2> QED BY <2>1, <2>5, <2>7, <2>9, OnlyInLine
<1>7. CASE wait_for_confirmations(c)
  <2>1. UNCHANGED <<reorged, head, finalized, mode, stream, pending, last_block>>
    BY <1>7 DEF wait_for_confirmations, chainVars
  <2> QED BY <2>1 DEF OneMoves, SameDomains, Stays
<1> QED BY <1>5, <1>6, <1>7

-----------------------------------------------------------------------------
(* The way of the commands. *)

LEMMA MoveHead ==
    ASSUME NEW T, NEW a \in Seq(T), NEW b \in Seq(T), b # << >>
    PROVE  /\ Append(a, Head(b)) \o Tail(b) = a \o b
           /\ Append(a, Head(b)) \in Seq(T) /\ Tail(b) \in Seq(T) /\ Head(b) \in T
<1> DEFINE x == Head(b)  r == Tail(b)  c == Append(a, x)
<1>1. /\ x \in T /\ r \in Seq(T) /\ Len(r) = Len(b) - 1
      /\ \A i \in 1..Len(r) : r[i] = b[i + 1]
  BY HeadTailProperties
<1>2. x = b[1] OBVIOUS
<1>3. Len(a) \in Nat /\ Len(b) \in Nat \ {0} BY LenProperties, EmptySeq
<1> HIDE DEF x, r
<1>4. /\ c \in Seq(T) /\ Len(c) = Len(a) + 1 /\ c[Len(a) + 1] = x
      /\ \A i \in 1..Len(a) : c[i] = a[i]
  BY <1>1, AppendProperties
<1> HIDE DEF c
<1>5. /\ c \o r \in Seq(T) /\ Len(c \o r) = Len(c) + Len(r)
      /\ \A i \in 1..(Len(c) + Len(r)) : (c \o r)[i] = IF i <= Len(c) THEN c[i] ELSE r[i - Len(c)]
  BY <1>1, <1>4, ConcatProperties
<1>6. /\ a \o b \in Seq(T) /\ Len(a \o b) = Len(a) + Len(b)
      /\ \A i \in 1..(Len(a) + Len(b)) : (a \o b)[i] = IF i <= Len(a) THEN a[i] ELSE b[i - Len(a)]
  BY ConcatProperties
<1>7. Len(c \o r) = Len(a \o b) BY <1>1, <1>3, <1>4, <1>5, <1>6
<1>8. ASSUME NEW i \in 1..Len(c \o r) PROVE (c \o r)[i] = (a \o b)[i]
  <2>1. i \in 1..(Len(c) + Len(r)) /\ i \in 1..(Len(a) + Len(b)) BY <1>5, <1>6, <1>7
  <2>2. CASE i <= Len(a)
    <3>1. i <= Len(c) /\ i \in 1..Len(a) BY <1>3, <1>4, <2>1, <2>2
    <3> QED BY <1>4, <1>5, <1>6, <2>1, <2>2, <3>1
  <2>3. CASE i = Len(a) + 1
    <3>1. i <= Len(c) /\ ~ (i <= Len(a)) /\ i - Len(a) = 1 BY <1>3, <1>4, <2>3
    <3> QED BY <1>2, <1>4, <1>5, <1>6, <2>1, <2>3, <3>1
  <2>4. CASE i > Len(a) + 1
    <3>1. /\ ~ (i <= Len(c)) /\ ~ (i <= Len(a)) /\ i - Len(c) \in 1..Len(r)
          /\ (i - Len(c)) + 1 = i - Len(a)
      BY <1>1, <1>3, <1>4, <2>1, <2>4
    <3>2. (c \o r)[i] = r[i - Len(c)] /\ (a \o b)[i] = b[i - Len(a)] BY <1>5, <1>6, <2>1, <3>1
    <3> QED BY <1>1, <3>1, <3>2
  <2> QED BY <1>3, <2>1, <2>2, <2>3, <2>4
<1>9. c \o r = a \o b BY <1>5, <1>6, <1>7, <1>8, SeqEqual
<1> QED BY <1>1, <1>4, <1>9 DEF c, x, r

LEMMA CommandsAssociate ==
    \A s, t, u \in Seq(Commands) : (s \o t) \o u = s \o (t \o u)
BY ConcatAssociative

\* What PipelineIsExact says of the parts of the pipeline.
Exact(d, k, o, waiting, all) == d \o k \o o \o flush_batch(waiting) = flush_batch(all)

LEMMA ExactSend ==
    ASSUME NEW d \in Seq(Commands), NEW k \in Seq(Commands), NEW o \in Seq(Commands),
           NEW w \in Seq(Events), NEW all \in Seq(Events), Exact(d, k, o, w, all),
           NEW x \in Events
    PROVE  Exact(d, k, o, Append(w, x), Append(all, x))
<1>1. d \o k \in Seq(Commands) BY ConcatProperties
<1>2. PICK tried \in Seq(Commands) : tried = d \o k \o o BY <1>1, ConcatProperties
<1>3. PICK due \in Seq(Commands), new \in Seq(Commands) :
         due = flush_batch(w) /\ new = dispatch_event(x)
  BY FlushAppend, DispatchShape
<1>4. flush_batch(Append(w, x)) = due \o new /\ flush_batch(Append(all, x)) = flush_batch(all) \o new
  BY <1>3, FlushAppend
<1>5. tried \o due = flush_batch(all) BY <1>2, <1>3 DEF Exact
<1>6. (tried \o due) \o new = tried \o (due \o new) BY CommandsAssociate
<1> QED BY <1>2, <1>4, <1>5, <1>6 DEF Exact

LEMMA ExactFlush ==
    ASSUME NEW d \in Seq(Commands), NEW k \in Seq(Commands),
           NEW w \in Seq(Events), NEW v \in Seq(Events), NEW all \in Seq(Events),
           Exact(d, k, << >>, w \o v, all)
    PROVE  Exact(d, k, flush_batch(w), << >> \o v, all)
<1>1. d \o k \in Seq(Commands) BY ConcatProperties
<1> DEFINE a == d \o k  p == flush_batch(w)  q == flush_batch(v)
<1>2. p \in Seq(Commands) /\ q \in Seq(Commands) BY FlushAppend
<1>3. flush_batch(w \o v) = p \o q BY FlushConcat
<1>4. << >> \o v = v BY ConcatEmptySeq
<1>5. a \o << >> = a BY <1>1, ConcatEmptySeq
<1>6. (a \o << >>) \o (p \o q) = flush_batch(all) BY <1>3 DEF Exact
<1> HIDE DEF a, p, q
<1>7. a \in Seq(Commands) BY <1>1 DEF a
<1>8. a \o (p \o q) = (a \o p) \o q BY <1>2, <1>7, CommandsAssociate
<1>9. (a \o p) \o q = flush_batch(all) BY <1>5, <1>6, <1>8
<1> QED BY <1>4, <1>9 DEF Exact, a, p, q

LEMMA ExactCommand ==
    ASSUME NEW d \in Seq(Commands), NEW k \in Seq(Commands), NEW o \in Seq(Commands),
           NEW w, NEW all, Exact(d, k, o, w, all)
    PROVE  /\ o # << >> => Exact(d, Append(k, Head(o)), Tail(o), w, all)
           /\ k # << >> => Exact(Append(d, Head(k)), Tail(k), o, w, all)
<1>1. ASSUME o # << >> PROVE Exact(d, Append(k, Head(o)), Tail(o), w, all)
  <2> DEFINE k2 == Append(k, Head(o))  o2 == Tail(o)
  <2>1. k2 \o o2 = k \o o /\ k2 \in Seq(Commands) /\ o2 \in Seq(Commands) BY <1>1, MoveHead
  <2> HIDE DEF k2, o2
  <2>2. (d \o k2) \o o2 = d \o (k2 \o o2) /\ (d \o k) \o o = d \o (k \o o)
    BY <2>1, CommandsAssociate
  <2>3. (d \o k2) \o o2 = (d \o k) \o o BY <2>1, <2>2
  <2>4. Exact(d, k2, o2, w, all) BY <2>3 DEF Exact
  <2> QED BY <2>4 DEF k2, o2
<1>2. ASSUME k # << >> PROVE Exact(Append(d, Head(k)), Tail(k), o, w, all)
  <2>1. Append(d, Head(k)) \o Tail(k) = d \o k BY <1>2, MoveHead
  <2> QED BY <2>1 DEF Exact
<1> QED BY <1>1, <1>2

PipelineOK == QueuesOK /\ Exact(done, cmds, outbox, batch \o events, sent)

LEMMA PipelineSteps ==
    ASSUME PipelineOK, earlier' = earlier, sent' = sent,
           Aggregate \/ BatchTimeout \/ SendCommand \/ WatchersClosed \/ Dispatch
             \/ send_evm_tx
    PROVE  PipelineOK'
<1>0. /\ events \in Seq(Events) /\ batch \in Seq(Events) /\ sent \in Seq(Events)
      /\ outbox \in Seq(Commands) /\ cmds \in Seq(Commands)
      /\ done \in Seq(Commands) /\ earlier \in Seq(Commands)
  BY DEF PipelineOK, QueuesOK
<1>1. Exact(done, cmds, outbox, batch \o events, sent) BY DEF PipelineOK
<1>e. << >> \in Seq(Events) /\ << >> \in Seq(Commands) BY EmptySeq
<1>f. \A list \in Seq(Events) : flush_batch(list) \in Seq(Commands) BY FlushAppend
<1>2. CASE Aggregate
  <2> DEFINE received == Append(batch, Head(events))
  <2>1. /\ outbox = << >> /\ events # << >> /\ events' = Tail(events)
        /\ cmds' = cmds /\ done' = done
    BY <1>2 DEF Aggregate, historyVars, dispatchVars
  <2>2. /\ received \o Tail(events) = batch \o events /\ received \in Seq(Events)
        /\ Tail(events) \in Seq(Events)
    BY <1>0, <2>1, MoveHead
  <2>3. \/ batch' = received /\ outbox' = outbox
        \/ batch' = << >> /\ outbox' = flush_batch(received)
    BY <1>2 DEF Aggregate
  <2> HIDE DEF received
  <2>4. CASE batch' = received /\ outbox' = outbox
    BY <1>0, <1>1, <2>1, <2>2, <2>4 DEF PipelineOK, QueuesOK, Exact
  <2>5. CASE batch' = << >> /\ outbox' = flush_batch(received)
    <3>1. Exact(done, cmds, << >>, received \o Tail(events), sent) BY <1>1, <2>1, <2>2
    <3>2. Exact(done, cmds, flush_batch(received), << >> \o Tail(events), sent)
      BY <1>0, <2>2, <3>1, ExactFlush
    <3> QED BY <1>0, <1>e, <1>f, <2>1, <2>2, <2>5, <3>2 DEF PipelineOK, QueuesOK, Exact
  <2> QED BY <2>3, <2>4, <2>5
<1>3. CASE BatchTimeout \/ WatchersClosed
  <2>1. /\ outbox = << >> /\ outbox' = flush_batch(batch) /\ batch' = << >>
        /\ events' = events /\ cmds' = cmds /\ done' = done
    BY <1>3 DEF BatchTimeout, WatchersClosed, historyVars, dispatchVars
  <2>2. Exact(done, cmds, flush_batch(batch), << >> \o events, sent)
    BY <1>0, <1>1, <2>1, ExactFlush
  <2> QED BY <1>0, <1>e, <1>f, <2>1, <2>2 DEF PipelineOK, QueuesOK, Exact
<1>4. CASE SendCommand
  <2>1. /\ outbox # << >> /\ cmds' = Append(cmds, Head(outbox)) /\ outbox' = Tail(outbox)
        /\ events' = events /\ batch' = batch /\ done' = done
    BY <1>4 DEF SendCommand, historyVars
  <2>2. Exact(done, Append(cmds, Head(outbox)), Tail(outbox), batch \o events, sent)
    BY <1>0, <1>1, <2>1, ExactCommand
  <2>3. Append(cmds, Head(outbox)) \in Seq(Commands) /\ Tail(outbox) \in Seq(Commands)
    BY <1>0, <2>1, MoveHead
  <2> QED BY <1>0, <2>1, <2>2, <2>3 DEF PipelineOK, QueuesOK, Exact
<1>5. CASE Dispatch
  <2>1. /\ cmds # << >> /\ cmds' = Tail(cmds)
        /\ events' = events /\ batch' = batch /\ outbox' = outbox
    BY <1>5 DEF Dispatch, queueVars
  <2>2. Head(cmds) \in Commands /\ Tail(cmds) \in Seq(Commands)
        /\ Append(done, Head(cmds)) \in Seq(Commands)
    BY <1>0, <2>1, MoveHead
  <2>3. dispatch(Head(cmds))
    BY <2>2, RelayerAssumption
       DEF dispatch, submit_to_registry, send_to_chain, Commands, WatchedChains
  <2>4. done' = Append(done, Head(cmds)) BY <1>5, <2>3 DEF Dispatch
  <2>5. Exact(Append(done, Head(cmds)), Tail(cmds), outbox, batch \o events, sent)
    BY <1>0, <1>1, <2>1, ExactCommand
  <2> QED BY <1>0, <2>1, <2>2, <2>4, <2>5 DEF PipelineOK, QueuesOK, Exact
<1>6. CASE send_evm_tx
  <2>1. UNCHANGED <<events, batch, outbox, cmds, done>>
    BY <1>6 DEF send_evm_tx, queueVars, historyVars
  <2> QED BY <1>0, <1>1, <2>1 DEF PipelineOK, QueuesOK, Exact
<1> QED BY <1>2, <1>3, <1>4, <1>5, <1>6

LEMMA ConcatPrefix ==
    ASSUME NEW a \in Seq(Commands), NEW b \in Seq(Commands)
    PROVE  /\ a \o b \in Seq(Commands)
           /\ \A i \in 1..Len(a) : i \in 1..Len(a \o b) /\ (a \o b)[i] = a[i]
<1>1. /\ a \o b \in Seq(Commands) /\ Len(a \o b) = Len(a) + Len(b)
      /\ \A i \in 1..(Len(a) + Len(b)) :
            (a \o b)[i] = IF i <= Len(a) THEN a[i] ELSE b[i - Len(a)]
  BY ConcatProperties
<1>2. Len(a) \in Nat /\ Len(b) \in Nat BY LenProperties
<1>3. \A i \in 1..Len(a) : i \in 1..(Len(a) + Len(b)) /\ i <= Len(a) BY <1>2
<1> QED BY <1>1, <1>3

\* What was dispatched came from events that were sent, in their order.
LEMMA DoneFromSent ==
    ASSUME PipelineOK
    PROVE  FromEvents(sent, done)
<1> DEFINE w == flush_batch(batch \o events)  a == done \o cmds  b == a \o outbox
           all == b \o w
<1>0. /\ events \in Seq(Events) /\ batch \in Seq(Events) /\ sent \in Seq(Events)
      /\ outbox \in Seq(Commands) /\ cmds \in Seq(Commands) /\ done \in Seq(Commands)
  BY DEF PipelineOK, QueuesOK
<1>1. all = flush_batch(sent) BY DEF PipelineOK, Exact
<1>2. FromEvents(sent, all) BY <1>0, <1>1, FlushOrder
<1>3. batch \o events \in Seq(Events) BY <1>0, ConcatProperties
<1>4. w \in Seq(Commands) BY <1>3, FlushAppend
<1> HIDE DEF w
<1>5. /\ a \in Seq(Commands)
      /\ \A i \in 1..Len(done) : i \in 1..Len(a) /\ a[i] = done[i]
  BY <1>0, ConcatPrefix
<1> HIDE DEF a
<1>6. /\ b \in Seq(Commands)
      /\ \A i \in 1..Len(a) : i \in 1..Len(b) /\ b[i] = a[i]
  BY <1>0, <1>5, ConcatPrefix
<1> HIDE DEF b
<1>7. \A i \in 1..Len(b) : i \in 1..Len(all) /\ all[i] = b[i]
  BY <1>4, <1>6, ConcatPrefix
<1> HIDE DEF all
<1>8. \A i \in 1..Len(done) : i \in 1..Len(all) /\ all[i] = done[i] BY <1>5, <1>6, <1>7
<1>9. \A i \in 1..Len(done) : ToRegistry(done[i]) => \E p \in 1..Len(sent) : done[i].event = sent[p]
  BY <1>2, <1>8 DEF FromEvents
<1>10. ASSUME NEW i \in 1..Len(done), NEW j \in 1..Len(done), i < j,
              ToRegistry(done[i]), ToRegistry(done[j])
       PROVE  \E p, q \in 1..Len(sent) : p < q /\ done[i].event = sent[p] /\ done[j].event = sent[q]
  <2>1. /\ i \in 1..Len(all) /\ all[i] = done[i]
        /\ j \in 1..Len(all) /\ all[j] = done[j]
    BY <1>8
  <2>2. ToRegistry(all[i]) /\ ToRegistry(all[j]) BY <1>10, <2>1
  <2>3. PICK p, q \in 1..Len(sent) : p < q /\ all[i].event = sent[p] /\ all[j].event = sent[q]
    BY <1>2, <1>10, <2>1, <2>2 DEF FromEvents
  <2> QED BY <2>1, <2>3
<1> QED BY <1>9, <1>10 DEF FromEvents

SubmittedOK(all) ==
    /\ all \in Seq(Commands)
    /\ \A i \in 1..Len(all) : ToRegistry(all[i]) =>
          PastEpoch(all[i].event.chain, all[i].event.epoch)
    /\ \A i, j \in 1..Len(all) : i < j /\ ToRegistry(all[i]) /\ ToRegistry(all[j]) =>
          InOrder(all[i].event, all[j].event, reorged)

LEMMA SubmittedInOrder ==
    ASSUME PipelineOK, SentInOrder
    PROVE  SubmittedOK(earlier \o done)
<1> DEFINE all == earlier \o done  n == Len(earlier)  k == Len(done)
<1>1. earlier \in Seq(Commands) /\ done \in Seq(Commands) BY DEF PipelineOK, QueuesOK
<1>2. n \in Nat /\ k \in Nat BY <1>1, LenProperties
<1>3. /\ all \in Seq(Commands) /\ Len(all) = n + k
      /\ \A i \in 1..(n + k) : all[i] = IF i <= n THEN earlier[i] ELSE done[i - n]
  BY <1>1, ConcatProperties
<1>4. FromEvents(sent, done) BY DoneFromSent
<1>s. /\ \A i \in 1..Len(sent) : PastEpoch(sent[i].chain, sent[i].epoch)
      /\ \A i, j \in 1..Len(sent) : i < j => InOrder(sent[i], sent[j], reorged)
      /\ \A i \in 1..n : ToRegistry(earlier[i]) =>
            /\ PastEpoch(earlier[i].event.chain, earlier[i].event.epoch)
            /\ \A j \in 1..Len(sent) : InOrder(earlier[i].event, sent[j], reorged)
            /\ \A j \in 1..n : i < j /\ ToRegistry(earlier[j]) =>
                  InOrder(earlier[i].event, earlier[j].event, reorged)
  BY DEF SentInOrder
<1> HIDE DEF all
<1>5. ASSUME NEW i \in 1..Len(all)
      PROVE  \/ i \in 1..n /\ all[i] = earlier[i]
             \/ i - n \in 1..k /\ all[i] = done[i - n] /\ i > n
  BY <1>2, <1>3
<1>p. \A i \in 1..k : ToRegistry(done[i]) => \E p \in 1..Len(sent) : done[i].event = sent[p]
  BY <1>4 DEF FromEvents
<1>6. ASSUME NEW i \in 1..Len(all), ToRegistry(all[i])
      PROVE  PastEpoch(all[i].event.chain, all[i].event.epoch)
  <2>1. CASE i \in 1..n /\ all[i] = earlier[i] BY <1>s, <1>6, <2>1
  <2>2. CASE i - n \in 1..k /\ all[i] = done[i - n]
    <3>1. PICK p \in 1..Len(sent) : all[i].event = sent[p] BY <1>p, <1>6, <2>2
    <3> QED BY <1>s, <3>1
  <2> QED BY <1>5, <2>1, <2>2
<1>7. ASSUME NEW i \in 1..Len(all), NEW j \in 1..Len(all), i < j,
             ToRegistry(all[i]), ToRegistry(all[j])
      PROVE  InOrder(all[i].event, all[j].event, reorged)
  <2>1. CASE j \in 1..n /\ all[j] = earlier[j]
    <3>1. i \in 1..n /\ all[i] = earlier[i] BY <1>2, <1>5, <1>7, <2>1
    <3> QED BY <1>s, <1>7, <2>1, <3>1
  <2>2. CASE i \in 1..n /\ all[i] = earlier[i] /\ j - n \in 1..k /\ all[j] = done[j - n]
    <3>1. PICK p \in 1..Len(sent) : all[j].event = sent[p] BY <1>p, <1>7, <2>2
    <3>2. InOrder(earlier[i].event, sent[p], reorged) BY <1>s, <1>7, <2>2, <3>1
    <3> QED BY <2>2, <3>1, <3>2
  <2>3. CASE /\ i - n \in 1..k /\ all[i] = done[i - n]
             /\ j - n \in 1..k /\ all[j] = done[j - n]
    <3>1. i - n < j - n BY <1>2, <1>3, <1>7
    <3>2. PICK p, q \in 1..Len(sent) :
             p < q /\ done[i - n].event = sent[p] /\ done[j - n].event = sent[q]
      BY <1>4, <1>7, <2>3, <3>1 DEF FromEvents
    <3>3. InOrder(sent[p], sent[q], reorged) BY <1>s, <3>2
    <3> QED BY <2>3, <3>2, <3>3
  <2> QED BY <1>5, <2>1, <2>2, <2>3
<1>8. SubmittedOK(all) BY <1>3, <1>6, <1>7 DEF SubmittedOK
<1> QED BY <1>8 DEF all

RelayerInv == WatchersOK /\ PipelineOK /\ SentInOrder

LEMMA OrderStays ==
    ASSUME QueuesOK, SentInOrder, PastStays, reorged \subseteq reorged',
           sent' = sent, earlier' = earlier
    PROVE  SentInOrder'
<1>1. \A i \in 1..Len(sent) : sent[i] \in Events BY ElementOfSeq DEF QueuesOK
<1>2. \A i \in 1..Len(earlier) : earlier[i] \in Commands BY ElementOfSeq DEF QueuesOK
<1>3. \A i \in 1..Len(sent) : PastEpoch(sent[i].chain, sent[i].epoch)'
  BY <1>1 DEF SentInOrder, PastStays, Events
<1>4. \A i \in 1..Len(earlier) : ToRegistry(earlier[i]) =>
         PastEpoch(earlier[i].event.chain, earlier[i].event.epoch)'
  BY <1>2 DEF SentInOrder, PastStays, Events, Commands
<1>5. \A x, y : InOrder(x, y, reorged) => InOrder(x, y, reorged') BY DEF InOrder
<1> QED BY <1>3, <1>4, <1>5 DEF SentInOrder

LEMMA SendEventKeeps ==
    ASSUME RelayerInv, NEW c \in WatchedChains, SendEvent(c)
    PROVE  RelayerInv'
<1>0. PICK e : e = Head(pending[c]) OBVIOUS
<1> DEFINE h == head[c]  f == finalized[c]  m == mode[c]  s == stream[c]
           p == pending[c]  b == last_block[c]  x == Event(c, e)
<1>1. /\ p # << >> /\ events' = Append(events, x) /\ sent' = Append(sent, x)
      /\ pending' = [pending EXCEPT ![c] = Tail(@)]
      /\ UNCHANGED <<reorged, head, finalized, mode, stream, last_block>>
      /\ UNCHANGED <<batch, outbox, cmds, done, earlier>>
  BY <1>0 DEF SendEvent, chainVars, queueVars, dispatchVars
<1>2. WatchersOK /\ PipelineOK /\ QueuesOK /\ SentInOrder BY DEF RelayerInv, PipelineOK
<1>3. LogsOK(c) /\ WatcherOK(c) /\ c \in DOMAIN pending BY <1>2 DEF WatchersOK
<1>4. ASSUME InLine(c)
      PROVE  /\ Onward(h, f, m, s, p, b, h, f, m, s, Tail(p), b)
             /\ Past(e, f, m, s, Tail(p), b)
             /\ \A d : Past(d, f, m, s, p, b) => d < e
  <2>1. Watching(h, f, m, s, p, b) BY <1>4 DEF InLine
  <2> HIDE DEF h, f, m, s, p, b
  <2> QED BY <1>0, <1>1, <2>1, OnwardSend DEF p
<1>t. Tail(p) \in Seq(Positive) /\ e \in Positive
  <2>1. p \in Seq(Positive) BY <1>3 DEF LogsOK
  <2> HIDE DEF p
  <2> QED BY <1>0, <1>1, <2>1, HeadTailProperties DEF p
<1>5. OneMoves(c)
  <2>1. InLine(c) => Moves(c) BY <1>1, <1>3, <1>4 DEF Moves
  <2>2. LogsOK(c)' BY <1>1, <1>3, <1>t DEF LogsOK
  <2>3. SameDomains /\ \A d \in WatchedChains : d # c => Stays(d)
    BY <1>1, <1>3 DEF SameDomains, Stays
  <2> QED BY <1>1, <1>2, <2>1, <2>2, <2>3, OnlyInLine
<1>6. WatchersOK' /\ PastStays BY <1>2, <1>5, WatchersMove DEF OneMoves
<1>7. x \in Events /\ x.chain = c /\ x.epoch = e BY <1>t DEF Events, Event, Positive
<1>8. PastEpoch(c, e)' BY <1>1, <1>3, <1>4 DEF PastEpoch, WatcherOK
<1>9. \A d : PastEpoch(c, d) => c \in reorged \/ d < e
  BY <1>3, <1>4 DEF PastEpoch, WatcherOK
<1> HIDE DEF x
<1>10. PipelineOK'
  <2>1. /\ events \in Seq(Events) /\ batch \in Seq(Events) /\ sent \in Seq(Events)
        /\ outbox \in Seq(Commands) /\ cmds \in Seq(Commands)
        /\ done \in Seq(Commands) /\ earlier \in Seq(Commands)
    BY <1>2 DEF QueuesOK
  <2>2. batch \o events \in Seq(Events) BY <2>1, ConcatProperties
  <2>3. Exact(done, cmds, outbox, batch \o events, sent) BY <1>2 DEF PipelineOK
  <2>4. Exact(done, cmds, outbox, Append(batch \o events, x), Append(sent, x))
    BY <1>7, <2>1, <2>2, <2>3, ExactSend
  <2>5. batch \o Append(events, x) = Append(batch \o events, x) BY <1>7, <2>1, ConcatAppend
  <2>6. Append(events, x) \in Seq(Events) /\ Append(sent, x) \in Seq(Events)
    BY <1>7, <2>1, AppendProperties
  <2>7. QueuesOK' BY <1>1, <2>1, <2>6 DEF QueuesOK
  <2>8. Exact(done, cmds, outbox, batch \o events, sent)' BY <1>1, <2>4, <2>5 DEF Exact
  <2> QED BY <2>7, <2>8 DEF PipelineOK
<1>11. SentInOrder'
  <2> DEFINE n == Len(sent)
  <2>1. n \in Nat /\ sent \in Seq(Events) /\ earlier \in Seq(Commands)
    BY <1>2, LenProperties DEF QueuesOK
  <2>2. /\ Len(sent') = n + 1 /\ sent'[n + 1] = x
        /\ \A i \in 1..n : sent'[i] = sent[i]
    BY <1>1, <1>7, <2>1, AppendProperties
  <2>3. \A i \in 1..n : sent[i] \in Events BY <2>1, ElementOfSeq
  <2>4. \A i \in 1..Len(earlier) : earlier[i] \in Commands BY <2>1, ElementOfSeq
  <2>5. \A i \in 1..(n + 1) : i \in 1..n \/ i = n + 1 BY <2>1
  <2>o. /\ \A i \in 1..n : PastEpoch(sent[i].chain, sent[i].epoch)
        /\ \A i, j \in 1..n : i < j => InOrder(sent[i], sent[j], reorged)
        /\ \A i \in 1..Len(earlier) : ToRegistry(earlier[i]) =>
              /\ PastEpoch(earlier[i].event.chain, earlier[i].event.epoch)
              /\ \A j \in 1..n : InOrder(earlier[i].event, sent[j], reorged)
              /\ \A j \in 1..Len(earlier) : i < j /\ ToRegistry(earlier[j]) =>
                    InOrder(earlier[i].event, earlier[j].event, reorged)
    BY <1>2 DEF SentInOrder
  <2> HIDE DEF n
  <2>6. \A d \in Events : PastEpoch(d.chain, d.epoch) =>
           PastEpoch(d.chain, d.epoch)' /\ InOrder(d, x, reorged)
    BY <1>6, <1>7, <1>9 DEF PastStays, InOrder, Events
  <2>7. ASSUME NEW i \in 1..(n + 1) PROVE PastEpoch(sent[i].chain, sent[i].epoch)'
    <3>1. CASE i = n + 1
      <4>1. sent'[i] = x BY <2>2, <3>1
      <4> QED BY <1>7, <1>8, <4>1 DEF PastEpoch
    <3>2. CASE i \in 1..n
      <4>1. PICK d \in Events : d = sent[i] BY <2>3, <3>2
      <4>2. sent'[i] = d BY <2>2, <3>2, <4>1
      <4>3. PastEpoch(d.chain, d.epoch) BY <2>o, <3>2, <4>1
      <4>4. PastEpoch(d.chain, d.epoch)' BY <2>6, <4>3
      <4> QED BY <4>2, <4>4 DEF PastEpoch
    <3> QED BY <2>5, <3>1, <3>2
  <2>8. ASSUME NEW i \in 1..(n + 1), NEW j \in 1..(n + 1), i < j
        PROVE  InOrder(sent'[i], sent'[j], reorged)
    <3>1. i \in 1..n BY <2>1, <2>8
    <3>2. CASE j \in 1..n BY <2>2, <2>8, <2>o, <3>1, <3>2
    <3>3. CASE j = n + 1
      <4>1. InOrder(sent[i], x, reorged) BY <2>3, <2>6, <2>o, <3>1
      <4> QED BY <2>2, <3>1, <3>3, <4>1
    <3> QED BY <2>5, <3>2, <3>3
  <2>9. ASSUME NEW i \in 1..Len(earlier), ToRegistry(earlier[i])
        PROVE  /\ PastEpoch(earlier[i].event.chain, earlier[i].event.epoch)'
               /\ \A j \in 1..(n + 1) : InOrder(earlier[i].event, sent'[j], reorged)
    <3>1. PICK d \in Events : d = earlier[i].event BY <2>4 DEF Commands
    <3>2. PastEpoch(d.chain, d.epoch) BY <2>9, <2>o, <3>1
    <3>3. PastEpoch(d.chain, d.epoch)' /\ InOrder(d, x, reorged) BY <2>6, <3>2
    <3>4. PastEpoch(earlier[i].event.chain, earlier[i].event.epoch)'
      BY <1>1, <3>1, <3>3 DEF PastEpoch
    <3>5. \A j \in 1..(n + 1) : InOrder(earlier[i].event, sent'[j], reorged)
      BY <2>2, <2>5, <2>9, <2>o, <3>1, <3>3
    <3> QED BY <3>4, <3>5
  <2>10. earlier' = earlier BY <1>1
  <2>11. \A i \in 1..Len(earlier) : ToRegistry(earlier[i]) =>
            \A j \in 1..Len(earlier) : i < j /\ ToRegistry(earlier[j]) =>
               InOrder(earlier[i].event, earlier[j].event, reorged)
    BY <2>o
  <2>12. reorged' = reorged BY <1>1
  <2> QED BY <2>2, <2>7, <2>8, <2>9, <2>10, <2>11, <2>12 DEF SentInOrder
<1> QED BY <1>6, <1>10, <1>11 DEF RelayerInv

\* A restart forgets the subscriptions and the queues, and what was submitted
\* before it stays behind what any watcher will read.
LEMMA RestartKeeps ==
    ASSUME RelayerInv, Restart
    PROVE  RelayerInv'
<1>1. /\ mode' = [c \in WatchedChains |-> "connecting"]
      /\ stream' = [c \in WatchedChains |-> << >>]
      /\ pending' = [c \in WatchedChains |-> << >>]
      /\ last_block' = [c \in WatchedChains |-> 0]
      /\ events' = << >> /\ batch' = << >> /\ outbox' = << >> /\ cmds' = << >>
      /\ sent' = << >> /\ done' = << >> /\ earlier' = earlier \o done
      /\ head' = head /\ finalized' = finalized /\ reorged' = reorged
  BY DEF Restart, chainVars
<1>2. WatchersOK /\ PipelineOK /\ QueuesOK /\ SentInOrder BY DEF RelayerInv, PipelineOK
<1>3. ASSUME NEW c \in WatchedChains PROVE Goes(c)
  <2> DEFINE h == head[c]  f == finalized[c]  m == mode[c]  s == stream[c]
             p == pending[c]  b == last_block[c]
  <2>1. LogsOK(c) /\ WatcherOK(c) BY <1>2 DEF WatchersOK
  <2>2. << >> \in Seq(Positive) BY EmptySeq
  <2>3. LogsOK(c)' BY <1>1, <2>1, <2>2 DEF LogsOK
  <2>4. ASSUME InLine(c) PROVE Moves(c)
    <3>1. Watching(h, f, m, s, p, b) BY <2>4 DEF InLine
    <3>2. Onward(h, f, m, s, p, b, h, f, "connecting", << >>, << >>, 0)
      <4> HIDE DEF h, f, m, s, p, b
      <4> QED BY <3>1, OnwardMode
    <3> QED BY <1>1, <3>2 DEF Moves
  <2> QED BY <1>1, <2>1, <2>3, <2>4 DEF Goes, WatcherOK
<1>4. SameDomains BY <1>1, <1>2 DEF SameDomains, WatchersOK
<1>5. WatchersOK' /\ PastStays
  <2>1. reorged \subseteq reorged' BY <1>1
  <2> QED BY <1>2, <1>3, <1>4, <2>1, WatchersMove
<1>6. SubmittedOK(earlier \o done) BY <1>2, SubmittedInOrder
<1>7. PICK all : all = earlier \o done OBVIOUS
<1>8. /\ earlier' = all /\ all \in Seq(Commands)
      /\ \A i \in 1..Len(all) : ToRegistry(all[i]) =>
            PastEpoch(all[i].event.chain, all[i].event.epoch)
      /\ \A i, j \in 1..Len(all) : i < j /\ ToRegistry(all[i]) /\ ToRegistry(all[j]) =>
            InOrder(all[i].event, all[j].event, reorged)
  BY <1>1, <1>6, <1>7 DEF SubmittedOK
<1>9. << >> \in Seq(Events) /\ << >> \in Seq(Commands) /\ Len(<< >>) = 0 BY EmptySeq
<1>10. PipelineOK'
  <2>1. QueuesOK' BY <1>1, <1>8, <1>9 DEF QueuesOK
  <2>2. /\ << >> \o << >> = << >> /\ flush_batch(<< >>) = << >>
    BY <1>9, ConcatEmptySeq, FlushAppend
  <2>3. << >> \o << >> \o << >> \o flush_batch(<< >> \o << >>) = flush_batch(<< >>)
    BY <2>2
  <2>4. Exact(done, cmds, outbox, batch \o events, sent)' BY <1>1, <2>3 DEF Exact
  <2> QED BY <2>1, <2>4 DEF PipelineOK
<1>11. SentInOrder'
  <2>1. \A i \in 1..Len(all) : all[i] \in Commands BY <1>8, ElementOfSeq
  <2>2. ASSUME NEW i \in 1..Len(all), ToRegistry(all[i])
        PROVE  PastEpoch(all[i].event.chain, all[i].event.epoch)'
    <3>1. all[i].event.chain \in WatchedChains BY <2>1 DEF Commands, Events
    <3> QED BY <1>5, <1>8, <2>2, <3>1 DEF PastStays
  <2>3. \A i \in 1..Len(earlier') : ToRegistry(earlier'[i]) =>
           PastEpoch(earlier[i].event.chain, earlier[i].event.epoch)'
    BY <1>8, <2>2 DEF PastEpoch
  <2>4. \A i, j \in 1..Len(earlier') : i < j /\ ToRegistry(earlier'[i]) /\ ToRegistry(earlier'[j]) =>
            InOrder(earlier'[i].event, earlier'[j].event, reorged)
    BY <1>8
  <2>5. \A i : i \in 1..Len(sent') => FALSE BY <1>1, <1>9
  <2>6. reorged' = reorged BY <1>1
  <2> QED BY <2>3, <2>4, <2>5, <2>6 DEF SentInOrder, ToRegistry
<1> QED BY <1>5, <1>10, <1>11 DEF RelayerInv

LEMMA RelayerStarts == RelayerInit => RelayerInv
<1> SUFFICES ASSUME RelayerInit PROVE RelayerInv
  OBVIOUS
<1>1. << >> \in Seq(Events) /\ << >> \in Seq(Commands) /\ Len(<< >>) = 0
      /\ << >> \in Seq(Nat) /\ << >> \in Seq(1..0)
  BY EmptySeq
<1>2. \A k : k \in 1..Len(<< >>) => FALSE BY <1>1
<1>3. Increasing(<< >>) BY <1>2 DEF Increasing
<1>4. Watching(0, << >>, "connecting", << >>, << >>, 0)
  BY <1>1, <1>2, <1>3 DEF Watching, Modes
<1>l. 0 \in Nat /\ << >> \in Seq(Positive) BY EmptySeq
<1>5. WatchersOK BY <1>1, <1>4, <1>l DEF RelayerInit, WatchersOK, LogsOK, WatcherOK, InLine
<1>6. PipelineOK
  <2>1. QueuesOK BY <1>1 DEF RelayerInit, QueuesOK
  <2>2. << >> \o << >> = << >> /\ flush_batch(<< >>) = << >>
    BY <1>1, ConcatEmptySeq, FlushAppend
  <2>3. << >> \o << >> \o << >> \o flush_batch(<< >> \o << >>) = flush_batch(<< >>)
    BY <2>2
  <2>4. Exact(done, cmds, outbox, batch \o events, sent) BY <2>3 DEF Exact, RelayerInit
  <2> QED BY <2>1, <2>4 DEF PipelineOK
<1>7. SentInOrder
  <2>1. sent = << >> /\ earlier = << >> BY DEF RelayerInit
  <2>2. \A i : i \in 1..Len(sent) => FALSE BY <1>2, <2>1
  <2>3. \A i : i \in 1..Len(earlier) => FALSE BY <1>2, <2>1
  <2> QED BY <2>2, <2>3 DEF SentInOrder
<1> QED BY <1>5, <1>6, <1>7 DEF RelayerInv

LEMMA RelayerSteps == RelayerInv /\ [RelayerNext]_relayerVars => RelayerInv'
<1> SUFFICES ASSUME RelayerInv, [RelayerNext]_relayerVars PROVE RelayerInv'
  OBVIOUS
<1>1. WatchersOK /\ PipelineOK /\ QueuesOK /\ SentInOrder BY DEF RelayerInv, PipelineOK
<1>2. ASSUME UNCHANGED <<events, batch, outbox, cmds, sent, done, earlier>> PROVE PipelineOK'
  BY <1>1, <1>2 DEF PipelineOK, QueuesOK, Exact
<1>3. ASSUME NEW c \in WatchedChains, Watches(c) PROVE RelayerInv'
  <2>1. UNCHANGED <<events, batch, outbox, cmds, sent, done, earlier>>
    BY <1>3 DEF Watches, ChainStep, Block, Reorg, Connect, FallBack, ConnectionLost,
                StreamEnds, Receive, wait_for_confirmations, Poll, queueVars,
                dispatchVars, historyVars
  <2>2. OneMoves(c)
    BY <1>1, <1>3, BlockMoves, ReorgMoves, ModeMoves, ReadMoves DEF Watches, ChainStep
  <2>3. WatchersOK' /\ PastStays BY <1>1, <2>2, WatchersMove DEF OneMoves
  <2>4. SentInOrder' BY <1>1, <2>1, <2>2, <2>3, OrderStays DEF OneMoves
  <2> QED BY <1>2, <2>1, <2>3, <2>4 DEF RelayerInv
<1>4. ASSUME UNCHANGED <<chainVars, watcherVars>>
      PROVE  WatchersOK' /\ PastStays /\ reorged \subseteq reorged'
  <2>1. SameDomains /\ reorged \subseteq reorged' /\ \A d \in WatchedChains : Stays(d)
    BY <1>4 DEF SameDomains, Stays, chainVars, watcherVars
  <2> QED BY <1>1, <2>1, WatchersMove
<1>5. CASE \/ Aggregate \/ BatchTimeout \/ SendCommand \/ WatchersClosed \/ Dispatch
           \/ send_evm_tx
  <2>1. UNCHANGED <<chainVars, watcherVars>> /\ sent' = sent /\ earlier' = earlier
    BY <1>5 DEF Aggregate, BatchTimeout, SendCommand, WatchersClosed, Dispatch,
                send_evm_tx, historyVars
  <2>2. PipelineOK' BY <1>1, <1>5, <2>1, PipelineSteps
  <2>3. WatchersOK' /\ PastStays /\ reorged \subseteq reorged' BY <1>4, <2>1
  <2>4. SentInOrder' BY <1>1, <2>1, <2>3, OrderStays
  <2> QED BY <2>2, <2>3, <2>4 DEF RelayerInv
<1>6. CASE Restart BY <1>6, RestartKeeps
<1>7. ASSUME NEW c \in WatchedChains, SendEvent(c) PROVE RelayerInv' BY <1>7, SendEventKeeps
<1>8. CASE UNCHANGED relayerVars
  <2>1. /\ UNCHANGED <<chainVars, watcherVars>>
        /\ UNCHANGED <<events, batch, outbox, cmds, sent, done, earlier>>
    BY <1>8 DEF relayerVars, queueVars, dispatchVars, historyVars
  <2>2. WatchersOK' /\ PastStays /\ reorged \subseteq reorged' BY <1>4, <2>1
  <2>3. SentInOrder' BY <1>1, <2>1, <2>2, OrderStays
  <2> QED BY <1>2, <2>1, <2>2, <2>3 DEF RelayerInv
<1> QED BY <1>3, <1>5, <1>6, <1>7, <1>8 DEF RelayerNext, WatcherStep, Watches

\* The daemon loses, repeats and reorders no command between the watchers and the
\* dispatch loop, whatever the chains, the size of the batches and of the
\* channels, and the order in which its tasks run.
THEOREM RelayerIsExact == RelayerSpec => []PipelineIsExact
<1>1. RelayerInv => PipelineIsExact BY DEF RelayerInv, PipelineOK, Exact, PipelineIsExact
<1> QED BY <1>1, RelayerStarts, RelayerSteps, PTL DEF RelayerSpec

\* The epochs of each chain that does not reorganise under a subscription reach the
\* registry in their order and none twice, across restarts, lost connections and
\* both ways to watch a chain.
THEOREM RelayerKeepsEpochOrder == RelayerSpec => []EpochsAreSubmittedInOrder
<1>1. ASSUME RelayerInv PROVE EpochsAreSubmittedInOrder
  <2>1. SubmittedOK(earlier \o done) BY <1>1, SubmittedInOrder DEF RelayerInv
  <2> QED BY <2>1 DEF SubmittedOK, InOrder, ToRegistry, EpochsAreSubmittedInOrder
<1> QED BY <1>1, RelayerStarts, RelayerSteps, PTL DEF RelayerSpec
=============================================================================
