-------------------------- MODULE PrivacyPool_proofs --------------------------
(***************************************************************************)
(* Theorems about PrivacyPool, for every set of commitments, accounts,     *)
(* managers and amounts, every note value, delay, capacity and history     *)
(* size; and, first, about the library MerkleTree that keeps the pool's    *)
(* notes, for every depth, size of the ring of roots and set of leaves.    *)
(***************************************************************************)
EXTENDS PrivacyPool, MerkleTree, FiniteSetTheorems, MerkleReference_proofs,
        SequenceTheorems, TLAPS

-----------------------------------------------------------------------------
(* The library MerkleTree, whose trees hold the notes of the pool. *)

\* _zeros: the recursion has a solution.
AreZeros(z, top) ==
    z = [level \in 0..top |-> IF level = 0 THEN Zero ELSE hash(z[level - 1], z[level - 1])]

LEMMA ZerosExist == \E z : AreZeros(z, DEPTH)
<1> DEFINE S == {top \in Nat : \E z : AreZeros(z, top)}
<1>1. 0 \in S
  <2> DEFINE z == [level \in 0..0 |-> Zero]
  <2>1. AreZeros(z, 0) BY DEF AreZeros
  <2> QED BY <2>1
<1>2. ASSUME NEW top \in Nat, top \in S PROVE top + 1 \in S
  <2>1. PICK y : AreZeros(y, top) BY <1>2
  <2> DEFINE z == [level \in 0..(top + 1) |->
                     IF level = top + 1 THEN hash(y[top], y[top]) ELSE y[level]]
  <2>2. \A level \in 0..top : y[level] = IF level = 0 THEN Zero
                                         ELSE hash(y[level - 1], y[level - 1])
    BY <2>1 DEF AreZeros
  <2>3. \A level \in 0..top : z[level] = y[level] OBVIOUS
  <2>4. z[top + 1] = hash(y[top], y[top]) OBVIOUS
  <2>5. z = [level \in 0..(top + 1) |-> z[level]] OBVIOUS
  <2> HIDE DEF z
  <2>6. ASSUME NEW level \in 0..(top + 1)
        PROVE  z[level] = IF level = 0 THEN Zero ELSE hash(z[level - 1], z[level - 1])
    <3>1. CASE level = top + 1
      <4>1. level # 0 /\ level - 1 = top /\ top \in 0..top BY <3>1
      <4> QED BY <2>3, <2>4, <3>1, <4>1
    <3>2. CASE level = 0
      <4>1. level \in 0..top BY <3>2
      <4> QED BY <2>2, <2>3, <3>2, <4>1
    <3>3. CASE level # 0 /\ level # top + 1
      <4>1. level \in 0..top /\ level - 1 \in 0..top BY <3>3
      <4> QED BY <2>2, <2>3, <3>3, <4>1
    <3> QED BY <3>1, <3>2, <3>3
  <2>7. AreZeros(z, top + 1) BY <2>5, <2>6 DEF AreZeros
  <2> QED BY <2>7
<1> HIDE DEF S
<1>3. DEPTH \in S BY <1>1, <1>2, InductiveSet, MerkleTreeAssumption
<1> QED BY <1>3 DEF S

LEMMA TopZero == zeros[DEPTH] = hash(zeros[DEPTH - 1], zeros[DEPTH - 1])
<1>1. AreZeros(zeros, DEPTH)
  <2>1. zeros = CHOOSE z : AreZeros(z, DEPTH) BY Zenon DEF zeros, AreZeros
  <2> QED BY <2>1, ZerosExist
<1>2. DEPTH \in 0..DEPTH /\ DEPTH # 0 BY MerkleTreeAssumption
<1> QED BY <1>1, <1>2 DEF AreZeros

\* The tree is never empty of roots: a root is a hash.
LEMMA RootIsHash ==
    ASSUME NEW s, Len(s) \in Nat
    PROVE  \E l, r : RefRoot(s) = hash(l, r)
<1> USE MerkleTreeAssumption, PowersOfTwo
<1>1. DEPTH \in 0..DEPTH /\ DEPTH \in Nat OBVIOUS
<1>2. 0 \in 0..(Width(DEPTH, DEPTH) - 1)
  <2>1. DEPTH - DEPTH = 0 OBVIOUS
  <2> QED BY <2>1 DEF Width
<1>3. RefRoot(s) = NodeOver(s, DEPTH, zeros, DEPTH, 0)
  BY <1>1, <1>2, RootIsCell, CellValue DEF RefRoot
<1>4. CASE 0 * 2^DEPTH >= Len(s) BY <1>3, <1>4, TopZero DEF NodeOver
<1>5. CASE ~ (0 * 2^DEPTH >= Len(s)) BY <1>3, <1>5 DEF NodeOver, hash
<1> QED BY <1>4, <1>5

\* The library's storage, as the pools of the other platforms hold it.
Storage == [next |-> nextLeafIndex, filled |-> filledSubtrees, roots |-> roots,
            current |-> currentRootIndex]

\* What insert reads beside its path are nodes of the reference tree.
LeftNodes ==
    \A level \in Levels : Up(nextLeafIndex, level) % 2 = 1 =>
        filledSubtrees[level] = Cell(inserted, DEPTH, zeros, level, Up(nextLeafIndex, level) - 1)

\* The slot that was written `age' insertions ago.
SlotOf(current, age) ==
    IF age <= current THEN current - age ELSE (current - age) + ROOT_HISTORY_SIZE

\* Each slot holds the root of the version of its age, or was never written.
RingHolds ==
    \A age \in Slots :
        roots[SlotOf(currentRootIndex, age)] =
            IF age <= nextLeafIndex THEN RefRoot(SubSeq(inserted, 1, nextLeafIndex - age))
            ELSE Zero

LibraryInv ==
    /\ TreeOK(Storage, DEPTH, ROOT_HISTORY_SIZE)
    /\ inserted \in Seq(Leaves) /\ Len(inserted) = nextLeafIndex
    /\ LeftNodes
    /\ RingHolds

LEMMA LibraryStart == init => LibraryInv /\ History!HistoryInit
<1> SUFFICES ASSUME init PROVE LibraryInv /\ History!HistoryInit
  OBVIOUS
<1> USE MerkleTreeAssumption, PowersOfTwo
<1>1. /\ nextLeafIndex = 0 /\ currentRootIndex = 0 /\ inserted = << >>
      /\ roots = [slot \in Slots |-> IF slot = 0 THEN zeros[DEPTH] ELSE Zero]
  BY DEF init
<1>2. /\ Storage.next = 0 /\ Storage.current = 0 /\ Storage.roots = roots
      /\ Storage.filled = filledSubtrees
  BY <1>1 DEF Storage
<1>3. 0 \in 0..(ROOT_HISTORY_SIZE - 1) /\ 2^DEPTH \in Nat BY PowersArePositive
<1>4. Frontier(roots[0], DEPTH, 0, filledSubtrees) BY EmptyFrontier
<1>5. TreeOK(Storage, DEPTH, ROOT_HISTORY_SIZE)
  BY <1>1, <1>2, <1>3, <1>4 DEF TreeOK, Slots
<1>6. LeftNodes
  <2>1. ASSUME NEW level \in Levels PROVE Up(0, level) % 2 # 1
    <3>1. level \in 0..DEPTH BY DEF Levels
    <3>2. 2^level \in Nat \ {0} BY <3>1, PowersArePositive
    <3>3. 0 < 2^level BY <3>2
    <3>4. Up(0, level) = 0 BY <3>1, <3>3, UpNeighbours
    <3> QED BY <3>4
  <2> QED BY <1>1, <2>1 DEF LeftNodes
<1>7. RefRoot(<< >>) = zeros[DEPTH]
  <2>1. DEPTH \in 0..DEPTH /\ DEPTH \in Nat /\ DEPTH - DEPTH = 0 OBVIOUS
  <2>2. 0 \in 0..(Width(DEPTH, DEPTH) - 1) BY <2>1 DEF Width
  <2>3. Len(<< >>) = 0 OBVIOUS
  <2>4. Cell(<< >>, DEPTH, zeros, DEPTH, 0) = zeros[DEPTH] BY <2>1, <2>2, <2>3, EmptyCells
  <2> QED BY <2>4, RootIsCell DEF RefRoot
<1>8. RingHolds
  <2> SUFFICES ASSUME NEW age \in Slots
               PROVE  roots[SlotOf(0, age)] =
                        IF age <= 0 THEN RefRoot(SubSeq(<< >>, 1, 0 - age)) ELSE Zero
    BY <1>1 DEF RingHolds
  <2>1. age \in 0..(ROOT_HISTORY_SIZE - 1) BY DEF Slots
  <2>2. CASE age = 0
    <3>1. SlotOf(0, age) = 0 /\ 0 \in Slots BY <1>3, <2>2 DEF SlotOf, Slots
    <3>2. SubSeq(<< >>, 1, 0) = << >> OBVIOUS
    <3> QED BY <1>1, <1>7, <2>2, <3>1, <3>2
  <2>3. CASE age # 0
    <3>1. SlotOf(0, age) \in Slots /\ SlotOf(0, age) # 0 /\ ~ (age <= 0)
      BY <2>1, <2>3 DEF SlotOf, Slots
    <3> QED BY <1>1, <3>1
  <2> QED BY <2>2, <2>3
<1>9. CommittedLeaves = << >> BY <1>1 DEF CommittedLeaves, LeavesUnder
<1> QED BY <1>1, <1>5, <1>6, <1>8, <1>9 DEF LibraryInv, History!HistoryInit

LEMMA InsertIsShared ==
    ASSUME NEW leaf, insert(leaf)
    PROVE  Storage' = Inserted(Storage, leaf, zeros, DEPTH, ROOT_HISTORY_SIZE)
<1> DEFINE climb(n, left) == CHOOSE path : Climbs(n, leaf, left, zeros, DEPTH, path)
           path == climb(nextLeafIndex, filledSubtrees)
           filled(n, left, up) == [level \in 0..(DEPTH - 1) |->
                                     IF (n \div 2^level) % 2 = 0 THEN up[level] ELSE left[level]]
           t == Storage
<1>1. PathHash(leaf) = path BY Zenon DEF PathHash, Climbs, IsLeft, hash
<1>2. Filled(path) = filled(nextLeafIndex, filledSubtrees, path)
  <2> HIDE DEF path
  <2> QED BY Zenon DEF Filled, IsLeft, Levels
<1>3. Inserted(t, leaf, zeros, DEPTH, ROOT_HISTORY_SIZE) =
        [next    |-> t.next + 1,
         filled  |-> filled(t.next, t.filled, climb(t.next, t.filled)),
         roots   |-> [t.roots EXCEPT ![(t.current + 1) % ROOT_HISTORY_SIZE] =
                                         climb(t.next, t.filled)[DEPTH]],
         current |-> (t.current + 1) % ROOT_HISTORY_SIZE]
  <2> HIDE DEF t
  <2> QED BY Zenon DEF Inserted
<1> HIDE DEF climb, filled
<1>4. /\ t.next = nextLeafIndex /\ t.filled = filledSubtrees
      /\ t.roots = roots /\ t.current = currentRootIndex
  BY DEF Storage
<1>5. /\ nextLeafIndex' = nextLeafIndex + 1 /\ currentRootIndex' = NewRootIndex
      /\ filledSubtrees' = filled(nextLeafIndex, filledSubtrees, path)
      /\ roots' = [roots EXCEPT ![NewRootIndex] = path[DEPTH]]
  BY <1>1, <1>2 DEF insert
<1>6. Storage' = [next |-> nextLeafIndex', filled |-> filledSubtrees', roots |-> roots',
                  current |-> currentRootIndex']
  BY DEF Storage
<1> HIDE DEF t
<1>7. Inserted(t, leaf, zeros, DEPTH, ROOT_HISTORY_SIZE) =
        [next    |-> nextLeafIndex + 1,
         filled  |-> filled(nextLeafIndex, filledSubtrees, path),
         roots   |-> [roots EXCEPT ![NewRootIndex] = path[DEPTH]],
         current |-> NewRootIndex]
  BY <1>3, <1>4 DEF NewRootIndex
<1> HIDE DEF path
<1>8. Storage' = Inserted(t, leaf, zeros, DEPTH, ROOT_HISTORY_SIZE) BY <1>5, <1>6, <1>7
<1> QED BY <1>8 DEF t

\* A node that insert reads on its right is over no leaf yet.
LEMMA LibrarySiblings ==
    ASSUME LibraryInv, nextLeafIndex < 2^DEPTH
    PROVE  AreSiblings(inserted, DEPTH, zeros, nextLeafIndex, filledSubtrees, zeros)
<1> USE MerkleTreeAssumption, PowersOfTwo
<1> DEFINE n == nextLeafIndex
<1>1. n \in Nat /\ Len(inserted) = n /\ LeftNodes BY DEF LibraryInv, TreeOK, Storage
<1>2. ASSUME NEW level \in Levels, Up(n, level) % 2 = 0
      PROVE  zeros[level] = Cell(inserted, DEPTH, zeros, level, Up(n, level) + 1)
  <2> DEFINE k == Up(n, level) + 1  q == 2^level
  <2>1. level \in 0..(DEPTH - 1) /\ level \in 0..DEPTH /\ level + 1 \in 0..DEPTH BY DEF Levels
  <2>2. /\ Up(n, level) \in Nat /\ Up(n, level + 1) \in Nat
        /\ Up(n, level) = 2 * Up(n, level + 1) + (Up(n, level) % 2)
    BY <1>1, <2>1, UpHalves
  <2>3. Up(n, level + 1) \in 0..(Width(DEPTH, level + 1) - 1) BY <1>1, <2>1, UpInWidth
  <2>4. Width(DEPTH, level) = 2 * Width(DEPTH, level + 1) /\ Width(DEPTH, level + 1) \in Nat
    BY <2>1, WidthDoubles
  <2>5. k \in 0..(Width(DEPTH, level) - 1) BY <1>2, <2>2, <2>3, <2>4
  <2>6. k * q >= n
    <3>1. q \in Nat \ {0} BY <2>1, PowersArePositive
    <3>2. Up(n, level) = n \div q BY DEF Up
    <3> HIDE DEF q
    <3> DEFINE d == n \div q  r == n % q
    <3>3. d \in Nat /\ r \in 0..(q - 1) /\ n = (q * d) + r BY <1>1, <3>1, Divides
    <3> HIDE DEF d, r
    <3>4. (d + 1) * q = (q * d) + q BY <3>1, <3>3
    <3>5. (d + 1) * q >= n BY <3>1, <3>3, <3>4
    <3> QED BY <3>2, <3>5 DEF d
  <2> HIDE DEF k
  <2>7. Cell(inserted, DEPTH, zeros, level, k) = NodeOver(inserted, DEPTH, zeros, level, k)
    BY <2>1, <2>5, CellValue
  <2> QED BY <1>1, <2>6, <2>7 DEF NodeOver, k
<1>3. ASSUME NEW level \in Levels, Up(n, level) % 2 # 0
      PROVE  filledSubtrees[level] = Cell(inserted, DEPTH, zeros, level, Up(n, level) - 1)
  <2>1. level \in 0..(DEPTH - 1) BY DEF Levels
  <2>2. Up(n, level) % 2 \in {0, 1} BY <1>1, <2>1, UpHalves
  <2> QED BY <1>1, <1>3, <2>2 DEF LeftNodes
<1> QED BY <1>2, <1>3 DEF AreSiblings, Levels

\* The nodes of the reference tree after insert: those of the path are new.
CellsAfter(path) ==
    \A level \in 0..DEPTH : \A k \in 0..(Width(DEPTH, level) - 1) :
       Cell(inserted, DEPTH, zeros, level, k)' =
          IF k = Up(nextLeafIndex, level) THEN path[level]
          ELSE Cell(inserted, DEPTH, zeros, level, k)

LEMMA InsertPath ==
    ASSUME LibraryInv, NEW leaf \in Leaves, insert(leaf)
    PROVE  \E path : /\ filledSubtrees' = Filled(path)
                     /\ roots' = [roots EXCEPT ![NewRootIndex] = path[DEPTH]]
                     /\ CellsAfter(path)
<1> USE MerkleTreeAssumption, PowersOfTwo
<1> DEFINE path == CHOOSE path : Climbs(nextLeafIndex, leaf, filledSubtrees, zeros, DEPTH, path)
<1>1. PathHash(leaf) = path BY Zenon DEF PathHash, Climbs, IsLeft, hash
<1>2. nextLeafIndex \in Nat /\ nextLeafIndex < 2^DEPTH /\ DEPTH \in Nat
  BY DEF insert, LibraryInv, TreeOK, Storage
<1>3. Climbs(nextLeafIndex, leaf, filledSubtrees, zeros, DEPTH, path) BY <1>2, ClimbExists
<1> HIDE DEF path
<1>4. /\ filledSubtrees' = Filled(path)
      /\ roots' = [roots EXCEPT ![NewRootIndex] = path[DEPTH]]
      /\ inserted' = Append(inserted, leaf)
  BY <1>1 DEF insert
<1>5. inserted \in Seq(Leaves) /\ Len(inserted) = nextLeafIndex BY DEF LibraryInv
<1>6. Grows(inserted, inserted', leaf) BY <1>4, <1>5 DEF Grows
<1>7. AreSiblings(inserted, DEPTH, zeros, nextLeafIndex, filledSubtrees, zeros)
  BY <1>2, LibrarySiblings
<1> DEFINE old == inserted  grown == inserted'  n == nextLeafIndex  left == filledSubtrees
<1>8. \A level \in 0..DEPTH : \A k \in 0..(Width(DEPTH, level) - 1) :
         Cell(grown, DEPTH, zeros, level, k) =
            IF k = Up(n, level) THEN path[level] ELSE Cell(old, DEPTH, zeros, level, k)
  <2> HIDE DEF old, grown, n, left
  <2>1. /\ n \in Nat /\ n < 2^DEPTH /\ Grows(old, grown, leaf) /\ Len(old) = n
        /\ Climbs(n, leaf, left, zeros, DEPTH, path)
        /\ AreSiblings(old, DEPTH, zeros, n, left, zeros)
    BY <1>2, <1>3, <1>5, <1>6, <1>7 DEF old, grown, n, left
  <2> QED BY <2>1, InsertCells
<1>9. CellsAfter(path) BY <1>8 DEF CellsAfter
<1> QED BY <1>4, <1>9

\* insert keeps the filled subtrees and the ring of roots those of its leaves.
LEMMA NewLeftNodes ==
    ASSUME LibraryInv, NEW leaf \in Leaves, insert(leaf)
    PROVE  LeftNodes'
<1> USE MerkleTreeAssumption, PowersOfTwo
<1>1. nextLeafIndex \in Nat /\ nextLeafIndex < 2^DEPTH /\ nextLeafIndex' = nextLeafIndex + 1
  BY DEF insert, LibraryInv, TreeOK, Storage
<1>2. PICK path : filledSubtrees' = Filled(path) /\ CellsAfter(path) BY InsertPath
<1> DEFINE n == nextLeafIndex
<1> SUFFICES ASSUME NEW level \in Levels, Up(n + 1, level) % 2 = 1
             PROVE  filledSubtrees'[level] =
                       Cell(inserted', DEPTH, zeros, level, Up(n + 1, level) - 1)
  BY <1>1 DEF LeftNodes
<1>3. level \in 0..(DEPTH - 1) /\ level \in 0..DEPTH BY DEF Levels
<1>4. filledSubtrees'[level] = IF Up(n, level) % 2 = 0 THEN path[level]
                               ELSE filledSubtrees[level]
  BY <1>2 DEF Filled, IsLeft, Up
<1>5. Up(n, level) \in Nat /\ Up(n, level) % 2 \in {0, 1} BY <1>1, <1>3, UpHalves
<1>6. Up(n, level) \in 0..(Width(DEPTH, level) - 1) BY <1>1, <1>3, UpInWidth
<1>7. Up(n + 1, level) \in {Up(n, level), Up(n, level) + 1} BY <1>1, <1>3, UpNeighbours
<1>8. CASE Up(n, level) % 2 = 0
  <2>1. Up(n + 1, level) = Up(n, level) + 1 BY <1>7, <1>8
  <2>2. Up(n + 1, level) - 1 = Up(n, level) BY <1>5, <2>1
  <2>3. Cell(inserted', DEPTH, zeros, level, Up(n, level)) = path[level]
    BY <1>2, <1>3, <1>6 DEF CellsAfter
  <2> QED BY <1>4, <1>8, <2>2, <2>3
<1>9. CASE Up(n, level) % 2 = 1
  <2> DEFINE u == Up(n, level)
  <2>1. u \in Nat /\ u % 2 = 1 /\ Up(n + 1, level) \in {u, u + 1} /\ Up(n + 1, level) % 2 = 1
        /\ u \in 0..(Width(DEPTH, level) - 1)
    BY <1>5, <1>6, <1>7, <1>9
  <2> HIDE DEF u
  <2>2. (u + 1) % 2 = 0 BY <2>1
  <2>3. Up(n + 1, level) = u BY <2>1, <2>2
  <2>4. u # 0 BY <2>1
  <2>w. Width(DEPTH, level) \in Nat BY <1>3, WidthDoubles
  <2>5. u - 1 \in 0..(Width(DEPTH, level) - 1) /\ u - 1 # u BY <2>1, <2>4, <2>w
  <2>6. Cell(inserted', DEPTH, zeros, level, u - 1) = Cell(inserted, DEPTH, zeros, level, u - 1)
    BY <1>2, <1>3, <2>5 DEF CellsAfter, u
  <2>7. filledSubtrees[level] = Cell(inserted, DEPTH, zeros, level, u - 1)
    BY <1>9 DEF LibraryInv, LeftNodes, u
  <2> QED BY <1>4, <1>9, <2>3, <2>6, <2>7
<1> QED BY <1>5, <1>8, <1>9

\* The ring moves on by one slot, and every root in it ages by one insertion.
LEMMA RingMoves ==
    ASSUME NEW current \in Slots, NEW next, next = (current + 1) % ROOT_HISTORY_SIZE
    PROVE  /\ next \in Slots /\ SlotOf(next, 0) = next
           /\ \A age \in Slots : SlotOf(current, age) \in Slots
           /\ \A age \in Slots : age # 0 =>
                 /\ age - 1 \in Slots
                 /\ SlotOf(next, age) = SlotOf(current, age - 1)
                 /\ SlotOf(next, age) # next
<1> USE MerkleTreeAssumption
<1>1. current \in 0..(ROOT_HISTORY_SIZE - 1) BY DEF Slots
<1>2. next = IF current + 1 = ROOT_HISTORY_SIZE THEN 0 ELSE current + 1 BY <1>1
<1> QED BY <1>1, <1>2 DEF SlotOf, Slots

LEMMA NewRing ==
    ASSUME LibraryInv, NEW leaf \in Leaves, insert(leaf)
    PROVE  RingHolds'
<1> USE MerkleTreeAssumption, PowersOfTwo
<1>1. /\ nextLeafIndex \in Nat /\ nextLeafIndex < 2^DEPTH
      /\ currentRootIndex \in Slots /\ DOMAIN roots = Slots
      /\ inserted \in Seq(Leaves) /\ Len(inserted) = nextLeafIndex
  BY DEF insert, LibraryInv, TreeOK, Storage, Slots
<1>2. /\ nextLeafIndex' = nextLeafIndex + 1 /\ inserted' = Append(inserted, leaf)
      /\ currentRootIndex' = (currentRootIndex + 1) % ROOT_HISTORY_SIZE
  BY DEF insert, NewRootIndex
<1>3. PICK path : /\ roots' = [roots EXCEPT ![NewRootIndex] = path[DEPTH]]
                  /\ CellsAfter(path)
  BY InsertPath
<1> DEFINE n == nextLeafIndex  old == inserted  grown == inserted'
           current == currentRootIndex  next == currentRootIndex'
<1>4. RefRoot(grown) = path[DEPTH]
  <2>1. DEPTH \in 0..DEPTH OBVIOUS
  <2>2. Up(n, DEPTH) = 0 BY <1>1, <2>1, UpNeighbours
  <2>3. Up(n, DEPTH) \in 0..(Width(DEPTH, DEPTH) - 1) BY <1>1, <2>1, UpInWidth
  <2>4. Cell(grown, DEPTH, zeros, DEPTH, 0) = path[DEPTH]
    BY <1>3, <2>1, <2>2, <2>3 DEF CellsAfter
  <2> QED BY <2>4, RootIsCell DEF RefRoot
<1>5. /\ next \in Slots /\ SlotOf(next, 0) = next
      /\ \A age \in Slots : SlotOf(current, age) \in Slots
      /\ \A age \in Slots : age # 0 =>
            /\ age - 1 \in Slots
            /\ SlotOf(next, age) = SlotOf(current, age - 1)
            /\ SlotOf(next, age) # next
  <2> HIDE DEF current, next
  <2>1. current \in Slots /\ next = (current + 1) % ROOT_HISTORY_SIZE
    BY <1>1, <1>2 DEF current, next
  <2> QED BY <2>1, RingMoves
<1>6. /\ roots'[next] = RefRoot(grown)
      /\ \A slot \in Slots : slot # next => roots'[slot] = roots[slot]
  BY <1>1, <1>2, <1>3, <1>4, <1>5 DEF NewRootIndex
<1>7. \A m \in 0..n : SubSeq(grown, 1, m) = SubSeq(old, 1, m)
  <2>1. \A i \in 1..n : grown[i] = old[i] BY <1>1, <1>2
  <2> HIDE DEF grown, old, n
  <2>2. n \in Nat BY <1>1 DEF n
  <2> QED BY <2>1, <2>2, PrefixesStay
<1>8. SubSeq(grown, 1, n + 1) = grown
  <2>1. grown \in Seq(Leaves) /\ Len(grown) = n + 1 BY <1>1, <1>2
  <2> HIDE DEF grown, n
  <2> QED BY <2>1, SubSeqFull
<1> DEFINE versionRoot(s, m, age) == IF age <= m THEN RefRoot(SubSeq(s, 1, m - age)) ELSE Zero
<1>9. \A age \in Slots : roots[SlotOf(current, age)] = versionRoot(old, n, age)
  BY DEF LibraryInv, RingHolds
<1>10. ASSUME NEW age \in Slots
       PROVE  roots'[SlotOf(next, age)] = versionRoot(grown, n + 1, age)
  <2> HIDE DEF grown, old, n, current, next
  <2>0. n \in Nat /\ age \in Nat BY <1>1 DEF n, Slots
  <2>1. CASE age = 0
    <3>1. age <= n + 1 /\ (n + 1) - age = n + 1 BY <2>0, <2>1
    <3> QED BY <1>5, <1>6, <1>8, <2>1, <3>1
  <2>2. CASE age # 0
    <3>1. roots'[SlotOf(next, age)] = versionRoot(old, n, age - 1)
      <4> HIDE DEF versionRoot
      <4> QED BY <1>5, <1>6, <1>9, <2>2
    <3>2. (age - 1 <= n <=> age <= n + 1) /\ (n + 1) - age = n - (age - 1) BY <2>0, <2>2
    <3>3. age - 1 <= n => n - (age - 1) \in 0..n BY <2>0, <2>2
    <3> QED BY <1>7, <3>1, <3>2, <3>3
  <2> QED BY <2>1, <2>2
<1> QED BY <1>2, <1>10 DEF RingHolds

LEMMA LibraryStep ==
    ASSUME LibraryInv, NEW leaf \in Leaves, insert(leaf)
    PROVE  LibraryInv' /\ History!Insert(leaf)
<1> USE MerkleTreeAssumption, PowersOfTwo
<1> DEFINE t == Storage  u == Storage'
<1>1. u = Inserted(t, leaf, zeros, DEPTH, ROOT_HISTORY_SIZE) BY InsertIsShared
<1>2. /\ t.next = nextLeafIndex /\ t.roots = roots /\ t.current = currentRootIndex
      /\ u.next = nextLeafIndex' /\ u.roots = roots' /\ u.current = currentRootIndex'
  BY DEF Storage
<1>3. TreeOK(t, DEPTH, ROOT_HISTORY_SIZE) BY DEF LibraryInv
<1>4. /\ nextLeafIndex \in Nat /\ nextLeafIndex < 2^DEPTH
      /\ nextLeafIndex' = nextLeafIndex + 1 /\ inserted' = Append(inserted, leaf)
      /\ inserted \in Seq(Leaves) /\ Len(inserted) = nextLeafIndex
  BY DEF insert, LibraryInv, TreeOK, Storage
<1>5. 2^DEPTH \in Nat /\ DEPTH \in Nat BY PowersArePositive
<1>6. /\ TreeOK(u, DEPTH, ROOT_HISTORY_SIZE)
      /\ Grows(Kept(t, DEPTH), Kept(u, DEPTH), leaf)
  <2>1. t.next + 1 <= 2^DEPTH BY <1>2, <1>4, <1>5
  <2> HIDE DEF t, u
  <2> QED BY <1>1, <1>3, <1>5, <2>1, InsertedEffect
<1>7. inserted' \in Seq(Leaves) /\ Len(inserted') = nextLeafIndex' BY <1>4
<1>8. LeftNodes' /\ RingHolds' BY NewLeftNodes, NewRing
<1>9. LibraryInv' BY <1>6, <1>7, <1>8 DEF LibraryInv
<1>10. CommittedLeaves = Kept(t, DEPTH) /\ CommittedLeaves' = Kept(u, DEPTH)
  BY <1>2 DEF CommittedLeaves, Kept, getLatestRoot
<1>11. Grows(CommittedLeaves, CommittedLeaves', leaf) BY <1>6, <1>10
<1> DEFINE a == CommittedLeaves  b == CommittedLeaves'  n == nextLeafIndex
<1>12. /\ a = [i \in 1..n |-> a[i]] /\ b = [i \in 1..(n + 1) |-> b[i]]
       /\ Len(a) = n /\ Len(b) = n + 1
  BY <1>4 DEF CommittedLeaves, LeavesUnder
<1>c. Grows(a, b, leaf) BY <1>11
<1>13. Len(a) < 2^DEPTH BY <1>4, <1>12
<1>14. b = Append(a, leaf)
  <2> HIDE DEF a, b, n
  <2>1. n \in Nat BY <1>4 DEF n
  <2>2. b[n + 1] = leaf /\ \A i \in 1..n : b[i] = a[i] BY <1>c, <1>12, <2>1 DEF Grows
  <2> DEFINE S == {b[i] : i \in 1..(n + 1)}
  <2>s. \A i \in 1..(n + 1) : b[i] \in S OBVIOUS
  <2> HIDE DEF S
  <2>i. n + 1 \in 1..(n + 1) /\ \A i \in 1..n : i \in 1..(n + 1) BY <2>1
  <2>3. a \in [1..n -> S] /\ b \in [1..(n + 1) -> S] /\ leaf \in S
    <3>1. \A i \in 1..n : a[i] \in S BY <2>2, <2>s, <2>i
    <3>2. a \in [1..n -> S] BY <1>12, <3>1
    <3>3. b \in [1..(n + 1) -> S] BY <1>12, <2>s
    <3> QED BY <2>2, <2>i, <2>s, <3>2, <3>3
  <2>4. a \in Seq(S) /\ b \in Seq(S) BY <2>1, <2>3
  <2>5. /\ Append(a, leaf) \in Seq(S) /\ Len(Append(a, leaf)) = n + 1
        /\ Append(a, leaf)[n + 1] = leaf
        /\ \A i \in 1..n : Append(a, leaf)[i] = a[i]
    BY <1>12, <2>1, <2>3, <2>4
  <2>6. ASSUME NEW i \in 1..Len(b) PROVE b[i] = Append(a, leaf)[i]
    <3>1. i \in 1..n \/ i = n + 1 BY <1>12, <2>1
    <3> QED BY <2>2, <2>5, <3>1
  <2> QED BY <1>12, <2>4, <2>5, <2>6, SeqEqual
<1> QED BY <1>9, <1>13, <1>14 DEF History!Insert

LEMMA LibraryStutters ==
    ASSUME LibraryInv, UNCHANGED treeVars
    PROVE  LibraryInv' /\ UNCHANGED CommittedLeaves
<1>1. /\ nextLeafIndex' = nextLeafIndex /\ filledSubtrees' = filledSubtrees
      /\ roots' = roots /\ currentRootIndex' = currentRootIndex /\ inserted' = inserted
  BY DEF treeVars
<1>2. Storage' = Storage BY <1>1 DEF Storage
<1>3. LeftNodes' /\ RingHolds' BY <1>1 DEF LibraryInv, LeftNodes, RingHolds
<1>4. LibraryInv' BY <1>1, <1>2, <1>3 DEF LibraryInv
<1>5. UNCHANGED CommittedLeaves BY <1>1 DEF CommittedLeaves, getLatestRoot
<1> QED BY <1>4, <1>5

LEMMA LibraryAlways == TreeSpec => []LibraryInv
<1>1. ASSUME LibraryInv, [TreeNext]_treeVars PROVE LibraryInv'
  <2>1. CASE TreeNext
    <3>1. PICK leaf \in Leaves : insert(leaf) BY <2>1 DEF TreeNext
    <3> QED BY <1>1, <3>1, LibraryStep
  <2>2. CASE UNCHANGED treeVars BY <1>1, <2>2, LibraryStutters
  <2> QED BY <1>1, <2>1, <2>2
<1> QED BY <1>1, LibraryStart, PTL DEF TreeSpec

\* The incremental tree of the library is the append-only list of RootHistory:
\* whatever leaves are inserted, the latest root commits to exactly the leaves
\* inserted so far, in order, and an insertion is refused once the tree is full.
THEOREM LibraryImplementsRootHistory == TreeSpec => ImplementsRootHistory
<1>1. ASSUME LibraryInv, [TreeNext]_treeVars
      PROVE  [History!HistoryNext]_CommittedLeaves
  <2>1. CASE TreeNext
    <3>1. PICK leaf \in Leaves : insert(leaf) BY <2>1 DEF TreeNext
    <3>2. History!Insert(leaf) BY <1>1, <3>1, LibraryStep
    <3> QED BY <3>2 DEF History!HistoryNext
  <2>2. CASE UNCHANGED treeVars BY <1>1, <2>2, LibraryStutters
  <2> QED BY <1>1, <2>1, <2>2
<1>2. init => History!HistoryInit BY LibraryStart
<1> QED BY <1>1, <1>2, LibraryAlways, PTL DEF TreeSpec, ImplementsRootHistory, History!HistorySpec

\* isKnownRoot accepts the roots of the last ROOT_HISTORY_SIZE versions of the
\* tree and no older one, whatever the depth, the size of the ring and the leaves;
\* the hash function is only asked never to return zero.
THEOREM LibraryKnowsTheRecentRoots ==
    ASSUME \A l, r : hash(l, r) # Zero
    PROVE  TreeSpec => []KnownRootsAreTheRecentOnes
<1> USE MerkleTreeAssumption
<1>1. ASSUME LibraryInv PROVE KnownRootsAreTheRecentOnes
  <2> DEFINE n == nextLeafIndex  current == currentRootIndex
             root(v) == RefRoot(SubSeq(inserted, 1, v))
  <2>1. /\ n \in Nat /\ current \in 0..(ROOT_HISTORY_SIZE - 1)
        /\ inserted \in Seq(Leaves) /\ Len(inserted) = n
    BY <1>1 DEF LibraryInv, TreeOK, Storage
  <2>2. ASSUME NEW v \in 0..n PROVE root(v) # Zero
    <3>1. Len(SubSeq(inserted, 1, v)) \in Nat BY <2>1
    <3> QED BY <3>1, RootIsHash
  <2>3. \A age \in Slots : roots[SlotOf(current, age)] =
           IF age <= n THEN root(n - age) ELSE Zero
    BY <1>1 DEF LibraryInv, RingHolds
  <2>4. \A w : w \in History!KnownVersions(n) <=> w \in 0..n /\ w + ROOT_HISTORY_SIZE > n
    BY DEF History!KnownVersions
  <2> HIDE DEF root, n, current
  <2>5. ASSUME NEW v \in 0..n, NEW slot \in Slots, roots[slot] = root(v)
        PROVE  \E w \in History!KnownVersions(n) : root(w) = root(v)
    <3> DEFINE age == IF slot <= current THEN current - slot
                      ELSE (current - slot) + ROOT_HISTORY_SIZE
    <3>1. age \in Slots /\ SlotOf(current, age) = slot BY <2>1 DEF Slots, SlotOf
    <3>2. age \in Nat /\ age < ROOT_HISTORY_SIZE BY <3>1 DEF Slots
    <3> HIDE DEF age
    <3>3. age <= n BY <2>2, <2>3, <2>5, <3>1
    <3>4. root(n - age) = root(v) BY <2>3, <2>5, <3>1, <3>3
    <3>5. n - age \in 0..n /\ (n - age) + ROOT_HISTORY_SIZE > n BY <2>1, <3>2, <3>3
    <3> QED BY <2>4, <3>4, <3>5
  <2>6. ASSUME NEW v \in 0..n, NEW w \in History!KnownVersions(n), root(w) = root(v)
        PROVE  \E slot \in Slots : roots[slot] = root(v)
    <3> DEFINE age == n - w
    <3>1. age \in Slots /\ age <= n /\ n - age = w BY <2>1, <2>4 DEF Slots
    <3>2. SlotOf(current, age) \in Slots BY <2>1, <3>1 DEF Slots, SlotOf
    <3> HIDE DEF age
    <3> QED BY <2>3, <2>6, <3>1, <3>2
  <2>7. \A v \in 0..n : isKnownRoot(root(v)) <=>
           \E w \in History!KnownVersions(n) : root(w) = root(v)
    BY <2>2, <2>5, <2>6 DEF isKnownRoot
  <2> QED BY <2>7 DEF KnownRootsAreTheRecentOnes, root, n
<1> QED BY <1>1, LibraryAlways, PTL

USE PoolAssumption, HistoryAssumption

-----------------------------------------------------------------------------
(* Type correctness. *)

LEMMA NoRecordType == NoRecord \in CommitRecord
  BY DEF NoRecord, CommitRecord

LEMMA InitTypeOK == Init => TypeOK
  <1> SUFFICES ASSUME Init PROVE TypeOK
    OBVIOUS
  <1>1. /\ leaves \in Seq(Leaf) /\ Len(leaves) <= Capacity
        /\ denominationTiers \in Seq(Nat)
    BY DEF Init, HistoryInit
  <1>2. /\ guardian \in Address /\ paused \in BOOLEAN
        /\ lastPauseTime \in Nat /\ pauseCount \in Nat
    <2>1. PICK g \in Admins : _initPause(g)
      BY DEF Init
    <2> QED
      BY <2>1 DEF _initPause
  <1>3. pendingCommits \in [CommitHashes -> CommitRecord]
    BY NoRecordType DEF Init
  <1> QED
    <2>1. /\ registrations \in [EpochManagers -> [Leaf -> Nat]]
          /\ timesSpent \in [Leaf -> Nat] /\ wraps \in Int
          /\ blocked \in [ComplianceOracles -> SUBSET Address]
      BY DEF Init
    <2> QED
      BY <1>1, <1>2, <1>3, <2>1 DEF Init, TypeOK

LEMMA DepositTypeOK == TypeOK /\ DepositStep => TypeOK'
  <1> SUFFICES ASSUME TypeOK, DepositStep PROVE TypeOK'
    OBVIOUS
  <1>1. ASSUME NEW c \in Leaf, NEW amount \in PaidFor(c), deposit(c, amount)
        PROVE  TypeOK'
    <2>1. amount \in 0..MaxValue
      BY <1>1 DEF PaidFor
    <2>2. /\ Insert(c) /\ commitmentExists' = commitmentExists \cup {c}
          /\ poolBalance' = poolBalance + amount /\ ethBalance' = ethBalance + amount
          /\ UNCHANGED <<nullifierSpent, registrations, timesSpent, wraps,
                         pendingCommits, status, adminVars, otherVars, pauseVars,
                         governance, now>>
      BY <1>1 DEF deposit
    <2>3. /\ leaves' \in Seq(Leaf) /\ Len(leaves') <= Capacity
          /\ poolBalance' \in Nat /\ ethBalance' \in Nat
      BY <2>1, <2>2 DEF TypeOK, Insert
    <2> QED
      BY <2>2, <2>3 DEF TypeOK, adminVars, otherVars, pauseVars
  <1>2. ASSUME NEW sender \in Address, NEW h \in CommitHashes,
               NEW value \in PaidFor(Opening[h]), commitDeposit(sender, h, value)
        PROVE  TypeOK'
    <2>1. value \in 0..MaxValue
      BY <1>2 DEF PaidFor
    <2>2. ethBalance' = ethBalance + value /\ ethBalance' \in Nat
      BY <1>2, <2>1 DEF commitDeposit, TypeOK
    <2> DEFINE record == [depositor |-> sender, value |-> value, blockNumber |-> now,
                          revealed |-> FALSE]
    <2>3. now \in Nat BY DEF TypeOK
    <2>4. record \in CommitRecord BY <2>1, <2>3 DEF CommitRecord
    <2> HIDE DEF record
    <2>5. pendingCommits' = [pendingCommits EXCEPT ![h] = record]
      BY <1>2 DEF commitDeposit, record
    <2>6. pendingCommits' \in [CommitHashes -> CommitRecord]
      BY <2>4, <2>5 DEF TypeOK
    <2>7. UNCHANGED <<noteVars, commitmentExists, poolBalance, status, adminVars,
                      otherVars, pauseVars, governance, now>>
      BY <1>2 DEF commitDeposit
    <2> QED
      BY <2>2, <2>6, <2>7 DEF TypeOK, noteVars, adminVars, otherVars, pauseVars
  <1>3. ASSUME NEW sender \in Address, NEW h \in CommitHashes,
               revealDeposit(sender, h)
        PROVE  TypeOK'
    <2>1. pendingCommits[h] \in CommitRecord
      BY DEF TypeOK
    <2>2. pendingCommits' \in [CommitHashes -> CommitRecord]
      BY <1>3, <2>1 DEF revealDeposit, TypeOK, CommitRecord
    <2>3. /\ pendingCommits[h].value \in Nat
          /\ Opening[h] \in Leaf
      BY <2>1 DEF CommitRecord
    <2>4. /\ poolBalance' = poolBalance + pendingCommits[h].value
          /\ commitmentExists' = commitmentExists \cup {Opening[h]}
          /\ Insert(Opening[h])
          /\ UNCHANGED <<nullifierSpent, registrations, timesSpent, wraps, ethBalance,
                         status, adminVars, otherVars, pauseVars, governance, now>>
      BY <1>3 DEF revealDeposit
    <2>5. /\ leaves' \in Seq(Leaf) /\ Len(leaves') <= Capacity
          /\ poolBalance' \in Nat
      BY <2>3, <2>4 DEF TypeOK, Insert
    <2> QED
      BY <2>2, <2>3, <2>4, <2>5 DEF TypeOK, adminVars, otherVars, pauseVars
  <1>4. ASSUME NEW sender \in Address, NEW h \in CommitHashes,
               reclaimExpiredCommit(sender, h)
        PROVE  TypeOK'
    <2>1. pendingCommits[h] \in CommitRecord
      BY DEF TypeOK
    <2>2. ethBalance' \in Nat
      <3>1. pendingCommits[h].value \in Nat BY <2>1 DEF CommitRecord
      <3>2. /\ ethBalance >= pendingCommits[h].value
            /\ ethBalance' = ethBalance - pendingCommits[h].value
        BY <1>4 DEF reclaimExpiredCommit
      <3>3. ethBalance \in Nat BY DEF TypeOK
      <3> QED BY <3>1, <3>2, <3>3
    <2> QED
      BY <1>4, <2>2, NoRecordType
         DEF reclaimExpiredCommit, TypeOK, noteVars, adminVars, otherVars,
             pauseVars
  <1> QED
    BY <1>1, <1>2, <1>3, <1>4 DEF DepositStep

LEMMA OccurrencesType ==
  ASSUME NEW pair
  PROVE  /\ Occurrences(pair) \in [Leaf -> 0..2]
         /\ Occurrences(pair) \in [Leaf -> Nat]
  BY DEF Occurrences

LEMMA CountsAdd ==
  ASSUME NEW f \in [Leaf -> Nat], NEW g \in [Leaf -> Nat]
  PROVE  [n \in Leaf |-> f[n] + g[n]] \in [Leaf -> Nat]
  OBVIOUS

LEMMA SpendTypeOK == TypeOK /\ SpendStep => TypeOK'
  <1> SUFFICES ASSUME TypeOK, SpendStep PROVE TypeOK'
    OBVIOUS
  <1>1. PICK root \in KnownVersions(Len(leaves)) :
        \E nullifiers \in Committed(root) \X Committed(root),
           outputs \in Leaf \X Leaf :
             \/ transfer(root, nullifiers, outputs)
             \/ \E recipient \in Address, exitValue \in Amounts :
                   withdraw(root, nullifiers, outputs, recipient, exitValue)
    BY DEF SpendStep
  <1>2. Committed(root) \subseteq Leaf
    BY DEF Committed, KnownVersions, TypeOK
  <1>3. PICK nullifiers \in Leaf \X Leaf, outputs \in Leaf \X Leaf :
             \/ transfer(root, nullifiers, outputs)
             \/ \E recipient \in Address, exitValue \in Amounts :
                   withdraw(root, nullifiers, outputs, recipient, exitValue)
    BY <1>1, <1>2
  <1>4. ASSUME _checkAndSpendNullifiers(nullifiers), insertOutputs(outputs)
        PROVE  /\ nullifierSpent' \in SUBSET Leaf
               /\ timesSpent' \in [Leaf -> Nat]
               /\ registrations' \in [EpochManagers -> [Leaf -> Nat]]
               /\ leaves' \in Seq(Leaf) /\ Len(leaves') <= Capacity
    <2>1. nullifiers[1] \in Leaf /\ nullifiers[2] \in Leaf
      OBVIOUS
    <2>2. nullifierSpent' \in SUBSET Leaf
      BY <1>4, <2>1 DEF TypeOK, _checkAndSpendNullifiers
    <2> DEFINE occ == Occurrences(nullifiers)
    <2>a. /\ timesSpent' = [n \in Leaf |-> timesSpent[n] + occ[n]]
          /\ registrations' =
                [m \in EpochManagers |->
                    IF m # epochManager THEN registrations[m]
                    ELSE [n \in Leaf |-> registrations[m][n] + occ[n]]]
      BY <1>4 DEF _checkAndSpendNullifiers
    <2>b. occ \in [Leaf -> Nat]
      BY OccurrencesType
    <2> HIDE DEF occ
    <2>3. timesSpent' \in [Leaf -> Nat]
      <3>1. timesSpent \in [Leaf -> Nat]
        BY DEF TypeOK
      <3> QED
        BY <2>a, <2>b, <3>1, CountsAdd
    <2>4. registrations' \in [EpochManagers -> [Leaf -> Nat]]
      <3>1. \A m \in EpochManagers : registrations[m] \in [Leaf -> Nat]
        BY DEF TypeOK
      <3>2. ASSUME NEW m \in EpochManagers
            PROVE  [n \in Leaf |-> registrations[m][n] + occ[n]] \in [Leaf -> Nat]
        <4> DEFINE f == registrations[m]
        <4>1. f \in [Leaf -> Nat]
          BY <3>1
        <4> HIDE DEF f
        <4>2. [n \in Leaf |-> f[n] + occ[n]] \in [Leaf -> Nat]
          BY <2>b, <4>1, CountsAdd
        <4> QED
          BY <4>2 DEF f
      <3> DEFINE R(m) == IF m # epochManager THEN registrations[m]
                         ELSE [n \in Leaf |-> registrations[m][n] + occ[n]]
      <3>3. ASSUME NEW m \in EpochManagers PROVE R(m) \in [Leaf -> Nat]
        <4>1. CASE m # epochManager
          BY <3>1, <4>1, Zenon
        <4>2. CASE m = epochManager
          BY <3>2, <4>2, Zenon
        <4> QED
          BY <4>1, <4>2
      <3>4. registrations' = [m \in EpochManagers |-> R(m)]
        BY <2>a
      <3> HIDE DEF R
      <3> QED
        BY <3>3, <3>4
    <2>5. leaves' \in Seq(Leaf) /\ Len(leaves') <= Capacity
      BY <1>4 DEF TypeOK, insertOutputs
    <2> QED
      BY <2>2, <2>3, <2>4, <2>5
  <1>w. \A v \in Leaf : NoteValue[v] \in Int
    OBVIOUS
  <1>v. ASSUME NEW exitValue \in 0..MaxValue,
               countWraps(nullifiers, outputs, exitValue)
        PROVE  wraps' \in Int
    <2> DEFINE x == Excess(nullifiers, outputs, exitValue)
    <2>1. x \in Int
      <3>1. /\ NoteValue[outputs[1]] \in Int /\ NoteValue[outputs[2]] \in Int
            /\ NoteValue[nullifiers[1]] \in Int /\ NoteValue[nullifiers[2]] \in Int
        BY <1>w
      <3> QED
        BY <3>1 DEF Excess
    <2>2. wraps' = wraps + x \div FieldOrder /\ wraps \in Int
      BY <1>v DEF countWraps, TypeOK
    <2> HIDE DEF x
    <2> QED
      BY <2>1, <2>2, FieldAssumption
  <1>5. CASE transfer(root, nullifiers, outputs)
    <2>1. wraps' \in Int
      BY <1>v, <1>5 DEF transfer
    <2>2. /\ UNCHANGED <<commitmentExists, fundVars, pendingCommits, status,
                          adminVars, otherVars, pauseVars, governance, now>>
          /\ _checkAndSpendNullifiers(nullifiers) /\ insertOutputs(outputs)
      BY <1>5 DEF transfer
    <2> QED
      BY <1>4, <2>1, <2>2 DEF TypeOK, fundVars, adminVars, otherVars, pauseVars
  <1>6. ASSUME NEW recipient \in Address, NEW exitValue \in Amounts,
               withdraw(root, nullifiers, outputs, recipient, exitValue)
        PROVE  TypeOK'
    <2>1. poolBalance' \in Nat /\ ethBalance' \in Nat
      BY <1>6 DEF withdraw, TypeOK
    <2>2. wraps' \in Int
      BY <1>v, <1>6 DEF withdraw
    <2>3. /\ UNCHANGED <<commitmentExists, pendingCommits, adminVars, otherVars,
                          pauseVars, governance, now>>
          /\ status' \in {"NOT_ENTERED", "ENTERED"}
          /\ _checkAndSpendNullifiers(nullifiers) /\ insertOutputs(outputs)
      BY <1>6 DEF withdraw
    <2> QED
      BY <1>4, <2>1, <2>2, <2>3 DEF TypeOK, adminVars, otherVars, pauseVars
  <1> QED
    BY <1>3, <1>5, <1>6

LEMMA AdminTypeOK == TypeOK /\ AdminStep => TypeOK'
  <1> SUFFICES ASSUME TypeOK, NEW sender \in Address,
                      \/ \E m \in EpochManagers \cup {NoAddress} :
                            setEpochManager(sender, m)
                      \/ \E g \in Admins : setGovernance(sender, g)
                      \/ \E o \in ComplianceOracles \cup {NoAddress} :
                            setComplianceOracle(sender, o)
                      \/ \E d \in TierLists : enableFixedDenominations(sender, d)
                      \/ disableFixedDenominations(sender)
                      \/ PauseStep(sender)
               PROVE  TypeOK'
    BY DEF AdminStep
  <1> USE DEF coreVars, noteVars, fundVars, otherVars, TypeOK
  <1>1. ASSUME NEW m \in EpochManagers \cup {NoAddress}, setEpochManager(sender, m)
        PROVE  TypeOK'
    BY <1>1 DEF setEpochManager, pauseVars
  <1>2. ASSUME NEW g \in Admins, setGovernance(sender, g)
        PROVE  TypeOK'
    BY <1>2 DEF setGovernance, adminVars, pauseVars
  <1>3. ASSUME NEW o \in ComplianceOracles \cup {NoAddress},
               setComplianceOracle(sender, o)
        PROVE  TypeOK'
    BY <1>3 DEF setComplianceOracle, pauseVars
  <1>4. ASSUME NEW d \in TierLists, enableFixedDenominations(sender, d)
        PROVE  TypeOK'
    <2>1. d \in Seq(Nat) /\ \A i \in 1..Len(d) : d[i] \in Nat
      OBVIOUS
    <2>2. allowedDenomination' \in SUBSET Nat
      <3> DEFINE new == {d[i] : i \in 1..Len(d)}
                 old == {denominationTiers[i] : i \in 1..Len(denominationTiers)}
      <3>1. allowedDenomination' = (allowedDenomination \ old) \cup new
        BY <1>4 DEF enableFixedDenominations
      <3>2. new \subseteq Nat
        BY <2>1, SMTT(30)
      <3> HIDE DEF new, old
      <3> QED
        BY <3>1, <3>2
    <2>3. denominationTiers' \in Seq(Nat) /\ fixedDenominationsEnabled' \in BOOLEAN
      BY <1>4, <2>1 DEF enableFixedDenominations
    <2> QED
      BY <1>4, <2>2, <2>3 DEF enableFixedDenominations, pauseVars
  <1>5. ASSUME disableFixedDenominations(sender)
        PROVE  TypeOK'
    BY <1>5 DEF disableFixedDenominations, pauseVars
  <1>6. ASSUME PauseStep(sender)
        PROVE  TypeOK'
    <2>1. UNCHANGED <<coreVars, adminVars, otherVars, governance>>
      BY <1>6 DEF PauseStep
    <2>2. /\ paused' \in BOOLEAN /\ guardian' \in Address
          /\ lastPauseTime' \in Nat /\ pauseCount' \in Nat
      <3>1. CASE pause(sender)
        BY <3>1 DEF pause
      <3>2. CASE unpause(sender)
        BY <3>2 DEF unpause
      <3>3. ASSUME NEW g \in Admins, setGuardian(sender, g)
            PROVE  /\ paused' \in BOOLEAN /\ guardian' \in Address
                   /\ lastPauseTime' \in Nat /\ pauseCount' \in Nat
        BY <3>3 DEF setGuardian
      <3> QED
        BY <1>6, <3>1, <3>2, <3>3 DEF PauseStep
    <2> QED
      BY <2>1, <2>2 DEF adminVars
  <1> QED
    BY <1>1, <1>2, <1>3, <1>4, <1>5, <1>6

LEMMA NextTypeOK == TypeOK /\ [Next]_vars => TypeOK'
  <1> SUFFICES ASSUME TypeOK, [Next]_vars PROVE TypeOK'
    OBVIOUS
  <1>1. CASE callReturns
    BY <1>1 DEF callReturns, TypeOK, noteVars, fundVars, adminVars, otherVars,
                pauseVars
  <1>2. CASE Environment
    <2>1. UNCHANGED <<coreVars, adminVars, pauseVars, governance>>
      BY <1>2 DEF Environment
    <2>2. authorizedIn' \in SUBSET EpochManagers
      BY <1>2 DEF Environment, TypeOK
    <2>3. blocked' \in [ComplianceOracles -> SUBSET Address]
      BY <1>2 DEF Environment, TypeOK
    <2> QED
      BY <2>1, <2>2, <2>3 DEF TypeOK, coreVars, noteVars, fundVars, adminVars,
                              pauseVars
  <1>3. CASE NextBlock
    BY <1>3 DEF NextBlock, TypeOK, noteVars, fundVars, adminVars, otherVars,
                pauseVars
  <1>4. CASE UNCHANGED vars
    BY <1>4 DEF vars, TypeOK, noteVars, fundVars, adminVars, otherVars, pauseVars
  <1> QED
    BY <1>1, <1>2, <1>3, <1>4, DepositTypeOK, SpendTypeOK, AdminTypeOK DEF Next

\* Every reachable state of the pool is well typed: poolBalance and the ether
\* balance, which the code subtracts from, never go below zero, and the tree
\* never exceeds its capacity.
THEOREM PoolTypeCorrect == Spec => []TypeOK
  BY InitTypeOK, NextTypeOK, PTL DEF Spec

-----------------------------------------------------------------------------
(* Sums as numbers of coins. *)

LEMMA CoinsFinite ==
  ASSUME NEW S, IsFiniteSet(S), NEW v
  PROVE  /\ IsFiniteSet(Coins(S, v))
         /\ Total(S, v) \in Nat
  <1>1. IsFiniteSet(1..MaxValue)
    BY FS_Interval
  <1>2. IsFiniteSet(S \X (1..MaxValue))
    BY <1>1, FS_Product
  <1>3. Coins(S, v) \in SUBSET (S \X (1..MaxValue))
    BY DEF Coins
  <1> QED
    BY <1>2, <1>3, FS_Subset, FS_CardinalityType DEF Total

LEMMA TotalMono ==
  ASSUME NEW T, IsFiniteSet(T), NEW S \in SUBSET T, NEW v
  PROVE  Total(S, v) <= Total(T, v)
  <1>1. Coins(S, v) \in SUBSET Coins(T, v)
    BY DEF Coins
  <1> QED
    BY <1>1, CoinsFinite, FS_Subset DEF Total

LEMMA TotalEmpty ==
  ASSUME NEW S, IsFiniteSet(S), NEW v, \A x \in S : v[x] = 0
  PROVE  Total(S, v) = 0
  <1>1. Coins(S, v) = {}
    BY DEF Coins
  <1> QED
    BY <1>1, FS_EmptySet DEF Total

LEMMA TotalOne ==
  ASSUME NEW x, NEW v, v[x] \in 0..MaxValue
  PROVE  Total({x}, v) = v[x]
  <1>0. v[x] \in Nat
    OBVIOUS
  <1>1. Coins({x}, v) = {x} \X (1..v[x])
    BY DEF Coins
  <1>2. IsFiniteSet({x}) /\ Cardinality({x}) = 1
    BY FS_Singleton
  <1>3. IsFiniteSet(1..v[x]) /\ Cardinality(1..v[x]) = v[x]
    <2> DEFINE k == v[x]
    <2>1. k \in Nat /\ 1 \in Int
      BY <1>0
    <2> HIDE DEF k
    <2>a. \A b \in Int : /\ IsFiniteSet(1..b)
                         /\ Cardinality(1..b) = IF 1 > b THEN 0 ELSE b-1+1
      BY <2>1, FS_Interval, Zenon
    <2>2. /\ IsFiniteSet(1..k)
          /\ Cardinality(1..k) = IF 1 > k THEN 0 ELSE k-1+1
      BY <2>1, <2>a
    <2>3. Cardinality(1..k) = k
      BY <2>1, <2>2
    <2> QED
      BY <2>2, <2>3 DEF k
  <1>4. Cardinality({x} \X (1..v[x])) = Cardinality({x}) * Cardinality(1..v[x])
    BY <1>2, <1>3, FS_Product
  <1>5. Cardinality({x} \X (1..v[x])) = v[x]
    BY <1>0, <1>2, <1>3, <1>4
  <1> QED
    BY <1>1, <1>5 DEF Total

LEMMA TotalAdd ==
  ASSUME NEW S, IsFiniteSet(S), NEW x, x \notin S, NEW v, v[x] \in 0..MaxValue
  PROVE  Total(S \cup {x}, v) = Total(S, v) + v[x]
  <1>1. Coins(S \cup {x}, v) = Coins(S, v) \cup Coins({x}, v)
    BY DEF Coins
  <1>2. Coins(S, v) \cap Coins({x}, v) = {}
    BY DEF Coins
  <1>3. /\ IsFiniteSet(Coins(S, v)) /\ Cardinality(Coins(S, v)) \in Nat
        /\ IsFiniteSet(Coins({x}, v)) /\ Cardinality(Coins({x}, v)) \in Nat
    BY CoinsFinite, FS_Singleton DEF Total
  <1>4. Cardinality(Coins(S, v) \cap Coins({x}, v)) = 0
    BY <1>2, FS_EmptySet
  <1>5. Cardinality(Coins(S \cup {x}, v))
          = Cardinality(Coins(S, v)) + Cardinality(Coins({x}, v))
    <2> DEFINE A == Coins(S, v)
               B == Coins({x}, v)
    <2>1. /\ IsFiniteSet(A) /\ Cardinality(A) \in Nat
          /\ IsFiniteSet(B) /\ Cardinality(B) \in Nat
          /\ Cardinality(A \cap B) = 0
      BY <1>3, <1>4
    <2> HIDE DEF A, B
    <2>2. Cardinality(A \cup B)
            = Cardinality(A) + Cardinality(B) - Cardinality(A \cap B)
      BY <2>1, FS_Union
    <2>3. Cardinality(A \cup B) = Cardinality(A) + Cardinality(B)
      BY <2>1, <2>2
    <2> QED
      BY <1>1, <2>3 DEF A, B
  <1>6. Cardinality(Coins({x}, v)) = v[x]
    BY TotalOne DEF Total
  <1> QED
    BY <1>5, <1>6 DEF Total

\* Adding an item that may be there already adds at most its value.
LEMMA TotalAddAtMost ==
  ASSUME NEW S, IsFiniteSet(S), NEW x, NEW v, v[x] \in 0..MaxValue
  PROVE  Total(S \cup {x}, v) <= Total(S, v) + v[x]
  <1>0. v[x] \in Nat /\ Total(S, v) \in Nat
    BY CoinsFinite
  <1>1. CASE x \in S
    <2>1. S \cup {x} = S
      BY <1>1
    <2>2. Total(S \cup {x}, v) = Total(S, v)
      BY <2>1
    <2> QED
      BY <1>0, <2>2
  <1>2. CASE x \notin S
    <2>1. Total(S \cup {x}, v) = Total(S, v) + v[x]
      BY <1>2, TotalAdd
    <2> QED
      BY <1>0, <2>1
  <1> QED
    BY <1>1, <1>2

\* Removing an item removes its value.
LEMMA TotalRemove ==
  ASSUME NEW S, IsFiniteSet(S), NEW x \in S, NEW v, v[x] \in 0..MaxValue
  PROVE  Total(S, v) = Total(S \ {x}, v) + v[x]
  <1>1. (S \ {x}) \cup {x} = S
    OBVIOUS
  <1>2. IsFiniteSet(S \ {x})
    BY FS_RemoveElement
  <1> QED
    BY <1>1, <1>2, TotalAdd

\* Changing the value of one item changes the sum by the difference.
LEMMA TotalChange ==
  ASSUME NEW S, IsFiniteSet(S), NEW x \in S, NEW v, NEW w,
         v[x] \in 0..MaxValue, w[x] \in 0..MaxValue,
         \A y \in S \ {x} : v[y] = w[y]
  PROVE  Total(S, w) + v[x] = Total(S, v) + w[x]
  <1>1. Coins(S \ {x}, v) = Coins(S \ {x}, w)
    BY DEF Coins
  <1>2. IsFiniteSet(S \ {x})
    BY FS_RemoveElement
  <1>3. Total(S \ {x}, v) \in Nat /\ Total(S \ {x}, v) = Total(S \ {x}, w)
    BY <1>1, <1>2, CoinsFinite DEF Total
  <1>4. /\ Total(S, v) = Total(S \ {x}, v) + v[x]
        /\ Total(S, w) = Total(S \ {x}, w) + w[x]
    BY TotalRemove
  <1>5. v[x] \in Nat /\ w[x] \in Nat
    OBVIOUS
  <1> QED
    BY <1>3, <1>4, <1>5

-----------------------------------------------------------------------------
(* Every step except a deposit or a spend leaves notes and funds alone. *)

LEMMA QuietSteps ==
  ASSUME [Next]_vars
  PROVE  \/ DepositStep
         \/ SpendStep
         \/ UNCHANGED <<noteVars, commitmentExists, fundVars, pendingCommits>>
  <1>1. CASE callReturns
    BY <1>1 DEF callReturns
  <1>2. CASE AdminStep
    BY <1>2 DEF AdminStep, setEpochManager, setGovernance, setComplianceOracle,
                enableFixedDenominations, disableFixedDenominations, PauseStep,
                coreVars
  <1>3. CASE Environment
    BY <1>3 DEF Environment, coreVars
  <1>4. CASE NextBlock
    BY <1>4 DEF NextBlock
  <1>5. CASE UNCHANGED vars
    BY <1>5 DEF vars
  <1> QED
    BY <1>1, <1>2, <1>3, <1>4, <1>5 DEF Next

\* The parts of a spend that the invariants depend on.
LEMMA SpendSteps ==
  ASSUME TypeOK, SpendStep
  PROVE  \E root \in 0..Len(leaves), nullifiers \in Leaf \X Leaf,
            outputs \in Leaf \X Leaf, exitValue \in 0..MaxValue :
           /\ _checkAndSpendNullifiers(nullifiers)
           /\ verifyProof(root, nullifiers, outputs, exitValue)
           /\ insertOutputs(outputs)
           /\ countWraps(nullifiers, outputs, exitValue)
           /\ exitValue <= poolBalance /\ exitValue <= ethBalance
           /\ poolBalance' = poolBalance - exitValue
           /\ ethBalance' = ethBalance - exitValue
           /\ UNCHANGED <<commitmentExists, pendingCommits>>
  <1>1. PICK root \in KnownVersions(Len(leaves)) :
        \E nullifiers \in Committed(root) \X Committed(root),
           outputs \in Leaf \X Leaf :
             \/ transfer(root, nullifiers, outputs)
             \/ \E recipient \in Address, exitValue \in Amounts :
                   withdraw(root, nullifiers, outputs, recipient, exitValue)
    BY DEF SpendStep
  <1>2. Committed(root) \subseteq Leaf /\ root \in 0..Len(leaves)
    <2>1. root \in 0..Len(leaves) BY DEF KnownVersions
    <2>2. leaves \in Seq(Leaf) BY DEF TypeOK
    <2>3. ASSUME NEW i \in 1..root PROVE leaves[i] \in Leaf BY <2>1, <2>2
    <2> QED BY <2>1, <2>3 DEF Committed
  <1>3. PICK nullifiers \in Leaf \X Leaf, outputs \in Leaf \X Leaf :
             \/ transfer(root, nullifiers, outputs)
             \/ \E recipient \in Address, exitValue \in Amounts :
                   withdraw(root, nullifiers, outputs, recipient, exitValue)
    BY <1>1, <1>2
  <1>4. CASE transfer(root, nullifiers, outputs)
    <2>1. /\ _checkAndSpendNullifiers(nullifiers)
          /\ verifyProof(root, nullifiers, outputs, 0)
          /\ insertOutputs(outputs)
          /\ countWraps(nullifiers, outputs, 0)
          /\ UNCHANGED <<commitmentExists, fundVars, pendingCommits>>
      BY <1>4 DEF transfer
    <2>2. /\ 0 \in 0..MaxValue /\ 0 <= poolBalance /\ 0 <= ethBalance
          /\ poolBalance' = poolBalance - 0 /\ ethBalance' = ethBalance - 0
      BY <2>1 DEF fundVars, TypeOK
    <2> QED
      BY <1>2, <2>1, <2>2
  <1>5. ASSUME NEW recipient \in Address, NEW exitValue \in Amounts,
               withdraw(root, nullifiers, outputs, recipient, exitValue)
        PROVE  /\ _checkAndSpendNullifiers(nullifiers)
               /\ verifyProof(root, nullifiers, outputs, exitValue)
               /\ insertOutputs(outputs)
               /\ countWraps(nullifiers, outputs, exitValue)
               /\ exitValue <= poolBalance /\ exitValue <= ethBalance
               /\ poolBalance' = poolBalance - exitValue
               /\ ethBalance' = ethBalance - exitValue
               /\ UNCHANGED <<commitmentExists, pendingCommits>>
               /\ exitValue \in 0..MaxValue
    <2>1. ethBalance >= exitValue
      BY <1>5 DEF withdraw
    <2>2. exitValue <= ethBalance
      BY <2>1 DEF TypeOK
    <2> QED
      BY <1>5, <2>2 DEF withdraw
  <1> QED
    BY <1>2, <1>3, <1>4, <1>5

-----------------------------------------------------------------------------
(* Solvency. *)

\* An entry without a depositor is empty: it holds no ether.
EmptyRecords ==
    \A h \in CommitHashes :
        pendingCommits[h].depositor = NoAddress => pendingCommits[h] = NoRecord

LEMMA EmptyRecordsStep ==
  ASSUME TypeOK, EmptyRecords, [Next]_vars
  PROVE  EmptyRecords'
  <1>1. CASE UNCHANGED pendingCommits
    BY <1>1 DEF EmptyRecords
  <1>2. ASSUME NEW sender \in Address, NEW h \in CommitHashes,
               NEW value \in PaidFor(Opening[h]), commitDeposit(sender, h, value)
        PROVE  EmptyRecords'
    BY <1>2 DEF commitDeposit, EmptyRecords, TypeOK
  <1>3. ASSUME NEW sender \in Address, NEW h \in CommitHashes,
               revealDeposit(sender, h)
        PROVE  EmptyRecords'
    <2>1. /\ pendingCommits' = [pendingCommits EXCEPT ![h].revealed = TRUE]
          /\ pendingCommits[h].depositor = sender
      BY <1>3 DEF revealDeposit
    <2>2. pendingCommits[h] \in CommitRecord
      BY DEF TypeOK
    <2>3. pendingCommits'[h].depositor = sender
      BY <2>1, <2>2 DEF TypeOK, CommitRecord
    <2>4. \A g \in CommitHashes \ {h} : pendingCommits'[g] = pendingCommits[g]
      BY <2>1 DEF TypeOK
    <2> QED
      BY <2>3, <2>4 DEF EmptyRecords
  <1>4. ASSUME NEW sender \in Address, NEW h \in CommitHashes,
               reclaimExpiredCommit(sender, h)
        PROVE  EmptyRecords'
    <2>1. pendingCommits' = [pendingCommits EXCEPT ![h] = NoRecord]
      BY <1>4 DEF reclaimExpiredCommit
    <2> QED
      BY <2>1 DEF EmptyRecords, TypeOK
  <1>5. ASSUME NEW c \in Leaf, NEW amount \in PaidFor(c), deposit(c, amount)
        PROVE  EmptyRecords'
    BY <1>1, <1>5 DEF deposit
  <1>6. CASE DepositStep
    BY <1>2, <1>3, <1>4, <1>5, <1>6 DEF DepositStep
  <1>7. CASE SpendStep
    BY <1>1, <1>7, SpendSteps
  <1> QED
    BY <1>1, <1>6, <1>7, QuietSteps

LEMMA EscrowType ==
  ASSUME TypeOK
  PROVE  /\ Escrow \in [CommitHashes -> 0..MaxValue]
         /\ Total(CommitHashes, Escrow) \in Nat
  <1>1. \A h \in CommitHashes : pendingCommits[h].value \in 0..MaxValue
    BY DEF TypeOK, CommitRecord
  <1>2. 0 \in 0..MaxValue
    OBVIOUS
  <1>3. Escrow \in [CommitHashes -> 0..MaxValue]
    BY <1>1, <1>2 DEF Escrow
  <1> QED
    BY <1>3, CoinsFinite

\* One entry changes: the escrowed total changes by what that entry escrows.
LEMMA EscrowChange ==
  ASSUME TypeOK, TypeOK', NEW h \in CommitHashes, NEW r,
         pendingCommits' = [pendingCommits EXCEPT ![h] = r]
  PROVE  Total(CommitHashes, Escrow') + Escrow[h]
           = Total(CommitHashes, Escrow) + Escrow'[h]
  <1> DEFINE v == Escrow
             w == Escrow'
  <1>a. \A g \in CommitHashes : pendingCommits'[g].value \in 0..MaxValue
    BY DEF TypeOK, CommitRecord
  <1>b. 0 \in 0..MaxValue
    OBVIOUS
  <1>c. w \in [CommitHashes -> 0..MaxValue]
    BY <1>a, <1>b DEF Escrow
  <1>1. v \in [CommitHashes -> 0..MaxValue] /\ w \in [CommitHashes -> 0..MaxValue]
    BY <1>c, EscrowType
  <1>2. \A g \in CommitHashes \ {h} : v[g] = w[g]
    BY DEF Escrow, TypeOK
  <1> HIDE DEF v, w
  <1>3. v[h] \in 0..MaxValue /\ w[h] \in 0..MaxValue
    BY <1>1
  <1>4. Total(CommitHashes, w) + v[h] = Total(CommitHashes, v) + w[h]
    BY <1>2, <1>3, TotalChange
  <1> QED
    BY <1>4 DEF v, w

LEMMA SolvencyStep ==
  ASSUME TypeOK, TypeOK', EmptyRecords, Solvency, [Next]_vars
  PROVE  Solvency'
  <1> DEFINE E == Total(CommitHashes, Escrow)
             F == Total(CommitHashes, Escrow')
  <1>a. E \in Nat /\ F \in Nat
    BY EscrowType, CoinsFinite
  <1>b. /\ poolBalance \in Nat /\ ethBalance \in Nat
        /\ poolBalance' \in Nat /\ ethBalance' \in Nat
        /\ ethBalance = poolBalance + E
    BY DEF TypeOK, Solvency
  <1>c. SUFFICES ethBalance' = poolBalance' + F
    BY DEF Solvency
  <1>d. ASSUME UNCHANGED pendingCommits PROVE F = E
    BY <1>d DEF Escrow
  <1> HIDE DEF E, F
  <1>1. ASSUME NEW c \in Leaf, NEW amount \in PaidFor(c), deposit(c, amount)
        PROVE  ethBalance' = poolBalance' + F
    <2>1. /\ poolBalance' = poolBalance + amount
          /\ ethBalance' = ethBalance + amount
          /\ UNCHANGED pendingCommits
      BY <1>1 DEF deposit
    <2>2. amount \in Nat
      BY DEF PaidFor
    <2> QED
      BY <1>a, <1>b, <1>d, <2>1, <2>2
  <1>2. ASSUME NEW sender \in Address, NEW h \in CommitHashes,
               NEW value \in PaidFor(Opening[h]), commitDeposit(sender, h, value)
        PROVE  ethBalance' = poolBalance' + F
    <2> DEFINE r == [depositor |-> sender, value |-> value, blockNumber |-> now,
                     revealed |-> FALSE]
    <2>1. /\ pendingCommits' = [pendingCommits EXCEPT ![h] = r]
          /\ ethBalance' = ethBalance + value
          /\ UNCHANGED poolBalance
          /\ pendingCommits[h].depositor = NoAddress
      BY <1>2 DEF commitDeposit
    <2>2. pendingCommits[h] = NoRecord
      BY <2>1 DEF EmptyRecords
    <2>3. Escrow[h] = 0
      BY <2>2 DEF Escrow, NoRecord
    <2>4. pendingCommits'[h] = r
      BY <2>1 DEF TypeOK
    <2>5. Escrow'[h] = value
      BY <2>4 DEF Escrow
    <2>6. F + Escrow[h] = E + Escrow'[h]
      BY <2>1, EscrowChange DEF E, F
    <2>7. value \in Nat
      BY DEF PaidFor
    <2> QED
      BY <1>a, <1>b, <2>1, <2>3, <2>5, <2>6, <2>7
  <1>3. ASSUME NEW sender \in Address, NEW h \in CommitHashes,
               revealDeposit(sender, h)
        PROVE  ethBalance' = poolBalance' + F
    <2> DEFINE r == [pendingCommits[h] EXCEPT !.revealed = TRUE]
    <2>1. /\ pendingCommits' = [pendingCommits EXCEPT ![h].revealed = TRUE]
          /\ poolBalance' = poolBalance + pendingCommits[h].value
          /\ UNCHANGED ethBalance
          /\ ~ pendingCommits[h].revealed
      BY <1>3 DEF revealDeposit
    <2>2. pendingCommits[h] \in CommitRecord
      BY DEF TypeOK
    <2>3. Escrow[h] = pendingCommits[h].value
      BY <2>1 DEF Escrow
    <2>4. pendingCommits' = [pendingCommits EXCEPT ![h] = r]
      BY <2>1 DEF TypeOK
    <2>a. pendingCommits'[h] = r
      BY <2>4 DEF TypeOK
    <2>5. pendingCommits'[h].revealed = TRUE
      BY <2>2, <2>a DEF CommitRecord
    <2>6. Escrow'[h] = 0
      BY <2>5 DEF Escrow
    <2>7. F + Escrow[h] = E + Escrow'[h]
      BY <2>4, EscrowChange DEF E, F
    <2>8. pendingCommits[h].value \in Nat
      BY <2>2 DEF CommitRecord
    <2>9. F + pendingCommits[h].value = E
      BY <1>a, <2>3, <2>6, <2>7, <2>8
    <2>b. /\ poolBalance' = poolBalance + pendingCommits[h].value
          /\ ethBalance' = ethBalance
      BY <2>1
    <2> DEFINE k == pendingCommits[h].value
    <2>c. /\ k \in Nat /\ F + k = E
          /\ poolBalance' = poolBalance + k /\ ethBalance' = ethBalance
      BY <2>8, <2>9, <2>b
    <2> HIDE DEF k, r
    <2> QED
      BY <1>a, <1>b, <2>c
  <1>4. ASSUME NEW sender \in Address, NEW h \in CommitHashes,
               reclaimExpiredCommit(sender, h)
        PROVE  ethBalance' = poolBalance' + F
    <2>1. /\ pendingCommits' = [pendingCommits EXCEPT ![h] = NoRecord]
          /\ ethBalance' = ethBalance - pendingCommits[h].value
          /\ UNCHANGED poolBalance
          /\ ~ pendingCommits[h].revealed
      BY <1>4 DEF reclaimExpiredCommit
    <2>2. Escrow[h] = pendingCommits[h].value
      BY <2>1 DEF Escrow
    <2>3. pendingCommits'[h] = NoRecord
      BY <2>1 DEF TypeOK
    <2>4. Escrow'[h] = 0
      BY <2>3 DEF Escrow, NoRecord
    <2>5. F + Escrow[h] = E + Escrow'[h]
      BY <2>1, EscrowChange DEF E, F
    <2>6. pendingCommits[h].value \in Nat
      BY DEF TypeOK, CommitRecord
    <2>7. F + pendingCommits[h].value = E
      BY <1>a, <2>2, <2>4, <2>5, <2>6
    <2> DEFINE k == pendingCommits[h].value
    <2>8. /\ k \in Nat /\ F + k = E
          /\ poolBalance' = poolBalance /\ ethBalance' = ethBalance - k
      BY <2>1, <2>6, <2>7
    <2> HIDE DEF k
    <2> QED
      BY <1>a, <1>b, <2>8
  <1>5. CASE SpendStep
    <2>1. PICK exitValue \in 0..MaxValue :
             /\ poolBalance' = poolBalance - exitValue
             /\ ethBalance' = ethBalance - exitValue
             /\ UNCHANGED pendingCommits
      BY <1>5, SpendSteps
    <2> QED
      BY <1>a, <1>b, <1>d, <2>1
  <1>6. CASE DepositStep
    BY <1>1, <1>2, <1>3, <1>4, <1>6 DEF DepositStep
  <1>7. CASE UNCHANGED <<noteVars, commitmentExists, fundVars, pendingCommits>>
    BY <1>a, <1>b, <1>d, <1>7 DEF fundVars
  <1> QED
    BY <1>5, <1>6, <1>7, QuietSteps

LEMMA InitSolvency == Init => EmptyRecords /\ Solvency
  <1> SUFFICES ASSUME Init PROVE EmptyRecords /\ Solvency
    OBVIOUS
  <1>1. EmptyRecords
    BY DEF Init, EmptyRecords
  <1>2. \A h \in CommitHashes : Escrow[h] = 0
    BY DEF Init, Escrow, NoRecord
  <1>3. Total(CommitHashes, Escrow) = 0
    BY <1>2, TotalEmpty
  <1> QED
    BY <1>1, <1>3 DEF Solvency, Init

\* The ether of the contract is always the pool's balance and the escrowed
\* commits, at every step of every interleaving, re-entrant calls included.
THEOREM PoolSolvent == Spec => []Solvency
  <1> DEFINE Inv == TypeOK /\ EmptyRecords /\ Solvency
  <1>1. Init => Inv
    BY InitTypeOK, InitSolvency
  <1>2. Inv /\ [Next]_vars => Inv'
    BY NextTypeOK, EmptyRecordsStep, SolvencyStep
  <1> QED
    BY <1>1, <1>2, PTL DEF Spec

-----------------------------------------------------------------------------
(* Nullifiers. *)

LEMMA DepositSpendsNothing ==
  ASSUME DepositStep
  PROVE  UNCHANGED <<nullifierSpent, registrations, timesSpent>>
  BY DEF DepositStep, deposit, commitDeposit, revealDeposit,
         reclaimExpiredCommit, noteVars

LEMMA NoDoubleSpendStep ==
  ASSUME TypeOK, NoDoubleSpend, RegisteredAtMostOnce, [Next]_vars
  PROVE  NoDoubleSpend' /\ RegisteredAtMostOnce'
  <1>1. CASE UNCHANGED <<nullifierSpent, registrations, timesSpent>>
    BY <1>1 DEF NoDoubleSpend, RegisteredAtMostOnce
  <1>2. CASE SpendStep
    <2>1. PICK nullifiers \in Leaf \X Leaf : _checkAndSpendNullifiers(nullifiers)
      BY <1>2, SpendSteps
    <2> DEFINE occ == Occurrences(nullifiers)
               p == nullifiers[1]
               q == nullifiers[2]
    <2>2. /\ p \notin nullifierSpent /\ q \notin nullifierSpent /\ p # q
          /\ nullifierSpent' = nullifierSpent \cup {p, q}
          /\ timesSpent' = [n \in Leaf |-> timesSpent[n] + occ[n]]
          /\ registrations' =
                [m \in EpochManagers |->
                    IF m # epochManager THEN registrations[m]
                    ELSE [n \in Leaf |-> registrations[m][n] + occ[n]]]
      BY <2>1 DEF _checkAndSpendNullifiers
    <2>3. \A n \in Leaf : occ[n] = IF n \in {p, q} THEN 1 ELSE 0
      BY <2>2 DEF Occurrences
    <2> HIDE DEF occ, p, q
    <2>4. ASSUME NEW n \in Leaf
          PROVE  /\ timesSpent[n] = IF n \in nullifierSpent THEN 1 ELSE 0
                 /\ timesSpent'[n] = IF n \in nullifierSpent' THEN 1 ELSE 0
      BY <2>2, <2>3 DEF NoDoubleSpend
    <2>5. ASSUME NEW m \in EpochManagers, NEW n \in Leaf
          PROVE  /\ registrations[m][n] \in Nat
                 /\ registrations[m][n] <= timesSpent[n]
                 /\ registrations'[m][n] =
                        IF m = epochManager /\ n \in {p, q}
                        THEN registrations[m][n] + 1 ELSE registrations[m][n]
      <3>1. registrations[m] \in [Leaf -> Nat]
        BY DEF TypeOK
      <3>2. registrations[m][n] <= timesSpent[n]
        BY DEF RegisteredAtMostOnce
      <3>3. CASE m = epochManager
        <4>1. registrations'[m][n] = registrations[m][n] + occ[n]
          BY <2>2, <3>3
        <4> QED
          BY <2>3, <3>1, <3>2, <3>3, <4>1
      <3>4. CASE m # epochManager
        <4>1. registrations'[m] = registrations[m]
          BY <2>2, <3>4
        <4> QED
          BY <3>1, <3>2, <3>4, <4>1
      <3> QED
        BY <3>3, <3>4
    <2>6. ASSUME NEW m \in EpochManagers, NEW n \in {p, q}, n \in Leaf
          PROVE  registrations[m][n] = 0
      BY <2>2, <2>4, <2>5, <2>6
    <2>7. ASSUME NEW m1 \in EpochManagers, NEW m2 \in EpochManagers, NEW n \in Leaf
          PROVE  /\ registrations'[m1][n] <= timesSpent'[n]
                 /\ registrations'[m1][n] > 0 /\ registrations'[m2][n] > 0
                      => m1 = m2
      <3>1. CASE n \in {p, q}
        <4>1. registrations[m1][n] = 0 /\ registrations[m2][n] = 0
          BY <2>6, <3>1
        <4>2. timesSpent'[n] = 1
          BY <2>2, <2>4, <3>1
        <4> QED
          BY <2>5, <4>1, <4>2
      <3>2. CASE n \notin {p, q}
        <4>1. /\ registrations'[m1][n] = registrations[m1][n]
              /\ registrations'[m2][n] = registrations[m2][n]
          BY <2>5, <3>2
        <4>2. timesSpent'[n] = timesSpent[n]
          BY <2>2, <2>4, <3>2
        <4> QED
          BY <4>1, <4>2 DEF RegisteredAtMostOnce
      <3> QED
        BY <3>1, <3>2
    <2> QED
      BY <2>4, <2>7 DEF NoDoubleSpend, RegisteredAtMostOnce
  <1> QED
    BY <1>1, <1>2, DepositSpendsNothing, QuietSteps DEF noteVars

\* No nullifier is ever consumed twice, whatever roots, managers and re-entrant
\* calls the history contains.
THEOREM PoolNoDoubleSpend == Spec => []NoDoubleSpend
  <1> DEFINE Inv == TypeOK /\ NoDoubleSpend /\ RegisteredAtMostOnce
  <1>1. Init => Inv
    BY InitTypeOK DEF Init, NoDoubleSpend, RegisteredAtMostOnce
  <1>2. Inv /\ [Next]_vars => Inv'
    BY NextTypeOK, NoDoubleSpendStep
  <1> QED
    BY <1>1, <1>2, PTL DEF Spec

\* No nullifier reaches the epoch managers twice, and none that is not spent.
THEOREM PoolRegistersOnce == Spec => []RegisteredAtMostOnce
  <1> DEFINE Inv == TypeOK /\ NoDoubleSpend /\ RegisteredAtMostOnce
  <1>1. Init => Inv
    BY InitTypeOK DEF Init, NoDoubleSpend, RegisteredAtMostOnce
  <1>2. Inv /\ [Next]_vars => Inv'
    BY NextTypeOK, NoDoubleSpendStep
  <1> QED
    BY <1>1, <1>2, PTL DEF Spec

-----------------------------------------------------------------------------
(* Backing. *)

\* Honest depositors escrow the value that their note binds.
HonestEscrow ==
    HonestDeposits =>
        \A h \in CommitHashes :
            pendingCommits[h].depositor # NoAddress =>
                pendingCommits[h].value = NoteValue[Opening[h]]

LEMMA HonestEscrowStep ==
  ASSUME TypeOK, HonestEscrow, [Next]_vars
  PROVE  HonestEscrow'
  <1> SUFFICES ASSUME HonestDeposits, NEW g \in CommitHashes,
                      pendingCommits'[g].depositor # NoAddress
               PROVE  pendingCommits'[g].value = NoteValue[Opening[g]]
    BY DEF HonestEscrow
  <1>0. pendingCommits[g].depositor # NoAddress =>
            pendingCommits[g].value = NoteValue[Opening[g]]
    BY DEF HonestEscrow
  <1>1. CASE UNCHANGED pendingCommits
    BY <1>0, <1>1
  <1>2. ASSUME NEW sender \in Address, NEW h \in CommitHashes,
               NEW value \in PaidFor(Opening[h]), commitDeposit(sender, h, value)
        PROVE  pendingCommits'[g].value = NoteValue[Opening[g]]
    <2>1. value = NoteValue[Opening[h]]
      BY DEF PaidFor
    <2>2. pendingCommits' = [pendingCommits EXCEPT ![h] =
              [depositor |-> sender, value |-> value, blockNumber |-> now,
               revealed |-> FALSE]]
      BY <1>2 DEF commitDeposit
    <2>3. CASE g = h
      BY <2>1, <2>2, <2>3 DEF TypeOK
    <2>4. CASE g # h
      BY <1>0, <2>2, <2>4 DEF TypeOK
    <2> QED
      BY <2>3, <2>4
  <1>3. ASSUME NEW sender \in Address, NEW h \in CommitHashes,
               revealDeposit(sender, h)
        PROVE  pendingCommits'[g].value = NoteValue[Opening[g]]
    <2>1. pendingCommits' = [pendingCommits EXCEPT ![h].revealed = TRUE]
      BY <1>3 DEF revealDeposit
    <2>2. pendingCommits[g] \in CommitRecord
      BY DEF TypeOK
    <2>3. /\ pendingCommits'[g].depositor = pendingCommits[g].depositor
          /\ pendingCommits'[g].value = pendingCommits[g].value
      BY <2>1, <2>2 DEF TypeOK, CommitRecord
    <2> QED
      BY <1>0, <2>3
  <1>4. ASSUME NEW sender \in Address, NEW h \in CommitHashes,
               reclaimExpiredCommit(sender, h)
        PROVE  pendingCommits'[g].value = NoteValue[Opening[g]]
    <2>1. pendingCommits' = [pendingCommits EXCEPT ![h] = NoRecord]
      BY <1>4 DEF reclaimExpiredCommit
    <2>2. CASE g = h
      BY <2>1, <2>2 DEF TypeOK, NoRecord
    <2>3. CASE g # h
      BY <1>0, <2>1, <2>3 DEF TypeOK
    <2> QED
      BY <2>2, <2>3
  <1>5. ASSUME NEW c \in Leaf, NEW amount \in PaidFor(c), deposit(c, amount)
        PROVE  pendingCommits'[g].value = NoteValue[Opening[g]]
    BY <1>1, <1>5 DEF deposit
  <1>6. CASE DepositStep
    BY <1>2, <1>3, <1>4, <1>5, <1>6 DEF DepositStep
  <1>7. CASE SpendStep
    BY <1>1, <1>7, SpendSteps
  <1> QED
    BY <1>1, <1>6, <1>7, QuietSteps

LEMMA UnspentFinite ==
  ASSUME TypeOK
  PROVE  Unspent \in SUBSET Leaf /\ IsFiniteSet(Unspent)
  <1>1. Unspent \in SUBSET Leaf
    BY DEF Unspent, Committed, TypeOK
  <1> QED
    BY <1>1, FS_Subset

\* An insertion adds at most its leaf to the notes that can be spent.
LEMMA InsertUnspent ==
  ASSUME TypeOK, NEW c \in Leaf, Insert(c), UNCHANGED nullifierSpent
  PROVE  Unspent' \subseteq Unspent \cup {c}
  <1>1. /\ leaves' = Append(leaves, c) /\ leaves \in Seq(Leaf)
    BY DEF Insert, TypeOK
  <1>2. Committed(Len(leaves))' \subseteq Committed(Len(leaves)) \cup {c}
    BY <1>1 DEF Committed
  <1> QED
    BY <1>2 DEF Unspent

\* Whole numbers of wraps are worth whole numbers of field elements.
LEMMA WrapsAreWhole ==
  ASSUME NEW w \in Int, NEW x \in Int, NEW order \in Nat \ {0}
  PROVE  /\ w * order \in Int
         /\ x \div order \in Int
         /\ (w + x \div order) * order = w * order + (x \div order) * order
  <1>1. x \div order \in Int
    OBVIOUS
  <1> DEFINE k == x \div order
  <1> HIDE DEF k
  <1>2. (w + k) * order = w * order + k * order /\ w * order \in Int
    BY <1>1 DEF k
  <1> QED
    BY <1>1, <1>2 DEF k

LEMMA ExactWraps ==
  ASSUME NEW x \in Int, NEW order \in Nat \ {0}, x % order = 0
  PROVE  x = (x \div order) * order
  OBVIOUS

LEMMA DepositBacked ==
  ASSUME TypeOK, NotesAreBacked, NEW c \in Leaf, Insert(c),
         UNCHANGED <<nullifierSpent, wraps>>, poolBalance' = poolBalance + NoteValue[c]
  PROVE  NotesAreBacked'
  <1> DEFINE S == Unspent
             T == Unspent'
             made == wraps * FieldOrder
  <1>1. T \subseteq S \cup {c} /\ IsFiniteSet(S)
    BY InsertUnspent, UnspentFinite
  <1>2. Total(S, NoteValue) <= poolBalance + made /\ poolBalance \in Nat
    BY DEF NotesAreBacked, TypeOK
  <1>0. made \in Int
    BY FieldAssumption DEF TypeOK
  <1>3. SUFFICES Total(T, NoteValue) <= poolBalance' + made
    BY DEF NotesAreBacked, Total, Coins
  <1> HIDE DEF S, T, made
  <1>4. IsFiniteSet(S \cup {c}) /\ NoteValue[c] \in 0..MaxValue
    BY <1>1, FS_AddElement
  <1>5. Total(T, NoteValue) <= Total(S \cup {c}, NoteValue)
    BY <1>1, <1>4, TotalMono
  <1>6. Total(S \cup {c}, NoteValue) <= Total(S, NoteValue) + NoteValue[c]
    BY <1>1, <1>4, TotalAddAtMost
  <1>7. IsFiniteSet(T)
    BY <1>1, <1>4, FS_Subset
  <1>8. /\ Total(T, NoteValue) \in Nat /\ Total(S, NoteValue) \in Nat
        /\ Total(S \cup {c}, NoteValue) \in Nat
    BY <1>1, <1>4, <1>7, CoinsFinite
  <1>9. NoteValue[c] \in Nat
    BY <1>4
  <1> QED
    BY <1>0, <1>2, <1>5, <1>6, <1>8, <1>9

\* A spend takes its two notes out of the set and adds at most its outputs.
LEMMA SpendUnspent ==
  ASSUME TypeOK, NEW root \in 0..Len(leaves), NEW nullifiers \in Leaf \X Leaf,
         NEW outputs \in Leaf \X Leaf, NEW exitValue,
         _checkAndSpendNullifiers(nullifiers),
         verifyProof(root, nullifiers, outputs, exitValue), insertOutputs(outputs)
  PROVE  /\ nullifiers[1] \in Unspent /\ nullifiers[2] \in Unspent
         /\ nullifiers[1] # nullifiers[2]
         /\ Unspent' \subseteq ((Unspent \ {nullifiers[1]}) \ {nullifiers[2]})
                                \cup {outputs[1]} \cup {outputs[2]}
  <1> DEFINE p == nullifiers[1]
             q == nullifiers[2]
             a == outputs[1]
             b == outputs[2]
  <1>1. /\ p \notin nullifierSpent /\ q \notin nullifierSpent /\ p # q
        /\ nullifierSpent' = nullifierSpent \cup {p, q}
    BY DEF _checkAndSpendNullifiers
  <1>2. /\ p \in Committed(root) /\ p # ZeroCommitment
        /\ q \in Committed(root) /\ q # ZeroCommitment
    BY DEF verifyProof
  <1>3. Committed(root) \subseteq Committed(Len(leaves))
    <2>1. Len(leaves) \in Nat
      BY DEF TypeOK
    <2>2. 1..root \subseteq 1..Len(leaves)
      BY <2>1
    <2> QED
      BY <2>2 DEF Committed
  <1>4. p \in Unspent /\ q \in Unspent
    BY <1>1, <1>2, <1>3 DEF Unspent
  <1>5. /\ leaves' = Append(Append(leaves, a), b)
        /\ leaves \in Seq(Leaf) /\ a \in Leaf /\ b \in Leaf
    BY DEF insertOutputs, TypeOK
  <1> HIDE DEF p, q, a, b
  <1>6. ASSUME NEW i \in 1..Len(leaves')
        PROVE  leaves'[i] \in Committed(Len(leaves)) \cup {a} \cup {b}
    <2>1. Append(leaves, a) \in Seq(Leaf) /\ Len(Append(leaves, a)) = Len(leaves) + 1
      BY <1>5
    <2>2. Len(leaves') = Len(leaves) + 2 /\ Len(leaves) \in Nat
      BY <1>5, <2>1
    <2>3. CASE i = Len(leaves) + 2
      BY <1>5, <2>1, <2>2, <2>3
    <2>4. CASE i = Len(leaves) + 1
      BY <1>5, <2>1, <2>2, <2>4
    <2>5. CASE i \in 1..Len(leaves)
      <3>1. leaves'[i] = leaves[i]
        BY <1>5, <2>1, <2>2, <2>5
      <3> QED
        BY <2>5, <3>1 DEF Committed
    <2> QED
      BY <2>2, <2>3, <2>4, <2>5
  <1>7. Committed(Len(leaves))' \subseteq Committed(Len(leaves)) \cup {a} \cup {b}
    BY <1>6 DEF Committed
  <1>8. Unspent' \subseteq ((Unspent \ {p}) \ {q}) \cup {a} \cup {b}
    <2> DEFINE C == Committed(Len(leaves))
               D == Committed(Len(leaves))'
    <2>1. D \subseteq C \cup {a} \cup {b}
      BY <1>7
    <2>2. /\ Unspent = (C \ nullifierSpent) \ {ZeroCommitment}
          /\ Unspent' = (D \ nullifierSpent') \ {ZeroCommitment}
      BY DEF Unspent
    <2> HIDE DEF C, D
    <2> QED
      BY <1>1, <2>1, <2>2
  <1> QED
    BY <1>1, <1>4, <1>8 DEF p, q, a, b

\* Amounts and note values are naturals.
LEMMA ValuesAreNaturals == \A x \in 0..MaxValue : x \in Nat
  OBVIOUS

\* A spend keeps the unspent notes backed: they lose at least what is paid out,
\* up to the multiples of the field's order that its sums wrap by.
LEMMA SpendBacked ==
  ASSUME TypeOK, NotesAreBacked, SpendStep
  PROVE  NotesAreBacked'
  <1>1. PICK root \in 0..Len(leaves), nullifiers \in Leaf \X Leaf,
            outputs \in Leaf \X Leaf, exitValue \in 0..MaxValue :
           /\ _checkAndSpendNullifiers(nullifiers)
           /\ verifyProof(root, nullifiers, outputs, exitValue)
           /\ insertOutputs(outputs)
           /\ countWraps(nullifiers, outputs, exitValue)
           /\ exitValue <= poolBalance
           /\ poolBalance' = poolBalance - exitValue
    BY SpendSteps
  <1> DEFINE p == nullifiers[1]
             q == nullifiers[2]
             a == outputs[1]
             b == outputs[2]
             S == Unspent
             T == Unspent'
             v == NoteValue
             R == (S \ {p}) \ {q}
             RA == R \cup {a}
             RAB == RA \cup {b}
             x == Excess(nullifiers, outputs, exitValue)
             k == (x \div FieldOrder) * FieldOrder
             made == wraps * FieldOrder
             madeNext == wraps' * FieldOrder
  <1>2. /\ p \in S /\ q \in S /\ p # q /\ T \subseteq RAB
    BY <1>1, SpendUnspent
  <1>3. /\ v[p] \in 0..MaxValue /\ v[q] \in 0..MaxValue
        /\ v[a] \in 0..MaxValue /\ v[b] \in 0..MaxValue
    BY <1>1
  <1>m. /\ x = (v[a] + v[b] + exitValue) - (v[p] + v[q])
        /\ x % FieldOrder = 0
        /\ wraps' = wraps + x \div FieldOrder
    BY <1>1 DEF verifyProof, countWraps, Excess
  <1>4. /\ Total(S, v) <= poolBalance + made /\ poolBalance \in Nat
    BY DEF NotesAreBacked, TypeOK
  <1>5. IsFiniteSet(S)
    BY UnspentFinite
  <1>6. SUFFICES Total(T, v) <= poolBalance' + madeNext
    BY DEF NotesAreBacked, Total, Coins
  <1> HIDE DEF S, T, p, q, a, b, v, x
  <1>7. /\ IsFiniteSet(S \ {p}) /\ IsFiniteSet(R)
        /\ IsFiniteSet(RA) /\ IsFiniteSet(RAB)
    <2>1. IsFiniteSet(S \ {p})
      BY <1>5, FS_RemoveElement
    <2>2. IsFiniteSet(R)
      BY <2>1, FS_RemoveElement
    <2>3. IsFiniteSet(RA)
      BY <2>2, FS_AddElement
    <2>4. IsFiniteSet(RAB)
      BY <2>3, FS_AddElement
    <2> QED
      BY <2>1, <2>2, <2>3, <2>4
  <1>8. Total(S, v) = Total(S \ {p}, v) + v[p]
    BY <1>2, <1>3, <1>5, TotalRemove
  <1>9. Total(S \ {p}, v) = Total(R, v) + v[q]
    BY <1>2, <1>3, <1>7, TotalRemove
  <1>10. Total(RA, v) <= Total(R, v) + v[a]
    BY <1>3, <1>7, TotalAddAtMost
  <1>11. Total(RAB, v) <= Total(RA, v) + v[b]
    BY <1>3, <1>7, TotalAddAtMost
  <1>12. Total(T, v) <= Total(RAB, v) /\ IsFiniteSet(T)
    BY <1>2, <1>7, TotalMono, FS_Subset
  <1>13. /\ Total(S, v) \in Nat /\ Total(S \ {p}, v) \in Nat
         /\ Total(R, v) \in Nat /\ Total(RA, v) \in Nat
         /\ Total(RAB, v) \in Nat /\ Total(T, v) \in Nat
    BY <1>5, <1>7, <1>12, CoinsFinite
  <1>14. /\ v[p] \in Nat /\ v[q] \in Nat /\ v[a] \in Nat /\ v[b] \in Nat
         /\ exitValue \in Nat
    BY <1>3, ValuesAreNaturals, Zenon
  <1> HIDE DEF R, RA, RAB
  <1>n. x \in Int
    BY <1>m, <1>14
  <1>o. /\ made \in Int /\ k \in Int /\ x = k
        /\ madeNext = made + k
    <2>1. wraps \in Int /\ FieldOrder \in Nat \ {0}
      BY FieldAssumption DEF TypeOK
    <2>2. x = k
      BY <1>m, <1>n, <2>1, ExactWraps
    <2>3. /\ made \in Int
          /\ (wraps + x \div FieldOrder) * FieldOrder = made + k
      BY <1>n, <2>1, WrapsAreWhole
    <2> QED
      BY <1>m, <1>n, <2>2, <2>3
  <1> HIDE DEF k, made, madeNext
  <1>15. Total(T, v) + exitValue <= Total(S, v) + k
    <2> DEFINE tS == Total(S, v)
               tSp == Total(S \ {p}, v)
               tR == Total(R, v)
               tRA == Total(RA, v)
               tRAB == Total(RAB, v)
               tT == Total(T, v)
               vp == v[p]
               vq == v[q]
               va == v[a]
               vb == v[b]
    <2>1. /\ tS \in Nat /\ tSp \in Nat /\ tR \in Nat /\ tRA \in Nat
          /\ tRAB \in Nat /\ tT \in Nat
          /\ vp \in Nat /\ vq \in Nat /\ va \in Nat /\ vb \in Nat
      BY <1>13, <1>14
    <2>2. /\ k = (va + vb + exitValue) - (vp + vq) /\ tS = tSp + vp /\ tSp = tR + vq
          /\ tRA <= tR + va /\ tRAB <= tRA + vb /\ tT <= tRAB
      BY <1>m, <1>o, <1>8, <1>9, <1>10, <1>11, <1>12
    <2> HIDE DEF tS, tSp, tR, tRA, tRAB, tT, vp, vq, va, vb
    <2>3. tT + exitValue <= tS + k
      BY <1>14, <2>1, <2>2
    <2> QED
      BY <2>3 DEF tT, tS
  <1> DEFINE t == Total(T, v)
             u == Total(S, v)
  <1>16. t + exitValue <= u + k /\ u <= poolBalance + made /\ t \in Nat /\ u \in Nat
    BY <1>4, <1>13, <1>15
  <1>17. poolBalance' = poolBalance - exitValue
    BY <1>1
  <1> HIDE DEF t, u
  <1>18. t <= poolBalance' + madeNext
    BY <1>4, <1>14, <1>16, <1>17, <1>o
  <1> QED
    BY <1>18 DEF t

LEMMA BackedStep ==
  ASSUME TypeOK, HonestEscrow, Backed, [Next]_vars
  PROVE  Backed'
  <1> SUFFICES ASSUME HonestDeposits PROVE NotesAreBacked'
    BY DEF Backed
  <1>0. NotesAreBacked
    BY DEF Backed
  <1>1. CASE UNCHANGED <<leaves, nullifierSpent, poolBalance, wraps>>
    BY <1>0, <1>1 DEF NotesAreBacked, Unspent, Committed, Total, Coins
  <1>2. ASSUME NEW c \in Leaf, NEW amount \in PaidFor(c), deposit(c, amount)
        PROVE  NotesAreBacked'
    <2>1. amount = NoteValue[c]
      BY DEF PaidFor
    <2> QED
      BY <1>0, <1>2, <2>1, DepositBacked DEF deposit
  <1>3. ASSUME NEW sender \in Address, NEW h \in CommitHashes,
               revealDeposit(sender, h)
        PROVE  NotesAreBacked'
    <2>1. /\ pendingCommits[h].depositor = sender
          /\ Insert(Opening[h]) /\ UNCHANGED <<nullifierSpent, wraps>>
          /\ poolBalance' = poolBalance + pendingCommits[h].value
      BY <1>3 DEF revealDeposit
    <2>2. pendingCommits[h].value = NoteValue[Opening[h]] /\ Opening[h] \in Leaf
      BY <2>1 DEF HonestEscrow
    <2> QED
      BY <1>0, <2>1, <2>2, DepositBacked
  <1>4. CASE DepositStep
    <2>1. ASSUME NEW sender \in Address, NEW h \in CommitHashes,
                 \/ \E value \in PaidFor(Opening[h]) : commitDeposit(sender, h, value)
                 \/ reclaimExpiredCommit(sender, h)
          PROVE  NotesAreBacked'
      BY <1>1, <2>1 DEF commitDeposit, reclaimExpiredCommit, noteVars
    <2> QED
      BY <1>2, <1>3, <1>4, <2>1 DEF DepositStep
  <1>5. CASE SpendStep
    BY <1>0, <1>5, SpendBacked
  <1>6. CASE UNCHANGED <<noteVars, commitmentExists, fundVars, pendingCommits>>
    BY <1>1, <1>6 DEF noteVars, fundVars
  <1> QED
    BY <1>4, <1>5, <1>6, QuietSteps

\* With depositors who pay what their notes bind, the notes that can still be
\* spent are never worth more than the pool holds and what spends whose sums
\* wrap in the field have created: transfers and withdrawals, against whichever
\* known roots and in whatever order, create value in no other way.
THEOREM PoolBacked == Spec => []Backed
  <1> DEFINE Inv == TypeOK /\ HonestEscrow /\ Backed
  <1>1. Init => Inv
    <2> SUFFICES ASSUME Init PROVE Inv
      OBVIOUS
    <2>1. HonestEscrow
      BY DEF Init, HonestEscrow, NoRecord
    <2>2. Unspent = {}
      BY DEF Init, HistoryInit, Unspent, Committed
    <2>3. Total(Unspent, NoteValue) = 0
      BY <2>2, TotalEmpty, FS_EmptySet
    <2>4. wraps * FieldOrder = 0 /\ poolBalance = 0
      BY FieldAssumption DEF Init
    <2>5. Backed
      BY <2>3, <2>4 DEF Backed, NotesAreBacked
    <2> QED
      BY <2>1, <2>5, InitTypeOK
  <1>2. Inv /\ [Next]_vars => Inv'
    BY NextTypeOK, HonestEscrowStep, BackedStep
  <1> QED
    BY <1>1, <1>2, PTL DEF Spec
-----------------------------------------------------------------------------
(* The tiers, and the pause. *)

\* Only enableFixedDenominations writes the tiers or the set of allowed amounts.
LEMMA TierSteps ==
  ASSUME [Next]_vars
  PROVE  \/ UNCHANGED <<allowedDenomination, denominationTiers>>
         \/ \E sender, denominations : enableFixedDenominations(sender, denominations)
  <1>1. CASE DepositStep
    BY <1>1 DEF DepositStep, deposit, commitDeposit, revealDeposit,
                reclaimExpiredCommit, adminVars
  <1>2. CASE SpendStep
    BY <1>2 DEF SpendStep, transfer, withdraw, adminVars
  <1>3. CASE callReturns
    BY <1>3 DEF callReturns, adminVars
  <1>4. CASE AdminStep
    BY <1>4 DEF AdminStep, setEpochManager, setGovernance, setComplianceOracle,
                disableFixedDenominations, PauseStep, adminVars
  <1>5. CASE Environment
    BY <1>5 DEF Environment, adminVars
  <1>6. CASE NextBlock
    BY <1>6 DEF NextBlock, adminVars
  <1>7. CASE UNCHANGED vars
    BY <1>7 DEF vars, adminVars
  <1> QED
    BY <1>1, <1>2, <1>3, <1>4, <1>5, <1>6, <1>7 DEF Next

\* The amounts that _checkDenomination allows are those of the latest list given
\* to enableFixedDenominations, which clears the old ones through the old list.
THEOREM PoolTiersExact == Spec => []AllowedAreTheTiers
  <1>1. Init => AllowedAreTheTiers
    <2> SUFFICES ASSUME Init PROVE AllowedAreTheTiers
      OBVIOUS
    <2>1. allowedDenomination = {} /\ denominationTiers = << >>
      BY DEF Init
    <2>2. 1..Len(<< >>) = {}
      OBVIOUS
    <2> QED
      BY <2>1, <2>2 DEF AllowedAreTheTiers
  <1>2. AllowedAreTheTiers /\ [Next]_vars => AllowedAreTheTiers'
    <2> SUFFICES ASSUME AllowedAreTheTiers, [Next]_vars
                 PROVE  AllowedAreTheTiers'
      OBVIOUS
    <2>1. CASE UNCHANGED <<allowedDenomination, denominationTiers>>
      BY <2>1 DEF AllowedAreTheTiers
    <2>2. ASSUME NEW sender, NEW denominations,
                 enableFixedDenominations(sender, denominations)
          PROVE  AllowedAreTheTiers'
      <3>1. /\ allowedDenomination' =
                 (allowedDenomination
                    \ {denominationTiers[i] : i \in 1..Len(denominationTiers)})
                   \cup {denominations[i] : i \in 1..Len(denominations)}
            /\ denominationTiers' = denominations
        BY <2>2 DEF enableFixedDenominations
      <3> QED
        BY <3>1 DEF AllowedAreTheTiers
    <2> QED
      BY <2>1, <2>2, TierSteps
  <1> QED
    BY <1>1, <1>2, PTL DEF Spec

\* While EmergencyPausable says paused, no note is made or spent and poolBalance
\* stays; ether leaves only through reclaimExpiredCommit, and a record with it.
THEOREM PoolPauseFreezes == Spec => PauseFreezesNotes
  <1> DEFINE Pays == ethBalance' # ethBalance =>
                       \E h \in CommitHashes :
                          pendingCommits'[h].value < pendingCommits[h].value
             NotesKept == UNCHANGED <<noteVars, commitmentExists, poolBalance>>
  <1>1. ASSUME TypeOK, [Next]_vars, paused
        PROVE  NotesKept /\ Pays
    <2>1. ASSUME NEW sender, NEW h \in CommitHashes, reclaimExpiredCommit(sender, h)
          PROVE  NotesKept /\ Pays
      <3>1. /\ UNCHANGED <<noteVars, commitmentExists, poolBalance>>
            /\ pendingCommits' = [pendingCommits EXCEPT ![h] = NoRecord]
            /\ ethBalance' = ethBalance - pendingCommits[h].value
        BY <2>1 DEF reclaimExpiredCommit
      <3>2. /\ DOMAIN pendingCommits = CommitHashes /\ ethBalance \in Nat
            /\ pendingCommits[h].value \in Nat
        BY <1>1, PoolAssumption DEF TypeOK, CommitRecord
      <3>3. pendingCommits'[h].value = 0
        BY <3>1, <3>2 DEF NoRecord
      <3>4. ethBalance' # ethBalance => pendingCommits'[h].value < pendingCommits[h].value
        BY <3>1, <3>2, <3>3
      <3> QED
        BY <3>1, <3>4
    <2>2. CASE DepositStep
      BY <1>1, <2>1, <2>2 DEF DepositStep, deposit, commitDeposit, revealDeposit
    <2>3. ~ SpendStep
      BY <1>1 DEF SpendStep, transfer, withdraw
    <2>4. CASE UNCHANGED <<noteVars, commitmentExists, fundVars, pendingCommits>>
      BY <2>4 DEF fundVars
    <2> QED
      BY <1>1, <2>2, <2>3, <2>4, QuietSteps
  <1>2. TypeOK /\ [Next]_vars => [paused => NotesKept /\ Pays]_vars
    BY <1>1
  <1> QED
    BY <1>2, PoolTypeCorrect, PTL DEF Spec, PauseFreezesNotes
=============================================================================
