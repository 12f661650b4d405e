----------------------- MODULE MerkleReference_proofs -----------------------
(***************************************************************************)
(* Lemmas that the proofs about trees share: induction on the natural      *)
(* numbers, what opening a root yields, and what becomes of it when a leaf *)
(* is inserted by hashing up the path from the leaf's index, as the pools  *)
(* do.                                                                     *)
(***************************************************************************)
EXTENDS MerkleReference, WellFoundedInduction, NaturalsInduction, SequenceTheorems,
        TLAPS

\* The library states induction with an operator parameter, which the provers
\* cannot instantiate; the existence of minimal elements (WFMin) has none.
LEMMA LessWellFounded == IsWellFoundedOn({p \in Nat \X Nat : p[1] < p[2]}, Nat)
BY NatLessThanWellFounded DEF OpToRel

LEMMA LeastNatural ==
    ASSUME NEW T, T \subseteq Nat, T # {}
    PROVE  \E m \in T : \A n \in T : m <= n
<1> DEFINE Less == {p \in Nat \X Nat : p[1] < p[2]}
<1>1. IsWellFoundedOn(Less, Nat) BY LessWellFounded
<1> HIDE DEF Less
<1>2. PICK x \in T : \A y \in T : ~ (<<y, x>> \in Less) BY <1>1, WFMin
<1>3. ASSUME NEW y \in T PROVE x <= y
  <2>1. x \in Nat /\ y \in Nat OBVIOUS
  <2>2. ~ (y < x) BY <1>2, <2>1 DEF Less
  <2> QED BY <2>1, <2>2
<1> QED BY <1>3

LEMMA InductiveSet ==
    ASSUME NEW S, 0 \in S, \A n \in Nat : n \in S => n + 1 \in S
    PROVE  \A n \in Nat : n \in S
<1> SUFFICES ASSUME Nat \ S # {} PROVE FALSE
  OBVIOUS
<1> DEFINE T == Nat \ S
<1>1. T \subseteq Nat /\ T # {} OBVIOUS
<1>2. PICK m \in T : \A n \in T : m <= n
  <2> HIDE DEF T
  <2> QED BY <1>1, LeastNatural
<1>3. m \in Nat /\ m # 0 OBVIOUS
<1>4. m - 1 \in Nat /\ ~ (m <= m - 1) BY <1>3
<1>5. m - 1 \in S BY <1>2, <1>4
<1>6. m - 1 + 1 \in S BY <1>4, <1>5
<1> QED BY <1>3, <1>6

\* The same downwards, from a height: what holds at the top, and at a level if
\* it holds at the level above it, holds at every level.
LEMMA DescendingSet ==
    ASSUME NEW depth \in Nat, NEW S, depth \in S,
           \A level \in 0..(depth - 1) : level + 1 \in S => level \in S
    PROVE  \A level \in 0..depth : level \in S
<1> DEFINE T == {j \in Nat : j <= depth => depth - j \in S}
<1>1. 0 \in T
  <2>1. depth - 0 = depth OBVIOUS
  <2> QED BY <2>1
<1>2. ASSUME NEW j \in Nat, j \in T PROVE j + 1 \in T
  <2> SUFFICES ASSUME j + 1 <= depth PROVE depth - (j + 1) \in S
    OBVIOUS
  <2>1. /\ depth - (j + 1) \in 0..(depth - 1)
        /\ depth - (j + 1) + 1 = depth - j
        /\ j <= depth
    OBVIOUS
  <2>2. depth - j \in S BY <1>2, <2>1
  <2> QED BY <2>1, <2>2
<1> HIDE DEF T
<1>3. \A j \in Nat : j \in T BY <1>1, <1>2, InductiveSet
<1>4. ASSUME NEW level \in 0..depth PROVE level \in S
  <2>1. depth - level \in Nat /\ depth - level <= depth
        /\ depth - (depth - level) = level
    OBVIOUS
  <2>2. depth - level \in T BY <1>3, <2>1
  <2> QED BY <2>1, <2>2 DEF T
<1> QED BY <1>4

-----------------------------------------------------------------------------
\* Halving an index.
LEMMA Halves ==
    ASSUME NEW n \in Nat, NEW p \in Nat \ {0}
    PROVE  /\ n \div p \in Nat
           /\ (n \div p) \div 2 = n \div (2 * p)
           /\ n \div p = 2 * (n \div (2 * p)) + ((n \div p) % 2)
           /\ (n \div p) % 2 \in {0, 1}
<1>1. n \div p \in Nat OBVIOUS
<1>2. (n \div p) \div 2 = n \div (2 * p) OBVIOUS
<1> DEFINE q == n \div p
<1>3. q \in Nat BY <1>1
<1> HIDE DEF q
<1>4. q = 2 * (q \div 2) + (q % 2) /\ q % 2 \in {0, 1} BY <1>3
<1> QED BY <1>1, <1>2, <1>4 DEF q

LEMMA Divides ==
    ASSUME NEW n \in Nat, NEW p \in Nat \ {0}
    PROVE  /\ n \div p \in Nat /\ n % p \in 0..(p - 1)
           /\ n = (p * (n \div p)) + (n % p)
           /\ n < p => n \div p = 0
           /\ (n + 1) \div p \in {n \div p, (n \div p) + 1}
           /\ n >= p => (n - p) \div p = (n \div p) - 1
           /\ n \div p # 0 => n >= p
OBVIOUS

LEMMA DivMonotone ==
    ASSUME NEW j \in Nat, NEW n \in Nat, j <= n, NEW p \in Nat \ {0}
    PROVE  j \div p <= n \div p
OBVIOUS

-----------------------------------------------------------------------------
\* The node above an index, among those of its level.
Up(index, level) == index \div 2^level

LEMMA PowersArePositive ==
    ASSUME NEW depth \in Nat, Powers(depth)
    PROVE  \A level \in 0..depth : 2^level \in Nat \ {0}
<1> DEFINE S == {j \in Nat : j <= depth => 2^j \in Nat \ {0}}
<1>1. 0 \in S
  <2>1. 2^0 = 1 OBVIOUS
  <2> QED BY <2>1
<1>2. ASSUME NEW j \in Nat, j \in S PROVE j + 1 \in S
  <2> SUFFICES ASSUME j + 1 <= depth PROVE 2^(j + 1) \in Nat \ {0}
    OBVIOUS
  <2>1. j \in 0..(depth - 1) /\ j <= depth OBVIOUS
  <2>2. 2^j \in Nat \ {0} BY <1>2, <2>1
  <2>3. 2^(j + 1) = 2 * 2^j BY <2>1 DEF Powers
  <2> QED BY <2>2, <2>3
<1> HIDE DEF S
<1>3. \A j \in Nat : j \in S BY <1>1, <1>2, InductiveSet
<1> QED BY <1>3 DEF S

LEMMA UpHalves ==
    ASSUME NEW depth \in Nat, Powers(depth), NEW n \in Nat, NEW level \in 0..(depth - 1)
    PROVE  /\ Up(n, level) \in Nat /\ Up(n, level + 1) \in Nat
           /\ Up(n, level) = 2 * Up(n, level + 1) + (Up(n, level) % 2)
           /\ Up(n, level) % 2 \in {0, 1}
<1> DEFINE p == 2^level
<1>1. p \in Nat \ {0} BY PowersArePositive
<1>2. 2^(level + 1) = 2 * p BY DEF Powers
<1>3. Up(n, level) = n \div p /\ Up(n, level + 1) = n \div (2 * p) BY <1>2 DEF Up
<1> HIDE DEF p
<1>4. /\ n \div p \in Nat /\ (n \div p) % 2 \in {0, 1}
      /\ (n \div p) \div 2 = n \div (2 * p)
      /\ n \div p = 2 * (n \div (2 * p)) + ((n \div p) % 2)
  BY <1>1, Halves
<1>5. n \div (2 * p) \in Nat BY <1>1
<1> QED BY <1>3, <1>4, <1>5

LEMMA UpNat ==
    ASSUME NEW depth \in Nat, Powers(depth), NEW n \in Nat, NEW level \in 0..depth
    PROVE  Up(n, level) \in Nat
<1> DEFINE p == 2^level
<1>1. p \in Nat \ {0} BY PowersArePositive
<1> HIDE DEF p
<1>2. n \div p \in Nat BY <1>1
<1> QED BY <1>2 DEF Up, p

\* The index after this one, and the one a whole subtree before it.
LEMMA UpNeighbours ==
    ASSUME NEW depth \in Nat, Powers(depth), NEW n \in Nat, NEW level \in 0..depth
    PROVE  /\ Up(n + 1, level) \in {Up(n, level), Up(n, level) + 1}
           /\ Up(n, level) # 0 => /\ n - 2^level \in Nat
                                  /\ Up(n - 2^level, level) = Up(n, level) - 1
           /\ n < 2^level => Up(n, level) = 0
           /\ \A j \in Nat : j <= n => Up(j, level) <= Up(n, level)
<1> DEFINE p == 2^level
<1>1. p \in Nat \ {0} BY PowersArePositive
<1> HIDE DEF p
<1>2. /\ n \div p \in Nat
      /\ n < p => n \div p = 0
      /\ (n + 1) \div p \in {n \div p, (n \div p) + 1}
      /\ n >= p => (n - p) \div p = (n \div p) - 1
      /\ n \div p # 0 => n >= p
  BY <1>1, Divides
<1>3. n >= p => n - p \in Nat BY <1>1
<1>4. \A j \in Nat : j <= n => j \div p <= n \div p BY <1>1, DivMonotone
<1> QED BY <1>2, <1>3, <1>4 DEF Up, p

-----------------------------------------------------------------------------
\* What LeafAt opens on its way down, from the root to this level.
Opens(root, depth, index, lowest, at) ==
    at = [level \in lowest..depth |->
            IF level = depth THEN root
            ELSE at[level + 1][((index \div 2^level) % 2) + 1]]

OpeningOf(root, depth, index) == CHOOSE at : Opens(root, depth, index, 0, at)

\* The subtree of a level that holds this index.
Subtree(root, depth, level, index) == OpeningOf(root, depth, index)[level]

LEMMA OpeningExists ==
    ASSUME NEW root, NEW depth \in Nat, NEW index \in Nat
    PROVE  Opens(root, depth, index, 0, OpeningOf(root, depth, index))
<1> DEFINE S == {level \in 0..depth : \E at : Opens(root, depth, index, level, at)}
<1>1. depth \in S
  <2> DEFINE at == [level \in depth..depth |-> root]
  <2>1. Opens(root, depth, index, depth, at) BY DEF Opens
  <2> QED BY <2>1
<1>2. ASSUME NEW lo \in 0..(depth - 1), lo + 1 \in S PROVE lo \in S
  <2>1. PICK g : Opens(root, depth, index, lo + 1, g) BY <1>2
  <2> DEFINE b(level) == ((index \div 2^level) % 2) + 1
             d == [level \in lo..depth |-> IF level = lo THEN g[lo + 1][b(lo)]
                                           ELSE g[level]]
  <2> HIDE DEF b
  <2>2. \A level \in (lo + 1)..depth :
           g[level] = IF level = depth THEN root ELSE g[level + 1][b(level)]
    BY <2>1 DEF Opens, b
  <2>3. \A level \in (lo + 1)..depth : d[level] = g[level] OBVIOUS
  <2>4. d[lo] = g[lo + 1][b(lo)] OBVIOUS
  <2>5. d = [level \in lo..depth |-> d[level]] OBVIOUS
  <2> HIDE DEF d
  <2>6. \A level \in lo..depth :
           d[level] = IF level = depth THEN root ELSE d[level + 1][b(level)]
    <3> TAKE level \in lo..depth
    <3>1. CASE level = lo
      <4>1. level # depth /\ lo + 1 \in (lo + 1)..depth BY <3>1
      <4> QED BY <2>3, <2>4, <3>1, <4>1
    <3>2. CASE level # lo
      <4>1. level \in (lo + 1)..depth BY <3>2
      <4>2. level # depth => level + 1 \in (lo + 1)..depth BY <3>2
      <4> QED BY <2>2, <2>3, <4>1, <4>2
    <3> QED BY <3>1, <3>2
  <2>7. Opens(root, depth, index, lo, d) BY <2>5, <2>6 DEF Opens, b
  <2> QED BY <2>7
<1> HIDE DEF S
<1>3. 0 \in S
  <2>1. \A level \in 0..depth : level \in S BY <1>1, <1>2, DescendingSet
  <2> QED BY <2>1
<1>4. \E at : Opens(root, depth, index, 0, at) BY <1>3 DEF S
<1> QED BY <1>4 DEF OpeningOf

LEMMA SubtreeOpens ==
    ASSUME NEW root, NEW depth \in Nat, NEW index \in Nat
    PROVE  /\ Subtree(root, depth, depth, index) = root
           /\ \A level \in 0..(depth - 1) :
                 Subtree(root, depth, level, index) =
                     Subtree(root, depth, level + 1, index)[(Up(index, level) % 2) + 1]
           /\ LeafAt(root, depth, index) = Subtree(root, depth, 0, index)
<1> DEFINE at == OpeningOf(root, depth, index)
<1>1. Opens(root, depth, index, 0, at) BY OpeningExists
<1>2. LeafAt(root, depth, index) = at[0]
  BY Zenon DEF LeafAt, OpeningOf, Opens
<1>3. \A level \in 0..depth : Subtree(root, depth, level, index) = at[level] 
  BY DEF Subtree
<1> HIDE DEF at
<1>4. \A level \in 0..depth : at[level] =
         IF level = depth THEN root
         ELSE at[level + 1][((index \div 2^level) % 2) + 1]
  BY <1>1 DEF Opens
<1>5. at[depth] = root BY <1>4
<1>6. ASSUME NEW level \in 0..(depth - 1)
      PROVE  at[level] = at[level + 1][(Up(index, level) % 2) + 1]
  BY <1>4 DEF Up
<1>7. 0 \in 0..depth /\ depth \in 0..depth OBVIOUS
<1>8. \A level \in 0..(depth - 1) : level \in 0..depth /\ level + 1 \in 0..depth OBVIOUS
<1> QED BY <1>2, <1>3, <1>5, <1>6, <1>7, <1>8

\* Two indexes below the same node of a level open the same subtree there.
LEMMA SameSubtree ==
    ASSUME NEW depth \in Nat, Powers(depth), NEW root, NEW i \in Nat, NEW j \in Nat,
           NEW level \in 0..depth, Up(i, level) = Up(j, level)
    PROVE  Subtree(root, depth, level, i) = Subtree(root, depth, level, j)
<1> DEFINE S == {l \in 0..depth : Up(i, l) = Up(j, l) =>
                    Subtree(root, depth, l, i) = Subtree(root, depth, l, j)}
<1>1. depth \in S
  <2>1. /\ Subtree(root, depth, depth, i) = root
        /\ Subtree(root, depth, depth, j) = root
    BY SubtreeOpens
  <2> QED BY <2>1
<1>2. ASSUME NEW l \in 0..(depth - 1), l + 1 \in S PROVE l \in S
  <2> SUFFICES ASSUME Up(i, l) = Up(j, l)
               PROVE  Subtree(root, depth, l, i) = Subtree(root, depth, l, j)
    OBVIOUS
  <2>1. /\ Up(i, l) \in Nat /\ Up(i, l + 1) \in Nat
        /\ Up(i, l) = 2 * Up(i, l + 1) + (Up(i, l) % 2)
        /\ Up(i, l) % 2 \in {0, 1}
    BY UpHalves
  <2>2. /\ Up(j, l + 1) \in Nat
        /\ Up(j, l) = 2 * Up(j, l + 1) + (Up(j, l) % 2)
    BY UpHalves
  <2>3. Up(i, l + 1) = Up(j, l + 1)
    <3>1. \A a, b \in Nat : \A r \in {0, 1} : 2 * a + r = 2 * b + r => a = b OBVIOUS
    <3> QED BY <2>1, <2>2, <3>1
  <2>4. Subtree(root, depth, l + 1, i) = Subtree(root, depth, l + 1, j) BY <1>2, <2>3
  <2>5. /\ Subtree(root, depth, l, i)
             = Subtree(root, depth, l + 1, i)[(Up(i, l) % 2) + 1]
        /\ Subtree(root, depth, l, j)
             = Subtree(root, depth, l + 1, j)[(Up(j, l) % 2) + 1]
    BY SubtreeOpens
  <2> QED BY <2>4, <2>5
<1> HIDE DEF S
<1>3. \A l \in 0..depth : l \in S BY <1>1, <1>2, DescendingSet
<1>4. level \in S BY <1>3
<1> QED BY <1>4 DEF S

-----------------------------------------------------------------------------
\* Hashing up from the leaf of index n, up to a level: a right turn takes the
\* node on the left from `left', a left turn the one on the right from `right'.
Climbs(n, leaf, left, right, top, path) ==
    path = [level \in 0..top |->
              IF level = 0 THEN leaf
              ELSE IF (n \div 2^(level - 1)) % 2 = 0
                   THEN <<path[level - 1], right[level - 1]>>
                   ELSE <<left[level - 1], path[level - 1]>>]

LEMMA ClimbExists ==
    ASSUME NEW n \in Nat, NEW leaf, NEW left, NEW right, NEW depth \in Nat
    PROVE  \E path : Climbs(n, leaf, left, right, depth, path)
<1> DEFINE S == {top \in Nat : \E path : Climbs(n, leaf, left, right, top, path)}
<1>1. 0 \in S
  <2> DEFINE path == [level \in 0..0 |-> leaf]
  <2>1. Climbs(n, leaf, left, right, 0, path) BY DEF Climbs
  <2> QED BY <2>1
<1>2. ASSUME NEW top \in Nat, top \in S PROVE top + 1 \in S
  <2>1. PICK g : Climbs(n, leaf, left, right, top, g) BY <1>2
  <2> DEFINE step(below, level) == IF (n \div 2^(level - 1)) % 2 = 0
                                   THEN <<below, right[level - 1]>>
                                   ELSE <<left[level - 1], below>>
             d == [level \in 0..(top + 1) |->
                     IF level = top + 1 THEN step(g[top], top + 1) ELSE g[level]]
  <2>2. \A level \in 0..top :
           g[level] = IF level = 0 THEN leaf ELSE step(g[level - 1], level)
    BY <2>1 DEF Climbs
  <2> HIDE DEF step
  <2>3. \A level \in 0..top : d[level] = g[level] OBVIOUS
  <2>4. d[top + 1] = step(g[top], top + 1) OBVIOUS
  <2>5. d = [level \in 0..(top + 1) |-> d[level]] OBVIOUS
  <2> HIDE DEF d
  <2>6. \A level \in 0..(top + 1) :
           d[level] = IF level = 0 THEN leaf ELSE step(d[level - 1], level)
    <3> TAKE level \in 0..(top + 1)
    <3>1. CASE level = top + 1
      <4>1. level # 0 /\ level - 1 = top /\ top \in 0..top BY <3>1
      <4> QED BY <2>3, <2>4, <3>1, <4>1
    <3>2. CASE level # top + 1
      <4>1. level \in 0..top BY <3>2
      <4>2. level # 0 => level - 1 \in 0..top BY <3>2
      <4> QED BY <2>2, <2>3, <4>1, <4>2
    <3> QED BY <3>1, <3>2
  <2>7. Climbs(n, leaf, left, right, top + 1, d) BY <2>5, <2>6 DEF Climbs, step
  <2> QED BY <2>7
<1> HIDE DEF S
<1>3. depth \in S BY <1>1, <1>2, InductiveSet
<1> QED BY <1>3 DEF S

\* OpeningOf the new root at the index of the new leaf goes back down the path.
LEMMA PathOpens ==
    ASSUME NEW n \in Nat, NEW leaf, NEW left, NEW right, NEW depth \in Nat,
           NEW path, Climbs(n, leaf, left, right, depth, path)
    PROVE  /\ path[0] = leaf
           /\ \A level \in 0..depth : Subtree(path[depth], depth, level, n) = path[level]
           /\ \A level \in 0..(depth - 1) :
                 path[level + 1] = IF Up(n, level) % 2 = 0
                                   THEN <<path[level], right[level]>>
                                   ELSE <<left[level], path[level]>>
<1>1. \A level \in 0..depth : path[level] =
         IF level = 0 THEN leaf
         ELSE IF (n \div 2^(level - 1)) % 2 = 0
              THEN <<path[level - 1], right[level - 1]>>
              ELSE <<left[level - 1], path[level - 1]>>
  BY DEF Climbs
<1>2. path[0] = leaf
  <2>1. 0 \in 0..depth OBVIOUS
  <2> QED BY <1>1, <2>1
<1>3. ASSUME NEW level \in 0..(depth - 1)
      PROVE  path[level + 1] = IF Up(n, level) % 2 = 0
                               THEN <<path[level], right[level]>>
                               ELSE <<left[level], path[level]>>
  <2>1. level + 1 \in 0..depth /\ level + 1 # 0 /\ (level + 1) - 1 = level OBVIOUS
  <2>2. path[level + 1] = IF (n \div 2^level) % 2 = 0
                          THEN <<path[level], right[level]>>
                          ELSE <<left[level], path[level]>>
    BY <1>1, <2>1
  <2> QED BY <2>2 DEF Up
<1> DEFINE S == {level \in 0..depth :
                   Subtree(path[depth], depth, level, n) = path[level]}
<1>4. depth \in S
  <2>1. Subtree(path[depth], depth, depth, n) = path[depth] BY SubtreeOpens
  <2> QED BY <2>1
<1>5. ASSUME NEW level \in 0..(depth - 1), level + 1 \in S PROVE level \in S
  <2>1. Subtree(path[depth], depth, level, n)
          = Subtree(path[depth], depth, level + 1, n)[(Up(n, level) % 2) + 1]
    BY SubtreeOpens
  <2>2. Subtree(path[depth], depth, level + 1, n) = path[level + 1] BY <1>5
  <2> DEFINE b == Up(n, level) % 2
  <2>3. b \in {0, 1}
    <3>1. b = (n \div 2^level) % 2 BY DEF Up
    <3> QED BY <3>1
  <2>4. path[level + 1][b + 1] = path[level] 
    <3> HIDE DEF b
    <3>1. path[level + 1] = IF b = 0 THEN <<path[level], right[level]>>
                                     ELSE <<left[level], path[level]>>
      BY <1>3 DEF b
    <3> QED BY <2>3, <3>1
  <2> QED BY <2>1, <2>2, <2>4
<1> HIDE DEF S
<1>6. \A level \in 0..depth : level \in S BY <1>4, <1>5, DescendingSet
<1> QED BY <1>2, <1>3, <1>6 DEF S

\* The left siblings on the way up from index n are subtrees of the root.
Frontier(root, depth, n, left) ==
    \A level \in 0..(depth - 1) :
        Up(n, level) % 2 = 1 => left[level] = Subtree(root, depth, level, n - 2^level)

\* The new root keeps every subtree that the path does not go through.
LEMMA InsertKeepsSubtrees ==
    ASSUME NEW depth \in Nat, Powers(depth), NEW n \in Nat, n < 2^depth,
           NEW leaf, NEW left, NEW right, NEW path, NEW root,
           Climbs(n, leaf, left, right, depth, path), Frontier(root, depth, n, left),
           NEW j \in Nat, j < n, NEW level \in 0..depth, Up(j, level) # Up(n, level)
    PROVE  Subtree(path[depth], depth, level, j) = Subtree(root, depth, level, j)
<1> DEFINE grown == path[depth]
           S == {l \in 0..depth : Up(j, l) # Up(n, l) =>
                   Subtree(grown, depth, l, j) = Subtree(root, depth, l, j)}
<1> HIDE DEF grown
<1>1. depth \in S
  <2>1. 2^depth \in Nat \ {0} BY PowersArePositive
  <2>2. j < 2^depth BY <2>1
  <2>3. Up(j, depth) = 0 /\ Up(n, depth) = 0 BY <2>2, UpNeighbours
  <2> QED BY <2>3
<1>2. ASSUME NEW l \in 0..(depth - 1), l + 1 \in S PROVE l \in S
  <2> SUFFICES ASSUME Up(j, l) # Up(n, l)
               PROVE  Subtree(grown, depth, l, j) = Subtree(root, depth, l, j)
    OBVIOUS
  <2>1. /\ Subtree(grown, depth, l, j)
             = Subtree(grown, depth, l + 1, j)[(Up(j, l) % 2) + 1]
        /\ Subtree(root, depth, l, j)
             = Subtree(root, depth, l + 1, j)[(Up(j, l) % 2) + 1]
    BY SubtreeOpens
  <2>2. CASE Up(j, l + 1) # Up(n, l + 1)
    <3>1. Subtree(grown, depth, l + 1, j) = Subtree(root, depth, l + 1, j) BY <1>2, <2>2
    <3> QED BY <2>1, <3>1
  <2>3. CASE Up(j, l + 1) = Up(n, l + 1)
    <3>1. /\ Up(j, l) \in Nat /\ Up(j, l + 1) \in Nat
          /\ Up(j, l) = 2 * Up(j, l + 1) + (Up(j, l) % 2)
          /\ Up(j, l) % 2 \in {0, 1}
      BY UpHalves
    <3>2. /\ Up(n, l) \in Nat
          /\ Up(n, l) = 2 * Up(n, l + 1) + (Up(n, l) % 2)
          /\ Up(n, l) % 2 \in {0, 1}
      BY UpHalves
    <3>3. l \in 0..depth /\ l + 1 \in 0..depth OBVIOUS
    <3>4. Up(j, l) <= Up(n, l) BY <3>3, UpNeighbours
    <3>5. /\ Up(j, l) % 2 = 0 /\ Up(n, l) % 2 = 1
          /\ Up(j, l) = Up(n, l) - 1 /\ Up(n, l) # 0
      BY <2>3, <3>1, <3>2, <3>4
    <3>6. Subtree(grown, depth, l + 1, j) = Subtree(grown, depth, l + 1, n)
      BY <2>3, <3>3, SameSubtree
    <3>7. Subtree(grown, depth, l + 1, n) = path[l + 1] BY <3>3, PathOpens DEF grown
    <3>8. path[l + 1] = <<left[l], path[l]>>
      <4>1. path[l + 1] = IF Up(n, l) % 2 = 0 THEN <<path[l], right[l]>>
                          ELSE <<left[l], path[l]>>
        BY PathOpens
      <4> QED BY <3>5, <4>1
    <3>9. Subtree(grown, depth, l, j) = left[l] BY <2>1, <3>5, <3>6, <3>7, <3>8
    <3>10. left[l] = Subtree(root, depth, l, n - 2^l) BY <3>5 DEF Frontier
    <3>11. n - 2^l \in Nat /\ Up(n - 2^l, l) = Up(n, l) - 1 BY <3>3, <3>5, UpNeighbours
    <3>12. Subtree(root, depth, l, n - 2^l) = Subtree(root, depth, l, j)
      BY <3>3, <3>5, <3>11, SameSubtree
    <3> QED BY <3>9, <3>10, <3>12
  <2> QED BY <2>2, <2>3
<1> HIDE DEF S
<1>3. \A l \in 0..depth : l \in S BY <1>1, <1>2, DescendingSet
<1>4. level \in S BY <1>3
<1> QED BY <1>4 DEF S, grown

\* What a pool needs of an insertion: the leaf is at its index, the older ones
\* are where they were, and the left siblings of the next index are right if
\* the nodes of the path that are complete have been kept.
LEMMA InsertLeaf ==
    ASSUME NEW depth \in Nat, Powers(depth), NEW n \in Nat, n < 2^depth,
           NEW leaf, NEW left, NEW right, NEW path, NEW root, NEW next,
           Climbs(n, leaf, left, right, depth, path), Frontier(root, depth, n, left),
           \A level \in 0..(depth - 1) : Up(n + 1, level) % 2 = 1 =>
               next[level] = IF Up(n, level) % 2 = 0 THEN path[level] ELSE left[level]
    PROVE  /\ LeafAt(path[depth], depth, n) = leaf
           /\ \A j \in 0..(n - 1) :
                 LeafAt(path[depth], depth, j) = LeafAt(root, depth, j)
           /\ Frontier(path[depth], depth, n + 1, next)
<1> DEFINE grown == path[depth]
<1>0. 0 \in 0..depth OBVIOUS
<1>1. LeafAt(grown, depth, n) = leaf
  <2> HIDE DEF grown
  <2>1. LeafAt(grown, depth, n) = Subtree(grown, depth, 0, n) BY SubtreeOpens
  <2>2. Subtree(grown, depth, 0, n) = path[0] BY <1>0, PathOpens DEF grown
  <2>3. path[0] = leaf
    <3>1. \A level \in 0..depth : path[level] =
             IF level = 0 THEN leaf
             ELSE IF (n \div 2^(level - 1)) % 2 = 0
                  THEN <<path[level - 1], right[level - 1]>>
                  ELSE <<left[level - 1], path[level - 1]>>
      BY DEF Climbs
    <3> QED BY <1>0, <3>1
  <2> QED BY <2>1, <2>2, <2>3
<1>2. ASSUME NEW j \in 0..(n - 1)
      PROVE  LeafAt(grown, depth, j) = LeafAt(root, depth, j)
  <2>1. j \in Nat /\ j < n OBVIOUS
  <2>2. 2^0 = 1 OBVIOUS
  <2>3. j \div 1 = j /\ n \div 1 = n BY <2>1
  <2>4. Up(j, 0) # Up(n, 0) BY <2>1, <2>2, <2>3 DEF Up
  <2>5. Subtree(grown, depth, 0, j) = Subtree(root, depth, 0, j)
    BY <1>0, <2>1, <2>4, InsertKeepsSubtrees
  <2> HIDE DEF grown
  <2>6. LeafAt(grown, depth, j) = Subtree(grown, depth, 0, j) BY <2>1, SubtreeOpens
  <2>7. LeafAt(root, depth, j) = Subtree(root, depth, 0, j) BY <2>1, SubtreeOpens
  <2> QED BY <2>5, <2>6, <2>7
<1>3. ASSUME NEW l \in 0..(depth - 1), Up(n + 1, l) % 2 = 1
      PROVE  next[l] = Subtree(grown, depth, l, n + 1 - 2^l)
  <2>1. l \in 0..depth /\ n + 1 \in Nat OBVIOUS
  <2>2. Up(n, l) \in Nat /\ Up(n, l) % 2 \in {0, 1} BY UpHalves
  <2>3. Up(n + 1, l) \in {Up(n, l), Up(n, l) + 1} BY <2>1, UpNeighbours
  <2>4. Up(n + 1, l) # 0 BY <1>3, <2>2, <2>3
  <2>5. n + 1 - 2^l \in Nat /\ Up(n + 1 - 2^l, l) = Up(n + 1, l) - 1
    BY <2>1, <2>4, UpNeighbours
  <2>6. CASE Up(n, l) % 2 = 0
    <3>1. Up(n + 1, l) = Up(n, l) + 1 BY <1>3, <2>2, <2>3, <2>6
    <3>2. Up(n + 1 - 2^l, l) = Up(n, l) BY <2>2, <2>5, <3>1
    <3>3. Subtree(grown, depth, l, n + 1 - 2^l) = Subtree(grown, depth, l, n)
      <4> HIDE DEF grown
      <4> QED BY <2>1, <2>5, <3>2, SameSubtree
    <3>4. Subtree(grown, depth, l, n) = path[l] BY <2>1, PathOpens
    <3> QED BY <1>3, <2>6, <3>3, <3>4
  <2>7. CASE Up(n, l) % 2 = 1
    <3>1. Up(n + 1, l) = Up(n, l) BY <1>3, <2>2, <2>3, <2>7
    <3>2. Up(n, l) # 0 BY <2>4, <3>1
    <3> DEFINE j == n - 2^l
    <3>3. j \in Nat /\ Up(j, l) = Up(n, l) - 1 BY <2>1, <3>2, UpNeighbours
    <3>4. j < n
      <4>1. 2^l \in Nat \ {0} BY <2>1, PowersArePositive
      <4> QED BY <4>1
    <3>5. left[l] = Subtree(root, depth, l, j) BY <2>7 DEF Frontier
    <3> HIDE DEF j
    <3>6. Up(j, l) # Up(n, l) BY <2>2, <3>3
    <3>7. Subtree(grown, depth, l, j) = Subtree(root, depth, l, j)
      BY <2>1, <3>3, <3>4, <3>6, InsertKeepsSubtrees
    <3>8. Up(n + 1 - 2^l, l) = Up(j, l) BY <2>5, <3>1, <3>3
    <3>9. Subtree(grown, depth, l, n + 1 - 2^l) = Subtree(grown, depth, l, j)
      <4> HIDE DEF grown
      <4> QED BY <2>1, <2>5, <3>3, <3>8, SameSubtree
    <3>10. next[l] = left[l] BY <1>3, <2>7
    <3> QED BY <3>5, <3>7, <3>9, <3>10
  <2> QED BY <2>2, <2>6, <2>7
<1>4. Frontier(grown, depth, n + 1, next) BY <1>3 DEF Frontier
<1> QED BY <1>1, <1>2, <1>4

\* One list of leaves is another with one more leaf at its end.
Grows(old, grown, leaf) ==
    /\ Len(old) \in Nat /\ Len(grown) = Len(old) + 1
    /\ \A i \in 1..Len(old) : grown[i] = old[i]
    /\ grown[Len(old) + 1] = leaf

LEMMA LeavesLength ==
    ASSUME NEW root, NEW depth, NEW n \in Nat
    PROVE  Len(LeavesUnder(root, depth, n)) = n
BY DEF LeavesUnder

LEMMA LeavesGrow ==
    ASSUME NEW root, NEW grown, NEW depth, NEW n \in Nat, NEW leaf,
           LeafAt(grown, depth, n) = leaf,
           \A j \in 0..(n - 1) : LeafAt(grown, depth, j) = LeafAt(root, depth, j)
    PROVE  Grows(LeavesUnder(root, depth, n), LeavesUnder(grown, depth, n + 1), leaf)
<1> DEFINE a == LeavesUnder(root, depth, n)
           b == LeavesUnder(grown, depth, n + 1)
<1>1. Len(a) = n /\ Len(b) = n + 1 BY LeavesLength
<1>2. ASSUME NEW i \in 1..n PROVE b[i] = a[i]
  <2>1. i - 1 \in 0..(n - 1) /\ i \in 1..(n + 1) OBVIOUS
  <2>2. b[i] = LeafAt(grown, depth, i - 1) /\ a[i] = LeafAt(root, depth, i - 1)
    BY <2>1 DEF LeavesUnder
  <2> QED BY <2>1, <2>2
<1>3. b[n + 1] = leaf
  <2>1. n + 1 \in 1..(n + 1) /\ (n + 1) - 1 = n OBVIOUS
  <2>2. b[n + 1] = LeafAt(grown, depth, n) BY <2>1 DEF LeavesUnder
  <2> QED BY <2>2
<1> HIDE DEF a, b
<1>4. Grows(a, b, leaf) BY <1>1, <1>2, <1>3 DEF Grows
<1> QED BY <1>4 DEF a, b

\* A list of leaves that others follow keeps its prefixes.
LEMMA PrefixesStay ==
    ASSUME NEW a, NEW b, NEW n \in Nat, \A i \in 1..n : b[i] = a[i], NEW m \in 0..n
    PROVE  SubSeq(b, 1, m) = SubSeq(a, 1, m)
<1> DEFINE S == {a[i] : i \in 1..n}
<1>1. \A i \in 1..m : a[i] \in S /\ b[i] \in S OBVIOUS
<1>2. 1 \in Int /\ m \in Int OBVIOUS
<1> HIDE DEF S
<1>3. /\ SubSeq(a, 1, m) \in Seq(S)
      /\ Len(SubSeq(a, 1, m)) = IF 1 <= m THEN m - 1 + 1 ELSE 0
      /\ \A i \in 1..(m - 1 + 1) : SubSeq(a, 1, m)[i] = a[1 + i - 1]
  BY <1>1, <1>2, SubSeqProperties
<1>4. /\ SubSeq(b, 1, m) \in Seq(S)
      /\ Len(SubSeq(b, 1, m)) = IF 1 <= m THEN m - 1 + 1 ELSE 0
      /\ \A i \in 1..(m - 1 + 1) : SubSeq(b, 1, m)[i] = b[1 + i - 1]
  BY <1>1, <1>2, SubSeqProperties
<1> DEFINE x == SubSeq(a, 1, m)  y == SubSeq(b, 1, m)
<1> HIDE DEF x, y
<1>5. x \in Seq(S) /\ y \in Seq(S) /\ Len(x) = Len(y) /\ Len(x) = m
  BY <1>3, <1>4 DEF x, y
<1>6. ASSUME NEW i \in 1..Len(x) PROVE x[i] = y[i]
  <2>1. i \in 1..(m - 1 + 1) /\ 1 + i - 1 = i /\ i \in 1..n BY <1>5
  <2>2. x[i] = a[1 + i - 1] /\ y[i] = b[1 + i - 1] BY <1>3, <1>4, <2>1 DEF x, y
  <2> QED BY <2>1, <2>2
<1>7. x = y BY <1>5, <1>6, SeqEqual
<1> QED BY <1>7 DEF x, y

\* What PoolLedger asks of a step that appends k notes.
Appended(old, grown, k, capacity, Note) ==
    /\ Len(grown) = Len(old) + k /\ Len(grown) <= capacity
    /\ \A i \in 1..Len(old) : grown[i] = old[i]
    /\ \A i \in (Len(old) + 1)..Len(grown) : grown[i] \in Note

LEMMA OneAppended ==
    ASSUME NEW a, NEW b, NEW Note, NEW note \in Note, NEW capacity \in Nat,
           Grows(a, b, note), Len(a) + 1 <= capacity
    PROVE  Appended(a, b, 1, capacity, Note)
<1>1. Len(a) \in Nat /\ Len(b) = Len(a) + 1 BY DEF Grows
<1>2. \A i \in (Len(a) + 1)..Len(b) : i = Len(a) + 1 BY <1>1
<1>3. b[Len(a) + 1] = note /\ \A i \in 1..Len(a) : b[i] = a[i] BY DEF Grows
<1> QED BY <1>1, <1>2, <1>3 DEF Appended

LEMMA TwoAppended ==
    ASSUME NEW a, NEW b, NEW c, NEW Note, NEW note1 \in Note, NEW note2 \in Note,
           NEW capacity \in Nat, Grows(a, b, note1), Grows(b, c, note2),
           Len(a) + 2 <= capacity
    PROVE  Appended(a, c, 2, capacity, Note)
<1>1. Len(a) \in Nat /\ Len(b) = Len(a) + 1 /\ Len(c) = Len(a) + 2 BY DEF Grows
<1>2. /\ b[Len(a) + 1] = note1 /\ c[Len(a) + 2] = note2
      /\ \A i \in 1..Len(a) : b[i] = a[i]
      /\ \A i \in 1..(Len(a) + 1) : c[i] = b[i]
  BY <1>1 DEF Grows
<1>3. c[Len(a) + 1] = note1 BY <1>1, <1>2
<1>4. \A i \in 1..Len(a) : c[i] = a[i] BY <1>1, <1>2
<1>5. \A i \in (Len(a) + 1)..Len(c) : i = Len(a) + 1 \/ i = Len(a) + 2 BY <1>1
<1> QED BY <1>1, <1>2, <1>3, <1>4, <1>5 DEF Appended

-----------------------------------------------------------------------------
(* The tree that the Substrate, the CosmWasm and the NEAR pool keep: the   *)
(* next index, the filled subtree of each level and a ring of roots.       *)

\* What the latest root of a tree commits to.
Kept(t, depth) == LeavesUnder(t.roots[t.current], depth, t.next)

\* The filled subtrees belong to the latest root: with this, and not without,
\* an insertion keeps the leaves before it.
TreeOK(t, depth, size) ==
    /\ t.next \in Nat /\ t.next <= 2^depth
    /\ t.current \in 0..(size - 1) /\ DOMAIN t.roots = 0..(size - 1)
    /\ Frontier(t.roots[t.current], depth, t.next, t.filled)

\* insert_leaf of the three pools.
Inserted(t, leaf, zeros, depth, size) ==
    LET path == CHOOSE path : Climbs(t.next, leaf, t.filled, zeros, depth, path)
        slot == (t.current + 1) % size
    IN  [next    |-> t.next + 1,
         filled  |-> [level \in 0..(depth - 1) |-> IF (t.next \div 2^level) % 2 = 0
                                                   THEN path[level] ELSE t.filled[level]],
         roots   |-> [t.roots EXCEPT ![slot] = path[depth]],
         current |-> slot]

LEMMA EmptyFrontier ==
    ASSUME NEW depth \in Nat, Powers(depth), NEW root, NEW left
    PROVE  Frontier(root, depth, 0, left)
<1>1. ASSUME NEW level \in 0..(depth - 1) PROVE Up(0, level) % 2 # 1
  <2>1. level \in 0..depth OBVIOUS
  <2>2. 2^level \in Nat \ {0} BY <2>1, PowersArePositive
  <2>3. 0 < 2^level BY <2>2
  <2>4. Up(0, level) = 0 BY <2>1, <2>3, UpNeighbours
  <2> QED BY <2>4
<1> QED BY <1>1 DEF Frontier

\* The leaf is appended to what the tree commits to.
LEMMA InsertedEffect ==
    ASSUME NEW depth \in Nat, Powers(depth), NEW size \in Nat \ {0}, NEW zeros,
           NEW t, TreeOK(t, depth, size), t.next + 1 <= 2^depth, NEW leaf,
           NEW u, u = Inserted(t, leaf, zeros, depth, size)
    PROVE  /\ TreeOK(u, depth, size) /\ u.next = t.next + 1
           /\ Grows(Kept(t, depth), Kept(u, depth), leaf)
<1> DEFINE n == t.next  root == t.roots[t.current]
           path == CHOOSE path : Climbs(n, leaf, t.filled, zeros, depth, path)
           slot == (t.current + 1) % size
<1>1. u = [next    |-> n + 1,
           filled  |-> [level \in 0..(depth - 1) |->
                          IF Up(n, level) % 2 = 0 THEN path[level] ELSE t.filled[level]],
           roots   |-> [t.roots EXCEPT ![slot] = path[depth]],
           current |-> slot]
  BY Zenon DEF Inserted, Up
<1>2. n \in Nat /\ 2^depth \in Nat \ {0} /\ t.current \in 0..(size - 1)
  BY PowersArePositive DEF TreeOK
<1>3. n < 2^depth BY <1>2
<1>4. Climbs(n, leaf, t.filled, zeros, depth, path) BY <1>2, ClimbExists
<1> HIDE DEF path
<1>5. Frontier(root, depth, n, t.filled) BY DEF TreeOK
<1>6. slot \in 0..(size - 1) BY <1>2
<1> HIDE DEF slot
<1>7. /\ u.next = n + 1 /\ u.current = slot /\ DOMAIN u.roots = 0..(size - 1)
      /\ u.roots[slot] = path[depth]
  BY <1>1, <1>6 DEF TreeOK
<1>8. u.filled = [level \in 0..(depth - 1) |->
                    IF Up(n, level) % 2 = 0 THEN path[level] ELSE t.filled[level]]
  BY <1>1
<1> DEFINE filled == t.filled  next == u.filled  grown == path[depth]
<1>9. \A level \in 0..(depth - 1) : Up(n + 1, level) % 2 = 1 =>
         next[level] = IF Up(n, level) % 2 = 0 THEN path[level] ELSE filled[level]
  BY <1>8
<1>10. /\ LeafAt(grown, depth, n) = leaf
       /\ \A j \in 0..(n - 1) : LeafAt(grown, depth, j) = LeafAt(root, depth, j)
       /\ Frontier(grown, depth, n + 1, next)
  <2> HIDE DEF n, root, filled, next
  <2>1. /\ Climbs(n, leaf, filled, zeros, depth, path)
        /\ Frontier(root, depth, n, filled)
    BY <1>4, <1>5 DEF filled
  <2> QED BY <1>2, <1>3, <1>9, <2>1, InsertLeaf
<1>11. Grows(LeavesUnder(root, depth, n), LeavesUnder(grown, depth, n + 1), leaf)
  <2> HIDE DEF n, root, grown
  <2> QED BY <1>2, <1>10, LeavesGrow
<1>12. Grows(Kept(t, depth), Kept(u, depth), leaf) BY <1>7, <1>11 DEF Kept
<1>13. TreeOK(u, depth, size) BY <1>2, <1>6, <1>7, <1>10 DEF TreeOK
<1> QED BY <1>7, <1>12, <1>13

\* A call that inserts one leaf, and one that inserts two.
LEMMA InsertOne ==
    ASSUME NEW depth \in Nat, Powers(depth), NEW size \in Nat \ {0}, NEW zeros,
           NEW t, TreeOK(t, depth, size), t.next + 1 <= 2^depth,
           NEW Note, NEW note \in Note,
           NEW u, u = Inserted(t, note, zeros, depth, size)
    PROVE  /\ TreeOK(u, depth, size)
           /\ Appended(Kept(t, depth), Kept(u, depth), 1, 2^depth, Note)
<1>1. TreeOK(u, depth, size) /\ Grows(Kept(t, depth), Kept(u, depth), note)
  BY InsertedEffect
<1>2. 2^depth \in Nat BY PowersArePositive
<1>3. Len(Kept(t, depth)) = t.next BY LeavesLength DEF Kept, TreeOK
<1> QED BY <1>1, <1>2, <1>3, OneAppended

LEMMA InsertTwo ==
    ASSUME NEW depth \in Nat, Powers(depth), NEW size \in Nat \ {0}, NEW zeros,
           NEW t, TreeOK(t, depth, size), t.next + 2 <= 2^depth,
           NEW Note, NEW note1 \in Note, NEW note2 \in Note,
           NEW v, v = Inserted(Inserted(t, note1, zeros, depth, size),
                               note2, zeros, depth, size)
    PROVE  /\ TreeOK(v, depth, size)
           /\ Appended(Kept(t, depth), Kept(v, depth), 2, 2^depth, Note)
<1> DEFINE u == Inserted(t, note1, zeros, depth, size)
<1>1. /\ 2^depth \in Nat /\ t.next \in Nat
      /\ t.next + 1 <= 2^depth /\ (t.next + 1) + 1 <= 2^depth
  BY PowersArePositive DEF TreeOK
<1>2. v = Inserted(u, note2, zeros, depth, size) OBVIOUS
<1>3. /\ TreeOK(u, depth, size) /\ u.next = t.next + 1
      /\ Grows(Kept(t, depth), Kept(u, depth), note1)
  BY <1>1, InsertedEffect
<1> HIDE DEF u
<1>4. TreeOK(v, depth, size) /\ Grows(Kept(u, depth), Kept(v, depth), note2)
  BY <1>1, <1>2, <1>3, InsertedEffect
<1>5. Len(Kept(t, depth)) = t.next BY <1>1, LeavesLength DEF Kept
<1> QED BY <1>1, <1>3, <1>4, <1>5, TwoAppended

-----------------------------------------------------------------------------
(* The reference tree, layer by layer.                                     *)

\* The layers of ReferenceRoot up to a level.
TreeLayersUpTo(leaves, depth, empty, top, node) ==
    node = [level \in 0..top |->
             [k \in 0..(2^(depth - level) - 1) |->
                IF k * 2^level >= Len(leaves) THEN empty[level]
                ELSE IF level = 0 THEN leaves[k + 1]
                ELSE <<node[level - 1][2 * k], node[level - 1][2 * k + 1]>>]]

TreeLayers(leaves, depth, empty) ==
    CHOOSE node : TreeLayersUpTo(leaves, depth, empty, depth, node)

LEMMA TreeLayersExist ==
    ASSUME NEW leaves, NEW depth \in Nat, NEW empty
    PROVE  TreeLayersUpTo(leaves, depth, empty, depth, TreeLayers(leaves, depth, empty))
<1> DEFINE S == {top \in Nat : \E node : TreeLayersUpTo(leaves, depth, empty, top, node)}
           layer(level, below) ==
             [k \in 0..(2^(depth - level) - 1) |->
                IF k * 2^level >= Len(leaves) THEN empty[level]
                ELSE IF level = 0 THEN leaves[k + 1]
                ELSE <<below[2 * k], below[2 * k + 1]>>]
<1>0. \A top, node : TreeLayersUpTo(leaves, depth, empty, top, node)
          <=> node = [level \in 0..top |-> layer(level, node[level - 1])]
  BY Zenon DEF TreeLayersUpTo
<1>00. \A x, y : layer(0, x) = layer(0, y) OBVIOUS
<1> HIDE DEF layer
<1>1. 0 \in S
  <2> DEFINE node == [level \in 0..0 |-> layer(0, 0)]
  <2>1. node = [level \in 0..0 |-> layer(level, node[level - 1])] BY <1>00
  <2> HIDE DEF node
  <2>2. TreeLayersUpTo(leaves, depth, empty, 0, node) BY <1>0, <2>1
  <2> QED BY <2>2
<1>2. ASSUME NEW top \in Nat, top \in S PROVE top + 1 \in S
  <2>1. PICK g : TreeLayersUpTo(leaves, depth, empty, top, g) BY <1>2
  <2>2. g = [level \in 0..top |-> layer(level, g[level - 1])] BY <1>0, <2>1
  <2> DEFINE d == [level \in 0..(top + 1) |->
                     IF level = top + 1 THEN layer(top + 1, g[top]) ELSE g[level]]
  <2>3. \A level \in 0..top : d[level] = g[level] OBVIOUS
  <2>4. d[top + 1] = layer(top + 1, g[top]) OBVIOUS
  <2>5. d = [level \in 0..(top + 1) |-> d[level]] OBVIOUS
  <2>6. \A level \in 0..top : g[level] = layer(level, g[level - 1]) BY <2>2
  <2> HIDE DEF d
  <2>7. \A level \in 0..(top + 1) : d[level] = layer(level, d[level - 1])
    <3> TAKE level \in 0..(top + 1)
    <3>1. CASE level = top + 1
      <4>1. level - 1 = top /\ top \in 0..top BY <3>1
      <4> QED BY <2>3, <2>4, <3>1, <4>1
    <3>2. CASE level = 0
      <4>1. level \in 0..top BY <3>2
      <4>2. d[level] = layer(0, g[level - 1]) BY <2>3, <2>6, <3>2, <4>1
      <4> QED BY <1>00, <3>2, <4>2
    <3>3. CASE level # top + 1 /\ level # 0
      <4>1. level \in 0..top /\ level - 1 \in 0..top BY <3>3
      <4> QED BY <2>3, <2>6, <4>1
    <3> QED BY <3>1, <3>2, <3>3
  <2>8. d = [level \in 0..(top + 1) |-> layer(level, d[level - 1])] BY <2>5, <2>7
  <2>9. TreeLayersUpTo(leaves, depth, empty, top + 1, d) BY <1>0, <2>8
  <2> QED BY <2>9
<1> HIDE DEF S
<1>3. depth \in S BY <1>1, <1>2, InductiveSet
<1>4. \E node : TreeLayersUpTo(leaves, depth, empty, depth, node) BY <1>3 DEF S
<1> QED BY <1>4 DEF TreeLayers

\* A node of the reference tree.
Cell(leaves, depth, empty, level, k) == TreeLayers(leaves, depth, empty)[level][k]

Width(depth, level) == 2^(depth - level)

\* What a node is, by the nodes below it.
NodeOver(leaves, depth, empty, level, k) ==
    IF k * 2^level >= Len(leaves) THEN empty[level]
    ELSE IF level = 0 THEN leaves[k + 1]
    ELSE <<Cell(leaves, depth, empty, level - 1, 2 * k),
           Cell(leaves, depth, empty, level - 1, 2 * k + 1)>>

LEMMA CellValue ==
    ASSUME NEW leaves, NEW depth \in Nat, NEW empty, NEW level \in 0..depth,
           NEW k \in 0..(Width(depth, level) - 1)
    PROVE  Cell(leaves, depth, empty, level, k) = NodeOver(leaves, depth, empty, level, k)
<1> DEFINE node == TreeLayers(leaves, depth, empty)
           value(l, j) == IF j * 2^l >= Len(leaves) THEN empty[l]
                          ELSE IF l = 0 THEN leaves[j + 1]
                          ELSE <<node[l - 1][2 * j], node[l - 1][2 * j + 1]>>
<1>1. TreeLayersUpTo(leaves, depth, empty, depth, node) BY TreeLayersExist
<1> HIDE DEF node
<1>2. node = [l \in 0..depth |-> [j \in 0..(2^(depth - l) - 1) |-> value(l, j)]]
  BY <1>1, Zenon DEF TreeLayersUpTo
<1>3. k \in 0..(2^(depth - level) - 1) BY DEF Width
<1>4. node[level][k] = value(level, k)
  <2> HIDE DEF value
  <2> QED BY <1>2, <1>3
<1>5. \A l, j : Cell(leaves, depth, empty, l, j) = node[l][j] BY DEF Cell, node
<1> QED BY <1>4, <1>5 DEF NodeOver

\* A node over no leaf is the empty value of its level.
LEMMA EmptyCells ==
    ASSUME NEW leaves, NEW depth \in Nat, NEW empty, Powers(depth),
           NEW level \in 0..depth, NEW k \in 0..(Width(depth, level) - 1)
    PROVE  Len(leaves) = 0 => Cell(leaves, depth, empty, level, k) = empty[level]
<1>1. Cell(leaves, depth, empty, level, k) = NodeOver(leaves, depth, empty, level, k)
  BY CellValue
<1>2. 2^level \in Nat \ {0} BY PowersArePositive
<1>3. k * 2^level >= 0 BY <1>2
<1> QED BY <1>1, <1>3 DEF NodeOver

LEMMA RootIsCell ==
    ASSUME NEW leaves, NEW depth, NEW empty
    PROVE  ReferenceRoot(leaves, depth, empty) = Cell(leaves, depth, empty, depth, 0)
BY Zenon DEF ReferenceRoot, ReferenceTree, Cell, TreeLayers, TreeLayersUpTo

LEMMA WidthDoubles ==
    ASSUME NEW depth \in Nat, Powers(depth), NEW level \in 0..(depth - 1)
    PROVE  /\ Width(depth, level) = 2 * Width(depth, level + 1)
           /\ Width(depth, level + 1) \in Nat \ {0}
<1> DEFINE l == depth - (level + 1)
<1>1. l \in 0..(depth - 1) /\ l \in 0..depth /\ depth - level = l + 1 OBVIOUS
<1> HIDE DEF l
<1>2. 2^(l + 1) = 2 * 2^l BY <1>1 DEF Powers
<1>3. 2^l \in Nat \ {0} BY <1>1, PowersArePositive
<1> QED BY <1>1, <1>2, <1>3 DEF Width, l

\* The way up from an index stays in the tree.
LEMMA UpInWidth ==
    ASSUME NEW depth \in Nat, Powers(depth), NEW n \in Nat, n < 2^depth,
           NEW level \in 0..depth
    PROVE  Up(n, level) \in 0..(Width(depth, level) - 1)
<1> DEFINE S == {l \in 0..depth : Up(n, l) \in 0..(Width(depth, l) - 1)}
<1>1. depth \in S
  <2>1. depth - depth = 0 /\ 2^0 = 1 OBVIOUS
  <2>2. Width(depth, depth) = 1 BY <2>1 DEF Width
  <2>3. Up(n, depth) = 0 BY UpNeighbours
  <2> QED BY <2>2, <2>3
<1>2. ASSUME NEW l \in 0..(depth - 1), l + 1 \in S PROVE l \in S
  <2>1. Width(depth, l) = 2 * Width(depth, l + 1) /\ Width(depth, l + 1) \in Nat
    BY WidthDoubles
  <2>2. /\ Up(n, l) \in Nat /\ Up(n, l + 1) \in Nat
        /\ Up(n, l) = 2 * Up(n, l + 1) + (Up(n, l) % 2)
        /\ Up(n, l) % 2 \in {0, 1}
    BY UpHalves
  <2>3. Up(n, l + 1) \in 0..(Width(depth, l + 1) - 1) BY <1>2
  <2> QED BY <2>1, <2>2, <2>3
<1> HIDE DEF S
<1>3. \A l \in 0..depth : l \in S BY <1>1, <1>2, DescendingSet
<1>4. level \in S BY <1>3
<1> QED BY <1>4 DEF S

LEMMA BelowIndex ==
    ASSUME NEW n \in Nat, NEW p \in Nat \ {0}, NEW k \in Nat
    PROVE  /\ k = n \div p => ~ (k * p >= n + 1)
           /\ k # n \div p => (k * p >= n + 1 <=> k * p >= n)
<1> DEFINE q == n \div p  r == n % p
<1>1. q \in Nat /\ r \in 0..(p - 1) /\ n = (p * q) + r BY Divides
<1> HIDE DEF q, r
<1>2. k = q => k * p <= n BY <1>1
<1>3. k * p = n => k = n \div p OBVIOUS
<1>4. k * p \in Nat OBVIOUS
<1> QED BY <1>2, <1>3, <1>4 DEF q

\* What an insertion reads beside its path are nodes of the reference tree.
AreSiblings(leaves, depth, empty, n, left, right) ==
    \A level \in 0..(depth - 1) :
       IF Up(n, level) % 2 = 0
       THEN right[level] = Cell(leaves, depth, empty, level, Up(n, level) + 1)
       ELSE left[level] = Cell(leaves, depth, empty, level, Up(n, level) - 1)

\* Inserting a leaf by hashing up its path, with the siblings of the reference
\* tree, changes the nodes of the path and no others.
LEMMA InsertCells ==
    ASSUME NEW depth \in Nat, Powers(depth), NEW n \in Nat, n < 2^depth, NEW empty,
           NEW old, NEW grown, NEW leaf, Grows(old, grown, leaf), Len(old) = n,
           NEW left, NEW right, NEW path, Climbs(n, leaf, left, right, depth, path),
           AreSiblings(old, depth, empty, n, left, right)
    PROVE  \A level \in 0..depth : \A k \in 0..(Width(depth, level) - 1) :
              Cell(grown, depth, empty, level, k) =
                 IF k = Up(n, level) THEN path[level]
                 ELSE Cell(old, depth, empty, level, k)
<1>0a. \A s : \A level \in 0..depth : \A k \in 0..(Width(depth, level) - 1) :
          Cell(s, depth, empty, level, k) = NodeOver(s, depth, empty, level, k)
  BY CellValue
<1>a. \A s : \A level \in 0..depth : \A k \in 0..(Width(depth, level) - 1) :
         Cell(s, depth, empty, level, k) =
             IF k * 2^level >= Len(s) THEN empty[level]
             ELSE IF level = 0 THEN s[k + 1]
             ELSE <<Cell(s, depth, empty, level - 1, 2 * k),
                    Cell(s, depth, empty, level - 1, 2 * k + 1)>>
  BY <1>0a DEF NodeOver
<1>b. \A level \in 0..depth : path[level] =
         IF level = 0 THEN leaf
         ELSE IF (n \div 2^(level - 1)) % 2 = 0
              THEN <<path[level - 1], right[level - 1]>>
              ELSE <<left[level - 1], path[level - 1]>>
  BY DEF Climbs
<1>c. ASSUME NEW level \in 0..(depth - 1)
      PROVE  path[level + 1] = IF Up(n, level) % 2 = 0 THEN <<path[level], right[level]>>
                               ELSE <<left[level], path[level]>>
  <2>1. level + 1 \in 0..depth /\ level + 1 # 0 /\ (level + 1) - 1 = level OBVIOUS
  <2> QED BY <1>b, <2>1 DEF Up
<1> DEFINE A(level, k) == Cell(old, depth, empty, level, k)
           B(level, k) == Cell(grown, depth, empty, level, k)
           Right(level) == \A k \in 0..(Width(depth, level) - 1) :
                             B(level, k) = IF k = Up(n, level) THEN path[level]
                                           ELSE A(level, k)
           S == {level \in Nat : level <= depth => Right(level)}
<1>0. /\ Len(grown) = n + 1 /\ grown[n + 1] = leaf
      /\ \A i \in 1..n : grown[i] = old[i]
  BY DEF Grows
<1>1. 0 \in S
  <2> SUFFICES ASSUME NEW k \in 0..(Width(depth, 0) - 1)
               PROVE  B(0, k) = IF k = Up(n, 0) THEN path[0] ELSE A(0, k)
    OBVIOUS
  <2>1. 0 \in 0..depth /\ 2^0 = 1 OBVIOUS
  <2>0. Width(depth, 0) \in Nat
    <3>1. depth - 0 = depth /\ depth \in 0..depth OBVIOUS
    <3> QED BY <3>1, PowersArePositive DEF Width
  <2>2. k \in Nat /\ k * 2^0 = k BY <2>0, <2>1
  <2>3. Up(n, 0) = n
    <3>1. n \div 1 = n OBVIOUS
    <3> QED BY <2>1, <3>1 DEF Up
  <2>4. path[0] = leaf BY <1>b, <2>1
  <2>5. B(0, k) = IF k * 2^0 >= Len(grown) THEN empty[0] ELSE grown[k + 1]
    BY <1>a, <2>1
  <2>6. A(0, k) = IF k * 2^0 >= Len(old) THEN empty[0] ELSE old[k + 1]
    BY <1>a, <2>1
  <2> HIDE DEF A, B
  <2>7. CASE k = n BY <1>0, <2>2, <2>3, <2>4, <2>5, <2>7
  <2>8. CASE k < n
    <3>1. k + 1 \in 1..n BY <2>2, <2>8
    <3> QED BY <1>0, <2>2, <2>3, <2>5, <2>6, <2>8, <3>1
  <2>9. CASE k > n BY <1>0, <2>2, <2>3, <2>5, <2>6, <2>9
  <2> QED BY <2>2, <2>7, <2>8, <2>9
<1>2. ASSUME NEW l \in Nat, l \in S PROVE l + 1 \in S
  <2> SUFFICES ASSUME l + 1 <= depth, NEW k \in 0..(Width(depth, l + 1) - 1)
               PROVE  B(l + 1, k) = IF k = Up(n, l + 1) THEN path[l + 1] ELSE A(l + 1, k)
    OBVIOUS
  <2>1. /\ l \in 0..(depth - 1) /\ l \in 0..depth /\ l + 1 \in 0..depth
        /\ l + 1 # 0 /\ (l + 1) - 1 = l
    OBVIOUS
  <2>2. Right(l) BY <1>2, <2>1
  <2>3. Width(depth, l) = 2 * Width(depth, l + 1) /\ Width(depth, l + 1) \in Nat
    BY <2>1, WidthDoubles
  <2>4. /\ k \in Nat /\ 2 * k \in 0..(Width(depth, l) - 1)
        /\ 2 * k + 1 \in 0..(Width(depth, l) - 1)
    BY <2>3
  <2> DEFINE p == 2^(l + 1)
  <2>5. B(l + 1, k) = IF k * p >= n + 1 THEN empty[l + 1]
                      ELSE <<B(l, 2 * k), B(l, 2 * k + 1)>>
    <3>1. B(l + 1, k) = IF k * 2^(l + 1) >= Len(grown) THEN empty[l + 1]
                        ELSE IF l + 1 = 0 THEN grown[k + 1]
                        ELSE <<B((l + 1) - 1, 2 * k), B((l + 1) - 1, 2 * k + 1)>>
      BY <1>a, <2>1
    <3> HIDE DEF B
    <3> QED BY <1>0, <2>1, <3>1
  <2>6. A(l + 1, k) = IF k * p >= n THEN empty[l + 1]
                      ELSE <<A(l, 2 * k), A(l, 2 * k + 1)>>
    <3>1. A(l + 1, k) = IF k * 2^(l + 1) >= Len(old) THEN empty[l + 1]
                        ELSE IF l + 1 = 0 THEN old[k + 1]
                        ELSE <<A((l + 1) - 1, 2 * k), A((l + 1) - 1, 2 * k + 1)>>
      BY <1>a, <2>1
    <3> HIDE DEF A
    <3> QED BY <2>1, <3>1
  <2>7. p \in Nat \ {0} BY <2>1, PowersArePositive
  <2>8. Up(n, l + 1) = n \div p BY DEF Up
  <2>9. /\ Up(n, l) \in Nat /\ Up(n, l + 1) \in Nat
        /\ Up(n, l) = 2 * Up(n, l + 1) + (Up(n, l) % 2)
        /\ Up(n, l) % 2 \in {0, 1}
    BY <2>1, UpHalves
  <2> HIDE DEF p
  <2>10. B(l, 2 * k) = (IF 2 * k = Up(n, l) THEN path[l] ELSE A(l, 2 * k))
    BY <2>2, <2>4
  <2>11. B(l, 2 * k + 1) = (IF 2 * k + 1 = Up(n, l) THEN path[l] ELSE A(l, 2 * k + 1))
    BY <2>2, <2>4
  <2>12. path[l + 1] = IF Up(n, l) % 2 = 0 THEN <<path[l], right[l]>>
                       ELSE <<left[l], path[l]>>
    BY <1>c, <2>1
  <2>13. IF Up(n, l) % 2 = 0 THEN right[l] = A(l, Up(n, l) + 1)
                             ELSE left[l] = A(l, Up(n, l) - 1)
    BY <2>1 DEF AreSiblings
  <2> HIDE DEF A, B, Right
  <2>14. CASE k = Up(n, l + 1)
    <3>1. ~ (k * p >= n + 1) BY <2>4, <2>7, <2>8, <2>14, BelowIndex
    <3>2. B(l + 1, k) = <<B(l, 2 * k), B(l, 2 * k + 1)>> BY <2>5, <3>1
    <3>3. CASE Up(n, l) % 2 = 0
      <4>1. 2 * k = Up(n, l) /\ 2 * k + 1 # Up(n, l) /\ 2 * k + 1 = Up(n, l) + 1
        BY <2>4, <2>9, <2>14, <3>3
      <4>2. B(l, 2 * k) = path[l] BY <2>10, <4>1
      <4>3. B(l, 2 * k + 1) = right[l] BY <2>11, <2>13, <3>3, <4>1
      <4> QED BY <2>12, <2>14, <3>2, <3>3, <4>2, <4>3
    <3>4. CASE Up(n, l) % 2 = 1
      <4>1. 2 * k # Up(n, l) /\ 2 * k + 1 = Up(n, l) /\ 2 * k = Up(n, l) - 1
        <5>1. Up(n, l) = 2 * k + 1 BY <2>9, <2>14, <3>4
        <5> QED BY <2>4, <5>1
      <4>2. B(l, 2 * k) = left[l] BY <2>10, <2>13, <3>4, <4>1
      <4>3. B(l, 2 * k + 1) = path[l] BY <2>11, <4>1
      <4> QED BY <2>12, <2>14, <3>2, <3>4, <4>2, <4>3
    <3> QED BY <2>9, <3>3, <3>4
  <2>15. CASE k # Up(n, l + 1)
    <3>1. k * p >= n + 1 <=> k * p >= n BY <2>4, <2>7, <2>8, <2>15, BelowIndex
    <3>2. 2 * k # Up(n, l) /\ 2 * k + 1 # Up(n, l) BY <2>4, <2>9, <2>15
    <3>3. B(l, 2 * k) = A(l, 2 * k) /\ B(l, 2 * k + 1) = A(l, 2 * k + 1)
      BY <2>10, <2>11, <3>2
    <3>4. B(l + 1, k) = A(l + 1, k) BY <2>5, <2>6, <3>1, <3>3
    <3> QED BY <2>15, <3>4
  <2> QED BY <2>14, <2>15
<1> HIDE DEF S, Right
<1>3. \A level \in Nat : level \in S BY <1>1, <1>2, InductiveSet
<1>4. \A level \in 0..depth : Right(level) BY <1>3 DEF S
<1> QED BY <1>4 DEF Right, A, B
=============================================================================
