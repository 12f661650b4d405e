------------------------ MODULE CrossChainSync_proofs ------------------------
(***************************************************************************)
(* Proofs about the epoch roots (EpochRoot, and EpochRootReference, which  *)
(* they are compared with), the registry on the hub                        *)
(* (UniversalNullifierRegistry) and the synchronisation end to end         *)
(* (CrossChainSync), in this order.                                        *)
(***************************************************************************)
EXTENDS CrossChainSync, FiniteSetTheorems, MerkleReference_proofs, TLAPS

-----------------------------------------------------------------------------
\* What a Merkle proof says.  A recursive function of the model is the chosen
\* solution of its equation, so each comes with a lemma that there is one.
\* The first is `current' of _verifyInclusion.
StepsUp(leaf, proof, pathIndices, c, L) ==
    c = [i \in 0..L |->
           IF i = 0 THEN leaf
           ELSE IF pathIndices[i] = 0 THEN hash(c[i - 1], proof[i])
                                      ELSE hash(proof[i], c[i - 1])]

LEMMA CurrentExists ==
    ASSUME NEW leaf, NEW proof, NEW pathIndices, NEW L \in Nat
    PROVE  \E c : StepsUp(leaf, proof, pathIndices, c, L)
<1> DEFINE S == {l \in Nat : \E c : StepsUp(leaf, proof, pathIndices, c, l)}
<1>1. 0 \in S
  <2> DEFINE c == [i \in 0..0 |-> leaf]
  <2>1. StepsUp(leaf, proof, pathIndices, c, 0) BY DEF StepsUp
  <2> QED BY <2>1
<1>2. ASSUME NEW n \in Nat, n \in S PROVE n + 1 \in S
  <2>1. PICK c : StepsUp(leaf, proof, pathIndices, c, n) BY <1>2
  <2> DEFINE last == IF pathIndices[n + 1] = 0 THEN hash(c[n], proof[n + 1])
                                               ELSE hash(proof[n + 1], c[n])
             d == [i \in 0..(n + 1) |-> IF i = n + 1 THEN last ELSE c[i]]
  <2>2. \A i \in 0..n : c[i] = IF i = 0 THEN leaf
           ELSE IF pathIndices[i] = 0 THEN hash(c[i - 1], proof[i])
                                      ELSE hash(proof[i], c[i - 1])
    BY <2>1 DEF StepsUp
  <2> HIDE DEF last
  <2>3. \A i \in 0..n : d[i] = c[i] OBVIOUS
  <2>4. d[n + 1] = last OBVIOUS
  <2>5. \A i \in 0..(n + 1) : d[i] = IF i = 0 THEN leaf
           ELSE IF pathIndices[i] = 0 THEN hash(d[i - 1], proof[i])
                                      ELSE hash(proof[i], d[i - 1])
    <3> TAKE i \in 0..(n + 1)
    <3> HIDE DEF d
    <3>1. CASE i = n + 1
      <4>1. n + 1 # 0 /\ n + 1 - 1 = n /\ n \in 0..n OBVIOUS
      <4> QED BY <2>3, <2>4, <3>1, <4>1 DEF last
    <3>2. CASE i = 0
      <4>1. 0 \in 0..n OBVIOUS
      <4> QED BY <2>2, <2>3, <3>2, <4>1
    <3>3. CASE i # 0 /\ i # n + 1
      <4>1. i \in 0..n /\ i - 1 \in 0..n BY <3>3
      <4> QED BY <2>2, <2>3, <3>3, <4>1
    <3> QED BY <3>1, <3>2, <3>3
  <2>6. d = [i \in 0..(n + 1) |-> d[i]] OBVIOUS
  <2> HIDE DEF d
  <2>7. StepsUp(leaf, proof, pathIndices, d, n + 1) BY <2>5, <2>6 DEF StepsUp
  <2> QED BY <2>7
<1> HIDE DEF S
<1>3. L \in S BY <1>1, <1>2, InductiveSet
<1> QED BY <1>3 DEF S

\* An atom is no hash; n reaches t if hashing with some siblings leads from n
\* to t.
Atom(n) == \A a, b : n # hash(a, b)

Step(x, y) == \E s : y = hash(x, s) \/ y = hash(s, x)

Reaches(n, t) ==
    \E L \in Nat : \E c :
        c[0] = n /\ c[L] = t /\ \A i \in 1..L : Step(c[i - 1], c[i])

LEMMA ReachesAtom ==
    ASSUME NEW n, NEW t, Reaches(n, t), Atom(t)
    PROVE  n = t
<1>1. PICK L \in Nat : \E c :
        c[0] = n /\ c[L] = t /\ \A i \in 1..L : Step(c[i - 1], c[i])
  BY DEF Reaches
<1>2. PICK c : c[0] = n /\ c[L] = t /\ \A i \in 1..L : Step(c[i - 1], c[i])
  BY <1>1
<1>3. CASE L = 0 BY <1>2, <1>3
<1>4. CASE L # 0
  <2>1. L \in 1..L BY <1>4
  <2>2. Step(c[L - 1], t) BY <1>2, <2>1
  <2> QED BY <2>2 DEF Step, Atom
<1> QED BY <1>3, <1>4

LEMMA ReachesPair ==
    ASSUME NEW n, NEW a, NEW b, Reaches(n, hash(a, b))
    PROVE  n = hash(a, b) \/ Reaches(n, a) \/ Reaches(n, b)
<1>1. PICK L \in Nat : \E c :
        c[0] = n /\ c[L] = hash(a, b) /\ \A i \in 1..L : Step(c[i - 1], c[i])
  BY DEF Reaches
<1>2. PICK c : c[0] = n /\ c[L] = hash(a, b) /\ \A i \in 1..L : Step(c[i - 1], c[i])
  BY <1>1
<1>3. CASE L = 0 BY <1>2, <1>3
<1>4. CASE L # 0
  <2>1. L - 1 \in Nat /\ L \in 1..L BY <1>4
  <2>2. Step(c[L - 1], hash(a, b)) BY <1>2, <2>1
  <2>3. c[L - 1] = a \/ c[L - 1] = b BY <2>2 DEF Step, hash
  <2>4. \A i \in 1..(L - 1) : Step(c[i - 1], c[i])
    <3>1. \A i \in 1..(L - 1) : i \in 1..L BY <2>1
    <3> QED BY <1>2, <3>1
  <2> QED BY <1>2, <2>1, <2>3, <2>4 DEF Reaches
<1> QED BY <1>3, <1>4

LEMMA ReachesUp ==
    ASSUME NEW n, NEW x, NEW t, Reaches(n, x), Step(x, t)
    PROVE  Reaches(n, t)
<1>1. PICK L \in Nat : \E c :
        c[0] = n /\ c[L] = x /\ \A i \in 1..L : Step(c[i - 1], c[i])
  BY DEF Reaches
<1>2. PICK c : c[0] = n /\ c[L] = x /\ \A i \in 1..L : Step(c[i - 1], c[i])
  BY <1>1
<1> DEFINE d == [i \in 0..(L + 1) |-> IF i = L + 1 THEN t ELSE c[i]]
<1>3. d[0] = n /\ d[L + 1] = t BY <1>2
<1>4. ASSUME NEW i \in 1..(L + 1) PROVE Step(d[i - 1], d[i])
  <2>1. CASE i = L + 1
    <3>1. i - 1 = L /\ d[L] = c[L] /\ d[i] = t BY <2>1
    <3> QED BY <1>2, <3>1
  <2>2. CASE i # L + 1
    <3>1. i \in 1..L /\ d[i - 1] = c[i - 1] /\ d[i] = c[i] BY <2>2
    <3> QED BY <1>2, <3>1
  <2> QED BY <2>1, <2>2
<1> HIDE DEF d
<1>5. L + 1 \in Nat OBVIOUS
<1> QED BY <1>3, <1>4, <1>5 DEF Reaches

\* The leaves of an epoch's tree are the hashes of secrets, commitments and
\* domains, their parts, but none is a part of another leaf; zero, which pads the
\* tree, is neither a leaf's part, nor a nullifier, nor a hash.
LeavesAreApart(leaves, parts) ==
    /\ Atom(Zero) /\ Zero \notin leaves
    /\ parts \cap (leaves \cup {Zero}) = {}
    /\ \A x, y : Step(x, y) /\ y \in leaves \cup parts => x \in parts

\* What leads to a leaf is the leaf or a part, and what leads to a part is one.
LEMMA ReachesLeaf ==
    ASSUME NEW leaves, NEW parts, LeavesAreApart(leaves, parts),
           NEW n, NEW t \in leaves \cup parts, Reaches(n, t)
    PROVE  n = t \/ n \in parts
<1>1. PICK L \in Nat : \E c :
        c[0] = n /\ c[L] = t /\ \A i \in 1..L : Step(c[i - 1], c[i])
  BY DEF Reaches
<1>2. PICK c : c[0] = n /\ c[L] = t /\ \A i \in 1..L : Step(c[i - 1], c[i])
  BY <1>1
<1> DEFINE S == {j \in Nat : j <= L => c[L - j] = t \/ c[L - j] \in parts}
<1>3. 0 \in S
  <2>1. L - 0 = L OBVIOUS
  <2> QED BY <1>2, <2>1
<1>4. ASSUME NEW j \in Nat, j \in S PROVE j + 1 \in S
  <2> SUFFICES ASSUME j + 1 <= L PROVE c[L - (j + 1)] \in parts
    OBVIOUS
  <2>1. L - j \in 1..L /\ (L - j) - 1 = L - (j + 1) /\ j <= L OBVIOUS
  <2>2. Step(c[L - (j + 1)], c[L - j]) BY <1>2, <2>1
  <2>3. c[L - j] \in leaves \cup parts BY <1>4, <2>1
  <2> QED BY <2>2, <2>3 DEF LeavesAreApart
<1> HIDE DEF S
<1>5. L \in S BY <1>3, <1>4, InductiveSet
<1>6. L <= L /\ L - L = 0 OBVIOUS
<1>7. c[L - L] = t \/ c[L - L] \in parts BY <1>5, <1>6 DEF S
<1> QED BY <1>2, <1>6, <1>7

\* A proof that _verifyInclusion accepts is a way from the leaf to a child of the
\* root.
LEMMA VerifiedReaches ==
    ASSUME NEW leaf, NEW root, NEW proof, NEW pathIndices,
           _verifyInclusion(leaf, root, proof, pathIndices)
    PROVE  \E child : Reaches(leaf, child) /\ Step(child, root)
<1> DEFINE L == Len(proof)
           current == CHOOSE c : StepsUp(leaf, proof, pathIndices, c, L)
<1>1. L \in 1..MAX_PROOF_DEPTH /\ current[L] = root
  BY DEF _verifyInclusion, StepsUp
<1> HIDE DEF L
<1>2. L \in Nat BY <1>1, EpochRootAssumption
<1>3. StepsUp(leaf, proof, pathIndices, current, L)
  BY <1>2, CurrentExists
<1> HIDE DEF current
<1>4. \A i \in 0..L : current[i] =
           IF i = 0 THEN leaf
           ELSE IF pathIndices[i] = 0 THEN hash(current[i - 1], proof[i])
                                      ELSE hash(proof[i], current[i - 1])
  BY <1>3 DEF StepsUp
<1>5. current[0] = leaf BY <1>2, <1>4
<1>6. ASSUME NEW i \in 1..L PROVE Step(current[i - 1], current[i])
  <2>1. i \in 0..L /\ i # 0 BY <1>2
  <2> QED BY <1>4, <2>1 DEF Step
<1>7. L \in 1..L /\ L - 1 \in Nat BY <1>1, <1>2
<1>8. Step(current[L - 1], root) BY <1>1, <1>6, <1>7
<1>9. \A i \in 1..(L - 1) : Step(current[i - 1], current[i])
  <2>1. \A i \in 1..(L - 1) : i \in 1..L BY <1>7
  <2> QED BY <1>6, <2>1
<1>10. Reaches(leaf, current[L - 1]) BY <1>5, <1>7, <1>9 DEF Reaches
<1> QED BY <1>8, <1>10

-----------------------------------------------------------------------------
\* The root of a list.  An array is clean of n if n reaches none of its cells,
\* none of which is a part; that stays so while _computeNullifierRoot reduces it in
\* place.
Clean(n, parts, f, w) ==
    /\ f = [i \in 0..(w - 1) |-> f[i]]
    /\ \A i \in 0..(w - 1) : ~ Reaches(n, f[i]) /\ f[i] \notin parts

\* `after' of ReduceInPlace.
PassesOver(layer, half, g) ==
    g = [i \in 0..half |->
           IF i = 0 THEN layer
           ELSE [g[i - 1] EXCEPT ![i - 1] =
                   hash(g[i - 1][2 * (i - 1)], g[i - 1][2 * (i - 1) + 1])]]

LEMMA PassExists ==
    ASSUME NEW layer, NEW half \in Nat
    PROVE  \E g : PassesOver(layer, half, g)
<1> DEFINE S == {l \in Nat : \E g : PassesOver(layer, l, g)}
<1>1. 0 \in S
  <2> DEFINE g == [i \in 0..0 |-> layer]
  <2>1. PassesOver(layer, 0, g) BY DEF PassesOver
  <2> QED BY <2>1
<1>2. ASSUME NEW n \in Nat, n \in S PROVE n + 1 \in S
  <2>1. PICK g : PassesOver(layer, n, g) BY <1>2
  <2> DEFINE last == [g[n] EXCEPT ![n] = hash(g[n][2 * n], g[n][2 * n + 1])]
             d == [i \in 0..(n + 1) |-> IF i = n + 1 THEN last ELSE g[i]]
  <2>2. \A i \in 0..n : g[i] =
           IF i = 0 THEN layer
           ELSE [g[i - 1] EXCEPT ![i - 1] =
                   hash(g[i - 1][2 * (i - 1)], g[i - 1][2 * (i - 1) + 1])]
    BY <2>1 DEF PassesOver
  <2> HIDE DEF last
  <2>3. \A i \in 0..n : d[i] = g[i] OBVIOUS
  <2>4. d[n + 1] = last OBVIOUS
  <2>5. \A i \in 0..(n + 1) : d[i] =
           IF i = 0 THEN layer
           ELSE [d[i - 1] EXCEPT ![i - 1] =
                   hash(d[i - 1][2 * (i - 1)], d[i - 1][2 * (i - 1) + 1])]
    <3> TAKE i \in 0..(n + 1)
    <3> HIDE DEF d
    <3>1. CASE i = n + 1
      <4>1. n + 1 # 0 /\ n + 1 - 1 = n /\ n \in 0..n OBVIOUS
      <4>2. d[n] = g[n] BY <2>3, <4>1
      <4> QED BY <2>4, <3>1, <4>1, <4>2 DEF last
    <3>2. CASE i = 0
      <4>1. 0 \in 0..n OBVIOUS
      <4> QED BY <2>2, <2>3, <3>2, <4>1
    <3>3. CASE i # 0 /\ i # n + 1
      <4>1. i \in 0..n /\ i - 1 \in 0..n BY <3>3
      <4>2. d[i] = g[i] /\ d[i - 1] = g[i - 1] BY <2>3, <4>1
      <4> QED BY <2>2, <3>3, <4>1, <4>2
    <3> QED BY <3>1, <3>2, <3>3
  <2>6. d = [i \in 0..(n + 1) |-> d[i]] OBVIOUS
  <2> HIDE DEF d
  <2>7. PassesOver(layer, n + 1, d) BY <2>5, <2>6 DEF PassesOver
  <2> QED BY <2>7
<1> HIDE DEF S
<1>3. half \in S BY <1>1, <1>2, InductiveSet
<1> QED BY <1>3 DEF S

LEMMA ReduceStaysClean ==
    ASSUME NEW leaves, NEW parts, LeavesAreApart(leaves, parts),
           NEW n \in leaves, NEW w \in Nat, NEW layer, Clean(n, parts, layer, w),
           NEW half \in Nat, 2 * half <= w
    PROVE  Clean(n, parts, ReduceInPlace(layer, half), w)
<1> DEFINE after == CHOOSE g : PassesOver(layer, half, g)
<1>1. ReduceInPlace(layer, half) = after[half] BY DEF ReduceInPlace, PassesOver
<1>2. PassesOver(layer, half, after) BY PassExists
<1> HIDE DEF after
<1>3. \A i \in 0..half : after[i] =
           IF i = 0 THEN layer
           ELSE [after[i - 1] EXCEPT ![i - 1] =
                   hash(after[i - 1][2 * (i - 1)], after[i - 1][2 * (i - 1) + 1])]
  BY <1>2 DEF PassesOver
<1> DEFINE S == {i \in Nat : i <= half => Clean(n, parts, after[i], w)}
<1>4. 0 \in S
  <2>1. 0 \in 0..half OBVIOUS
  <2>2. after[0] = layer BY <1>3, <2>1
  <2> QED BY <2>2
<1>5. ASSUME NEW i \in Nat, i \in S PROVE i + 1 \in S
  <2> SUFFICES ASSUME i + 1 <= half PROVE Clean(n, parts, after[i + 1], w)
    OBVIOUS
  <2>1. Clean(n, parts, after[i], w) BY <1>5
  <2>2. i + 1 \in 0..half /\ i + 1 # 0 /\ i + 1 - 1 = i OBVIOUS
  <2> DEFINE old == after[i]
             new == hash(old[2 * i], old[2 * i + 1])
  <2>3. after[i + 1] = [old EXCEPT ![i] = new] BY <1>3, <2>2
  <2>4. 2 * i \in 0..(w - 1) /\ 2 * i + 1 \in 0..(w - 1) OBVIOUS
  <2>5. /\ ~ Reaches(n, old[2 * i]) /\ ~ Reaches(n, old[2 * i + 1])
        /\ old[2 * i] \notin parts
    BY <2>1, <2>4 DEF Clean
  <2>6. ~ Reaches(n, new) /\ new \notin parts
    <3>1. Step(old[2 * i], new) BY DEF Step
    <3>2. new \notin leaves \cup parts BY <2>5, <3>1 DEF LeavesAreApart
    <3> QED BY <2>5, <3>2, ReachesPair
  <2>7. /\ old = [j \in 0..(w - 1) |-> old[j]]
        /\ \A j \in 0..(w - 1) : ~ Reaches(n, old[j]) /\ old[j] \notin parts
    BY <2>1 DEF Clean
  <2> HIDE DEF old, new
  <2> DEFINE r == [old EXCEPT ![i] = new]
  <2>8. r = [j \in 0..(w - 1) |-> IF j = i THEN new ELSE old[j]] BY <2>7
  <2>9. /\ r = [j \in 0..(w - 1) |-> r[j]]
        /\ \A j \in 0..(w - 1) : r[j] = IF j = i THEN new ELSE old[j]
    BY <2>8
  <2> HIDE DEF r
  <2>10. Clean(n, parts, r, w) BY <2>6, <2>7, <2>9 DEF Clean
  <2> QED BY <2>3, <2>10 DEF r
<1> HIDE DEF S
<1>6. half \in S BY <1>4, <1>5, InductiveSet
<1> QED BY <1>1, <1>6 DEF S

\* `p' of _nextPowerOfTwo, which is at least one.
Doubles(x, L, p) ==
    p = [k \in 0..L |->
          IF k = 0 THEN 1 ELSE IF p[k - 1] < x THEN 2 * p[k - 1] ELSE p[k - 1]]

LEMMA DoublesExists ==
    ASSUME NEW x \in Nat, NEW L \in Nat
    PROVE  \E p : Doubles(x, L, p)
<1> DEFINE S == {l \in Nat : \E p : Doubles(x, l, p)}
<1>1. 0 \in S
  <2> DEFINE p == [k \in 0..0 |-> 1]
  <2>1. Doubles(x, 0, p) BY DEF Doubles
  <2> QED BY <2>1
<1>2. ASSUME NEW n \in Nat, n \in S PROVE n + 1 \in S
  <2>1. PICK p : Doubles(x, n, p) BY <1>2
  <2> DEFINE last == IF p[n] < x THEN 2 * p[n] ELSE p[n]
             d == [k \in 0..(n + 1) |-> IF k = n + 1 THEN last ELSE p[k]]
  <2>2. \A k \in 0..n : p[k] =
          IF k = 0 THEN 1 ELSE IF p[k - 1] < x THEN 2 * p[k - 1] ELSE p[k - 1]
    BY <2>1 DEF Doubles
  <2> HIDE DEF last
  <2>3. \A k \in 0..n : d[k] = p[k] OBVIOUS
  <2>4. d[n + 1] = last OBVIOUS
  <2>5. \A k \in 0..(n + 1) : d[k] =
          IF k = 0 THEN 1 ELSE IF d[k - 1] < x THEN 2 * d[k - 1] ELSE d[k - 1]
    <3> TAKE k \in 0..(n + 1)
    <3> HIDE DEF d
    <3>1. CASE k = n + 1
      <4>1. n + 1 # 0 /\ n + 1 - 1 = n /\ n \in 0..n OBVIOUS
      <4>2. d[n] = p[n] BY <2>3, <4>1
      <4> QED BY <2>4, <3>1, <4>1, <4>2 DEF last
    <3>2. CASE k = 0
      <4>1. 0 \in 0..n OBVIOUS
      <4> QED BY <2>2, <2>3, <3>2, <4>1
    <3>3. CASE k # 0 /\ k # n + 1
      <4>1. k \in 0..n /\ k - 1 \in 0..n BY <3>3
      <4>2. d[k] = p[k] /\ d[k - 1] = p[k - 1] BY <2>3, <4>1
      <4> QED BY <2>2, <3>3, <4>1, <4>2
    <3> QED BY <3>1, <3>2, <3>3
  <2>6. d = [k \in 0..(n + 1) |-> d[k]] OBVIOUS
  <2> HIDE DEF d
  <2>7. Doubles(x, n + 1, d) BY <2>5, <2>6 DEF Doubles
  <2> QED BY <2>7
<1> HIDE DEF S
<1>3. L \in S BY <1>1, <1>2, InductiveSet
<1> QED BY <1>3 DEF S

LEMMA NextPowerPositive ==
    ASSUME NEW x \in Nat
    PROVE  _nextPowerOfTwo(x) \in Nat \ {0}
<1> DEFINE p == CHOOSE q : Doubles(x, x, q)
<1>1. _nextPowerOfTwo(x) = IF x <= 2 THEN 2 ELSE p[x]
  BY DEF _nextPowerOfTwo, Doubles
<1>2. Doubles(x, x, p) BY DoublesExists
<1> HIDE DEF p
<1>3. \A k \in 0..x : p[k] =
        IF k = 0 THEN 1 ELSE IF p[k - 1] < x THEN 2 * p[k - 1] ELSE p[k - 1]
  BY <1>2 DEF Doubles
<1> DEFINE S == {k \in Nat : k <= x => p[k] \in Nat \ {0}}
<1>4. 0 \in S
  <2>1. 0 \in 0..x OBVIOUS
  <2>2. p[0] = 1 BY <1>3, <2>1
  <2> QED BY <2>2
<1>5. ASSUME NEW k \in Nat, k \in S PROVE k + 1 \in S
  <2> SUFFICES ASSUME k + 1 <= x PROVE p[k + 1] \in Nat \ {0}
    OBVIOUS
  <2>1. p[k] \in Nat \ {0} BY <1>5
  <2>2. k + 1 \in 0..x /\ k + 1 # 0 /\ k + 1 - 1 = k OBVIOUS
  <2>3. p[k + 1] = IF p[k] < x THEN 2 * p[k] ELSE p[k] BY <1>3, <2>2
  <2> QED BY <2>1, <2>3
<1> HIDE DEF S
<1>6. x \in S BY <1>4, <1>5, InductiveSet
<1> QED BY <1>1, <1>6 DEF S

\* `reduced' of _computeNullifierRoot, from cell lo on: an array in use up to
\* cell m comes from the one in use up to cell 2m.
Layers(layer, w, lo, g) ==
    g = [m \in lo..w |->
           IF 2 * m > w THEN layer ELSE ReduceInPlace(g[2 * m], m)]

LEMMA LayersExist ==
    ASSUME NEW layer, NEW w \in Nat \ {0}
    PROVE  \E g : Layers(layer, w, 1, g)
<1> DEFINE S == {j \in Nat : j < w => \E g : Layers(layer, w, w - j, g)}
<1>1. 0 \in S
  <2> DEFINE g == [m \in w..w |-> layer]
  <2>1. \A m \in w..w : 2 * m > w OBVIOUS
  <2>2. Layers(layer, w, w, g) BY <2>1 DEF Layers
  <2>3. w - 0 = w OBVIOUS
  <2> QED BY <2>2, <2>3
<1>2. ASSUME NEW j \in Nat, j \in S PROVE j + 1 \in S
  <2> SUFFICES ASSUME j + 1 < w PROVE \E g : Layers(layer, w, w - (j + 1), g)
    OBVIOUS
  <2> DEFINE lo == w - (j + 1)
  <2>1. w - j = lo + 1 /\ lo \in Nat \ {0} /\ lo < w OBVIOUS
  <2>2. \E g : Layers(layer, w, w - j, g) BY <1>2
  <2> HIDE DEF lo
  <2>3. PICK g : Layers(layer, w, lo + 1, g) BY <2>1, <2>2
  <2> DEFINE last == IF 2 * lo > w THEN layer ELSE ReduceInPlace(g[2 * lo], lo)
             d == [m \in lo..w |-> IF m = lo THEN last ELSE g[m]]
  <2>4. \A m \in (lo + 1)..w : g[m] =
           IF 2 * m > w THEN layer ELSE ReduceInPlace(g[2 * m], m)
    BY <2>3 DEF Layers
  <2> HIDE DEF last
  <2>5. \A m \in (lo + 1)..w : d[m] = g[m] BY <2>1
  <2>6. d[lo] = last BY <2>1
  <2>7. \A m \in lo..w : d[m] =
           IF 2 * m > w THEN layer ELSE ReduceInPlace(d[2 * m], m)
    <3> TAKE m \in lo..w
    <3> HIDE DEF d
    <3>1. 2 * m <= w => 2 * m \in (lo + 1)..w BY <2>1
    <3>2. 2 * m <= w => d[2 * m] = g[2 * m] BY <2>5, <3>1
    <3>3. ~ (2 * m > w) => 2 * m <= w BY <2>1
    <3>4. CASE m = lo BY <2>6, <3>2, <3>3, <3>4 DEF last
    <3>5. CASE m # lo
      <4>1. m \in (lo + 1)..w BY <2>1, <3>5
      <4> QED BY <2>4, <2>5, <3>2, <3>3, <4>1
    <3> QED BY <3>4, <3>5
  <2>8. d = [m \in lo..w |-> d[m]] OBVIOUS
  <2> HIDE DEF d
  <2>9. Layers(layer, w, lo, d) BY <2>7, <2>8 DEF Layers
  <2> QED BY <2>9 DEF lo
<1> HIDE DEF S
<1>3. w - 1 \in S BY <1>1, <1>2, InductiveSet
<1>4. w - 1 < w /\ w - (w - 1) = 1 OBVIOUS
<1> QED BY <1>3, <1>4 DEF S

LEMMA LayersStayClean ==
    ASSUME NEW leaves, NEW parts, LeavesAreApart(leaves, parts),
           NEW n \in leaves, NEW w \in Nat \ {0}, NEW layer, Clean(n, parts, layer, w),
           NEW g, Layers(layer, w, 1, g)
    PROVE  Clean(n, parts, g[1], w)
<1>1. \A m \in 1..w : g[m] =
         IF 2 * m > w THEN layer ELSE ReduceInPlace(g[2 * m], m)
  BY DEF Layers
<1> DEFINE S == {j \in Nat : \A m \in 1..w : m >= w - j => Clean(n, parts, g[m], w)}
<1>2. 0 \in S
  <2>1. ASSUME NEW m \in 1..w, m >= w - 0 PROVE Clean(n, parts, g[m], w)
    <3>1. 2 * m > w BY <2>1
    <3> QED BY <1>1, <3>1
  <2> QED BY <2>1
<1>3. ASSUME NEW j \in Nat, j \in S PROVE j + 1 \in S
  <2>1. ASSUME NEW m \in 1..w, m >= w - (j + 1) PROVE Clean(n, parts, g[m], w)
    <3>1. CASE 2 * m > w BY <1>1, <3>1
    <3>2. CASE 2 * m <= w
      <4>1. 2 * m \in 1..w /\ 2 * m >= w - j /\ ~ (2 * m > w) /\ m \in Nat
        BY <2>1, <3>2
      <4>2. Clean(n, parts, g[2 * m], w) BY <1>3, <4>1
      <4>3. g[m] = ReduceInPlace(g[2 * m], m) BY <1>1, <4>1
      <4>4. Clean(n, parts, ReduceInPlace(g[2 * m], m), w)
        BY <3>2, <4>1, <4>2, ReduceStaysClean
      <4> QED BY <4>3, <4>4
    <3> QED BY <3>1, <3>2
  <2> QED BY <2>1
<1> HIDE DEF S
<1>4. w \in S BY <1>2, <1>3, InductiveSet
<1>5. 1 \in 1..w /\ 1 >= w - w OBVIOUS
<1> QED BY <1>4, <1>5 DEF S

\* _verifyInclusion accepts no proof that a nullifier is under the root that
\* _computeNullifierRoot gives a list, unless it is an element of the list: the
\* reduction in place, the padding and the depth of the proof let no other
\* nullifier in.
LEMMA OnlyMembersVerify ==
    ASSUME NEW Value, NEW parts, LeavesAreApart(Value, parts),
           NEW n \in Value, NEW list \in Seq(Value),
           NEW proof, NEW pathIndices,
           _verifyInclusion(n, _computeNullifierRoot(list), proof, pathIndices)
    PROVE  \E i \in 1..Len(list) : list[i] = n
<1> SUFFICES ASSUME \A i \in 1..Len(list) : list[i] # n PROVE FALSE
  OBVIOUS
<1> DEFINE count == Len(list)
           w     == _nextPowerOfTwo(count)
           layer == [i \in 0..(w - 1) |-> IF i < count THEN list[i + 1] ELSE Zero]
           reduced == CHOOSE g : Layers(layer, w, 1, g)
           root == _computeNullifierRoot(list)
<1>1. Reaches(n, root) BY VerifiedReaches, ReachesUp
<1>2. root = CASE count = 0 -> Zero
               [] count = 1 -> list[1]
               [] OTHER     -> reduced[1][0]
  BY DEF _computeNullifierRoot, Layers
<1>3. count \in Nat /\ \A i \in 1..count : list[i] \in Value OBVIOUS
<1>4. \A i \in 1..count : ~ Reaches(n, list[i]) /\ list[i] \notin parts
  BY <1>3, ReachesLeaf DEF LeavesAreApart
<1>5. ~ Reaches(n, Zero) /\ Zero \notin parts BY ReachesAtom DEF LeavesAreApart
<1> HIDE DEF root
<1>6. /\ count = 0 => root = Zero
      /\ count = 1 => root = list[1]
      /\ count # 0 /\ count # 1 => root = reduced[1][0]
  <2> HIDE DEF reduced, count
  <2> QED BY <1>2
<1>7. count # 0 /\ count # 1
  <2>1. count # 0 BY <1>1, <1>5, <1>6
  <2>2. count = 1 => 1 \in 1..count OBVIOUS
  <2> HIDE DEF count
  <2>3. count # 1 BY <1>1, <1>4, <1>6, <2>2
  <2> QED BY <2>1, <2>3
<1>8. Reaches(n, reduced[1][0])
  <2> HIDE DEF reduced, count
  <2> QED BY <1>1, <1>6, <1>7
<1> HIDE DEF count
<1>9. w \in Nat \ {0} BY <1>3, NextPowerPositive
<1> HIDE DEF w
<1>10. Clean(n, parts, layer, w)
  <2>1. ASSUME NEW i \in 0..(w - 1) PROVE ~ Reaches(n, layer[i]) /\ layer[i] \notin parts
    <3>1. CASE i < count
      <4>1. i + 1 \in 1..count BY <1>3, <1>9, <3>1
      <4> QED BY <1>4, <3>1, <4>1
    <3>2. CASE ~ (i < count) BY <1>5, <3>2
    <3> QED BY <3>1, <3>2
  <2>2. layer = [i \in 0..(w - 1) |-> layer[i]] OBVIOUS
  <2> HIDE DEF layer
  <2> QED BY <2>1, <2>2 DEF Clean
<1> HIDE DEF layer
<1>11. Layers(layer, w, 1, reduced) BY <1>9, LayersExist
<1> HIDE DEF reduced
<1>12. Clean(n, parts, reduced[1], w) BY <1>9, <1>10, <1>11, LayersStayClean
<1>13. 0 \in 0..(w - 1) BY <1>9
<1> QED BY <1>8, <1>12, <1>13 DEF Clean

-----------------------------------------------------------------------------
(* The tree over a list of nullifiers.                                     *)

LEMMA EmptyRoot ==
    ASSUME NEW s, Len(s) = 0
    PROVE  _computeNullifierRoot(s) = Zero
BY DEF _computeNullifierRoot

LEMMA SingleRoot ==
    ASSUME NEW s, Len(s) = 1
    PROVE  _computeNullifierRoot(s) = s[1]
BY DEF _computeNullifierRoot

\* The height of the tree of a list that MAX_PROOF_DEPTH leaves room for.
LEMMA HeightFits ==
    ASSUME Powers(MAX_PROOF_DEPTH), NEW s, Len(s) \in 2..(2^MAX_PROOF_DEPTH)
    PROVE  /\ Height(s) \in 1..MAX_PROOF_DEPTH /\ 2^Height(s) >= Len(s)
           /\ \A g \in 0..(Height(s) - 1) : 2^g < Len(s)
<1> DEFINE max == MAX_PROOF_DEPTH
           T == {h \in 1..max : 2^h >= Len(s)}
<1>1. max \in Nat BY EpochRootAssumption
<1>2. 2^0 = 1 OBVIOUS
<1>3. \A h \in 0..max : 2^h \in Nat BY <1>1, PowersArePositive
<1>4. Len(s) \in Nat /\ 2 <= Len(s) /\ Len(s) <= 2^max
  <2>1. max \in 0..max BY <1>1
  <2>2. 2^max \in Nat BY <1>3, <2>1
  <2> QED BY <2>2
<1>5. max # 0
  <2>1. max = 0 => 2^max = 1 BY <1>2, Zenon
  <2> HIDE DEF max
  <2> QED BY <1>4, <2>1
<1>6. max \in T BY <1>1, <1>4, <1>5
<1>7. PICK h \in T : \A g \in T : h <= g
  <2>1. T \subseteq Nat /\ T # {} BY <1>1, <1>6
  <2> HIDE DEF T
  <2> QED BY <2>1, LeastNatural
<1>8. \A g \in 1..(h - 1) : 2^g < Len(s)
  <2> TAKE g \in 1..(h - 1)
  <2>1. g \in 1..max /\ g \in 0..max /\ ~ (h <= g) BY <1>1
  <2>2. ~ (2^g >= Len(s)) BY <1>7, <2>1
  <2> QED BY <1>3, <1>4, <2>1, <2>2
<1>9. /\ Height(s) \in 1..max /\ 2^Height(s) >= Len(s)
      /\ \A g \in 1..(Height(s) - 1) : 2^g < Len(s)
  <2>1. h \in 1..max /\ 2^h >= Len(s) OBVIOUS
  <2> QED BY <1>8, <2>1, Zenon DEF Height
<1>10. ASSUME NEW g \in 0..(Height(s) - 1) PROVE 2^g < Len(s)
  <2>1. CASE g = 0 BY <1>2, <1>4, <2>1
  <2>2. CASE g # 0
    <3>1. g \in 1..(Height(s) - 1) BY <1>1, <1>9, <2>2
    <3> QED BY <1>9, <3>1
  <2> QED BY <2>1, <2>2
<1> QED BY <1>9, <1>10

LEMMA LevelBelowPower ==
    ASSUME NEW depth \in Nat, Powers(depth)
    PROVE  \A level \in 0..depth : level < 2^level
<1> DEFINE S == {j \in Nat : j <= depth => j < 2^j}
<1>1. 0 \in S
  <2>1. 2^0 = 1 OBVIOUS
  <2> QED BY <2>1
<1>2. ASSUME NEW j \in Nat, j \in S PROVE j + 1 \in S
  <2> SUFFICES ASSUME j + 1 <= depth PROVE j + 1 < 2^(j + 1)
    OBVIOUS
  <2>1. j \in 0..(depth - 1) /\ j \in 0..depth /\ j <= depth OBVIOUS
  <2>2. 2^j \in Nat BY <2>1, PowersArePositive
  <2>3. j < 2^j /\ 2^(j + 1) = 2 * 2^j BY <1>2, <2>1 DEF Powers
  <2> QED BY <2>2, <2>3
<1> HIDE DEF S
<1>3. \A j \in Nat : j \in S BY <1>1, <1>2, InductiveSet
<1>4. ASSUME NEW level \in 0..depth PROVE level < 2^level
  <2>1. level \in S BY <1>3
  <2> QED BY <2>1 DEF S
<1> QED BY <1>4

\* A lower tree is one that Powers speaks of too.
LEMMA PowersBelow ==
    ASSUME NEW depth \in Nat, Powers(depth), NEW h \in 0..depth
    PROVE  Powers(h)
<1>1. \A level \in 0..(h - 1) : level \in 0..(depth - 1) OBVIOUS
<1> QED BY <1>1 DEF Powers

\* _nextPowerOfTwo finds the width of the tree: the loop doubles until there is
\* room for the list, and no further.
LEMMA NextPowerIsWidth ==
    ASSUME Powers(MAX_PROOF_DEPTH), NEW s, Len(s) \in 2..(2^MAX_PROOF_DEPTH)
    PROVE  _nextPowerOfTwo(Len(s)) = 2^Height(s)
<1> DEFINE x == Len(s)  H == Height(s)  p == CHOOSE q : Doubles(x, x, q)
<1>1. _nextPowerOfTwo(x) = IF x <= 2 THEN 2 ELSE p[x]
  BY DEF _nextPowerOfTwo, Doubles
<1>2. H \in 1..MAX_PROOF_DEPTH /\ 2^H >= x /\ \A g \in 0..(H - 1) : 2^g < x
  BY HeightFits
<1>3. MAX_PROOF_DEPTH \in Nat BY EpochRootAssumption
<1>4. H \in Nat /\ H # 0 /\ H \in 0..MAX_PROOF_DEPTH BY <1>2, <1>3
<1>5. Powers(H) BY <1>3, <1>4, PowersBelow
<1>6. \A h \in 0..H : 2^h \in Nat \ {0} BY <1>4, <1>5, PowersArePositive
<1>7. x \in Nat /\ x >= 2
  <2>1. 2^MAX_PROOF_DEPTH \in Nat
    <3>1. MAX_PROOF_DEPTH \in 0..MAX_PROOF_DEPTH BY <1>3
    <3> QED BY <1>3, <3>1, PowersArePositive
  <2> QED BY <2>1
<1> HIDE DEF x, H
<1>8. 2^0 = 1 /\ 2^1 = 2 OBVIOUS
<1>9. CASE x <= 2
  <2>1. x = 2 BY <1>7, <1>9
  <2>2. H = 1
    <3>1. H # 1 => 1 \in 0..(H - 1) BY <1>4
    <3>2. H # 1 => 2^1 < x BY <1>2, <3>1
    <3> QED BY <1>8, <2>1, <3>2
  <2> QED BY <1>1, <1>8, <1>9, <2>2 DEF x, H
<1>10. CASE x > 2
  <2>1. Doubles(x, x, p) BY <1>7, DoublesExists
  <2> HIDE DEF p
  <2>2. \A k \in 0..x : p[k] =
          IF k = 0 THEN 1 ELSE IF p[k - 1] < x THEN 2 * p[k - 1] ELSE p[k - 1]
    BY <2>1 DEF Doubles
  <2> DEFINE S == {k \in Nat : k <= x => p[k] = IF k <= H THEN 2^k ELSE 2^H}
  <2>3. 0 \in S
    <3>1. 0 \in 0..x BY <1>7
    <3>2. p[0] = 1 BY <2>2, <3>1
    <3> QED BY <1>4, <1>8, <3>2
  <2>4. ASSUME NEW k \in Nat, k \in S PROVE k + 1 \in S
    <3> SUFFICES ASSUME k + 1 <= x
                 PROVE  p[k + 1] = IF k + 1 <= H THEN 2^(k + 1) ELSE 2^H
      OBVIOUS
    <3>1. k + 1 \in 0..x /\ k + 1 # 0 /\ (k + 1) - 1 = k /\ k <= x BY <1>7
    <3>2. p[k + 1] = IF p[k] < x THEN 2 * p[k] ELSE p[k] BY <2>2, <3>1
    <3>3. p[k] = IF k <= H THEN 2^k ELSE 2^H BY <2>4, <3>1
    <3>4. CASE k < H
      <4>1. k \in 0..(H - 1) /\ k <= H /\ k + 1 <= H BY <1>4, <3>4
      <4>2. 2^k < x BY <1>2, <4>1
      <4>3. 2^(k + 1) = 2 * 2^k BY <1>5, <4>1 DEF Powers
      <4> QED BY <3>2, <3>3, <4>1, <4>2, <4>3
    <3>5. CASE k >= H
      <4>1. p[k] = 2^H
        <5>1. k = H \/ ~ (k <= H) BY <1>4, <3>5
        <5> QED BY <3>3, <5>1
      <4>2. 2^H \in Nat
        <5>1. H \in 0..H BY <1>4
        <5> QED BY <1>6, <5>1
      <4>3. ~ (2^H < x) BY <1>2, <1>7, <4>2
      <4>4. ~ (k + 1 <= H) BY <1>4, <3>5
      <4> QED BY <3>2, <4>1, <4>3, <4>4
    <3> QED BY <1>4, <3>4, <3>5
  <2> HIDE DEF S
  <2>5. x \in S BY <1>7, <2>3, <2>4, InductiveSet
  <2>6. p[x] = IF x <= H THEN 2^x ELSE 2^H BY <1>7, <2>5 DEF S
  <2>7. x > H \/ x = H
    <3>1. H - 1 \in 0..(H - 1) /\ H - 1 \in 0..H BY <1>4
    <3>2. 2^(H - 1) < x /\ 2^(H - 1) \in Nat BY <1>2, <1>6, <3>1
    <3>3. H - 1 < 2^(H - 1) BY <1>4, <1>5, <3>1, LevelBelowPower
    <3> QED BY <1>4, <1>7, <3>2, <3>3
  <2>8. p[x] = 2^H BY <1>4, <1>7, <2>6, <2>7
  <2>9. ~ (x <= 2) BY <1>7, <1>10
  <2> QED BY <1>1, <2>8, <2>9 DEF x, H
<1> QED BY <1>7, <1>9, <1>10

IsArray(f, w) == f = [i \in 0..(w - 1) |-> f[i]]

\* One pass over the array: the cells that it leaves in use are the hashes of
\* the pairs, for no pass reads a cell that it has overwritten.
LEMMA ReducePairs ==
    ASSUME NEW w \in Nat, NEW layer, IsArray(layer, w), NEW half \in Nat, 2 * half <= w
    PROVE  /\ IsArray(ReduceInPlace(layer, half), w)
           /\ \A i \in 0..(half - 1) :
                ReduceInPlace(layer, half)[i] = hash(layer[2 * i], layer[2 * i + 1])
<1> DEFINE after == CHOOSE g : PassesOver(layer, half, g)
           Pair(j) == hash(layer[2 * j], layer[2 * j + 1])
           Done(f, i) == /\ IsArray(f, w)
                         /\ \A j \in 0..(w - 1) : f[j] = IF j < i THEN Pair(j) ELSE layer[j]
<1>1. ReduceInPlace(layer, half) = after[half] BY DEF ReduceInPlace, PassesOver
<1>2. PassesOver(layer, half, after) BY PassExists
<1> HIDE DEF after
<1>3. \A i \in 0..half : after[i] =
           IF i = 0 THEN layer
           ELSE [after[i - 1] EXCEPT ![i - 1] =
                   hash(after[i - 1][2 * (i - 1)], after[i - 1][2 * (i - 1) + 1])]
  BY <1>2 DEF PassesOver
<1> DEFINE S == {i \in Nat : i <= half => Done(after[i], i)}
<1>4. 0 \in S
  <2>1. 0 \in 0..half OBVIOUS
  <2>2. after[0] = layer BY <1>3, <2>1
  <2>3. \A j \in 0..(w - 1) : ~ (j < 0) OBVIOUS
  <2> HIDE DEF Pair
  <2>4. Done(layer, 0) BY <2>3
  <2> HIDE DEF Done
  <2> QED BY <2>2, <2>4
<1>5. ASSUME NEW i \in Nat, i \in S PROVE i + 1 \in S
  <2> HIDE DEF Done
  <2> SUFFICES ASSUME i + 1 <= half PROVE Done(after[i + 1], i + 1)
    OBVIOUS
  <2>1. i + 1 \in 0..half /\ i + 1 # 0 /\ i + 1 - 1 = i /\ i <= half OBVIOUS
  <2>2. PICK old : old = after[i] OBVIOUS
  <2>3. Done(old, i) BY <1>5, <2>1, <2>2
  <2> USE DEF Done
  <2> DEFINE new == hash(old[2 * i], old[2 * i + 1])
             r == [old EXCEPT ![i] = new]
  <2>4. after[i + 1] = r
    <3>1. after[i + 1] =
            [after[(i + 1) - 1] EXCEPT ![(i + 1) - 1] =
               hash(after[(i + 1) - 1][2 * ((i + 1) - 1)],
                    after[(i + 1) - 1][2 * ((i + 1) - 1) + 1])]
      BY <1>3, <2>1, Zenon
    <3>2. (i + 1) - 1 = i OBVIOUS
    <3> QED BY <2>2, <3>1, <3>2
  <2>5. /\ i \in 0..(w - 1) /\ 2 * i \in 0..(w - 1) /\ 2 * i + 1 \in 0..(w - 1)
        /\ ~ (2 * i < i) /\ ~ (2 * i + 1 < i)
    BY <2>1
  <2>6. new = Pair(i) BY <2>3, <2>5
  <2> HIDE DEF new, Pair
  <2>7. r = [j \in 0..(w - 1) |-> IF j = i THEN new ELSE old[j]] BY <2>3 DEF IsArray
  <2>8. /\ IsArray(r, w)
        /\ \A j \in 0..(w - 1) : r[j] = IF j = i THEN new ELSE old[j]
    BY <2>7 DEF IsArray
  <2> HIDE DEF r
  <2>9. ASSUME NEW j \in 0..(w - 1) PROVE r[j] = IF j < i + 1 THEN Pair(j) ELSE layer[j]
    <3>1. CASE j = i BY <2>6, <2>8, <3>1
    <3>2. CASE j # i
      <4>1. j < i + 1 <=> j < i BY <2>5, <3>2
      <4> QED BY <2>3, <2>8, <3>2, <4>1
    <3> QED BY <3>1, <3>2
  <2>10. Done(r, i + 1) BY <2>8, <2>9
  <2> HIDE DEF Done
  <2> QED BY <2>4, <2>10
<1> HIDE DEF S
<1>6. half \in S BY <1>4, <1>5, InductiveSet
<1> HIDE DEF Pair
<1>7. Done(after[half], half)
  <2> HIDE DEF Done
  <2> QED BY <1>6 DEF S
<1>8. \A i \in 0..(half - 1) : after[half][i] = Pair(i)
  <2>1. \A i \in 0..(half - 1) : i \in 0..(w - 1) /\ i < half OBVIOUS
  <2> QED BY <1>7, <2>1
<1> QED BY <1>1, <1>7, <1>8 DEF Pair

-----------------------------------------------------------------------------
\* The nodes of a tree that its leaves fill.
LEMMA WidthTimes ==
    ASSUME NEW depth \in Nat, Powers(depth), NEW level \in 0..depth
    PROVE  Width(depth, level) \in Nat \ {0} /\ Width(depth, level) * 2^level = 2^depth
<1> DEFINE S == {l \in Nat : l <= depth => Width(depth, l) * 2^l = 2^depth}
<1>0. \A l \in 0..depth : Width(depth, l) \in Nat \ {0}
  <2> TAKE l \in 0..depth
  <2>1. depth - l \in 0..depth OBVIOUS
  <2> QED BY <2>1, PowersArePositive DEF Width
<1>1. 0 \in S
  <2>1. 2^0 = 1 /\ depth - 0 = depth /\ 0 \in 0..depth OBVIOUS
  <2>2. Width(depth, 0) = 2^depth BY <2>1 DEF Width
  <2>3. Width(depth, 0) * 1 = Width(depth, 0) BY <1>0, <2>1
  <2> QED BY <2>1, <2>2, <2>3
<1>2. ASSUME NEW l \in Nat, l \in S PROVE l + 1 \in S
  <2> SUFFICES ASSUME l + 1 <= depth PROVE Width(depth, l + 1) * 2^(l + 1) = 2^depth
    OBVIOUS
  <2>1. l \in 0..(depth - 1) /\ l \in 0..depth /\ l <= depth /\ l + 1 \in 0..depth OBVIOUS
  <2>2. Width(depth, l) = 2 * Width(depth, l + 1) BY <2>1, WidthDoubles
  <2>3. 2^(l + 1) = 2 * 2^l BY <2>1 DEF Powers
  <2>4. PICK a \in Nat, b \in Nat : a = Width(depth, l + 1) /\ b = 2^l
    BY <1>0, <2>1, PowersArePositive
  <2>5. (2 * a) * b = 2^depth BY <1>2, <2>1, <2>2, <2>4
  <2>6. a * (2 * b) = (2 * a) * b OBVIOUS
  <2> QED BY <2>3, <2>4, <2>5, <2>6
<1> HIDE DEF S
<1>3. \A l \in Nat : l \in S BY <1>1, <1>2, InductiveSet
<1>4. level \in S BY <1>3
<1> QED BY <1>0, <1>4 DEF S

LEMMA FullTree ==
    ASSUME NEW depth \in Nat, Powers(depth), NEW leaves, Len(leaves) = 2^depth,
           NEW level \in 0..depth, NEW k \in 0..(Width(depth, level) - 1)
    PROVE  ReferenceTree(leaves, depth, << >>)[level][k] =
              IF level = 0 THEN leaves[k + 1]
              ELSE <<ReferenceTree(leaves, depth, << >>)[level - 1][2 * k],
                     ReferenceTree(leaves, depth, << >>)[level - 1][2 * k + 1]>>
<1>1. \A l, j : ReferenceTree(leaves, depth, << >>)[l][j] = Cell(leaves, depth, << >>, l, j)
  <2>1. ReferenceTree(leaves, depth, << >>) = TreeLayers(leaves, depth, << >>)
    BY Zenon DEF ReferenceTree, TreeLayers, TreeLayersUpTo
  <2> QED BY <2>1, Zenon DEF Cell
<1>2. Cell(leaves, depth, << >>, level, k) = NodeOver(leaves, depth, << >>, level, k)
  BY CellValue
<1>3. ~ (k * 2^level >= Len(leaves))
  <2>1. PICK a \in Nat \ {0}, b \in Nat \ {0} :
           a = Width(depth, level) /\ b = 2^level /\ a * b = 2^depth
    BY WidthTimes, PowersArePositive
  <2>2. k \in Nat /\ k + 1 <= a BY <2>1
  <2>3. k * b < a * b
    <3>1. (k + 1) * b <= a * b BY <2>1, <2>2
    <3>2. (k + 1) * b = k * b + b BY <2>2
    <3>3. k * b \in Nat /\ a * b \in Nat BY <2>2
    <3> QED BY <3>1, <3>2, <3>3
  <2>4. k * b \in Nat /\ a * b \in Nat BY <2>2
  <2> QED BY <2>1, <2>3, <2>4
<1> QED BY <1>1, <1>2, <1>3 DEF NodeOver

\* The tree of a list: its leaves are the list and zeros, and every other node is
\* the hash of the two below it.
TreeIsPerfect(s, H) ==
    /\ \A k \in 0..(2^H - 1) : Tree(s)[0][k] = IF k < Len(s) THEN s[k + 1] ELSE Zero
    /\ \A l \in 0..(H - 1) : \A k \in 0..(Width(H, l + 1) - 1) :
          Tree(s)[l + 1][k] = hash(Tree(s)[l][2 * k], Tree(s)[l][2 * k + 1])

LEMMA PerfectTree ==
    ASSUME NEW s, Height(s) \in Nat, Powers(Height(s)), Len(s) \in Nat
    PROVE  TreeIsPerfect(s, Height(s))
<1> DEFINE H == Height(s)
           leaf(i) == IF i <= Len(s) THEN s[i] ELSE Zero
<1>1. H \in Nat /\ Powers(H) OBVIOUS
<1>2. Padded(s) = [i \in 1..(2^H) |-> leaf(i)] /\ Tree(s) = ReferenceTree(Padded(s), H, << >>)
  BY DEF Padded, Tree
<1> HIDE DEF H, leaf
<1>3. 2^H \in Nat
  <2>1. H \in 0..H BY <1>1
  <2> QED BY <1>1, <2>1, PowersArePositive
<1>4. Len(Padded(s)) = 2^H /\ \A i \in 1..(2^H) : Padded(s)[i] = leaf(i)
  <2>1. PICK n \in Nat : n = 2^H BY <1>3
  <2>2. PICK f : f = Padded(s) OBVIOUS
  <2>3. f = [i \in 1..n |-> leaf(i)] BY <1>2, <2>1, <2>2
  <2>4. Len(f) = n /\ \A i \in 1..n : f[i] = leaf(i) BY <2>3
  <2> QED BY <2>1, <2>2, <2>4
<1>5. ASSUME NEW l \in 0..H, NEW k \in 0..(Width(H, l) - 1)
      PROVE  Tree(s)[l][k] = IF l = 0 THEN Padded(s)[k + 1]
                             ELSE <<Tree(s)[l - 1][2 * k], Tree(s)[l - 1][2 * k + 1]>>
  <2>1. PICK leaves : leaves = Padded(s) /\ Tree(s) = ReferenceTree(leaves, H, << >>) BY <1>2
  <2>2. Len(leaves) = 2^H BY <1>4, <2>1
  <2>3. ReferenceTree(leaves, H, << >>)[l][k] =
           IF l = 0 THEN leaves[k + 1]
           ELSE <<ReferenceTree(leaves, H, << >>)[l - 1][2 * k],
                  ReferenceTree(leaves, H, << >>)[l - 1][2 * k + 1]>>
    BY <1>1, <2>2, FullTree
  <2> QED BY <2>1, <2>3
<1>6. ASSUME NEW k \in 0..(2^H - 1)
      PROVE  Tree(s)[0][k] = IF k < Len(s) THEN s[k + 1] ELSE Zero
  <2>1. 0 \in 0..H /\ H - 0 = H BY <1>1
  <2>2. k \in 0..(Width(H, 0) - 1) BY <2>1 DEF Width
  <2>3. Tree(s)[0][k] = Padded(s)[k + 1] BY <1>5, <2>1, <2>2
  <2>4. k + 1 \in 1..(2^H) /\ (k + 1 <= Len(s) <=> k < Len(s)) BY <1>3
  <2>5. Tree(s)[0][k] = leaf(k + 1) BY <1>4, <2>3, <2>4
  <2> QED BY <2>4, <2>5 DEF leaf
<1>7. ASSUME NEW l \in 0..(H - 1), NEW k \in 0..(Width(H, l + 1) - 1)
      PROVE  Tree(s)[l + 1][k] = hash(Tree(s)[l][2 * k], Tree(s)[l][2 * k + 1])
  <2>1. l + 1 \in 0..H /\ l + 1 # 0 /\ (l + 1) - 1 = l BY <1>1
  <2>2. Tree(s)[l + 1][k] =
           <<Tree(s)[(l + 1) - 1][2 * k], Tree(s)[(l + 1) - 1][2 * k + 1]>>
    BY <1>5, <2>1
  <2> QED BY <2>1, <2>2 DEF hash
<1> QED BY <1>6, <1>7 DEF TreeIsPerfect, H

\* The array when m of its cells are in use holds the layer of the tree that has
\* m nodes; the last one is the root.
LEMMA RootIsTheTree ==
    ASSUME Powers(MAX_PROOF_DEPTH), NEW Value, NEW s \in Seq(Value),
           Len(s) \in 2..(2^MAX_PROOF_DEPTH)
    PROVE  _computeNullifierRoot(s) = Tree(s)[Height(s)][0]
<1> DEFINE count == Len(s)
           w     == _nextPowerOfTwo(count)
           layer == [i \in 0..(w - 1) |-> IF i < count THEN s[i + 1] ELSE Zero]
           reduced == CHOOSE g : Layers(layer, w, 1, g)
           root == _computeNullifierRoot(s)
           H == Height(s)
<1>1. count \in Nat /\ count # 0 /\ count # 1
  <2>1. MAX_PROOF_DEPTH \in 0..MAX_PROOF_DEPTH BY EpochRootAssumption
  <2>2. 2^MAX_PROOF_DEPTH \in Nat BY <2>1, EpochRootAssumption, PowersArePositive
  <2>3. \A n : n \in 2..(2^MAX_PROOF_DEPTH) => n \in Nat /\ n # 0 /\ n # 1 BY <2>2
  <2> QED BY <2>3, Zenon
<1>2. root = reduced[1][0]
  <2>1. root = CASE count = 0 -> Zero
                 [] count = 1 -> s[1]
                 [] OTHER     -> reduced[1][0]
    BY DEF _computeNullifierRoot, Layers
  <2> HIDE DEF reduced, count, root
  <2> QED BY <1>1, <2>1
<1>3. H \in 1..MAX_PROOF_DEPTH BY HeightFits
<1>4. MAX_PROOF_DEPTH \in Nat BY EpochRootAssumption
<1>5. H \in Nat /\ H \in 0..MAX_PROOF_DEPTH BY <1>3, <1>4
<1>6. Powers(H) BY <1>4, <1>5, PowersBelow
<1>7. w = 2^H BY NextPowerIsWidth
<1>8. \A h \in 0..H : 2^h \in Nat \ {0} BY <1>5, <1>6, PowersArePositive
<1>9. w \in Nat \ {0}
  <2>1. H \in 0..H BY <1>5
  <2> QED BY <1>7, <1>8, <2>1
<1>10. TreeIsPerfect(s, H) BY <1>1, <1>5, <1>6, PerfectTree
<1> HIDE DEF w, count, root, H
<1>11. IsArray(layer, w) /\ \A i \in 0..(w - 1) : layer[i] = Tree(s)[0][i]
  <2>1. IsArray(layer, w) BY DEF IsArray
  <2>2. \A i \in 0..(w - 1) : layer[i] = Tree(s)[0][i]
    BY <1>7, <1>10 DEF TreeIsPerfect, count
  <2> QED BY <2>1, <2>2
<1> HIDE DEF layer
<1>12. Layers(layer, w, 1, reduced) BY <1>9, LayersExist
<1> HIDE DEF reduced
<1>13. \A m \in 1..w : reduced[m] =
          IF 2 * m > w THEN layer ELSE ReduceInPlace(reduced[2 * m], m)
  BY <1>12 DEF Layers
<1> DEFINE m(l) == Width(H, l)
           Holds(l) == /\ IsArray(reduced[m(l)], w)
                       /\ \A k \in 0..(m(l) - 1) : reduced[m(l)][k] = Tree(s)[l][k]
           S == {l \in Nat : l <= H => Holds(l)}
<1>14. 0 \in S
  <2>1. H - 0 = H BY <1>5
  <2>2. m(0) = w BY <1>7, <2>1 DEF Width
  <2>3. w \in 1..w /\ 2 * w > w BY <1>9
  <2>4. reduced[w] = layer BY <1>13, <2>3
  <2> QED BY <1>11, <2>2, <2>4
<1>15. ASSUME NEW l \in Nat, l \in S PROVE l + 1 \in S
  <2> HIDE DEF Holds
  <2> SUFFICES ASSUME l + 1 <= H PROVE Holds(l + 1)
    OBVIOUS
  <2>1. l \in 0..(H - 1) /\ l <= H /\ l \in 0..H BY <1>5
  <2>2. Holds(l) BY <1>15, <2>1
  <2>3a. PICK half \in Nat \ {0} : half = m(l + 1) BY <1>5, <1>6, <2>1, WidthDoubles
  <2>3b. PICK old : old = reduced[m(l)] OBVIOUS
  <2>3. half = m(l + 1) /\ old = reduced[m(l)] BY <2>3a, <2>3b
  <2>4. m(l) = 2 * half BY <1>5, <1>6, <2>1, <2>3, WidthDoubles
  <2>5. 2 * half <= w
    <3>1. PICK p \in Nat \ {0} : p = 2^l BY <1>8, <2>1
    <3>2. (2 * half) * p = w BY <1>5, <1>6, <1>7, <2>1, <2>4, <3>1, WidthTimes
    <3> QED BY <1>9, <3>2
  <2>6. half \in 1..w /\ ~ (2 * half > w) BY <1>9, <2>5
  <2>7. reduced[half] = ReduceInPlace(old, half) BY <1>13, <2>3, <2>4, <2>6
  <2>8. /\ IsArray(old, w)
        /\ \A k \in 0..(2 * half - 1) : old[k] = Tree(s)[l][k]
    BY <2>2, <2>3, <2>4 DEF Holds
  <2>9. PICK new : new = ReduceInPlace(old, half) OBVIOUS
  <2>10. /\ IsArray(new, w)
         /\ \A k \in 0..(half - 1) : new[k] = hash(old[2 * k], old[2 * k + 1])
    <3>1. w \in Nat /\ half \in Nat BY <1>9
    <3> QED BY <2>5, <2>8, <2>9, <3>1, ReducePairs
  <2>11. ASSUME NEW k \in 0..(half - 1) PROVE new[k] = Tree(s)[l + 1][k]
    <3>1. 2 * k \in 0..(2 * half - 1) /\ 2 * k + 1 \in 0..(2 * half - 1) OBVIOUS
    <3>2. old[2 * k] = Tree(s)[l][2 * k] /\ old[2 * k + 1] = Tree(s)[l][2 * k + 1]
      BY <2>8, <3>1
    <3>3. Tree(s)[l + 1][k] = hash(Tree(s)[l][2 * k], Tree(s)[l][2 * k + 1])
      BY <1>10, <2>1, <2>3 DEF TreeIsPerfect
    <3> QED BY <2>10, <3>2, <3>3
  <2> HIDE DEF m
  <2>12. reduced[m(l + 1)] = new BY <2>3, <2>7, <2>9
  <2> QED BY <2>3, <2>10, <2>11, <2>12 DEF Holds
<1> HIDE DEF S, Holds
<1>16. Holds(H)
  <2>1. H \in S BY <1>5, <1>14, <1>15, InductiveSet
  <2> QED BY <1>5, <2>1 DEF S
<1>17. m(H) = 1
  <2>1. H - H = 0 /\ 2^0 = 1 BY <1>5
  <2> QED BY <2>1 DEF Width
<1> HIDE DEF m
<1>18. reduced[1][0] = Tree(s)[H][0]
  <2>1. 0 \in 0..(1 - 1) OBVIOUS
  <2> QED BY <1>16, <1>17, <2>1 DEF Holds
<1> QED BY <1>2, <1>18 DEF root, H

-----------------------------------------------------------------------------
\* The two contracts agree on the trees of epochs, for every list of nullifiers
\* that proofs of MAX_PROOF_DEPTH hashes can open: the Merkle proof of each of
\* its elements, read from the textbook tree, is accepted by the registry's
\* _verifyInclusion against the root that the manager's _computeNullifierRoot
\* computed in place.
THEOREM MembersVerify ==
    ASSUME Powers(MAX_PROOF_DEPTH), NEW Value, NEW s \in Seq(Value)
    PROVE  MembersAreProvable(s)
<1> SUFFICES ASSUME Len(s) \in 2..(2^MAX_PROOF_DEPTH), NEW i \in 0..(Len(s) - 1)
             PROVE  Provable(s, i)
  BY DEF MembersAreProvable
<1> DEFINE H == Height(s)
           root == _computeNullifierRoot(s)
           leaf == s[i + 1]
           proof == MerkleProof(s, i)
           path == MerklePath(s, i)
           current == CHOOSE c : StepsUp(leaf, proof, path, c, H)
<1>1. H \in 1..MAX_PROOF_DEPTH /\ 2^H >= Len(s) BY HeightFits
<1>2. MAX_PROOF_DEPTH \in Nat BY EpochRootAssumption
<1>3. H \in Nat /\ H \in 0..MAX_PROOF_DEPTH BY <1>1, <1>2
<1>4. Powers(H) BY <1>2, <1>3, PowersBelow
<1>5. 2^H \in Nat
  <2>1. H \in 0..H BY <1>3
  <2> QED BY <1>3, <1>4, <2>1, PowersArePositive
<1>6. i \in Nat /\ i < Len(s) /\ i < 2^H /\ Len(s) \in Nat BY <1>1, <1>5
<1>7. TreeIsPerfect(s, H) BY <1>3, <1>4, <1>6, PerfectTree
<1>8. root = Tree(s)[H][0] BY RootIsTheTree
<1>9. /\ proof = [h \in 1..H |-> Sibling(s, i, h - 1)]
      /\ path = [h \in 1..H |-> Bit(i, h - 1)]
  BY DEF MerkleProof, MerklePath
<1> HIDE DEF H, proof, path, root
<1>10. /\ Len(proof) = H /\ Len(path) = H
       /\ \A h \in 1..H : proof[h] = Sibling(s, i, h - 1) /\ path[h] = Bit(i, h - 1)
  BY <1>3, <1>9
<1>11. \A l \in 0..(H - 1) : /\ Up(i, l) \in Nat /\ Up(i, l + 1) \in Nat
                             /\ Up(i, l) = 2 * Up(i, l + 1) + (Up(i, l) % 2)
                             /\ Up(i, l) % 2 \in {0, 1}
  BY <1>3, <1>4, <1>6, UpHalves
<1>12. \A l \in 0..H : Up(i, l) \in 0..(Width(H, l) - 1)
  BY <1>3, <1>4, <1>6, UpInWidth
<1>13. \A h \in 1..H : path[h] = Up(i, h - 1) % 2 /\ path[h] \in {0, 1}
  <2> TAKE h \in 1..H
  <2>1. h - 1 \in 0..(H - 1) BY <1>3
  <2>2. path[h] = Up(i, h - 1) % 2 BY <1>10 DEF Bit, Up
  <2> QED BY <1>11, <2>1, <2>2
<1>14. StepsUp(leaf, proof, path, current, H) BY <1>3, CurrentExists
<1> HIDE DEF current, leaf
<1>15. \A h \in 0..H : current[h] =
          IF h = 0 THEN leaf
          ELSE IF path[h] = 0 THEN hash(current[h - 1], proof[h])
                              ELSE hash(proof[h], current[h - 1])
  BY <1>14 DEF StepsUp
\* After h siblings, it is at the node over the leaf at height h.
<1> DEFINE S == {h \in Nat : h <= H => current[h] = Tree(s)[h][Up(i, h)]}
<1>16. 0 \in S
  <2>1. 0 \in 0..H BY <1>3
  <2>2. current[0] = leaf BY <1>15, <2>1
  <2>3. Up(i, 0) = i
    <3>1. 2^0 = 1 /\ i \div 1 = i BY <1>6
    <3> QED BY <3>1 DEF Up
  <2>4. i \in 0..(2^H - 1) BY <1>5, <1>6
  <2>5. Tree(s)[0][i] = leaf BY <1>6, <1>7, <2>4 DEF TreeIsPerfect, leaf
  <2> QED BY <2>2, <2>3, <2>5
<1>17. ASSUME NEW l \in Nat, l \in S PROVE l + 1 \in S
  <2> SUFFICES ASSUME l + 1 <= H PROVE current[l + 1] = Tree(s)[l + 1][Up(i, l + 1)]
    OBVIOUS
  <2>1. /\ l \in 0..(H - 1) /\ l <= H /\ l + 1 \in 0..H /\ l + 1 \in 1..H
        /\ l + 1 # 0 /\ (l + 1) - 1 = l
    BY <1>3
  <2>2. PICK u \in Nat, v \in Nat : u = Up(i, l) /\ v = Up(i, l + 1) BY <1>11, <2>1
  <2>3. current[l] = Tree(s)[l][u] BY <1>17, <2>1, <2>2
  <2>4. current[l + 1] = IF path[l + 1] = 0 THEN hash(current[l], proof[l + 1])
                                            ELSE hash(proof[l + 1], current[l])
    BY <1>15, <2>1
  <2>5. path[l + 1] = u % 2 /\ u % 2 \in {0, 1} /\ u = 2 * v + (u % 2)
    BY <1>11, <1>13, <2>1, <2>2
  <2>6. proof[l + 1] = Tree(s)[l][u + 1 - 2 * (u % 2)]
    <3>1. proof[l + 1] = Sibling(s, i, l) BY <1>10, <2>1
    <3>2. u = i \div 2^l BY <2>2 DEF Up
    <3> QED BY <3>1, <3>2 DEF Sibling, Bit
  <2>7. Tree(s)[l + 1][v] = hash(Tree(s)[l][2 * v], Tree(s)[l][2 * v + 1])
    BY <1>7, <1>12, <2>1, <2>2 DEF TreeIsPerfect
  <2>8. CASE u % 2 = 0
    <3>1. u = 2 * v /\ u + 1 - 2 * (u % 2) = 2 * v + 1 BY <2>5, <2>8
    <3> QED BY <2>2, <2>3, <2>4, <2>5, <2>6, <2>7, <2>8, <3>1
  <2>9. CASE u % 2 = 1
    <3>1. u = 2 * v + 1 /\ u + 1 - 2 * (u % 2) = 2 * v BY <2>5, <2>9
    <3>2. path[l + 1] # 0 BY <2>5, <2>9
    <3> QED BY <2>2, <2>3, <2>4, <2>6, <2>7, <3>1, <3>2
  <2> QED BY <2>5, <2>8, <2>9
<1> HIDE DEF S
<1>18. current[H] = root
  <2>1. H \in S BY <1>3, <1>16, <1>17, InductiveSet
  <2>2. current[H] = Tree(s)[H][Up(i, H)] BY <1>3, <2>1 DEF S
  <2>3. Up(i, H) = 0
    <3>1. H \in 0..H BY <1>3
    <3> QED BY <1>3, <1>4, <1>6, <3>1, UpNeighbours
  <2> QED BY <1>8, <2>2, <2>3
<1>19. _verifyInclusion(leaf, root, proof, path)
  <2>1. (CHOOSE c : StepsUp(leaf, proof, path, c, Len(proof)))[Len(proof)] = root
    BY <1>10, <1>18 DEF current
  <2>2. /\ Len(proof) = Len(path) /\ Len(proof) \in 1..MAX_PROOF_DEPTH
        /\ \A h \in 1..Len(path) : path[h] \in {0, 1}
    BY <1>1, <1>10, <1>13
  <2> QED BY <2>1, <2>2, Zenon DEF _verifyInclusion, StepsUp
<1> QED BY <1>19 DEF Provable, leaf, root, proof, path

\* What leads to a node of the tree of a list is a node at its height or below,
\* or a part of a leaf.
LEMMA ReachesNode ==
    ASSUME NEW Value, NEW parts, LeavesAreApart(Value, parts), NEW s \in Seq(Value),
           NEW H \in Nat, Powers(H), TreeIsPerfect(s, H), NEW n,
           NEW l \in 0..H, NEW k \in 0..(Width(H, l) - 1), Reaches(n, Tree(s)[l][k])
    PROVE  \/ n \in parts
           \/ \E g \in 0..l : \E i \in 0..(Width(H, g) - 1) : n = Tree(s)[g][i]
<1> DEFINE IsNode(g) == \E i \in 0..(Width(H, g) - 1) : n = Tree(s)[g][i]
           Found(g) == n \in parts \/ \E f \in 0..g : IsNode(f)
           S == {g \in Nat : g <= H =>
                   \A i \in 0..(Width(H, g) - 1) : Reaches(n, Tree(s)[g][i]) => Found(g)}
<1>1. 0 \in S
  <2> SUFFICES ASSUME NEW i \in 0..(Width(H, 0) - 1), Reaches(n, Tree(s)[0][i])
               PROVE  n \in parts \/ IsNode(0)
    OBVIOUS
  <2>1. H - 0 = H OBVIOUS
  <2>2. i \in 0..(2^H - 1) BY <2>1 DEF Width
  <2>3. Tree(s)[0][i] = IF i < Len(s) THEN s[i + 1] ELSE Zero BY <2>2 DEF TreeIsPerfect
  <2>4. CASE i < Len(s)
    <3>1. i + 1 \in 1..Len(s) BY <2>4
    <3>2. s[i + 1] \in Value BY <3>1
    <3>3. Tree(s)[0][i] \in Value BY <2>3, <2>4, <3>2
    <3> QED BY <3>3, ReachesLeaf
  <2>5. CASE ~ (i < Len(s))
    <3>1. n = Tree(s)[0][i] BY <2>3, <2>5, ReachesAtom DEF LeavesAreApart
    <3> QED BY <3>1
  <2> QED BY <2>4, <2>5
<1>2. ASSUME NEW g \in Nat, g \in S PROVE g + 1 \in S
  <2> SUFFICES ASSUME g + 1 <= H, NEW i \in 0..(Width(H, g + 1) - 1),
                      Reaches(n, Tree(s)[g + 1][i])
               PROVE  Found(g + 1)
    OBVIOUS
  <2>1. g \in 0..(H - 1) /\ g <= H OBVIOUS
  <2>2. /\ Width(H, g) = 2 * Width(H, g + 1)
        /\ Width(H, g + 1) \in Nat
    BY <2>1, WidthDoubles
  <2>3. 2 * i \in 0..(Width(H, g) - 1) /\ 2 * i + 1 \in 0..(Width(H, g) - 1) BY <2>2
  <2>4. Tree(s)[g + 1][i] = hash(Tree(s)[g][2 * i], Tree(s)[g][2 * i + 1])
    BY <2>1 DEF TreeIsPerfect
  <2>5. \/ n = Tree(s)[g + 1][i]
        \/ Reaches(n, Tree(s)[g][2 * i]) \/ Reaches(n, Tree(s)[g][2 * i + 1])
    BY <2>4, ReachesPair
  <2>6. CASE n = Tree(s)[g + 1][i]
    <3>1. g + 1 \in 0..(g + 1) /\ IsNode(g + 1) BY <2>6
    <3> HIDE DEF IsNode
    <3> QED BY <3>1
  <2>7. CASE Found(g)
    <3>1. 0..g \subseteq 0..(g + 1) OBVIOUS
    <3> HIDE DEF IsNode
    <3> QED BY <2>7, <3>1
  <2> HIDE DEF Found
  <2> QED BY <1>2, <2>1, <2>3, <2>5, <2>6, <2>7
<1> HIDE DEF S
<1>3. l \in S BY <1>1, <1>2, InductiveSet
<1>4. Found(l)
  <2> HIDE DEF Found
  <2> QED BY <1>3 DEF S
<1> QED BY <1>4

\* Whatever _verifyInclusion accepts against the root of a list is a node of the
\* list's tree below the root, or a part of a leaf; against the root of an empty
\* epoch it accepts nothing, and of a single nullifier only parts of it.
LEMMA OnlyNodesVerify ==
    ASSUME Powers(MAX_PROOF_DEPTH), NEW Value, NEW parts, LeavesAreApart(Value, parts),
           NEW s \in Seq(Value), Len(s) <= 2^MAX_PROOF_DEPTH, NEW n,
           NEW proof, NEW pathIndices,
           _verifyInclusion(n, _computeNullifierRoot(s), proof, pathIndices)
    PROVE  Len(s) >= 1 /\ (n \in parts \/ (Len(s) >= 2 /\ n \in Below(s)))
<1>1. PICK root : root = _computeNullifierRoot(s) OBVIOUS
<1>2. PICK child : Reaches(n, child) /\ Step(child, root) BY <1>1, VerifiedReaches
<1>3. Len(s) \in Nat OBVIOUS
<1>4. CASE Len(s) = 0
  <2>1. root = Zero BY <1>1, <1>4, EmptyRoot
  <2> QED BY <1>2, <2>1 DEF LeavesAreApart, Atom, Step
<1>5. CASE Len(s) = 1
  <2>1. root = s[1] /\ s[1] \in Value BY <1>1, <1>5, SingleRoot
  <2>2. child \in parts BY <1>2, <2>1 DEF LeavesAreApart
  <2>3. n \in parts BY <1>2, <2>2, ReachesLeaf
  <2> QED BY <1>5, <2>3
<1>6. CASE Len(s) >= 2
  <2> DEFINE H == Height(s)
  <2>1. MAX_PROOF_DEPTH \in Nat BY EpochRootAssumption
  <2>2. 2^MAX_PROOF_DEPTH \in Nat
    <3>1. MAX_PROOF_DEPTH \in 0..MAX_PROOF_DEPTH BY <2>1
    <3> QED BY <2>1, <3>1, PowersArePositive
  <2>3. Len(s) \in 2..(2^MAX_PROOF_DEPTH) BY <1>3, <1>6, <2>2
  <2>4. H \in 1..MAX_PROOF_DEPTH BY <2>3, HeightFits
  <2>5. H \in Nat /\ H \in 0..MAX_PROOF_DEPTH BY <2>1, <2>4
  <2>6. Powers(H) BY <2>1, <2>5, PowersBelow
  <2>7. TreeIsPerfect(s, H) BY <1>3, <2>5, <2>6, PerfectTree
  <2>8. root = Tree(s)[H][0] BY <1>1, <2>3, RootIsTheTree
  <2>9. Below(s) = UNION {Layer(s, h) : h \in 0..(H - 1)}
        /\ \A h : Layer(s, h) = {Tree(s)[h][k] : k \in 0..(Width(H, h) - 1)}
    BY DEF Below, Layer, Width
  <2> HIDE DEF H
  <2>10. PICK h \in Nat : h = H - 1 /\ h + 1 = H BY <2>4, <2>5
  <2>11. /\ Width(H, h + 1) = 1 /\ Width(H, h) = 2 * 1
    <3>1. H - H = 0 /\ 2^0 = 1 BY <2>5
    <3>2. Width(H, h + 1) = 1 BY <2>10, <3>1 DEF Width
    <3>3. h \in 0..(H - 1) BY <2>10
    <3> QED BY <2>5, <2>6, <3>2, <3>3, WidthDoubles
  <2>12. root = hash(Tree(s)[h][0], Tree(s)[h][1])
    <3>1. h \in 0..(H - 1) /\ 0 \in 0..(Width(H, h + 1) - 1) BY <2>10, <2>11
    <3>2. Tree(s)[h + 1][0] = hash(Tree(s)[h][2 * 0], Tree(s)[h][2 * 0 + 1])
      BY <2>7, <3>1 DEF TreeIsPerfect
    <3>3. 2 * 0 = 0 /\ 2 * 0 + 1 = 1 OBVIOUS
    <3> QED BY <2>8, <2>10, <3>2, <3>3
  <2>13. PICK k \in {0, 1} : child = Tree(s)[h][k] BY <1>2, <2>12 DEF Step, hash
  <2>14. h \in 0..H /\ k \in 0..(Width(H, h) - 1) BY <2>10, <2>11
  <2>15. \/ n \in parts
         \/ \E g \in 0..h : \E i \in 0..(Width(H, g) - 1) : n = Tree(s)[g][i]
    BY <1>2, <2>5, <2>6, <2>7, <2>13, <2>14, ReachesNode
  <2>16. ASSUME NEW g \in 0..h, NEW i \in 0..(Width(H, g) - 1), n = Tree(s)[g][i]
         PROVE  n \in Below(s)
    <3>1. n \in Layer(s, g) BY <2>9, <2>16
    <3>2. g \in 0..(H - 1) BY <2>10
    <3> QED BY <2>9, <3>1, <3>2
  <2> QED BY <1>3, <1>6, <2>15, <2>16
<1>7. Len(s) = 0 \/ Len(s) = 1 \/ Len(s) >= 2
  <2>1. \A m \in Nat : m = 0 \/ m = 1 \/ m >= 2 OBVIOUS
  <2> QED BY <1>3, <2>1, Zenon
<1> QED BY <1>4, <1>5, <1>6, <1>7, Zenon

\* ... and of nothing else than nodes of the tree and the parts of leaves: with
\* whatever proofs any value is presented to the registry, it accepts none that is
\* not under the root, and of the nullifiers of notes only elements of the list.
THEOREM OnlyNodesProvable ==
    ASSUME Powers(MAX_PROOF_DEPTH), NEW nullifiers, NEW parts,
           LeavesAreApart(nullifiers, parts), NEW s \in Seq(nullifiers),
           Len(s) <= 2^MAX_PROOF_DEPTH, NEW values, NEW proofs
    PROVE  OnlyNodesAreProvable(s, values, nullifiers, parts, proofs)
<1> SUFFICES ASSUME NEW n \in values, NEW p \in proofs,
                    _verifyInclusion(n, _computeNullifierRoot(s), p.siblings, p.indices)
             PROVE  Under(s, n, nullifiers, parts)
  BY DEF OnlyNodesAreProvable
<1>1. Len(s) >= 1 /\ (n \in parts \/ (Len(s) >= 2 /\ n \in Below(s)))
  BY OnlyNodesVerify
<1>2. n \in nullifiers => \E i \in 1..Len(s) : s[i] = n BY OnlyMembersVerify
<1> QED BY <1>1, <1>2 DEF Under

-----------------------------------------------------------------------------
\* What the registry keeps: the record of a chain carries the chain's id or 0,
\* a chain with a record is listed, and reports are there for such chains only.
RootOrZero == Roots \cup {Zero}

ChainRecord == [chainId : Nat, bridgeAdapter : Account \cup {Zero},
                latestEpochId : Nat, latestEpochRoot : RootOrZero,
                active : BOOLEAN]

RegistryType ==
    /\ chains \in [ChainId -> ChainRecord]
    /\ registeredChainIds \in Seq(ChainId)
    /\ epochRoots \in [ChainId -> [EpochIds -> RootOrZero]]
    /\ nullifierSpentGlobal \in [ChainId -> SUBSET Presented]

IsListed(c) == \E i \in 1..Len(registeredChainIds) : registeredChainIds[i] = c

RecordsAreListed ==
    \A c \in ChainId :
        /\ chains[c].active => chains[c].chainId # 0
        /\ chains[c].chainId # 0 => IsListed(c)
        /\ nullifierSpentGlobal[c] # {} => chains[c].chainId # 0

RegistryInv == RegistryType /\ RecordsAreListed

LEMMA RegisterKeeps ==
    ASSUME RegistryInv, NEW sender, NEW c \in ChainId, NEW a \in Account,
           registerChain(sender, c, a)
    PROVE  RegistryInv'
<1> USE DEF RegistryInv
<1> DEFINE r == [chainId |-> c, bridgeAdapter |-> a, latestEpochId |-> 0,
                 latestEpochRoot |-> Zero, active |-> TRUE]
<1>1. /\ chains' = [chains EXCEPT ![c] = r]
      /\ registeredChainIds' = Append(registeredChainIds, c)
      /\ epochRoots' = epochRoots
      /\ nullifierSpentGlobal' = nullifierSpentGlobal
  BY DEF registerChain, rootVars
<1>2. r \in ChainRecord /\ r.chainId = c /\ c # 0
  BY RegistryAssumption DEF ChainRecord, RootOrZero
<1> HIDE DEF r
<1>3. RegistryType' BY <1>1, <1>2 DEF RegistryType
<1>4. ASSUME NEW d, IsListed(d) \/ d = c PROVE IsListed(d)'
  <2>1. /\ Len(registeredChainIds') = Len(registeredChainIds) + 1
        /\ Len(registeredChainIds) \in Nat
        /\ registeredChainIds'[Len(registeredChainIds) + 1] = c
        /\ \A i \in 1..Len(registeredChainIds) :
              registeredChainIds'[i] = registeredChainIds[i]
    BY <1>1 DEF RegistryType
  <2>2. CASE d = c BY <2>1, <2>2 DEF IsListed
  <2>3. CASE IsListed(d)
    <3>1. PICK i \in 1..Len(registeredChainIds) : registeredChainIds[i] = d
      BY <2>3 DEF IsListed
    <3>2. i \in 1..Len(registeredChainIds') /\ registeredChainIds'[i] = d
      BY <2>1, <3>1
    <3> QED BY <3>2 DEF IsListed
  <2> QED BY <1>4, <2>2, <2>3
<1>5. RecordsAreListed'
  <2> SUFFICES ASSUME NEW d \in ChainId
               PROVE  /\ chains'[d].active => chains'[d].chainId # 0
                      /\ chains'[d].chainId # 0 => IsListed(d)'
                      /\ nullifierSpentGlobal'[d] # {} => chains'[d].chainId # 0
    BY Zenon DEF RecordsAreListed
  <2>1. CASE d = c
    <3>1. chains'[d] = r BY <1>1, <2>1 DEF RegistryType
    <3> QED BY <1>2, <1>4, <2>1, <3>1
  <2>2. CASE d # c
    <3>1. chains'[d] = chains[d] BY <1>1, <2>2 DEF RegistryType
    <3> QED BY <1>1, <1>4, <3>1 DEF RecordsAreListed
  <2> QED BY <2>1, <2>2
<1> QED BY <1>3, <1>5

\* The other steps change neither the list nor the ids of the records.
LEMMA UnlistedKeeps ==
    ASSUME RegistryInv, RegistryType',
           registeredChainIds' = registeredChainIds,
           \A c \in ChainId :
               /\ chains'[c].chainId = chains[c].chainId
               /\ chains'[c].active => chains[c].active
               /\ nullifierSpentGlobal'[c] # {} =>
                     nullifierSpentGlobal[c] # {} \/ chains[c].chainId # 0
    PROVE  RegistryInv'
BY DEF RegistryInv, RecordsAreListed, IsListed

LEMMA DeactivateKeeps ==
    ASSUME RegistryInv, NEW sender, NEW c \in ChainId,
           deactivateChain(sender, c)
    PROVE  RegistryInv'
<1> DEFINE r == [chains[c] EXCEPT !.active = FALSE]
<1>1. /\ chains' = [chains EXCEPT ![c] = r]
      /\ registeredChainIds' = registeredChainIds
      /\ epochRoots' = epochRoots
      /\ nullifierSpentGlobal' = nullifierSpentGlobal
  BY DEF deactivateChain, rootVars
<1>2. chains[c] \in ChainRecord BY DEF RegistryInv, RegistryType
<1>3. r \in ChainRecord /\ r.chainId = chains[c].chainId /\ ~ r.active
  BY <1>2 DEF ChainRecord
<1> HIDE DEF r
<1>4. RegistryType' BY <1>1, <1>3 DEF RegistryInv, RegistryType
<1>5. \A d \in ChainId : chains'[d] = IF d = c THEN r ELSE chains[d]
  BY <1>1 DEF RegistryInv, RegistryType
<1> QED BY <1>1, <1>3, <1>4, <1>5, UnlistedKeeps

LEMMA UpdateKeeps ==
    ASSUME RegistryInv, NEW sender, NEW c \in ChainId, NEW a \in Account,
           updateBridgeAdapter(sender, c, a)
    PROVE  RegistryInv'
<1> DEFINE r == [chains[c] EXCEPT !.bridgeAdapter = a]
<1>1. /\ chains' = [chains EXCEPT ![c] = r]
      /\ registeredChainIds' = registeredChainIds
      /\ epochRoots' = epochRoots
      /\ nullifierSpentGlobal' = nullifierSpentGlobal
  BY DEF updateBridgeAdapter, rootVars
<1>2. chains[c] \in ChainRecord BY DEF RegistryInv, RegistryType
<1>3. r \in ChainRecord /\ r.chainId = chains[c].chainId /\ r.active = chains[c].active
  BY <1>2 DEF ChainRecord
<1> HIDE DEF r
<1>4. RegistryType' BY <1>1, <1>3 DEF RegistryInv, RegistryType
<1>5. \A d \in ChainId : chains'[d] = IF d = c THEN r ELSE chains[d]
  BY <1>1 DEF RegistryInv, RegistryType
<1> QED BY <1>1, <1>3, <1>4, <1>5, UnlistedKeeps

TableOf(R) == epochRoots \in [ChainId -> [EpochIds -> R]]

\* What submitEpochRoot does to the record of the chain and to the roots.
LEMMA SubmitEffect ==
    ASSUME NEW R, TableOf(R), NEW sender, NEW c \in ChainId, NEW e \in EpochIds,
           NEW r, submitEpochRoot(sender, c, e, r)
    PROVE  /\ epochRoots[c][e] = Zero
           /\ \A d \in ChainId, f \in EpochIds :
                 epochRoots'[d][f] = IF d = c /\ f = e THEN r ELSE epochRoots[d][f]
           /\ r \in R => TableOf(R)'
           /\ nullifierSpentGlobal' = nullifierSpentGlobal
<1>1. epochRoots' = [epochRoots EXCEPT ![c] = [epochRoots[c] EXCEPT ![e] = r]]
  BY DEF submitEpochRoot
<1>2. \A d \in ChainId, f \in EpochIds :
         epochRoots'[d][f] = IF d = c /\ f = e THEN r ELSE epochRoots[d][f]
  BY <1>1 DEF TableOf
<1>3. ASSUME r \in R PROVE TableOf(R)'
  <2> DEFINE t == [epochRoots[c] EXCEPT ![e] = r]
  <2>1. t \in [EpochIds -> R] BY <1>3 DEF TableOf
  <2>2. epochRoots' = [epochRoots EXCEPT ![c] = t] BY <1>1
  <2> HIDE DEF t
  <2> QED BY <2>1, <2>2 DEF TableOf
<1> QED BY <1>2, <1>3 DEF submitEpochRoot, Acceptable

LEMMA SubmitKeeps ==
    ASSUME RegistryInv, NEW sender, NEW c \in ChainId, NEW e \in EpochIds,
           NEW r \in RootOrZero, submitEpochRoot(sender, c, e, r)
    PROVE  RegistryInv'
<1> DEFINE s == [chains[c] EXCEPT !.latestEpochId = e, !.latestEpochRoot = r]
           t == [epochRoots[c] EXCEPT ![e] = r]
<1>0. RegistryType BY DEF RegistryInv
<1>1. /\ chains' = [chains EXCEPT ![c] = s]
      /\ epochRoots' = [epochRoots EXCEPT ![c] = t]
      /\ registeredChainIds' = registeredChainIds
      /\ nullifierSpentGlobal' = nullifierSpentGlobal
  BY <1>0 DEF submitEpochRoot, RegistryType
<1>2. chains[c] \in ChainRecord /\ epochRoots[c] \in [EpochIds -> RootOrZero]
  BY <1>0 DEF RegistryType
<1>3. e \in Nat BY RegistryAssumption DEF EpochIds
<1>4. /\ s \in ChainRecord
      /\ s.chainId = chains[c].chainId
      /\ s.active = chains[c].active
  BY <1>2, <1>3 DEF ChainRecord
<1>5. t \in [EpochIds -> RootOrZero] BY <1>2
<1> HIDE DEF s, t
<1>6. RegistryType' BY <1>0, <1>1, <1>4, <1>5 DEF RegistryType
<1>7. \A d \in ChainId : chains'[d] = IF d = c THEN s ELSE chains[d]
  BY <1>0, <1>1 DEF RegistryType
<1> QED BY <1>1, <1>4, <1>6, <1>7, UnlistedKeeps

LEMMA ReportEffect ==
    ASSUME nullifierSpentGlobal \in [ChainId -> SUBSET Presented],
           NEW c \in ChainId, NEW n, NEW e,
           NEW proof, NEW pathIndices,
           reportNullifierSpent(c, n, e, proof, pathIndices)
    PROVE  /\ chains[c].chainId # 0
           /\ n \notin nullifierSpentGlobal[c]
           /\ epochRoots[c][e] # Zero
           /\ _verifyInclusion(n, epochRoots[c][e], proof, pathIndices)
           /\ nullifierSpentGlobal' = [nullifierSpentGlobal EXCEPT ![c] = @ \cup {n}]
           /\ \A d \in ChainId : nullifierSpentGlobal'[d] =
                 IF d = c THEN nullifierSpentGlobal[c] \cup {n}
                 ELSE nullifierSpentGlobal[d]
           /\ UNCHANGED <<chains, registeredChainIds, epochRoots>>
<1>1. nullifierSpentGlobal' = [nullifierSpentGlobal EXCEPT ![c] = @ \cup {n}]
  BY DEF reportNullifierSpent
<1>2. \A d \in ChainId : nullifierSpentGlobal'[d] =
                 IF d = c THEN nullifierSpentGlobal[c] \cup {n}
                 ELSE nullifierSpentGlobal[d]
  BY <1>1
<1> QED BY <1>1, <1>2 DEF reportNullifierSpent, rootVars

LEMMA ReportKeeps ==
    ASSUME RegistryInv, NEW c \in ChainId, NEW n \in Presented, NEW e,
           NEW proof, NEW pathIndices,
           reportNullifierSpent(c, n, e, proof, pathIndices)
    PROVE  RegistryInv'
<1>0. RegistryType BY DEF RegistryInv
<1>1. /\ chains[c].chainId # 0
      /\ nullifierSpentGlobal' = [nullifierSpentGlobal EXCEPT ![c] = @ \cup {n}]
      /\ UNCHANGED <<chains, registeredChainIds, epochRoots>>
  BY <1>0, ReportEffect DEF RegistryType
<1>2. \A d \in ChainId : nullifierSpentGlobal'[d] =
           IF d = c THEN nullifierSpentGlobal[c] \cup {n} ELSE nullifierSpentGlobal[d]
  BY <1>0, <1>1 DEF RegistryType
<1>3. RegistryType' BY <1>0, <1>1 DEF RegistryType
<1> QED BY <1>1, <1>2, <1>3, UnlistedKeeps

LEMMA RegistryStep == RegistryInv /\ [Next]_vars => RegistryInv'
<1> SUFFICES ASSUME RegistryInv, [Next]_vars PROVE RegistryInv'
  OBVIOUS
<1>1. CASE GovernanceStep
  <2>1. PICK sender \in Account, c \in ChainId :
          \/ \E a \in Account : registerChain(sender, c, a)
          \/ deactivateChain(sender, c)
          \/ \E a \in Account : updateBridgeAdapter(sender, c, a)
    BY <1>1 DEF GovernanceStep
  <2> QED BY <2>1, RegisterKeeps, DeactivateKeeps, UpdateKeeps
<1>2. CASE \E sender \in Account, c \in ChainId, e \in EpochIds, r \in Roots :
              submitEpochRoot(sender, c, e, r)
  <2>1. Roots \subseteq RootOrZero BY DEF RootOrZero
  <2> QED BY <1>2, <2>1, SubmitKeeps
<1>3. CASE createGlobalSnapshot
  BY <1>3 DEF createGlobalSnapshot, rootVars, RegistryInv, RegistryType,
              RecordsAreListed, IsListed
<1>4. CASE \E c \in ChainId, n \in Presented, e \in EpochIds, p \in Proofs :
              reportNullifierSpent(c, n, e, p.siblings, p.indices)
  BY <1>4, ReportKeeps
<1>5. CASE UNCHANGED vars
  BY <1>5 DEF vars, rootVars, RegistryInv, RegistryType, RecordsAreListed, IsListed
<1> QED BY <1>1, <1>2, <1>3, <1>4, <1>5 DEF Next

LEMMA RegistryStart == Init => RegistryInv
<1> SUFFICES ASSUME Init PROVE RegistryInv
  OBVIOUS
<1>1. NoChain \in ChainRecord /\ NoChain.chainId = 0 /\ ~ NoChain.active
  BY DEF NoChain, ChainRecord, RootOrZero
<1>2. RegistryType BY <1>1 DEF Init, RegistryType, RootOrZero
<1>3. RecordsAreListed BY <1>1 DEF Init, RecordsAreListed
<1> QED BY <1>2, <1>3 DEF RegistryInv

\* The registry's records have their types, and no chain that has a record is
\* missing from registeredChainIds, which isNullifierSpentGlobally and
\* createGlobalSnapshot run through.
LEMMA RegistryInvariant == Spec => []RegistryInv
<1> QED BY RegistryStart, RegistryStep, PTL DEF Spec

\* isNullifierSpentGlobally (UniversalNullifierRegistry.sol) answers exactly
\* for the nullifiers reported on some chain, and with such a chain, for any
\* number of chains and after any sequence of governance calls.
THEOREM LookupComplete == Spec => []LookupFindsReports
<1>1. RegistryInv => LookupFindsReports
  <2> SUFFICES ASSUME RegistryInv, NEW n \in Presented
               PROVE  LET answer == isNullifierSpentGlobally(n)
                      IN  /\ answer.spent <=> \E c \in ChainId : n \in nullifierSpentGlobal[c]
                          /\ answer.spent => n \in nullifierSpentGlobal[answer.spentOnChainId]
    BY DEF LookupFindsReports
  <2> DEFINE hits == {i \in 1..Len(registeredChainIds) :
                        n \in nullifierSpentGlobal[registeredChainIds[i]]}
             first == CHOOSE i \in hits : \A j \in hits : i <= j
             answer == isNullifierSpentGlobally(n)
  <2>1. /\ hits = {} => answer = [spent |-> FALSE, spentOnChainId |-> 0]
        /\ hits # {} => answer = [spent |-> TRUE,
                                  spentOnChainId |-> registeredChainIds[first]]
    BY DEF isNullifierSpentGlobally
  <2>2. hits # {} <=> \E c \in ChainId : n \in nullifierSpentGlobal[c]
    <3>1. ASSUME NEW c \in ChainId, n \in nullifierSpentGlobal[c] PROVE hits # {}
      <4>1. IsListed(c) BY <3>1 DEF RegistryInv, RecordsAreListed
      <4> QED BY <3>1, <4>1 DEF IsListed
    <3>2. ASSUME NEW i \in hits
          PROVE  \E c \in ChainId : n \in nullifierSpentGlobal[c]
      <4>1. registeredChainIds[i] \in ChainId BY DEF RegistryInv, RegistryType
      <4> QED BY <4>1
    <3> QED BY <3>1, <3>2
  <2>3. hits # {} => first \in hits
    <3>1. hits \subseteq Nat BY DEF RegistryInv, RegistryType
    <3> HIDE DEF hits
    <3>2. hits # {} => \E i \in hits : \A j \in hits : i <= j
      BY <3>1, LeastNatural
    <3> QED BY <3>2
  <2>4. hits # {} => n \in nullifierSpentGlobal[registeredChainIds[first]]
    <3> HIDE DEF first
    <3> QED BY <2>3
  <2> HIDE DEF hits, first, answer
  <2>5. answer.spent <=> hits # {} BY <2>1
  <2>6. answer.spent => n \in nullifierSpentGlobal[answer.spentOnChainId]
    BY <2>1, <2>4
  <2> QED BY <2>2, <2>5, <2>6 DEF answer
<1> QED BY <1>1, RegistryInvariant, PTL


\* A report is backed by a root other than the zero of an unknown epoch: that
\* one may still be replaced.
ReportsAreBacked ==
    \A c \in ChainId : \A n \in nullifierSpentGlobal[c] :
        \E e \in EpochIds, list \in EpochLists :
            /\ epochRoots[c][e] # Zero
            /\ epochRoots[c][e] = _computeNullifierRoot(list)
            /\ Under(list, n, Nullifier, Parts)

\* reportNullifierSpent (UniversalNullifierRegistry.sol) takes any value with any
\* proof; what it records for a chain is under the root of a list that a bridge
\* submitted for that chain: if it is the nullifier of a note, an element of the
\* list, and otherwise a zero that pads the list, an inner node of its tree, or a
\* value that a nullifier is hashed from.
THEOREM ReportsCommitted ==
    ASSUME Powers(MAX_PROOF_DEPTH), LeavesAreApart(Nullifier, Parts),
           \A list \in EpochLists : Len(list) <= 2^MAX_PROOF_DEPTH
    PROVE  Spec => []ReportsAreCommitted
<1>1. Init => ReportsAreBacked BY DEF Init, ReportsAreBacked
<1>2. ASSUME RegistryInv, ReportsAreBacked, [Next]_vars PROVE ReportsAreBacked'
  <2>0. RegistryType BY <1>2 DEF RegistryInv
  <2>00. TableOf(RootOrZero) BY <2>0 DEF RegistryType, TableOf
  <2>1. ASSUME UNCHANGED <<epochRoots, nullifierSpentGlobal>>
        PROVE  ReportsAreBacked'
    BY <1>2, <2>1 DEF ReportsAreBacked
  <2>2. ASSUME NEW sender \in Account, NEW c \in ChainId, NEW e \in EpochIds,
               NEW r \in Roots, submitEpochRoot(sender, c, e, r)
        PROVE  ReportsAreBacked'
    <3>1. /\ epochRoots[c][e] = Zero
          /\ nullifierSpentGlobal' = nullifierSpentGlobal
          /\ \A d \in ChainId, f \in EpochIds :
               epochRoots'[d][f] = IF d = c /\ f = e THEN r ELSE epochRoots[d][f]
      BY <2>2, <2>00, SubmitEffect
    <3>2. \A d \in ChainId, f \in EpochIds :
             epochRoots[d][f] # Zero => epochRoots'[d][f] = epochRoots[d][f]
      BY <3>1
    <3>3. ASSUME NEW d \in ChainId, NEW n \in nullifierSpentGlobal'[d]
          PROVE  \E f \in EpochIds, list \in EpochLists :
                    /\ epochRoots'[d][f] # Zero
                    /\ epochRoots'[d][f] = _computeNullifierRoot(list)
                    /\ Under(list, n, Nullifier, Parts)
      BY <1>2, <3>1, <3>2, <3>3 DEF ReportsAreBacked
    <3> QED BY <3>3, Zenon DEF ReportsAreBacked
  <2>3. ASSUME NEW c \in ChainId, NEW n \in Presented, NEW e \in EpochIds,
               NEW p \in Proofs,
               reportNullifierSpent(c, n, e, p.siblings, p.indices)
        PROVE  ReportsAreBacked'
    <3>1. /\ epochRoots[c][e] # Zero
          /\ _verifyInclusion(n, epochRoots[c][e], p.siblings, p.indices)
          /\ epochRoots' = epochRoots
          /\ \A d \in ChainId : nullifierSpentGlobal'[d] =
                IF d = c THEN nullifierSpentGlobal[c] \cup {n}
                ELSE nullifierSpentGlobal[d]
      BY <2>0, <2>3, ReportEffect DEF RegistryType
    <3>2. epochRoots[c][e] \in Roots BY <2>0, <3>1 DEF RegistryType, RootOrZero
    <3>3. PICK list \in EpochLists : epochRoots[c][e] = _computeNullifierRoot(list)
      BY <3>2 DEF Roots
    <3>4. Under(list, n, Nullifier, Parts)
      <4>1. list \in Seq(Nullifier) BY ListsAssumption
      <4>2. Len(list) >= 1 /\ (n \in Parts \/ (Len(list) >= 2 /\ n \in Below(list)))
        BY <3>1, <3>3, <4>1, OnlyNodesVerify
      <4>3. n \in Nullifier => \E i \in 1..Len(list) : list[i] = n
        BY <3>1, <3>3, <4>1, OnlyMembersVerify
      <4> QED BY <4>2, <4>3 DEF Under
    <3>5. ASSUME NEW d \in ChainId, NEW m \in nullifierSpentGlobal'[d]
          PROVE  \E f \in EpochIds, l \in EpochLists :
                    /\ epochRoots'[d][f] # Zero
                    /\ epochRoots'[d][f] = _computeNullifierRoot(l)
                    /\ Under(l, m, Nullifier, Parts)
      <4>1. CASE m \in nullifierSpentGlobal[d]
        BY <1>2, <3>1, <4>1 DEF ReportsAreBacked
      <4>2. CASE d = c /\ m = n BY <3>1, <3>3, <3>4, <4>2
      <4> QED BY <3>1, <3>5, <4>1, <4>2
    <3> QED BY <3>5, Zenon DEF ReportsAreBacked
  <2> QED
    BY <1>2, <2>1, <2>2, <2>3
       DEF Next, GovernanceStep, registerChain, deactivateChain,
           updateBridgeAdapter, createGlobalSnapshot, rootVars, vars
<1>3. ReportsAreBacked => ReportsAreCommitted
  BY DEF ReportsAreBacked, ReportsAreCommitted
<1> QED BY <1>1, <1>2, <1>3, RegistryInvariant, PTL DEF Spec

\* Only a chain with a record has roots, and no step removes a record.
RootsAreOfKnownChains ==
    \A c \in ChainId, e \in EpochIds : epochRoots[c][e] # Zero => chains[c].chainId # 0

LEMMA ChainsStayKnown ==
    ASSUME RegistryInv, [Next]_vars
    PROVE  \A d \in ChainId : chains[d].chainId # 0 => chains'[d].chainId # 0
<1> SUFFICES ASSUME NEW d \in ChainId, chains[d].chainId # 0
             PROVE  chains'[d].chainId # 0
  OBVIOUS
<1>0. chains \in [ChainId -> ChainRecord] /\ chains[d] \in ChainRecord
  BY DEF RegistryInv, RegistryType
<1>1. ASSUME NEW c \in ChainId, NEW r, chains' = [chains EXCEPT ![c] = r],
             r.chainId = chains[c].chainId \/ r.chainId # 0
      PROVE  chains'[d].chainId # 0
  <2>1. chains'[d] = IF d = c THEN r ELSE chains[d] BY <1>0, <1>1
  <2> QED BY <1>1, <2>1
<1>2. \A c \in ChainId : chains[c] \in ChainRecord BY <1>0
<1>3. ASSUME NEW sender, NEW c \in ChainId, NEW a, registerChain(sender, c, a)
      PROVE  chains'[d].chainId # 0
  <2> DEFINE r == [chainId |-> c, bridgeAdapter |-> a, latestEpochId |-> 0,
                   latestEpochRoot |-> Zero, active |-> TRUE]
  <2>1. chains' = [chains EXCEPT ![c] = r] BY <1>3 DEF registerChain
  <2>2. r.chainId # 0 BY RegistryAssumption
  <2> HIDE DEF r
  <2> QED BY <1>1, <2>1, <2>2
<1>4. ASSUME NEW sender, NEW c \in ChainId, deactivateChain(sender, c)
      PROVE  chains'[d].chainId # 0
  <2> DEFINE r == [chains[c] EXCEPT !.active = FALSE]
  <2>1. chains' = [chains EXCEPT ![c] = r] BY <1>4 DEF deactivateChain
  <2>2. r.chainId = chains[c].chainId BY <1>2 DEF ChainRecord
  <2> HIDE DEF r
  <2> QED BY <1>1, <2>1, <2>2
<1>5. ASSUME NEW sender, NEW c \in ChainId, NEW a, updateBridgeAdapter(sender, c, a)
      PROVE  chains'[d].chainId # 0
  <2> DEFINE r == [chains[c] EXCEPT !.bridgeAdapter = a]
  <2>1. chains' = [chains EXCEPT ![c] = r] BY <1>5 DEF updateBridgeAdapter
  <2>2. r.chainId = chains[c].chainId BY <1>2 DEF ChainRecord
  <2> HIDE DEF r
  <2> QED BY <1>1, <2>1, <2>2
<1>6. ASSUME NEW sender, NEW c \in ChainId, NEW e, NEW root,
             submitEpochRoot(sender, c, e, root)
      PROVE  chains'[d].chainId # 0
  <2> DEFINE r == [chains[c] EXCEPT !.latestEpochId = e, !.latestEpochRoot = root]
  <2>1. chains' = [chains EXCEPT ![c] = r] BY <1>0, <1>6 DEF submitEpochRoot
  <2>2. r.chainId = chains[c].chainId BY <1>2 DEF ChainRecord
  <2> HIDE DEF r
  <2> QED BY <1>1, <2>1, <2>2
<1>7. CASE UNCHANGED chains BY <1>7
<1> QED BY <1>3, <1>4, <1>5, <1>6, <1>7
        DEF Next, GovernanceStep, createGlobalSnapshot, reportNullifierSpent, vars

\* Every nullifier of an epoch, of two or more and as many as the depth of a
\* proof allows, can be reported once submitEpochRoot recorded the root: no
\* governance call makes the registry forget the chain, and _verifyInclusion
\* accepts the proof from the tree of any such list.
THEOREM MembersReportable ==
    ASSUME Powers(MAX_PROOF_DEPTH), NEW Leaves, EpochLists \subseteq Seq(Leaves)
    PROVE  Spec => []MembersStayReportable
<1>1. Init => RootsAreOfKnownChains BY DEF Init, RootsAreOfKnownChains
<1>2. ASSUME RegistryInv, RootsAreOfKnownChains, [Next]_vars
      PROVE  RootsAreOfKnownChains'
  <2>1. \A d \in ChainId : chains[d].chainId # 0 => chains'[d].chainId # 0
    BY <1>2, ChainsStayKnown
  <2>2. CASE UNCHANGED epochRoots
    BY <1>2, <2>1, <2>2 DEF RootsAreOfKnownChains
  <2>3. ASSUME NEW sender \in Account, NEW c \in ChainId, NEW e \in EpochIds,
               NEW r \in Roots, submitEpochRoot(sender, c, e, r)
        PROVE  RootsAreOfKnownChains'
    <3>1. TableOf(RootOrZero) BY <1>2 DEF RegistryInv, RegistryType, TableOf
    <3>2. \A d \in ChainId, f \in EpochIds :
             epochRoots'[d][f] = IF d = c /\ f = e THEN r ELSE epochRoots[d][f]
      BY <2>3, <3>1, SubmitEffect
    <3>3. chains[c].chainId # 0
      BY <1>2, <2>3
         DEF submitEpochRoot, onlyAuthorizedBridge, RegistryInv, RecordsAreListed
    <3>4. \A d \in ChainId, f \in EpochIds :
             epochRoots'[d][f] # Zero => chains[d].chainId # 0
      BY <1>2, <3>2, <3>3 DEF RootsAreOfKnownChains
    <3> QED BY <2>1, <3>4 DEF RootsAreOfKnownChains
  <2> QED
    BY <1>2, <2>2, <2>3
       DEF Next, GovernanceStep, registerChain, deactivateChain, updateBridgeAdapter,
           createGlobalSnapshot, reportNullifierSpent, rootVars, vars
<1>3. \A list \in EpochLists : MembersAreProvable(list) BY MembersVerify
<1>4. RootsAreOfKnownChains => MembersStayReportable
  BY <1>3 DEF RootsAreOfKnownChains, MembersStayReportable
<1> QED BY <1>1, <1>2, <1>4, RegistryInvariant, PTL DEF Spec

\* A root that submitEpochRoot recorded, and a report, are never changed or
\* removed: not by registerChain on a chain that was deactivated, which resets
\* the chain's record and lets its epochs start over, either.
THEOREM RecordsKept == Spec => RecordsAreFinal
<1>1. ASSUME RegistryInv, [Next]_vars
      PROVE  [\A c \in ChainId :
                /\ \A e \in EpochIds : epochRoots[c][e] # Zero =>
                                          epochRoots'[c][e] = epochRoots[c][e]
                /\ nullifierSpentGlobal[c] \subseteq nullifierSpentGlobal'[c]]_vars
  <2>0. RegistryType BY <1>1 DEF RegistryInv
  <2>00. TableOf(RootOrZero) BY <2>0 DEF RegistryType, TableOf
  <2>1. CASE UNCHANGED <<epochRoots, nullifierSpentGlobal>> BY <2>1
  <2>2. ASSUME NEW sender \in Account, NEW c \in ChainId, NEW e \in EpochIds,
               NEW r \in Roots, submitEpochRoot(sender, c, e, r)
        PROVE  \A d \in ChainId :
                 /\ \A f \in EpochIds : epochRoots[d][f] # Zero =>
                                           epochRoots'[d][f] = epochRoots[d][f]
                 /\ nullifierSpentGlobal[d] \subseteq nullifierSpentGlobal'[d]
    <3>1. epochRoots[c][e] = Zero /\ nullifierSpentGlobal' = nullifierSpentGlobal
      BY <2>2 DEF submitEpochRoot, Acceptable
    <3>2. \A d \in ChainId, f \in EpochIds :
             epochRoots'[d][f] = IF d = c /\ f = e THEN r ELSE epochRoots[d][f]
      BY <2>2, <2>00, SubmitEffect
    <3> QED BY <3>1, <3>2
  <2>3. ASSUME NEW c \in ChainId, NEW n \in Presented, NEW e \in EpochIds,
               NEW p \in Proofs,
               reportNullifierSpent(c, n, e, p.siblings, p.indices)
        PROVE  \A d \in ChainId :
                 /\ epochRoots'[d] = epochRoots[d]
                 /\ nullifierSpentGlobal[d] \subseteq nullifierSpentGlobal'[d]
    BY <2>0, <2>3, ReportEffect DEF RegistryType
  <2>4. ASSUME GovernanceStep \/ createGlobalSnapshot \/ UNCHANGED vars
        PROVE  UNCHANGED <<epochRoots, nullifierSpentGlobal>>
    BY <2>4 DEF GovernanceStep, registerChain, deactivateChain,
                updateBridgeAdapter, createGlobalSnapshot, rootVars, vars
  <2> QED BY <1>1, <2>1, <2>2, <2>3, <2>4 DEF Next
<1> QED BY <1>1, RegistryInvariant, PTL DEF Spec, RecordsAreFinal

SnapshotsAreASequence == \E Entry : snapshots \in Seq(Entry)

LEMMA AppendWidens ==
    ASSUME NEW Entry, NEW s \in Seq(Entry), NEW x
    PROVE  /\ Append(s, x) \in Seq(Entry \cup {x})
           /\ Append(s, x)[Len(Append(s, x))] = x
           /\ Append(s, x) # s
<1>1. s \in Seq(Entry \cup {x}) OBVIOUS
<1> QED BY <1>1

\* `after' of Aggregate, up to the i-th entry of registeredChainIds.
Aggregates(a, L) ==
    a = [i \in 0..L |->
          IF i = 0 THEN Zero
          ELSE IF Contributes(i)
               THEN hash(a[i - 1], chains[registeredChainIds[i]].latestEpochRoot)
               ELSE a[i - 1]]

LEMMA AggregateExists ==
    ASSUME NEW L \in Nat
    PROVE  \E a : Aggregates(a, L)
<1> DEFINE S == {l \in Nat : \E a : Aggregates(a, l)}
           Root(i) == chains[registeredChainIds[i]].latestEpochRoot
           Over(a, i) == IF i = 0 THEN Zero
                         ELSE IF Contributes(i) THEN hash(a[i - 1], Root(i)) ELSE a[i - 1]
<1>0. \A a, l : Aggregates(a, l) <=> a = [i \in 0..l |-> Over(a, i)] BY DEF Aggregates
<1>1. \A a, b : \A i \in Nat : (i = 0 \/ a[i - 1] = b[i - 1]) => Over(a, i) = Over(b, i)
  OBVIOUS
<1> HIDE DEF Over
<1>2. 0 \in S
  <2> DEFINE a == [i \in 0..0 |-> Zero]
  <2>1. \A b : Over(b, 0) = Zero BY Zenon DEF Over
  <2>2. \A i \in 0..0 : i = 0 OBVIOUS
  <2>3. a = [i \in 0..0 |-> Over(a, i)] BY <2>1, <2>2
  <2>4. Aggregates(a, 0) BY <1>0, <2>3
  <2> QED BY <2>4
<1>3. ASSUME NEW n \in Nat, n \in S PROVE n + 1 \in S
  <2>1. PICK a : Aggregates(a, n) BY <1>3
  <2>2. a = [i \in 0..n |-> Over(a, i)] BY <1>0, <2>1
  <2>3. \A i \in 0..n : a[i] = Over(a, i) BY <2>2
  <2> DEFINE d == [i \in 0..(n + 1) |-> IF i = n + 1 THEN Over(a, n + 1) ELSE a[i]]
  <2>4. \A i \in 0..n : d[i] = a[i] OBVIOUS
  <2>5. d[n + 1] = Over(a, n + 1) OBVIOUS
  <2>6. d = [i \in 0..(n + 1) |-> d[i]] OBVIOUS
  <2> HIDE DEF d
  <2>7. \A i \in 0..(n + 1) : d[i] = Over(d, i)
    <3> TAKE i \in 0..(n + 1)
    <3>1. i \in Nat /\ (i = 0 \/ i - 1 \in 0..n) OBVIOUS
    <3>2. i = 0 \/ a[i - 1] = d[i - 1] BY <2>4, <3>1
    <3>3. Over(a, i) = Over(d, i) BY <1>1, <3>1, <3>2
    <3>4. i = n + 1 \/ i \in 0..n OBVIOUS
    <3> QED BY <2>3, <2>4, <2>5, <3>3, <3>4
  <2>8. d = [i \in 0..(n + 1) |-> Over(d, i)] BY <2>6, <2>7
  <2>9. Aggregates(d, n + 1) BY <1>0, <2>8
  <2> QED BY <2>9
<1> HIDE DEF S
<1>4. L \in S BY <1>2, <1>3, InductiveSet
<1> QED BY <1>4 DEF S

\* `after' of Chained, up to the n-th chain.
Chains(w, a, n) ==
    a = [i \in 0..n |->
          IF i = 0 THEN Zero ELSE hash(a[i - 1], chains[w[i]].latestEpochRoot)]

LEMMA ChainExists ==
    ASSUME NEW w, NEW L \in Nat
    PROVE  \E a : Chains(w, a, L)
<1> DEFINE S == {l \in Nat : \E a : Chains(w, a, l)}
<1>1. 0 \in S
  <2> DEFINE a == [i \in 0..0 |-> Zero]
  <2>1. Chains(w, a, 0) BY DEF Chains
  <2> QED BY <2>1
<1>2. ASSUME NEW n \in Nat, n \in S PROVE n + 1 \in S
  <2>1. PICK a : Chains(w, a, n) BY <1>2
  <2> DEFINE last == hash(a[n], chains[w[n + 1]].latestEpochRoot)
             d == [i \in 0..(n + 1) |-> IF i = n + 1 THEN last ELSE a[i]]
  <2>2. \A i \in 0..n : a[i] =
          IF i = 0 THEN Zero ELSE hash(a[i - 1], chains[w[i]].latestEpochRoot)
    BY <2>1 DEF Chains
  <2> HIDE DEF last
  <2>3. \A i \in 0..n : d[i] = a[i] OBVIOUS
  <2>4. d[n + 1] = last OBVIOUS
  <2>5. \A i \in 0..(n + 1) : d[i] =
          IF i = 0 THEN Zero ELSE hash(d[i - 1], chains[w[i]].latestEpochRoot)
    <3> TAKE i \in 0..(n + 1)
    <3> HIDE DEF d
    <3>1. CASE i = n + 1
      <4>1. n + 1 # 0 /\ n + 1 - 1 = n /\ n \in 0..n OBVIOUS
      <4> QED BY <2>3, <2>4, <3>1, <4>1 DEF last
    <3>2. CASE i = 0
      <4>1. 0 \in 0..n OBVIOUS
      <4> QED BY <2>2, <2>3, <3>2, <4>1
    <3>3. CASE i # 0 /\ i # n + 1
      <4>1. i \in 0..n /\ i - 1 \in 0..n BY <3>3
      <4> QED BY <2>2, <2>3, <3>3, <4>1
    <3> QED BY <3>1, <3>2, <3>3
  <2>6. d = [i \in 0..(n + 1) |-> d[i]] OBVIOUS
  <2> HIDE DEF d
  <2>7. Chains(w, d, n + 1) BY <2>5, <2>6 DEF Chains
  <2> QED BY <2>7
<1> HIDE DEF S
<1>3. L \in S BY <1>1, <1>2, InductiveSet
<1> QED BY <1>3 DEF S

\* One chain more on top of the others.
LEMMA ChainedValue ==
    ASSUME NEW w, NEW n \in Nat
    PROVE  \E a : /\ Chained(w, n) = a[n] /\ a[0] = Zero
                  /\ \A i \in 1..n : a[i] = hash(a[i - 1], chains[w[i]].latestEpochRoot)
<1> DEFINE a == CHOOSE a : Chains(w, a, n)
<1>1. Chained(w, n) = a[n] BY DEF Chained, Chains
<1>2. Chains(w, a, n) BY ChainExists
<1> HIDE DEF a
<1>3. \A i \in 0..n : a[i] =
        IF i = 0 THEN Zero ELSE hash(a[i - 1], chains[w[i]].latestEpochRoot)
  BY <1>2 DEF Chains
<1>4. 0 \in 0..n /\ \A i \in 1..n : i \in 0..n /\ i # 0 OBVIOUS
<1>5. a[0] = Zero BY <1>3, <1>4
<1>6. \A i \in 1..n : a[i] = hash(a[i - 1], chains[w[i]].latestEpochRoot)
  BY <1>3, <1>4
<1> QED BY <1>1, <1>5, <1>6

ClimbsChains(w, b, n) ==
    b[0] = Zero /\ \A i \in 1..n : b[i] = hash(b[i - 1], chains[w[i]].latestEpochRoot)

SameChains(v, w, n) == \A i \in 1..n : v[i] = w[i]

LEMMA ChainedAgrees ==
    ASSUME NEW v, NEW w, NEW n \in Nat, SameChains(v, w, n), NEW b, ClimbsChains(w, b, n)
    PROVE  Chained(v, n) = b[n]
<1>1. PICK a : /\ Chained(v, n) = a[n] /\ a[0] = Zero
               /\ \A i \in 1..n : a[i] = hash(a[i - 1], chains[v[i]].latestEpochRoot)
  BY ChainedValue
<1> DEFINE S == {i \in Nat : i <= n => a[i] = b[i]}
<1>2. 0 \in S BY <1>1 DEF ClimbsChains
<1>3. ASSUME NEW i \in Nat, i \in S PROVE i + 1 \in S
  <2> SUFFICES ASSUME i + 1 <= n PROVE a[i + 1] = b[i + 1]
    OBVIOUS
  <2>1. i + 1 \in 1..n /\ (i + 1) - 1 = i /\ i <= n OBVIOUS
  <2>2. a[i + 1] = hash(a[i], chains[v[i + 1]].latestEpochRoot) BY <1>1, <2>1
  <2>3. b[i + 1] = hash(b[i], chains[w[i + 1]].latestEpochRoot) BY <2>1 DEF ClimbsChains
  <2>4. a[i] = b[i] /\ v[i + 1] = w[i + 1] BY <1>3, <2>1 DEF SameChains
  <2> QED BY <2>2, <2>3, <2>4
<1> HIDE DEF S
<1>4. n \in S BY <1>2, <1>3, InductiveSet
<1>5. n <= n OBVIOUS
<1> QED BY <1>1, <1>4, <1>5 DEF S

LEMMA ChainedOnTop ==
    ASSUME NEW w, NEW n \in Nat, NEW v, \A i \in 1..n : v[i] = w[i]
    PROVE  /\ Chained(v, 0) = Zero
           /\ Chained(w, n + 1) = hash(Chained(v, n), chains[w[n + 1]].latestEpochRoot)
<1>1. PICK b : /\ Chained(w, n + 1) = b[n + 1] /\ b[0] = Zero
               /\ \A i \in 1..(n + 1) :
                     b[i] = hash(b[i - 1], chains[w[i]].latestEpochRoot)
  BY ChainedValue
<1>2. n + 1 \in Nat /\ n <= n + 1 /\ n + 1 \in 1..(n + 1) /\ (n + 1) - 1 = n OBVIOUS
<1>3. Chained(v, n) = b[n]
  <2>1. \A i \in 1..n : i \in 1..(n + 1) OBVIOUS
  <2>2. ClimbsChains(w, b, n) BY <1>1, <2>1 DEF ClimbsChains
  <2>3. SameChains(v, w, n) BY DEF SameChains
  <2> QED BY <2>2, <2>3, ChainedAgrees
<1>4. b[n + 1] = hash(b[n], chains[w[n + 1]].latestEpochRoot) BY <1>1, <1>2
<1>5. Chained(v, 0) = Zero
  <2>1. 0 \in Nat OBVIOUS
  <2> QED BY <2>1, ChainedValue
<1> QED BY <1>1, <1>3, <1>4, <1>5

\* What the loop of createGlobalSnapshot has aggregated after i entries: the roots
\* of the chains of the entries that contribute, w listing them by the entries o.
Aggregated(i, value, n, w, o) ==
    /\ n = Cardinality({j \in 1..i : Contributes(j)})
    /\ value = Chained(w, n)
    /\ o \in [1..n -> {j \in 1..i : Contributes(j)}]
    /\ \A k \in 1..n : w[k] = registeredChainIds[o[k]]
    /\ \A k, l \in 1..n : o[k] = o[l] => k = l
    /\ \A j \in 1..i : Contributes(j) => \E k \in 1..n : o[k] = j

LEMMA LoopAggregates ==
    ASSUME NEW L \in Nat, L = Len(registeredChainIds)
    PROVE  \E n \in Nat : \E w, o :
              w = [k \in 1..n |-> registeredChainIds[o[k]]]
              /\ Aggregated(L, Aggregate, n, w, o)
<1> DEFINE a == CHOOSE a : Aggregates(a, L)
           Chains_(n, o) == [k \in 1..n |-> registeredChainIds[o[k]]]
           Good(i) == \E n \in Nat : \E o : Aggregated(i, a[i], n, Chains_(n, o), o)
           S == {i \in Nat : i <= L => Good(i)}
<1>1. Aggregate = a[L] BY DEF Aggregate, Aggregates
<1>2. Aggregates(a, L) BY AggregateExists
<1> HIDE DEF a
<1>3. \A i \in 0..L : a[i] =
          IF i = 0 THEN Zero
          ELSE IF Contributes(i)
               THEN hash(a[i - 1], chains[registeredChainIds[i]].latestEpochRoot)
               ELSE a[i - 1]
  BY <1>2 DEF Aggregates
<1>4. 0 \in S
  <2> DEFINE o == [k \in 1..0 |-> 0]  none == {j \in 1..0 : Contributes(j)}
  <2>1. 0 \in 0..L OBVIOUS
  <2>2. a[0] = Zero BY <1>3, <2>1
  <2>3. none = {} OBVIOUS
  <2>4. Cardinality(none) = 0 BY <2>3, FS_EmptySet
  <2>5. Chained(Chains_(0, o), 0) = Zero
    <3>1. \A i \in 1..0 : FALSE OBVIOUS
    <3>2. 0 \in Nat OBVIOUS
    <3> QED BY <3>1, <3>2, ChainedOnTop
  <2>6. Aggregated(0, a[0], 0, Chains_(0, o), o)
    <3>1. \A i \in 1..0 : FALSE OBVIOUS
    <3>2. o \in [1..0 -> none] BY <3>1
    <3> HIDE DEF o, Chains_
    <3> QED BY <2>2, <2>4, <2>5, <3>1, <3>2 DEF Aggregated
  <2> QED BY <2>6
<1>5. ASSUME NEW i \in Nat, i \in S PROVE i + 1 \in S
  <2> HIDE DEF Good
  <2> SUFFICES ASSUME i + 1 <= L PROVE Good(i + 1)
    OBVIOUS
  <2>1. i + 1 \in 0..L /\ i + 1 # 0 /\ (i + 1) - 1 = i /\ i <= L OBVIOUS
  <2>1a. Good(i) BY <1>5, <2>1
  <2> USE DEF Good
  <2> HIDE DEF Chains_
  <2>2. PICK n \in Nat : \E o : Aggregated(i, a[i], n, Chains_(n, o), o) BY <2>1a
  <2>3. PICK o : Aggregated(i, a[i], n, Chains_(n, o), o) BY <2>2
  <2> USE DEF Chains_
  <2> DEFINE old == {j \in 1..i : Contributes(j)}
             new == {j \in 1..(i + 1) : Contributes(j)}
  <2>4. /\ n = Cardinality(old) /\ a[i] = Chained(Chains_(n, o), n)
        /\ o \in [1..n -> old]
        /\ \A k, l \in 1..n : o[k] = o[l] => k = l
        /\ \A j \in 1..i : Contributes(j) => \E k \in 1..n : o[k] = j
    BY <2>3 DEF Aggregated
  <2>5. \A j \in 1..(i + 1) : j \in 1..i \/ j = i + 1 OBVIOUS
  <2>6. old \subseteq 1..i /\ i + 1 \notin old OBVIOUS
  <2>7. CASE ~ Contributes(i + 1)
    <3>1. new = old BY <2>5, <2>7
    <3>2. a[i + 1] = a[i] BY <1>3, <2>1, <2>7
    <3>3. \A j \in 1..(i + 1) : Contributes(j) => \E k \in 1..n : o[k] = j
      BY <2>4, <2>5, <2>7
    <3>4. \A k \in 1..n : Chains_(n, o)[k] = registeredChainIds[o[k]] OBVIOUS
    <3> HIDE DEF Chains_
    <3>5. Aggregated(i + 1, a[i + 1], n, Chains_(n, o), o)
      BY <2>4, <3>1, <3>2, <3>3, <3>4 DEF Aggregated
    <3> QED BY <3>5
  <2>8. CASE Contributes(i + 1)
    <3> DEFINE p == [k \in 1..(n + 1) |-> IF k = n + 1 THEN i + 1 ELSE o[k]]
    <3>1. new = old \cup {i + 1} BY <2>5, <2>8
    <3>2. Cardinality(new) = n + 1
      <4>0. IsFiniteSet(1..i)
        <5>1. 1 \in Int /\ i \in Int OBVIOUS
        <5> QED BY <5>1, FS_Interval
      <4>1. IsFiniteSet(old) BY <2>6, <4>0, FS_Subset
      <4> HIDE DEF old, new
      <4> QED BY <2>4, <2>6, <3>1, <4>1, FS_AddElement
    <3>3. a[i + 1] = hash(a[i], chains[registeredChainIds[i + 1]].latestEpochRoot)
      BY <1>3, <2>1, <2>8
    <3>4. /\ \A k \in 1..n : k \in 1..(n + 1) /\ k # n + 1 /\ p[k] = o[k]
          /\ n + 1 \in 1..(n + 1) /\ p[n + 1] = i + 1
          /\ \A k \in 1..(n + 1) : k = n + 1 \/ k \in 1..n
      OBVIOUS
    <3>5. p \in [1..(n + 1) -> new]
      <4>1. \A k \in 1..(n + 1) : p[k] \in new BY <2>4, <3>1, <3>4
      <4>2. p = [k \in 1..(n + 1) |-> p[k]] OBVIOUS
      <4> HIDE DEF p, new
      <4> QED BY <4>1, <4>2
    <3> HIDE DEF p
    <3>6. \A k, l \in 1..(n + 1) : p[k] = p[l] => k = l
      <4> TAKE k, l \in 1..(n + 1)
      <4>1. \A m \in 1..n : o[m] # i + 1 BY <2>4, <2>6
      <4> HIDE DEF old, new
      <4> QED BY <2>4, <3>4, <4>1
    <3>7. \A j \in 1..(i + 1) : Contributes(j) => \E k \in 1..(n + 1) : p[k] = j
      BY <2>4, <2>5, <3>4
    <3>8. \A k \in 1..n : Chains_(n, o)[k] = Chains_(n + 1, p)[k] BY <3>4
    <3>9. /\ Chains_(n + 1, p)[n + 1] = registeredChainIds[i + 1]
          /\ \A k \in 1..(n + 1) : Chains_(n + 1, p)[k] = registeredChainIds[p[k]]
      BY <3>4
    <3> HIDE DEF Chains_
    <3>10. a[i + 1] = Chained(Chains_(n + 1, p), n + 1)
      <4>1. PICK v : v = Chains_(n, o) OBVIOUS
      <4>2. PICK w : w = Chains_(n + 1, p) OBVIOUS
      <4>3. \A k \in 1..n : v[k] = w[k] BY <3>8, <4>1, <4>2
      <4>4. Chained(w, n + 1) = hash(Chained(v, n), chains[w[n + 1]].latestEpochRoot)
        BY <4>3, ChainedOnTop
      <4> QED BY <2>4, <3>3, <3>9, <4>1, <4>2, <4>4
    <3>11. Aggregated(i + 1, a[i + 1], n + 1, Chains_(n + 1, p), p)
      BY <3>2, <3>5, <3>6, <3>7, <3>9, <3>10 DEF Aggregated
    <3>12. n + 1 \in Nat OBVIOUS
    <3> QED BY <3>11, <3>12
  <2> QED BY <2>7, <2>8
<1> HIDE DEF S
<1>6. Good(L)
  <2>1. L \in S BY <1>4, <1>5, InductiveSet
  <2> HIDE DEF Good
  <2> QED BY <2>1 DEF S
<1> QED BY <1>1, <1>6

\* createGlobalSnapshot (UniversalNullifierRegistry.sol) aggregates the latest
\* root of each active chain that has one, and of no other: the aggregated root
\* is the chain of hashes over the latest roots of as many active chains as it
\* counts, among them each one, and each exactly once as long as registerChain
\* has listed no chain twice.
THEOREM SnapshotsComplete == Spec => SnapshotsCoverActiveChains
<1> DEFINE Distinct == \A i, j \in 1..Len(registeredChainIds) :
                          registeredChainIds[i] = registeredChainIds[j] => i = j
           CoversOnce(new, w) ==
             /\ new.aggregatedRoot = Chained(w, new.chainCount)
             /\ globalRoot' = new.aggregatedRoot
             /\ \A c \in ActiveChains : \E i \in 1..new.chainCount : w[i] = c
             /\ Distinct => \A i, j \in 1..new.chainCount : w[i] = w[j] => i = j
           Covers ==
             snapshots' # snapshots =>
                LET new == snapshots'[Len(snapshots')]
                IN  \E w \in [1..new.chainCount -> ActiveChains] : CoversOnce(new, w)
<1>1. Init => SnapshotsAreASequence
  <2>1. << >> \in Seq({}) OBVIOUS
  <2> QED BY <2>1 DEF Init, SnapshotsAreASequence
<1>2. ASSUME SnapshotsAreASequence, [Next]_vars PROVE SnapshotsAreASequence'
  <2>1. PICK Entry : snapshots \in Seq(Entry) BY <1>2 DEF SnapshotsAreASequence
  <2>2. CASE createGlobalSnapshot
    <3>1. PICK x : snapshots' = Append(snapshots, x)
      BY <2>2 DEF createGlobalSnapshot
    <3>2. snapshots' \in Seq(Entry \cup {x}) BY <2>1, <3>1, AppendWidens
    <3> QED BY <3>2 DEF SnapshotsAreASequence
  <2>3. CASE snapshots' = snapshots BY <2>1, <2>3 DEF SnapshotsAreASequence
  <2> QED
    BY <1>2, <2>2, <2>3
       DEF Next, GovernanceStep, registerChain, deactivateChain, submitEpochRoot,
           updateBridgeAdapter, reportNullifierSpent, snapshotVars, vars
<1>3. ASSUME RegistryInv, SnapshotsAreASequence, createGlobalSnapshot
      PROVE  Covers
  <2> DEFINE L == Len(registeredChainIds)
             entries == {i \in 1..L : Contributes(i)}
             count == Cardinality(entries)
             x == [snapshotId |-> Len(snapshots), aggregatedRoot |-> Aggregate,
                   chainCount |-> count]
  <2>1. /\ snapshots' = Append(snapshots, x) /\ globalRoot' = Aggregate
        /\ x.chainCount = count /\ x.aggregatedRoot = Aggregate
    BY <1>3 DEF createGlobalSnapshot
  <2>2. L \in Nat /\ \A i \in 1..L : registeredChainIds[i] \in ChainId
    BY <1>3 DEF RegistryInv, RegistryType
  <2>3. PICK n \in Nat : \E w, o : w = [k \in 1..n |-> registeredChainIds[o[k]]]
                                 /\ Aggregated(L, Aggregate, n, w, o)
    BY <2>2, LoopAggregates
  <2>4. PICK w, o : /\ w = [k \in 1..n |-> registeredChainIds[o[k]]]
                    /\ Aggregated(L, Aggregate, n, w, o)
    BY <2>3
  <2>5. /\ n = count /\ Aggregate = Chained(w, n)
        /\ o \in [1..n -> entries]
        /\ \A k \in 1..n : w[k] = registeredChainIds[o[k]]
        /\ \A k, l \in 1..n : o[k] = o[l] => k = l
        /\ \A j \in 1..L : Contributes(j) => \E k \in 1..n : o[k] = j
    BY <2>4 DEF Aggregated
  <2>6. \A k \in 1..n : o[k] \in 1..L /\ Contributes(o[k]) BY <2>5
  <2>7. ASSUME NEW k \in 1..n PROVE w[k] \in ActiveChains
    <3>1. PICK j \in 1..L : j = o[k] /\ Contributes(j) BY <2>6
    <3>2. w[k] = registeredChainIds[j] BY <2>5, <3>1
    <3>3. w[k] \in ChainId BY <2>2, <3>2
    <3> QED BY <3>1, <3>2, <3>3 DEF ActiveChains, Contributes
  <2>8. w \in [1..n -> ActiveChains] BY <2>4, <2>7
  <2>9. ASSUME NEW c \in ActiveChains PROVE \E k \in 1..n : w[k] = c
    <3>1. c \in ChainId /\ chains[c].active /\ chains[c].latestEpochRoot # Zero
      BY DEF ActiveChains
    <3>2. IsListed(c) BY <1>3, <3>1 DEF RegistryInv, RecordsAreListed
    <3>3. PICK i \in 1..L : registeredChainIds[i] = c BY <3>2 DEF IsListed
    <3>4. Contributes(i) BY <3>1, <3>3 DEF Contributes
    <3>5. \A j \in 1..L : Contributes(j) => \E k \in 1..n : o[k] = j BY <2>5, Zenon
    <3>6. \A k \in 1..n : w[k] = registeredChainIds[o[k]] BY <2>5, Zenon
    <3>7. PICK k \in 1..n : o[k] = i BY <3>4, <3>5, Zenon
    <3> QED BY <3>3, <3>6, <3>7, Zenon
  <2>10. Distinct => \A k, l \in 1..n : w[k] = w[l] => k = l
    <3> SUFFICES ASSUME Distinct, NEW k \in 1..n, NEW l \in 1..n, w[k] = w[l] PROVE k = l
      OBVIOUS
    <3>1. registeredChainIds[o[k]] = registeredChainIds[o[l]] BY <2>5
    <3>2. o[k] = o[l] BY <2>6, <3>1
    <3> QED BY <2>5, <3>2
  <2> HIDE DEF x, Distinct, count, entries
  <2>11. snapshots'[Len(snapshots')] = x
    BY <1>3, <2>1, AppendWidens DEF SnapshotsAreASequence
  <2>12. CoversOnce(x, w) /\ w \in [1..x.chainCount -> ActiveChains]
    BY <2>1, <2>5, <2>8, <2>9, <2>10
  <2> HIDE DEF CoversOnce
  <2> QED BY <2>11, <2>12
<1>4. ASSUME [Next]_vars, ~ createGlobalSnapshot PROVE snapshots' = snapshots
  BY <1>4 DEF Next, GovernanceStep, registerChain, deactivateChain, submitEpochRoot,
              updateBridgeAdapter, reportNullifierSpent, snapshotVars, vars
<1>5. ASSUME RegistryInv, SnapshotsAreASequence, [Next]_vars PROVE [Covers]_vars
  <2>1. CASE createGlobalSnapshot BY <1>3, <1>5, <2>1
  <2>2. CASE ~ createGlobalSnapshot BY <1>4, <1>5, <2>2
  <2> QED BY <2>1, <2>2
<1>6. SnapshotsCoverActiveChains <=> [][Covers]_vars
  BY DEF SnapshotsCoverActiveChains
<1> HIDE DEF Covers
<1> QED BY <1>1, <1>2, <1>5, <1>6, RegistryInvariant, PTL DEF Spec

-----------------------------------------------------------------------------
\* The whole system.  Both epoch managers compute roots as EpochRoot does.
LEMMA SourceRoot ==
    ASSUME NEW list
    PROVE  Source!_computeNullifierRoot(list) = _computeNullifierRoot(list)
BY DEF _computeNullifierRoot, _nextPowerOfTwo, ReduceInPlace, hash,
       Source!_computeNullifierRoot, Source!_nextPowerOfTwo,
       Source!ReduceInPlace, Source!hash

ListRoots == {_computeNullifierRoot(list) : list \in Seq(Nullifier)}

EpochEntry == [startTime : Nat, endTime : Nat, nullifierRoot : ListRoots,
               nullifierCount : Nat, finalized : BOOLEAN]

SourceType ==
    /\ currentEpochId \in EpochIds
    /\ epochs \in [EpochIds -> EpochEntry]
    /\ _epochNullifiers \in [EpochIds -> Seq(Nullifier)]
    /\ localNullifiers \in SUBSET Nullifier
    /\ now \in Nat

SyncType ==
    /\ SourceType
    /\ epochRoots \in [ChainId -> [EpochIds -> ListRoots]]
    /\ nullifierSpentGlobal \in [ChainId -> SUBSET Presented]
    /\ peerRoots \in [{SourceChain} \X EpochIds ->
                        [nullifierRoot : ListRoots, receivedAt : Nat]]
    /\ finalizedEvents \in SUBSET [epochId : EpochIds, nullifierRoot : ListRoots,
                                   nullifierCount : Nat]

LEMMA ZeroIsARoot == Zero \in ListRoots
<1>1. << >> \in Seq(Nullifier) /\ Len(<< >>) = 0 OBVIOUS
<1>2. _computeNullifierRoot(<< >>) = Zero BY <1>1 DEF _computeNullifierRoot
<1> QED BY <1>1, <1>2 DEF ListRoots

\* What an action of the source chain leaves of the epochs that are final.
FinalStay ==
    \A e \in EpochIds :
        epochs[e].finalized =>
            epochs'[e].finalized /\ epochs'[e].nullifierRoot = epochs[e].nullifierRoot

LEMMA FinalizedEntry ==
    ASSUME SourceType, NEW e \in EpochIds
    PROVE  /\ Source!Finalized(e) \in EpochEntry
           /\ Source!Finalized(e).finalized
           /\ Source!Finalized(e).nullifierRoot =
                 _computeNullifierRoot(_epochNullifiers[e])
<1> DEFINE root == _computeNullifierRoot(_epochNullifiers[e])
<1>1. Source!Finalized(e) = [epochs[e] EXCEPT !.nullifierRoot = root,
                                !.endTime = now, !.finalized = TRUE]
  BY SourceRoot DEF Source!Finalized
<1>2. epochs[e] \in EpochEntry /\ _epochNullifiers[e] \in Seq(Nullifier)
      /\ now \in Nat
  BY DEF SourceType
<1>3. root \in ListRoots BY <1>2 DEF ListRoots
<1> HIDE DEF root
<1> QED BY <1>1, <1>2, <1>3 DEF EpochEntry, root

LEMMA NewEntry ==
    ASSUME SourceType
    PROVE  Source!NewEpoch \in EpochEntry /\ ~ Source!NewEpoch.finalized
BY ZeroIsARoot, SyncAssumption DEF Source!NewEpoch, EpochEntry, SourceType

\* The source chain's steps, as the rest of the system sees them.
LEMMA EndEffect ==
    ASSUME SourceType, \A e \in EpochIds : e > currentEpochId => ~ epochs[e].finalized,
           Source!finalizeEpoch \/ Source!startNewEpoch
    PROVE  /\ SourceType'
           /\ FinalStay
           /\ \A e \in EpochIds : e > currentEpochId' => ~ epochs'[e].finalized
           /\ \A e \in EpochIds :
                 epochs'[e].finalized /\ ~ epochs[e].finalized =>
                    epochs'[e].nullifierRoot = _computeNullifierRoot(_epochNullifiers[e])
           /\ UNCHANGED <<_epochNullifiers, localNullifiers, now>>
<1> DEFINE E == currentEpochId
<1>1. E \in EpochIds /\ EpochIds \subseteq Nat /\ \A e \in EpochIds : epochs[e] \in EpochEntry
  BY RegistryAssumption DEF SourceType, EpochIds
<1>2. \A e \in EpochIds :
        /\ Source!Finalized(e) \in EpochEntry
        /\ Source!Finalized(e).finalized
        /\ Source!Finalized(e).nullifierRoot = _computeNullifierRoot(_epochNullifiers[e])
  BY FinalizedEntry
<1>3. CASE Source!finalizeEpoch
  <2>1. /\ ~ epochs[E].finalized
        /\ epochs' = [epochs EXCEPT ![E] = Source!Finalized(E)]
        /\ UNCHANGED <<currentEpochId, _epochNullifiers, localNullifiers, now>>
    BY <1>3 DEF Source!finalizeEpoch, Source!_finalizeEpochInternal
  <2>2. SourceType' BY <1>1, <1>2, <2>1 DEF SourceType
  <2>3. \A e \in EpochIds : epochs'[e] = IF e = E THEN Source!Finalized(E) ELSE epochs[e]
    BY <1>1, <2>1 DEF SourceType
  <2>4. FinalStay BY <2>1, <2>3 DEF FinalStay
  <2>5. \A e \in EpochIds : e > currentEpochId' => ~ epochs'[e].finalized
    BY <1>1, <2>1, <2>3
  <2> QED BY <1>1, <1>2, <2>1, <2>2, <2>3, <2>4, <2>5
<1>4. CASE Source!startNewEpoch
  <2> DEFINE last == IF epochs[E].finalized THEN epochs[E] ELSE Source!Finalized(E)
  <2>1. /\ E < MaxEpoch
        /\ epochs' = [[epochs EXCEPT ![E] = last] EXCEPT ![E + 1] = Source!NewEpoch]
        /\ currentEpochId' = E + 1
        /\ UNCHANGED <<_epochNullifiers, localNullifiers, now>>
    BY <1>4 DEF Source!startNewEpoch, SourceType
  <2>2. E + 1 \in EpochIds /\ E + 1 # E
    BY <1>1, <2>1, RegistryAssumption DEF EpochIds
  <2>3. last \in EpochEntry /\ last.finalized BY <1>1, <1>2
  <2>4. last = epochs[E] \/ (~ epochs[E].finalized /\ last = Source!Finalized(E))
    OBVIOUS
  <2> HIDE DEF last
  <2>5. SourceType' BY <2>1, <2>2, <2>3, NewEntry DEF SourceType
  <2>6. \A e \in EpochIds : epochs'[e] = IF e = E + 1 THEN Source!NewEpoch
                                         ELSE IF e = E THEN last ELSE epochs[e]
    BY <2>1, <2>2 DEF SourceType
  <2>7. ~ epochs[E + 1].finalized BY <1>1, <2>2
  <2>8. FinalStay BY <2>3, <2>4, <2>6, <2>7 DEF FinalStay
  <2>9. \A e \in EpochIds : e > currentEpochId' => ~ epochs'[e].finalized
    <3>1. \A e \in EpochIds : e > E + 1 => e > E /\ e # E + 1 /\ e # E BY <1>1
    <3> QED BY <2>1, <2>6, <3>1
  <2>10. \A e \in EpochIds :
            epochs'[e].finalized /\ ~ epochs[e].finalized =>
               epochs'[e].nullifierRoot = _computeNullifierRoot(_epochNullifiers[e])
    BY <1>1, <1>2, <2>4, <2>6, NewEntry
  <2> QED BY <2>1, <2>5, <2>8, <2>9, <2>10
<1> QED BY <1>3, <1>4

\* A list stays as it is or gets one more element, if there is room.
ListGrows(list, new, n) ==
    new = list \/ (Len(list) < MaxNullifiers /\ new = Append(list, n))

LEMMA ListPrefixesStay ==
    ASSUME NEW list \in Seq(Nullifier), NEW n \in Nullifier, NEW new,
           ListGrows(list, new, n), Len(list) <= MaxNullifiers
    PROVE  /\ new \in Seq(Nullifier) /\ Len(new) <= MaxNullifiers
           /\ \A k \in 0..Len(list) :
                 k \in 0..Len(new) /\ SubSeq(new, 1, k) = SubSeq(list, 1, k)
           /\ \A i \in 1..Len(new) :
                 \/ new[i] = n
                 \/ i \in 1..Len(list) /\ new[i] = list[i]
<1>1. CASE new = list
  <2>1. Len(list) \in Nat OBVIOUS
  <2>2. \A k \in 0..Len(list) : SubSeq(new, 1, k) = SubSeq(list, 1, k)
    BY <1>1, Zenon
  <2>3. \A i \in 1..Len(new) : i \in 1..Len(list) /\ new[i] = list[i] BY <1>1, Zenon
  <2> QED BY <1>1, <2>2, <2>3, Zenon
<1>2. CASE Len(list) < MaxNullifiers /\ new = Append(list, n)
  <2>1. \A k \in 0..Len(list) : SubSeq(Append(list, n), 1, k) = SubSeq(list, 1, k)
    OBVIOUS
  <2>2. Len(new) = Len(list) + 1 BY <1>2
  <2> QED BY <1>2, <2>1, <2>2, SyncAssumption
<1> QED BY <1>1, <1>2 DEF ListGrows

LEMMA PrefixOfList ==
    ASSUME NEW Value, NEW list \in Seq(Value), NEW k \in 0..Len(list)
    PROVE  SubSeq(list, 1, k) \in Seq(Value) /\ Len(SubSeq(list, 1, k)) = k
OBVIOUS

LEMMA SpendEffect ==
    ASSUME SourceType, NEW n \in Nullifier, Source!registerNullifier(Pool, n)
    PROVE  /\ SourceType'
           /\ \A e \in EpochIds :
                 /\ epochs'[e].finalized = epochs[e].finalized
                 /\ epochs'[e].nullifierRoot = epochs[e].nullifierRoot
           /\ \A e \in EpochIds : ListGrows(_epochNullifiers[e], _epochNullifiers'[e], n)
           /\ localNullifiers' = localNullifiers \cup {n}
           /\ currentEpochId' = currentEpochId
<1> DEFINE E == currentEpochId
           entry == [epochs[E] EXCEPT !.nullifierCount = @ + 1]
           list == Append(_epochNullifiers[E], n)
<1>1. /\ epochs' = [epochs EXCEPT ![E] = entry]
      /\ _epochNullifiers' = [_epochNullifiers EXCEPT ![E] = list]
      /\ localNullifiers' = localNullifiers \cup {n}
      /\ UNCHANGED <<currentEpochId, now>>
  BY DEF Source!registerNullifier, SourceType
<1>2. E \in EpochIds /\ epochs[E] \in EpochEntry /\ _epochNullifiers[E] \in Seq(Nullifier)
  BY DEF SourceType
<1>3. /\ entry \in EpochEntry
      /\ entry.finalized = epochs[E].finalized
      /\ entry.nullifierRoot = epochs[E].nullifierRoot
  BY <1>2 DEF EpochEntry
<1>4. list \in Seq(Nullifier) /\ ListGrows(_epochNullifiers[E], list, n)
  BY <1>2 DEF ListGrows, Source!registerNullifier
<1> HIDE DEF entry, list
<1>5. SourceType' BY <1>1, <1>3, <1>4 DEF SourceType
<1>6. \A e \in EpochIds :
        /\ epochs'[e] = IF e = E THEN entry ELSE epochs[e]
        /\ _epochNullifiers'[e] = IF e = E THEN list ELSE _epochNullifiers[e]
  BY <1>1 DEF SourceType
<1> QED BY <1>1, <1>3, <1>4, <1>5, <1>6 DEF ListGrows


\* The roots of the source chain are those of prefixes of its lists, which hold
\* spent nullifiers only, and what is on its way to another chain, or arrived
\* there, is the root of a final epoch.
OpenAhead == \A e \in EpochIds : e > currentEpochId => ~ epochs[e].finalized

ListsAreSpent ==
    \A e \in EpochIds : \A i \in 1..Len(_epochNullifiers[e]) :
        _epochNullifiers[e][i] \in localNullifiers

ListsFit == \A e \in EpochIds : Len(_epochNullifiers[e]) <= MaxNullifiers

IsPrefixRoot(root, list) ==
    \E k \in 0..Len(list) : root = _computeNullifierRoot(SubSeq(list, 1, k))

RootsArePrefixes ==
    \A e \in EpochIds : epochs[e].finalized =>
        IsPrefixRoot(epochs[e].nullifierRoot, _epochNullifiers[e])

IsFinalRoot(e, root) == epochs[e].finalized /\ epochs[e].nullifierRoot = root

EventsAreFinal ==
    \A event \in finalizedEvents : IsFinalRoot(event.epochId, event.nullifierRoot)

CopiesAreFinal ==
    \A e \in EpochIds :
        /\ epochRoots[SourceChain][e] # Zero =>
               IsFinalRoot(e, epochRoots[SourceChain][e])
        /\ peerRoots[<<SourceChain, e>>].nullifierRoot # Zero =>
               IsFinalRoot(e, peerRoots[<<SourceChain, e>>].nullifierRoot)

SyncInv == /\ SyncType
           /\ OpenAhead
           /\ ListsAreSpent
           /\ ListsFit
           /\ RootsArePrefixes
           /\ EventsAreFinal
           /\ CopiesAreFinal

LEMMA SyncStart == SyncInit => SyncInv
<1> SUFFICES ASSUME SyncInit PROVE SyncInv
  OBVIOUS
<1>1. /\ currentEpochId = 0 /\ now = 0
      /\ epochs = [e \in EpochIds |-> IF e = 0 THEN Source!NewEpoch ELSE Source!NoEpoch]
      /\ _epochNullifiers = [e \in EpochIds |-> << >>]
      /\ localNullifiers = {}
  BY DEF SyncInit, Source!Init, Source!EpochIds, EpochIds
<1>2. /\ epochRoots = [c \in ChainId |-> [e \in EpochIds |-> Zero]]
      /\ nullifierSpentGlobal = [c \in ChainId |-> {}]
  BY DEF SyncInit, Init
<1>3. /\ peerRoots = [key \in {SourceChain} \X EpochIds |->
                        [nullifierRoot |-> Zero, receivedAt |-> 0]]
      /\ finalizedEvents = {}
  BY DEF SyncInit, Peer!NoRemoteRoot
<1>4. 0 \in EpochIds BY RegistryAssumption DEF EpochIds
<1>5. /\ Source!NoEpoch \in EpochEntry /\ ~ Source!NoEpoch.finalized
      /\ Source!NewEpoch \in EpochEntry /\ ~ Source!NewEpoch.finalized
  BY <1>1, ZeroIsARoot, SyncAssumption DEF Source!NewEpoch, Source!NoEpoch, EpochEntry
<1>6. SyncType
  BY <1>1, <1>2, <1>3, <1>4, <1>5, ZeroIsARoot DEF SyncType, SourceType
<1>7. \A e \in EpochIds : ~ epochs[e].finalized BY <1>1, <1>5
<1>8. CopiesAreFinal
  <2>1. \A e \in EpochIds : epochRoots[SourceChain][e] = Zero
    BY <1>2, SyncAssumption
  <2>2. \A e \in EpochIds : <<SourceChain, e>> \in {SourceChain} \X EpochIds
    OBVIOUS
  <2>3. \A e \in EpochIds : peerRoots[<<SourceChain, e>>].nullifierRoot = Zero
    BY <1>3, <2>2
  <2> QED BY <2>1, <2>3 DEF CopiesAreFinal
<1>9. \A e \in EpochIds : Len(_epochNullifiers[e]) = 0 BY <1>1
<1> QED BY <1>1, <1>3, <1>6, <1>7, <1>8, <1>9, SyncAssumption
       DEF SyncInv, OpenAhead, ListsAreSpent, ListsFit, RootsArePrefixes, EventsAreFinal

\* Steps that keep what is final, and let the set of spent nullifiers grow.
LEMMA FinalKept ==
    ASSUME FinalStay, NEW e \in EpochIds, NEW root, IsFinalRoot(e, root)
    PROVE  IsFinalRoot(e, root)'
BY DEF FinalStay, IsFinalRoot

LEMMA CopiesKept ==
    ASSUME CopiesAreFinal, FinalStay, UNCHANGED <<epochRoots, peerRoots>>
    PROVE  CopiesAreFinal'
<1> SUFFICES ASSUME NEW e \in EpochIds
             PROVE  /\ epochRoots'[SourceChain][e] # Zero =>
                          IsFinalRoot(e, epochRoots[SourceChain][e])'
                    /\ peerRoots'[<<SourceChain, e>>].nullifierRoot # Zero =>
                          IsFinalRoot(e, peerRoots[<<SourceChain, e>>].nullifierRoot)'
  BY Zenon DEF CopiesAreFinal
<1> QED BY DEF CopiesAreFinal, FinalStay, IsFinalRoot

LEMMA SpendKeeps ==
    ASSUME SyncInv, NEW n \in Nullifier, Spend(n)
    PROVE  SyncInv'
<1> USE DEF SyncInv
<1>0. SourceType BY DEF SyncType
<1>1. /\ Source!registerNullifier(Pool, n)
      /\ UNCHANGED <<epochRoots, nullifierSpentGlobal, peerRoots, finalizedEvents>>
  BY DEF Spend, vars, rootVars
<1>2. /\ SourceType'
      /\ \A e \in EpochIds :
            /\ epochs'[e].finalized = epochs[e].finalized
            /\ epochs'[e].nullifierRoot = epochs[e].nullifierRoot
      /\ \A e \in EpochIds : ListGrows(_epochNullifiers[e], _epochNullifiers'[e], n)
      /\ localNullifiers' = localNullifiers \cup {n}
      /\ currentEpochId' = currentEpochId
  BY <1>0, <1>1, SpendEffect
<1>3. SyncType' BY <1>1, <1>2 DEF SyncType
<1>4. FinalStay BY <1>2 DEF FinalStay
<1>5. OpenAhead' BY <1>2 DEF OpenAhead
<1>6. \A e \in EpochIds :
         /\ Len(_epochNullifiers'[e]) <= MaxNullifiers
         /\ \A k \in 0..Len(_epochNullifiers[e]) :
               /\ k \in 0..Len(_epochNullifiers'[e])
               /\ SubSeq(_epochNullifiers'[e], 1, k) = SubSeq(_epochNullifiers[e], 1, k)
         /\ \A i \in 1..Len(_epochNullifiers'[e]) :
               \/ _epochNullifiers'[e][i] = n
               \/ i \in 1..Len(_epochNullifiers[e])
                  /\ _epochNullifiers'[e][i] = _epochNullifiers[e][i]
  <2> TAKE e \in EpochIds
  <2>1. _epochNullifiers[e] \in Seq(Nullifier) BY <1>0 DEF SourceType
  <2>2. Len(_epochNullifiers[e]) <= MaxNullifiers BY DEF ListsFit
  <2>3. ListGrows(_epochNullifiers[e], _epochNullifiers'[e], n) BY <1>2
  <2> QED BY <2>1, <2>2, <2>3, ListPrefixesStay
<1>7. ListsAreSpent' /\ ListsFit' BY <1>2, <1>6 DEF ListsAreSpent, ListsFit
<1>7a. RootsArePrefixes'
  <2> SUFFICES ASSUME NEW e \in EpochIds, epochs'[e].finalized
               PROVE  IsPrefixRoot(epochs'[e].nullifierRoot, _epochNullifiers'[e])
    BY DEF RootsArePrefixes
  <2>1. IsPrefixRoot(epochs'[e].nullifierRoot, _epochNullifiers[e])
    BY <1>2 DEF RootsArePrefixes
  <2> QED BY <1>6, <2>1 DEF IsPrefixRoot
<1>8. EventsAreFinal' BY <1>1, <1>2 DEF EventsAreFinal, IsFinalRoot, SyncType
<1>9. CopiesAreFinal' BY <1>1, <1>4, CopiesKept
<1> QED BY <1>3, <1>5, <1>7, <1>7a, <1>8, <1>9

LEMMA EndKeeps ==
    ASSUME SyncInv, EndEpoch
    PROVE  SyncInv'
<1> USE DEF SyncInv
<1>0. SourceType BY DEF SyncType
<1>1. /\ Source!finalizeEpoch \/ Source!startNewEpoch
      /\ finalizedEvents' = finalizedEvents \cup Emitted
      /\ UNCHANGED <<epochRoots, nullifierSpentGlobal, peerRoots>>
  BY DEF EndEpoch, vars, rootVars
<1>2. /\ SourceType'
      /\ FinalStay
      /\ \A e \in EpochIds : e > currentEpochId' => ~ epochs'[e].finalized
      /\ \A e \in EpochIds :
            epochs'[e].finalized /\ ~ epochs[e].finalized =>
               epochs'[e].nullifierRoot = _computeNullifierRoot(_epochNullifiers[e])
      /\ UNCHANGED <<_epochNullifiers, localNullifiers, now>>
  BY <1>0, <1>1, EndEffect DEF OpenAhead
<1>3. ASSUME NEW event \in Emitted
      PROVE  /\ event \in [epochId : EpochIds, nullifierRoot : ListRoots,
                           nullifierCount : Nat]
             /\ IsFinalRoot(event.epochId, event.nullifierRoot)'
  <2>1. PICK e \in EpochIds :
          /\ epochs'[e].finalized
          /\ event = [epochId |-> e, nullifierRoot |-> epochs'[e].nullifierRoot,
                      nullifierCount |-> epochs'[e].nullifierCount]
    BY <1>3 DEF Emitted
  <2>2. epochs'[e] \in EpochEntry BY <1>2 DEF SourceType
  <2> QED BY <2>1, <2>2 DEF EpochEntry, IsFinalRoot
<1>4. SyncType' BY <1>1, <1>2, <1>3 DEF SyncType
<1>5. OpenAhead' BY <1>2 DEF OpenAhead
<1>6. ListsAreSpent' /\ ListsFit' BY <1>2 DEF ListsAreSpent, ListsFit
<1>7. RootsArePrefixes'
  <2> SUFFICES ASSUME NEW e \in EpochIds, epochs'[e].finalized
               PROVE  IsPrefixRoot(epochs'[e].nullifierRoot, _epochNullifiers[e])
    BY <1>2 DEF RootsArePrefixes
  <2>1. CASE epochs[e].finalized BY <1>2, <2>1 DEF FinalStay, RootsArePrefixes
  <2>2. CASE ~ epochs[e].finalized
    <3>1. PICK list \in Seq(Nullifier) : list = _epochNullifiers[e]
      BY <1>0 DEF SourceType
    <3>2. epochs'[e].nullifierRoot = _computeNullifierRoot(list) BY <1>2, <2>2, <3>1
    <3>3. SubSeq(list, 1, Len(list)) = list /\ Len(list) \in 0..Len(list) OBVIOUS
    <3> QED BY <3>1, <3>2, <3>3 DEF IsPrefixRoot
  <2> QED BY <2>1, <2>2
<1>8. EventsAreFinal'
  <2> SUFFICES ASSUME NEW event \in finalizedEvents'
               PROVE  IsFinalRoot(event.epochId, event.nullifierRoot)'
    BY Zenon DEF EventsAreFinal
  <2>1. CASE event \in finalizedEvents
    <3>1. event.epochId \in EpochIds BY <2>1 DEF SyncType
    <3> QED BY <1>2, <2>1, <3>1 DEF EventsAreFinal, FinalStay, IsFinalRoot
  <2>2. CASE event \in Emitted BY <1>3, <2>2
  <2> QED BY <1>1, <2>1, <2>2
<1>9. CopiesAreFinal' BY <1>1, <1>2, CopiesKept
<1> QED BY <1>4, <1>5, <1>6, <1>7, <1>8, <1>9

\* The other steps leave the source chain's epochs and nullifiers alone.
LEMMA ElsewhereKeeps ==
    ASSUME SyncInv, SyncType', CopiesAreFinal',
           UNCHANGED <<currentEpochId, epochs, _epochNullifiers, localNullifiers,
                       finalizedEvents>>
    PROVE  SyncInv'
BY DEF SyncInv, OpenAhead, ListsAreSpent, ListsFit, RootsArePrefixes, EventsAreFinal,
       IsFinalRoot

LEMMA QuietKeeps ==
    ASSUME SyncInv, now' \in Nat,
           UNCHANGED <<currentEpochId, epochs, _epochNullifiers, localNullifiers,
                       finalizedEvents, epochRoots, peerRoots>>,
           nullifierSpentGlobal' \in [ChainId -> SUBSET Presented]
    PROVE  SyncInv'
<1>1. SyncType' BY DEF SyncInv, SyncType, SourceType
<1>2. CopiesAreFinal' BY DEF SyncInv, CopiesAreFinal, IsFinalRoot
<1> QED BY <1>1, <1>2, ElsewhereKeeps

LEMMA HubKeeps ==
    ASSUME SyncInv, NEW event \in finalizedEvents, DeliverToHub(event)
    PROVE  SyncInv'
<1> DEFINE e == event.epochId
           r == event.nullifierRoot
<1>1. e \in EpochIds /\ r \in ListRoots BY DEF SyncInv, SyncType
<1>2. IsFinalRoot(e, r) BY DEF SyncInv, EventsAreFinal
<1>3. submitEpochRoot(Bridge, SourceChain, e, r) BY DEF DeliverToHub
<1>4. UNCHANGED <<currentEpochId, epochs, _epochNullifiers, localNullifiers,
                  finalizedEvents, peerRoots, now>>
  BY DEF DeliverToHub, sourceVars
<1>5. TableOf(ListRoots) BY DEF SyncInv, SyncType, TableOf
<1> HIDE DEF e, r
<1>6. /\ nullifierSpentGlobal' = nullifierSpentGlobal
      /\ \A d \in ChainId, f \in EpochIds :
            epochRoots'[d][f] = IF d = SourceChain /\ f = e THEN r ELSE epochRoots[d][f]
  BY <1>1, <1>3, <1>5, SubmitEffect, SyncAssumption
<1>7. TableOf(ListRoots)' BY <1>1, <1>3, <1>5, SubmitEffect, SyncAssumption
<1>8. SyncType'
  BY <1>4, <1>6, <1>7 DEF SyncInv, SyncType, SourceType, TableOf
<1>9. CopiesAreFinal'
  BY <1>2, <1>4, <1>6, SyncAssumption DEF SyncInv, CopiesAreFinal, IsFinalRoot
<1> QED BY <1>4, <1>8, <1>9, ElsewhereKeeps

LEMMA PeerKeeps ==
    ASSUME SyncInv, NEW event \in finalizedEvents, DeliverToPeer(event)
    PROVE  SyncInv'
<1> DEFINE e == event.epochId
           r == event.nullifierRoot
           entry == [nullifierRoot |-> r, receivedAt |-> now]
<1>1. e \in EpochIds /\ r \in ListRoots /\ now \in Nat
  BY DEF SyncInv, SyncType, SourceType
<1>2. IsFinalRoot(e, r) BY DEF SyncInv, EventsAreFinal
<1>3. peerRoots' = [peerRoots EXCEPT ![<<SourceChain, e>>] = entry]
  BY DEF DeliverToPeer, Peer!receiveRemoteEpochRoot
<1>4. UNCHANGED <<currentEpochId, epochs, _epochNullifiers, localNullifiers,
                  finalizedEvents, epochRoots, nullifierSpentGlobal, now>>
  BY DEF DeliverToPeer, sourceVars, vars, rootVars
<1>5. entry.nullifierRoot = r
      /\ entry \in [nullifierRoot : ListRoots, receivedAt : Nat]
  BY <1>1
<1>6. peerRoots \in [{SourceChain} \X EpochIds ->
                        [nullifierRoot : ListRoots, receivedAt : Nat]]
  BY DEF SyncInv, SyncType
<1> HIDE DEF e, r, entry
<1>7. /\ peerRoots' \in [{SourceChain} \X EpochIds ->
                           [nullifierRoot : ListRoots, receivedAt : Nat]]
      /\ \A f \in EpochIds : peerRoots'[<<SourceChain, f>>] =
            IF f = e THEN entry ELSE peerRoots[<<SourceChain, f>>]
  BY <1>1, <1>3, <1>5, <1>6
<1>8. SyncType' BY <1>4, <1>7 DEF SyncInv, SyncType, SourceType
<1>9. CopiesAreFinal'
  BY <1>2, <1>4, <1>5, <1>7 DEF SyncInv, CopiesAreFinal, IsFinalRoot
<1> QED BY <1>4, <1>8, <1>9, ElsewhereKeeps

LEMMA HubReportKeeps ==
    ASSUME SyncInv, NEW n \in Presented, NEW e, NEW p, Report(n, e, p)
    PROVE  SyncInv'
<1>1. /\ reportNullifierSpent(SourceChain, n, e, p.siblings, p.indices)
      /\ UNCHANGED <<currentEpochId, epochs, _epochNullifiers, localNullifiers,
                     finalizedEvents, peerRoots, now>>
  BY DEF Report, sourceVars
<1>2. nullifierSpentGlobal \in [ChainId -> SUBSET Presented]
      /\ now \in Nat
  BY DEF SyncInv, SyncType, SourceType
<1>3. /\ nullifierSpentGlobal' = [nullifierSpentGlobal EXCEPT ![SourceChain] = @ \cup {n}]
      /\ epochRoots' = epochRoots
  BY <1>1, <1>2, SyncAssumption DEF reportNullifierSpent, rootVars
<1>4. nullifierSpentGlobal' \in [ChainId -> SUBSET Presented]
  BY <1>2, <1>3, SyncAssumption
<1> QED BY <1>1, <1>2, <1>3, <1>4, QuietKeeps

LEMMA SyncStep == SyncInv /\ [SyncNext]_syncVars => SyncInv'
<1> SUFFICES ASSUME SyncInv, [SyncNext]_syncVars PROVE SyncInv'
  OBVIOUS
<1>0. now \in Nat /\ nullifierSpentGlobal \in [ChainId -> SUBSET Presented]
  BY DEF SyncInv, SyncType, SourceType
<1>1. CASE SourceStep
  <2>1. UNCHANGED <<currentEpochId, epochs, _epochNullifiers, localNullifiers,
                    finalizedEvents, epochRoots, peerRoots, nullifierSpentGlobal>>
    BY <1>1 DEF SourceStep, Source!NextBlock, Source!authorizePool, Source!revokePool,
                Source!epochVars, vars, rootVars
  <2>2. now' \in Nat
    BY <1>0, <1>1 DEF SourceStep, Source!NextBlock, Source!authorizePool,
                      Source!revokePool
  <2> QED BY <1>0, <2>1, <2>2, QuietKeeps
<1>2. CASE HubGovernance
  <2>1. UNCHANGED <<currentEpochId, epochs, _epochNullifiers, localNullifiers, now,
                    finalizedEvents, epochRoots, peerRoots, nullifierSpentGlobal>>
    BY <1>2 DEF HubGovernance, registerChain, deactivateChain, rootVars, sourceVars
  <2> QED BY <1>0, <2>1, QuietKeeps
<1>3. CASE UNCHANGED syncVars
  <2>1. UNCHANGED <<currentEpochId, epochs, _epochNullifiers, localNullifiers, now,
                    finalizedEvents, epochRoots, peerRoots, nullifierSpentGlobal>>
    BY <1>3 DEF syncVars, sourceVars, vars, rootVars
  <2> QED BY <1>0, <2>1, QuietKeeps
<1> QED BY <1>1, <1>2, <1>3, SpendKeeps, EndKeeps, HubKeeps, PeerKeeps, HubReportKeeps
       DEF SyncNext

LEMMA SyncInvariant == SyncSpec => []SyncInv
<1> QED BY SyncStart, SyncStep, PTL DEF SyncSpec

\* The roots that submitEpochRoot recorded at the hub and receiveRemoteEpochRoot
\* at a peer are the roots that _finalizeEpochInternal (EpochManager.sol) gave
\* the source chain's epochs, however late, often and out of order the events
\* arrived, and however often the chain was registered anew.
THEOREM RootsSynchronised == SyncSpec => []RootsAgree
<1>1. SyncInv => RootsAgree BY DEF SyncInv, CopiesAreFinal, IsFinalRoot, RootsAgree
<1> QED BY <1>1, SyncInvariant, PTL

\* A report at the hub: the root that the proof was checked against is that of a
\* prefix of the list of a final epoch, and the value is under it.
LEMMA ReportIsUnder ==
    ASSUME Powers(MAX_PROOF_DEPTH), MaxNullifiers <= 2^MAX_PROOF_DEPTH,
           LeavesAreApart(Nullifier, Parts), SyncInv,
           NEW n \in Presented, NEW e \in EpochIds, NEW p, Report(n, e, p)
    PROVE  /\ n \notin nullifierSpentGlobal[SourceChain]
           /\ nullifierSpentGlobal'[SourceChain] =
                 nullifierSpentGlobal[SourceChain] \cup {n}
           /\ epochs[e].finalized
           /\ \E k \in 0..Len(_epochNullifiers[e]) :
                 /\ epochs[e].nullifierRoot =
                       _computeNullifierRoot(SubSeq(_epochNullifiers[e], 1, k))
                 /\ Under(SubSeq(_epochNullifiers[e], 1, k), n, Nullifier, Parts)
<1>0. nullifierSpentGlobal \in [ChainId -> SUBSET Presented]
  BY DEF SyncInv, SyncType
<1>1. reportNullifierSpent(SourceChain, n, e, p.siblings, p.indices) BY DEF Report
<1>2. /\ n \notin nullifierSpentGlobal[SourceChain]
      /\ epochRoots[SourceChain][e] # Zero
      /\ _verifyInclusion(n, epochRoots[SourceChain][e], p.siblings, p.indices)
      /\ nullifierSpentGlobal'[SourceChain] = nullifierSpentGlobal[SourceChain] \cup {n}
  BY <1>0, <1>1, ReportEffect, SyncAssumption
<1>3. epochs[e].finalized /\ epochRoots[SourceChain][e] = epochs[e].nullifierRoot
  BY <1>2 DEF SyncInv, CopiesAreFinal, IsFinalRoot
<1>4. PICK list \in Seq(Nullifier) : list = _epochNullifiers[e]
  BY DEF SyncInv, SyncType, SourceType
<1>5. PICK k \in 0..Len(list) :
         epochs[e].nullifierRoot = _computeNullifierRoot(SubSeq(list, 1, k))
  BY <1>3, <1>4 DEF SyncInv, RootsArePrefixes, IsPrefixRoot
<1>6. PICK prefix \in Seq(Nullifier) : prefix = SubSeq(list, 1, k) /\ Len(prefix) = k
  <2>1. SubSeq(list, 1, k) \in Seq(Nullifier) /\ Len(SubSeq(list, 1, k)) = k
    BY PrefixOfList
  <2> QED BY <2>1
<1>7. Len(prefix) <= 2^MAX_PROOF_DEPTH
  <2>1. Len(list) <= MaxNullifiers BY <1>4 DEF SyncInv, ListsFit
  <2>2. 2^MAX_PROOF_DEPTH \in Nat
    <3>1. MAX_PROOF_DEPTH \in Nat BY EpochRootAssumption
    <3>2. MAX_PROOF_DEPTH \in 0..MAX_PROOF_DEPTH BY <3>1
    <3> QED BY <3>1, <3>2, PowersArePositive
  <2> QED BY <1>6, <2>1, <2>2, SyncAssumption
<1>8. _verifyInclusion(n, _computeNullifierRoot(prefix), p.siblings, p.indices)
  BY <1>2, <1>3, <1>5, <1>6
<1>9. Under(prefix, n, Nullifier, Parts)
  <2>1. Len(prefix) >= 1 /\ (n \in Parts \/ (Len(prefix) >= 2 /\ n \in Below(prefix)))
    BY <1>7, <1>8, OnlyNodesVerify
  <2>2. n \in Nullifier => \E i \in 1..Len(prefix) : prefix[i] = n
    BY <1>8, OnlyMembersVerify
  <2> QED BY <2>1, <2>2 DEF Under
<1> QED BY <1>2, <1>3, <1>4, <1>5, <1>6, <1>9

\* The other steps leave the hub's reports alone, and what a report rests on stays.
LEMMA QuietSteps ==
    ASSUME \/ EndEpoch \/ SourceStep \/ HubGovernance \/ UNCHANGED syncVars
           \/ \E event \in finalizedEvents : DeliverToHub(event) \/ DeliverToPeer(event)
    PROVE  UNCHANGED <<localNullifiers, _epochNullifiers, nullifierSpentGlobal>>
<1>1. CASE EndEpoch
  BY <1>1 DEF EndEpoch, Source!finalizeEpoch, Source!startNewEpoch, vars
<1>2. CASE SourceStep
  BY <1>2 DEF SourceStep, Source!NextBlock, Source!authorizePool,
              Source!revokePool, Source!epochVars, vars
<1>3. CASE HubGovernance
  BY <1>3 DEF HubGovernance, registerChain, deactivateChain, sourceVars
<1>4. CASE UNCHANGED syncVars BY <1>4 DEF syncVars, sourceVars, vars
<1>5. ASSUME NEW event \in finalizedEvents,
             DeliverToHub(event) \/ DeliverToPeer(event)
      PROVE  UNCHANGED <<localNullifiers, _epochNullifiers, nullifierSpentGlobal>>
  BY <1>5 DEF DeliverToHub, DeliverToPeer, submitEpochRoot, sourceVars, vars
<1> QED BY <1>1, <1>2, <1>3, <1>4, <1>5

LEMMA SourceGrows ==
    ASSUME SyncInv, [SyncNext]_syncVars
    PROVE  /\ FinalStay
           /\ \A e \in EpochIds : \A k \in 0..Len(_epochNullifiers[e]) :
                 /\ k \in 0..Len(_epochNullifiers'[e])
                 /\ SubSeq(_epochNullifiers'[e], 1, k) = SubSeq(_epochNullifiers[e], 1, k)
<1>0. SourceType BY DEF SyncInv, SyncType
<1>1. CASE UNCHANGED <<epochs, _epochNullifiers>> BY <1>1 DEF FinalStay
<1>2. ASSUME NEW n \in Nullifier, Spend(n)
      PROVE  /\ FinalStay
             /\ \A e \in EpochIds : \A k \in 0..Len(_epochNullifiers[e]) :
                   /\ k \in 0..Len(_epochNullifiers'[e])
                   /\ SubSeq(_epochNullifiers'[e], 1, k) = SubSeq(_epochNullifiers[e], 1, k)
  <2>1. Source!registerNullifier(Pool, n) BY <1>2 DEF Spend
  <2>2. FinalStay BY <1>0, <2>1, SpendEffect DEF FinalStay
  <2>3. ASSUME NEW e \in EpochIds
        PROVE  \A k \in 0..Len(_epochNullifiers[e]) :
                 /\ k \in 0..Len(_epochNullifiers'[e])
                 /\ SubSeq(_epochNullifiers'[e], 1, k) = SubSeq(_epochNullifiers[e], 1, k)
    <3>1. /\ _epochNullifiers[e] \in Seq(Nullifier)
          /\ Len(_epochNullifiers[e]) <= MaxNullifiers
      BY <1>0 DEF SyncInv, ListsFit, SourceType
    <3>2. ListGrows(_epochNullifiers[e], _epochNullifiers'[e], n) BY <1>0, <2>1, SpendEffect
    <3> QED BY <3>1, <3>2, ListPrefixesStay
  <2> QED BY <2>2, <2>3
<1>3. CASE EndEpoch
  <2>1. Source!finalizeEpoch \/ Source!startNewEpoch BY <1>3 DEF EndEpoch
  <2>2. FinalStay /\ _epochNullifiers' = _epochNullifiers
    BY <1>0, <2>1, EndEffect DEF SyncInv, OpenAhead
  <2> QED BY <2>2
<1>4. ASSUME \/ SourceStep \/ HubGovernance \/ UNCHANGED syncVars
             \/ \E event \in finalizedEvents : DeliverToHub(event) \/ DeliverToPeer(event)
             \/ \E n \in Presented, e \in EpochIds, p \in Proofs : Report(n, e, p)
      PROVE  UNCHANGED <<epochs, _epochNullifiers>>
  BY <1>4 DEF SourceStep, Source!NextBlock, Source!authorizePool, Source!revokePool,
              Source!epochVars, HubGovernance, DeliverToHub, DeliverToPeer, Report,
              syncVars, sourceVars
<1> QED BY <1>1, <1>2, <1>3, <1>4 DEF SyncNext

\* Whatever is presented to reportNullifierSpent, and however the events reached
\* the hub, a value that the hub recorded for the source chain is under the root
\* of a finalized epoch of that chain, taken of the nullifiers which its pools had
\* registered in the epoch by then.
THEOREM HubReportsUnderRoots ==
    ASSUME Powers(MAX_PROOF_DEPTH), MaxNullifiers <= 2^MAX_PROOF_DEPTH,
           LeavesAreApart(Nullifier, Parts)
    PROVE  SyncSpec => []HubReportsAreUnderRoots
<1> DEFINE Rests(n, e, k) ==
             /\ epochs[e].finalized
             /\ epochs[e].nullifierRoot =
                   _computeNullifierRoot(SubSeq(_epochNullifiers[e], 1, k))
             /\ Under(SubSeq(_epochNullifiers[e], 1, k), n, Nullifier, Parts)
<1>1. SyncInit => HubReportsAreUnderRoots
  BY SyncAssumption DEF SyncInit, Init, HubReportsAreUnderRoots
<1>2. ASSUME SyncInv, HubReportsAreUnderRoots, [SyncNext]_syncVars
      PROVE  HubReportsAreUnderRoots'
  <2>1. ASSUME NEW n, NEW e \in EpochIds, NEW k \in 0..Len(_epochNullifiers[e]),
               Rests(n, e, k)
        PROVE  k \in 0..Len(_epochNullifiers'[e]) /\ Rests(n, e, k)'
    <3>1. /\ k \in 0..Len(_epochNullifiers'[e])
          /\ SubSeq(_epochNullifiers'[e], 1, k) = SubSeq(_epochNullifiers[e], 1, k)
          /\ epochs'[e].finalized /\ epochs'[e].nullifierRoot = epochs[e].nullifierRoot
      BY <1>2, <2>1, SourceGrows DEF FinalStay
    <3> QED BY <2>1, <3>1
  <2>2. ASSUME NEW n \in nullifierSpentGlobal[SourceChain]
        PROVE  \E e \in EpochIds : \E k \in 0..Len(_epochNullifiers[e]) : Rests(n, e, k)
    BY <1>2 DEF HubReportsAreUnderRoots
  <2>3. ASSUME NEW n \in Presented, NEW e \in EpochIds, NEW p \in Proofs, Report(n, e, p)
        PROVE  /\ nullifierSpentGlobal'[SourceChain] =
                     nullifierSpentGlobal[SourceChain] \cup {n}
               /\ \E k \in 0..Len(_epochNullifiers[e]) : Rests(n, e, k)
    BY <1>2, <2>3, ReportIsUnder
  <2>4. ASSUME NEW n \in Nullifier, Spend(n)
        PROVE  nullifierSpentGlobal' = nullifierSpentGlobal
    BY <2>4 DEF Spend, vars
  <2> HIDE DEF Rests
  <2>5. ASSUME NEW n \in nullifierSpentGlobal'[SourceChain]
        PROVE  \E e \in EpochIds : \E k \in 0..Len(_epochNullifiers[e]) : Rests(n, e, k)
    <3>1. CASE n \in nullifierSpentGlobal[SourceChain] BY <2>2, <3>1
    <3>2. CASE n \notin nullifierSpentGlobal[SourceChain]
      <4>1. nullifierSpentGlobal' # nullifierSpentGlobal BY <2>5, <3>2
      <4>2. \E m \in Presented, e \in EpochIds, p \in Proofs : Report(m, e, p)
        BY <1>2, <2>4, <4>1, QuietSteps DEF SyncNext
      <4> QED BY <2>3, <2>5, <3>2, <4>2
    <3> QED BY <3>1, <3>2
  <2>6. ASSUME NEW n \in nullifierSpentGlobal'[SourceChain]
        PROVE  \E e \in EpochIds : \E k \in 0..Len(_epochNullifiers'[e]) : Rests(n, e, k)'
    BY <2>1, <2>5, <2>6
  <2> QED BY <2>6, Zenon DEF HubReportsAreUnderRoots, Rests
<1> QED BY <1>1, <1>2, SyncInvariant, PTL DEF SyncSpec

\* Of the nullifiers of notes the hub learns one of the source chain only after a
\* pool there registered it, and forgets none: EpochManager, the bridges that
\* carry its events, and UniversalNullifierRegistry implement SpentSet.
THEOREM SpentSetImplemented ==
    ASSUME Powers(MAX_PROOF_DEPTH), MaxNullifiers <= 2^MAX_PROOF_DEPTH,
           LeavesAreApart(Nullifier, Parts)
    PROVE  SyncSpec => ImplementsSpentSet
<1> DEFINE known == nullifierSpentGlobal[SourceChain] \cap Nullifier
<1>1. SyncInit => Promise!SpentSetInit
  BY SyncAssumption DEF SyncInit, Init, Source!Init, Promise!SpentSetInit
<1>2. ASSUME SyncInv, [SyncNext]_syncVars
      PROVE  [Promise!SpentSetNext]_<<localNullifiers, known>>
  <2>1. ASSUME NEW n \in Nullifier, Spend(n) PROVE Promise!Spend(n)
    BY <2>1 DEF Spend, Source!registerNullifier, Promise!Spend, vars
  <2>2. ASSUME NEW n \in Presented, NEW e \in EpochIds, NEW p \in Proofs,
               Report(n, e, p)
        PROVE  \/ UNCHANGED <<localNullifiers, known>>
               \/ n \in Nullifier /\ Promise!Learn(n)
    <3>1. localNullifiers' = localNullifiers BY <2>2 DEF Report, sourceVars
    <3>2. /\ n \notin nullifierSpentGlobal[SourceChain]
          /\ nullifierSpentGlobal'[SourceChain] =
                nullifierSpentGlobal[SourceChain] \cup {n}
      BY <1>2, <2>2, ReportIsUnder
    <3>3. CASE n \notin Nullifier BY <3>1, <3>2, <3>3
    <3>4. CASE n \in Nullifier
      <4>1. PICK k \in 0..Len(_epochNullifiers[e]) :
               Under(SubSeq(_epochNullifiers[e], 1, k), n, Nullifier, Parts)
        BY <1>2, <2>2, ReportIsUnder
      <4>2. n \notin Parts BY <3>4 DEF LeavesAreApart
      <4>3. PICK list \in Seq(Nullifier) : list = _epochNullifiers[e]
        BY <1>2 DEF SyncInv, SyncType, SourceType
      <4>4. k \in 0..Len(list) BY <4>3
      <4>5. \E i \in 1..Len(SubSeq(list, 1, k)) : SubSeq(list, 1, k)[i] = n
        BY <3>4, <4>1, <4>2, <4>3 DEF Under
      <4>6. \E i \in 1..Len(list) : list[i] = n BY <4>4, <4>5
      <4>7. n \in localNullifiers BY <1>2, <4>3, <4>6 DEF SyncInv, ListsAreSpent
      <4> QED BY <3>1, <3>2, <3>4, <4>7 DEF Promise!Learn
    <3> QED BY <3>3, <3>4
  <2>3. ASSUME \/ EndEpoch \/ SourceStep \/ HubGovernance \/ UNCHANGED syncVars
               \/ \E event \in finalizedEvents : DeliverToHub(event) \/ DeliverToPeer(event)
        PROVE  UNCHANGED <<localNullifiers, known>>
    BY <2>3, QuietSteps
  <2> QED
    <3> HIDE DEF known
    <3>1. \/ \E n \in Nullifier : Promise!Spend(n) \/ Promise!Learn(n)
          \/ UNCHANGED <<localNullifiers, known>>
      BY <1>2, <2>1, <2>2, <2>3, Zenon DEF SyncNext
    <3> QED BY <3>1 DEF Promise!SpentSetNext
<1> QED BY <1>1, <1>2, SyncInvariant, PTL
       DEF SyncSpec, ImplementsSpentSet, Promise!SpentSetSpec
=============================================================================
