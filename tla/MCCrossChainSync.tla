--------------------------- MODULE MCCrossChainSync ---------------------------
(***************************************************************************)
(* The model-checked instance of CrossChainSync: nullifiers, zero and the  *)
(* hashes of two nullifiers are presented.  The proofs have one sibling,   *)
(* or two of which the second is a node over a leaf and zero on the right, *)
(* or over two nullifiers on the left: they fit the leaves, the padding    *)
(* and the nodes of trees of two and three nullifiers, or do not.          *)
(***************************************************************************)
EXTENDS CrossChainSync, TLC

Pairs == {hash(a, b) : a \in Nullifier, b \in Nullifier}
           \ {hash(a, a) : a \in Nullifier}

MCPresented == Nullifier \cup {Zero} \cup Pairs

MCProofs ==
    LET siblings == {<<a, i>> : a \in Nullifier \cup {Zero}, i \in {0, 1}}
        nodes    == {<<hash(a, Zero), 0>> : a \in Nullifier} \cup {<<p, 1>> : p \in Pairs}
    IN  {[siblings |-> <<s[1]>>, indices |-> <<s[2]>>] : s \in siblings \cup nodes}
        \cup {[siblings |-> <<s[1], t[1]>>, indices |-> <<s[2], t[2]>>] :
                 s \in siblings, t \in nodes}

\* No property tells one nullifier from another.
Symmetry == Permutations(Nullifier)
=============================================================================
