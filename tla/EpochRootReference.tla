------------------------- MODULE EpochRootReference --------------------------
(***************************************************************************)
(* What the root that EpochManager gives a list of nullifiers, and the     *)
(* proofs that UniversalNullifierRegistry accepts, are compared with: the  *)
(* perfect binary tree over the list, and the paths from its leaves.       *)
(***************************************************************************)
EXTENDS EpochRoot, MerkleReference

\* The smallest height whose perfect tree has a leaf for each element of s.
Height(s) == CHOOSE h \in 1..MAX_PROOF_DEPTH :
                2^h >= Len(s) /\ \A g \in 1..(h - 1) : 2^g < Len(s)

Padded(s) == [i \in 1..(2^Height(s)) |-> IF i <= Len(s) THEN s[i] ELSE Zero]

\* The padded list fills the tree: no subtree is empty.
Tree(s) == ReferenceTree(Padded(s), Height(s), << >>)

\* On which side the path from leaf number i (from 0) comes from height h, and
\* the sibling that it meets there.
Bit(i, h) == (i \div 2^h) % 2
Sibling(s, i, h) == Tree(s)[h][(i \div 2^h) + 1 - 2 * Bit(i, h)]

MerkleProof(s, i) == [h \in 1..Height(s) |-> Sibling(s, i, h - 1)]
MerklePath(s, i)  == [h \in 1..Height(s) |-> Bit(i, h - 1)]

Layer(s, h) == {Tree(s)[h][k] : k \in 0..(2^(Height(s) - h) - 1)}

\* What lies below the root: the elements of s, the zeros that pad them, and the
\* nodes between.
Below(s) == UNION {Layer(s, h) : h \in 0..(Height(s) - 1)}

\* The proofs that can be assembled, up to a length, from the nodes of the tree.
Nodes(s) == Below(s) \cup Layer(s, Height(s))
ProofsFrom(s, length) ==
    UNION {[siblings : [1..l -> Nodes(s)], indices : [1..l -> 0..2]] : l \in 0..length}

Provable(s, i) ==
    _verifyInclusion(s[i + 1], _computeNullifierRoot(s), MerkleProof(s, i), MerklePath(s, i))

-----------------------------------------------------------------------------
\* The registry accepts the Merkle proof of every nullifier of an epoch that
\* has at least two: the two contracts agree on the shape of the tree.  (A
\* single nullifier is its own root, and the registry rejects empty proofs.)
MembersAreProvable(s) ==
    Len(s) \in 2..(2^MAX_PROOF_DEPTH) => \A i \in 0..(Len(s) - 1) : Provable(s, i)

\* A value under the root of s: some node of the tree, which is one of the
\* nullifiers only if it is in s, or a part, one of the values that nullifiers are
\* hashed from.  (The registry does not ask for proofs of the tree's height, so a
\* node above the leaves, a zero that pads them, and what a leaf is the hash of,
\* can be proved as well.)
Under(s, value, nullifiers, parts) ==
    \/ Len(s) >= 1 /\ value \in parts
    \/ /\ Len(s) >= 2
       /\ value \in Below(s)
       /\ value \in nullifiers => \E i \in 1..Len(s) : s[i] = value

\* The registry accepts these proofs for no value that is not under the root.
OnlyNodesAreProvable(s, values, nullifiers, parts, proofs) ==
    \A value \in values, p \in proofs :
        _verifyInclusion(value, _computeNullifierRoot(s), p.siblings, p.indices)
            => Under(s, value, nullifiers, parts)
=============================================================================
