--------------------------- MODULE MerkleReference ---------------------------
(***************************************************************************)
(* Reading a Merkle tree through its root, when a hash is the pair of its  *)
(* children: the reference that the pools of this project, each with its   *)
(* own way to keep the tree, are compared with.                            *)
(***************************************************************************)
EXTENDS Naturals, Sequences

\* What proofs about trees of this depth use of exponents, of which the provers
\* know nothing.  A module that rests on it assumes it, and TLC evaluates it.
Powers(depth) == \A level \in 0..(depth - 1) : 2^(level + 1) = 2 * 2^level

\* The leaf at an index of the tree of this depth, opened from its root.
LeafAt(root, depth, index) ==
    LET at[level \in 0..depth] ==
          IF level = depth THEN root
          ELSE at[level + 1][((index \div 2^level) % 2) + 1]
    IN  at[0]

\* The first `count' leaves that the root commits to.
LeavesUnder(root, depth, count) == [i \in 1..count |-> LeafAt(root, depth, i - 1)]

\* The tree with these leaves, layer by layer, in which a subtree without a leaf
\* has the value that `empty' gives its level; and its root.
ReferenceTree(leaves, depth, empty) ==
    LET node[level \in 0..depth] ==
          [k \in 0..(2^(depth - level) - 1) |->
              IF k * 2^level >= Len(leaves) THEN empty[level]
              ELSE IF level = 0 THEN leaves[k + 1]
              ELSE <<node[level - 1][2 * k], node[level - 1][2 * k + 1]>>]
    IN  node

ReferenceRoot(leaves, depth, empty) == ReferenceTree(leaves, depth, empty)[depth][0]
=============================================================================
