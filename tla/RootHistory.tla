----------------------------- MODULE RootHistory -----------------------------
(***************************************************************************)
(* What the incremental Merkle tree of contracts/libraries/MerkleTree.sol  *)
(* promises to the contracts that use it: an append-only list of leaves,   *)
(* of bounded length, in which the root of every one of the last           *)
(* HistorySize versions of the list can be recognised.                     *)
(*                                                                         *)
(* A root commits to exactly one list (Poseidon is collision free), so a   *)
(* root is named by the length of the prefix of `leaves' it commits to:    *)
(* version n is the tree holding leaves 1..n and zeros elsewhere.          *)
(***************************************************************************)
EXTENDS Naturals, Sequences

CONSTANTS
    Leaf,         \* the values a leaf may have (a bytes32 each)
    Capacity,     \* 2^DEPTH, the number of leaves a tree can hold
    HistorySize   \* ROOT_HISTORY_SIZE

ASSUME HistoryAssumption ==
    /\ Capacity \in Nat
    /\ HistorySize \in Nat \ {0}

VARIABLE leaves

\* The versions whose root isKnownRoot accepts when the list has n leaves:
\* the ring buffer starts with the root of the empty tree and every insertion
\* overwrites its oldest slot.
KnownVersions(n) == {v \in 0..n : v + HistorySize > n}

\* The leaves that version v commits to.
Committed(v) == {leaves[i] : i \in 1..v}

HistoryInit == leaves = << >>

Insert(leaf) ==
    /\ Len(leaves) < Capacity
    /\ leaves' = Append(leaves, leaf)

HistoryNext == \E leaf \in Leaf : Insert(leaf)

HistorySpec == HistoryInit /\ [][HistoryNext]_leaves
=============================================================================
