------------------------------ MODULE MerkleTree ------------------------------
(***************************************************************************)
(* contracts/libraries/MerkleTree.sol: the incremental Merkle tree that    *)
(* holds the note commitments of a pool, and its ring buffer of roots.     *)
(*                                                                         *)
(* PoseidonHasher.hash is modelled by a free constructor: two hashes are   *)
(* equal exactly when their arguments are, and no hash is a leaf.  The     *)
(* variable `inserted' is a history variable, the list of the arguments of *)
(* the calls of insert; no action reads it.                                *)
(***************************************************************************)
EXTENDS Naturals, Sequences, MerkleReference

CONSTANTS
    DEPTH,               \* levels of the tree, 32 in the contract
    ROOT_HISTORY_SIZE,   \* slots of the ring buffer, 100 in the contract
    Zero,                \* uint256(0), also a slot that was never written
    Leaves               \* the leaves that callers insert

ASSUME MerkleTreeAssumption ==
    /\ DEPTH \in Nat \ {0}
    /\ ROOT_HISTORY_SIZE \in Nat \ {0}

ASSUME PowersOfTwo == Powers(DEPTH)

VARIABLES
    nextLeafIndex,
    filledSubtrees,
    roots,
    currentRootIndex,
    inserted

treeVars == <<nextLeafIndex, filledSubtrees, roots, currentRootIndex, inserted>>

Levels == 0..(DEPTH - 1)
Slots  == 0..(ROOT_HISTORY_SIZE - 1)

hash(left, right) == <<left, right>>

\* The root of a subtree of height `level' whose leaves are all zero.
zeros[level \in 0..DEPTH] ==
    IF level = 0 THEN Zero ELSE hash(zeros[level - 1], zeros[level - 1])

-----------------------------------------------------------------------------
init ==
    /\ nextLeafIndex = 0
    /\ filledSubtrees = [level \in Levels |-> zeros[level]]
    /\ roots = [slot \in Slots |-> IF slot = 0 THEN zeros[DEPTH] ELSE Zero]
    /\ currentRootIndex = 0
    /\ inserted = << >>

\* Is the node above leaf `index' a left child at this level?
IsLeft(index, level) == (index \div 2^level) % 2 = 0

\* The value of currentHash when the loop of insert reaches `level'.
PathHash(leaf) ==
    LET h[level \in 0..DEPTH] ==
          IF level = 0 THEN leaf
          ELSE IF IsLeft(nextLeafIndex, level - 1)
               THEN hash(h[level - 1], zeros[level - 1])
               ELSE hash(filledSubtrees[level - 1], h[level - 1])
    IN  h

\* Mutant: every level is overwritten, whichever way the path turns.
FilledAlways(path) == [level \in Levels |-> path[level]]

\* filledSubtrees after the loop: a level keeps its hash only on a left turn.
Filled(path) ==
    [level \in Levels |->
        IF IsLeft(nextLeafIndex, level) THEN path[level]
                                        ELSE filledSubtrees[level]]

\* Mutant: the last slot of the ring is never used.
NewRootIndexShort ==
    IF ROOT_HISTORY_SIZE = 1 THEN 0
    ELSE (currentRootIndex + 1) % (ROOT_HISTORY_SIZE - 1)

\* The slot insert writes the new root to.
NewRootIndex == (currentRootIndex + 1) % ROOT_HISTORY_SIZE

insert(leaf) ==
    /\ nextLeafIndex < 2^DEPTH
    /\ LET path == PathHash(leaf)
       IN  /\ filledSubtrees' = Filled(path)
           /\ roots' = [roots EXCEPT ![NewRootIndex] = path[DEPTH]]
    /\ currentRootIndex' = NewRootIndex
    /\ nextLeafIndex' = nextLeafIndex + 1
    /\ inserted' = Append(inserted, leaf)

isKnownRoot(root) == root # Zero /\ \E slot \in Slots : roots[slot] = root

getLatestRoot == roots[currentRootIndex]

\* A tree that is full rejects every further insertion: the library then stops.
TreeNext == \E leaf \in Leaves : insert(leaf)

TreeSpec == init /\ [][TreeNext]_treeVars

-----------------------------------------------------------------------------
\* The root of the tree over these leaves, built from scratch.
RefRoot(s) == ReferenceRoot(s, DEPTH, zeros)

\* The list of leaves that the tree's latest root really commits to.
CommittedLeaves == LeavesUnder(getLatestRoot, DEPTH, nextLeafIndex)

History == INSTANCE RootHistory
             WITH Leaf <- Leaves, Capacity <- 2^DEPTH,
                  HistorySize <- ROOT_HISTORY_SIZE, leaves <- CommittedLeaves

\* isKnownRoot accepts the roots of the last ROOT_HISTORY_SIZE versions of the
\* tree, the empty one included, and no other root the tree ever had: proofs
\* against slightly stale roots stay valid, older ones expire.
KnownRootsAreTheRecentOnes ==
    \A v \in 0..nextLeafIndex :
        isKnownRoot(RefRoot(SubSeq(inserted, 1, v))) <=>
            \E w \in History!KnownVersions(nextLeafIndex) :
                RefRoot(SubSeq(inserted, 1, w)) = RefRoot(SubSeq(inserted, 1, v))

\* The tree implements the append-only list of RootHistory, read back through
\* its latest root: an insertion adds its leaf at the end and disturbs nothing
\* that the previous roots committed to.
ImplementsRootHistory == History!HistorySpec
=============================================================================
