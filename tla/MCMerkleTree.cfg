\* Depth 3, so that paths turn both ways at every level and the tree fills up;
\* three root slots, so that the ring wraps; a zero leaf, which is inserted
\* without changing the root.  The lists are also epochs of up to eight
\* nullifiers, with trees of height 1, 2 and 3, full and padded; proofs are tried
\* on those of up to five.
CONSTANTS
    DEPTH = 3
    ROOT_HISTORY_SIZE = 3
    Zero = Zero
    Leaves = {Zero, a, b}
    MAX_PROOF_DEPTH = 3
    MaxCount = 5
    ProofBound = 2
SPECIFICATION TreeSpec
INVARIANTS
    KnownRootsAreTheRecentOnes
    ProvableAreTheMembers
PROPERTY ImplementsRootHistory
\* A full tree accepts no further leaf.
CHECK_DEADLOCK FALSE
