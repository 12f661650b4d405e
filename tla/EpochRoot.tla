------------------------------ MODULE EpochRoot ------------------------------
(***************************************************************************)
(* The Merkle root of an epoch's nullifiers, as EpochManager computes it   *)
(* (contracts/core/EpochManager.sol), and the inclusion proof that         *)
(* UniversalNullifierRegistry checks against it on the hub chain           *)
(* (contracts/core/UniversalNullifierRegistry.sol).                        *)
(*                                                                         *)
(* PoseidonHasher.hash is a free constructor, as in MerkleTree.            *)
(***************************************************************************)
EXTENDS Naturals, Sequences

CONSTANTS
    Zero,               \* bytes32(0)
    MAX_PROOF_DEPTH     \* 32 in the contract

ASSUME EpochRootAssumption == MAX_PROOF_DEPTH \in Nat

hash(left, right) == <<left, right>>

\* p[k] is the variable p of the loop after it was tested k times against x.
_nextPowerOfTwo(x) ==
    LET p[k \in 0..x] ==
          IF k = 0 THEN 1 ELSE IF p[k - 1] < x THEN 2 * p[k - 1] ELSE p[k - 1]
    IN  IF x <= 2 THEN 2 ELSE p[x]

\* Mutant: the pairs are made of the two halves of the layer.
ReduceInPlaceShifted(layer, half) ==
    LET after[i \in 0..half] ==
          IF i = 0 THEN layer
          ELSE [after[i - 1] EXCEPT ![i - 1] =
                  hash(after[i - 1][i - 1], after[i - 1][half + i - 1])]
    IN  after[half]

\* One pass of the inner loop: iteration i overwrites cell i of the array that
\* it reads cells 2i and 2i + 1 of.
ReduceInPlace(layer, half) ==
    LET after[i \in 0..half] ==
          IF i = 0 THEN layer
          ELSE [after[i - 1] EXCEPT ![i - 1] =
                  hash(after[i - 1][2 * (i - 1)], after[i - 1][2 * (i - 1) + 1])]
    IN  after[half]

\* reduced[m] is the array when only its first m cells are still in use.
_computeNullifierRoot(nullifiers) ==
    LET count == Len(nullifiers)
        n     == _nextPowerOfTwo(count)
        layer == [i \in 0..(n - 1) |->
                    IF i < count THEN nullifiers[i + 1] ELSE Zero]
        reduced[m \in 1..n] ==
          IF 2 * m > n THEN layer ELSE ReduceInPlace(reduced[2 * m], m)
    IN  CASE count = 0 -> Zero
          [] count = 1 -> nullifiers[1]
          [] OTHER     -> reduced[1][0]

\* Mutant: the first sibling takes the place of the leaf.
_verifyInclusionSkipsLeaf(leaf, root, proof, pathIndices) ==
    LET current[i \in 1..Len(proof)] ==
          IF i = 1 THEN proof[1]
          ELSE IF pathIndices[i] = 0 THEN hash(current[i - 1], proof[i])
                                     ELSE hash(proof[i], current[i - 1])
    IN  /\ Len(proof) = Len(pathIndices)
        /\ Len(proof) \in 1..MAX_PROOF_DEPTH
        /\ \A i \in 1..Len(pathIndices) : pathIndices[i] \in {0, 1}
        /\ current[Len(proof)] = root

_verifyInclusion(leaf, root, proof, pathIndices) ==
    LET current[i \in 0..Len(proof)] ==
          IF i = 0 THEN leaf
          ELSE IF pathIndices[i] = 0 THEN hash(current[i - 1], proof[i])
                                     ELSE hash(proof[i], current[i - 1])
    IN  /\ Len(proof) = Len(pathIndices)
        /\ Len(proof) \in 1..MAX_PROOF_DEPTH
        /\ \A i \in 1..Len(pathIndices) : pathIndices[i] \in {0, 1}
        /\ current[Len(proof)] = root
=============================================================================
