--------------------------- MODULE MCEpochManager ---------------------------
(***************************************************************************)
(* The model-checked instances of EpochManager.                            *)
(***************************************************************************)
EXTENDS EpochManager, TLC

\* No property tells one nullifier from another.
Symmetry == Permutations(Nullifier)
=============================================================================
