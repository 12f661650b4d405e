------------------------------ MODULE MCNearPool ------------------------------
(***************************************************************************)
(* Model checking NearPool and its refinement of PoolLedger, read through  *)
(* the contract's views.                                                   *)
(***************************************************************************)
EXTENDS NearPool, TLC

CONSTANTS c1, c2

MCOutputs == {<<c1, c2>>, <<c1, c1>>, <<ZERO_HASH, c1>>}

Symmetry == Permutations(Nullifier)

=============================================================================
