------------------------------ MODULE MCInkPool ------------------------------
(***************************************************************************)
(* Model checking InkPool and its refinement of PoolLedger.                *)
(***************************************************************************)
EXTENDS InkPool, TLC

CONSTANTS c1, c2, c3, c4

MCOutputs == {<<c2, c3>>, <<c3, c4>>, <<ZERO_VALUE, c1>>}

Symmetry == Permutations(Nullifier)
=============================================================================
