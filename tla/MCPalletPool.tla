----------------------------- MODULE MCPalletPool -----------------------------
(***************************************************************************)
(* Model checking PalletPool: the properties of the pallet, and its        *)
(* refinement of PoolLedger.                                               *)
(***************************************************************************)
EXTENDS PalletPool, TLC

CONSTANTS c1, c2, c3, c4

MCOutputs == {<<c1, c2>>, <<Zero, c1>>, <<c2, c2>>}

Symmetry == Permutations(Nullifier) \cup Permutations({c3, c4})

=============================================================================
