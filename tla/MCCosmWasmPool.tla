---------------------------- MODULE MCCosmWasmPool ----------------------------
(***************************************************************************)
(* Model checking CosmWasmPool and its refinement of PoolLedger, read      *)
(* through the answers of the contract's queries.                          *)
(***************************************************************************)
EXTENDS CosmWasmPool, TLC

CONSTANTS c1, C1, c2, n1, N1, n2, bad

MCOutputs == {<<c1, c2>>, <<c1, c1>>, <<ZERO_HASH, c1>>, <<c2, bad>>}

\* C1 and N1 are c1 and n1 in the other case; bad is no hexadecimal word.
MCWord == [string \in {ZERO_HASH, c1, C1, c2, n1, N1, n2} |->
             CASE string = C1 -> c1 [] string = N1 -> n1 [] OTHER -> string]
=============================================================================
