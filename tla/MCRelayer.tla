------------------------------ MODULE MCRelayer ------------------------------
(***************************************************************************)
(* Model checking Relayer: two chains, one of them without an adapter.     *)
(***************************************************************************)
EXTENDS Relayer, TLC

CONSTANTS avalanche, moonbeam

MCChains    == <<avalanche, moonbeam>>
MCMaxBlock  == (avalanche :> 3) @@ (moonbeam :> 2)
MCMaxEpochs == (avalanche :> 2) @@ (moonbeam :> 1)
=============================================================================
