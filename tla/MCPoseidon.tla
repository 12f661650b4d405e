----------------------------- MODULE MCPoseidon -----------------------------
(***************************************************************************)
(* 167 stands for the scalar field's modulus and 173 for the base field's: *)
(* two primes with the same leading digit, as on BN254, and 5 divides      *)
(* neither 166 nor 172.  Read from the wrong end, 173 is 218.              *)
(***************************************************************************)
EXTENDS Poseidon

scalar == <<10, 7>>

palletDigits == <<10, 13>>

words == {0, 1, 9, 15} \X {0, 5, 12}
=============================================================================
