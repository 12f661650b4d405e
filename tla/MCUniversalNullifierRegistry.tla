--------------------- MODULE MCUniversalNullifierRegistry ---------------------
(***************************************************************************)
(* The model-checked instance of UniversalNullifierRegistry: roots of      *)
(* epochs with no, one, two and three nullifiers, of which the first is    *)
(* spelled out as the hash that it is.  A nullifier, the zero that pads    *)
(* the tree of three, the node over the other two and one of the parts of  *)
(* the first are presented, with the proofs that fit them and proofs that  *)
(* do not.                                                                 *)
(***************************************************************************)
EXTENDS UniversalNullifierRegistry

CONSTANTS inner, domain, n2, n3

n1 == hash(inner, domain)

MCNullifier == {n1, n2, n3}

MCEpochLists == {<< >>, <<n1>>, <<n1, n2>>, <<n1, n2, n3>>}

MCPresented == {n3, Zero, hash(n1, n2), inner}

Proof(siblings, indices) == [siblings |-> siblings, indices |-> indices]

MCProofs ==
    {Proof(<< >>, << >>),
     Proof(<<domain>>, <<0>>), Proof(<<domain, n2>>, <<0, 0>>),
     Proof(<<n2>>, <<0>>), Proof(<<hash(n3, Zero)>>, <<0>>),
     Proof(<<Zero, hash(n1, n2)>>, <<0, 1>>),
     Proof(<<n3, hash(n1, n2)>>, <<1, 1>>)}
=============================================================================
