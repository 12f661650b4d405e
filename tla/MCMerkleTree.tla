----------------------------- MODULE MCMerkleTree -----------------------------
(***************************************************************************)
(* Model checking MerkleTree, and EpochRoot, the other way the contracts   *)
(* build a tree, on the same lists of leaves.                              *)
(***************************************************************************)
EXTENDS MerkleTree

CONSTANTS
    MAX_PROOF_DEPTH,      \* of the registry (32 there)
    MaxCount, ProofBound  \* bounds on the epochs and on the proofs tried

Epoch == INSTANCE EpochRootReference

-----------------------------------------------------------------------------
\* The leaves, read as the nullifiers of an epoch: the registry accepts the
\* proof of every nullifier of an epoch of the manager with two or more of them,
\* one contract building the tree that the other opens; and it accepts proofs,
\* made of nodes of the tree, only for what is in the tree, and so for no
\* nullifier that the epoch does not contain.
ProvableAreTheMembers ==
    /\ Epoch!MembersAreProvable(inserted)
    /\ Len(inserted) \in 1..MaxCount =>
          Epoch!OnlyNodesAreProvable(inserted, Leaves \cup Epoch!Nodes(inserted),
                                     Leaves \ {Zero}, {},
                                     Epoch!ProofsFrom(inserted, ProofBound))
=============================================================================
