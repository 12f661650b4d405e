---------------------------- MODULE MCPrivacyPool ----------------------------
(***************************************************************************)
(* Constants of the model-checked instances of PrivacyPool.                *)
(***************************************************************************)
EXTENDS PrivacyPool, TLC

CONSTANTS n1, n2, n3, h1

\* Notes of values 2, 1 and 1: a transfer can turn two of them into any two of
\* the same sum, a withdrawal leaves an exit value of 1.
MCNoteValue ==
    [c \in Leaf |-> CASE c = n1 -> 2 [] c = n2 -> 1 [] c = n3 -> 1
                      [] OTHER -> 0]

MCOpening == [h \in CommitHashes |-> n1]

\* Notes of the same value that open no commit hash are alike, and so are the
\* epoch managers.
NotesSymmetry == Permutations({n2, n3}) \cup Permutations(EpochManagers)

NoTierLists == {}
OneTierLists == {<<1>>, <<2>>}
=============================================================================
