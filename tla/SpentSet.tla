------------------------------- MODULE SpentSet -------------------------------
(***************************************************************************)
(* What the synchronisation of nullifiers promises to a chain that asks    *)
(* the hub about the notes of another chain: a nullifier is spent once,    *)
(* and what the hub knows to be spent is spent, and stays known.           *)
(***************************************************************************)
CONSTANT Nullifier

VARIABLES
    spent,    \* nullifiers spent on the source chain
    known     \* nullifiers the hub reports as spent there

SpentSetInit == spent = {} /\ known = {}

Spend(n) ==
    /\ n \in Nullifier \ spent
    /\ spent' = spent \cup {n}
    /\ UNCHANGED known

Learn(n) ==
    /\ n \in spent \ known
    /\ known' = known \cup {n}
    /\ UNCHANGED spent

SpentSetNext == \E n \in Nullifier : Spend(n) \/ Learn(n)

SpentSetSpec == SpentSetInit /\ [][SpentSetNext]_<<spent, known>>
=============================================================================
