------------------------------ MODULE PoolLedger ------------------------------
(***************************************************************************)
(* What a shielded pool promises, whichever chain it is written for: the   *)
(* Substrate pallet, the CosmWasm, the NEAR and the ink! contract each     *)
(* implement this specification.  A pool is an append-only list of note    *)
(* commitments, a set of spent nullifiers that only grows, two new ones at *)
(* a time, and a balance that only deposits raise and only withdrawals     *)
(* lower.                                                                  *)
(*                                                                         *)
(* The implementations have no list of notes: `leaves' is mapped to what   *)
(* the latest Merkle root of the pool commits to.                          *)
(***************************************************************************)
EXTENDS Naturals, Sequences, FiniteSets

CONSTANTS
    Note,         \* what a leaf may be
    Nullifier,    \* what a nullifier may be
    Capacity      \* leaves a tree can hold

VARIABLES
    leaves,       \* the note commitments, in the order of their insertion
    spent,        \* the nullifiers of the spent notes
    balance       \* what the pool says it holds for its notes

ledger == <<leaves, spent, balance>>

LedgerInit == leaves = << >> /\ spent = {} /\ balance = 0

\* The step appends k notes.
Appends(k) ==
    LET old == leaves  new == leaves'
    IN  /\ Len(new) = Len(old) + k /\ Len(new) <= Capacity
        /\ \A i \in 1..Len(old) : new[i] = old[i]
        /\ \A i \in (Len(old) + 1)..Len(new) : new[i] \in Note

\* A public deposit: one note, and the balance rises.
Shield == Appends(1) /\ balance' > balance /\ UNCHANGED spent

\* A deposit in two steps: the value first, its note later.
Escrow == balance' > balance /\ UNCHANGED <<leaves, spent>>
Reveal == Appends(1) /\ UNCHANGED <<spent, balance>>

\* Two notes are spent for two new ones; what leaves the pool was in it.
Join ==
    /\ Appends(2)
    /\ \E nul1, nul2 \in Nullifier \ spent :
          nul1 # nul2 /\ spent' = spent \cup {nul1, nul2}
    /\ balance' <= balance

LedgerNext == Shield \/ Escrow \/ Reveal \/ Join

LedgerSpec == LedgerInit /\ [][LedgerNext]_ledger
=============================================================================
