------------------------------ MODULE Poseidon ------------------------------
(***************************************************************************)
(* The two Rust ports of the Poseidon hash: poseidon.rs of the CosmWasm    *)
(* pool, and the one at the end of the Substrate pallet's lib.rs.  Both    *)
(* hash the nodes of the note tree and the nullifiers of an epoch, so two  *)
(* chains agree on a root only if their ports agree.                       *)
(*                                                                         *)
(* The field is scaled down: a number has two digits in base 16 instead of *)
(* four limbs of 64 bits.  Scalar and PalletDigits are the digits, most    *)
(* significant first, of the scalar field's modulus and of the number the  *)
(* pallet writes in its place.  All rounds are there (8 full, 57 partial), *)
(* and every constant is the last byte of the source's; the ports' tables  *)
(* are equal, so they are written once.                                    *)
(***************************************************************************)
EXTENDS Integers, Sequences

CONSTANTS
    Words,          \* the words that are hashed
    Scalar,         \* the digits of the BN254 scalar field's modulus
    PalletDigits    \* the digits of the array BN254_MODULUS in the pallet, in the order written

Base == 16

VARIABLES
    left, right,    \* the two words that are hashed
    round,          \* the number of rounds done
    state,          \* the three field elements, in the CosmWasm pool
    palletState     \* the same in the pallet

vars == <<left, right, round, state, palletState>>

(***************************************************************************)
(* The tables both ports share.                                            *)
(***************************************************************************)
mdsMatrix ==
    << <<139, 113, 167>>, <<224, 35, 17>>, <<109, 26, 5>> >>

FULL_RC_FIRST ==
    << <<177, 100, 245>>, <<208, 171, 41>>, <<106, 21, 156>>, <<230, 55, 157>> >>

PARTIAL_RC ==
    <<224, 27, 29, 30, 43, 44, 61, 78, 95, 106, 123, 140, 157, 14, 31, 42, 59, 76, 93,
      110, 127, 138, 155, 12, 29, 46, 63, 74, 91, 108, 125, 142, 159, 10, 27, 44, 61, 78,
      95, 106, 123, 140, 157, 14, 30, 41, 58, 75, 92, 109, 126, 143, 144, 1, 18, 35, 52>>

FULL_RC_LAST ==
    << <<48, 135, 243>>, <<75, 100, 243>>, <<124, 215, 227>>, <<69, 168, 231>> >>

FirstFull == Len(FULL_RC_FIRST)

Partials == FirstFull + Len(PARTIAL_RC)

Rounds == Partials + Len(FULL_RC_LAST)

(***************************************************************************)
(* The port of the CosmWasm pool.                                          *)
(***************************************************************************)

\* Bytes with the most significant one first.
from_be_bytes(word) == word[1] * Base + word[2]

to_be_bytes(n) == <<n \div Base, n % Base>>

p == from_be_bytes(Scalar)

addmod(a, b) == (a + b) % p

mulmod(a, b) == (a * b) % p

sbox(x) == LET x2 == mulmod(x, x) IN mulmod(mulmod(x2, x2), x)

mds(s) ==
    LET Row(i) == addmod(addmod(mulmod(mdsMatrix[i][1], s[1]), mulmod(mdsMatrix[i][2], s[2])),
                         mulmod(mdsMatrix[i][3], s[3]))
    IN  <<Row(1), Row(2), Row(3)>>

full_round(s, rc) ==
    mds(<<sbox(addmod(s[1], rc[1])), sbox(addmod(s[2], rc[2])), sbox(addmod(s[3], rc[3]))>>)

\* One round of the permutation, the n-th.
permute(s, n) ==
    CASE n \in 1 .. FirstFull -> full_round(s, FULL_RC_FIRST[n])
      [] n \in FirstFull + 1 .. Partials ->
             mds(<<sbox(addmod(s[1], PARTIAL_RC[n - FirstFull])), s[2], s[3]>>)
      [] n \in Partials + 1 .. Rounds -> full_round(s, FULL_RC_LAST[n - Partials])

\* What poseidon_hash_hex absorbs and what it returns.
AbsorbHex(l, r) == <<0, from_be_bytes(l) % p, from_be_bytes(r) % p>>

SqueezeHex(s) == to_be_bytes(s[1])

(***************************************************************************)
(* The port of the pallet.  A U256 is made of an array of limbs whose      *)
(* first element is the least significant one.                             *)
(***************************************************************************)
BN254_MODULUS == PalletDigits[1] + PalletDigits[2] * Base

u256_addmod(a, b, m) == (a + b) % m

u256_mulmod(a, b, m) == (a * b) % m

pallet_sbox(x) ==
    LET m == BN254_MODULUS
        x2 == u256_mulmod(x, x, m)
    IN  u256_mulmod(u256_mulmod(x2, x2, m), x, m)

pallet_mds(s) ==
    LET m == BN254_MODULUS
        Term(i, j) == u256_mulmod(mdsMatrix[i][j], s[j], m)
        Row(i) == u256_addmod(u256_addmod(Term(i, 1), Term(i, 2), m), Term(i, 3), m)
    IN  <<Row(1), Row(2), Row(3)>>

\* What poseidon_hash of the pallet absorbs, the n-th round of its three
\* loops (only the constants of the partial rounds are reduced before they
\* are added), and what it returns.
Absorb(l, r) ==
    <<0, from_be_bytes(l) % BN254_MODULUS, from_be_bytes(r) % BN254_MODULUS>>

poseidon_hash(s, n) ==
    LET m == BN254_MODULUS
        Full(rc) == pallet_mds(<<pallet_sbox(u256_addmod(s[1], rc[1], m)),
                                 pallet_sbox(u256_addmod(s[2], rc[2], m)),
                                 pallet_sbox(u256_addmod(s[3], rc[3], m))>>)
        Partial(rc) == pallet_mds(<<pallet_sbox(u256_addmod(s[1], rc % m, m)), s[2], s[3]>>)
    IN  CASE n \in 1 .. FirstFull -> Full(FULL_RC_FIRST[n])
          [] n \in FirstFull + 1 .. Partials -> Partial(PARTIAL_RC[n - FirstFull])
          [] n \in Partials + 1 .. Rounds -> Full(FULL_RC_LAST[n - Partials])

Squeeze(s) == to_be_bytes(s[1])

-----------------------------------------------------------------------------
Init ==
    /\ left \in Words
    /\ right \in Words
    /\ round = 0
    /\ state = AbsorbHex(left, right)
    /\ palletState = Absorb(left, right)

\* Both ports do their next round.
Round ==
    /\ round < Rounds
    /\ round' = round + 1
    /\ state' = permute(state, round')
    /\ palletState' = poseidon_hash(palletState, round')
    /\ UNCHANGED <<left, right>>

Next == Round

Spec == Init /\ [][Next]_vars

-----------------------------------------------------------------------------
(***************************************************************************)
(* The pallet hashes as the other ports do.  Its lib.rs calls the function *)
(* "BN254-compatible", over the scalar field whose modulus is p, and       *)
(* declares BN254_MODULUS as "BN254 scalar field modulus".  The array      *)
(* holds the digits of the curve's base field, and U256 reads its first    *)
(* limb, marked "limb 3 (most significant)", as the least significant one: *)
(* the pallet computes modulo a third number.                              *)
(***************************************************************************)
PortsAgree == round = Rounds => Squeeze(palletState) = SqueezeHex(state)
=============================================================================
