------------------------------ MODULE FiatSign ------------------------------
(***************************************************************************)
(* fiat_shamir.c: the signature, as its main() and sign.c use it: keys,    *)
(* fs_sign(), and fs_verify() of what was signed.  sha256() is ideal: of   *)
(* it only the bits for the rounds are kept, which are any, and the same   *)
(* for the same message and numbers.                                       *)
(***************************************************************************)
EXTENDS Integers, Sequences, Arithmetic

CONSTANTS
  Bits,   \* bits of a prime (512)
  Draws,  \* what mpz_urandomm() draws from
  Rounds  \* rounds (20)

VARIABLES
  at,      \* what has been done last
  n, s,    \* the private key
  x,       \* the numbers that were hashed with the message
  e,       \* the bits of that hash
  sig,     \* the signature: a number for each round
  memory,  \* what hash[] held when fs_verify() was called
  x_prime, \* the numbers it hashed
  result   \* what it returned

vars == <<at, n, s, x, e, sig, memory, x_prime, result>>

Index == 1 .. Rounds
Bit == {0, 1}

\* Drawn until it has no factor in common with n.
Units(m) == {r \in Draws \cap 1 .. m - 1 : \A f \in 2 .. r : r % f # 0 \/ m % f # 0}
Square(r, m) == (r * r) % m
mpz_invert(a, m) == CHOOSE i \in 0 .. m - 1 : (a * i) % m = 1

\* The public key.
v == [i \in Index |-> Square(s[i], n)]

-----------------------------------------------------------------------------
Init ==
  /\ at = "start"
  /\ n = 0 /\ s = <<>>
  /\ x = <<>> /\ e = <<>> /\ sig = <<>>
  /\ memory = <<>> /\ x_prime = <<>> /\ result = 0

fs_gen_key ==
  /\ at = "start"
  /\ \E p, q \in generate_prime(Bits) :
       n' = p * q /\ s' \in [Index -> Units(p * q)]
  /\ at' = "keys"
  /\ UNCHANGED <<x, e, sig, memory, x_prime, result>>

\* A number of 1024 bits does not fit in the 128 bytes it is printed to.
Overflow ==
  /\ at = "start"
  /\ at' = "crashed"
  /\ UNCHANGED <<n, s, x, e, sig, memory, x_prime, result>>

\* r is one variable: the answers of all rounds are made with what was drawn for the
\* last one.
fs_sign ==
  /\ at = "keys"
  /\ \E r \in [Index -> Units(n)] :
       /\ x' = [i \in Index |-> Square(r[i], n)]
       /\ e' \in [Index -> Bit]
       /\ sig' = [i \in Index |-> ((IF e'[i] = 1 THEN s[i] ELSE 1) * r[Rounds]) % n]
  /\ at' = "signed"
  /\ UNCHANGED <<n, s, memory, x_prime, result>>

\* (Slip: not the inverse.)
Commitment_Times(i, bit) ==
  IF bit = 1 THEN (Square(sig[i], n) * v[i]) % n ELSE Square(sig[i], n)

Commitment(i, bit) ==
  IF bit = 1 THEN (Square(sig[i], n) * mpz_invert(v[i], n)) % n ELSE Square(sig[i], n)

\* The bits are taken from memory that nothing was written to, and compared with
\* those of the new hash.
fs_verify ==
  /\ at = "signed"
  /\ memory' \in [Index -> Bit]
  /\ x_prime' = [i \in Index |-> Commitment(i, memory'[i])]
  /\ \E new_e \in IF x_prime' = x THEN {e} ELSE [Index -> Bit] :
       result' = IF new_e = memory' THEN 1 ELSE 0
  /\ at' = "verified"
  /\ UNCHANGED <<n, s, x, e, sig>>

Next == fs_gen_key \/ Overflow \/ fs_sign \/ fs_verify

-----------------------------------------------------------------------------
(* Properties.                                                             *)

\* In the last round, whose random number is still there when the answers are made,
\* fs_verify() computes the number that was hashed, if memory holds the signer's bit
\* or the public number is 1, and otherwise another.
LastRoundReproduces ==
  at = "verified" =>
    (x_prime[Rounds] = x[Rounds] <=> memory[Rounds] = e[Rounds] \/ v[Rounds] = 1)

\* "yᵢ = rᵢ * sᵢ^eᵢ mod n" (fiat_shamir.c:139) and "x'ᵢ = yᵢ² * vᵢ^{-eᵢ} mod n" (line
\* 202): in every round whose bit is the signer's, fs_verify() computes the number that
\* was hashed.
EveryRoundReproduces ==
  at = "verified" => \A i \in Index : memory[i] = e[i] => x_prime[i] = x[i]
=============================================================================
