------------------------------- MODULE ElGamal -------------------------------
(***************************************************************************)
(* el_gamal.c: key generation, encoding and decoding, and the signature.   *)
(* (el_gamal2.c has copies of the first three.)  The operations are run    *)
(* as el_gamal.c's main() and sign.c run them: keys, then one text there   *)
(* and back, or one signature and its verification.                        *)
(***************************************************************************)
EXTENDS Integers, Sequences, SequencesExt, Arithmetic, Chunks

CONSTANTS
  Bits,      \* bits of the prime (1024)
  Draws,     \* what mpz_urandomm() draws from
  Messages   \* what is encoded or signed

VARIABLES
  at,      \* what has been done last
  p, g, x, \* the private key
  message, \* what was encoded or signed
  sent,    \* the pairs of the ciphertext, or the pair of the signature
  shown,   \* what was shown with the signature
  out,     \* what el_gamal_decode() returned
  verdict  \* what el_gamal_verify() returned

vars == <<at, p, g, x, message, sent, shown, out, verdict>>
key == <<p, g, x>>

mpz_urandomm(m) == {r \in Draws : r < m}
mpz_invert(a, m) == CHOOSE i \in 0 .. m - 1 : (a * i) % m = 1
mpz_gcd(a, b) == CHOOSE f \in 1 .. b : /\ a % f = 0 /\ b % f = 0
                                       /\ \A h \in f + 1 .. b : a % h # 0 \/ b % h # 0

\* mpz_export() writes no leading zero bytes.
mpz_export(m) ==
  SubSeq(Bytes(m), Cardinality({i \in 1 .. CHUNKSIZE : m < Byte ^ (CHUNKSIZE - i)}) + 1,
         CHUNKSIZE)

y == fast_power_mod(g, x, p)

-----------------------------------------------------------------------------
Init ==
  /\ at = "start"
  /\ p = 0 /\ g = 0 /\ x = 0
  /\ message = <<>> /\ sent = <<>> /\ shown = <<>> /\ out = <<>>
  /\ verdict = FALSE

elgamal_gen_key ==
  /\ at = "start"
  /\ p' \in generate_prime(Bits)
  /\ \E r \in mpz_urandomm(p') : g' = IF r <= 1 THEN 2 ELSE r
  /\ x' \in mpz_urandomm(p')
  /\ at' = "keys"
  /\ UNCHANGED <<message, sent, shown, out, verdict>>

Pair(m, k) == << fast_power_mod(g, k, p), (fast_power_mod(y, k, p) * m) % p >>
el_gamal_encode(m) ==
  /\ at = "keys"
  /\ message' = m
  /\ LET padded == pkcs7_pad(m) IN
       \E k \in [1 .. Chunks(padded) -> mpz_urandomm(p)] :
         sent' = [j \in 1 .. Chunks(padded) |-> Pair(Number(Chunk(padded, j)), k[j])]
  /\ at' = "encoded"
  /\ UNCHANGED <<key, shown, out, verdict>>

\* (Slip: the secret of the pair is raised from g.)
Shared_G(c1) == fast_power_mod(g, x, p)

Shared(c1) == fast_power_mod(c1, x, p)
Plain(c) == (c[2] * mpz_invert(Shared(c[1]), p)) % p
el_gamal_decode ==
  /\ at = "encoded"
  /\ out' = Unpadded(FlattenSeq([j \in 1 .. Len(sent) |-> mpz_export(Plain(sent[j]))]))
  /\ at' = "decoded"
  /\ UNCHANGED <<key, message, sent, shown, verdict>>

-----------------------------------------------------------------------------
\* (Slip: modulo p.)
Proof_P(m, r, k) == ((m - x * r) * mpz_invert(k, p - 1)) % p

Proof(m, r, k) == ((m - x * r) * mpz_invert(k, p - 1)) % (p - 1)
el_gamal_sign(m) ==
  /\ at = "keys"
  /\ message' = m
  /\ \E k \in {r + 1 : r \in mpz_urandomm(p - 1)} :
       /\ mpz_gcd(k, p - 1) = 1
       /\ LET r == fast_power_mod(g, k, p)
          IN  sent' = << << r, Proof(Number(m), r, k) >> >>
  /\ at' = "signed"
  /\ UNCHANGED <<key, shown, out, verdict>>

InBounds(r, s) == r \in 1 .. p - 1 /\ s \in 1 .. p - 2
el_gamal_verify(m) ==
  /\ at = "signed"
  /\ shown' = m
  /\ LET r == sent[1][1]
         s == sent[1][2]
     IN  verdict' = /\ InBounds(r, s)
                    /\ (fast_power_mod(y, r, p) * fast_power_mod(r, s, p)) % p
                         = fast_power_mod(g, Number(m), p)
  /\ at' = "verified"
  /\ UNCHANGED <<key, message, sent, out>>

Next == \/ elgamal_gen_key
        \/ \E m \in Messages : el_gamal_encode(m)
        \/ el_gamal_decode
        \/ \E m \in Messages : el_gamal_sign(m)
        \/ \E m \in Messages : el_gamal_verify(m)

-----------------------------------------------------------------------------
(* Properties.                                                             *)

\* What el_gamal_decode() returns is the message, whatever the random numbers of
\* the chunks were, exactly when no chunk of the message starts with a zero byte:
\* leading zero bytes are not exported, and the text closes up.
ZeroFirst(m) == \E i \in 1 .. Len(m) : i % CHUNKSIZE = 1 /\ m[i] = 0
Decodes == at = "decoded" => (out = message <=> ~ZeroFirst(message))

\* A signature is accepted for the message it was made for, and for every other that
\* gives the same power of g, which is not only those that are equal modulo p - 1;
\* unless its second number came out as 0, which no signer looks at and every
\* verifier refuses.
SamePower(m1, m2) ==
  fast_power_mod(g, Number(m1), p) = fast_power_mod(g, Number(m2), p)
Verifies ==
  at = "verified" => (verdict <=> sent[1][2] # 0 /\ SamePower(message, shown))
=============================================================================
