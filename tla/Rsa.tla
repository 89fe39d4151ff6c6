--------------------------------- MODULE Rsa ---------------------------------
(***************************************************************************)
(* src/rsa.c: rsa_gen_key() with the recursive extendedGCD() of            *)
(* essential_func.c, rsa_encode() and rsa_decode().  A message is a        *)
(* sequence of bytes; a ciphertext is the sequence of the numbers that are *)
(* written in hexadecimal with a 'g' after each.                           *)
(***************************************************************************)
EXTENDS Integers, Sequences, Arithmetic, Chunks

CONSTANTS
  Bits,      \* bits of a prime (256)
  e,         \* the public exponent (65537)
  Room,      \* sizeof(unpaded), what the decoded text is given (8)
  Messages   \* what may be encoded

ASSUME RsaConstants == /\ Bits \in Nat /\ Bits > 2
                       /\ e \in Nat \ {0}
                       /\ Byte \in Nat /\ CHUNKSIZE \in 1 .. Byte - 1
                       /\ Byte ^ CHUNKSIZE <= 2 ^ (2 * Bits - 2)
                       /\ Room \in Nat \ {0}
                       /\ Messages \subseteq Seq(0 .. Byte - 1)

VARIABLES
  at,      \* what has been done last
  p, q,    \* the primes
  calls,   \* the calls of extendedGCD() that have not returned: a and b
  returned,\* what the last one that returned left in gcd, x and y
  d,       \* the private exponent
  message, \* what was encoded
  cipher,  \* the ciphertext
  quiet,   \* whether rsa_decode() was called with verbose = 0
  out      \* what it returned

vars == <<at, p, q, calls, returned, d, message, cipher, quiet, out>>
keyVars == <<p, q, calls, returned, d>>

n == p * q
phi == (p - 1) * (q - 1)
NoResult == [gcd |-> 0, x |-> 0, y |-> 0]

-----------------------------------------------------------------------------
Init ==
  /\ at = "start"
  /\ p = 0 /\ q = 0
  /\ calls = <<>> /\ returned = NoResult
  /\ d = 0
  /\ message = <<>> /\ cipher = <<>> /\ quiet = FALSE /\ out = <<>>

GeneratePrimes ==
  /\ at = "start"
  /\ p' \in generate_prime(Bits)
  /\ q' \in generate_prime(Bits)
  /\ calls' = << [a |-> e, b |-> (p' - 1) * (q' - 1)] >>
  /\ at' = "call"
  /\ UNCHANGED <<returned, d, message, cipher, quiet, out>>

\* miller_rabin_test() compares and counts with an mpz_t that was never
\* initialized: it may read or write where there is no memory.
Abort ==
  /\ at = "start"
  /\ at' = "aborted"
  /\ UNCHANGED <<keyVars, message, cipher, quiet, out>>

-----------------------------------------------------------------------------
(* extendedGCD().                                                          *)

Caller == calls[Len(calls)]
Return(result) ==
  /\ returned' = result
  /\ calls' = SubSeq(calls, 1, Len(calls) - 1)
  /\ at' = "return"
  /\ UNCHANGED <<p, q, d, message, cipher, quiet, out>>

\* b is not 0: call again with b and a mod b.
Inner(c) == [a |-> c.b, b |-> c.a % c.b]
Recurse ==
  /\ at = "call"
  /\ Caller.b # 0
  /\ calls' = Append(calls, Inner(Caller))
  /\ UNCHANGED <<at, p, q, returned, d, message, cipher, quiet, out>>

ReturnBase ==
  /\ at = "call"
  /\ Caller.b = 0
  /\ Return([gcd |-> Caller.a, x |-> 1, y |-> 0])

\* The inner call had tempY for its x and tempX for its y.
\* (Slip: the two are not swapped.)
Combine_Unswapped(c, r) == [gcd |-> r.gcd, x |-> r.x, y |-> r.y - (c.a \div c.b) * r.x]

Combine(c, r) == [gcd |-> r.gcd, x |-> r.y, y |-> r.x - (c.a \div c.b) * r.y]
ReturnCombined ==
  /\ at = "return"
  /\ calls # <<>>
  /\ Return(Combine(Caller, returned))

\* (Slip: x as it is.)
PrivateExponent_Raw(x) == x

\* d = x + phi mod phi.  The gcd is not looked at.
PrivateExponent(x) == (x + phi) % phi
SaveKeys ==
  /\ at = "return"
  /\ calls = <<>>
  /\ d' = PrivateExponent(returned.x)
  /\ at' = "keys"
  /\ UNCHANGED <<p, q, calls, returned, message, cipher, quiet, out>>

-----------------------------------------------------------------------------
(* rsa_encode() and rsa_decode().                                          *)

\* (Slip: as many chunks as the message has, without its padding.)
Encoded_Less(data) ==
  [j \in 1 .. Chunks(data) |-> fast_power_mod(Number(Chunk(data, j)), e, n)]

Encoded(data) ==
  LET padded == pkcs7_pad(data) IN
    [j \in 1 .. Chunks(padded) |-> fast_power_mod(Number(Chunk(padded, j)), e, n)]

\* Only a verbose call raises to the power; a last chunk that is 0 is dropped.
Decrypted(silent) ==
  LET m(j) == IF silent THEN 0 ELSE fast_power_mod(cipher[j], d, n)
      count == IF cipher # <<>> /\ m(Len(cipher)) = 0 THEN Len(cipher) - 1
               ELSE Len(cipher)
  IN  [i \in 1 .. count * CHUNKSIZE |->
         Bytes(m(((i - 1) \div CHUNKSIZE) + 1))[((i - 1) % CHUNKSIZE) + 1]]

\* strcpy() copies up to the first zero byte.  After the unpadded text comes
\* what the memory held.
Old == {<<0>>, <<1, 0>>}
String(s) == SubSeq(s, 1, (CHOOSE i \in 1 .. Len(s) :
                             s[i] = 0 /\ \A k \in 1 .. i - 1 : s[k] # 0) - 1)

Encode(m) ==
  /\ at = "keys"
  /\ message' = m
  /\ cipher' = Encoded(m)
  /\ at' = "encoded"
  /\ UNCHANGED <<keyVars, quiet, out>>

Decode(silent) ==
  /\ at = "encoded"
  /\ quiet' = silent
  /\ LET padded == Decrypted(silent)
         long == padded # <<>> /\ LastByte(padded) > Len(padded)
     IN  \E old \in Old :
           \/ /\ ~long
              /\ out' = String(Unpadded(padded) \o old)
              /\ at' = "decoded"
           \/ /\ long \/ Len(String(Unpadded(padded) \o old)) >= Room
              /\ at' = "crashed"
              /\ UNCHANGED out
  /\ UNCHANGED <<keyVars, message, cipher>>

Next == \/ GeneratePrimes \/ Abort
        \/ Recurse \/ ReturnBase \/ ReturnCombined \/ SaveKeys
        \/ \E m \in Messages : Encode(m)
        \/ \E silent \in BOOLEAN : Decode(silent)

Spec == Init /\ [][Next]_vars

-----------------------------------------------------------------------------
(* Properties.                                                             *)

\* The variables have their types.
RsaTypeOK ==
  /\ at \in {"start", "aborted", "call", "return", "keys", "encoded",
            "decoded", "crashed"}
  /\ p \in Nat /\ q \in Nat /\ d \in Nat
  /\ calls \in Seq([a : Nat, b : Nat])
  /\ returned \in [gcd : Nat, x : Int, y : Int]
  /\ message \in Messages \cup {<<>>}
  /\ quiet \in BOOLEAN
  /\ at = "call" => calls # <<>>

\* What generate_prime() returns is prime, although the squarings of the test
\* never take place.
IsPrime(m) == m > 1 /\ \A f \in 2 .. m - 1 : m % f # 0
PrimesArePrime == p # 0 => IsPrime(p) /\ IsPrime(q)

\* Whenever a call of extendedGCD() returns, at whatever depth, its result is
\* the combination x, y of its own arguments, and divides them.
Finished == IF calls = <<>> THEN [a |-> e, b |-> phi] ELSE Inner(Caller)
Divides(f, m) == \E k \in 0 .. m : m = f * k
Bezout ==
  at = "return" =>
    /\ Finished.a * returned.x + Finished.b * returned.y = returned.gcd
    /\ Divides(returned.gcd, Finished.a) /\ Divides(returned.gcd, Finished.b)

\* Where the gcd is 1 the saved exponents are inverse to each other, and the
\* private one is between 0 and phi.
KeysAreInverse ==
  at \notin {"call", "return"} /\ returned.gcd = 1 =>
    /\ d \in 0 .. phi - 1
    /\ (e * d) % phi = 1

\* Then, and if the two primes differ (which nothing ensures), a verbose
\* rsa_decode() returns the message, followed by what the memory held, or the
\* message up to its first zero byte.
HasZero(s) == \E i \in 1 .. Len(s) : s[i] = 0
RoundTrip ==
  at = "decoded" /\ ~quiet /\ returned.gcd = 1 /\ p # q =>
    IF HasZero(message) THEN out = String(message)
    ELSE Len(out) >= Len(message) /\ SubSeq(out, 1, Len(message)) = message
=============================================================================
