------------------------------- MODULE FiatId -------------------------------
(***************************************************************************)
(* The Fiat-Shamir identification of src/id2: server_fiat.c writes a key   *)
(* pair to two files, client_a_fiat.c (the prover) listens and             *)
(* client_b_fiat.c (the verifier) connects; Rounds times the prover sends  *)
(* x = r^2 mod n, the verifier answers a bit e and the prover sends        *)
(* y = r * s^e mod n; then the verifier sends one byte, its verdict.       *)
(*                                                                         *)
(* recv_mpz() reads a number whole, or nothing when the connection has     *)
(* ended, without telling its caller.  send_mpz() makes two send() calls:  *)
(* on a connection the other end has closed the second raises SIGPIPE, and *)
(* nobody handles it.                                                      *)
(***************************************************************************)
EXTENDS Integers, Sequences, Stream

CONSTANTS
  Key,      \* the key pairs server_fiat.c may draw: records [n, s]
  Rounds,   \* 20 in the code
  Crashes   \* whether the two programs may be killed

ASSUME FiatConstants == /\ Key \subseteq [n : Nat \ {0, 1}, s : Nat \ {0}]
                        /\ Rounds \in Nat \ {0}
                        /\ Crashes \in BOOLEAN

VARIABLES
  gen,      \* server_fiat.c: "idle", "open" (files truncated) or "done"
  pri, pub, \* the two files: NoKey when empty
  pKey,     \* prover: n and s
  pAt,      \* prover: where it is
  i,        \* prover: rounds it has finished
  r, e,     \* prover: its random number, and the challenge it received
  pSays,    \* prover: what it has printed
  vKey,     \* verifier: n and v
  vAt,      \* verifier: where it is
  j,        \* verifier: rounds it has finished
  x, bit,   \* verifier: the commitment, and the challenge it sent
  validated,\* verifier: its verdict, 0 or 1
  vSays,    \* verifier: what it has printed
  up, down  \* prover to verifier and back

proverVars == <<pKey, pAt, i, r, e, pSays>>
verifierVars == <<vKey, vAt, j, x, bit, validated, vSays>>
fileVars == <<gen, pri, pub>>
vars == <<gen, pri, pub, pKey, pAt, i, r, e, pSays,
          vKey, vAt, j, x, bit, validated, vSays, up, down>>

NoKey == [n |-> 0, s |-> 0]
NoPublicKey == [n |-> 0, v |-> 0]

Mpz(v)  == [kind |-> "mpz", v |-> v]
Byte(v) == [kind |-> "byte", v |-> v]

\* fast_power_mod() for the exponents of the two programs: the result is reduced
\* when it has been multiplied, and the base when it has been squared.
fast_power_mod(b, exp, n) == CASE exp = 0 -> 1
                               [] exp = 1 -> b % n
                               [] exp = 2 -> ((b * b) % n) % n

\* What is made of a key, and the two sides of the verifier's equation.
PublicKey(k) == [n |-> k.n, v |-> (k.s * k.s) % k.n]
Commitment(rr, n) == (rr * rr) % n
\* (Slip: the secret is multiplied in whatever the challenge.)
Response_Always(rr, k, exp) == (rr * k.s) % k.n

Response(rr, k, exp) == (rr * fast_power_mod(k.s, exp, k.n)) % k.n
Holds(k, xx, exp, y) == (y * y) % k.n = (xx * fast_power_mod(k.v, exp, k.n)) % k.n

ProverClosed   == pAt \in {"ended", "dead"}
VerifierClosed == vAt \in {"ended", "dead"}

-----------------------------------------------------------------------------
Init ==
  /\ gen = "idle"
  /\ \E k \in Key : pri = k /\ pub = k
  /\ pKey = NoKey /\ vKey = NoPublicKey
  /\ pAt = "start" /\ vAt = "start"
  /\ i = 0 /\ j = 0
  /\ r = 0 /\ e = 0 /\ x = 0 /\ bit = 0
  /\ validated = 1
  /\ pSays = "nothing" /\ vSays = "nothing"
  /\ up = <<>> /\ down = <<>>

-----------------------------------------------------------------------------
(* The key generator, run once more while the others start.                *)

\* fopen(..., "w") empties both files.
OpenFiles ==
  /\ gen = "idle"
  /\ gen' = "open"
  /\ pri' = NoKey /\ pub' = NoKey
  /\ UNCHANGED <<proverVars, verifierVars, up, down>>

\* The two fclose() calls write the new key, the private file first.
WritePrivate ==
  /\ gen = "open"
  /\ pri' \in Key
  /\ gen' = "half"
  /\ UNCHANGED <<pub, proverVars, verifierVars, up, down>>

WritePublic ==
  /\ gen = "half"
  /\ pub' = pri
  /\ gen' = "done"
  /\ UNCHANGED <<pri, proverVars, verifierVars, up, down>>

-----------------------------------------------------------------------------
(* The prover.                                                             *)

\* load_private_key(), then socket, bind and listen.  An empty file leaves the
\* buffers as they are on the stack: any key, or no number at all.
ProverStart ==
  /\ pAt = "start"
  /\ pKey' \in IF pri = NoKey THEN Key \cup {NoKey} ELSE {pri}
  /\ pAt' = "listen"
  /\ UNCHANGED <<fileVars, i, r, e, pSays, verifierVars, up, down>>

\* With a modulus of 0 the first mpz_urandomm() ends the run.
ProverAccept ==
  /\ pAt = "listen"
  /\ vAt \notin {"start", "loaded"}
  /\ pAt' = IF pKey = NoKey THEN "dead" ELSE "commit"
  /\ UNCHANGED <<fileVars, pKey, i, r, e, pSays, verifierVars, up, down>>

\* send_mpz() of the prover ends it when the verifier has closed.
ProverSends(m, next) ==
  IF VerifierClosed
    THEN pAt' = "dead" /\ UNCHANGED up
    ELSE pAt' = next /\ up' = Append(up, m)

Commit ==
  /\ pAt = "commit"
  /\ r' \in 1 .. pKey.n - 1
  /\ ProverSends(Mpz(Commitment(r', pKey.n)), "challenge")
  /\ UNCHANGED <<fileVars, pKey, i, e, pSays, verifierVars, down>>

\* (Slips: the challenge is not kept; recv_mpz() waits for a number for ever.)
RecvChallenge_NotKept ==
  /\ pAt = "challenge"
  /\ down # <<>> /\ Head(down).kind = "mpz"
  /\ down' = Tail(down)
  /\ pAt' = "respond"
  /\ UNCHANGED <<fileVars, pKey, i, r, e, pSays, verifierVars, up>>

RecvChallenge_Waits ==
  /\ pAt = "challenge"
  /\ down # <<>> /\ Head(down).kind = "mpz"
  /\ e' = Head(down).v
  /\ down' = Tail(down)
  /\ pAt' = "respond"
  /\ UNCHANGED <<fileVars, pKey, i, r, pSays, verifierVars, up>>

\* recv_mpz(e): a number, or, at the end of the connection and whatever byte
\* is in front of it, what the memory holds.
RecvChallenge ==
  /\ pAt = "challenge"
  /\ \/ /\ down # <<>> /\ Head(down).kind = "mpz"
        /\ e' = Head(down).v
        /\ down' = Tail(down)
     \/ /\ VerifierClosed
        /\ down # <<>> => Head(down).kind = "byte"
        /\ e' \in 0 .. 2
        /\ down' = <<>>
  /\ pAt' = "respond"
  /\ UNCHANGED <<fileVars, pKey, i, r, pSays, verifierVars, up>>

Respond ==
  /\ pAt = "respond"
  /\ ProverSends(Mpz(Response(r, pKey, e)), IF i + 1 < Rounds THEN "commit" ELSE "verdict")
  /\ i' = i + 1
  /\ UNCHANGED <<fileVars, pKey, r, e, pSays, verifierVars, down>>

\* recv() of the verdict: without one the byte is what the memory holds.
RecvVerdict ==
  /\ pAt = "verdict"
  /\ \E b \in {0, 1} :
       /\ IF down # <<>> THEN b = Head(down).v ELSE VerifierClosed
       /\ pSays' = IF b # 0 THEN "successful" ELSE "failed"
  /\ down' = <<>>
  /\ pAt' = "ended"
  /\ UNCHANGED <<fileVars, pKey, i, r, e, verifierVars, up>>

-----------------------------------------------------------------------------
(* The verifier.                                                           *)

\* load_public_key(), with the same freedom when the file is empty.
VerifierStart ==
  /\ vAt = "start"
  /\ vKey' \in IF pub = NoKey THEN {PublicKey(k) : k \in Key} \cup {NoPublicKey}
                             ELSE {PublicKey(pub)}
  /\ vAt' = "loaded"
  /\ UNCHANGED <<fileVars, j, x, bit, validated, vSays, proverVars, up, down>>

\* connect() is refused when the prover does not listen.
VerifierConnect ==
  /\ vAt = "loaded"
  /\ vAt' = IF pAt = "listen" THEN "commitment" ELSE "dead"
  /\ UNCHANGED <<fileVars, vKey, j, x, bit, validated, vSays, proverVars, up, down>>

\* What recv_mpz() of the verifier returns: the next number, or, when the
\* prover is gone, whatever number the memory holds.
VerifierGets ==
  IF up # <<>> THEN {Head(up).v} ELSE IF ProverClosed THEN 0 .. vKey.n ELSE {}

\* recv_mpz(x), the random bit and send_mpz(e), which ends the verifier when
\* the prover is gone.
Challenge ==
  /\ vAt = "commitment"
  /\ x' \in VerifierGets
  /\ up' = Unread(up, 1)
  /\ bit' \in {0, 1}
  /\ IF ProverClosed
       THEN vAt' = "dead" /\ UNCHANGED down
       ELSE vAt' = "response" /\ down' = Append(down, Mpz(bit'))
  /\ UNCHANGED <<fileVars, vKey, j, validated, vSays, proverVars>>

\* recv_mpz(y) and the equation; the first round that fails ends the loop,
\* and a modulus of 0 the run.
Check ==
  /\ vAt = "response"
  /\ up' = Unread(up, 1)
  /\ \E y \in VerifierGets :
       \/ /\ vKey.n # 0 /\ Holds(vKey, x, bit, y)
          /\ j' = j + 1
          /\ vAt' = IF j + 1 < Rounds THEN "commitment" ELSE "verdict"
          /\ UNCHANGED validated
       \/ /\ vKey.n # 0 /\ ~Holds(vKey, x, bit, y)
          /\ validated' = 0
          /\ vAt' = "verdict"
          /\ UNCHANGED j
       \/ /\ vKey.n = 0
          /\ vAt' = "dead"
          /\ UNCHANGED <<j, validated>>
  /\ UNCHANGED <<fileVars, vKey, x, bit, vSays, proverVars, down>>

\* (Slip: the verdict sent is always 1.)
Conclude_Always ==
  /\ vAt = "verdict"
  /\ down' = Append(down, Byte(1))
  /\ vSays' = "successful"
  /\ vAt' = "ended"
  /\ UNCHANGED <<fileVars, vKey, j, x, bit, validated, proverVars, up>>

\* send(), printf() and close().  The condition of the printf() is the address
\* of the verdict, which is never NULL.
Conclude ==
  /\ vAt = "verdict"
  /\ down' = Append(down, Byte(validated))
  /\ vSays' = "successful"
  /\ vAt' = "ended"
  /\ UNCHANGED <<fileVars, vKey, j, x, bit, validated, proverVars, up>>

\* send() of the verdict to a prover that was killed with unread bytes.
ConcludeBreaks ==
  /\ vAt = "verdict"
  /\ pAt = "dead"
  /\ vAt' = "dead"
  /\ UNCHANGED <<fileVars, vKey, j, x, bit, validated, vSays, proverVars, up, down>>

\* Either program is killed while they talk.
ProverDies ==
  /\ Crashes
  /\ pAt \in {"commit", "challenge", "respond", "verdict"}
  /\ pAt' = "dead"
  /\ UNCHANGED <<fileVars, pKey, i, r, e, pSays, verifierVars, up, down>>

VerifierDies ==
  /\ Crashes
  /\ vAt \in {"commitment", "response", "verdict"}
  /\ vAt' = "dead"
  /\ UNCHANGED <<fileVars, vKey, j, x, bit, validated, vSays, proverVars, up, down>>

-----------------------------------------------------------------------------
KeyGen == OpenFiles \/ WritePrivate \/ WritePublic
Prover == ProverStart \/ ProverAccept \/ Commit \/ RecvChallenge \/ Respond \/ RecvVerdict
Verifier == VerifierStart \/ VerifierConnect \/ Challenge \/ Check
            \/ Conclude \/ ConcludeBreaks

Next == KeyGen \/ Prover \/ Verifier \/ ProverDies \/ VerifierDies

Spec == Init /\ [][Next]_vars

\* Each program runs to its end once it is started.
FairSpec == Spec /\ WF_vars(Prover) /\ WF_vars(Verifier)

-----------------------------------------------------------------------------
(* Properties.                                                             *)

Upward   == [kind : {"mpz"}, v : Nat]
Downward == [kind : {"mpz", "byte"}, v : {0, 1}]

\* The variables have their types.
TypeOK ==
  /\ gen \in {"idle", "open", "half", "done"}
  /\ pri \in Key \cup {NoKey} /\ pub \in Key \cup {NoKey}
  /\ pKey \in Key \cup {NoKey}
  /\ pAt \in {"start", "listen", "commit", "challenge", "respond", "verdict", "ended", "dead"}
  /\ vAt \in {"start", "loaded", "commitment", "response", "verdict", "ended", "dead"}
  /\ i \in 0 .. Rounds /\ j \in 0 .. Rounds
  /\ r \in Nat /\ x \in Nat /\ e \in 0 .. 2 /\ bit \in {0, 1}
  /\ validated \in {0, 1}
  /\ pSays \in {"nothing", "successful", "failed"}
  /\ vSays \in {"nothing", "successful"}
  /\ up \in Seq(Upward)
  /\ down \in Seq(Downward)

SameKey == pKey # NoKey /\ vKey = PublicKey(pKey)

\* Completeness: with the two halves of one key pair no round fails, unless the
\* prover is gone, whatever happened to the files meanwhile.
HonestRoundsHold == SameKey /\ ~ProverClosed => validated = 1

\* The variables have their types, and the two loops stay in step: the prover is
\* in the round of the verifier or has just finished it, and nobody reads a
\* number meant for another place.
InStep ==
  /\ TypeOK
  /\ validated = 1 /\ vAt \in {"commitment", "response"} /\ ~ProverClosed =>
       /\ i \in {j, j + 1}
       /\ Len(up) + Len(down) <= 2
       /\ vAt = "response" /\ pAt = "respond" => e = bit

\* The prover prints "Verification successful" only if the verifier went
\* through all the rounds, unless the verifier was lost (client_a_fiat.c prints
\* the byte of a recv() it does not check).
SuccessIsTrue == pSays = "successful" /\ vAt # "dead" => validated = 1 /\ j = Rounds

\* Both programs end once the verifier has connected: neither waits for the
\* other for ever, although the verifier leaves its loop at the first failure
\* and the prover does not know.
BothEnd == (vAt = "commitment") ~> (ProverClosed /\ VerifierClosed)

(* What the programs say of themselves, and do not do.                     *)

\* client_b_fiat.c prints "SUCCESSFUL IDENTIFICATION!" under the condition that
\* the prover was validated.
SuccessIsValidated == vSays = "successful" => validated = 1
=============================================================================
