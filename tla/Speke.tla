-------------------------------- MODULE Speke --------------------------------
(***************************************************************************)
(* The password-authenticated key exchange of src/id2: client_a_speke.c    *)
(* (A) accepts one connection and serves iterations 1, 2, ... on it;       *)
(* client_b_speke.c (B) connects and sends one authentication message per  *)
(* iteration its user types.  After "OK" the two run a Diffie-Hellman      *)
(* exchange whose generator is the hash that authenticated B, on the same  *)
(* connection.                                                             *)
(*                                                                         *)
(* A sends "OK", the length and the digits of its number in three send()   *)
(* calls.  B reads the answer with one recv() of 256 bytes, which returns  *)
(* as many of them as have arrived.                                        *)
(***************************************************************************)
EXTENDS Integers, Sequences, Stream

CONSTANTS
  Password,   \* what the two password files may hold
  Typed,      \* the iterations the user of B may type
  MAX_ITER_A, \* MAX_ITER of client_a_speke.c (1000)
  MAX_ITER_B, \* MAX_ITER of client_b_speke.c (999)
  MaxTries,   \* bound on the authentication messages of B
  Crashes     \* whether the two programs may be killed

ASSUME SpekeConstants == /\ Typed \subseteq Nat \ {0}
                         /\ MAX_ITER_A \in Nat \ {0} /\ MAX_ITER_B \in Nat \ {0}
                         /\ MaxTries \in Nat
                         /\ "junk" \notin Password
                         /\ Crashes \in BOOLEAN

VARIABLES
  pwA, pwB,      \* the password each program read
  aAt,           \* where A is
  current_iter,  \* A: the iteration it waits for
  stored_hash,   \* A: the hash the next one leads to
  received_hash, \* A: the hash that authenticated B, the generator
  aKeys,         \* A: the keys printed, by iteration
  bAt,           \* where B is
  iteration,     \* B: what its user typed
  number,        \* B: what recv_mpz() of A's number returned
  refused,       \* B: what it printed after "Auth failed:" last
  bKeys,         \* B: the keys printed, by iteration
  tries,         \* B: authentication messages sent
  up, down       \* B to A and A to B

aVars == <<pwA, aAt, current_iter, stored_hash, received_hash, aKeys>>
bVars == <<pwB, bAt, iteration, number, refused, bKeys, tries>>
vars == <<pwA, pwB, aAt, current_iter, stored_hash, received_hash, aKeys,
          bAt, iteration, number, refused, bKeys, tries, up, down>>

-----------------------------------------------------------------------------
(* Hashes, powers and messages.                                            *)

\* h^n of a password.
Chain(pw, n) == [pw |-> pw, n |-> IF n < 1 THEN 1 ELSE n]
HashOf(h) == [h EXCEPT !.n = @ + 1]

\* What B sends for an iteration.
BHash(i) == Chain(pwB, MAX_ITER_B - i + 1)

\* The power of a generator by the product of the named exponents.  Both
\* programs take the generator from a hash, modulo the same p of diff.key.
Power(h, exps) == [g |-> h, by |-> exps]
RaisedBy(power, x) == [power EXCEPT !.by = @ \cup {x}]
Junk == Power([pw |-> "junk", n |-> 0], {})

Auth(i, h)  == [kind |-> "auth", iter |-> i, hash |-> h]
Text(t)     == [kind |-> t]
Length      == [kind |-> "length"]
Digits(num) == [kind |-> "digits", num |-> num]

AClosed == aAt \in {"ended", "dead"}
BClosed == bAt \in {"ended", "dead"}

-----------------------------------------------------------------------------
Init ==
  /\ pwA \in Password /\ pwB \in Password
  /\ aAt = "auth"
  /\ current_iter = 1
  /\ stored_hash = Chain(pwA, MAX_ITER_A)
  /\ received_hash = stored_hash
  /\ aKeys = <<>>
  /\ bAt = "prompt"
  /\ iteration = 0
  /\ number = Junk
  /\ refused = "nothing"
  /\ bKeys = <<>>
  /\ tries = 0
  /\ up = <<>> /\ down = <<>>

-----------------------------------------------------------------------------
(* A.                                                                      *)

\* Answers are sent; a connection that B has closed may raise SIGPIPE instead.
ASends(m, next) ==
  \/ down' = Append(down, m) /\ aAt' = next
  \/ BClosed /\ aAt' = "dead" /\ UNCHANGED down

\* (Slip: the memcmp() is left out.)
AnswerTo_NoHash(m) == IF m.iter # current_iter THEN "Invalid iteration" ELSE "OK"

AnswerTo(m) == IF m.iter # current_iter              THEN "Invalid iteration"
               ELSE IF HashOf(m.hash) # stored_hash  THEN "Authentication failed"
               ELSE "OK"

\* recv() of an authentication message, its checks, and the answer.
ARecvAuth ==
  /\ aAt = "auth" /\ current_iter <= MAX_ITER_A
  /\ up # <<>>
  /\ LET answer == AnswerTo(Head(up)) IN
       /\ ASends(Text(answer), IF answer = "OK" THEN "length" ELSE "auth")
       /\ received_hash' = IF answer = "OK" THEN Head(up).hash ELSE received_hash
  /\ up' = <<>>
  /\ UNCHANGED <<pwA, current_iter, stored_hash, aKeys, bVars>>

\* recv() returned 0, or there is no iteration left.
AEnds ==
  /\ aAt = "auth"
  /\ current_iter <= MAX_ITER_A => up = <<>> /\ BClosed
  /\ aAt' = "ended"
  /\ UNCHANGED <<pwA, current_iter, stored_hash, received_hash, aKeys, bVars, up, down>>

\* (Slip: A reads B's number before it sends its own, as B does.)
ASendLength_Late ==
  /\ aAt = "length"
  /\ aAt' = "number"
  /\ UNCHANGED <<pwA, current_iter, stored_hash, received_hash, aKeys, bVars, up, down>>

\* The two send() calls of send_mpz(A), after the exponentiation.
ASendLength ==
  /\ aAt = "length"
  /\ ASends(Length, "digits")
  /\ UNCHANGED <<pwA, current_iter, stored_hash, received_hash, aKeys, bVars, up>>

\* (Slip: the generator is taken from the stored hash.)
ASendDigits_Stored ==
  /\ aAt = "digits"
  /\ ASends(Digits(Power(stored_hash, {"a"})), "number")
  /\ UNCHANGED <<pwA, current_iter, stored_hash, received_hash, aKeys, bVars, up>>

ASendDigits ==
  /\ aAt = "digits"
  /\ ASends(Digits(Power(received_hash, {"a"})), "number")
  /\ UNCHANGED <<pwA, current_iter, stored_hash, received_hash, aKeys, bVars, up>>

KeyPrinted(num) ==
  aKeys' = [i \in DOMAIN aKeys \cup {current_iter} |->
              IF i = current_iter THEN RaisedBy(num, "a") ELSE aKeys[i]]

\* (Slip: the hash stays where it is.)
APrint_SameHash(num) ==
  /\ KeyPrinted(num)
  /\ current_iter' = current_iter + 1
  /\ aAt' = "auth"
  /\ UNCHANGED stored_hash

\* The key is printed, and the hash moves down the chain.
APrint(num) ==
  /\ KeyPrinted(num)
  /\ stored_hash' = received_hash
  /\ current_iter' = current_iter + 1
  /\ aAt' = "auth"

\* recv_mpz(B) of a number that has arrived.
ARecvNumber ==
  /\ aAt = "number"
  /\ Len(up) >= 2 /\ up[1] = Length
  /\ APrint(up[2].num)
  /\ up' = Unread(up, 2)
  /\ UNCHANGED <<pwA, received_hash, bVars, down>>

\* recv_mpz(B) takes the first bytes of an authentication message for a length
\* of some 10^18, and waits for as many.
AStuck ==
  /\ aAt = "number"
  /\ up # <<>> /\ Head(up).kind = "auth"
  /\ aAt' = "stuck"
  /\ UNCHANGED <<pwA, current_iter, stored_hash, received_hash, aKeys, bVars, up, down>>

\* recv_mpz(B) on a connection that has ended: any number.
ARecvNothing ==
  /\ \/ aAt = "stuck"
     \/ aAt = "number" /\ Len(up) < 2
  /\ BClosed
  /\ APrint(Junk)
  /\ up' = <<>>
  /\ UNCHANGED <<pwA, received_hash, bVars, down>>

-----------------------------------------------------------------------------
(* B.                                                                      *)

BSends(m, next) ==
  \/ up' = up \o m /\ bAt' = next
  \/ AClosed /\ bAt' = "dead" /\ UNCHANGED up

\* The user types an iteration, and the message is sent.
BSendAuth(i) ==
  /\ bAt = "prompt"
  /\ tries < MaxTries
  /\ tries' = tries + 1
  /\ iteration' = i
  /\ BSends(<<Auth(i, BHash(i))>>, "response")
  /\ UNCHANGED <<pwB, number, refused, bKeys, aVars, down>>

\* The user types 0.
BExit ==
  /\ bAt = "prompt"
  /\ bAt' = "ended"
  /\ UNCHANGED <<pwB, iteration, number, refused, bKeys, tries, aVars, up, down>>

\* One recv() of 256 bytes takes everything that has arrived: an answer, a
\* length and the digits of a 512-bit number fit.
BRecvResponse ==
  /\ bAt = "response"
  /\ down # <<>>
  /\ \/ /\ down = <<Text("OK")>>
        /\ bAt' = "number"
        /\ UNCHANGED refused
     \/ /\ down # <<Text("OK")>>
        /\ bAt' = "prompt"
        /\ refused' = IF Len(down) = 1 THEN down[1].kind ELSE "several"
  /\ down' = <<>>
  /\ UNCHANGED <<pwB, iteration, number, bKeys, tries, aVars, up>>

BLosesResponse ==
  /\ bAt = "response"
  /\ down = <<>> /\ AClosed
  /\ bAt' = "dead"
  /\ UNCHANGED <<pwB, iteration, number, refused, bKeys, tries, aVars, up, down>>

\* recv_mpz(A), or any number when A is gone.
BRecvNumber ==
  /\ bAt = "number"
  /\ \/ /\ Len(down) >= 2
        /\ number' = down[2].num
        /\ down' = Unread(down, 2)
     \/ /\ Len(down) < 2 /\ AClosed
        /\ number' = Junk
        /\ down' = <<>>
  /\ bAt' = "send"
  /\ UNCHANGED <<pwB, iteration, refused, bKeys, tries, aVars, up>>

\* send_mpz(B), whose length and digits nobody reads apart, and the key.
BSendNumber ==
  /\ bAt = "send"
  /\ \/ /\ up' = up \o <<Length, Digits(Power(BHash(iteration), {"b"}))>>
        /\ bKeys' = [i \in DOMAIN bKeys \cup {iteration} |->
                       IF i = iteration THEN RaisedBy(number, "b") ELSE bKeys[i]]
        /\ bAt' = "prompt"
     \/ /\ AClosed
        /\ bAt' = "dead"
        /\ UNCHANGED <<up, bKeys>>
  /\ UNCHANGED <<pwB, iteration, number, refused, tries, aVars, down>>

-----------------------------------------------------------------------------
ADies == /\ Crashes
         /\ ~AClosed
         /\ aAt' = "dead"
         /\ UNCHANGED <<pwA, current_iter, stored_hash, received_hash, aKeys, bVars, up, down>>

BDies == /\ Crashes
         /\ ~BClosed
         /\ bAt' = "dead"
         /\ UNCHANGED <<pwB, iteration, number, refused, bKeys, tries, aVars, up, down>>

A == \/ ARecvAuth \/ AEnds \/ ASendLength \/ ASendDigits
     \/ ARecvNumber \/ AStuck \/ ARecvNothing

\* What B does without its user.
B == BRecvResponse \/ BLosesResponse \/ BRecvNumber \/ BSendNumber

Next == \/ A \/ B \/ ADies \/ BDies
        \/ BExit \/ \E i \in Typed : BSendAuth(i)

Spec == Init /\ [][Next]_vars

\* The programs run; the user of B types when he likes.
FairSpec == Spec /\ WF_vars(A) /\ WF_vars(B)

-----------------------------------------------------------------------------
(* Properties.                                                             *)

HashType == [pw : Password \cup {"junk"}, n : Nat]
PowerType == [g : HashType, by : SUBSET {"a", "b"}]
Refusal == {"Invalid iteration", "Authentication failed"}

\* The variables have their types.
TypeOK ==
  /\ pwA \in Password /\ pwB \in Password
  /\ aAt \in {"auth", "length", "digits", "number", "stuck", "ended", "dead"}
  /\ bAt \in {"prompt", "response", "number", "send", "ended", "dead"}
  /\ current_iter \in Nat /\ iteration \in Nat /\ tries \in 0 .. MaxTries
  /\ stored_hash \in HashType /\ received_hash \in HashType
  /\ number \in PowerType
  /\ refused \in {"nothing", "several", "length", "digits"} \cup Refusal
  /\ \A i \in DOMAIN aKeys : aKeys[i] \in PowerType
  /\ \A i \in DOMAIN bKeys : bKeys[i] \in PowerType
  /\ \A k \in 1 .. Len(up) : up[k].kind \in {"auth", "length", "digits"}
  /\ \A k \in 1 .. Len(down) :
       down[k].kind \in {"OK", "length", "digits"} \cup Refusal

\* The key of an iteration that A and B both computed from each other's numbers
\* is the same.
Sound(power) == power.g.pw # "junk"
KeysMatch ==
  \A i \in DOMAIN aKeys \cap DOMAIN bKeys :
    Sound(aKeys[i]) /\ Sound(bKeys[i]) => aKeys[i] = bKeys[i]

\* The variables have their types; A has printed a key for each iteration before
\* the current one, B for none past it, and where A's key is not the product of a
\* lost connection, B has printed one too; A's stored hash is always as far down
\* the chain as the iterations it served, so that no hash serves twice; and A never
\* comes to the end of its loop: the hash of the last iteration is below the first
\* of the chain.
ChainFollows ==
  /\ TypeOK
  /\ DOMAIN aKeys = 1 .. current_iter - 1
  /\ DOMAIN bKeys \subseteq 1 .. current_iter
  /\ \A i \in DOMAIN aKeys : Sound(aKeys[i]) => i \in DOMAIN bKeys
  /\ stored_hash = [pw |-> pwA, n |-> MAX_ITER_A - current_iter + 1]
  /\ current_iter <= MAX_ITER_B + 1

\* B is served only with A's password.
SamePassword == current_iter > 1 \/ aAt \in {"length", "digits", "number"} => pwA = pwB

\* When B reads each "OK" before A sends more, neither program waits for the
\* other for ever: every message of B is answered, and every number of A.
OneAnswerAtATime == [](refused \in {"nothing"} \cup Refusal)
NobodyStuck ==
  OneAnswerAtATime => /\ bAt = "response" ~> bAt # "response"
                      /\ aAt = "number" ~> aAt # "number"
=============================================================================
