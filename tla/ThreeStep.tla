------------------------------ MODULE ThreeStep ------------------------------
(***************************************************************************)
(* Three-step identification (src/id2/client_a3.c and client_b3.c):        *)
(*   A to B  r_A, M1                                                       *)
(*   B to A  M3 | E(r_A, r_B, "Client_B", M2)                              *)
(*   A to B  M5 | E(r_B, r_A, "Client_A", M4)                              *)
(* Each side checks both random numbers and the name of the other.  A      *)
(* plaintext is a sequence of units of 16 bytes, a name, a zero byte and   *)
(* the pieces of a text.                                                   *)
(***************************************************************************)
EXTENDS Framing

VARIABLES
  aAt, aSent,      \* A: where it is, and how many of its sends are done
  m1, m4, m5,      \* what the user of A typed
  aText,           \* A: the text before '|' it has read
  aRb,             \* A: the number it took for r_B
  aHeard,          \* A: the texts M2 and M3, once it has checked B
  bAt, bSent,      \* B: the same
  m2, m3,          \* what the user of B typed
  bRa,             \* B: r_a, what the first recv() left in it
  bText,           \* B: the text before '|' it has read
  bM1,             \* B: what it has printed as M1
  bHeard,          \* B: the texts M1, M4 and M5, once it has checked A
  up, down         \* A to B and B to A

aVars == <<aAt, aSent, m1, m4, m5, aText, aRb, aHeard>>
bVars == <<bAt, bSent, m2, m3, bRa, bText, bM1, bHeard>>
vars == <<aAt, aSent, m1, m4, m5, aText, aRb, aHeard,
          bAt, bSent, m2, m3, bRa, bText, bM1, bHeard, up, down>>

ID_A == "Client_A"
ID_B == "Client_B"
Nothing == [nothing |-> TRUE]
Block == <<"junk">>

Plain(first, second, id, text) == <<first, second, id, "NUL">> \o text \o <<"NUL">>
Name(p) == StringAt(SubSeq(p, 3, Len(p)))
Words(p) == StringAfter(SubSeq(p, 3, Len(p)))

AClosed == aAt \in {"ended", "failed", "dead"}
BClosed == bAt \in {"accepted", "failed", "dead"}

-----------------------------------------------------------------------------
Init ==
  /\ aAt = "start" /\ aSent = 0 /\ aText = <<>> /\ aRb = "junk" /\ aHeard = Nothing
  /\ m1 \in Text /\ m4 = <<>> /\ m5 = <<>>
  /\ bAt = "accept" /\ bSent = 0 /\ bText = <<>> /\ bRa = "junk" /\ bHeard = Nothing
  /\ bM1 = <<>> /\ m2 = <<>> /\ m3 = <<>>
  /\ up = <<>> /\ down = <<>>

-----------------------------------------------------------------------------
(* A.                                                                      *)

AConnect ==
  /\ aAt = "start"
  /\ aAt' = IF BClosed THEN "failed" ELSE "hello"
  /\ UNCHANGED <<aSent, m1, m4, m5, aText, aRb, aHeard, bVars, up, down>>

\* The next of the n sends of a message, and where A is after the last.
\* Writing to a connection that B has closed may raise SIGPIPE.
ASends(message, next) ==
  /\ \/ /\ up' = up \o message[aSent + 1]
        /\ aSent' = (aSent + 1) % Len(message)
        /\ aAt' = IF aSent + 1 = Len(message) THEN next ELSE aAt
     \/ /\ BClosed
        /\ aAt' = "dead"
        /\ UNCHANGED <<aSent, up>>
  /\ UNCHANGED <<m1, m4, m5, aText, aRb, aHeard, bVars, down>>

AHello ==
  /\ aAt = "hello"
  /\ ASends(<< Clear(<<"r_a">>), Clear(Append(m1, "NUL")) >>, "text")

\* The loop that reads up to '|', or to the end of the connection.
AReadText ==
  /\ aAt = "text"
  /\ HasBar(down) \/ BClosed
  /\ aText' = TextBefore(down)
  /\ down' = IF HasBar(down) THEN AfterBar(down) ELSE <<>>
  /\ aAt' = "cipher"
  /\ UNCHANGED <<aSent, m1, m4, m5, aRb, aHeard, bVars, up>>

AChecks(p) == p[1] = "r_a" /\ Name(p) = <<ID_B>>

\* One recv() of the rest, decryption, parsing, and the check of r_A and B.
AReadCipher ==
  /\ aAt = "cipher"
  /\ down # <<>> \/ BClosed
  /\ LET p == aes_decrypt(down, Block) IN
       IF Decrypts(down) /\ AChecks(p)
       THEN /\ aAt' = "type"
            /\ aRb' = p[2]
            /\ aHeard' = [m2 |-> Words(p), m3 |-> aText]
       ELSE /\ aAt' = "failed"
            /\ UNCHANGED <<aRb, aHeard>>
  /\ down' = <<>>
  /\ UNCHANGED <<aSent, m1, m4, m5, aText, bVars, up>>

\* The user of A types M4 and M5.
AType ==
  /\ aAt = "type"
  /\ m4' \in Text /\ m5' \in Text
  /\ aAt' = "send"
  /\ UNCHANGED <<aSent, m1, aText, aRb, aHeard, bVars, up, down>>

\* (Slip: the two numbers in the order of B's message.)
ASend_Order ==
  /\ aAt = "send"
  /\ ASends(Sends(m5, Plain("r_a", aRb, ID_A, m4)), "ended")

ASend ==
  /\ aAt = "send"
  /\ ASends(Sends(m5, Plain(aRb, "r_a", ID_A, m4)), "ended")

-----------------------------------------------------------------------------
(* B.                                                                      *)

BAccept ==
  /\ bAt = "accept"
  /\ aAt # "start"
  /\ bAt' = "r_a"
  /\ UNCHANGED <<bSent, m2, m3, bRa, bText, bM1, bHeard, aVars, up, down>>

\* recv() of 16 bytes.  B does not look at what it returned: without them the
\* number is what the memory held.
BReadNumber ==
  /\ bAt = "r_a"
  /\ up # <<>> \/ AClosed
  /\ bRa' = IF up # <<>> THEN up[1].kind ELSE bRa
  /\ up' = Unread(up, 1)
  /\ bAt' = "m1"
  /\ UNCHANGED <<bSent, m2, m3, bText, bM1, bHeard, aVars, down>>

\* (Slip: 272 bytes are asked for in one call, and the text is not waited for.)
BReadHello_NoWait ==
  /\ bAt = "m1"
  /\ bM1' = TextBefore(up)
  /\ up' = <<>>
  /\ bAt' = "type"
  /\ UNCHANGED <<bSent, m2, m3, bRa, bText, bHeard, aVars, down>>

\* recv() of at most 256 bytes: all of M1.
BReadHello ==
  /\ bAt = "m1"
  /\ up # <<>> \/ AClosed
  /\ bM1' = StringAt([i \in 1 .. Len(up) |-> up[i].kind])
  /\ up' = <<>>
  /\ bAt' = "type"
  /\ UNCHANGED <<bSent, m2, m3, bRa, bText, bHeard, aVars, down>>

\* The user of B types M2 and M3.
BType ==
  /\ bAt = "type"
  /\ m2' \in Text /\ m3' \in Text
  /\ bAt' = "send"
  /\ UNCHANGED <<bSent, bRa, bText, bM1, bHeard, aVars, up, down>>

BSend ==
  /\ bAt = "send"
  /\ LET message == Sends(m3, Plain(bRa, "r_b", ID_B, m2)) IN
       \/ /\ down' = down \o message[bSent + 1]
          /\ bSent' = bSent + 1
          /\ bAt' = IF bSent = 2 THEN "text" ELSE "send"
       \/ /\ AClosed
          /\ bAt' = "dead"
          /\ UNCHANGED <<bSent, down>>
  /\ UNCHANGED <<m2, m3, bRa, bText, bM1, bHeard, aVars, up>>

BReadText ==
  /\ bAt = "text"
  /\ HasBar(up) \/ AClosed
  /\ bText' = TextBefore(up)
  /\ up' = IF HasBar(up) THEN AfterBar(up) ELSE <<>>
  /\ bAt' = "cipher"
  /\ UNCHANGED <<bSent, m2, m3, bRa, bM1, bHeard, aVars, down>>

BChecks(p) == p[1] = "r_b" /\ p[2] = bRa /\ Name(p) = <<ID_A>>

\* One recv() of the rest, decryption, parsing, and the check of r_B, r_A and A.
BReadCipher ==
  /\ bAt = "cipher"
  /\ up # <<>> \/ AClosed
  /\ LET p == aes_decrypt(up, Block) IN
       IF Decrypts(up) /\ BChecks(p)
       THEN /\ bAt' = "accepted"
            /\ bHeard' = [m1 |-> bM1, m4 |-> Words(p), m5 |-> bText]
       ELSE /\ bAt' = "failed"
            /\ UNCHANGED bHeard
  /\ up' = <<>>
  /\ UNCHANGED <<bSent, m2, m3, bRa, bText, bM1, aVars, down>>

-----------------------------------------------------------------------------
ADies == /\ Crashes /\ ~AClosed
         /\ aAt' = "dead"
         /\ UNCHANGED <<aSent, m1, m4, m5, aText, aRb, aHeard, bVars, up, down>>

BDies == /\ Crashes /\ ~BClosed
         /\ bAt' = "dead"
         /\ UNCHANGED <<bSent, m2, m3, bRa, bText, bM1, bHeard, aVars, up, down>>

A == AConnect \/ AHello \/ AReadText \/ AReadCipher \/ AType \/ ASend
B == BAccept \/ BReadNumber \/ BReadHello \/ BType \/ BSend \/ BReadText \/ BReadCipher

Next == A \/ B \/ ADies \/ BDies

Spec == Init /\ [][Next]_vars

\* Both programs run, and their users answer the prompts.
FairSpec == Spec /\ WF_vars(A) /\ WF_vars(B)

-----------------------------------------------------------------------------
(* Properties.                                                             *)

\* The variables have their types.
ThreeStepTypeOK ==
  /\ aAt \in {"start", "hello", "text", "cipher", "type", "send",
              "ended", "failed", "dead"}
  /\ bAt \in {"accept", "r_a", "m1", "type", "send", "text", "cipher",
              "accepted", "failed", "dead"}
  /\ aSent \in 0 .. 2 /\ bSent \in 0 .. 3
  /\ m1 \in Text /\ {m2, m3, m4, m5} \subseteq Text \cup {<<>>}
  /\ bRa \in {"junk", "r_a"} /\ aRb \in {"junk", "r_b"}
  /\ aHeard # Nothing => aRb = "r_b"

\* The variables always have their types; A accepts only what B has answered to
\* r_A, and B only what A has answered to
\* r_B; each has the texts that the user of the other typed.
Verdict(h, closed) == IF h # Nothing THEN "accepted"
                      ELSE IF closed THEN "refused" ELSE "none"
One(h) == IF h = Nothing THEN {} ELSE {h}
AChallengesB == INSTANCE Challenge
  WITH Texts   <- [m2 : Text, m3 : Text],
       said    <- IF bSent = 3 THEN {[m2 |-> m2, m3 |-> m3]} ELSE {},
       verdict <- Verdict(aHeard, AClosed),
       heard   <- One(aHeard)
BChallengesA == INSTANCE Challenge
  WITH Texts   <- [m1 : Text, m4 : Text, m5 : Text],
       said    <- IF aAt = "ended" THEN {[m1 |-> m1, m4 |-> m4, m5 |-> m5]} ELSE {},
       verdict <- Verdict(bHeard, BClosed),
       heard   <- One(bHeard)
ThreeStepIdentifies == []ThreeStepTypeOK /\ AChallengesB!CSpec /\ BChallengesA!CSpec

\* Without kills, and with texts before '|' that hold none themselves, both
\* accept.
Plainly(text) == \A k \in 1 .. Len(text) : text[k] # "|"
ThreeStepCompletes ==
  [](aAt # "dead" /\ bAt # "dead" /\ Plainly(m3) /\ Plainly(m5))
    => <>(bAt = "accepted")
=============================================================================
