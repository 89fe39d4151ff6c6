------------------------------- MODULE TwoStep -------------------------------
(***************************************************************************)
(* Two-step identification (src/id2/client_a.c and client_b.c): A sends    *)
(* M2 | E(t_A or r_A, "Client_A", M1), and B answers                       *)
(* M4 | E(the same, "Client_B", M3).  The message does not say whether it  *)
(* starts with a time (8 bytes) or a random number (16 bytes): B takes a   *)
(* first byte with its high bit set for a time.                            *)
(*                                                                         *)
(* Plaintexts are sequences of units of 8 bytes, a zero byte, and the      *)
(* pieces of a text; both identities have 8 letters.                       *)
(***************************************************************************)
EXTENDS Framing

VARIABLES
  choice, m1, m2, \* what the user of A typed
  aAt, aSent,     \* A: where it is, and how many of its three sends are done
  aText,          \* A: the text before '|' it has read
  aHeard,         \* A: the texts M3 and M4 it has printed after the check
  bAt, bSent,     \* B: the same
  bText,          \* B: the text before '|' it has read
  auth_data,      \* B: the units it took for A's time or number
  bHeard,         \* B: what it has printed of A's message
  m3, m4,         \* what the user of B typed
  up, down        \* A to B and B to A

aVars == <<choice, m1, m2, aAt, aSent, aText, aHeard>>
bVars == <<bAt, bSent, bText, auth_data, bHeard, m3, m4>>
vars == <<choice, m1, m2, aAt, aSent, aText, aHeard,
          bAt, bSent, bText, auth_data, bHeard, m3, m4, up, down>>

ID_A == "Client_A"
ID_B == "Client_B"
Nothing == [nothing |-> TRUE]

Auth == IF choice = "t" THEN <<"time">> ELSE <<"r_a", "r_a2">>
Block == <<"junk", "junk">>

Plain(auth, id, text) == auth \o <<id, "NUL">> \o text \o <<"NUL">>
Fields(p, len) == LET rest == SubSeq(p, len + 1, Len(p))
                  IN  [id |-> StringAt(rest), text |-> StringAfter(rest)]

AClosed == aAt \in {"accepted", "failed", "dead"}
BClosed == bAt \in {"ended", "failed", "dead"}

-----------------------------------------------------------------------------
Init ==
  /\ choice \in {"t", "r"} /\ m1 \in Text /\ m2 \in Text
  /\ aAt = "start" /\ aSent = 0 /\ aText = <<>> /\ aHeard = Nothing
  /\ bAt = "accept" /\ bSent = 0 /\ bText = <<>> /\ bHeard = Nothing
  /\ auth_data = <<>>
  /\ m3 = <<>> /\ m4 = <<>>
  /\ up = <<>> /\ down = <<>>

-----------------------------------------------------------------------------
(* A.                                                                      *)

AConnect ==
  /\ aAt = "start"
  /\ aAt' = IF BClosed THEN "failed" ELSE "send"
  /\ UNCHANGED <<choice, m1, m2, aSent, aText, aHeard, bVars, up, down>>

\* The next of the three sends.  Writing to a connection that B has closed may
\* raise SIGPIPE.
ASend ==
  /\ aAt = "send"
  /\ \/ /\ up' = up \o Sends(m2, Plain(Auth, ID_A, m1))[aSent + 1]
        /\ aSent' = aSent + 1
        /\ aAt' = IF aSent = 2 THEN "text" ELSE "send"
     \/ /\ BClosed
        /\ aAt' = "dead"
        /\ UNCHANGED <<aSent, up>>
  /\ UNCHANGED <<choice, m1, m2, aText, aHeard, bVars, down>>

\* The loop that reads up to '|', or to the end of the connection.
AReadText ==
  /\ aAt = "text"
  /\ HasBar(down) \/ BClosed
  /\ aText' = TextBefore(down)
  /\ down' = IF HasBar(down) THEN AfterBar(down) ELSE <<>>
  /\ aAt' = "cipher"
  /\ UNCHANGED <<choice, m1, m2, aSent, aHeard, bVars, up>>

\* (Slips: the echo is not compared; sixteen bytes are compared also of a time.)
Matches_Any(p) == TRUE
Matches_Sixteen(p) == SubSeq(p, 1, 2) = SubSeq(Append(Auth, "NUL"), 1, 2)

\* memcmp() of the echo with what A sent.
Matches(p) == SubSeq(p, 1, Len(Auth)) = Auth

\* One recv() of the rest, decryption, parsing, and the check.
AReadCipher ==
  /\ aAt = "cipher"
  /\ down # <<>> \/ BClosed
  /\ LET p == aes_decrypt(down, Block)
         good == Decrypts(down) /\ Matches(p)
     IN  /\ aAt' = IF good THEN "accepted" ELSE "failed"
         /\ aHeard' = IF good THEN [m3 |-> Fields(p, Len(Auth)).text, m4 |-> aText]
                      ELSE aHeard
  /\ down' = <<>>
  /\ UNCHANGED <<choice, m1, m2, aSent, aText, bVars, up>>

-----------------------------------------------------------------------------
(* B.                                                                      *)

BAccept ==
  /\ bAt = "accept"
  /\ aAt # "start"
  /\ bAt' = "text"
  /\ UNCHANGED <<bSent, bText, auth_data, bHeard, m3, m4, aVars, up, down>>

BReadText ==
  /\ bAt = "text"
  /\ HasBar(up) \/ AClosed
  /\ bText' = TextBefore(up)
  /\ up' = IF HasBar(up) THEN AfterBar(up) ELSE <<>>
  /\ bAt' = "cipher"
  /\ UNCHANGED <<bSent, auth_data, bHeard, m3, m4, aVars, down>>

\* What B makes of a plaintext when it takes the first len units for A's.
BParse(p, len) ==
  /\ auth_data' = SubSeq(p, 1, len)
  /\ bHeard' = [m1 |-> Fields(p, len).text, m2 |-> bText, ida |-> Fields(p, len).id]

\* One recv() of the rest, decryption and parsing.  The bit that decides on len
\* is one of a random byte, of the time in seconds, or of a block that was not
\* encrypted.
BReadCipher ==
  /\ bAt = "cipher"
  /\ up # <<>> \/ AClosed
  /\ IF Decrypts(up)
     THEN /\ \E len \in {1, 2} : BParse(aes_decrypt(up, Block), len)
          /\ bAt' = "type"
     ELSE /\ bAt' = "failed"
          /\ UNCHANGED <<auth_data, bHeard>>
  /\ up' = <<>>
  /\ UNCHANGED <<bSent, bText, m3, m4, aVars, down>>

\* The user of B types M3 and M4.
BType ==
  /\ bAt = "type"
  /\ m3' \in Text /\ m4' \in Text
  /\ bAt' = "send"
  /\ UNCHANGED <<bSent, bText, auth_data, bHeard, aVars, up, down>>

BSend ==
  /\ bAt = "send"
  /\ \/ /\ down' = down \o Sends(m4, Plain(auth_data, ID_B, m3))[bSent + 1]
        /\ bSent' = bSent + 1
        /\ bAt' = IF bSent = 2 THEN "ended" ELSE "send"
     \/ /\ AClosed
        /\ bAt' = "dead"
        /\ UNCHANGED <<bSent, down>>
  /\ UNCHANGED <<bText, auth_data, bHeard, m3, m4, aVars, up>>

-----------------------------------------------------------------------------
ADies == /\ Crashes /\ ~AClosed
         /\ aAt' = "dead"
         /\ UNCHANGED <<choice, m1, m2, aSent, aText, aHeard, bVars, up, down>>

BDies == /\ Crashes /\ ~BClosed
         /\ bAt' = "dead"
         /\ UNCHANGED <<bSent, bText, auth_data, bHeard, m3, m4, aVars, up, down>>

A == AConnect \/ ASend \/ AReadText \/ AReadCipher
B == BAccept \/ BReadText \/ BReadCipher \/ BType \/ BSend

Next == A \/ B \/ ADies \/ BDies

Spec == Init /\ [][Next]_vars

\* Both programs run, and their users answer the prompts.
FairSpec == Spec /\ WF_vars(A) /\ WF_vars(B)

-----------------------------------------------------------------------------
(* Properties.                                                             *)

\* The variables have their types.
TwoStepTypeOK ==
  /\ choice \in {"t", "r"} /\ m1 \in Text /\ m2 \in Text
  /\ aAt \in {"start", "send", "text", "cipher", "accepted", "failed", "dead"}
  /\ bAt \in {"accept", "text", "cipher", "type", "send", "ended", "failed", "dead"}
  /\ aSent \in 0 .. 3 /\ bSent \in 0 .. 3
  /\ {m3, m4} \subseteq Text \cup {<<>>}
  /\ Len(auth_data) <= 2
  /\ aHeard # Nothing <=> aAt = "accepted"
  /\ bHeard # Nothing => auth_data # <<>>

\* A accepts only what B has answered, and prints the texts that the user of B
\* typed, also when B misread where A's number ends.
said    == IF bSent < 3 THEN {} ELSE {[m3 |-> m3, m4 |-> m4]}
verdict == CASE aAt = "accepted" -> "accepted"
             [] aAt \in {"failed", "dead"} -> "refused"
             [] OTHER -> "none"
heard   == IF aHeard = Nothing THEN {} ELSE {aHeard}
AChallengesB == INSTANCE Challenge WITH Texts <- [m3 : Text, m4 : Text]
TwoStepIdentifies == AChallengesB!CSpec

\* The variables have their types, and when A accepts, B too has read the texts
\* that the user of A typed.
BothAgree == /\ TwoStepTypeOK
             /\ aAt = "accepted" => bHeard.m1 = m1 /\ bHeard.m2 = m2

\* Without kills, and with texts before '|' that hold none themselves, A accepts
\* unless B took the first half of a random number for a time.
Plainly(text) == \A k \in 1 .. Len(text) : text[k] # "|"
TwoStepCompletes ==
  [](aAt # "dead" /\ bAt # "dead" /\ Plainly(m2) /\ Plainly(m4))
    => <>(aAt = "accepted" \/ (choice = "r" /\ Len(auth_data) = 1))
=============================================================================
