------------------------------ MODULE SpekeProofs ------------------------------
(***************************************************************************)
(* Theorems about Speke, for any passwords, any iterations typed, chains   *)
(* of any length and any number of attempts, with coalesced answers and    *)
(* either program killed anywhere.                                         *)
(*                                                                         *)
(* ChainFollows, KeysMatch and SamePassword are not inductive: they need   *)
(* to know where both programs are and what is on its way between them     *)
(* (FromA and FromB), and that a generator is B's hash of the iteration    *)
(* (Agreed).                                                               *)
(***************************************************************************)
EXTENDS Speke, SequenceTheorems, TLAPS

-----------------------------------------------------------------------------
(* Streams of a few messages.                                              *)

\* Two streams of at most three messages are equal message by message.
LEMMA SameTokens ==
  ASSUME NEW S, NEW s \in Seq(S), NEW t \in Seq(S), Len(s) = Len(t),
         Len(t) \in 1 .. 3, s[1] = t[1], Len(t) > 1 => s[2] = t[2],
         Len(t) > 2 => s[3] = t[3]
  PROVE  s = t
<1>1. \A i \in 1 .. Len(s) : i = 1 \/ (i = 2 /\ Len(t) > 1) \/ (i = 3 /\ Len(t) > 2)
  OBVIOUS
<1>2. \A i \in 1 .. Len(s) : s[i] = t[i]
  BY <1>1, Zenon
<1> QED BY <1>2, SeqEqual

\* What a send() makes of an empty stream.
LEMMA FirstTokens ==
  ASSUME NEW s, s = <<>>, NEW a, NEW b
  PROVE  Append(s, a) = <<a>> /\ s \o <<a>> = <<a>> /\ s \o <<a, b>> = <<a, b>>
<1>1. Append(<<>>, a) = <<a>> /\ <<>> \o <<a>> = <<a>> /\ <<>> \o <<a, b>> = <<a, b>>
  OBVIOUS
<1> QED BY <1>1, Zenon

\* What one more send() makes of one that is there, and of two.
LEMMA SecondToken ==
  ASSUME NEW a, NEW b
  PROVE  Append(<<a>>, b) = <<a, b>>
<1> DEFINE S == {a, b}
<1> DEFINE t == <<a, b>>
<1>1. <<a>> \in Seq(S) /\ t \in Seq(S) /\ b \in S
  OBVIOUS
<1>2. Len(t) = 2 /\ t[1] = a /\ t[2] = b
  OBVIOUS
<1> HIDE DEF S
<1>3. /\ Append(<<a>>, b) \in Seq(S) /\ Len(Append(<<a>>, b)) = 2
      /\ Append(<<a>>, b)[1] = a /\ Append(<<a>>, b)[2] = b
  BY <1>1, AppendProperties
<1> HIDE DEF t
<1>4. Append(<<a>>, b) = t
  <2> DEFINE s == Append(<<a>>, b)
  <2>1. s \in Seq(S) /\ t \in Seq(S) /\ Len(s) = 2 /\ Len(t) = 2 /\ s[1] = t[1] /\ s[2] = t[2]
    BY <1>1, <1>2, <1>3
  <2> HIDE DEF s
  <2>2. s = t
    BY <2>1, SameTokens
  <2> QED BY <2>2 DEF s
<1> QED BY <1>4 DEF t

LEMMA ThirdToken ==
  ASSUME NEW a, NEW b, NEW c
  PROVE  Append(<<a, b>>, c) = <<a, b, c>> /\ <<a, b>> \o <<c>> = <<a, b, c>>
<1> DEFINE S == {a, b, c}
<1> DEFINE t == <<a, b, c>>
<1>1. <<a, b>> \in Seq(S) /\ t \in Seq(S) /\ c \in S
  OBVIOUS
<1>2. Len(t) = 3 /\ t[1] = a /\ t[2] = b /\ t[3] = c
  OBVIOUS
<1> HIDE DEF S
<1>3. /\ Append(<<a, b>>, c) \in Seq(S) /\ Len(Append(<<a, b>>, c)) = 3
      /\ Append(<<a, b>>, c)[1] = a /\ Append(<<a, b>>, c)[2] = b
      /\ Append(<<a, b>>, c)[3] = c
  BY <1>1, AppendProperties
<1> HIDE DEF t
<1>4. Append(<<a, b>>, c) = t
  <2> DEFINE s == Append(<<a, b>>, c)
  <2>1. /\ s \in Seq(S) /\ t \in Seq(S) /\ Len(s) = 3 /\ Len(t) = 3
        /\ s[1] = t[1] /\ s[2] = t[2] /\ s[3] = t[3]
    BY <1>1, <1>2, <1>3
  <2> HIDE DEF s
  <2>2. s = t
    BY <2>1, SameTokens
  <2> QED BY <2>2 DEF s
<1>5. Append(<<a, b>>, c) = <<a, b>> \o <<c>>
  BY <1>1, AppendIsConcat
<1> QED BY <1>4, <1>5 DEF t

\* recv_mpz() takes the length and the digits.
LEMMA NumberTaken ==
  ASSUME NEW a, NEW b, NEW c
  PROVE  Unread(<<a, b>>, 2) = <<>> /\ Unread(<<a, b, c>>, 2) = <<c>>
<1> DEFINE t == <<c>>
<1> DEFINE s == SubSeq(<<a, b, c>>, 3, 3)
<1> DEFINE S == {c}
<1>1. Unread(<<a, b>>, 2) = <<>>
  BY DEF Unread
<1>2. \A i \in 3 .. 3 : <<a, b, c>>[i] \in S
  OBVIOUS
<1>3. <<a, b, c>>[3] = c /\ Len(<<a, b, c>>) = 3
  OBVIOUS
<1>4. t \in Seq(S) /\ Len(t) = 1 /\ t[1] = c
  OBVIOUS
<1> HIDE DEF S
<1>5. s \in Seq(S) /\ Len(s) = 1 /\ s[1] = c
  BY <1>2, <1>3, SubSeqProperties
<1> HIDE DEF s, t
<1>6. s = t
  BY <1>4, <1>5, SameTokens
<1>7. Unread(<<a, b, c>>, 2) = s
  BY <1>3 DEF Unread, s
<1> QED BY <1>1, <1>6, <1>7 DEF t

-----------------------------------------------------------------------------
(* The inductive invariant.                                                *)

\* The message for an iteration, the two numbers and the key of one.
AuthOf(i) == Auth(i, BHash(i))
NumberA(i) == Power(BHash(i), {"a"})
NumberB(i) == Power(BHash(i), {"b"})
KeyOf(i) == Power(BHash(i), {"a", "b"})

UpToken   == {AuthOf(i) : i \in Typed} \cup {Length} \cup {Digits(p) : p \in PowerType}
DownToken == {Text(t) : t \in {"OK"} \cup Refusal} \cup {Length}
               \cup {Digits(p) : p \in PowerType}
Streams == up \in Seq(UpToken) /\ down \in Seq(DownToken)

\* A can only have let in a B with its own password and a chain one shorter.
Matched == pwA = pwB /\ MAX_ITER_A = MAX_ITER_B + 1
Agreed == /\ Matched
          /\ current_iter <= MAX_ITER_B
          /\ received_hash = BHash(current_iter)
AServes == aAt \in {"length", "digits", "number", "stuck"}
Served == /\ current_iter >= 1
          /\ current_iter > 1 => Matched
          /\ AServes => Agreed

\* A printed key is that of its iteration, or the product of a lost connection.
KeysRight ==
  /\ \A i \in DOMAIN aKeys : aKeys[i] \in {KeyOf(i), RaisedBy(Junk, "a")}
  /\ \A i \in DOMAIN bKeys : bKeys[i] \in {KeyOf(i), RaisedBy(Junk, "b")}

\* What is on its way to A: nothing or one attempt while it waits for one, the
\* number it waits for, perhaps with the next attempt behind it, or attempts that
\* B made because it took an "OK" for a refusal.
NumberCame ==
  /\ current_iter \in DOMAIN bKeys
  /\ \/ up = <<Length, Digits(NumberB(current_iter))>>
     \/ \E i \in Typed : up = <<Length, Digits(NumberB(current_iter)), AuthOf(i)>>
Astray == up = <<>> \/ up[1].kind = "auth"
FromB ==
  /\ aAt = "auth" => up = <<>> \/ \E i \in Typed : up = <<AuthOf(i)>>
  /\ aAt = "length" => up = <<>>
  /\ aAt \in {"digits", "stuck"} => Astray
  /\ aAt = "number" => Astray \/ NumberCame

\* What is on its way to B, at each of its places.
Late == down = <<>> \/ down = <<Digits(NumberA(current_iter))>>
FromA ==
  /\ bAt = "prompt" => Late
  /\ bAt = "response" =>
       \/ Late
       \/ \E t \in Refusal : down = <<Text(t)>>
       \/ /\ iteration = current_iter
          /\ \/ down = <<Text("OK")>>
             \/ down = <<Text("OK"), Length>>
             \/ down = <<Text("OK"), Length, Digits(NumberA(current_iter))>>
  /\ bAt = "number" =>
       /\ iteration = current_iter
       /\ \/ down = <<>>
          \/ down = <<Length>>
          \/ down = <<Length, Digits(NumberA(current_iter))>>
  /\ bAt = "send" =>
       /\ iteration = current_iter /\ down = <<>>
       /\ number = Junk \/ number = NumberA(current_iter)

\* Where B is, and what it has still to read, at each place of A.
Meet ==
  ~BClosed =>
    /\ aAt = "auth" =>
         \/ bAt = "prompt" /\ up = <<>> /\ down = <<>>
         \/ bAt = "response" /\ up = <<AuthOf(iteration)>> /\ down = <<>>
         \/ bAt = "response" /\ up = <<>> /\ \E t \in Refusal : down = <<Text(t)>>
    /\ aAt = "length" =>
         \/ bAt = "response" /\ iteration = current_iter /\ down = <<Text("OK")>>
         \/ bAt = "number" /\ down = <<>>
    /\ aAt = "digits" =>
         \/ /\ bAt = "response" /\ iteration = current_iter
            /\ up = <<>> /\ down = <<Text("OK"), Length>>
         \/ bAt = "number" /\ up = <<>> /\ down = <<Length>>
         \/ bAt \in {"prompt", "response"} /\ down = <<>>
    /\ aAt = "number" =>
         \/ /\ bAt = "response" /\ iteration = current_iter /\ up = <<>>
            /\ down = <<Text("OK"), Length, Digits(NumberA(current_iter))>>
         \/ /\ bAt = "number" /\ up = <<>>
            /\ down = <<Length, Digits(NumberA(current_iter))>>
         \/ bAt = "send" /\ up = <<>>
         \/ bAt = "prompt" /\ Len(up) = 2 /\ down = <<>>
         \/ /\ bAt = "response" /\ Len(up) = 3 /\ up[3] = AuthOf(iteration)
            /\ down = <<>>
         \/ bAt \in {"prompt", "response"} /\ Astray /\ Late
    /\ aAt = "stuck" => bAt \in {"prompt", "response"} /\ Late
    /\ aAt # "ended"

SpekeInv == /\ TypeOK /\ Streams /\ ChainFollows /\ Served /\ KeysRight
            /\ FromB /\ FromA /\ Meet

-----------------------------------------------------------------------------
(* Messages, hashes and keys.                                              *)

\* The parts of a message; and no two messages of different kinds are one.
LEMMA Parts ==
  /\ \A i : AuthOf(i).kind = "auth" /\ AuthOf(i).iter = i /\ AuthOf(i).hash = BHash(i)
  /\ Length.kind = "length"
  /\ \A p : Digits(p).kind = "digits" /\ Digits(p).num = p
  /\ \A t : Text(t).kind = t
BY DEF AuthOf, Auth, Length, Digits, Text

\* What is computed from the password of B is of its type, and does not change.
LEMMA Computed ==
  ASSUME TypeOK
  PROVE  /\ \A i \in Nat : BHash(i) \in HashType /\ BHash(i).pw # "junk"
         /\ \A i \in Nat : {NumberA(i), NumberB(i), KeyOf(i)} \subseteq PowerType
         /\ Junk \in PowerType
<1>1. \A i \in Nat : BHash(i) \in HashType /\ BHash(i).pw # "junk"
  BY SpekeConstants DEF TypeOK, BHash, Chain, HashType
<1>2. \A i \in Nat : {NumberA(i), NumberB(i), KeyOf(i)} \subseteq PowerType
  BY <1>1 DEF NumberA, NumberB, KeyOf, Power, PowerType
<1>3. Junk \in PowerType
  BY DEF Junk, Power, PowerType, HashType
<1> QED BY <1>1, <1>2, <1>3

LEMMA Computing ==
  ASSUME pwB' = pwB
  PROVE  /\ \A i : BHash(i)' = BHash(i) /\ AuthOf(i)' = AuthOf(i)
         /\ \A i : NumberA(i)' = NumberA(i) /\ NumberB(i)' = NumberB(i)
         /\ \A i : KeyOf(i)' = KeyOf(i)
BY DEF AuthOf, NumberA, NumberB, KeyOf, BHash

\* The keys that come of the two numbers, and of a lost connection.
LEMMA Keys ==
  /\ \A i : RaisedBy(NumberA(i), "b") = KeyOf(i)
  /\ \A i : RaisedBy(NumberB(i), "a") = KeyOf(i)
  /\ \A x : ~Sound(RaisedBy(Junk, x))
<1>1. {"a"} \cup {"b"} = {"a", "b"} /\ {"b"} \cup {"a"} = {"a", "b"}
  OBVIOUS
<1> QED BY <1>1 DEF RaisedBy, NumberA, NumberB, KeyOf, Power, Junk, Sound

LEMMA KeyTypes ==
  ASSUME NEW p \in PowerType, NEW x \in {"a", "b"}
  PROVE  RaisedBy(p, x) \in PowerType
BY DEF RaisedBy, PowerType

\* A hash of B that leads to A's stored hash is that of the same password, one
\* further down a chain that is one shorter.
LEMMA HashFits ==
  ASSUME ChainFollows, Served, HashOf(BHash(current_iter)) = stored_hash
  PROVE  Matched /\ current_iter <= MAX_ITER_B
<1> DEFINE m == MAX_ITER_B - current_iter + 1
<1>1. /\ current_iter \in Nat /\ current_iter <= MAX_ITER_B + 1
      /\ stored_hash = [pw |-> pwA, n |-> MAX_ITER_A - current_iter + 1]
      /\ MAX_ITER_A \in Nat /\ MAX_ITER_B \in Nat \ {0} /\ MAX_ITER_A # 0
  BY SpekeConstants DEF ChainFollows, TypeOK
<1>2. HashOf(BHash(current_iter)) = [pw |-> pwB, n |-> (IF m < 1 THEN 1 ELSE m) + 1]
  BY DEF HashOf, BHash, Chain
<1>3. pwA = pwB /\ MAX_ITER_A - current_iter + 1 = (IF m < 1 THEN 1 ELSE m) + 1
  <2>1. [pw |-> pwB, n |-> (IF m < 1 THEN 1 ELSE m) + 1]
          = [pw |-> pwA, n |-> MAX_ITER_A - current_iter + 1]
    BY <1>1, <1>2
  <2> HIDE DEF m
  <2> QED BY <2>1
<1>4. CASE m < 1
  <2>1. current_iter = MAX_ITER_B + 1 /\ current_iter > 1
    BY <1>1, <1>4
  <2>2. MAX_ITER_A = MAX_ITER_B + 1
    BY <2>1 DEF Served, Matched
  <2> QED BY <1>1, <1>3, <1>4, <2>1, <2>2
<1>5. CASE ~(m < 1)
  BY <1>1, <1>3, <1>5 DEF Matched
<1> QED BY <1>4, <1>5

-----------------------------------------------------------------------------
(* The initial states.                                                     *)

LEMMA SpekeInit == Init => SpekeInv
<1> SUFFICES ASSUME Init PROVE SpekeInv
  OBVIOUS
<1>1. Chain(pwA, MAX_ITER_A) = [pw |-> pwA, n |-> MAX_ITER_A]
  BY SpekeConstants DEF Chain
<1>2. Chain(pwA, MAX_ITER_A) \in HashType
  BY <1>1, SpekeConstants DEF Init, HashType
<1>3. TypeOK
  BY <1>2, SpekeConstants, EmptySeq DEF Init, TypeOK, Junk, Power, PowerType, HashType
<1>4. ChainFollows
  BY <1>1, <1>3, SpekeConstants DEF Init, ChainFollows, Sound
<1>5. Streams /\ Served /\ KeysRight
  BY DEF Init, Streams, Served, AServes, KeysRight
<1>6. FromB /\ FromA /\ Meet
  BY DEF Init, FromB, FromA, Late, Meet, BClosed
<1> QED BY <1>3, <1>4, <1>5, <1>6 DEF SpekeInv

-----------------------------------------------------------------------------
(* What a step that leaves something alone preserves.                      *)

\* Steps that print no key and let nobody in.
LEMMA NothingPrinted ==
  ASSUME SpekeInv, TypeOK',
         UNCHANGED <<pwA, pwB, current_iter, stored_hash, aKeys, bKeys>>
  PROVE  ChainFollows' /\ KeysRight'
<1>1. ChainFollows'
  BY DEF SpekeInv, ChainFollows
<1>2. KeysRight'
  <2>1. \A i : KeyOf(i)' = KeyOf(i)
    BY Computing, Zenon
  <2> QED BY <2>1 DEF SpekeInv, KeysRight
<1> QED BY <1>1, <1>2

LEMMA NobodyServed ==
  ASSUME SpekeInv, UNCHANGED <<pwA, pwB, current_iter, received_hash>>,
         AServes' => AServes
  PROVE  Served'
<1>1. \A i : BHash(i)' = BHash(i)
  BY Computing, Zenon
<1>2. (BHash(current_iter))' = BHash(current_iter)
  BY <1>1 DEF BHash
<1> QED BY <1>2 DEF SpekeInv, Served, Matched, Agreed

\* What travels is of its type, and stays so when one more message is sent.
LEMMA Tokens ==
  ASSUME SpekeInv
  PROVE  /\ \A i \in Typed : AuthOf(i) \in UpToken
         /\ Length \in UpToken /\ Length \in DownToken
         /\ \A p \in PowerType : Digits(p) \in UpToken /\ Digits(p) \in DownToken
         /\ \A t \in {"OK"} \cup Refusal : Text(t) \in DownToken
BY DEF UpToken, DownToken

LEMMA TokensStay ==
  ASSUME pwB' = pwB
  PROVE  UpToken' = UpToken /\ DownToken' = DownToken
BY Computing, Zenon DEF UpToken, DownToken, AuthOf, BHash

LEMMA StreamKinds ==
  ASSUME Streams'
  PROVE  /\ \A k \in 1 .. Len(up') : up'[k].kind \in {"auth", "length", "digits"}
         /\ \A k \in 1 .. Len(down') :
              down'[k].kind \in {"OK", "length", "digits"} \cup Refusal
<1>1. \A m \in UpToken' : m.kind \in {"auth", "length", "digits"}
  BY DEF UpToken, AuthOf, Auth, Length, Digits
<1>2. \A m \in DownToken' : m.kind \in {"OK", "length", "digits"} \cup Refusal
  BY DEF DownToken, Text, Length, Digits
<1>3. \A k \in 1 .. Len(up') : up'[k] \in UpToken'
  BY ElementOfSeq DEF Streams
<1>4. \A k \in 1 .. Len(down') : down'[k] \in DownToken'
  BY ElementOfSeq DEF Streams
<1> QED BY <1>1, <1>2, <1>3, <1>4

LEMMA Longer ==
  ASSUME NEW S, NEW s \in Seq(S), NEW m \in S, NEW n \in S
  PROVE  /\ Append(s, m) \in Seq(S)
         /\ s \o <<m>> \in Seq(S) /\ s \o <<m, n>> \in Seq(S)
         /\ s # <<>> => s \o <<m>> # <<>> /\ (s \o <<m>>)[1] = s[1]
<1>1. <<m>> \in Seq(S) /\ <<m, n>> \in Seq(S)
  OBVIOUS
<1>2. Append(s, m) \in Seq(S) /\ s \o <<m>> \in Seq(S) /\ s \o <<m, n>> \in Seq(S)
  BY <1>1, AppendProperties, ConcatProperties
<1>3. ASSUME s # <<>>
      PROVE  s \o <<m>> # <<>> /\ (s \o <<m>>)[1] = s[1]
  BY <1>1, <1>3
<1> QED BY <1>2, <1>3

\* An answer or a part of A's number is sent.
LEMMA ASendsToken ==
  ASSUME SpekeInv, NEW m \in DownToken, NEW next, ASends(m, next), pwB' = pwB,
         up' = up \/ up' = <<>>
  PROVE  Streams'
<1>1. up' \in Seq(UpToken)
  BY EmptySeq DEF SpekeInv, Streams
<1>2. Append(down, m) \in Seq(DownToken) /\ down \in Seq(DownToken)
  BY AppendProperties DEF SpekeInv, Streams
<1>3. down' \in Seq(DownToken)
  BY <1>2 DEF ASends
<1> QED BY <1>1, <1>3, TokensStay DEF Streams

LEMMA SameStreams ==
  ASSUME SpekeInv, UNCHANGED <<pwB, up, down>>
  PROVE  Streams'
BY TokensStay DEF SpekeInv, Streams

-----------------------------------------------------------------------------
(* Steps of A.                                                             *)

LEMMA ARecvAuthStep == SpekeInv /\ ARecvAuth => SpekeInv'
<1> SUFFICES ASSUME SpekeInv, ARecvAuth PROVE SpekeInv'
  OBVIOUS
<1> DEFINE answer == AnswerTo(Head(up))
<1>0. /\ UNCHANGED <<pwA, pwB, current_iter, stored_hash, aKeys, bKeys>>
      /\ UNCHANGED <<bAt, iteration, number, refused, tries>>
      /\ aAt = "auth" /\ up' = <<>>
  BY DEF ARecvAuth, bVars
<1>1. PICK i \in Typed : up = <<AuthOf(i)>>
  BY DEF ARecvAuth, SpekeInv, FromB
<1>2. Head(up) = AuthOf(i) /\ i \in Nat
  BY <1>1, SpekeConstants
<1>3. /\ ASends(Text(answer), IF answer = "OK" THEN "length" ELSE "auth")
      /\ received_hash' = IF answer = "OK" THEN BHash(i) ELSE received_hash
  BY <1>2, Parts DEF ARecvAuth
<1>4. answer \in {"OK"} \cup Refusal
  BY DEF AnswerTo, Refusal
<1>5. ASSUME answer = "OK"
      PROVE  Matched /\ current_iter <= MAX_ITER_B /\ i = current_iter
  <2>1. i = current_iter /\ HashOf(BHash(i)) = stored_hash
    BY <1>2, <1>5, Parts DEF AnswerTo
  <2> QED BY <2>1, HashFits DEF SpekeInv
<1>6. ~BClosed => bAt = "response" /\ iteration = i /\ down = <<>>
  <2>1. \A n : <<AuthOf(n)>> = <<AuthOf(i)>> => n = i
    BY Parts
  <2> QED BY <1>0, <1>1, <2>1 DEF SpekeInv, Meet
<1> HIDE DEF answer
<1>7. aAt' \in {"length", "auth", "dead"} /\ (aAt' = "length" => answer = "OK")
  BY <1>3, Zenon DEF ASends
<1>8. ~BClosed => /\ down' = <<Text(answer)>>
                  /\ aAt' = IF answer = "OK" THEN "length" ELSE "auth"
  BY <1>3, <1>6 DEF ASends
<1>9. Streams'
  BY <1>0, <1>3, <1>4, Tokens, ASendsToken
<1>10. BHash(i) \in HashType
  BY <1>2, Computed DEF SpekeInv
<1>11. TypeOK'
  BY <1>0, <1>3, <1>7, <1>9, <1>10, StreamKinds DEF SpekeInv, TypeOK
<1>12. ChainFollows' /\ KeysRight'
  BY <1>0, <1>11, NothingPrinted
<1>13. Served'
  <2>1. (BHash(current_iter))' = BHash(current_iter) /\ (Matched' <=> Matched)
    BY <1>0 DEF BHash, Matched
  <2>2. current_iter >= 1 /\ (current_iter > 1 => Matched)
    BY DEF SpekeInv, Served
  <2>3. AServes' => answer = "OK"
    BY <1>7 DEF AServes
  <2> QED BY <1>0, <1>3, <1>5, <2>1, <2>2, <2>3 DEF Served, Agreed
<1>14. FromB'
  BY <1>0, <1>7 DEF FromB
<1>15. FromA'
  BY <1>0, <1>4, <1>5, <1>6, <1>8 DEF FromA, BClosed
<1>16. Meet'
  BY <1>0, <1>4, <1>5, <1>6, <1>8 DEF Meet, BClosed
<1> QED BY <1>9, <1>11, <1>12, <1>13, <1>14, <1>15, <1>16 DEF SpekeInv

LEMMA AEndsStep == SpekeInv /\ AEnds => SpekeInv'
<1> SUFFICES ASSUME SpekeInv, AEnds PROVE SpekeInv'
  OBVIOUS
<1>0. /\ UNCHANGED <<pwA, pwB, current_iter, stored_hash, received_hash, aKeys, bKeys>>
      /\ UNCHANGED <<bAt, iteration, number, refused, tries, up, down>>
      /\ aAt' = "ended"
  BY DEF AEnds, bVars
<1>1. BClosed
  <2>1. current_iter > MAX_ITER_A => Matched
    BY SpekeConstants DEF SpekeInv, TypeOK, Served
  <2>2. current_iter <= MAX_ITER_A
    BY <2>1, SpekeConstants DEF SpekeInv, ChainFollows, TypeOK, Matched
  <2> QED BY <2>2 DEF AEnds
<1>2. TypeOK' /\ Streams'
  BY <1>0, SameStreams DEF SpekeInv, TypeOK
<1>3. ChainFollows' /\ KeysRight'
  BY <1>0, <1>2, NothingPrinted
<1>4. Served'
  BY <1>0, NobodyServed DEF AServes
<1>5. FromB' /\ Meet' /\ FromA'
  BY <1>0, <1>1 DEF FromB, FromA, Meet, BClosed
<1> QED BY <1>2, <1>3, <1>4, <1>5 DEF SpekeInv

LEMMA ASendLengthStep == SpekeInv /\ ASendLength => SpekeInv'
<1> SUFFICES ASSUME SpekeInv, ASendLength PROVE SpekeInv'
  OBVIOUS
<1>0. /\ UNCHANGED <<pwA, pwB, current_iter, stored_hash, received_hash, aKeys, bKeys>>
      /\ UNCHANGED <<bAt, iteration, number, refused, tries, up>>
      /\ aAt = "length" /\ up = <<>> /\ ASends(Length, "digits")
  BY DEF ASendLength, bVars, SpekeInv, FromB
<1>1. aAt' \in {"digits", "dead"} /\ (~BClosed => aAt' = "digits" /\ down' = Append(down, Length))
  BY <1>0, Zenon DEF ASends
<1>2. ~BClosed =>
        \/ bAt = "response" /\ iteration = current_iter /\ down' = <<Text("OK"), Length>>
        \/ bAt = "number" /\ iteration = current_iter /\ down' = <<Length>>
  <2>1. ASSUME ~BClosed, bAt = "number", down = <<>>
        PROVE  down' = <<Length>> /\ iteration = current_iter
    BY <1>1, <2>1 DEF SpekeInv, FromA
  <2>2. ASSUME ~BClosed, down = <<Text("OK")>>
        PROVE  down' = <<Text("OK"), Length>>
    BY <1>1, <2>2, SecondToken
  <2>3. ~BClosed => \/ bAt = "response" /\ iteration = current_iter /\ down = <<Text("OK")>>
                    \/ bAt = "number" /\ down = <<>>
    BY <1>0 DEF SpekeInv, Meet
  <2> QED BY <2>1, <2>2, <2>3, Zenon
<1>3. Streams'
  BY <1>0, Tokens, ASendsToken
<1>4. TypeOK'
  BY <1>0, <1>1, <1>3, StreamKinds DEF SpekeInv, TypeOK
<1>5. ChainFollows' /\ KeysRight'
  BY <1>0, <1>4, NothingPrinted
<1>6. Served'
  BY <1>0, <1>1, NobodyServed DEF AServes
<1>7. FromB'
  BY <1>0, <1>1 DEF FromB, Astray
<1>8. FromA'
  BY <1>0, <1>2 DEF FromA, BClosed
<1>9. Meet'
  BY <1>0, <1>1, <1>2 DEF Meet, BClosed
<1> QED BY <1>3, <1>4, <1>5, <1>6, <1>7, <1>8, <1>9 DEF SpekeInv

LEMMA ASendDigitsStep == SpekeInv /\ ASendDigits => SpekeInv'
<1> SUFFICES ASSUME SpekeInv, ASendDigits PROVE SpekeInv'
  OBVIOUS
<1> DEFINE m == Digits(NumberA(current_iter))
<1>0. /\ UNCHANGED <<pwA, pwB, current_iter, stored_hash, received_hash, aKeys, bKeys>>
      /\ UNCHANGED <<bAt, iteration, number, refused, tries, up>>
      /\ aAt = "digits" /\ Astray
  BY DEF ASendDigits, bVars, SpekeInv, FromB
<1>1. ASends(m, "number") /\ current_iter \in Nat
  BY <1>0 DEF ASendDigits, NumberA, SpekeInv, TypeOK, Served, Agreed, AServes
<1>2. m' = m
  BY <1>0, Computing DEF NumberA, BHash, Digits
<1>3. m \in DownToken
  BY <1>1, Computed, Tokens DEF SpekeInv
<1> HIDE DEF m
<1>4. aAt' \in {"number", "dead"} /\ (~BClosed => aAt' = "number" /\ down' = Append(down, m))
  BY <1>1, Zenon DEF ASends
<1>5. ~BClosed =>
        \/ /\ bAt = "response" /\ iteration = current_iter /\ up = <<>>
           /\ down' = <<Text("OK"), Length, m>>
        \/ bAt = "number" /\ iteration = current_iter /\ up = <<>> /\ down' = <<Length, m>>
        \/ bAt \in {"prompt", "response"} /\ down' = <<m>>
  <2>1. ASSUME ~BClosed, down = <<>>
        PROVE  down' = <<m>>
    BY <1>4, <2>1
  <2>2. ASSUME ~BClosed, down = <<Length>>
        PROVE  down' = <<Length, m>>
    BY <1>4, <2>2, SecondToken
  <2>3. ASSUME ~BClosed, down = <<Text("OK"), Length>>
        PROVE  down' = <<Text("OK"), Length, m>>
    BY <1>4, <2>3, ThirdToken
  <2>4. ~BClosed =>
          \/ /\ bAt = "response" /\ iteration = current_iter
             /\ up = <<>> /\ down = <<Text("OK"), Length>>
          \/ bAt = "number" /\ up = <<>> /\ down = <<Length>>
          \/ bAt \in {"prompt", "response"} /\ down = <<>>
    BY <1>0 DEF SpekeInv, Meet
  <2>5. bAt = "number" => iteration = current_iter
    BY DEF SpekeInv, FromA
  <2> QED BY <2>1, <2>2, <2>3, <2>4, <2>5, Zenon
<1>6. Streams'
  BY <1>0, <1>1, <1>3, ASendsToken
<1>7. TypeOK'
  BY <1>0, <1>4, <1>6, StreamKinds DEF SpekeInv, TypeOK
<1>8. ChainFollows' /\ KeysRight'
  BY <1>0, <1>7, NothingPrinted
<1>9. Served'
  BY <1>0, <1>4, NobodyServed DEF AServes
<1>10. FromB'
  BY <1>0, <1>4 DEF FromB, Astray
<1>11. (Late' <=> down' = <<>> \/ down' = <<m>>) /\ m = (Digits(NumberA(current_iter)))'
  BY <1>2 DEF Late, m
<1>12. FromA'
  BY <1>0, <1>5, <1>11 DEF FromA, BClosed
<1>13. Meet'
  BY <1>0, <1>4, <1>5, <1>11 DEF Meet, BClosed, Astray
<1> QED BY <1>6, <1>7, <1>8, <1>9, <1>10, <1>12, <1>13 DEF SpekeInv

LEMMA AStuckStep == SpekeInv /\ AStuck => SpekeInv'
<1> SUFFICES ASSUME SpekeInv, AStuck PROVE SpekeInv'
  OBVIOUS
<1>0. /\ UNCHANGED <<pwA, pwB, current_iter, stored_hash, received_hash, aKeys, bKeys>>
      /\ UNCHANGED <<bAt, iteration, number, refused, tries, up, down>>
      /\ aAt = "number" /\ aAt' = "stuck"
  BY DEF AStuck, bVars
<1>1. up # <<>> /\ up[1].kind = "auth"
  <2>1. up # <<>> => Head(up) = up[1]
    OBVIOUS
  <2> QED BY <2>1 DEF AStuck
<1>2. ~NumberCame
  <2>1. Length.kind # "auth"
    BY Parts
  <2> QED BY <1>1, <2>1 DEF NumberCame
<1>3. Streams' /\ TypeOK'
  BY <1>0, SameStreams DEF SpekeInv, TypeOK
<1>4. ChainFollows' /\ KeysRight'
  BY <1>0, <1>3, NothingPrinted
<1>5. Served'
  BY <1>0, NobodyServed DEF AServes
<1>6. FromB'
  BY <1>0, <1>1 DEF FromB, Astray
<1>7. /\ (NumberA(current_iter))' = NumberA(current_iter)
      /\ (Digits(NumberA(current_iter)))' = Digits(NumberA(current_iter))
  BY <1>0, Computing DEF Digits, NumberA, BHash
<1>8. FromA'
  BY <1>0, <1>7 DEF SpekeInv, FromA, Late
<1>9. Meet'
  <2>1. Late' <=> Late
    BY <1>0, <1>7 DEF Late
  <2>2. ~BClosed => bAt \in {"prompt", "response"} /\ Late
    <3>1. up # <<>> /\ ~(Len(up) = 2 /\ down = <<>> /\ up[1] = Length)
      BY <1>1, Parts
    <3> QED BY <1>0, <1>1 DEF SpekeInv, Meet, Late
  <2> QED BY <1>0, <2>1, <2>2 DEF Meet, BClosed
<1> QED BY <1>3, <1>4, <1>5, <1>6, <1>8, <1>9 DEF SpekeInv

\* A prints a key, of B's number or of a lost connection.
LEMMA APrinted ==
  ASSUME SpekeInv, aAt \in {"number", "stuck"}, Streams',
         NEW num, APrint(num), UNCHANGED <<pwA, received_hash, bVars, down>>,
         \/ num = NumberB(current_iter) /\ current_iter \in DOMAIN bKeys
         \/ num = Junk
  PROVE  TypeOK' /\ ChainFollows' /\ KeysRight' /\ Served'
<1> DEFINE key == RaisedBy(num, "a")
<1>0. /\ current_iter \in Nat /\ current_iter <= MAX_ITER_B
      /\ MAX_ITER_A = MAX_ITER_B + 1 /\ pwA = pwB /\ MAX_ITER_B \in Nat \ {0}
      /\ received_hash = BHash(current_iter)
      /\ DOMAIN aKeys = 1 .. current_iter - 1 /\ current_iter >= 1
  BY SpekeConstants DEF SpekeInv, TypeOK, ChainFollows, Served, AServes, Agreed, Matched
<1>1. /\ UNCHANGED <<pwA, pwB, received_hash, bKeys, bAt, iteration, number, refused, tries>>
      /\ stored_hash' = received_hash /\ current_iter' = current_iter + 1
      /\ aAt' = "auth"
      /\ DOMAIN aKeys' = DOMAIN aKeys \cup {current_iter}
      /\ aKeys'[current_iter] = key
      /\ \A i \in DOMAIN aKeys : i # current_iter => aKeys'[i] = aKeys[i]
  BY DEF APrint, KeyPrinted, bVars
<1>2. num \in PowerType
  BY <1>0, Computed DEF SpekeInv
<1>3. key \in PowerType
  BY <1>2, KeyTypes
<1>4. \/ key = KeyOf(current_iter) /\ current_iter \in DOMAIN bKeys
      \/ key = RaisedBy(Junk, "a") /\ ~Sound(key)
  BY Keys
<1> HIDE DEF key
<1>5. TypeOK'
  <2>1. \A i \in DOMAIN aKeys' : aKeys'[i] \in PowerType
    BY <1>1, <1>3 DEF SpekeInv, TypeOK
  <2> QED BY <1>0, <1>1, <2>1, StreamKinds DEF SpekeInv, TypeOK
<1>6. ChainFollows'
  <2>1. DOMAIN aKeys' = 1 .. current_iter' - 1
    BY <1>0, <1>1
  <2>2. DOMAIN bKeys' \subseteq 1 .. current_iter'
    BY <1>0, <1>1 DEF SpekeInv, ChainFollows
  <2>3. \A i \in DOMAIN aKeys' : Sound(aKeys'[i]) => i \in DOMAIN bKeys'
    BY <1>1, <1>4 DEF SpekeInv, ChainFollows
  <2>4. BHash(current_iter) = [pw |-> pwA, n |-> MAX_ITER_A - current_iter]
    BY <1>0 DEF BHash, Chain
  <2>5. stored_hash' = [pw |-> pwA', n |-> MAX_ITER_A - current_iter' + 1]
    BY <1>0, <1>1, <2>4
  <2> QED BY <1>0, <1>1, <1>5, <2>1, <2>2, <2>3, <2>5 DEF ChainFollows
<1>7. KeysRight'
  <2>1. \A i : KeyOf(i)' = KeyOf(i)
    BY <1>1, Computing
  <2>2. \A i \in DOMAIN aKeys' : aKeys'[i] \in {KeyOf(i), RaisedBy(Junk, "a")}
    BY <1>1, <1>4 DEF SpekeInv, KeysRight
  <2>3. RaisedBy(Junk, "a")' = RaisedBy(Junk, "a") /\ RaisedBy(Junk, "b")' = RaisedBy(Junk, "b")
    BY DEF RaisedBy, Junk, Power
  <2> QED BY <1>1, <2>1, <2>2, <2>3 DEF SpekeInv, KeysRight
<1>8. Served'
  BY <1>0, <1>1 DEF Served, Matched, AServes
<1> QED BY <1>5, <1>6, <1>7, <1>8

LEMMA ARecvNumberStep == SpekeInv /\ ARecvNumber => SpekeInv'
<1> SUFFICES ASSUME SpekeInv, ARecvNumber PROVE SpekeInv'
  OBVIOUS
<1>0. /\ UNCHANGED <<pwA, received_hash, bVars, down>> /\ aAt = "number"
      /\ UNCHANGED <<pwB, bKeys, bAt, iteration, number>>
      /\ aAt' = "auth" /\ current_iter' = current_iter + 1
      /\ APrint(up[2].num) /\ up' = Unread(up, 2)
  BY DEF ARecvNumber, APrint, bVars
<1>1. NumberCame /\ ~Astray
  <2>1. Len(up) >= 2 /\ up[1].kind = "length"
    BY Parts DEF ARecvNumber
  <2>2. up # <<>>
    BY <2>1, EmptySeq
  <2> QED BY <1>0, <2>1, <2>2 DEF SpekeInv, FromB, Astray
<1>2. up[2].num = NumberB(current_iter)
  <2>1. up[2] = Digits(NumberB(current_iter))
    BY <1>1 DEF NumberCame
  <2> QED BY <2>1, Parts
<1>3. /\ Len(up) = 2 => up' = <<>>
      /\ Len(up) = 3 => up' = <<up[3]>> /\ \E i \in Typed : up[3] = AuthOf(i)
      /\ Len(up) = 2 \/ Len(up) = 3
  <2>1. ASSUME up = <<Length, Digits(NumberB(current_iter))>>
        PROVE  Len(up) = 2 /\ up' = <<>>
    BY <1>0, <2>1, NumberTaken
  <2>2. ASSUME NEW i \in Typed, up = <<Length, Digits(NumberB(current_iter)), AuthOf(i)>>
        PROVE  Len(up) = 3 /\ up' = <<up[3]>> /\ up[3] = AuthOf(i)
    BY <1>0, <2>2, NumberTaken
  <2> QED BY <1>1, <2>1, <2>2 DEF NumberCame
<1>4. up' = <<>> \/ \E i \in Typed : up' = <<AuthOf(i)>>
  BY <1>3
<1>5. Streams'
  <2>1. up' \in Seq(UpToken)
    <3>1. \A i \in Typed : <<AuthOf(i)>> \in Seq(UpToken)
      BY Tokens
    <3>2. <<>> \in Seq(UpToken)
      BY EmptySeq
    <3> QED BY <1>4, <3>1, <3>2
  <2> QED BY <1>0, <2>1, TokensStay DEF SpekeInv, Streams
<1>6. TypeOK' /\ ChainFollows' /\ KeysRight' /\ Served'
  BY <1>0, <1>1, <1>2, <1>5, APrinted DEF NumberCame
<1>7. \A i : AuthOf(i)' = AuthOf(i)
  BY <1>0, Computing
<1>8. FromB'
  BY <1>0, <1>4, <1>7 DEF FromB
<1>9. ~BClosed => /\ down = <<>>
                  /\ \/ bAt = "prompt" /\ up' = <<>>
                     \/ bAt = "response" /\ up' = <<AuthOf(iteration)>>
  <2>1. ~BClosed => \/ bAt = "prompt" /\ Len(up) = 2 /\ down = <<>>
                    \/ bAt = "response" /\ Len(up) = 3 /\ up[3] = AuthOf(iteration) /\ down = <<>>
    BY <1>0, <1>1 DEF SpekeInv, Meet, Astray
  <2> QED BY <1>3, <2>1
<1>10. FromA'
  BY <1>0, <1>9 DEF FromA, Late, BClosed
<1>11. Meet'
  <2>1. AuthOf(iteration)' = AuthOf(iteration)
    BY <1>0, <1>7 DEF AuthOf, BHash
  <2> QED BY <1>0, <1>9, <2>1 DEF Meet, BClosed
<1> QED BY <1>5, <1>6, <1>8, <1>10, <1>11 DEF SpekeInv

LEMMA ARecvNothingStep == SpekeInv /\ ARecvNothing => SpekeInv'
<1> SUFFICES ASSUME SpekeInv, ARecvNothing PROVE SpekeInv'
  OBVIOUS
<1>0. /\ UNCHANGED <<pwA, received_hash, bVars, down>> /\ aAt \in {"number", "stuck"}
      /\ UNCHANGED <<pwB, bAt>> /\ BClosed
      /\ aAt' = "auth" /\ APrint(Junk) /\ up' = <<>>
  BY DEF ARecvNothing, APrint, bVars
<1>1. Streams'
  BY <1>0, TokensStay, EmptySeq DEF SpekeInv, Streams
<1>2. TypeOK' /\ ChainFollows' /\ KeysRight' /\ Served'
  BY <1>0, <1>1, APrinted
<1>3. FromB' /\ FromA' /\ Meet'
  BY <1>0 DEF FromB, FromA, Meet, BClosed
<1> QED BY <1>1, <1>2, <1>3 DEF SpekeInv

LEMMA ADiesStep == SpekeInv /\ ADies => SpekeInv'
<1> SUFFICES ASSUME SpekeInv, ADies PROVE SpekeInv'
  OBVIOUS
<1>0. /\ UNCHANGED <<pwA, pwB, current_iter, stored_hash, received_hash, aKeys, bKeys>>
      /\ UNCHANGED <<bAt, iteration, number, refused, tries, up, down>>
      /\ aAt' = "dead"
  BY DEF ADies, bVars
<1>1. Streams' /\ TypeOK'
  BY <1>0, SameStreams DEF SpekeInv, TypeOK
<1>2. ChainFollows' /\ KeysRight'
  BY <1>0, <1>1, NothingPrinted
<1>3. Served'
  BY <1>0, NobodyServed DEF AServes
<1>4. (NumberA(current_iter))' = NumberA(current_iter)
  BY <1>0, Computing DEF NumberA, BHash
<1>5. (Digits(NumberA(current_iter)))' = Digits(NumberA(current_iter))
  BY <1>4 DEF Digits
<1>6. FromA'
  BY <1>0, <1>4, <1>5 DEF SpekeInv, FromA, Late
<1>7. FromB' /\ Meet'
  BY <1>0 DEF FromB, Meet
<1> QED BY <1>1, <1>2, <1>3, <1>6, <1>7 DEF SpekeInv

-----------------------------------------------------------------------------
(* Steps of B.                                                             *)

LEMMA BSendAuthStep ==
  ASSUME SpekeInv, NEW i \in Typed, BSendAuth(i)
  PROVE  SpekeInv'
<1>0. /\ UNCHANGED <<pwA, pwB, current_iter, stored_hash, received_hash, aKeys, bKeys>>
      /\ UNCHANGED <<aAt, number, refused, down>>
      /\ bAt = "prompt" /\ iteration' = i /\ tries' = tries + 1 /\ tries < MaxTries
      /\ BSends(<<AuthOf(i)>>, "response") /\ i \in Nat
  BY SpekeConstants DEF BSendAuth, aVars, AuthOf
<1>1. bAt' \in {"response", "dead"} /\ (up' = up \/ up' = up \o <<AuthOf(i)>>)
  BY <1>0, Zenon DEF BSends
<1>2. ~AClosed => bAt' = "response" /\ up' = up \o <<AuthOf(i)>>
  BY <1>0, Zenon DEF BSends
<1>3. Streams'
  <2>1. up \in Seq(UpToken) /\ AuthOf(i) \in UpToken
    BY Tokens DEF SpekeInv, Streams
  <2>2. up \o <<AuthOf(i)>> \in Seq(UpToken)
    BY <2>1, Longer
  <2> QED BY <1>0, <1>1, <2>1, <2>2, TokensStay DEF SpekeInv, Streams
<1>4. TypeOK'
  BY <1>0, <1>1, <1>3, StreamKinds, SpekeConstants DEF SpekeInv, TypeOK
<1>5. ChainFollows' /\ KeysRight'
  BY <1>0, <1>4, NothingPrinted
<1>6. Served'
  BY <1>0, NobodyServed DEF AServes
<1>7. Astray => up \o <<AuthOf(i)>> # <<>> /\ (up \o <<AuthOf(i)>>)[1].kind = "auth"
  <2>1. ASSUME up = <<>> PROVE up \o <<AuthOf(i)>> = <<AuthOf(i)>>
    BY <2>1, FirstTokens
  <2>2. ASSUME up # <<>>
        PROVE  up \o <<AuthOf(i)>> # <<>> /\ (up \o <<AuthOf(i)>>)[1] = up[1]
    <3>1. up \in Seq(UpToken) /\ AuthOf(i) \in UpToken
      BY Tokens DEF SpekeInv, Streams
    <3> QED BY <2>2, <3>1, Longer
  <2> QED BY <2>1, <2>2, Parts DEF Astray
<1>8. up = <<>> => up \o <<AuthOf(i)>> = <<AuthOf(i)>>
  BY FirstTokens
<1>9. \A m, n : up = <<m, n>> => up \o <<AuthOf(i)>> = <<m, n, AuthOf(i)>>
  BY ThirdToken
<1>10. /\ \A k : AuthOf(k)' = AuthOf(k)
       /\ (NumberA(current_iter))' = NumberA(current_iter)
       /\ (NumberB(current_iter))' = NumberB(current_iter)
       /\ (AuthOf(iteration))' = AuthOf(i)
  BY <1>0, Computing DEF NumberA, NumberB, AuthOf, BHash
<1>11. /\ (Digits(NumberA(current_iter)))' = Digits(NumberA(current_iter))
       /\ (Digits(NumberB(current_iter)))' = Digits(NumberB(current_iter))
  BY <1>10 DEF Digits
<1>12. ~AClosed => \/ aAt = "auth" /\ up = <<>> /\ down = <<>>
                   \/ aAt = "digits" /\ down = <<>>
                   \/ aAt = "number" /\ Len(up) = 2 /\ down = <<>>
                   \/ aAt = "number" /\ Astray /\ Late
                   \/ aAt = "stuck" /\ Late
  BY <1>0 DEF SpekeInv, TypeOK, Meet, AClosed, BClosed
<1>13. aAt = "number" /\ Len(up) = 2 /\ ~Astray =>
         /\ current_iter \in DOMAIN bKeys
         /\ up = <<Length, Digits(NumberB(current_iter))>>
  <2>1. \A k : Len(<<Length, Digits(NumberB(current_iter)), AuthOf(k)>>) = 3
    OBVIOUS
  <2> QED BY <2>1 DEF SpekeInv, FromB, NumberCame
<1>14. /\ aAt = "auth" => up' = <<AuthOf(i)>>
       /\ aAt \in {"digits", "stuck"} => Astray'
       /\ aAt = "number" => Astray' \/ (NumberCame' /\ Len(up') = 3 /\ up'[3] = AuthOf(i))
       \/ AClosed
  <2>1. ASSUME ~AClosed, Astray PROVE Astray'
    BY <1>2, <1>7, <2>1 DEF Astray
  <2>2. ASSUME ~AClosed, aAt = "number", Len(up) = 2, ~Astray
        PROVE  NumberCame' /\ Len(up') = 3 /\ up'[3] = AuthOf(i)
    <3>1. up' = <<Length, Digits(NumberB(current_iter)), AuthOf(i)>>
      BY <1>2, <1>9, <1>13, <2>2
    <3>2. current_iter' \in DOMAIN bKeys'
      BY <1>0, <1>13, <2>2
    <3>3. Length' = Length
      BY DEF Length
    <3>4. \E k \in Typed : up' = <<Length, (Digits(NumberB(current_iter)))', AuthOf(k)'>>
      BY <1>10, <1>11, <3>1
    <3> QED BY <3>1, <3>2, <3>4 DEF NumberCame
  <2>3. aAt \in {"digits", "stuck"} => Astray
    BY DEF SpekeInv, FromB
  <2> QED BY <1>2, <1>8, <1>12, <2>1, <2>2, <2>3
<1>15. FromB'
  BY <1>0, <1>1, <1>10, <1>12, <1>14 DEF FromB, AClosed, NumberCame
<1>16. Late'
  <2>1. Late
    BY <1>0 DEF SpekeInv, FromA
  <2> QED BY <1>0, <1>11, <2>1 DEF Late
<1>17. FromA'
  BY <1>0, <1>1, <1>16 DEF FromA
<1>18. Meet'
  <2>1. aAt # "ended" \/ BClosed'
    BY <1>0 DEF SpekeInv, Meet, BClosed
  <2>2. ~BClosed' => bAt' = "response"
    BY <1>1 DEF BClosed
  <2>3. AClosed => aAt \in {"ended", "dead"}
    BY DEF AClosed
  <2>4. aAt = "auth" /\ ~AClosed => up' = <<(AuthOf(iteration))'>> /\ down' = <<>>
    BY <1>0, <1>10, <1>12, <1>14
  <2>5. aAt \in {"digits", "stuck"} /\ ~AClosed => Late' /\ (aAt = "digits" => down' = <<>>)
    BY <1>0, <1>12, <1>16
  <2>6. aAt = "number" /\ ~AClosed =>
          \/ Len(up') = 3 /\ up'[3] = (AuthOf(iteration))' /\ down' = <<>>
          \/ Astray' /\ Late'
    <3>1. aAt = "number" /\ ~AClosed /\ Astray => Astray'
      BY <1>2, <1>7 DEF Astray
    <3>2. aAt = "number" /\ ~AClosed /\ ~Astray => down = <<>>
      BY <1>12
    <3> QED BY <1>0, <1>10, <1>14, <1>16, <3>1, <3>2
  <2>7. aAt = "length" => AClosed
    BY <1>12
  <2> QED BY <1>0, <2>1, <2>2, <2>3, <2>4, <2>5, <2>6, <2>7, Zenon DEF Meet
<1> QED BY <1>3, <1>4, <1>5, <1>6, <1>15, <1>17, <1>18 DEF SpekeInv

\* B ends, is killed, or finds that A is gone.
LEMMA BLeaves ==
  ASSUME SpekeInv, bAt' \in {"ended", "dead"},
         UNCHANGED <<pwB, iteration, number, refused, bKeys, tries, aVars, up, down>>
  PROVE  SpekeInv'
<1>0. /\ UNCHANGED <<pwA, pwB, current_iter, stored_hash, received_hash, aKeys, bKeys>>
      /\ UNCHANGED <<aAt, iteration, number, refused, tries, up, down>>
  BY DEF aVars
<1>1. Streams' /\ TypeOK'
  BY <1>0, SameStreams DEF SpekeInv, TypeOK
<1>2. ChainFollows' /\ KeysRight'
  BY <1>0, <1>1, NothingPrinted
<1>3. Served'
  BY <1>0, NobodyServed DEF AServes
<1>4. \A i : AuthOf(i)' = AuthOf(i)
  BY <1>0, Computing
<1>5. (Digits(NumberB(current_iter)))' = Digits(NumberB(current_iter))
  BY <1>0, Computing DEF NumberB, BHash, Digits
<1>6. Astray' <=> Astray
  BY <1>0 DEF Astray
<1>7. NumberCame' <=> NumberCame
  BY <1>0, <1>4, <1>5 DEF NumberCame
<1>8. FromB'
  BY <1>0, <1>4, <1>6, <1>7 DEF SpekeInv, FromB
<1>9. FromA' /\ Meet'
  BY DEF FromA, Meet, BClosed
<1> QED BY <1>1, <1>2, <1>3, <1>8, <1>9 DEF SpekeInv

\* What is on its way to A is untouched, and no key is printed.
LEMMA UpUntouched ==
  ASSUME SpekeInv, UNCHANGED <<aAt, current_iter, pwB, bKeys, up>>
  PROVE  FromB' /\ (Astray' <=> Astray)
<1>1. \A i : AuthOf(i)' = AuthOf(i)
  BY Computing
<1>2. (Digits(NumberB(current_iter)))' = Digits(NumberB(current_iter))
  BY Computing DEF NumberB, BHash, Digits
<1>3. Astray' <=> Astray
  BY DEF Astray
<1>4. NumberCame' <=> NumberCame
  BY <1>1, <1>2 DEF NumberCame
<1>5. FromB'
  BY <1>1, <1>3, <1>4 DEF SpekeInv, FromB
<1> QED BY <1>3, <1>5

LEMMA BRecvResponseStep == SpekeInv /\ BRecvResponse => SpekeInv'
<1> SUFFICES ASSUME SpekeInv, BRecvResponse PROVE SpekeInv'
  OBVIOUS
<1>0. /\ UNCHANGED <<pwA, pwB, current_iter, stored_hash, received_hash, aKeys, bKeys>>
      /\ UNCHANGED <<aAt, iteration, number, tries, up>>
      /\ bAt = "response" /\ down # <<>> /\ down' = <<>>
      /\ \/ down = <<Text("OK")>> /\ bAt' = "number" /\ UNCHANGED refused
         \/ /\ down # <<Text("OK")>> /\ bAt' = "prompt"
            /\ refused' = IF Len(down) = 1 THEN down[1].kind ELSE "several"
  BY DEF BRecvResponse, aVars
<1>1. Streams'
  BY <1>0, TokensStay, EmptySeq DEF SpekeInv, Streams
<1>2. refused' \in {"nothing", "several", "length", "digits"} \cup Refusal
  <2>1. ASSUME Len(down) = 1, down # <<Text("OK")>>
        PROVE  down[1].kind \in {"digits"} \cup Refusal
    <3>1. /\ Len(<<Text("OK"), Length>>) = 2
          /\ Len(<<Text("OK"), Length, Digits(NumberA(current_iter))>>) = 3
      OBVIOUS
    <3>2. \/ down = <<Digits(NumberA(current_iter))>>
          \/ \E t \in Refusal : down = <<Text(t)>>
      BY <1>0, <2>1, <3>1 DEF SpekeInv, FromA, Late
    <3> QED BY <3>2, Parts
  <2> QED BY <1>0, <2>1 DEF SpekeInv, TypeOK
<1>3. TypeOK'
  BY <1>0, <1>1, <1>2, StreamKinds DEF SpekeInv, TypeOK
<1>4. ChainFollows' /\ KeysRight'
  BY <1>0, <1>3, NothingPrinted
<1>5. Served'
  BY <1>0, NobodyServed DEF AServes
<1>6. FromB' /\ (Astray' <=> Astray)
  BY <1>0, UpUntouched
<1>7. down = <<Text("OK")>> => iteration = current_iter
  <2>1. Text("OK").kind = "OK" /\ \A t \in Refusal : Text(t).kind # "OK"
    BY Parts DEF Refusal
  <2>2. Digits(NumberA(current_iter)).kind # "OK"
    BY Parts
  <2> QED BY <1>0, <2>1, <2>2 DEF SpekeInv, FromA, Late
<1>8. FromA'
  BY <1>0, <1>7 DEF FromA, Late
<1>9. Meet'
  <2>1. Text("OK").kind = "OK" /\ \A t \in Refusal : Text(t).kind # "OK"
    BY Parts DEF Refusal
  <2>2. Digits(NumberA(current_iter)).kind # "OK"
    BY Parts
  <2>4. aAt = "auth" => bAt' = "prompt" /\ up' = <<>>
    BY <1>0, <2>1 DEF SpekeInv, Meet, BClosed
  <2>5. aAt = "length" => bAt' = "number"
    BY <1>0 DEF SpekeInv, Meet, BClosed
  <2>6. aAt = "digits" => bAt' = "prompt"
    <3>1. down = <<Text("OK")>> => Len(down) = 1
      OBVIOUS
    <3>2. aAt = "digits" => Len(down) = 2
      BY <1>0 DEF SpekeInv, Meet, BClosed
    <3> QED BY <1>0, <3>1, <3>2
  <2>7. aAt = "number" => bAt' = "prompt" /\ Astray'
    <3>0. Len(<<Text("OK"), Length, Digits(NumberA(current_iter))>>) = 3
      OBVIOUS
    <3>1. aAt = "number" => (Len(down) = 3 /\ up = <<>>) \/ (Astray /\ Late)
      BY <1>0, <3>0 DEF SpekeInv, Meet, BClosed
    <3>2. down = <<Text("OK")>> => Len(down) = 1 /\ ~Late
      BY <1>0, <2>1, <2>2 DEF Late
    <3> QED BY <1>0, <1>6, <3>1, <3>2 DEF Astray
  <2>8. aAt = "stuck" => bAt' = "prompt"
    <3>1. aAt = "stuck" => Late
      BY <1>0 DEF SpekeInv, Meet, BClosed
    <3> QED BY <1>0, <2>1, <2>2, <3>1 DEF Late
  <2>9. aAt # "ended" /\ down' = <<>>
    BY <1>0 DEF SpekeInv, Meet, BClosed
  <2> QED BY <1>0, <2>4, <2>5, <2>6, <2>7, <2>8, <2>9 DEF Meet, Late
<1> QED BY <1>1, <1>3, <1>4, <1>5, <1>6, <1>8, <1>9 DEF SpekeInv

LEMMA BRecvNumberStep == SpekeInv /\ BRecvNumber => SpekeInv'
<1> SUFFICES ASSUME SpekeInv, BRecvNumber PROVE SpekeInv'
  OBVIOUS
<1>0. /\ UNCHANGED <<pwA, pwB, current_iter, stored_hash, received_hash, aKeys, bKeys>>
      /\ UNCHANGED <<aAt, iteration, refused, tries, up>>
      /\ bAt = "number" /\ bAt' = "send" /\ iteration = current_iter
  BY DEF BRecvNumber, aVars, SpekeInv, FromA
<1>1. down' = <<>> /\ (number' = Junk \/ number' = NumberA(current_iter))
  <2>1. CASE Len(down) < 2
    BY <2>1 DEF BRecvNumber
  <2>2. CASE down = <<Length, Digits(NumberA(current_iter))>>
    <3>1. down[2] = Digits(NumberA(current_iter)) /\ Len(down) = 2
      BY <2>2
    <3>2. Unread(down, 2) = <<>>
      BY <2>2, NumberTaken
    <3> QED BY <3>1, <3>2, Parts DEF BRecvNumber
  <2>3. Len(<<Length>>) = 1 /\ Len(<<>>) = 0
    OBVIOUS
  <2> QED BY <1>0, <2>1, <2>2, <2>3 DEF SpekeInv, FromA
<1>2. ~AClosed => (aAt = "number" /\ up = <<>>) \/ BClosed
  <2>1. /\ Len(down) >= 2 \/ AClosed
        /\ Len(<<>>) = 0 /\ Len(<<Length>>) = 1
    BY DEF BRecvNumber
  <2> QED BY <1>0, <2>1 DEF SpekeInv, TypeOK, Meet, AClosed
<1>3. Streams'
  BY <1>0, <1>1, TokensStay, EmptySeq DEF SpekeInv, Streams
<1>4. number' \in PowerType
  BY <1>1, Computed DEF SpekeInv, TypeOK
<1>5. TypeOK'
  BY <1>0, <1>3, <1>4, StreamKinds DEF SpekeInv, TypeOK
<1>6. ChainFollows' /\ KeysRight'
  BY <1>0, <1>5, NothingPrinted
<1>7. Served'
  BY <1>0, NobodyServed DEF AServes
<1>8. FromB'
  BY <1>0, UpUntouched
<1>9. FromA'
  <2>1. (NumberA(current_iter))' = NumberA(current_iter) /\ Junk' = Junk
    BY <1>0, Computing DEF NumberA, BHash, Junk
  <2> QED BY <1>0, <1>1, <2>1 DEF FromA
<1>10. Meet'
  <2>1. ~BClosed
    BY <1>0 DEF BClosed
  <2>2. aAt # "ended"
    BY <2>1 DEF SpekeInv, Meet
  <2> QED BY <1>0, <1>2, <2>1, <2>2 DEF Meet, AClosed
<1> QED BY <1>3, <1>5, <1>6, <1>7, <1>8, <1>9, <1>10 DEF SpekeInv

LEMMA BSendNumberStep == SpekeInv /\ BSendNumber => SpekeInv'
<1> SUFFICES ASSUME SpekeInv, BSendNumber PROVE SpekeInv'
  OBVIOUS
<1> DEFINE n == Digits(NumberB(current_iter))
<1>0. /\ UNCHANGED <<pwA, pwB, current_iter, stored_hash, received_hash, aKeys>>
      /\ UNCHANGED <<aAt, iteration, number, refused, tries, down>>
      /\ bAt = "send" /\ iteration = current_iter /\ down = <<>>
      /\ number = Junk \/ number = NumberA(current_iter)
      /\ current_iter \in Nat /\ current_iter >= 1
  BY DEF BSendNumber, aVars, SpekeInv, FromA, TypeOK, Served
<1>1. aAt # "ended" /\ (aAt = "dead" \/ (aAt = "number" /\ up = <<>>))
  BY <1>0 DEF SpekeInv, TypeOK, Meet, BClosed
<1>2. CASE bAt' = "dead"
  <2>1. UNCHANGED bKeys /\ UNCHANGED up
    BY <1>2 DEF BSendNumber
  <2> QED BY <1>2, <2>1, BLeaves DEF BSendNumber
<1>3. CASE bAt' # "dead"
  <2>1. /\ up' = up \o <<Length, n>> /\ bAt' = "prompt"
        /\ DOMAIN bKeys' = DOMAIN bKeys \cup {current_iter}
        /\ bKeys'[current_iter] = RaisedBy(number, "b")
        /\ \A i \in DOMAIN bKeys : i # current_iter => bKeys'[i] = bKeys[i]
    BY <1>0, <1>3 DEF BSendNumber, NumberB
  <2>2. number \in PowerType
    BY DEF SpekeInv, TypeOK
  <2>3. RaisedBy(number, "b") \in PowerType
    BY <2>2, KeyTypes
  <2>4. n \in UpToken /\ Length \in UpToken
    BY <1>0, Computed, Tokens DEF SpekeInv
  <2>5. n' = n
    BY <1>0, Computing DEF NumberB, BHash, Digits
  <2> HIDE DEF n
  <2>6. Streams'
    <3>1. up \o <<Length, n>> \in Seq(UpToken)
      BY <2>4, Longer DEF SpekeInv, Streams
    <3> QED BY <1>0, <2>1, <3>1, TokensStay DEF SpekeInv, Streams
  <2>7. TypeOK'
    <3>1. \A i \in DOMAIN bKeys' : bKeys'[i] \in PowerType
      BY <2>1, <2>3 DEF SpekeInv, TypeOK
    <3> QED BY <1>0, <2>1, <2>6, <3>1, StreamKinds DEF SpekeInv, TypeOK
  <2>8. ChainFollows'
    BY <1>0, <2>1, <2>7 DEF SpekeInv, ChainFollows
  <2>9. KeysRight'
    <3>1. \A i : KeyOf(i)' = KeyOf(i)
      BY <1>0, Computing
    <3>2. \A i \in DOMAIN bKeys' : bKeys'[i] \in {KeyOf(i), RaisedBy(Junk, "b")}
      BY <1>0, <2>1, Keys DEF SpekeInv, KeysRight
    <3>3. RaisedBy(Junk, "a")' = RaisedBy(Junk, "a") /\ RaisedBy(Junk, "b")' = RaisedBy(Junk, "b")
      BY DEF RaisedBy, Junk, Power
    <3> QED BY <1>0, <3>1, <3>2, <3>3 DEF SpekeInv, KeysRight
  <2>10. Served'
    BY <1>0, NobodyServed DEF AServes
  <2>11. up = <<>> => up' = <<Length, n>> /\ Len(up') = 2
    BY <2>1, FirstTokens
  <2>12. FromB'
    <3>1. up = <<>> => NumberCame'
      BY <1>0, <2>1, <2>5, <2>11 DEF NumberCame, n
    <3> QED BY <1>0, <1>1, <3>1 DEF FromB
  <2>13. FromA'
    BY <1>0, <2>1 DEF FromA, Late
  <2>14. Meet'
    BY <1>0, <1>1, <2>1, <2>11 DEF Meet
  <2> QED BY <2>6, <2>7, <2>8, <2>9, <2>10, <2>12, <2>13, <2>14 DEF SpekeInv
<1> QED BY <1>2, <1>3

-----------------------------------------------------------------------------
(* Every step.                                                             *)

LEMMA SpekeStutters == SpekeInv /\ UNCHANGED vars => SpekeInv'
<1> SUFFICES ASSUME SpekeInv, UNCHANGED vars PROVE SpekeInv'
  OBVIOUS
<1>0. /\ UNCHANGED <<pwA, pwB, current_iter, stored_hash, received_hash, aKeys, bKeys>>
      /\ UNCHANGED <<aAt, bAt, iteration, number, refused, tries, up, down>>
  BY DEF vars
<1>1. Streams' /\ TypeOK'
  BY <1>0, SameStreams DEF SpekeInv, TypeOK
<1>2. ChainFollows' /\ KeysRight'
  BY <1>0, <1>1, NothingPrinted
<1>3. Served'
  BY <1>0, NobodyServed DEF AServes
<1>4. FromB' /\ (Astray' <=> Astray)
  BY <1>0, UpUntouched
<1>5. /\ (NumberA(current_iter))' = NumberA(current_iter)
      /\ (Digits(NumberA(current_iter)))' = Digits(NumberA(current_iter))
      /\ (AuthOf(iteration))' = AuthOf(iteration)
  BY <1>0, Computing DEF NumberA, BHash, AuthOf, Digits
<1>6. Late' <=> Late
  BY <1>0, <1>5 DEF Late
<1>7. FromA'
  BY <1>0, <1>5, <1>6 DEF SpekeInv, FromA
<1>8. Meet'
  BY <1>0, <1>4, <1>5, <1>6 DEF SpekeInv, Meet, BClosed
<1> QED BY <1>1, <1>2, <1>3, <1>4, <1>7, <1>8 DEF SpekeInv

LEMMA SpekeStep == SpekeInv /\ [Next]_vars => SpekeInv'
<1> SUFFICES ASSUME SpekeInv, [Next]_vars PROVE SpekeInv'
  OBVIOUS
<1>1. CASE A
  BY <1>1, ARecvAuthStep, AEndsStep, ASendLengthStep, ASendDigitsStep,
     ARecvNumberStep, AStuckStep, ARecvNothingStep DEF A
<1>2. CASE BLosesResponse \/ BExit \/ BDies
  <2>1. /\ bAt' \in {"ended", "dead"}
        /\ UNCHANGED <<pwB, iteration, number, refused, bKeys, tries, aVars, up, down>>
    BY <1>2 DEF BLosesResponse, BExit, BDies
  <2> QED BY <2>1, BLeaves
<1>3. CASE B
  BY <1>2, <1>3, BRecvResponseStep, BRecvNumberStep, BSendNumberStep DEF B
<1>4. CASE ADies
  BY <1>4, ADiesStep
<1>5. CASE \E i \in Typed : BSendAuth(i)
  BY <1>5, BSendAuthStep
<1>6. CASE UNCHANGED vars
  BY <1>6, SpekeStutters
<1> QED BY <1>1, <1>2, <1>3, <1>4, <1>5, <1>6 DEF Next

-----------------------------------------------------------------------------
(* The theorems.                                                           *)

\* The inductive invariant holds in every run of the two programs.
THEOREM SpekeAlways == Spec => []SpekeInv
BY SpekeInit, SpekeStep, PTL DEF Spec

\* A's stored hash is as far down the chain as the iterations it served, whatever
\* is refused, lost or taken for something else in between; it has printed a key
\* for each of them, and B with it unless the connection was lost; and A never
\* comes to the end of its loop, which B's chain is too short for.
THEOREM SpekeChain == Spec => []ChainFollows
<1>1. SpekeInv => ChainFollows
  BY DEF SpekeInv
<1> QED BY <1>1, SpekeAlways, PTL

\* Where both programs computed a key of an iteration from the other's number,
\* they printed the same.
THEOREM SpekeKeysMatch == Spec => []KeysMatch
<1>1. SpekeInv => KeysMatch
  BY Keys DEF SpekeInv, KeysRight, KeysMatch
<1> QED BY <1>1, SpekeAlways, PTL

\* A lets in nobody who hashes another password, on any iteration.
THEOREM SpekeSamePassword == Spec => []SamePassword
<1>1. SpekeInv => SamePassword
  BY DEF SpekeInv, Served, AServes, Agreed, Matched, SamePassword
<1> QED BY <1>1, SpekeAlways, PTL
=============================================================================
