---------------------------- MODULE IdentifyProofs ----------------------------
(***************************************************************************)
(* Theorems about the identifications in two and in three steps, for any   *)
(* texts that users can type, with separators anywhere in them, and with   *)
(* programs killed anywhere: each side that accepts has what the other     *)
(* side said, and said it in answer to this side's own message.            *)
(*                                                                         *)
(* Names with a 3 or a w in them are those of the three steps.             *)
(***************************************************************************)
EXTENDS Identify, SequenceTheorems, FiniteSetTheorems, TLAPS

-----------------------------------------------------------------------------
(* Messages on their way.                                                  *)

\* What is on its way when k of the three sends of a message are done.
Sent(text, p, k) ==
  [i \in 1 .. IF k = 0 THEN 0 ELSE Len(text) + k |->
     IF i <= Len(text) THEN [kind |-> text[i]]
     ELSE IF i = Len(text) + 1 THEN [kind |-> "NUL"]
     ELSE IF i = Len(text) + 2 THEN Bar
     ELSE Cipher(p)]

\* What a program that has read the text before '|' has still to read of s.
Opened(s, left, read, closed) ==
  \/ HasBar(s) /\ left = AfterBar(s) /\ read = TextBefore(s)
  \/ closed /\ left = <<>>

-----------------------------------------------------------------------------
(* The inductive invariant of the two steps.                               *)

Asked == Plain(Auth, ID_A, m1)
Answer == Plain(auth_data, ID_B, m3)

\* What B has taken for A's number, and what it has printed with it, unless it
\* decrypted a block that was never encrypted.
Understood ==
  /\ bHeard.m1 = m1 /\ bHeard.m2 = m2
  /\ auth_data \in {SubSeq(Asked, 1, 1), SubSeq(Asked, 1, 2)}
Misread == auth_data \in {<<"junk">>, Block}

ReadByA ==
  /\ aAt \in {"start", "send", "text"} => down = Sent(m4, Answer, bSent)
  /\ aAt = "cipher" => Opened(Sent(m4, Answer, bSent), down, aText, BClosed)
ReadByB ==
  /\ bAt \in {"accept", "text"} => up = Sent(m2, Asked, aSent)
  /\ bAt = "cipher" => Opened(Sent(m2, Asked, aSent), up, bText, AClosed)

\* How far the two programs are.
Places ==
  /\ aAt = "start" => aSent = 0
  /\ aAt = "send" => aSent < 3
  /\ bAt \in {"accept", "text", "cipher", "type", "failed"} => bSent = 0
  /\ bAt = "send" => bSent < 3 /\ m3 \in Text /\ m4 \in Text
  /\ bAt = "dead" => bSent < 3
  /\ bAt = "ended" => bSent = 3
  /\ bSent > 0 => m3 \in Text /\ m4 \in Text
  /\ auth_data = <<>> \/ Understood \/ Misread

TwoInv == /\ TwoStepTypeOK /\ Places /\ ReadByA /\ ReadByB
          /\ aAt = "accepted" => /\ bSent = 3 /\ Understood
                                 /\ aHeard = [m3 |-> m3, m4 |-> m4]

-----------------------------------------------------------------------------
(* The inductive invariant of the three steps.                             *)

\* What is on its way when h of the two sends of A's first message are done, and what
\* B leaves of it when it has read the number.
Hello(h) == IF h = 0 THEN <<>> ELSE IF h = 1 THEN Clear(<<"r_a">>)
            ELSE Clear(<<"r_a">>) \o Clear(Append(w1, "NUL"))
Rest(h) == IF h = 2 THEN Clear(Append(w1, "NUL")) ELSE <<>>
Greeting(h) == /\ aAt3 \in {"start", "hello"} => h = aSent3
               /\ aAt3 \in {"text", "cipher"} => h = 2

\* The plaintexts of the other two messages.
Reply == Plain(<<bRa, "r_b">>, ID_B, w2)
Proof == Plain(<<aRb, "r_a">>, ID_A, w4)

\* A may have done k of the three sends of its second message.
Proving(k) == /\ aAt3 = "send" => k = aSent3
              /\ aAt3 = "ended" <=> k = 3
              /\ aAt3 \notin {"send", "ended", "dead"} => k = 0

ToB ==
  /\ bAt3 \in {"accept", "r_a"} => \E h \in 0 .. 2 : Greeting(h) /\ up3 = Hello(h)
  /\ bAt3 = "m1" => \/ /\ bRa = "r_a"
                       /\ \E h \in 1 .. 2 : Greeting(h) /\ up3 = Rest(h)
                    \/ Three!AClosed /\ up3 = <<>>
  /\ bAt3 \in {"type", "send"} => up3 = <<>>
  /\ bAt3 = "text" => \E k \in 0 .. 3 : Proving(k) /\ up3 = Sent(w5, Proof, k)
  /\ bAt3 = "cipher" => \E k \in 0 .. 3 :
       Proving(k) /\ Opened(Sent(w5, Proof, k), up3, bText3, Three!AClosed)
ToA ==
  /\ aAt3 \in {"start", "hello", "text"} => down3 = Sent(w3, Reply, bSent3)
  /\ aAt3 = "cipher" => Opened(Sent(w3, Reply, bSent3), down3, aText3, Three!BClosed)

\* B has gone past A's first message; it then has all of it, or A has ended early.
Past == bAt3 \in {"type", "send", "text", "cipher"} \/ bSent3 > 0

Stages ==
  /\ aAt3 = "start" => aSent3 = 0
  /\ aAt3 = "hello" => aSent3 < 2
  /\ aAt3 \in {"text", "cipher", "type"} => aSent3 = 0
  /\ aAt3 = "send" => w4 \in Text /\ w5 \in Text
  /\ aAt3 = "ended" => w4 \in Text /\ w5 \in Text
  /\ bAt3 \in {"accept", "r_a", "m1", "type"} => bSent3 = 0
  /\ bAt3 = "send" => bSent3 < 3
  /\ bAt3 \in {"text", "cipher", "accepted", "failed"} => bSent3 = 3
  /\ bAt3 = "send" \/ bSent3 > 0 => w2 \in Text /\ w3 \in Text
  /\ Past => \/ aAt3 \in {"failed", "dead"}
             \/ aAt3 \notin {"start", "hello"} /\ bRa = "r_a" /\ bM1 = w1

\* What each side has when it has accepted.
Checked ==
  /\ aAt3 \in {"start", "hello", "text", "cipher", "failed"} => aHeard3 = Nothing
  /\ aAt3 \in {"type", "send", "ended"} => aHeard3 # Nothing
  /\ aHeard3 # Nothing => /\ bSent3 = 3 /\ aRb = "r_b"
                          /\ aHeard3 = [m2 |-> w2, m3 |-> w3]
  /\ bHeard3 # Nothing <=> bAt3 = "accepted"
  /\ bAt3 = "accepted" => aAt3 = "ended" /\ bHeard3 = [m1 |-> w1, m4 |-> w4, m5 |-> w5]

ThreeInv == Three!ThreeStepTypeOK /\ ToB /\ ToA /\ Stages /\ Checked

-----------------------------------------------------------------------------
(* The first of some places of a sequence.                                 *)

\* A set of natural numbers that is not empty has a least one (the intervals that
\* start at 0 are finite, and inclusion of finite sets is well-founded).
LEMMA Least ==
  ASSUME NEW T \in SUBSET Nat, T # {}
  PROVE  \E m \in T : \A k \in T : m <= k
<1> DEFINE Below == {0 .. k : k \in T}
<1>1. Below \subseteq FiniteSubsetsOf(Nat) /\ Below # {}
  <2>1. \A k \in T : 0 .. k \in FiniteSubsetsOf(Nat)
    BY FS_Interval DEF FiniteSubsetsOf
  <2> QED BY <2>1
<1>2. PICK s \in Below : \A r \in Below : <<r, s>> \notin StrictSubsetOrdering(Nat)
  BY <1>1, FS_StrictSubsetOrderingWellFounded, WFMin
<1>3. PICK m \in T : s = 0 .. m
  OBVIOUS
<1>4. ASSUME NEW k \in T, k < m PROVE FALSE
  <2>1. 0 .. k \subseteq 0 .. m /\ 0 .. k # 0 .. m
    <3>1. m \in 0 .. m /\ m \notin 0 .. k
      BY <1>4
    <3> QED BY <3>1, <1>4
  <2>2. <<0 .. k, 0 .. m>> \in StrictSubsetOrdering(Nat)
    BY <2>1 DEF StrictSubsetOrdering
  <2> QED BY <1>2, <1>3, <2>2
<1> QED BY <1>4

\* FirstBar is where the first '|' is.
LEMMA FirstBarIs ==
  ASSUME NEW S, NEW q \in Seq(S), HasBar(q)
  PROVE  /\ FirstBar(q) \in 1 .. Len(q) /\ q[FirstBar(q)] = Bar
         /\ \A k \in 1 .. FirstBar(q) - 1 : q[k] # Bar
<1> DEFINE T == {i \in 1 .. Len(q) : q[i] = Bar}
<1>1. T \in SUBSET Nat /\ T # {}
  BY DEF HasBar
<1>2. PICK m \in T : \A k \in T : m <= k
  BY <1>1, Least
<1>3. /\ m \in 1 .. Len(q) /\ q[m] = Bar
      /\ \A k \in 1 .. m - 1 : q[k] # Bar
  BY <1>2
<1> QED BY <1>3 DEF FirstBar

\* Bytes behind the first '|' do not change where it is.
LEMMA FirstBarStays ==
  ASSUME NEW S, NEW q \in Seq(S), NEW r \in Seq(S), HasBar(q)
  PROVE  HasBar(q \o r) /\ FirstBar(q \o r) = FirstBar(q)
<1>1. /\ q \o r \in Seq(S)
      /\ Len(q \o r) = Len(q) + Len(r)
      /\ \A i \in 1 .. Len(q) : (q \o r)[i] = q[i]
  BY ConcatProperties
<1>2. /\ FirstBar(q) \in 1 .. Len(q) /\ q[FirstBar(q)] = Bar
      /\ \A k \in 1 .. FirstBar(q) - 1 : q[k] # Bar
  BY FirstBarIs
<1>3. HasBar(q \o r)
  BY <1>1, <1>2 DEF HasBar
<1>4. /\ FirstBar(q \o r) \in 1 .. Len(q \o r) /\ (q \o r)[FirstBar(q \o r)] = Bar
      /\ \A k \in 1 .. FirstBar(q \o r) - 1 : (q \o r)[k] # Bar
  BY <1>1, <1>3, FirstBarIs
<1>5. FirstBar(q) \in Int /\ FirstBar(q \o r) \in Int
  BY <1>2, <1>4
<1>6. ~(FirstBar(q) < FirstBar(q \o r))
  BY <1>1, <1>2, <1>4, <1>5
<1>7. ~(FirstBar(q \o r) < FirstBar(q))
  BY <1>1, <1>2, <1>4, <1>5
<1> QED BY <1>3, <1>5, <1>6, <1>7

\* So what follows is only added to what is left to read.
LEMMA ReadsStay ==
  ASSUME NEW S, NEW q \in Seq(S), NEW r \in Seq(S), HasBar(q)
  PROVE  /\ AfterBar(q \o r) = AfterBar(q) \o r
         /\ TextBefore(q \o r) = TextBefore(q)
<1> DEFINE n == FirstBar(q)
<1>1. HasBar(q \o r) /\ FirstBar(q \o r) = n
  BY FirstBarStays
<1>2. n \in 1 .. Len(q) /\ Len(q) \in Nat
  BY FirstBarIs
<1>3. /\ q \o r \in Seq(S)
      /\ Len(q \o r) = Len(q) + Len(r) /\ Len(r) \in Nat
      /\ \A i \in 1 .. Len(q) + Len(r) :
           (q \o r)[i] = IF i <= Len(q) THEN q[i] ELSE r[i - Len(q)]
  BY ConcatProperties
<1> HIDE DEF n
<1>4. AfterBar(q \o r) = AfterBar(q) \o r
  <2> DEFINE s == SubSeq(q \o r, n + 1, Len(q) + Len(r))
             t == SubSeq(q, n + 1, Len(q))
  <2>1. AfterBar(q \o r) = s /\ AfterBar(q) = t
    BY <1>1, <1>3 DEF AfterBar, Unread, n
  <2>2. /\ s \in Seq(S) /\ Len(s) = Len(q) + Len(r) - n
        /\ \A i \in 1 .. Len(q) + Len(r) - n : s[i] = (q \o r)[n + i]
    <3>1. \A i \in n + 1 .. Len(q) + Len(r) : (q \o r)[i] \in S
      BY <1>2, <1>3
    <3> QED BY <3>1, <1>2, <1>3, SubSeqProperties
  <2>3. /\ t \in Seq(S) /\ Len(t) = Len(q) - n
        /\ \A i \in 1 .. Len(q) - n : t[i] = q[n + i]
    BY <1>2, SubSeqProperties
  <2> HIDE DEF s, t
  <2>4. /\ t \o r \in Seq(S) /\ Len(t \o r) = Len(t) + Len(r)
        /\ \A i \in 1 .. Len(t) + Len(r) :
             (t \o r)[i] = IF i <= Len(t) THEN t[i] ELSE r[i - Len(t)]
    BY <2>3, ConcatProperties
  <2>5. \A i \in 1 .. Len(q) + Len(r) - n : s[i] = (t \o r)[i]
    BY <1>2, <1>3, <2>2, <2>3, <2>4
  <2>6. Len(s) = Len(t \o r)
    BY <1>2, <1>3, <2>2, <2>3, <2>4
  <2>7. s = t \o r
    <3>1. \A i \in 1 .. Len(s) : s[i] = (t \o r)[i]
      BY <2>2, <2>5
    <3> QED BY <2>2, <2>4, <2>6, <3>1, SeqEqual
  <2> QED BY <2>1, <2>7
<1>5. TextBefore(q \o r) = TextBefore(q)
  <2>1. SubSeq(q \o r, 1, n - 1) = SubSeq(q, 1, n - 1)
    <3>1. CASE n = 1
      BY <3>1, SubSeqEmpty
    <3>2. CASE n > 1
      BY <3>2, <1>2, SubSeqOfConcat1
    <3> QED BY <1>2, <3>1, <3>2
  <2> QED BY <1>1, <2>1 DEF TextBefore, n
<1> QED BY <1>4, <1>5

-----------------------------------------------------------------------------
(* Strings.                                                                *)

\* What texts and plaintexts are made of: what users type, and what only the
\* programs write.
Piece == STRING \cup {"NUL", "|", "time", "junk", "r_a", "r_a2", "r_b", ID_A, ID_B}

LEMMA Pieces ==
  /\ {"NUL", "|", "time", "junk", "r_a", "r_a2", "r_b", ID_A, ID_B} \subseteq Piece
  /\ ID_A \notin Ends /\ ID_B \notin Ends
BY DEF Piece, Ends, ID_A, ID_B

LEMMA Typed ==
  ASSUME NEW text, Typeable(text)
  PROVE  /\ text \in Seq(Piece) /\ Len(text) \in Nat
         /\ \A i \in 1 .. Len(text) : text[i] \notin Ends /\ text[i] # "cipher"
<1>1. text \in Seq(STRING)
  BY DEF Typeable
<1>2. text \in Seq(Piece)
  BY <1>1, SeqMonotonic DEF Piece
<1> QED BY <1>2 DEF Typeable

\* Sequences of one and of two elements.
LEMMA Single ==
  ASSUME NEW S, NEW s \in Seq(S), Len(s) = 1
  PROVE  s = <<s[1]>>
<1>1. s[1] \in S
  OBVIOUS
<1>2. <<s[1]>> \in Seq(S) /\ Len(<<s[1]>>) = 1 /\ <<s[1]>>[1] = s[1]
  BY <1>1
<1> DEFINE t == <<s[1]>>
<1>3. t \in Seq(S) /\ Len(s) = Len(t) /\ \A i \in 1 .. Len(s) : s[i] = t[i]
  BY <1>2
<1> HIDE DEF t
<1>4. s = t
  BY <1>3, SeqEqual
<1> QED BY <1>4 DEF t

LEMMA Tuples ==
  ASSUME NEW S, NEW a \in S, NEW b \in S
  PROVE  /\ <<a>> \in Seq(S) /\ Len(<<a>>) = 1 /\ <<a>>[1] = a
         /\ <<a, b>> \in Seq(S) /\ Len(<<a, b>>) = 2
         /\ <<a, b>>[1] = a /\ <<a, b>>[2] = b
OBVIOUS

\* Where the string that s starts with ends.
LEMMA EndIs ==
  ASSUME NEW s, NEW n \in Nat \ {0}, Len(s) \in Nat, n <= Len(s), s[n] = "NUL",
         \A k \in 1 .. n - 1 : s[k] \notin Ends
  PROVE  EndOf(s) = n
<1> DEFINE P(i) == s[i] \in Ends /\ \A k \in 1 .. i - 1 : s[k] \notin Ends
<1>1. n \in 1 .. Len(s) /\ P(n)
  BY DEF Ends
<1>2. ASSUME NEW i \in 1 .. Len(s), P(i) PROVE i = n
  <2>1. ~(i < n)
    BY <1>2
  <2>2. ~(n < i)
    BY <1>1, <1>2
  <2> QED BY <2>1, <2>2
<1>3. EndOf(s) = CHOOSE i \in 1 .. Len(s) : P(i)
  BY DEF EndOf
<1> HIDE DEF P
<1> QED BY <1>1, <1>2, <1>3

\* A text with its zero byte, wherever it is copied to, is read as the text.
LEMMA StringIs ==
  ASSUME NEW text, Typeable(text), NEW s \in Seq(Piece), Len(s) = Len(text) + 1,
         \A i \in 1 .. Len(text) : s[i] = text[i], s[Len(s)] = "NUL"
  PROVE  StringAt(s) = text
<1>1. /\ text \in Seq(Piece) /\ Len(text) \in Nat
      /\ \A i \in 1 .. Len(text) : text[i] \notin Ends
  BY Typed
<1>2. EndOf(s) = Len(s)
  <2>1. \A k \in 1 .. Len(s) - 1 : s[k] \notin Ends
    BY <1>1
  <2> QED BY <1>1, <2>1, EndIs
<1>3. StringAt(s) = SubSeq(s, 1, Len(text))
  <2>1. Len(s) \in 1 .. Len(s) /\ s[Len(s)] \in Ends
    BY <1>1 DEF Ends
  <2> QED BY <1>1, <1>2, <2>1 DEF StringAt
<1>4. /\ SubSeq(s, 1, Len(text)) \in Seq(Piece)
      /\ Len(SubSeq(s, 1, Len(text))) = Len(text)
      /\ \A i \in 1 .. Len(text) : SubSeq(s, 1, Len(text))[i] = s[i]
  BY <1>1
<1> QED BY <1>1, <1>3, <1>4, SeqEqual

\* A text behind the first zero byte of s is what StringAfter reads.
LEMMA AfterIs ==
  ASSUME NEW text, Typeable(text), NEW s \in Seq(Piece), NEW n \in Nat \ {0},
         Len(s) = n + Len(text) + 1, s[n] = "NUL",
         \A k \in 1 .. n - 1 : s[k] \notin Ends,
         \A i \in 1 .. Len(text) : s[n + i] = text[i], s[Len(s)] = "NUL"
  PROVE  StringAfter(s) = text
<1>1. /\ text \in Seq(Piece) /\ Len(text) \in Nat
      /\ \A i \in 1 .. Len(text) : text[i] \notin Ends
  BY Typed
<1>2. EndOf(s) = n
  BY <1>1, EndIs
<1> DEFINE t == SubSeq(s, n + 1, Len(s))
<1>3. /\ t \in Seq(Piece) /\ Len(t) = Len(text) + 1
      /\ \A i \in 1 .. Len(text) + 1 : t[i] = s[n + i]
  BY <1>1
<1>4. StringAfter(s) = StringAt(t)
  BY <1>2 DEF StringAfter
<1> HIDE DEF t
<1>5. t[Len(t)] = "NUL"
  BY <1>1, <1>3
<1>6. \A i \in 1 .. Len(text) : t[i] = text[i]
  BY <1>1, <1>3
<1> QED BY <1>1, <1>3, <1>4, <1>5, <1>6, StringIs

\* The string before it.
LEMMA NameIs ==
  ASSUME NEW s \in Seq(Piece), Len(s) >= 2, s[1] \notin Ends, s[2] = "NUL"
  PROVE  StringAt(s) = <<s[1]>>
<1>1. EndOf(s) = 2
  BY EndIs
<1>2. StringAt(s) = SubSeq(s, 1, 1)
  BY <1>1 DEF StringAt, Ends
<1>3. /\ SubSeq(s, 1, 1) \in Seq(Piece) /\ Len(SubSeq(s, 1, 1)) = 1
      /\ SubSeq(s, 1, 1)[1] = s[1]
  <2>1. \A i \in 1 .. 1 : s[i] \in Piece
    OBVIOUS
  <2> QED BY <2>1, SubSeqProperties
<1> QED BY <1>2, <1>3, Single

\* A plaintext, unit by unit.
LEMMA PlainIs ==
  ASSUME NEW S, "NUL" \in S,
         NEW a \in Seq(S), NEW id \in S, NEW text \in Seq(S)
  PROVE  /\ Plain(a, id, text) \in Seq(S)
         /\ Len(Plain(a, id, text)) = Len(a) + Len(text) + 3
         /\ \A i \in 1 .. Len(a) : Plain(a, id, text)[i] = a[i]
         /\ Plain(a, id, text)[Len(a) + 1] = id
         /\ Plain(a, id, text)[Len(a) + 2] = "NUL"
         /\ \A i \in 1 .. Len(text) : Plain(a, id, text)[Len(a) + 2 + i] = text[i]
         /\ Plain(a, id, text)[Len(a) + Len(text) + 3] = "NUL"
<1> DEFINE zero == <<"NUL">>
           head == <<id, "NUL">>
           b == a \o head
           c == b \o text
<1>0. /\ head \in Seq(S) /\ Len(head) = 2 /\ head[1] = id /\ head[2] = "NUL"
      /\ zero \in Seq(S) /\ Len(zero) = 1 /\ zero[1] = "NUL"
  BY Tuples
<1> HIDE DEF zero, head
<1>1. Len(text) \in Nat /\ Len(a) \in Nat
  OBVIOUS
<1>2. /\ b \in Seq(S) /\ Len(b) = Len(a) + 2
      /\ \A i \in 1 .. Len(a) : b[i] = a[i]
      /\ b[Len(a) + 1] = id /\ b[Len(a) + 2] = "NUL"
  <2>1. /\ b \in Seq(S) /\ Len(b) = Len(a) + Len(head)
        /\ \A i \in 1 .. Len(a) + Len(head) :
             b[i] = IF i <= Len(a) THEN a[i] ELSE head[i - Len(a)]
    BY <1>0, ConcatProperties
  <2> HIDE DEF b
  <2>2. Len(b) = Len(a) + 2 /\ \A i \in 1 .. Len(a) : b[i] = a[i]
    BY <1>0, <1>1, <2>1
  <2>3. /\ Len(a) + 1 - Len(a) = 1 /\ Len(a) + 2 - Len(a) = 2
        /\ ~(Len(a) + 1 <= Len(a)) /\ ~(Len(a) + 2 <= Len(a))
        /\ {Len(a) + 1, Len(a) + 2} \subseteq 1 .. Len(a) + Len(head)
    BY <1>0, <1>1
  <2>4. b[Len(a) + 1] = head[1] /\ b[Len(a) + 2] = head[2]
    BY <2>1, <2>3
  <2> QED BY <1>0, <2>1, <2>2, <2>4
<1> HIDE DEF b
<1>3. /\ c \in Seq(S) /\ Len(c) = Len(b) + Len(text)
      /\ \A i \in 1 .. Len(b) + Len(text) :
           c[i] = IF i <= Len(b) THEN b[i] ELSE text[i - Len(b)]
  BY <1>1, <1>2, ConcatProperties
<1> HIDE DEF c
<1>4. /\ c \o zero \in Seq(S)
      /\ Len(c \o zero) = Len(c) + Len(zero)
      /\ \A i \in 1 .. Len(c) + Len(zero) :
           (c \o zero)[i] = IF i <= Len(c) THEN c[i] ELSE zero[i - Len(c)]
  <2>1. zero \in Seq(S) /\ c \in Seq(S)
    BY <1>0, <1>3
  <2> QED BY <2>1, ConcatProperties
<1>5. Len(c) = Len(a) + Len(text) + 2 /\ Len(c \o zero) = Len(a) + Len(text) + 3
  BY <1>0, <1>1, <1>2, <1>3, <1>4
<1>6. Plain(a, id, text) = c \o zero
  BY DEF Plain, b, c, head, zero
<1>7. /\ \A i \in 1 .. Len(a) : (c \o zero)[i] = a[i]
      /\ (c \o zero)[Len(a) + 1] = id
      /\ (c \o zero)[Len(a) + 2] = "NUL"
  BY <1>0, <1>1, <1>2, <1>3, <1>4, <1>5
<1>8. \A i \in 1 .. Len(text) : (c \o zero)[Len(a) + 2 + i] = text[i]
  BY <1>0, <1>1, <1>2, <1>3, <1>4, <1>5
<1>9. (c \o zero)[Len(a) + Len(text) + 3] = "NUL"
  BY <1>0, <1>1, <1>4, <1>5
<1> QED BY <1>4, <1>5, <1>6, <1>7, <1>8, <1>9

\* Its fields, when len units are taken for the number, the identity perhaps
\* among them.
LEMMA FieldsAre ==
  ASSUME NEW a \in Seq(Piece), NEW id \in Piece \ Ends, NEW text, Typeable(text),
         NEW len \in 0 .. Len(a) + 1, \A k \in len + 1 .. Len(a) : a[k] \notin Ends
  PROVE  /\ Fields(Plain(a, id, text), len).text = text
         /\ len = Len(a) => Fields(Plain(a, id, text), len).id = <<id>>
<1> DEFINE p == Plain(a, id, text)
           rest == SubSeq(p, len + 1, Len(p))
           n == Len(a) + 2 - len
<1>1. /\ p \in Seq(Piece) /\ Len(p) = Len(a) + Len(text) + 3
      /\ \A i \in 1 .. Len(a) : p[i] = a[i]
      /\ p[Len(a) + 1] = id /\ p[Len(a) + 2] = "NUL"
      /\ \A i \in 1 .. Len(text) : p[Len(a) + 2 + i] = text[i]
      /\ p[Len(a) + Len(text) + 3] = "NUL"
  <2>1. "NUL" \in Piece /\ text \in Seq(Piece) /\ id \in Piece
    BY Pieces, Typed
  <2>2. p \in Seq(Piece)
    BY <2>1, PlainIs
  <2>3. Len(p) = Len(a) + Len(text) + 3
    BY <2>1, PlainIs
  <2>4. \A i \in 1 .. Len(a) : p[i] = a[i]
    BY <2>1, PlainIs
  <2>5. p[Len(a) + 1] = id /\ p[Len(a) + 2] = "NUL"
    BY <2>1, PlainIs
  <2>6. \A i \in 1 .. Len(text) : p[Len(a) + 2 + i] = text[i]
    BY <2>1, PlainIs
  <2>7. p[Len(a) + Len(text) + 3] = "NUL"
    BY <2>1, PlainIs
  <2> QED BY <2>2, <2>3, <2>4, <2>5, <2>6, <2>7
<1>2. Len(a) \in Nat /\ Len(text) \in Nat /\ len \in Nat
  BY Typed
<1> HIDE DEF p
<1>3. /\ rest \in Seq(Piece) /\ Len(rest) = n + Len(text) + 1
      /\ \A i \in 1 .. n + Len(text) + 1 : rest[i] = p[len + i]
  BY <1>1, <1>2
<1> HIDE DEF rest
<1>4. n \in Nat \ {0} /\ rest[n] = "NUL" /\ rest[Len(rest)] = "NUL"
  BY <1>1, <1>2, <1>3
<1>5. \A k \in 1 .. n - 1 : rest[k] \notin Ends
  <2> SUFFICES ASSUME NEW k \in 1 .. n - 1 PROVE rest[k] \notin Ends
    OBVIOUS
  <2>1. rest[k] = p[len + k] /\ len + k \in len + 1 .. Len(a) + 1
    BY <1>2, <1>3
  <2>2. CASE len + k \in len + 1 .. Len(a)
    <3>1. p[len + k] = a[len + k]
      BY <1>1, <1>2, <2>2
    <3> QED BY <2>1, <2>2, <3>1
  <2>3. CASE len + k = Len(a) + 1
    BY <1>1, <2>1, <2>3
  <2> QED BY <1>2, <2>1, <2>2, <2>3
<1>6. \A i \in 1 .. Len(text) : rest[n + i] = text[i]
  BY <1>1, <1>2, <1>3
<1>7. StringAfter(rest) = text
  BY <1>3, <1>4, <1>5, <1>6, AfterIs
<1>8. ASSUME len = Len(a) PROVE StringAt(rest) = <<id>>
  <2>1. rest[1] = id /\ rest[2] = "NUL" /\ Len(rest) >= 2
    BY <1>1, <1>2, <1>3, <1>8
  <2> QED BY <1>3, <2>1, NameIs
<1> QED BY <1>7, <1>8 DEF Fields, rest, p

-----------------------------------------------------------------------------
(* Messages.                                                               *)

Token == {[kind |-> k] : k \in Piece} \cup {Cipher(p) : p \in Seq(Piece)}

LEMMA Tokens ==
  /\ \A k \in Piece : [kind |-> k] \in Token
  /\ \A p \in Seq(Piece) : Cipher(p) \in Token
  /\ \A k : [kind |-> k].kind = k
  /\ \A p : Cipher(p).kind = "cipher" /\ Cipher(p).plain = p /\ Cipher(p) # Bar
  /\ Bar \in Token /\ Bar.kind = "|"
<1>1. \A p : Cipher(p).kind = "cipher" /\ Cipher(p).plain = p
  BY DEF Cipher
<1>2. Bar.kind = "|"
  BY DEF Bar
<1>3. Bar \in Token
  BY Pieces DEF Bar, Token
<1>4. \A k \in Piece : [kind |-> k] \in Token
  BY DEF Token
<1>5. \A p \in Seq(Piece) : Cipher(p) \in Token
  BY DEF Token
<1> QED BY <1>1, <1>2, <1>3, <1>4, <1>5

\* What has been sent, token by token.
LEMMA SentIs ==
  ASSUME NEW text, Typeable(text), NEW p \in Seq(Piece), NEW k \in 0 .. 3
  PROVE  LET s == Sent(text, p, k) IN
         /\ s \in Seq(Token)
         /\ Len(s) = IF k = 0 THEN 0 ELSE Len(text) + k
         /\ \A i \in 1 .. Len(s) : i <= Len(text) => s[i] = [kind |-> text[i]]
         /\ k >= 1 => s[Len(text) + 1] = [kind |-> "NUL"]
         /\ k >= 2 => s[Len(text) + 2] = Bar
         /\ k = 3 => s[Len(text) + 3] = Cipher(p)
<1> DEFINE len == IF k = 0 THEN 0 ELSE Len(text) + k
           e(i) == IF i <= Len(text) THEN [kind |-> text[i]]
                   ELSE IF i = Len(text) + 1 THEN [kind |-> "NUL"]
                   ELSE IF i = Len(text) + 2 THEN Bar
                   ELSE Cipher(p)
           s == [i \in 1 .. len |-> e(i)]
<1>1. Len(text) \in Nat /\ len \in Nat
  BY Typed
<1>2. \A i \in 1 .. len : e(i) \in Token
  <2> SUFFICES ASSUME NEW i \in 1 .. len PROVE e(i) \in Token
    OBVIOUS
  <2>1. i <= Len(text) => text[i] \in Piece
    BY <1>1, Typed
  <2>2. "NUL" \in Piece
    BY Pieces
  <2> QED BY <2>1, <2>2, Tokens
<1>3. Sent(text, p, k) = s
  BY DEF Sent
<1> HIDE DEF e
<1>4. s \in Seq(Token) /\ Len(s) = len /\ \A i \in 1 .. len : s[i] = e(i)
  BY <1>1, <1>2
<1>5. \A i \in 1 .. len : i <= Len(text) => e(i) = [kind |-> text[i]]
  BY DEF e
<1>6. /\ e(Len(text) + 1) = [kind |-> "NUL"]
      /\ e(Len(text) + 2) = Bar /\ e(Len(text) + 3) = Cipher(p)
  BY <1>1 DEF e
<1> HIDE DEF s
<1>7. /\ k >= 1 => Len(text) + 1 \in 1 .. len
      /\ k >= 2 => Len(text) + 2 \in 1 .. len
      /\ k = 3 => Len(text) + 3 \in 1 .. len
  BY <1>1
<1> HIDE DEF e
<1>8. /\ k >= 1 => s[Len(text) + 1] = [kind |-> "NUL"]
      /\ k >= 2 => s[Len(text) + 2] = Bar
      /\ k = 3 => s[Len(text) + 3] = Cipher(p)
  BY <1>4, <1>6, <1>7
<1> QED BY <1>3, <1>4, <1>5, <1>8

\* What travels in clear.
LEMMA ClearIs ==
  ASSUME NEW s \in Seq(Piece)
  PROVE  /\ Clear(s) \in Seq(Token) /\ Len(Clear(s)) = Len(s)
         /\ \A i \in 1 .. Len(s) : Clear(s)[i] = [kind |-> s[i]]
<1>1. \A i \in 1 .. Len(s) : [kind |-> s[i]] \in Token
  BY Tokens
<1>2. Len(s) \in Nat
  OBVIOUS
<1> QED BY <1>1, <1>2 DEF Clear

\* A send adds the next part.
LEMMA SentGrows ==
  ASSUME NEW text, Typeable(text), NEW p \in Seq(Piece), NEW k \in 0 .. 2
  PROVE  /\ Sends(text, p)[k + 1] \in Seq(Token)
         /\ Sent(text, p, k) \o Sends(text, p)[k + 1] = Sent(text, p, k + 1)
<1> DEFINE part == Sends(text, p)[k + 1]
           zero == Append(text, "NUL")
           bar == <<"|">>
           code == <<Cipher(p)>>
<1>1. /\ zero \in Seq(Piece) /\ Len(zero) = Len(text) + 1
      /\ \A i \in 1 .. Len(text) : zero[i] = text[i]
      /\ zero[Len(text) + 1] = "NUL"
  BY Typed, Pieces, AppendProperties
<1>2. bar \in Seq(Piece) /\ Len(bar) = 1 /\ bar[1] = "|"
  BY Pieces, Tuples
<1>3. code \in Seq(Token) /\ Len(code) = 1 /\ code[1] = Cipher(p)
  BY Tokens, Tuples
<1>4. part = IF k = 0 THEN Clear(zero) ELSE IF k = 1 THEN Clear(bar) ELSE code
  BY DEF Sends
<1> HIDE DEF zero, bar, code
<1>5. /\ Clear(zero) \in Seq(Token) /\ Len(Clear(zero)) = Len(text) + 1
      /\ \A i \in 1 .. Len(text) : Clear(zero)[i] = [kind |-> text[i]]
      /\ Clear(zero)[Len(text) + 1] = [kind |-> "NUL"]
  <2>1. Len(text) \in Nat
    BY Typed
  <2>2. /\ Clear(zero) \in Seq(Token) /\ Len(Clear(zero)) = Len(zero)
        /\ \A i \in 1 .. Len(zero) : Clear(zero)[i] = [kind |-> zero[i]]
    BY <1>1, ClearIs
  <2> QED BY <1>1, <2>1, <2>2
<1>6. Clear(bar) \in Seq(Token) /\ Len(Clear(bar)) = 1 /\ Clear(bar)[1] = Bar
  <2>1. /\ Clear(bar) \in Seq(Token) /\ Len(Clear(bar)) = Len(bar)
        /\ \A i \in 1 .. Len(bar) : Clear(bar)[i] = [kind |-> bar[i]]
    BY <1>2, ClearIs
  <2> QED BY <1>2, <2>1 DEF Bar
<1>7. /\ part \in Seq(Token)
      /\ Len(part) = IF k = 0 THEN Len(text) + 1 ELSE 1
  BY <1>3, <1>4, <1>5, <1>6
<1> DEFINE s == Sent(text, p, k)
           t == Sent(text, p, k + 1)
<1>8. /\ s \in Seq(Token)
      /\ Len(s) = IF k = 0 THEN 0 ELSE Len(text) + k
      /\ \A i \in 1 .. Len(s) : i <= Len(text) => s[i] = [kind |-> text[i]]
      /\ k >= 1 => s[Len(text) + 1] = [kind |-> "NUL"]
      /\ k >= 2 => s[Len(text) + 2] = Bar
  BY SentIs
<1>9. /\ t \in Seq(Token) /\ Len(t) = Len(text) + k + 1
      /\ \A i \in 1 .. Len(t) : i <= Len(text) => t[i] = [kind |-> text[i]]
      /\ t[Len(text) + 1] = [kind |-> "NUL"]
      /\ k + 1 >= 2 => t[Len(text) + 2] = Bar
      /\ k + 1 = 3 => t[Len(text) + 3] = Cipher(p)
  <2> DEFINE j == k + 1
  <2>1. j \in 0 .. 3 /\ j # 0 /\ j >= 1 /\ Len(text) + j = Len(text) + k + 1
    BY Typed
  <2> HIDE DEF j
  <2>2. /\ Sent(text, p, j) \in Seq(Token) /\ Len(Sent(text, p, j)) = Len(text) + j
        /\ \A i \in 1 .. Len(Sent(text, p, j)) :
             i <= Len(text) => Sent(text, p, j)[i] = [kind |-> text[i]]
        /\ Sent(text, p, j)[Len(text) + 1] = [kind |-> "NUL"]
        /\ j >= 2 => Sent(text, p, j)[Len(text) + 2] = Bar
        /\ j = 3 => Sent(text, p, j)[Len(text) + 3] = Cipher(p)
    BY <2>1, SentIs
  <2> QED BY <2>1, <2>2 DEF j
<1> HIDE DEF s, t, part
<1>10. /\ s \o part \in Seq(Token) /\ Len(s \o part) = Len(s) + Len(part)
       /\ \A i \in 1 .. Len(s) + Len(part) :
            (s \o part)[i] = IF i <= Len(s) THEN s[i] ELSE part[i - Len(s)]
  BY <1>7, <1>8, ConcatProperties
<1>11. Len(text) \in Nat /\ Len(s \o part) = Len(t)
  BY <1>7, <1>8, <1>9, <1>10, Typed
<1>12. \A i \in 1 .. Len(t) : (s \o part)[i] = t[i]
  <2> SUFFICES ASSUME NEW i \in 1 .. Len(t) PROVE (s \o part)[i] = t[i]
    OBVIOUS
  <2>1. CASE k = 0
    <3>1. (s \o part)[i] = Clear(zero)[i]
      BY <1>4, <1>7, <1>8, <1>9, <1>10, <1>11, <2>1
    <3> QED BY <1>5, <1>9, <1>11, <2>1, <3>1
  <2>2. CASE k = 1 /\ i = Len(text) + 2
    <3>1. (s \o part)[i] = Clear(bar)[1]
      BY <1>4, <1>7, <1>8, <1>9, <1>10, <1>11, <2>2
    <3> QED BY <1>6, <1>9, <2>2, <3>1
  <2>3. CASE k = 2 /\ i = Len(text) + 3
    <3>1. (s \o part)[i] = code[1]
      BY <1>4, <1>7, <1>8, <1>9, <1>10, <1>11, <2>3
    <3> QED BY <1>3, <1>9, <2>3, <3>1
  <2>4. CASE k \in 1 .. 2 /\ i <= Len(text) + k
    <3>1. (s \o part)[i] = s[i] /\ i \in 1 .. Len(s)
      BY <1>7, <1>8, <1>9, <1>10, <1>11, <2>4
    <3>2. CASE i <= Len(text)
      BY <1>8, <1>9, <3>1, <3>2
    <3>3. CASE i = Len(text) + 1
      BY <1>8, <1>9, <2>4, <3>1, <3>3
    <3>4. CASE i = Len(text) + 2
      BY <1>8, <1>9, <1>11, <2>4, <3>1, <3>4
    <3> QED BY <1>9, <1>11, <2>4, <3>2, <3>3, <3>4
  <2> QED BY <1>9, <1>11, <2>1, <2>2, <2>3, <2>4
<1>13. s \o part = t
  BY <1>9, <1>10, <1>11, <1>12, SeqEqual
<1> QED BY <1>7, <1>13 DEF s, t, part

-----------------------------------------------------------------------------
(* What a reader gets of a message.                                        *)

\* What was sent and is there when '|' has been read.
LEMMA OpenedGrows ==
  ASSUME NEW text, Typeable(text), NEW p \in Seq(Piece), NEW k \in 0 .. 2,
         NEW left, NEW read, Opened(Sent(text, p, k), left, read, FALSE)
  PROVE  Opened(Sent(text, p, k + 1), left \o Sends(text, p)[k + 1], read, FALSE)
<1> DEFINE q == Sent(text, p, k)
           part == Sends(text, p)[k + 1]
<1>1. q \in Seq(Token)
  BY SentIs
<1>2. part \in Seq(Token) /\ q \o part = Sent(text, p, k + 1)
  BY SentGrows
<1>3. HasBar(q) /\ left = AfterBar(q) /\ read = TextBefore(q)
  BY DEF Opened
<1> HIDE DEF q, part
<1>4. /\ HasBar(q \o part)
      /\ AfterBar(q \o part) = AfterBar(q) \o part
      /\ TextBefore(q \o part) = TextBefore(q)
  BY <1>1, <1>2, <1>3, FirstBarStays, ReadsStay
<1>5. Opened(q \o part, left \o part, read, FALSE)
  BY <1>3, <1>4 DEF Opened
<1> QED BY <1>2, <1>5 DEF part

LEMMA NothingDecrypts == ~Decrypts(<<>>)
<1>1. Len(<<>>) = 0
  OBVIOUS
<1> QED BY <1>1 DEF Decrypts, Filled

\* The kinds of the tokens before the first '|' of a whole message.
LEMMA TextIs ==
  ASSUME NEW text, Typeable(text), NEW p \in Seq(Piece),
         HasBar(Sent(text, p, 3)), FirstBar(Sent(text, p, 3)) = Len(text) + 2
  PROVE  TextBefore(Sent(text, p, 3)) = text
<1> DEFINE q == Sent(text, p, 3)
           before == SubSeq(q, 1, Len(text) + 1)
           kinds == [i \in 1 .. Len(before) |-> before[i].kind]
<1>1. Len(text) \in Nat /\ \A i \in 1 .. Len(text) : text[i] \in Piece
  BY Typed
<1>2. /\ q \in Seq(Token) /\ Len(q) = Len(text) + 3
      /\ \A i \in 1 .. Len(q) : i <= Len(text) => q[i] = [kind |-> text[i]]
      /\ q[Len(text) + 1] = [kind |-> "NUL"]
  BY SentIs
<1>3. TextBefore(q) = StringAt(kinds)
  <2>1. FirstBar(q) - 1 = Len(text) + 1
    BY <1>1
  <2> QED BY <2>1 DEF TextBefore
<1> HIDE DEF q
<1>4. /\ before \in Seq(Token) /\ Len(before) = Len(text) + 1
      /\ \A i \in 1 .. Len(text) + 1 : before[i] = q[i]
  BY <1>1, <1>2
<1> HIDE DEF before
<1>5. \A i \in 1 .. Len(text) : before[i].kind = text[i]
  BY <1>1, <1>2, <1>4, Tokens
<1>6. before[Len(text) + 1].kind = "NUL"
  BY <1>1, <1>2, <1>4, Tokens
<1>7. \A i \in 1 .. Len(before) : before[i].kind \in Piece
  <2> SUFFICES ASSUME NEW i \in 1 .. Len(before) PROVE before[i].kind \in Piece
    OBVIOUS
  <2>1. i <= Len(text) \/ i = Len(text) + 1
    BY <1>1, <1>4
  <2>2. "NUL" \in Piece
    BY Pieces
  <2> QED BY <1>1, <1>5, <1>6, <2>1, <2>2
<1>8. Len(before) \in Nat
  BY <1>1, <1>4
<1>9. /\ kinds \in Seq(Piece) /\ Len(kinds) = Len(before)
      /\ \A i \in 1 .. Len(before) : kinds[i] = before[i].kind
  BY <1>7, <1>8
<1> HIDE DEF kinds
<1>10. kinds[Len(kinds)] = "NUL" /\ Len(kinds) = Len(text) + 1
  BY <1>1, <1>4, <1>6, <1>9
<1>11. \A i \in 1 .. Len(text) : kinds[i] = text[i]
  BY <1>1, <1>4, <1>5, <1>9
<1>12. StringAt(kinds) = text
  BY <1>9, <1>10, <1>11, StringIs
<1> QED BY <1>3, <1>12 DEF q

\* Whatever the text holds and however much of the message is there: what decrypts is
\* the end of the whole message, and comes out as it was, behind the right text,
\* unless a block that was never encrypted comes before it.
LEMMA DecryptsWhole ==
  ASSUME NEW text, Typeable(text), NEW p \in Seq(Piece), NEW k \in 0 .. 3,
         NEW left, NEW read, NEW closed,
         Opened(Sent(text, p, k), left, read, closed), Decrypts(left)
  PROVE  /\ k = 3
         /\ \/ read = text /\ \A junk : aes_decrypt(left, junk) = p
            \/ \A junk : aes_decrypt(left, junk) = junk \o p
<1> DEFINE q == Sent(text, p, k)
           f == FirstBar(q)
<1>1. HasBar(q) /\ left = AfterBar(q) /\ read = TextBefore(q)
  BY NothingDecrypts DEF Opened
<1>2. /\ q \in Seq(Token)
      /\ Len(q) = IF k = 0 THEN 0 ELSE Len(text) + k
      /\ k >= 1 => q[Len(text) + 1] = [kind |-> "NUL"]
      /\ k >= 2 => q[Len(text) + 2] = Bar
      /\ k = 3 => q[Len(text) + 3] = Cipher(p)
  BY SentIs
<1>3. f \in 1 .. Len(q) /\ Len(q) \in Nat /\ Len(text) \in Nat
  BY <1>1, <1>2, FirstBarIs, Typed
<1> HIDE DEF q, f
<1>4. /\ left \in Seq(Token) /\ Len(left) = Len(q) - f
      /\ \A i \in 1 .. Len(q) - f : left[i] = q[f + i]
  <2>1. left = SubSeq(q, f + 1, Len(q))
    BY <1>1 DEF AfterBar, Unread, f
  <2>2. \A i \in f + 1 .. Len(q) : q[i] \in Token
    BY <1>2, <1>3
  <2> QED BY <1>3, <2>1, <2>2, SubSeqProperties
<1>5. /\ \/ Len(left) = 4 /\ Filled(left)
         \/ Len(left) = 1 /\ ~Filled(left)
      /\ left[Len(left)].kind = "cipher"
  <2>1. CASE Filled(left)
    <3>1. Len(left) = 4 /\ left[4].kind = "cipher"
      BY <2>1 DEF Filled
    <3> QED BY <2>1, <3>1
  <2>2. CASE Len(left) = 1 /\ left[1].kind = "cipher"
    BY <2>2 DEF Filled
  <2> QED BY <2>1, <2>2 DEF Decrypts
<1>6. left[Len(left)] = q[Len(q)]
  BY <1>3, <1>4, <1>5
<1>7. k = 3
  <2>1. k # 0
    BY <1>2, <1>3
  <2>2. k # 1
    BY <1>2, <1>3, <1>5, <1>6, Tokens
  <2>3. k # 2
    BY <1>2, <1>3, <1>5, <1>6, Tokens
  <2> QED BY <2>1, <2>2, <2>3
<1>8. left[Len(left)].plain = p
  <2>1. left[Len(left)] = Cipher(p)
    BY <1>2, <1>6, <1>7
  <2> QED BY <2>1, Tokens
<1>9. CASE Filled(left)
  <2>1. left[4].plain = p
    BY <1>5, <1>8, <1>9
  <2> QED BY <1>7, <1>9, <2>1 DEF aes_decrypt
<1>10. CASE ~Filled(left)
  <2>1. left[1].plain = p /\ Len(left) = 1
    BY <1>5, <1>8, <1>10
  <2>2. f = Len(text) + 2
    <3>1. Len(q) = Len(text) + 3
      BY <1>2, <1>7
    <3>2. Len(q) - f = 1
      BY <1>4, <2>1
    <3>3. f \in Int /\ Len(text) \in Int
      BY <1>3
    <3>4. \A x, y, z \in Int : x = y + 3 /\ x - z = 1 => z = y + 2
      OBVIOUS
    <3> QED BY <3>1, <3>2, <3>3, <3>4
  <2>3. read = text
    BY <1>1, <1>7, <2>2, TextIs DEF q, f
  <2> QED BY <1>7, <1>10, <2>1, <2>3 DEF aes_decrypt
<1> QED BY <1>9, <1>10

-----------------------------------------------------------------------------
(* Two steps: what the plaintexts are.                                     *)

LEMMA AuthIs ==
  ASSUME choice \in {"t", "r"}
  PROVE  /\ Auth \in Seq(Piece)
         /\ \/ choice = "t" /\ Len(Auth) = 1 /\ Auth[1] = "time"
            \/ choice = "r" /\ Len(Auth) = 2 /\ Auth[1] = "r_a" /\ Auth[2] = "r_a2"
<1>1. CASE choice = "t"
  <2>1. Auth = <<"time">>
    BY <1>1 DEF Auth
  <2> QED BY <1>1, <2>1, Pieces, Tuples
<1>2. CASE choice = "r"
  <2>1. Auth = <<"r_a", "r_a2">>
    BY <1>2 DEF Auth
  <2> QED BY <1>2, <2>1, Pieces, Tuples
<1> QED BY <1>1, <1>2

LEMMA AskedIs ==
  ASSUME choice \in {"t", "r"}, Typeable(m1)
  PROVE  /\ Asked \in Seq(Piece) /\ Len(Asked) >= 4 /\ Asked[1] = Auth[1]
         /\ choice = "t" => Asked[2] = ID_A
         /\ choice = "r" => Asked[2] = "r_a2"
<1>1. /\ m1 \in Seq(Piece) /\ ID_A \in Piece /\ "NUL" \in Piece
      /\ Len(m1) \in Nat
  BY Typed, Pieces
<1>2. /\ Asked \in Seq(Piece) /\ Len(Asked) = Len(Auth) + Len(m1) + 3
      /\ \A i \in 1 .. Len(Auth) : Asked[i] = Auth[i]
      /\ Asked[Len(Auth) + 1] = ID_A
  <2>1. Auth \in Seq(Piece)
    BY AuthIs
  <2> QED BY <1>1, <2>1, PlainIs DEF Asked
<1>3. Asked[1] = Auth[1] /\ Len(Asked) >= 4
  BY <1>1, <1>2, AuthIs
<1>4. ASSUME choice = "t" PROVE Asked[2] = ID_A
  <2>1. Len(Auth) = 1
    BY <1>4, AuthIs
  <2>2. Asked[1 + 1] = ID_A
    BY <1>2, <2>1
  <2> QED BY <2>2
<1>5. ASSUME choice = "r" PROVE Asked[2] = "r_a2"
  <2>1. Len(Auth) = 2 /\ Auth[2] = "r_a2"
    BY <1>5, AuthIs
  <2>2. 2 \in 1 .. Len(Auth)
    BY <2>1
  <2> QED BY <1>2, <2>1, <2>2
<1> QED BY <1>2, <1>3, <1>4, <1>5

\* The units that B may take for A's number.
LEMMA TakenIs ==
  ASSUME NEW p \in Seq(Piece), Len(p) >= 2
  PROVE  /\ SubSeq(p, 1, 1) \in Seq(Piece) /\ Len(SubSeq(p, 1, 1)) = 1
         /\ SubSeq(p, 1, 1)[1] = p[1] /\ SubSeq(p, 1, 1) = <<p[1]>>
         /\ SubSeq(p, 1, 2) \in Seq(Piece) /\ Len(SubSeq(p, 1, 2)) = 2
         /\ SubSeq(p, 1, 2)[1] = p[1] /\ SubSeq(p, 1, 2)[2] = p[2]
<1>1. \A i \in 1 .. 2 : p[i] \in Piece
  OBVIOUS
<1>2. /\ SubSeq(p, 1, 1) \in Seq(Piece) /\ Len(SubSeq(p, 1, 1)) = 1
      /\ SubSeq(p, 1, 1)[1] = p[1]
  BY <1>1, SubSeqProperties
<1>3. /\ SubSeq(p, 1, 2) \in Seq(Piece) /\ Len(SubSeq(p, 1, 2)) = 2
      /\ \A i \in 1 .. 2 : SubSeq(p, 1, 2)[i] = p[i]
  BY <1>1, SubSeqProperties
<1>4. SubSeq(p, 1, 1) = <<p[1]>>
  BY <1>2, Single
<1> QED BY <1>2, <1>3, <1>4

\* A block that was never encrypted, before a plaintext.
LEMMA BlockBefore ==
  ASSUME NEW p \in Seq(Piece)
  PROVE  /\ Block \o p \in Seq(Piece) /\ Len(Block \o p) = Len(p) + 2
         /\ (Block \o p)[1] = "junk"
         /\ SubSeq(Block \o p, 1, 1) = <<"junk">> /\ SubSeq(Block \o p, 1, 2) = Block
<1>1. /\ Block \in Seq(Piece) /\ Len(Block) = 2
      /\ Block[1] = "junk" /\ Block[2] = "junk"
  BY Pieces, Tuples DEF Block
<1>2. /\ Block \o p \in Seq(Piece) /\ Len(Block \o p) = 2 + Len(p)
      /\ \A i \in 1 .. 2 : (Block \o p)[i] = Block[i]
  <2>1. /\ Block \o p \in Seq(Piece) /\ Len(Block \o p) = Len(Block) + Len(p)
        /\ \A i \in 1 .. Len(Block) + Len(p) :
             (Block \o p)[i] = IF i <= Len(Block) THEN Block[i] ELSE p[i - Len(Block)]
    BY <1>1, ConcatProperties
  <2>2. Len(p) \in Nat
    OBVIOUS
  <2> QED BY <1>1, <2>1, <2>2
<1> DEFINE q == Block \o p
<1>3. Len(q) >= 2 /\ q \in Seq(Piece) /\ Len(p) \in Nat
  BY <1>2
<1>4. q[1] = "junk" /\ q[2] = "junk"
  BY <1>1, <1>2
<1> HIDE DEF q
<1>5. SubSeq(q, 1, 1) = <<"junk">>
  BY <1>3, <1>4, TakenIs
<1>6. SubSeq(q, 1, 2) = Block
  <2>1. /\ SubSeq(q, 1, 2) \in Seq(Piece) /\ Len(SubSeq(q, 1, 2)) = 2
        /\ SubSeq(q, 1, 2)[1] = q[1] /\ SubSeq(q, 1, 2)[2] = q[2]
    BY <1>3, TakenIs
  <2>2. \A i \in 1 .. Len(SubSeq(q, 1, 2)) : SubSeq(q, 1, 2)[i] = Block[i]
    BY <1>1, <1>4, <2>1
  <2> QED BY <1>1, <2>1, <2>2, SeqEqual
<1> QED BY <1>2, <1>3, <1>4, <1>5, <1>6 DEF q

\* It does not match what A sent.
LEMMA BlockRefused ==
  ASSUME choice \in {"t", "r"}, NEW p \in Seq(Piece)
  PROVE  ~Matches(Block \o p)
<1> DEFINE q == Block \o p
<1>1. SubSeq(q, 1, 1) = <<"junk">> /\ SubSeq(q, 1, 2) = Block
  BY BlockBefore
<1>2. <<"junk">>[1] = "junk" /\ Block[1] = "junk"
  BY DEF Block
<1>3. Len(Auth) \in {1, 2} /\ Auth[1] # "junk"
  BY AuthIs
<1> HIDE DEF q
<1>4. SubSeq(q, 1, Len(Auth)) # Auth
  BY <1>1, <1>2, <1>3
<1> QED BY <1>4 DEF Matches, q

\* Whichever length B takes A's number to have, it reads the text of A's user.
LEMMA BUnderstands ==
  ASSUME choice \in {"t", "r"}, Typeable(m1), NEW len \in {1, 2}
  PROVE  Fields(Asked, len).text = m1
<1>1. len \in 0 .. Len(Auth) + 1 /\ \A k \in len + 1 .. Len(Auth) : Auth[k] \notin Ends
  BY AuthIs DEF Ends
<1>2. ID_A \in Piece \ Ends /\ Auth \in Seq(Piece)
  BY Pieces, AuthIs
<1> QED BY <1>1, <1>2, FieldsAre DEF Asked

\* What B may have taken for A's number.
LEMMA AuthDataIs ==
  ASSUME choice \in {"t", "r"}, Typeable(m1),
         auth_data = <<>> \/ Understood \/ Misread
  PROVE  /\ auth_data \in Seq(Piece)
         /\ \/ Len(auth_data) = 0
            \/ auth_data[1] = "junk" /\ Len(auth_data) \in 1 .. 2
            \/ Len(auth_data) = 1 /\ auth_data[1] = Auth[1] /\ Understood
            \/ /\ Len(auth_data) = 2 /\ auth_data[1] = Auth[1]
               /\ auth_data[2] = Asked[2] /\ Understood
<1>1. /\ Asked \in Seq(Piece) /\ Len(Asked) >= 4
      /\ Asked[1] = Auth[1] /\ Auth[1] \in Piece
  BY AskedIs, AuthIs, Pieces
<1>2. /\ SubSeq(Asked, 1, 1) = <<Auth[1]>>
      /\ SubSeq(Asked, 1, 2) \in Seq(Piece) /\ Len(SubSeq(Asked, 1, 2)) = 2
      /\ SubSeq(Asked, 1, 2)[1] = Auth[1] /\ SubSeq(Asked, 1, 2)[2] = Asked[2]
  BY <1>1, TakenIs
<1>3. CASE auth_data = <<>>
  BY <1>3
<1>4. CASE Understood
  <2>1. CASE auth_data = SubSeq(Asked, 1, 1)
    BY <1>1, <1>2, <1>4, <2>1, Tuples
  <2>2. CASE auth_data = SubSeq(Asked, 1, 2)
    BY <1>2, <1>4, <2>2
  <2> QED BY <1>4, <2>1, <2>2 DEF Understood
<1>5. CASE Misread
  <2>1. /\ <<"junk">> \in Seq(Piece) /\ Len(<<"junk">>) = 1
        /\ <<"junk">>[1] = "junk"
    BY Pieces, Tuples
  <2>2. Block \in Seq(Piece) /\ Len(Block) = 2 /\ Block[1] = "junk"
    BY Pieces, Tuples DEF Block
  <2> QED BY <1>5, <2>1, <2>2 DEF Misread
<1> QED BY <1>3, <1>4, <1>5

\* What A makes of an answer that repeats its number, however B took it.
LEMMA AUnderstands ==
  ASSUME choice \in {"t", "r"}, Typeable(m1), Typeable(m3),
         auth_data = <<>> \/ Understood \/ Misread,
         NEW p \in {Answer, Block \o Answer}, Matches(p)
  PROVE  Understood /\ Fields(p, Len(Auth)).text = m3
<1>1. Auth \in Seq(Piece) /\ Len(Auth) \in 1 .. 2 /\ Auth[1] \in {"time", "r_a"}
  BY AuthIs
<1>2. /\ Asked \in Seq(Piece) /\ Len(Asked) >= 4 /\ Asked[1] = Auth[1]
      /\ choice = "t" => Asked[2] = ID_A
      /\ choice = "r" => Asked[2] = "r_a2"
  BY AskedIs
<1>3. ID_B \in Piece \ Ends /\ "NUL" \in Piece /\ m3 \in Seq(Piece) /\ Len(m3) \in Nat
  <2>1. ID_B \in Piece \ Ends
    BY DEF Piece, ID_B, Ends
  <2> QED BY <2>1, Typed, Pieces
<1>5. /\ auth_data \in Seq(Piece)
      /\ \/ Len(auth_data) = 0
         \/ auth_data[1] = "junk" /\ Len(auth_data) \in 1 .. 2
         \/ Len(auth_data) = 1 /\ auth_data[1] = Auth[1] /\ Understood
         \/ /\ Len(auth_data) = 2 /\ auth_data[1] = Auth[1]
            /\ auth_data[2] = Asked[2] /\ Understood
  BY AuthDataIs
<1>6. /\ Answer \in Seq(Piece) /\ Len(Answer) = Len(auth_data) + Len(m3) + 3
      /\ \A i \in 1 .. Len(auth_data) : Answer[i] = auth_data[i]
      /\ Answer[Len(auth_data) + 1] = ID_B
  BY <1>3, <1>5, PlainIs DEF Answer
<1>7. p \in Seq(Piece) /\ Len(p) >= 3
  <2>1. Len(Answer) >= 3
    BY <1>3, <1>5, <1>6
  <2>2. Block \o Answer \in Seq(Piece) /\ Len(Block \o Answer) = Len(Answer) + 2
    BY <1>6, BlockBefore
  <2>3. Len(Answer) \in Nat
    BY <1>6
  <2>4. CASE p = Answer
    BY <1>6, <2>1, <2>4
  <2>5. CASE p = Block \o Answer
    BY <2>1, <2>2, <2>3, <2>5
  <2> QED BY <2>4, <2>5
<1>8. p[1] = Auth[1] /\ (Len(Auth) = 2 => p[2] = Auth[2])
  <2>1. SubSeq(p, 1, Len(Auth)) = Auth
    BY DEF Matches
  <2>2. /\ SubSeq(p, 1, 1)[1] = p[1]
        /\ SubSeq(p, 1, 2)[1] = p[1] /\ SubSeq(p, 1, 2)[2] = p[2]
    BY <1>7, TakenIs
  <2>3. CASE Len(Auth) = 1
    BY <2>1, <2>2, <2>3
  <2>4. CASE Len(Auth) = 2
    BY <2>1, <2>2, <2>4
  <2> QED BY <1>1, <2>3, <2>4
<1>9. p = Answer
  <2>1. (Block \o Answer)[1] = "junk"
    BY <1>6, BlockBefore
  <2> QED BY <1>1, <1>8, <2>1
<1>10. Len(auth_data) # 0
  BY <1>1, <1>6, <1>8, <1>9 DEF ID_B
<1>11. Answer[1] = auth_data[1]
  BY <1>5, <1>6, <1>10
<1>12. Understood /\ auth_data[1] = Auth[1]
  BY <1>1, <1>5, <1>8, <1>9, <1>10, <1>11
<1>13. /\ Len(Auth) \in 0 .. Len(auth_data) + 1
       /\ \A k \in Len(Auth) + 1 .. Len(auth_data) : auth_data[k] \notin Ends
  <2>1. CASE choice = "t"
    <3>1. Len(Auth) = 1 /\ Asked[2] = ID_A /\ Auth[1] = "time"
      BY <1>2, <2>1, AuthIs
    <3>2. ID_A \notin Ends
      BY Pieces
    <3> QED BY <1>5, <1>10, <1>12, <3>1, <3>2
  <2>2. CASE choice = "r"
    <3>1. Len(Auth) = 2 /\ Auth[2] = "r_a2" /\ Auth[1] = "r_a"
      BY <2>2, AuthIs
    <3>2. Len(auth_data) # 1
      BY <1>6, <1>8, <1>9, <3>1 DEF ID_B
    <3> QED BY <1>5, <1>10, <1>12, <3>1, <3>2
  <2> QED BY <2>1, <2>2
<1>14. Fields(Answer, Len(Auth)).text = m3
  BY <1>3, <1>5, <1>13, FieldsAre DEF Answer
<1> QED BY <1>9, <1>12, <1>14

-----------------------------------------------------------------------------
(* Two steps: the invariant is inductive.                                  *)

LEMMA Silent == Typeable(<<>>)
BY DEF Typeable

\* What the invariant says of the texts and the plaintexts.
LEMMA Two ==
  ASSUME TwoInv
  PROVE  /\ choice \in {"t", "r"}
         /\ Typeable(m1) /\ Typeable(m2) /\ Typeable(m3) /\ Typeable(m4)
         /\ Asked \in Seq(Piece) /\ Answer \in Seq(Piece)
<1>1. choice \in {"t", "r"}
  BY DEF TwoInv, TwoStepTypeOK
<1>2. Typeable(m1) /\ Typeable(m2) /\ Typeable(m3) /\ Typeable(m4)
  BY Silent, FramingConstants DEF TwoInv, TwoStepTypeOK
<1>3. Asked \in Seq(Piece)
  BY <1>1, <1>2, AskedIs
<1>4. auth_data \in Seq(Piece)
  BY <1>1, <1>2, AuthDataIs DEF TwoInv, Places
<1>5. Answer \in Seq(Piece)
  <2>1. ID_B \in Piece /\ "NUL" \in Piece /\ m3 \in Seq(Piece)
    BY <1>2, Pieces, Typed
  <2> QED BY <1>4, <2>1, PlainIs DEF Answer
<1> QED BY <1>1, <1>2, <1>3, <1>5

\* Nothing is on its way before the first send.
LEMMA SentNone == \A text, p : Sent(text, p, 0) = <<>>
BY DEF Sent

LEMMA OpenedCloses ==
  ASSUME NEW s, NEW left, NEW read, NEW closed, NEW later,
         Opened(s, left, read, closed), closed => later
  PROVE  Opened(s, left, read, later)
BY DEF Opened

\* Reading up to '|'.
LEMMA Opens ==
  ASSUME NEW s, NEW closed, HasBar(s) \/ closed
  PROVE  Opened(s, IF HasBar(s) THEN AfterBar(s) ELSE <<>>, TextBefore(s), closed)
BY DEF Opened

LEMMA TwoInit == Init => TwoInv
<1> SUFFICES ASSUME Init PROVE TwoInv
  OBVIOUS
<1>1. TwoStepTypeOK
  BY DEF Init, TwoStepTypeOK
<1>2. Places
  BY DEF Init, Places
<1>3. ReadByA /\ ReadByB
  BY SentNone DEF Init, ReadByA, ReadByB
<1> QED BY <1>1, <1>2, <1>3 DEF TwoInv, Init

LEMMA TwoAConnect ==
  ASSUME TwoInv, AConnect PROVE TwoInv'
<1> USE DEF TwoInv, AConnect, bVars
<1>1. TwoStepTypeOK'
  BY DEF TwoStepTypeOK
<1>2. Places' /\ UNCHANGED <<Asked, Answer, Understood>>
  BY DEF Places, Understood, Misread, Asked, Answer, Auth
<1>3. ReadByA'
  BY <1>2 DEF ReadByA
<1>4. ReadByB'
  <2>1. AClosed => AClosed'
    BY DEF AClosed
  <2> QED BY <1>2, <2>1, OpenedCloses DEF ReadByB
<1> QED BY <1>1, <1>2, <1>3, <1>4

\* A ends without having accepted.
LEMMA TwoAStops ==
  ASSUME TwoInv, ~AClosed, aAt' \in {"dead", "failed"},
         UNCHANGED <<choice, m1, m2, aSent, aHeard, bVars, down>>,
         bAt \in {"accept", "text", "cipher"} => up' = up
  PROVE  TwoInv'
<1> USE DEF TwoInv, bVars
<1>1. aAt # "accepted" /\ AClosed'
  BY DEF AClosed
<1>2. TwoStepTypeOK'
  BY <1>1 DEF TwoStepTypeOK
<1>3. Places' /\ UNCHANGED <<Asked, Answer, Understood>>
  BY DEF Places, Understood, Misread, Asked, Answer, Auth
<1>4. ReadByA'
  BY DEF ReadByA
<1>5. ReadByB'
  BY <1>1, <1>3, OpenedCloses DEF ReadByB
<1> QED BY <1>2, <1>3, <1>4, <1>5

LEMMA TwoASend ==
  ASSUME TwoInv, ASend PROVE TwoInv'
<1>1. CASE aAt' = "dead" /\ UNCHANGED <<aSent, up>>
  <2>1. ~AClosed
    BY DEF ASend, AClosed
  <2> QED BY <1>1, <2>1, TwoAStops DEF ASend
<1>2. CASE /\ up' = up \o Sends(m2, Asked)[aSent + 1]
           /\ aSent' = aSent + 1
           /\ aAt' = IF aSent = 2 THEN "text" ELSE "send"
  <2> USE DEF TwoInv, bVars
  <2>1. /\ aAt = "send" /\ aSent \in 0 .. 2
        /\ UNCHANGED <<choice, m1, m2, aText, aHeard, bVars, down>>
    BY DEF ASend, Places, TwoStepTypeOK
  <2>2. TwoStepTypeOK'
    BY <1>2, <2>1 DEF TwoStepTypeOK
  <2>3. Places' /\ UNCHANGED <<Asked, Answer, Understood>>
    BY <1>2, <2>1 DEF Places, Understood, Misread, Asked, Answer, Auth
  <2>4. ReadByA'
    BY <1>2, <2>1, <2>3 DEF ReadByA, BClosed
  <2>5. Typeable(m2) /\ Asked \in Seq(Piece)
    BY Two
  <2>6. ReadByB'
    <3>1. CASE bAt \in {"accept", "text"}
      <4>1. up' = Sent(m2, Asked, aSent + 1)
        BY <1>2, <2>1, <2>5, <3>1, SentGrows DEF ReadByB
      <4> QED BY <1>2, <2>1, <2>3, <3>1, <4>1 DEF ReadByB
    <3>2. CASE bAt = "cipher"
      <4>1. Opened(Sent(m2, Asked, aSent), up, bText, FALSE)
        BY <2>1, <3>2 DEF ReadByB, AClosed, Opened
      <4>2. Opened(Sent(m2, Asked, aSent + 1), up', bText, FALSE)
        BY <1>2, <2>1, <2>5, <4>1, OpenedGrows
      <4>3. Opened(Sent(m2, Asked, aSent + 1), up', bText, AClosed')
        BY <4>2 DEF Opened
      <4> QED BY <1>2, <2>1, <2>3, <3>2, <4>3 DEF ReadByB
    <3> QED BY <2>1, <3>1, <3>2 DEF ReadByB
  <2> QED BY <1>2, <2>1, <2>2, <2>3, <2>4, <2>6
<1> QED BY <1>1, <1>2 DEF ASend, Asked

LEMMA TwoAReadText ==
  ASSUME TwoInv, AReadText PROVE TwoInv'
<1> USE DEF TwoInv, AReadText, bVars
<1>1. TwoStepTypeOK'
  BY DEF TwoStepTypeOK
<1>2. Places' /\ UNCHANGED <<Asked, Answer, Understood, BClosed>>
  BY DEF Places, Understood, Misread, Asked, Answer, Auth, BClosed
<1>3. ReadByA'
  <2>1. down = Sent(m4, Answer, bSent)
    BY DEF ReadByA
  <2>2. Opened(down, down', aText', BClosed)
    BY Opens
  <2> QED BY <1>2, <2>1, <2>2 DEF ReadByA
<1>4. ReadByB'
  <2>1. AClosed => AClosed'
    BY DEF AClosed
  <2> QED BY <1>2, <2>1, OpenedCloses DEF ReadByB
<1> QED BY <1>1, <1>2, <1>3, <1>4

LEMMA TwoAReadCipher ==
  ASSUME TwoInv, AReadCipher PROVE TwoInv'
<1> DEFINE p == aes_decrypt(down, Block)
           good == Decrypts(down) /\ Matches(p)
<1>1. /\ aAt = "cipher" /\ down' = <<>>
      /\ UNCHANGED <<choice, m1, m2, aSent, aText, bVars, up>>
      /\ aAt' = IF good THEN "accepted" ELSE "failed"
      /\ aHeard' = IF good THEN [m3 |-> Fields(p, Len(Auth)).text, m4 |-> aText]
                   ELSE aHeard
  BY DEF AReadCipher
<1> HIDE DEF p
<1>2. /\ Typeable(m1) /\ Typeable(m3) /\ Typeable(m4) /\ Answer \in Seq(Piece)
      /\ choice \in {"t", "r"} /\ bSent \in 0 .. 3
      /\ auth_data = <<>> \/ Understood \/ Misread
  BY Two DEF TwoInv, TwoStepTypeOK, Places
<1>3. ASSUME good
      PROVE  /\ bSent = 3 /\ Understood
             /\ aHeard' = [m3 |-> m3, m4 |-> m4]
  <2>1. Opened(Sent(m4, Answer, bSent), down, aText, BClosed)
    BY <1>1 DEF TwoInv, ReadByA
  <2>2. /\ bSent = 3
        /\ \/ aText = m4 /\ \A junk : aes_decrypt(down, junk) = Answer
           \/ \A junk : aes_decrypt(down, junk) = junk \o Answer
    BY <1>2, <1>3, <2>1, DecryptsWhole
  <2>3. p \in {Answer, Block \o Answer}
    BY <2>2 DEF p
  <2>4. Understood /\ Fields(p, Len(Auth)).text = m3
    BY <1>2, <1>3, <2>3, AUnderstands
  <2>5. p # Block \o Answer
    BY <1>2, <1>3, BlockRefused
  <2>6. aText = m4
    BY <2>2, <2>5 DEF p
  <2> QED BY <1>1, <1>3, <2>2, <2>4, <2>6
<1>4. UNCHANGED <<Asked, Answer, Understood>>
  BY <1>1 DEF Understood, Asked, Answer, Auth, bVars
<1>5. TwoStepTypeOK'
  <2>1. [m3 |-> m3, m4 |-> m4] # Nothing
    BY DEF Nothing
  <2>2. aHeard' # Nothing <=> aAt' = "accepted"
    BY <1>1, <1>3, <2>1 DEF TwoInv, TwoStepTypeOK
  <2> QED BY <1>1, <2>2 DEF TwoInv, TwoStepTypeOK, bVars
<1>6. Places'
  BY <1>1, <1>4 DEF TwoInv, Places, Misread, bVars
<1>7. ReadByA'
  BY <1>1 DEF ReadByA
<1>8. ReadByB'
  <2>1. AClosed => AClosed'
    BY <1>1 DEF AClosed
  <2> QED BY <1>1, <1>4, <2>1, OpenedCloses DEF TwoInv, ReadByB, bVars
<1> QED BY <1>1, <1>3, <1>4, <1>5, <1>6, <1>7, <1>8 DEF TwoInv, bVars

\* B ends without having answered all.
LEMMA TwoBStops ==
  ASSUME TwoInv, ~BClosed, bAt' \in {"dead", "failed"},
         bAt' = "failed" => bSent = 0,
         UNCHANGED <<bSent, auth_data, bHeard, m3, m4, aVars, down>>
  PROVE  TwoInv'
<1> USE DEF TwoInv, aVars
<1>1. bSent < 3 /\ BClosed' /\ bAt' \notin {"accept", "text", "cipher", "send", "type", "ended"}
  BY DEF Places, BClosed, TwoStepTypeOK
<1>2. TwoStepTypeOK'
  BY <1>1 DEF TwoStepTypeOK
<1>3. Places' /\ UNCHANGED <<Asked, Answer, Understood>>
  BY <1>1 DEF Places, Understood, Misread, Asked, Answer, Auth
<1>4. ReadByA'
  BY <1>1, <1>3, OpenedCloses DEF ReadByA
<1>5. ReadByB'
  BY <1>1 DEF ReadByB
<1> QED BY <1>2, <1>3, <1>4, <1>5

LEMMA TwoBAccept ==
  ASSUME TwoInv, BAccept PROVE TwoInv'
<1> USE DEF TwoInv, BAccept, aVars
<1>1. TwoStepTypeOK'
  BY DEF TwoStepTypeOK
<1>2. Places' /\ UNCHANGED <<Asked, Answer, Understood>>
  BY DEF Places, Understood, Misread, Asked, Answer, Auth
<1>3. ReadByA'
  <2>1. BClosed => BClosed'
    BY DEF BClosed
  <2> QED BY <1>2, <2>1, OpenedCloses DEF ReadByA
<1>4. ReadByB'
  BY <1>2 DEF ReadByB
<1> QED BY <1>1, <1>2, <1>3, <1>4

LEMMA TwoBReadText ==
  ASSUME TwoInv, BReadText PROVE TwoInv'
<1> USE DEF TwoInv, BReadText, aVars
<1>1. TwoStepTypeOK'
  BY DEF TwoStepTypeOK
<1>2. Places' /\ UNCHANGED <<Asked, Answer, Understood, AClosed>>
  BY DEF Places, Understood, Misread, Asked, Answer, Auth, AClosed
<1>3. ReadByA'
  <2>1. BClosed => BClosed'
    BY DEF BClosed
  <2> QED BY <1>2, <2>1, OpenedCloses DEF ReadByA
<1>4. ReadByB'
  <2>1. up = Sent(m2, Asked, aSent)
    BY DEF ReadByB
  <2>2. Opened(up, up', bText', AClosed)
    BY Opens
  <2> QED BY <1>2, <2>1, <2>2 DEF ReadByB
<1> QED BY <1>1, <1>2, <1>3, <1>4

\* What B takes and prints, whether or not a block that was never encrypted comes
\* first.
LEMMA TwoBParses ==
  ASSUME TwoInv, bAt = "cipher", Decrypts(up), NEW len \in {1, 2},
         BParse(aes_decrypt(up, Block), len), UNCHANGED <<choice, m1, m2>>
  PROVE  /\ (Understood \/ Misread)'
         /\ Len(auth_data') \in 1 .. 2
<1> DEFINE p == aes_decrypt(up, Block)
<1>1. /\ choice \in {"t", "r"} /\ Typeable(m1) /\ Typeable(m2) /\ Asked \in Seq(Piece)
      /\ aSent \in 0 .. 3
  BY Two DEF TwoInv, TwoStepTypeOK
<1>2. Opened(Sent(m2, Asked, aSent), up, bText, AClosed)
  BY DEF TwoInv, ReadByB
<1>3. \/ bText = m2 /\ p = Asked
      \/ p = Block \o Asked
  BY <1>1, <1>2, DecryptsWhole
<1>4. auth_data' = SubSeq(p, 1, len) /\ bHeard'.m1 = Fields(p, len).text /\ bHeard'.m2 = bText
  BY DEF BParse
<1>5. UNCHANGED Asked
  BY DEF Asked, Auth
<1> HIDE DEF p
<1>6. CASE bText = m2 /\ p = Asked
  <2>1. Fields(Asked, len).text = m1
    BY <1>1, BUnderstands
  <2>2. Understood'
    BY <1>4, <1>5, <1>6, <2>1 DEF Understood
  <2>3. Len(SubSeq(Asked, 1, len)) \in 1 .. 2
    BY <1>1, AskedIs, TakenIs
  <2> QED BY <1>4, <1>6, <2>2, <2>3
<1>7. CASE p = Block \o Asked
  <2>1. /\ SubSeq(p, 1, 1) = <<"junk">> /\ SubSeq(p, 1, 2) = Block
    BY <1>1, <1>7, BlockBefore
  <2>2. Len(<<"junk">>) = 1 /\ Len(Block) = 2
    BY DEF Block
  <2>3. auth_data' \in {<<"junk">>, Block}
    BY <1>4, <2>1
  <2> QED BY <2>2, <2>3 DEF Misread, Block
<1> QED BY <1>3, <1>6, <1>7

LEMMA TwoBReadCipher ==
  ASSUME TwoInv, BReadCipher PROVE TwoInv'
<1>1. /\ bAt = "cipher" /\ bSent = 0 /\ up' = <<>>
      /\ UNCHANGED <<bSent, bText, m3, m4, aVars, down>>
  BY DEF BReadCipher, TwoInv, Places
<1>2. CASE bAt' = "failed" /\ UNCHANGED <<auth_data, bHeard>>
  BY <1>1, <1>2, TwoBStops DEF BClosed
<1>3. CASE /\ Decrypts(up) /\ bAt' = "type"
           /\ \E len \in {1, 2} : BParse(aes_decrypt(up, Block), len)
  <2>1. PICK len \in {1, 2} : BParse(aes_decrypt(up, Block), len)
    BY <1>3
  <2>2. (Understood \/ Misread)' /\ Len(auth_data') \in 1 .. 2
    BY <1>1, <1>3, <2>1, TwoBParses DEF aVars
  <2>3. UNCHANGED Asked
    BY <1>1 DEF Asked, Auth, aVars
  <2>4. TwoStepTypeOK'
    <3>1. Len(auth_data') <= 2 /\ Len(auth_data') # 0
      <4>1. \A n \in 1 .. 2 : n <= 2 /\ n # 0
        OBVIOUS
      <4> QED BY <2>2, <4>1
    <3> QED BY <1>1, <1>3, <3>1 DEF TwoInv, TwoStepTypeOK, aVars
  <2>5. Places'
    BY <1>1, <1>3, <2>2 DEF TwoInv, Places, aVars
  <2>6. ReadByA'
    <3>1. BClosed => BClosed'
      BY <1>1 DEF BClosed
    <3>2. Sent(m4', Answer', bSent') = Sent(m4, Answer, bSent)
      BY <1>1, SentNone
    <3> QED BY <1>1, <3>1, <3>2, OpenedCloses DEF TwoInv, ReadByA, aVars
  <2>7. ReadByB'
    BY <1>3 DEF ReadByB
  <2> QED BY <1>1, <2>4, <2>5, <2>6, <2>7 DEF TwoInv, aVars
<1> QED BY <1>2, <1>3 DEF BReadCipher

LEMMA TwoBType ==
  ASSUME TwoInv, BType PROVE TwoInv'
<1> USE DEF TwoInv, BType, aVars
<1>1. TwoStepTypeOK'
  BY DEF TwoStepTypeOK
<1>2. Places' /\ UNCHANGED <<Asked, Understood>> /\ bSent = 0
  BY DEF Places, Understood, Misread, Asked, Auth
<1>3. ReadByA'
  <2>1. BClosed => BClosed'
    BY DEF BClosed
  <2>2. Sent(m4', Answer', bSent') = Sent(m4, Answer, bSent)
    BY <1>2, SentNone
  <2> QED BY <2>1, <2>2, OpenedCloses DEF ReadByA
<1>4. ReadByB'
  BY DEF ReadByB
<1> QED BY <1>1, <1>2, <1>3, <1>4

LEMMA TwoBSend ==
  ASSUME TwoInv, BSend PROVE TwoInv'
<1>1. CASE bAt' = "dead" /\ UNCHANGED <<bSent, down>>
  <2>1. ~BClosed
    BY DEF BSend, BClosed
  <2> QED BY <1>1, <2>1, TwoBStops DEF BSend
<1>2. CASE /\ down' = down \o Sends(m4, Answer)[bSent + 1]
           /\ bSent' = bSent + 1
           /\ bAt' = IF bSent = 2 THEN "ended" ELSE "send"
  <2> USE DEF TwoInv, aVars
  <2>1. /\ bAt = "send" /\ bSent \in 0 .. 2
        /\ UNCHANGED <<bText, auth_data, bHeard, m3, m4, aVars, up>>
    BY DEF BSend, Places, TwoStepTypeOK
  <2>2. TwoStepTypeOK'
    BY <1>2, <2>1 DEF TwoStepTypeOK
  <2>3. Places' /\ UNCHANGED <<Asked, Answer, Understood>>
    BY <1>2, <2>1 DEF Places, Understood, Misread, Asked, Answer, Auth
  <2>4. ReadByB'
    BY <1>2, <2>1 DEF ReadByB
  <2>5. Typeable(m4) /\ Answer \in Seq(Piece)
    BY Two
  <2>6. ReadByA'
    <3>1. CASE aAt \in {"start", "send", "text"}
      <4>1. down' = Sent(m4, Answer, bSent + 1)
        BY <1>2, <2>1, <2>5, <3>1, SentGrows DEF ReadByA
      <4> QED BY <1>2, <2>1, <2>3, <3>1, <4>1 DEF ReadByA
    <3>2. CASE aAt = "cipher"
      <4>1. Opened(Sent(m4, Answer, bSent), down, aText, FALSE)
        BY <2>1, <3>2 DEF ReadByA, BClosed, Opened
      <4>2. Opened(Sent(m4, Answer, bSent + 1), down', aText, FALSE)
        BY <1>2, <2>1, <2>5, <4>1, OpenedGrows
      <4>3. Opened(Sent(m4, Answer, bSent + 1), down', aText, BClosed')
        BY <4>2 DEF Opened
      <4> QED BY <1>2, <2>1, <2>3, <3>2, <4>3 DEF ReadByA
    <3> QED BY <2>1, <3>1, <3>2 DEF ReadByA
  <2>7. aAt # "accepted"
    BY <2>1
  <2> QED BY <1>2, <2>1, <2>2, <2>3, <2>4, <2>6, <2>7
<1> QED BY <1>1, <1>2 DEF BSend, Answer

LEMMA TwoStays ==
  ASSUME TwoInv, UNCHANGED vars PROVE TwoInv'
BY DEF TwoInv, vars, TwoStepTypeOK, Places, ReadByA, ReadByB, Understood, Misread,
       Asked, Answer, Auth, AClosed, BClosed

LEMMA TwoStepInductive == TwoInv /\ [Next]_vars => TwoInv'
<1> SUFFICES ASSUME TwoInv, [Next]_vars PROVE TwoInv'
  OBVIOUS
<1>1. CASE A
  BY <1>1, TwoAConnect, TwoASend, TwoAReadText, TwoAReadCipher DEF A
<1>2. CASE B
  BY <1>2, TwoBAccept, TwoBReadText, TwoBReadCipher, TwoBType, TwoBSend DEF B
<1>3. CASE ADies
  BY <1>3, TwoAStops DEF ADies
<1>4. CASE BDies
  BY <1>4, TwoBStops DEF BDies
<1>5. CASE UNCHANGED vars
  BY <1>5, TwoStays
<1> QED BY <1>1, <1>2, <1>3, <1>4, <1>5 DEF Next

\* Whatever the users type and whenever the programs are killed: what is read of a
\* message is a part of what was sent, what A accepts is B's whole answer to it, and
\* then both have the texts that the other's user typed.
THEOREM TwoStepAlways == Spec => []TwoInv
BY TwoInit, TwoStepInductive, PTL DEF Spec

\* BothAgree: the variables have their types, and when A accepts, B has read both of
\* its texts (the two memcpy() of client_b.c, behind a number whose length it guesses).
THEOREM TwoStepAgrees == Spec => []BothAgree
<1>1. TwoInv => BothAgree
  BY DEF TwoInv, BothAgree, Understood
<1> QED BY <1>1, TwoStepAlways, PTL

-----------------------------------------------------------------------------
(* Two steps: A challenges B.                                              *)

LEMMA TwoChallengeInit == Init => AChallengesB!CInit
BY DEF Init, AChallengesB!CInit, AChallengesB!Silence, said, verdict, heard

LEMMA VerdictIs ==
  /\ verdict = IF aAt = "accepted" THEN "accepted"
               ELSE IF aAt \in {"failed", "dead"} THEN "refused" ELSE "none"
  /\ verdict' = IF aAt' = "accepted" THEN "accepted"
                ELSE IF aAt' \in {"failed", "dead"} THEN "refused" ELSE "none"
BY DEF verdict

\* What leaves said and heard alone is a refusal or nothing.
LEMMA TwoRefuses ==
  ASSUME TwoInv, UNCHANGED <<m3, m4, bSent, aHeard>>,
         \/ aAt' = aAt
         \/ ~AClosed /\ aAt' # "accepted"
  PROVE  [AChallengesB!CNext]_AChallengesB!cvars
<1>1. UNCHANGED <<said, heard>>
  BY DEF said, heard
<1>2. \/ UNCHANGED verdict
      \/ verdict = "none" /\ verdict' = "refused"
  <2>1. CASE aAt' = aAt
    BY <2>1, VerdictIs
  <2>2. CASE ~AClosed /\ aAt' # "accepted"
    <3>1. verdict = "none"
      BY <2>2, VerdictIs DEF AClosed
    <3>2. verdict' \in {"none", "refused"}
      BY <2>2, VerdictIs
    <3> QED BY <3>1, <3>2
  <2> QED BY <2>1, <2>2
<1> QED BY <1>1, <1>2 DEF AChallengesB!CNext, AChallengesB!Refuse, AChallengesB!cvars

LEMMA TwoAccepts ==
  ASSUME TwoInv, AReadCipher
  PROVE  [AChallengesB!CNext]_AChallengesB!cvars
<1>1. /\ aAt = "cipher" /\ aAt' \in {"accepted", "failed"}
      /\ UNCHANGED <<m3, m4, bSent>>
      /\ aAt' = "failed" => UNCHANGED aHeard
  BY DEF AReadCipher, bVars
<1>2. CASE aAt' = "failed"
  BY <1>1, <1>2, TwoRefuses DEF AClosed
<1>3. CASE aAt' = "accepted"
  <2>1. bSent = 3 /\ aHeard' = [m3 |-> m3, m4 |-> m4] /\ aHeard' # Nothing
    BY <1>1, <1>3, TwoAReadCipher DEF TwoInv, TwoStepTypeOK
  <2>2. verdict = "none" /\ verdict' = "accepted"
    BY <1>1, <1>3 DEF verdict
  <2>3. said = {[m3 |-> m3, m4 |-> m4]} /\ UNCHANGED said /\ heard' = said
    BY <1>1, <2>1 DEF said, heard
  <2> QED BY <2>2, <2>3 DEF AChallengesB!CNext, AChallengesB!Accept, AChallengesB!Silence
<1> QED BY <1>1, <1>2, <1>3

LEMMA TwoAnswers ==
  ASSUME TwoInv, BSend
  PROVE  [AChallengesB!CNext]_AChallengesB!cvars
<1>1. /\ bAt = "send" /\ bSent < 3 /\ bSent \in 0 .. 3 /\ m3 \in Text /\ m4 \in Text
      /\ UNCHANGED <<m3, m4, aVars>> /\ bSent' \in {bSent, bSent + 1}
  BY DEF BSend, TwoInv, TwoStepTypeOK, Places
<1>2. UNCHANGED <<verdict, heard>>
  BY <1>1 DEF verdict, heard, aVars
<1>3. CASE bSent' < 3
  <2>1. UNCHANGED said
    BY <1>1, <1>3 DEF said
  <2> QED BY <1>2, <2>1 DEF AChallengesB!cvars
<1>4. CASE ~(bSent' < 3)
  <2>1. said = {} /\ said' = {[m3 |-> m3, m4 |-> m4]}
    BY <1>1, <1>4 DEF said
  <2>2. [m3 |-> m3, m4 |-> m4] \in [m3 : Text, m4 : Text]
    BY <1>1
  <2> QED BY <1>2, <2>1, <2>2
          DEF AChallengesB!CNext, AChallengesB!Answer, AChallengesB!Silence
<1> QED BY <1>3, <1>4

LEMMA TwoChallengeNext ==
  TwoInv /\ [Next]_vars => [AChallengesB!CNext]_AChallengesB!cvars
<1> SUFFICES ASSUME TwoInv, [Next]_vars
             PROVE  [AChallengesB!CNext]_AChallengesB!cvars
  OBVIOUS
<1>1. CASE A
  <2>1. CASE AConnect
    BY <2>1, TwoRefuses DEF AConnect, AClosed, bVars
  <2>2. CASE ASend
    BY <2>2, TwoRefuses DEF ASend, AClosed, bVars
  <2>3. CASE AReadText
    BY <2>3, TwoRefuses DEF AReadText, AClosed, bVars
  <2>4. CASE AReadCipher
    BY <2>4, TwoAccepts
  <2> QED BY <1>1, <2>1, <2>2, <2>3, <2>4 DEF A
<1>2. CASE B
  <2>1. CASE BAccept
    BY <2>1, TwoRefuses DEF BAccept, aVars
  <2>2. CASE BReadText
    BY <2>2, TwoRefuses DEF BReadText, aVars
  <2>3. CASE BReadCipher
    BY <2>3, TwoRefuses DEF BReadCipher, aVars
  <2>4. CASE BType
    <3>1. bSent = 0 /\ bSent' = 0 /\ UNCHANGED aVars
      BY <2>4 DEF BType, TwoInv, Places
    <3>2. UNCHANGED <<said, verdict, heard>>
      BY <3>1 DEF said, verdict, heard, aVars
    <3> QED BY <3>2 DEF AChallengesB!cvars
  <2>5. CASE BSend
    BY <2>5, TwoAnswers
  <2> QED BY <1>2, <2>1, <2>2, <2>3, <2>4, <2>5 DEF B
<1>3. CASE ADies
  BY <1>3, TwoRefuses DEF ADies, bVars
<1>4. CASE BDies
  BY <1>4, TwoRefuses DEF BDies, aVars
<1>5. CASE UNCHANGED vars
  BY <1>5, TwoRefuses DEF vars
<1> QED BY <1>1, <1>2, <1>3, <1>4, <1>5 DEF Next

\* TwoStepIdentifies: the two programs implement Challenge.  A accepts only an answer
\* that B has sent whole, at most once, and prints the texts of B's user, also when B
\* took the wrong number of A's units for its number.
THEOREM TwoStepIdentified == Spec => TwoStepIdentifies
<1>1. Init => AChallengesB!CInit
  BY TwoChallengeInit
<1>2. TwoInv /\ [Next]_vars => [AChallengesB!CNext]_AChallengesB!cvars
  BY TwoChallengeNext
<1> QED BY <1>1, <1>2, TwoStepAlways, PTL DEF Spec, TwoStepIdentifies, AChallengesB!CSpec

-----------------------------------------------------------------------------
(* Three steps: one framing, and what the plaintexts are.                  *)

LEMMA FramingShared ==
  /\ \A text, p : Three!Sends(text, p) = Sends(text, p)
  /\ \A s : Three!Clear(s) = Clear(s)
  /\ \A q : Three!HasBar(q) <=> HasBar(q)
  /\ \A q : Three!AfterBar(q) = AfterBar(q) /\ Three!TextBefore(q) = TextBefore(q)
  /\ \A q : Three!Decrypts(q) <=> Decrypts(q)
  /\ \A q, junk : Three!aes_decrypt(q, junk) = aes_decrypt(q, junk)
  /\ \A s : Three!StringAt(s) = StringAt(s) /\ Three!StringAfter(s) = StringAfter(s)
  /\ \A q, n : Three!Unread(q, n) = Unread(q, n)
<1>1. \A s : Three!Clear(s) = Clear(s)
  BY DEF Three!Clear, Clear
<1>2. \A text, p : Three!Sends(text, p) = Sends(text, p)
  BY <1>1 DEF Three!Sends, Sends, Three!Cipher, Cipher
<1>3. Three!Bar = Bar /\ Three!Ends = Ends
  BY DEF Three!Bar, Bar, Three!Ends, Ends
<1>4. \A q : Three!HasBar(q) <=> HasBar(q)
  BY <1>3 DEF Three!HasBar, HasBar
<1>5. \A q : Three!FirstBar(q) = FirstBar(q)
  BY <1>3 DEF Three!FirstBar, FirstBar
<1>6. \A q, n : Three!Unread(q, n) = Unread(q, n)
  BY DEF Three!Unread, Unread
<1>7. \A q : Three!AfterBar(q) = AfterBar(q)
  BY <1>5, <1>6 DEF Three!AfterBar, AfterBar
<1>8. \A s : Three!EndOf(s) = EndOf(s)
  BY <1>3 DEF Three!EndOf, EndOf
<1>9. \A s : Three!StringAt(s) = StringAt(s)
  BY <1>3, <1>8 DEF Three!StringAt, StringAt
<1>10. \A s : Three!StringAfter(s) = StringAfter(s)
  BY <1>8, <1>9 DEF Three!StringAfter, StringAfter
<1>11. \A q : Three!TextBefore(q) = TextBefore(q)
  BY <1>4, <1>5, <1>9 DEF Three!TextBefore, TextBefore
<1>12. \A q : Three!Filled(q) <=> Filled(q)
  BY <1>3 DEF Three!Filled, Filled
<1>13. \A q : Three!Decrypts(q) <=> Decrypts(q)
  BY <1>12 DEF Three!Decrypts, Decrypts
<1>14. \A q, junk : Three!aes_decrypt(q, junk) = aes_decrypt(q, junk)
  BY <1>12 DEF Three!aes_decrypt, aes_decrypt
<1> QED BY <1>1, <1>2, <1>4, <1>6, <1>7, <1>9, <1>10, <1>11, <1>13, <1>14

LEMMA PlainShared ==
  ASSUME NEW a \in Piece, NEW b \in Piece, NEW id \in Piece, NEW text \in Seq(Piece)
  PROVE  Three!Plain(a, b, id, text) = Plain(<<a, b>>, id, text)
<1> DEFINE s == <<a, b>>
           t == <<id, "NUL">>
           u == <<a, b, id, "NUL">>
<1>1. /\ s \in Seq(Piece) /\ Len(s) = 2 /\ s[1] = a /\ s[2] = b
      /\ t \in Seq(Piece) /\ Len(t) = 2 /\ t[1] = id /\ t[2] = "NUL"
      /\ u \in Seq(Piece) /\ Len(u) = 4
      /\ u[1] = a /\ u[2] = b /\ u[3] = id /\ u[4] = "NUL"
  BY Pieces
<1>2. Three!Plain(a, b, id, text) = u \o text \o <<"NUL">>
  BY DEF Three!Plain
<1>3. Plain(<<a, b>>, id, text) = s \o t \o text \o <<"NUL">>
  BY DEF Plain
<1> HIDE DEF s, t, u
<1>4. u = s \o t
  <2>1. /\ s \o t \in Seq(Piece) /\ Len(s \o t) = 4
        /\ \A i \in 1 .. 4 : (s \o t)[i] = IF i <= 2 THEN s[i] ELSE t[i - 2]
    <3>1. /\ s \o t \in Seq(Piece) /\ Len(s \o t) = Len(s) + Len(t)
          /\ \A i \in 1 .. Len(s) + Len(t) :
               (s \o t)[i] = IF i <= Len(s) THEN s[i] ELSE t[i - Len(s)]
      BY <1>1, ConcatProperties
    <3>2. Len(s) + Len(t) = 4
      BY <1>1
    <3> QED BY <1>1, <3>1, <3>2
  <2>2. (s \o t)[1] = u[1] /\ (s \o t)[2] = u[2] /\ (s \o t)[3] = u[3] /\ (s \o t)[4] = u[4]
    BY <1>1, <2>1
  <2>3. \A i \in 1 .. Len(u) : u[i] = (s \o t)[i]
    <3>1. \A i \in 1 .. Len(u) : i = 1 \/ i = 2 \/ i = 3 \/ i = 4
      BY <1>1
    <3> QED BY <2>2, <3>1
  <2> QED BY <1>1, <2>1, <2>3, SeqEqual
<1> QED BY <1>2, <1>3, <1>4

\* The units that a plaintext starts with, and the fields behind them.
LEMMA PlainFields ==
  ASSUME NEW s \in Seq(Piece), NEW id \in Piece \ Ends, NEW text, Typeable(text)
  PROVE  LET p == Plain(s, id, text) IN
         /\ p \in Seq(Piece) /\ \A i \in 1 .. Len(s) : p[i] = s[i]
         /\ Fields(p, Len(s)).text = text /\ Fields(p, Len(s)).id = <<id>>
<1> DEFINE p == Plain(s, id, text)
           len == Len(s)
<1>1. text \in Seq(Piece) /\ "NUL" \in Piece /\ id \in Piece
  BY Typed, Pieces
<1>2. p \in Seq(Piece)
  BY <1>1, PlainIs
<1>3. \A i \in 1 .. Len(s) : p[i] = s[i]
  BY <1>1, PlainIs
<1>4. len \in 0 .. Len(s) + 1 /\ \A k \in len + 1 .. Len(s) : s[k] \notin Ends
  OBVIOUS
<1> HIDE DEF len
<1>5. Fields(p, len).text = text
  BY <1>4, FieldsAre
<1>6. len = Len(s) => Fields(p, len).id = <<id>>
  BY <1>4, FieldsAre
<1> QED BY <1>2, <1>3, <1>5, <1>6 DEF len

\* What the other side makes of a plaintext: the two numbers, the name, the text.
LEMMA PlainReads ==
  ASSUME NEW s \in Seq(Piece), NEW id \in Piece \ Ends, NEW text, Typeable(text)
  PROVE  LET p == Plain(s, id, text) IN
         Len(s) = 2 => /\ p \in Seq(Piece) /\ p[1] = s[1] /\ p[2] = s[2]
                       /\ Three!Name(p) = <<id>> /\ Three!Words(p) = text
<1> DEFINE p == Plain(s, id, text)
<1>1. /\ p \in Seq(Piece) /\ \A i \in 1 .. Len(s) : p[i] = s[i]
      /\ Fields(p, Len(s)).text = text /\ Fields(p, Len(s)).id = <<id>>
  BY PlainFields
<1> HIDE DEF p
<1>2. Len(s) = 2 => Fields(p, 2).text = text /\ Fields(p, 2).id = <<id>>
  BY <1>1
<1>3. Three!Name(p) = Fields(p, 2).id /\ Three!Words(p) = Fields(p, 2).text
  BY FramingShared DEF Three!Name, Three!Words, Fields
<1> QED BY <1>1, <1>2, <1>3 DEF p

\* A block that was never encrypted matches no number.
LEMMA JunkBefore ==
  ASSUME NEW p \in Seq(Piece)
  PROVE  (Three!Block \o p)[1] = "junk"
<1>1. Three!Block \in Seq(Piece) /\ Len(Three!Block) = 1 /\ Three!Block[1] = "junk"
  BY Pieces, Tuples DEF Three!Block
<1>2. Len(p) \in Nat
  OBVIOUS
<1> HIDE DEF Three!Block
<1>3. (Three!Block \o p)[1] = Three!Block[1]
  BY <1>1, <1>2, ConcatProperties
<1> QED BY <1>1, <1>3

-----------------------------------------------------------------------------
(* Three steps: the invariant is inductive.                                *)

\* What the invariant says of the texts, and of the plaintexts.
LEMMA ThreeTexts ==
  ASSUME ThreeInv
  PROVE  /\ Typeable(w1) /\ Typeable(w2) /\ Typeable(w3) /\ Typeable(w4) /\ Typeable(w5)
         /\ aSent3 \in 0 .. 2 /\ bSent3 \in 0 .. 3
BY Silent, FramingConstants DEF ThreeInv, Three!ThreeStepTypeOK

LEMMA ThreePlains ==
  ASSUME ThreeInv
  PROVE  /\ Reply \in Seq(Piece) /\ Proof \in Seq(Piece)
         /\ Three!Plain(bRa, "r_b", Three!ID_B, w2) = Reply
         /\ Three!Plain(aRb, "r_a", Three!ID_A, w4) = Proof
         /\ Reply[1] = bRa /\ Reply[2] = "r_b" /\ Three!Words(Reply) = w2
         /\ Proof[1] = aRb /\ Proof[2] = "r_a" /\ Three!Words(Proof) = w4
<1>1. /\ bRa \in Piece /\ aRb \in Piece /\ "r_a" \in Piece /\ "r_b" \in Piece
      /\ ID_A \in Piece \ Ends /\ ID_B \in Piece \ Ends
  <2>1. bRa \in {"junk", "r_a"} /\ aRb \in {"junk", "r_b"}
    BY DEF ThreeInv, Three!ThreeStepTypeOK
  <2>2. {"junk", "r_a", "r_b", ID_A, ID_B} \subseteq Piece
    BY Pieces
  <2>3. ID_A \notin Ends /\ ID_B \notin Ends
    BY Pieces DEF ID_B, Ends
  <2> QED BY <2>1, <2>2, <2>3
<1>2. /\ Typeable(w2) /\ w2 \in Seq(Piece) /\ Typeable(w4) /\ w4 \in Seq(Piece)
  BY ThreeTexts, Typed
<1>3. Three!ID_A = ID_A /\ Three!ID_B = ID_B
  BY DEF Three!ID_A, ID_A, Three!ID_B, ID_B
<1>4. Three!Plain(bRa, "r_b", Three!ID_B, w2) = Reply
  BY <1>1, <1>2, <1>3, PlainShared DEF Reply
<1>5. Three!Plain(aRb, "r_a", Three!ID_A, w4) = Proof
  BY <1>1, <1>2, <1>3, PlainShared DEF Proof
<1>6. /\ Reply \in Seq(Piece) /\ Reply[1] = bRa /\ Reply[2] = "r_b"
      /\ Three!Words(Reply) = w2
  <2> DEFINE s == <<bRa, "r_b">>
  <2>1. s \in Seq(Piece) /\ Len(s) = 2 /\ s[1] = bRa /\ s[2] = "r_b"
    BY <1>1, Tuples
  <2>2. Reply = Plain(s, ID_B, w2)
    BY DEF Reply
  <2> HIDE DEF s
  <2> QED BY <1>1, <1>2, <2>1, <2>2, PlainReads
<1>7. /\ Proof \in Seq(Piece) /\ Proof[1] = aRb /\ Proof[2] = "r_a"
      /\ Three!Words(Proof) = w4
  <2> DEFINE s == <<aRb, "r_a">>
  <2>1. s \in Seq(Piece) /\ Len(s) = 2 /\ s[1] = aRb /\ s[2] = "r_a"
    BY <1>1, Tuples
  <2>2. Proof = Plain(s, ID_A, w4)
    BY DEF Proof
  <2> HIDE DEF s
  <2> QED BY <1>1, <1>2, <2>1, <2>2, PlainReads
<1> QED BY <1>4, <1>5, <1>6, <1>7

\* The parts of A's first message.
LEMMA HelloIs ==
  ASSUME Typeable(w1)
  PROVE  LET r == Clear(<<"r_a">>)
             m == Clear(Append(w1, "NUL")) IN
         /\ r \in Seq(Token) /\ Len(r) = 1 /\ r[1] = [kind |-> "r_a"]
         /\ m \in Seq(Token) /\ Len(m) = Len(w1) + 1
         /\ [i \in 1 .. Len(m) |-> m[i].kind] = Append(w1, "NUL")
         /\ StringAt(Append(w1, "NUL")) = w1
<1> DEFINE z == Append(w1, "NUL")
           one == <<"r_a">>
<1>1. w1 \in Seq(Piece) /\ Len(w1) \in Nat /\ "NUL" \in Piece /\ "r_a" \in Piece
  BY Typed, Pieces
<1>2. one \in Seq(Piece) /\ Len(one) = 1 /\ one[1] = "r_a"
  BY <1>1, Tuples
<1>3. /\ z \in Seq(Piece) /\ Len(z) = Len(w1) + 1
      /\ \A i \in 1 .. Len(w1) : z[i] = w1[i]
      /\ z[Len(w1) + 1] = "NUL"
  BY <1>1, AppendProperties
<1> HIDE DEF z, one
<1>4. Clear(one) \in Seq(Token) /\ Len(Clear(one)) = 1 /\ Clear(one)[1] = [kind |-> "r_a"]
  BY <1>2, ClearIs
<1>5. /\ Clear(z) \in Seq(Token) /\ Len(Clear(z)) = Len(z)
      /\ \A i \in 1 .. Len(z) : Clear(z)[i] = [kind |-> z[i]]
  BY <1>3, ClearIs
<1>6. [i \in 1 .. Len(Clear(z)) |-> Clear(z)[i].kind] = z
  <2> DEFINE k == [i \in 1 .. Len(Clear(z)) |-> Clear(z)[i].kind]
  <2>1. Len(z) \in Nat /\ \A i \in 1 .. Len(z) : z[i] \in Piece
    BY <1>1, <1>3
  <2>2. k = [i \in 1 .. Len(z) |-> z[i]]
    <3>1. \A i \in 1 .. Len(z) : Clear(z)[i].kind = z[i]
      BY <1>5, Tokens
    <3> QED BY <1>5, <3>1
  <2>3. k \in Seq(Piece) /\ Len(k) = Len(z) /\ \A i \in 1 .. Len(k) : k[i] = z[i]
    BY <2>1, <2>2
  <2> HIDE DEF k
  <2>4. k = z
    BY <1>3, <2>3, SeqEqual
  <2> QED BY <2>4 DEF k
<1>7. StringAt(z) = w1
  BY <1>3, StringIs
<1> QED BY <1>3, <1>4, <1>5, <1>6, <1>7 DEF z, one

LEMMA ThreeInit == Three!Init => ThreeInv
<1> SUFFICES ASSUME Three!Init PROVE ThreeInv
  OBVIOUS
<1> USE DEF Three!Init
<1>1. Three!ThreeStepTypeOK
  BY DEF Three!ThreeStepTypeOK
<1>2. Greeting(0) /\ up3 = Hello(0)
  BY DEF Greeting, Hello
<1>3. ToB
  BY <1>2 DEF ToB
<1>4. ToA
  BY SentNone DEF ToA
<1>5. Stages /\ Checked
  BY DEF Stages, Checked, Past, Three!Nothing, Nothing
<1> QED BY <1>1, <1>3, <1>4, <1>5 DEF ThreeInv

\* A ends without having accepted, or without having answered all.
LEMMA ThreeAStops ==
  ASSUME ThreeInv, ~Three!AClosed, aAt3' \in {"dead", "failed"},
         aAt3' = "failed" => aAt3 \in {"start", "cipher"},
         UNCHANGED <<aSent3, w1, w4, w5, aRb, aHeard3, Three!bVars, up3>>
  PROVE  ThreeInv'
<1> USE DEF Three!bVars
<1>1. aAt3 # "ended" /\ Three!AClosed'
  BY DEF Three!AClosed
<1>2. Three!ThreeStepTypeOK'
  BY <1>1 DEF ThreeInv, Three!ThreeStepTypeOK, Three!Nothing
<1>3. UNCHANGED <<Reply, Proof>> /\ \A h : Greeting(h)' /\ Rest(h)' = Rest(h) /\ Hello(h)' = Hello(h)
  BY DEF Reply, Proof, Greeting, Rest, Hello
<1>4. \A k : Proving(k) => Proving(k)'
  BY <1>1 DEF Proving
<1>5. ToB'
  BY <1>1, <1>3, <1>4, OpenedCloses DEF ThreeInv, ToB
<1>6. ToA'
  BY DEF ToA
<1>7. Stages' /\ Checked'
  BY <1>1 DEF ThreeInv, Stages, Past, Checked
<1> QED BY <1>2, <1>5, <1>6, <1>7 DEF ThreeInv

LEMMA ThreeAConnect ==
  ASSUME ThreeInv, Three!AConnect PROVE ThreeInv'
<1>1. CASE aAt3' = "failed"
  BY <1>1, ThreeAStops DEF Three!AConnect, Three!AClosed
<1>2. CASE aAt3' = "hello"
  <2> USE DEF Three!AConnect, Three!bVars
  <2>1. Three!ThreeStepTypeOK'
    BY <1>2 DEF ThreeInv, Three!ThreeStepTypeOK, Three!Nothing
  <2>2. /\ UNCHANGED <<Reply, Proof>> /\ ~Past
        /\ \A h : Rest(h)' = Rest(h) /\ Hello(h)' = Hello(h)
        /\ \A h : Greeting(h) => Greeting(h)'
    BY <1>2 DEF Reply, Proof, Greeting, Rest, Hello, ThreeInv, Stages
  <2>3. ToB'
    BY <1>2, <2>2 DEF ThreeInv, ToB, Past, Three!AClosed
  <2>4. ToA'
    BY <1>2, <2>2 DEF ThreeInv, ToA
  <2>5. Stages' /\ Checked'
    BY <1>2, <2>2 DEF ThreeInv, Stages, Past, Checked
  <2> QED BY <2>1, <2>3, <2>4, <2>5 DEF ThreeInv
<1> QED BY <1>1, <1>2 DEF Three!AConnect

\* The two sends of A's first message.
LEMMA ThreeAHello ==
  ASSUME ThreeInv, Three!AHello PROVE ThreeInv'
<1> DEFINE number == Clear(<<"r_a">>)
           words == Clear(Append(w1, "NUL"))
           message == <<number, words>>
<1>1. /\ aAt3 = "hello" /\ aSent3 \in 0 .. 1
      /\ UNCHANGED <<w1, w4, w5, aText3, aRb, aHeard3, Three!bVars, down3>>
  BY DEF Three!AHello, Three!ASends, ThreeInv, Stages, Three!ThreeStepTypeOK
<1>2. CASE aAt3' = "dead" /\ UNCHANGED <<aSent3, up3>>
  BY <1>1, <1>2, ThreeAStops DEF Three!AClosed
<1>3. CASE /\ up3' = up3 \o message[aSent3 + 1] /\ aSent3' = (aSent3 + 1) % Len(message)
           /\ aAt3' = IF aSent3 + 1 = Len(message) THEN "text" ELSE aAt3
  <2> USE DEF Three!bVars
  <2>1. \/ aSent3 = 0 /\ aSent3' = 1 /\ aAt3' = "hello" /\ up3' = up3 \o number
        \/ aSent3 = 1 /\ aSent3' = 0 /\ aAt3' = "text" /\ up3' = up3 \o words
    <3>1. Len(message) = 2 /\ message[1] = number /\ message[2] = words
      OBVIOUS
    <3> HIDE DEF message, number, words
    <3> QED BY <1>1, <1>3, <3>1
  <2>2. number \in Seq(Token) /\ words \in Seq(Token)
    BY ThreeTexts, HelloIs
  <2>3. Three!ThreeStepTypeOK'
    BY <1>1, <2>1 DEF ThreeInv, Three!ThreeStepTypeOK, Three!Nothing
  <2>4. ~Past /\ UNCHANGED <<Reply, Three!BClosed>>
    BY <1>1 DEF ThreeInv, Stages, Reply, Three!BClosed
  <2>5. ToB'
    <3>1. CASE bAt3 \in {"accept", "r_a"}
      <4>1. up3 = Hello(aSent3)
        BY <1>1, <3>1 DEF ThreeInv, ToB, Greeting
      <4>2. CASE aSent3 = 0
        <5>1. up3' = Hello(1)'
          BY <1>1, <2>1, <2>2, <4>1, <4>2 DEF Hello
        <5>2. Greeting(1)'
          BY <2>1, <4>2 DEF Greeting
        <5> QED BY <1>1, <3>1, <5>1, <5>2 DEF ToB
      <4>3. CASE aSent3 = 1
        <5>1. up3' = Hello(2)'
          BY <1>1, <2>1, <4>1, <4>3 DEF Hello
        <5>2. Greeting(2)'
          BY <2>1, <4>3 DEF Greeting
        <5> QED BY <1>1, <3>1, <5>1, <5>2 DEF ToB
      <4> QED BY <1>1, <4>2, <4>3
    <3>2. CASE bAt3 = "m1"
      <4>1. /\ bRa = "r_a" /\ aSent3 = 1 /\ up3 = Rest(1)
        BY <1>1, <3>2 DEF ThreeInv, ToB, Greeting, Three!AClosed
      <4>2. up3' = Rest(2)'
        BY <1>1, <2>1, <2>2, <4>1 DEF Rest
      <4>3. Greeting(2)'
        BY <2>1, <4>1 DEF Greeting
      <4> QED BY <1>1, <3>2, <4>1, <4>2, <4>3 DEF ToB
    <3> QED BY <1>1, <2>4, <3>1, <3>2 DEF ToB, Past
  <2>6. ToA'
    BY <1>1, <2>1, <2>4 DEF ThreeInv, ToA
  <2>7. Stages' /\ Checked'
    BY <1>1, <2>1, <2>4 DEF ThreeInv, Stages, Past, Checked
  <2> QED BY <2>3, <2>5, <2>6, <2>7 DEF ThreeInv
<1> QED BY <1>1, <1>2, <1>3, FramingShared DEF Three!AHello, Three!ASends

LEMMA ThreeAReadText ==
  ASSUME ThreeInv, Three!AReadText PROVE ThreeInv'
<1> USE DEF Three!bVars
<1>1. /\ aAt3 = "text" /\ aAt3' = "cipher"
      /\ aText3' = TextBefore(down3) /\ (HasBar(down3) \/ Three!BClosed)
      /\ down3' = IF HasBar(down3) THEN AfterBar(down3) ELSE <<>>
      /\ UNCHANGED <<aSent3, w1, w4, w5, aRb, aHeard3, Three!bVars, up3>>
  BY FramingShared DEF Three!AReadText
<1>2. Three!ThreeStepTypeOK'
  BY <1>1 DEF ThreeInv, Three!ThreeStepTypeOK, Three!Nothing
<1>3. /\ UNCHANGED <<Reply, Proof, Three!BClosed, Three!AClosed>>
      /\ \A h : Rest(h)' = Rest(h) /\ Hello(h)' = Hello(h)
      /\ \A h : Greeting(h) => Greeting(h)'
      /\ \A k : Proving(k) => Proving(k)'
  BY <1>1 DEF Reply, Proof, Greeting, Rest, Hello, Proving, Three!BClosed, Three!AClosed
<1>4. ToB'
  BY <1>1, <1>3 DEF ThreeInv, ToB
<1>5. ToA'
  <2>1. down3 = Sent(w3, Reply, bSent3)
    BY <1>1 DEF ThreeInv, ToA
  <2>2. Opened(down3, down3', aText3', Three!BClosed)
    BY <1>1, Opens
  <2> QED BY <1>1, <1>3, <2>1, <2>2 DEF ToA
<1>6. Stages' /\ Checked'
  BY <1>1 DEF ThreeInv, Stages, Past, Checked
<1> QED BY <1>2, <1>4, <1>5, <1>6 DEF ThreeInv

LEMMA ThreeAReadCipher ==
  ASSUME ThreeInv, Three!AReadCipher PROVE ThreeInv'
<1> DEFINE p == aes_decrypt(down3, Three!Block)
<1>1. /\ aAt3 = "cipher" /\ down3' = <<>>
      /\ UNCHANGED <<aSent3, w1, w4, w5, aText3, Three!bVars, up3>>
      /\ \/ aAt3' = "failed" /\ UNCHANGED <<aRb, aHeard3>>
         \/ /\ Decrypts(down3) /\ p[1] = "r_a" /\ aAt3' = "type" /\ aRb' = p[2]
            /\ aHeard3' = [m2 |-> Three!Words(p), m3 |-> aText3]
  BY FramingShared DEF Three!AReadCipher, Three!AChecks
<1> HIDE DEF p
<1>2. CASE aAt3' = "failed" /\ UNCHANGED <<aRb, aHeard3>>
  BY <1>1, <1>2, ThreeAStops DEF Three!AClosed
<1>3. CASE /\ Decrypts(down3) /\ p[1] = "r_a" /\ aAt3' = "type" /\ aRb' = p[2]
           /\ aHeard3' = [m2 |-> Three!Words(p), m3 |-> aText3]
  <2> USE DEF Three!bVars
  <2>1. Typeable(w3) /\ bSent3 \in 0 .. 3 /\ Reply \in Seq(Piece)
    BY ThreeTexts, ThreePlains
  <2>2. Opened(Sent(w3, Reply, bSent3), down3, aText3, Three!BClosed)
    BY <1>1 DEF ThreeInv, ToA
  <2>3. /\ bSent3 = 3
        /\ \/ aText3 = w3 /\ p = Reply
           \/ p = Three!Block \o Reply
    BY <1>3, <2>1, <2>2, DecryptsWhole DEF p
  <2>4. p = Reply /\ aText3 = w3
    BY <1>3, <2>1, <2>3, JunkBefore
  <2>5. aRb' = "r_b" /\ aHeard3' = [m2 |-> w2, m3 |-> w3]
    BY <1>3, <2>4, ThreePlains
  <2>6. aHeard3' # Nothing /\ aHeard3' # Three!Nothing
    BY <2>5 DEF Nothing, Three!Nothing
  <2>7. Three!ThreeStepTypeOK'
    BY <1>1, <1>3, <2>5 DEF ThreeInv, Three!ThreeStepTypeOK, Three!Nothing
  <2>8. ToB'
    <3>1. \A k : Proving(k) => k = 0 /\ Proving(k)'
      BY <1>1, <1>3 DEF Proving
    <3>2. Sent(w5, Proof, 0) = <<>> /\ Sent(w5', Proof', 0) = <<>>
      BY SentNone
    <3>3. UNCHANGED Three!AClosed
      BY <1>1, <1>3 DEF Three!AClosed
    <3>4. bAt3 \notin {"accept", "r_a", "m1", "type", "send"}
      BY <2>3 DEF ThreeInv, Stages
    <3>5. CASE bAt3 = "text"
      BY <1>1, <3>1, <3>2, <3>4, <3>5 DEF ThreeInv, ToB
    <3>6. CASE bAt3 = "cipher"
      BY <1>1, <3>1, <3>2, <3>3, <3>4, <3>6 DEF ThreeInv, ToB
    <3> QED BY <1>1, <3>4, <3>5, <3>6 DEF ToB
  <2>9. ToA'
    BY <1>3 DEF ToA
  <2>10. Stages'
    BY <1>1, <1>3 DEF ThreeInv, Stages, Past
  <2>11. Checked'
    BY <1>1, <1>3, <2>3, <2>5, <2>6 DEF ThreeInv, Checked
  <2> QED BY <2>7, <2>8, <2>9, <2>10, <2>11 DEF ThreeInv
<1> QED BY <1>1, <1>2, <1>3

LEMMA ThreeAType ==
  ASSUME ThreeInv, Three!AType PROVE ThreeInv'
<1> USE DEF Three!bVars, Three!AType
<1>1. Three!ThreeStepTypeOK'
  BY DEF ThreeInv, Three!ThreeStepTypeOK, Three!Nothing
<1>2. ToB'
  <2>1. \A k : Proving(k) => k = 0 /\ Proving(k)'
    <3>1. aSent3 = 0
      BY DEF ThreeInv, Stages
    <3> QED BY <3>1 DEF Proving
  <2>2. Sent(w5, Proof, 0) = <<>> /\ Sent(w5', Proof', 0) = <<>>
    BY SentNone
  <2>3. UNCHANGED Three!AClosed
    BY DEF Three!AClosed
  <2>4. bAt3 \notin {"accept", "r_a", "m1", "type", "send"}
    BY DEF ThreeInv, Stages, Checked
  <2>5. CASE bAt3 = "text"
    BY <2>1, <2>2, <2>4, <2>5 DEF ThreeInv, ToB
  <2>6. CASE bAt3 = "cipher"
    BY <2>1, <2>2, <2>3, <2>4, <2>6 DEF ThreeInv, ToB
  <2> QED BY <2>4, <2>5, <2>6 DEF ToB
<1>3. ToA'
  BY DEF ToA
<1>4. Stages'
  BY DEF ThreeInv, Stages, Past
<1>5. Checked'
  BY DEF ThreeInv, Checked
<1> QED BY <1>1, <1>2, <1>3, <1>4, <1>5 DEF ThreeInv

LEMMA ThreeASend ==
  ASSUME ThreeInv, Three!ASend PROVE ThreeInv'
<1> DEFINE message == Sends(w5, Proof)
<1>1. /\ aAt3 = "send"
      /\ UNCHANGED <<w1, w4, w5, aText3, aRb, aHeard3, Three!bVars, down3>>
  BY DEF Three!ASend, Three!ASends
<1>2. /\ aSent3 \in 0 .. 2 /\ bSent3 = 3 /\ bAt3 \notin {"accept", "r_a", "m1", "type", "send"}
      /\ bAt3 # "accepted"
  BY <1>1, ThreeTexts DEF ThreeInv, Checked, Stages
<1>3. CASE aAt3' = "dead" /\ UNCHANGED <<aSent3, up3>>
  BY <1>1, <1>3, ThreeAStops DEF Three!AClosed
<1>4. CASE /\ up3' = up3 \o message[aSent3 + 1] /\ aSent3' = (aSent3 + 1) % Len(message)
           /\ aAt3' = IF aSent3 + 1 = Len(message) THEN "ended" ELSE aAt3
  <2> USE DEF Three!bVars
  <2>1. /\ up3' = up3 \o Sends(w5, Proof)[aSent3 + 1]
        /\ \/ aSent3 < 2 /\ aSent3' = aSent3 + 1 /\ aAt3' = "send"
           \/ aSent3 = 2 /\ aSent3' = 0 /\ aAt3' = "ended"
    <3>1. Len(message) = 3
      BY DEF Sends
    <3> HIDE DEF message
    <3>2. /\ aSent3' = (aSent3 + 1) % 3
          /\ aAt3' = IF aSent3 + 1 = 3 THEN "ended" ELSE "send"
      BY <1>1, <1>4, <3>1
    <3>3. aSent3 = 0 \/ aSent3 = 1 \/ aSent3 = 2
      BY <1>2
    <3>4. \/ aSent3 < 2 /\ aSent3' = aSent3 + 1 /\ aAt3' = "send"
          \/ aSent3 = 2 /\ aSent3' = 0 /\ aAt3' = "ended"
      BY <3>2, <3>3
    <3> QED BY <1>4, <3>4 DEF message
  <2>2. Three!ThreeStepTypeOK'
    BY <1>1, <1>2, <2>1 DEF ThreeInv, Three!ThreeStepTypeOK, Three!Nothing
  <2>3. UNCHANGED <<Reply, Proof, Three!BClosed>>
    BY <1>1 DEF Reply, Proof, Three!BClosed
  <2>4. Typeable(w5) /\ Proof \in Seq(Piece)
    BY ThreeTexts, ThreePlains
  <2>0. PICK n \in 0 .. 2 : n = aSent3
    BY <1>2
  <2>5. Proving(n + 1)' /\ n + 1 \in 0 .. 3
    BY <2>0, <2>1 DEF Proving
  <2>6. ToB'
    <3>1. CASE bAt3 = "text"
      <4>1. up3 = Sent(w5, Proof, aSent3)
        BY <1>1, <3>1 DEF ThreeInv, ToB, Proving
      <4>2. up3' = Sent(w5, Proof, n + 1)
        BY <2>0, <2>1, <2>4, <4>1, SentGrows
      <4> QED BY <1>1, <2>3, <2>5, <3>1, <4>2 DEF ToB
    <3>2. CASE bAt3 = "cipher"
      <4>1. Opened(Sent(w5, Proof, aSent3), up3, bText3, FALSE)
        BY <1>1, <3>2 DEF ThreeInv, ToB, Proving, Three!AClosed, Opened
      <4>2. Opened(Sent(w5, Proof, n + 1), up3', bText3, FALSE)
        BY <2>0, <2>1, <2>4, <4>1, OpenedGrows
      <4>3. Opened(Sent(w5, Proof, n + 1), up3', bText3, Three!AClosed')
        BY <4>2 DEF Opened
      <4> QED BY <1>1, <2>3, <2>5, <3>2, <4>3 DEF ToB
    <3> QED BY <1>1, <1>2, <3>1, <3>2 DEF ToB
  <2>7. ToA'
    BY <2>1 DEF ToA
  <2>8. Stages'
    BY <1>1, <1>2, <2>1 DEF ThreeInv, Stages, Past
  <2>9. Checked'
    BY <1>1, <1>2, <2>1 DEF ThreeInv, Checked
  <2> QED BY <2>2, <2>6, <2>7, <2>8, <2>9 DEF ThreeInv
<1> QED BY <1>1, <1>3, <1>4, FramingShared, ThreePlains DEF Three!ASend, Three!ASends

\* B ends without having answered all, or without having accepted.
LEMMA ThreeBStops ==
  ASSUME ThreeInv, ~Three!BClosed, bAt3' \in {"dead", "failed"},
         bAt3' = "failed" => bSent3 = 3,
         UNCHANGED <<bSent3, w2, w3, bRa, bM1, bHeard3, Three!aVars, down3>>
  PROVE  ThreeInv'
<1> USE DEF Three!aVars
<1>1. bAt3 # "accepted" /\ Three!BClosed'
  BY DEF Three!BClosed
<1>2. Three!ThreeStepTypeOK'
  BY DEF ThreeInv, Three!ThreeStepTypeOK, Three!Nothing
<1>3. UNCHANGED Reply
  BY DEF Reply
<1>4. ToB'
  BY DEF ToB
<1>5. ToA'
  BY <1>1, <1>3, OpenedCloses DEF ThreeInv, ToA
<1>6. Stages'
  BY DEF ThreeInv, Stages, Past
<1>7. Checked'
  BY <1>1 DEF ThreeInv, Checked
<1> QED BY <1>2, <1>4, <1>5, <1>6, <1>7 DEF ThreeInv

LEMMA ThreeBAccept ==
  ASSUME ThreeInv, Three!BAccept PROVE ThreeInv'
<1> USE DEF Three!aVars, Three!BAccept
<1>1. Three!ThreeStepTypeOK'
  BY DEF ThreeInv, Three!ThreeStepTypeOK, Three!Nothing
<1>2. /\ UNCHANGED <<Reply, Three!BClosed>>
      /\ \A h : Hello(h)' = Hello(h) /\ (Greeting(h) => Greeting(h)')
  BY DEF Reply, Hello, Greeting, Three!BClosed
<1>3. ToB'
  BY <1>2 DEF ThreeInv, ToB
<1>4. ToA'
  BY <1>2 DEF ThreeInv, ToA
<1>5. Stages'
  BY DEF ThreeInv, Stages, Past
<1>6. Checked'
  BY DEF ThreeInv, Checked
<1> QED BY <1>1, <1>3, <1>4, <1>5, <1>6 DEF ThreeInv

\* The rest of the invariant does not depend on what the number is.
LEMMA ThreeBReadsNumber ==
  ASSUME ThreeInv, bAt3 = "r_a", bAt3' = "m1", bRa' \in {bRa, "r_a"}, ToB',
         UNCHANGED <<bSent3, w2, w3, bText3, bM1, bHeard3, Three!aVars, down3>>
  PROVE  ThreeInv'
<1> USE DEF Three!aVars
<1>1. Three!ThreeStepTypeOK'
  BY DEF ThreeInv, Three!ThreeStepTypeOK, Three!Nothing
<1>2. ToA'
  <2>1. bSent3 = 0
    BY DEF ThreeInv, Stages
  <2>2. Sent(w3', Reply', bSent3') = Sent(w3, Reply, bSent3)
    BY <2>1, SentNone
  <2>3. UNCHANGED Three!BClosed
    BY DEF Three!BClosed
  <2> QED BY <2>2, <2>3 DEF ThreeInv, ToA
<1>3. Stages'
  BY DEF ThreeInv, Stages, Past
<1>4. Checked'
  BY DEF ThreeInv, Checked
<1> QED BY <1>1, <1>2, <1>3, <1>4 DEF ThreeInv

\* The number is all that B takes of what is there, and is missing only when A has
\* closed the connection.
LEMMA ThreeBReadNumber ==
  ASSUME ThreeInv, Three!BReadNumber PROVE ThreeInv'
<1> DEFINE number == Clear(<<"r_a">>)
           words == Clear(Append(w1, "NUL"))
<1>1. /\ bAt3 = "r_a" /\ bAt3' = "m1" /\ (up3 # <<>> \/ Three!AClosed)
      /\ bRa' = IF up3 # <<>> THEN up3[1].kind ELSE bRa
      /\ up3' = SubSeq(up3, 2, Len(up3))
      /\ UNCHANGED <<bSent3, w2, w3, bText3, bM1, bHeard3, Three!aVars, down3>>
  BY DEF Three!BReadNumber, Three!Unread
<1> USE DEF Three!aVars
<1>2. bSent3 = 0
  BY <1>1 DEF ThreeInv, Stages
<1>3. PICK h \in 0 .. 2 : Greeting(h) /\ up3 = Hello(h)
  BY <1>1 DEF ThreeInv, ToB
<1>4. /\ number \in Seq(Token) /\ Len(number) = 1 /\ number[1] = [kind |-> "r_a"]
      /\ words \in Seq(Token)
  BY ThreeTexts, HelloIs
<1>5. /\ h = 0 => up3 = <<>>
      /\ h = 1 => up3 = number
      /\ h = 2 => up3 = number \o words
  BY <1>3 DEF Hello
<1> HIDE DEF number, words
<1>6. CASE h = 0
  <2>1. up3' = <<>> /\ Three!AClosed' /\ bRa' = bRa
    BY <1>1, <1>5, <1>6 DEF Three!AClosed
  <2>2. ToB'
    BY <1>1, <2>1 DEF ToB
  <2> QED BY <1>1, <2>1, <2>2, ThreeBReadsNumber
<1>7. CASE h \in 1 .. 2
  <2>1. bRa' = "r_a" /\ up3' = Rest(h)
    <3>1. CASE h = 1
      <4>1. up3 = number /\ Len(up3) = 1
        BY <1>4, <1>5, <3>1
      <4>2. up3 # <<>> /\ up3[1].kind = "r_a"
        <5>1. up3 # <<>>
          BY <4>1
        <5>2. up3[1] = [kind |-> "r_a"]
          BY <1>4, <4>1
        <5> QED BY <5>1, <5>2
      <4>3. SubSeq(up3, 2, Len(up3)) = <<>>
        <5>1. SubSeq(up3, 2, 1) = <<>>
          BY SubSeqEmpty
        <5> QED BY <4>1, <5>1
      <4> QED BY <1>1, <3>1, <4>2, <4>3 DEF Rest
    <3>2. CASE h = 2
      <4>1. /\ number \o words \in Seq(Token)
            /\ Len(number \o words) = 1 + Len(words) /\ Len(words) \in Nat
            /\ \A i \in 1 .. 1 + Len(words) :
                 (number \o words)[i] = IF i <= 1 THEN number[i] ELSE words[i - 1]
        <5>1. /\ number \o words \in Seq(Token)
              /\ Len(number \o words) = Len(number) + Len(words)
              /\ \A i \in 1 .. Len(number) + Len(words) :
                   (number \o words)[i] = IF i <= Len(number) THEN number[i]
                                          ELSE words[i - Len(number)]
          BY <1>4, ConcatProperties
        <5>2. Len(words) \in Nat
          BY <1>4
        <5> QED BY <1>4, <5>1, <5>2
      <4>2. up3 # <<>> /\ up3[1].kind = "r_a"
        BY <1>4, <1>5, <3>2, <4>1, Tokens
      <4>3. SubSeq(up3, 2, Len(up3)) = words
        <5> DEFINE t == SubSeq(up3, 2, Len(up3))
        <5>1. /\ up3 \in Seq(Token) /\ Len(up3) = 1 + Len(words)
              /\ \A i \in 1 .. Len(words) : up3[i + 1] = words[i]
          <6>1. up3 = number \o words
            BY <1>5, <3>2
          <6>2. \A i \in 1 .. Len(words) :
                  i + 1 \in 1 .. 1 + Len(words) /\ ~(i + 1 <= 1) /\ (i + 1) - 1 = i
            BY <4>1
          <6>3. \A i \in 1 .. Len(words) : (number \o words)[i + 1] = words[i]
            BY <4>1, <6>2
          <6> QED BY <4>1, <6>1, <6>3
        <5>2. /\ t \in Seq(Token) /\ Len(t) = Len(words)
              /\ \A i \in 1 .. Len(words) : t[i] = up3[i + 1]
          BY <4>1, <5>1
        <5> HIDE DEF t
        <5>3. \A i \in 1 .. Len(t) : t[i] = words[i]
          BY <5>1, <5>2
        <5>4. t = words
          BY <1>4, <5>2, <5>3, SeqEqual
        <5> QED BY <5>4 DEF t
      <4> QED BY <1>1, <3>2, <4>2, <4>3 DEF Rest, words
    <3> QED BY <1>7, <3>1, <3>2
  <2>2. Greeting(h)' /\ up3' = Rest(h)'
    BY <1>1, <1>3, <2>1 DEF Greeting, Rest
  <2>3. ToB'
    BY <1>1, <1>7, <2>1, <2>2 DEF ToB
  <2> QED BY <1>1, <2>1, <2>3, ThreeBReadsNumber
<1> QED BY <1>6, <1>7

\* The recv() of 256 bytes gets the whole of M1 unless A has ended early.
LEMMA ThreeBReadHello ==
  ASSUME ThreeInv, Three!BReadHello PROVE ThreeInv'
<1> DEFINE words == Clear(Append(w1, "NUL"))
<1>1. /\ bAt3 = "m1" /\ bAt3' = "type" /\ (up3 # <<>> \/ Three!AClosed)
      /\ bM1' = StringAt([i \in 1 .. Len(up3) |-> up3[i].kind])
      /\ up3' = <<>>
      /\ UNCHANGED <<bSent3, w2, w3, bRa, bText3, bHeard3, Three!aVars, down3>>
  BY FramingShared DEF Three!BReadHello
<1> USE DEF Three!aVars
<1>2. bSent3 = 0 /\ aAt3 # "ended"
  BY <1>1 DEF ThreeInv, Stages, Checked
<1>3. \/ aAt3 \in {"failed", "dead"}
      \/ aAt3 \notin {"start", "hello"} /\ bRa = "r_a" /\ bM1' = w1
  <2>1. CASE Three!AClosed
    BY <1>2, <2>1 DEF Three!AClosed
  <2>2. CASE ~Three!AClosed
    <3>1. bRa = "r_a"
      BY <1>1, <2>2 DEF ThreeInv, ToB
    <3>2. PICK h \in 1 .. 2 : Greeting(h) /\ up3 = Rest(h)
      BY <1>1, <2>2 DEF ThreeInv, ToB
    <3>3. h = 2 /\ up3 = words
      BY <1>1, <2>2, <3>2 DEF Rest
    <3>4. bM1' = w1
      BY <1>1, <3>3, ThreeTexts, HelloIs
    <3>5. aAt3 \notin {"start", "hello"}
      BY <3>2, <3>3 DEF Greeting, ThreeInv, Stages
    <3> QED BY <3>1, <3>4, <3>5
  <2> QED BY <2>1, <2>2
<1>4. Three!ThreeStepTypeOK'
  BY <1>1 DEF ThreeInv, Three!ThreeStepTypeOK, Three!Nothing
<1>5. ToB'
  BY <1>1 DEF ToB
<1>6. ToA'
  <2>1. UNCHANGED <<Reply, Three!BClosed>>
    BY <1>1 DEF Reply, Three!BClosed
  <2> QED BY <1>1, <2>1 DEF ThreeInv, ToA
<1>7. Stages'
  BY <1>1, <1>2, <1>3 DEF ThreeInv, Stages, Past
<1>8. Checked'
  BY <1>1 DEF ThreeInv, Checked
<1> QED BY <1>4, <1>5, <1>6, <1>7, <1>8 DEF ThreeInv

LEMMA ThreeBType ==
  ASSUME ThreeInv, Three!BType PROVE ThreeInv'
<1> USE DEF Three!aVars, Three!BType
<1>1. Three!ThreeStepTypeOK'
  BY DEF ThreeInv, Three!ThreeStepTypeOK, Three!Nothing
<1>2. ToB'
  BY DEF ThreeInv, ToB
<1>3. bSent3 = 0
  BY DEF ThreeInv, Stages
<1>4. ToA'
  <2>1. Sent(w3', Reply', bSent3') = Sent(w3, Reply, bSent3)
    BY <1>3, SentNone
  <2>2. UNCHANGED Three!BClosed
    BY DEF Three!BClosed
  <2> QED BY <2>1, <2>2 DEF ThreeInv, ToA
<1>5. Stages'
  BY <1>3 DEF ThreeInv, Stages, Past
<1>6. Checked'
  BY <1>3 DEF ThreeInv, Checked
<1> QED BY <1>1, <1>2, <1>4, <1>5, <1>6 DEF ThreeInv

LEMMA ThreeBSend ==
  ASSUME ThreeInv, Three!BSend PROVE ThreeInv'
<1>1. /\ bAt3 = "send" /\ bSent3 < 3
      /\ UNCHANGED <<w2, w3, bRa, bText3, bM1, bHeard3, Three!aVars, up3>>
  BY DEF Three!BSend, ThreeInv, Stages
<1>2. CASE bAt3' = "dead" /\ UNCHANGED <<bSent3, down3>>
  BY <1>1, <1>2, ThreeBStops DEF Three!BClosed
<1>3. CASE /\ down3' = down3 \o Sends(w3, Reply)[bSent3 + 1] /\ bSent3' = bSent3 + 1
           /\ bAt3' = IF bSent3 = 2 THEN "text" ELSE "send"
  <2> USE DEF Three!aVars
  <2>1. PICK n \in 0 .. 2 : n = bSent3
    BY <1>1, ThreeTexts
  <2>2. Three!ThreeStepTypeOK'
    BY <1>1, <1>3, <2>1 DEF ThreeInv, Three!ThreeStepTypeOK, Three!Nothing
  <2>3. UNCHANGED <<Reply, Proof>>
    BY <1>1 DEF Reply, Proof
  <2>4. Typeable(w3) /\ Reply \in Seq(Piece)
    BY ThreeTexts, ThreePlains
  <2>5. ToB'
    <3>1. up3' = <<>>
      BY <1>1 DEF ThreeInv, ToB
    <3>2. Proving(0)'
      BY <1>1, <2>1 DEF Proving, ThreeInv, Checked
    <3>3. Sent(w5', Proof', 0) = <<>>
      BY SentNone
    <3> QED BY <1>3, <3>1, <3>2, <3>3 DEF ToB
  <2>6. ToA'
    <3>1. CASE aAt3 \in {"start", "hello", "text"}
      <4>1. down3' = Sent(w3, Reply, n + 1)
        BY <1>3, <2>1, <2>4, <3>1, SentGrows DEF ThreeInv, ToA
      <4> QED BY <1>1, <1>3, <2>1, <2>3, <3>1, <4>1 DEF ToA
    <3>2. CASE aAt3 = "cipher"
      <4>1. Opened(Sent(w3, Reply, n), down3, aText3, FALSE)
        BY <1>1, <2>1, <3>2 DEF ThreeInv, ToA, Three!BClosed, Opened
      <4>2. Opened(Sent(w3, Reply, n + 1), down3', aText3, FALSE)
        BY <1>3, <2>1, <2>4, <4>1, OpenedGrows
      <4>3. Opened(Sent(w3, Reply, n + 1), down3', aText3, Three!BClosed')
        BY <4>2 DEF Opened
      <4> QED BY <1>1, <1>3, <2>1, <2>3, <3>2, <4>3 DEF ToA
    <3> QED BY <1>1, <3>1, <3>2 DEF ToA
  <2>7. Stages'
    BY <1>1, <1>3, <2>1 DEF ThreeInv, Stages, Past
  <2>8. Checked'
    BY <1>1, <1>3, <2>1 DEF ThreeInv, Checked
  <2> QED BY <2>2, <2>5, <2>6, <2>7, <2>8 DEF ThreeInv
<1> QED BY <1>2, <1>3, FramingShared, ThreePlains DEF Three!BSend

LEMMA ThreeBReadText ==
  ASSUME ThreeInv, Three!BReadText PROVE ThreeInv'
<1>1. /\ bAt3 = "text" /\ bAt3' = "cipher"
      /\ bText3' = TextBefore(up3) /\ (HasBar(up3) \/ Three!AClosed)
      /\ up3' = IF HasBar(up3) THEN AfterBar(up3) ELSE <<>>
      /\ UNCHANGED <<bSent3, w2, w3, bRa, bM1, bHeard3, Three!aVars, down3>>
  BY FramingShared DEF Three!BReadText
<1> USE DEF Three!aVars
<1>2. Three!ThreeStepTypeOK'
  BY <1>1 DEF ThreeInv, Three!ThreeStepTypeOK, Three!Nothing
<1>3. /\ UNCHANGED <<Reply, Proof, Three!BClosed, Three!AClosed>>
      /\ \A k : Proving(k) => Proving(k)'
  BY <1>1 DEF Reply, Proof, Proving, Three!BClosed, Three!AClosed
<1>4. ToB'
  <2>1. PICK k \in 0 .. 3 : Proving(k) /\ up3 = Sent(w5, Proof, k)
    BY <1>1 DEF ThreeInv, ToB
  <2>2. Opened(up3, up3', bText3', Three!AClosed)
    BY <1>1, Opens
  <2> QED BY <1>1, <1>3, <2>1, <2>2 DEF ToB
<1>5. ToA'
  BY <1>1, <1>3 DEF ThreeInv, ToA
<1>6. Stages'
  BY <1>1 DEF ThreeInv, Stages, Past
<1>7. Checked'
  BY <1>1 DEF ThreeInv, Checked
<1> QED BY <1>2, <1>4, <1>5, <1>6, <1>7 DEF ThreeInv

LEMMA ThreeBReadCipher ==
  ASSUME ThreeInv, Three!BReadCipher PROVE ThreeInv'
<1> DEFINE p == aes_decrypt(up3, Three!Block)
<1>1. /\ bAt3 = "cipher" /\ up3' = <<>>
      /\ UNCHANGED <<bSent3, w2, w3, bRa, bText3, bM1, Three!aVars, down3>>
      /\ \/ bAt3' = "failed" /\ UNCHANGED bHeard3
         \/ /\ Decrypts(up3) /\ p[1] = "r_b" /\ bAt3' = "accepted"
            /\ bHeard3' = [m1 |-> bM1, m4 |-> Three!Words(p), m5 |-> bText3]
  BY FramingShared DEF Three!BReadCipher, Three!BChecks
<1>2. bSent3 = 3 /\ ~Three!BClosed
  BY <1>1 DEF ThreeInv, Stages, Three!BClosed
<1> HIDE DEF p
<1>3. CASE bAt3' = "failed" /\ UNCHANGED bHeard3
  BY <1>1, <1>2, <1>3, ThreeBStops
<1>4. CASE /\ Decrypts(up3) /\ p[1] = "r_b" /\ bAt3' = "accepted"
           /\ bHeard3' = [m1 |-> bM1, m4 |-> Three!Words(p), m5 |-> bText3]
  <2> USE DEF Three!aVars
  <2>1. Typeable(w5) /\ Proof \in Seq(Piece)
    BY ThreeTexts, ThreePlains
  <2>2. PICK k \in 0 .. 3 : Proving(k) /\ Opened(Sent(w5, Proof, k), up3, bText3, Three!AClosed)
    BY <1>1 DEF ThreeInv, ToB
  <2>3. /\ k = 3
        /\ \/ bText3 = w5 /\ p = Proof
           \/ p = Three!Block \o Proof
    BY <1>4, <2>1, <2>2, DecryptsWhole DEF p
  <2>4. p = Proof /\ bText3 = w5
    BY <1>4, <2>1, <2>3, JunkBefore
  <2>5. aAt3 = "ended" /\ bM1 = w1
    BY <1>1, <2>2, <2>3 DEF Proving, ThreeInv, Stages, Past
  <2>6. bHeard3' = [m1 |-> w1, m4 |-> w4, m5 |-> w5]
    BY <1>4, <2>4, <2>5, ThreePlains
  <2>7. bHeard3' # Nothing
    BY <2>6 DEF Nothing
  <2>8. Three!ThreeStepTypeOK'
    BY <1>1, <1>4 DEF ThreeInv, Three!ThreeStepTypeOK, Three!Nothing
  <2>9. ToB' /\ ToA'
    BY <1>1, <1>4, <2>5 DEF ToB, ToA
  <2>10. Stages'
    BY <1>1, <1>2, <1>4 DEF ThreeInv, Stages, Past
  <2>11. Checked'
    BY <1>1, <1>4, <2>5, <2>6, <2>7 DEF ThreeInv, Checked
  <2> QED BY <2>8, <2>9, <2>10, <2>11 DEF ThreeInv
<1> QED BY <1>1, <1>3, <1>4

LEMMA ThreeStays ==
  ASSUME ThreeInv, UNCHANGED Three!vars PROVE ThreeInv'
<1> USE DEF Three!vars
<1>1. Three!ThreeStepTypeOK'
  BY DEF ThreeInv, Three!ThreeStepTypeOK, Three!Nothing
<1>2. /\ UNCHANGED <<Reply, Proof, Three!BClosed, Three!AClosed>>
      /\ \A h : Rest(h)' = Rest(h) /\ Hello(h)' = Hello(h)
      /\ \A h : Greeting(h) => Greeting(h)'
      /\ \A k : Proving(k) => Proving(k)'
  BY DEF Reply, Proof, Rest, Hello, Greeting, Proving, Three!BClosed, Three!AClosed
<1>3. ToB' /\ ToA'
  BY <1>2 DEF ThreeInv, ToB, ToA
<1>4. Stages' /\ Checked'
  BY DEF ThreeInv, Stages, Past, Checked
<1> QED BY <1>1, <1>3, <1>4 DEF ThreeInv

LEMMA ThreeStepInductive == ThreeInv /\ [Three!Next]_Three!vars => ThreeInv'
<1> SUFFICES ASSUME ThreeInv, [Three!Next]_Three!vars PROVE ThreeInv'
  OBVIOUS
<1>1. CASE Three!A
  BY <1>1, ThreeAConnect, ThreeAHello, ThreeAReadText, ThreeAReadCipher, ThreeAType,
     ThreeASend DEF Three!A
<1>2. CASE Three!B
  BY <1>2, ThreeBAccept, ThreeBReadNumber, ThreeBReadHello, ThreeBType, ThreeBSend,
     ThreeBReadText, ThreeBReadCipher DEF Three!B
<1>3. CASE Three!ADies
  BY <1>3, ThreeAStops DEF Three!ADies
<1>4. CASE Three!BDies
  BY <1>4, ThreeBStops DEF Three!BDies
<1>5. CASE UNCHANGED Three!vars
  BY <1>5, ThreeStays
<1> QED BY <1>1, <1>2, <1>3, <1>4, <1>5 DEF Three!Next

\* Whatever the users type and whenever the programs are killed: what is on the way is
\* a part of the message whose turn it is, A accepts only B's whole answer to its
\* number, and B only A's whole answer to B's, with M1 as A's user typed it.
THEOREM ThreeStepAlways == Three!Spec => []ThreeInv
BY ThreeInit, ThreeStepInductive, PTL DEF Three!Spec

-----------------------------------------------------------------------------
(* Three steps: each side challenges the other.                            *)

LEMMA ThreeChallengeInit ==
  Three!Init => Three!AChallengesB!CInit /\ Three!BChallengesA!CInit
<1> SUFFICES ASSUME Three!Init
             PROVE  Three!AChallengesB!CInit /\ Three!BChallengesA!CInit
  OBVIOUS
<1>1. /\ bSent3 = 0 /\ aAt3 = "start" /\ ~Three!AClosed /\ ~Three!BClosed
      /\ aHeard3 = Three!Nothing /\ bHeard3 = Three!Nothing
  BY DEF Three!Init, Three!AClosed, Three!BClosed
<1>2. Three!AChallengesB!CInit
  BY <1>1 DEF Three!AChallengesB!CInit, Three!AChallengesB!Silence, Three!Verdict, Three!One
<1>3. Three!BChallengesA!CInit
  BY <1>1 DEF Three!BChallengesA!CInit, Three!BChallengesA!Silence, Three!Verdict, Three!One
<1> QED BY <1>2, <1>3

\* What leaves alone what B has said and A has heard is A's refusal or nothing.
LEMMA ThreeARefuses ==
  ASSUME UNCHANGED aHeard3, bSent3 = 3 \/ bSent3' = 3 => UNCHANGED <<bSent3, w2, w3>>,
         Three!AClosed => Three!AClosed'
  PROVE  [Three!AChallengesB!CNext]_Three!AChallengesB!cvars
<1> DEFINE saying == IF bSent3 = 3 THEN {[m2 |-> w2, m3 |-> w3]} ELSE {}
           judging == Three!Verdict(aHeard3, Three!AClosed)
           hearing == Three!One(aHeard3)
<1>1. UNCHANGED <<saying, hearing>>
  OBVIOUS
<1>2. \/ UNCHANGED judging
      \/ judging = "none" /\ judging' = "refused"
  BY DEF Three!Verdict
<1>3. CASE UNCHANGED judging
  BY <1>1, <1>3 DEF Three!AChallengesB!cvars
<1>4. CASE judging = "none" /\ judging' = "refused"
  BY <1>1, <1>4 DEF Three!AChallengesB!CNext, Three!AChallengesB!Refuse
<1> QED BY <1>2, <1>3, <1>4

LEMMA ThreeBRefuses ==
  ASSUME UNCHANGED bHeard3,
         aAt3 = "ended" \/ aAt3' = "ended" => UNCHANGED <<aAt3, w1, w4, w5>>,
         Three!BClosed => Three!BClosed'
  PROVE  [Three!BChallengesA!CNext]_Three!BChallengesA!cvars
<1> DEFINE saying == IF aAt3 = "ended" THEN {[m1 |-> w1, m4 |-> w4, m5 |-> w5]} ELSE {}
           judging == Three!Verdict(bHeard3, Three!BClosed)
           hearing == Three!One(bHeard3)
<1>1. UNCHANGED <<saying, hearing>>
  OBVIOUS
<1>2. \/ UNCHANGED judging
      \/ judging = "none" /\ judging' = "refused"
  BY DEF Three!Verdict
<1>3. CASE UNCHANGED judging
  BY <1>1, <1>3 DEF Three!BChallengesA!cvars
<1>4. CASE judging = "none" /\ judging' = "refused"
  BY <1>1, <1>4 DEF Three!BChallengesA!CNext, Three!BChallengesA!Refuse
<1> QED BY <1>2, <1>3, <1>4

\* A has checked B's message.
LEMMA ThreeAAccepts ==
  ASSUME ThreeInv, Three!AReadCipher
  PROVE  [Three!AChallengesB!CNext]_Three!AChallengesB!cvars
<1>1. /\ aAt3 = "cipher" /\ UNCHANGED Three!bVars
      /\ \/ aAt3' = "failed" /\ UNCHANGED aHeard3
         \/ aAt3' = "type"
  BY DEF Three!AReadCipher
<1>2. CASE aAt3' = "failed" /\ UNCHANGED aHeard3
  BY <1>1, <1>2, ThreeARefuses DEF Three!AClosed, Three!bVars
<1>3. CASE aAt3' = "type"
  <2>1. ThreeInv'
    BY ThreeAReadCipher
  <2>2. /\ bSent3 = 3 /\ UNCHANGED <<bSent3, w2, w3>>
        /\ aHeard3 = Nothing /\ aHeard3' # Nothing
        /\ aHeard3' = [m2 |-> w2, m3 |-> w3]
    BY <1>1, <1>3, <2>1 DEF ThreeInv, Checked, Three!bVars
  <2>3. ~Three!AClosed /\ Three!Nothing = Nothing
    BY <1>1 DEF Three!AClosed, Three!Nothing, Nothing
  <2>4. Three!AChallengesB!Accept
    BY <2>2, <2>3
       DEF Three!AChallengesB!Accept, Three!AChallengesB!Silence, Three!Verdict, Three!One
  <2> QED BY <2>4 DEF Three!AChallengesB!CNext
<1> QED BY <1>1, <1>2, <1>3

\* The last send of B's message.
LEMMA ThreeBAnswers ==
  ASSUME ThreeInv, Three!BSend
  PROVE  [Three!AChallengesB!CNext]_Three!AChallengesB!cvars
<1>1. /\ bSent3 < 3 /\ w2 \in Text /\ w3 \in Text
      /\ UNCHANGED <<w2, w3, Three!aVars>> /\ bSent3' \in {bSent3, bSent3 + 1}
  BY DEF Three!BSend, ThreeInv, Stages
<1>2. UNCHANGED <<aHeard3, Three!AClosed>>
  BY <1>1 DEF Three!aVars, Three!AClosed
<1>3. CASE bSent3' # 3
  BY <1>1, <1>2, <1>3, ThreeARefuses
<1>4. CASE bSent3' = 3
  <2>1. [m2 |-> w2, m3 |-> w3] \in [m2 : Text, m3 : Text]
    BY <1>1
  <2>0. bSent3 # 3 /\ UNCHANGED <<w2, w3>>
    BY <1>1
  <2>2. Three!AChallengesB!Answer
    BY <1>2, <1>4, <2>0, <2>1
       DEF Three!AChallengesB!Answer, Three!AChallengesB!Silence
  <2> QED BY <2>2 DEF Three!AChallengesB!CNext
<1> QED BY <1>3, <1>4

\* B has checked A's message.
LEMMA ThreeBAccepts ==
  ASSUME ThreeInv, Three!BReadCipher
  PROVE  [Three!BChallengesA!CNext]_Three!BChallengesA!cvars
<1>1. /\ bAt3 = "cipher" /\ UNCHANGED Three!aVars
      /\ \/ bAt3' = "failed" /\ UNCHANGED bHeard3
         \/ bAt3' = "accepted"
  BY DEF Three!BReadCipher
<1>2. CASE bAt3' = "failed" /\ UNCHANGED bHeard3
  BY <1>1, <1>2, ThreeBRefuses DEF Three!BClosed, Three!aVars
<1>3. CASE bAt3' = "accepted"
  <2>1. ThreeInv'
    BY ThreeBReadCipher
  <2>2. /\ aAt3 = "ended" /\ UNCHANGED <<aAt3, w1, w4, w5>>
        /\ bHeard3 = Nothing /\ bHeard3' # Nothing
        /\ bHeard3' = [m1 |-> w1, m4 |-> w4, m5 |-> w5]
    BY <1>1, <1>3, <2>1 DEF ThreeInv, Checked, Three!aVars
  <2>3. ~Three!BClosed /\ Three!Nothing = Nothing
    BY <1>1 DEF Three!BClosed, Three!Nothing, Nothing
  <2>4. Three!BChallengesA!Accept
    BY <2>2, <2>3
       DEF Three!BChallengesA!Accept, Three!BChallengesA!Silence, Three!Verdict, Three!One
  <2> QED BY <2>4 DEF Three!BChallengesA!CNext
<1> QED BY <1>1, <1>2, <1>3

\* The last send of A's second message.
LEMMA ThreeAAnswers ==
  ASSUME ThreeInv, Three!ASend
  PROVE  [Three!BChallengesA!CNext]_Three!BChallengesA!cvars
<1>1. /\ aAt3 = "send" /\ w1 \in Text /\ w4 \in Text /\ w5 \in Text
      /\ UNCHANGED <<w1, w4, w5, Three!bVars>>
  BY DEF Three!ASend, Three!ASends, ThreeInv, Stages, Three!ThreeStepTypeOK
<1>2. UNCHANGED <<bHeard3, Three!BClosed>>
  BY <1>1 DEF Three!bVars, Three!BClosed
<1>3. CASE aAt3' # "ended"
  BY <1>1, <1>2, <1>3, ThreeBRefuses
<1>4. CASE aAt3' = "ended"
  <2>1. [m1 |-> w1, m4 |-> w4, m5 |-> w5] \in [m1 : Text, m4 : Text, m5 : Text]
    BY <1>1
  <2>2. Three!BChallengesA!Answer
    BY <1>1, <1>2, <1>4, <2>1
       DEF Three!BChallengesA!Answer, Three!BChallengesA!Silence
  <2> QED BY <2>2 DEF Three!BChallengesA!CNext
<1> QED BY <1>3, <1>4

LEMMA ThreeAChallengeNext ==
  ASSUME ThreeInv, [Three!Next]_Three!vars
  PROVE  [Three!AChallengesB!CNext]_Three!AChallengesB!cvars
<1>1. CASE Three!AReadCipher
  BY <1>1, ThreeAAccepts
<1>2. CASE Three!BSend
  BY <1>2, ThreeBAnswers
<1>3. CASE Three!AConnect \/ Three!AReadText \/ Three!AType
  BY <1>3, ThreeARefuses
     DEF Three!AConnect, Three!AReadText, Three!AType, Three!bVars, Three!AClosed
<1>4. CASE Three!AHello \/ Three!ASend
  BY <1>4, ThreeARefuses
     DEF Three!AHello, Three!ASend, Three!ASends, Three!bVars, Three!AClosed
<1>5. CASE \/ Three!BAccept \/ Three!BReadNumber \/ Three!BReadHello
           \/ Three!BReadText \/ Three!BReadCipher
  <2>1. UNCHANGED <<aHeard3, bSent3, w2, w3, Three!AClosed>>
    BY <1>5 DEF Three!BAccept, Three!BReadNumber, Three!BReadHello, Three!BReadText,
                Three!BReadCipher, Three!aVars, Three!AClosed
  <2> QED BY <2>1, ThreeARefuses
<1>6. CASE Three!BType
  <2>1. bSent3 = 0 /\ bSent3' = 0 /\ UNCHANGED <<aHeard3, Three!AClosed>>
    BY <1>6 DEF Three!BType, ThreeInv, Stages, Three!aVars, Three!AClosed
  <2> QED BY <2>1, ThreeARefuses
<1>7. CASE Three!ADies \/ Three!BDies \/ UNCHANGED Three!vars
  <2>1. UNCHANGED <<aHeard3, bSent3, w2, w3>> /\ (Three!AClosed => Three!AClosed')
    BY <1>7 DEF Three!ADies, Three!BDies, Three!vars, Three!aVars, Three!bVars, Three!AClosed
  <2> QED BY <2>1, ThreeARefuses
<1> QED BY <1>1, <1>2, <1>3, <1>4, <1>5, <1>6, <1>7 DEF Three!Next, Three!A, Three!B

LEMMA ThreeBChallengeNext ==
  ASSUME ThreeInv, [Three!Next]_Three!vars
  PROVE  [Three!BChallengesA!CNext]_Three!BChallengesA!cvars
<1>1. CASE Three!BReadCipher
  BY <1>1, ThreeBAccepts
<1>2. CASE Three!ASend
  BY <1>2, ThreeAAnswers
<1>3. CASE \/ Three!AConnect \/ Three!AReadText \/ Three!AReadCipher \/ Three!AType
           \/ Three!AHello
  <2>1. aAt3 # "ended" /\ aAt3' # "ended" /\ UNCHANGED Three!bVars
    BY <1>3 DEF Three!AConnect, Three!AReadText, Three!AReadCipher, Three!AType,
                Three!AHello, Three!ASends
  <2>2. UNCHANGED <<bHeard3, Three!BClosed>>
    BY <2>1 DEF Three!bVars, Three!BClosed
  <2> QED BY <2>1, <2>2, ThreeBRefuses
<1>4. CASE \/ Three!BAccept \/ Three!BReadNumber \/ Three!BReadHello \/ Three!BType
           \/ Three!BSend \/ Three!BReadText
  <2>1. UNCHANGED <<aAt3, w1, w4, w5, bHeard3>> /\ ~Three!BClosed
    BY <1>4 DEF Three!BAccept, Three!BReadNumber, Three!BReadHello, Three!BType,
                Three!BSend, Three!BReadText, Three!aVars, Three!BClosed
  <2> QED BY <2>1, ThreeBRefuses
<1>5. CASE Three!ADies
  <2>1. aAt3 # "ended" /\ aAt3' # "ended" /\ UNCHANGED <<bHeard3, Three!BClosed>>
    BY <1>5 DEF Three!ADies, Three!AClosed, Three!bVars, Three!BClosed
  <2> QED BY <2>1, ThreeBRefuses
<1>6. CASE Three!BDies \/ UNCHANGED Three!vars
  <2>1. UNCHANGED <<aAt3, w1, w4, w5, bHeard3>> /\ (Three!BClosed => Three!BClosed')
    BY <1>6 DEF Three!BDies, Three!vars, Three!aVars, Three!BClosed
  <2> QED BY <2>1, ThreeBRefuses
<1> QED BY <1>1, <1>2, <1>3, <1>4, <1>5, <1>6 DEF Three!Next, Three!A, Three!B

\* ThreeStepIdentifies: the variables always have their types, and the two programs
\* implement Challenge in both directions.  Neither side accepts what the other has not
\* said to it in this run, whole, and after reading this side's number; and each then
\* has the texts that the other's user typed.
THEOREM ThreeStepIdentified == Three!Spec => ThreeStepIdentifies
<1>1. Three!Init => Three!AChallengesB!CInit /\ Three!BChallengesA!CInit
  BY ThreeChallengeInit
<1>2. ThreeInv /\ [Three!Next]_Three!vars
        => [Three!AChallengesB!CNext]_Three!AChallengesB!cvars
  BY ThreeAChallengeNext
<1>3. ThreeInv /\ [Three!Next]_Three!vars
        => [Three!BChallengesA!CNext]_Three!BChallengesA!cvars
  BY ThreeBChallengeNext
<1>4. ThreeInv => Three!ThreeStepTypeOK
  BY DEF ThreeInv
<1> QED BY <1>1, <1>2, <1>3, <1>4, ThreeStepAlways, PTL
        DEF Three!Spec, ThreeStepIdentifies, Three!ThreeStepIdentifies, Three!AChallengesB!CSpec,
            Three!BChallengesA!CSpec
=============================================================================
