------------------------------- MODULE Framing -------------------------------
(***************************************************************************)
(* How the identification programs of src/id2 lay out a message: a text in *)
(* clear, "|", and an encrypted part, in three send() calls; and how they  *)
(* take it apart: byte by byte up to the first '|', then one recv() of     *)
(* 1024 bytes that aes_decrypt() gets as a whole, then strings that end at *)
(* the first zero byte.                                                    *)
(*                                                                         *)
(* A text that a user types is a sequence of pieces, so that it may hold   *)
(* a "|" of its own.  The piece "fill" is one that, with the zero byte and *)
(* the '|' that follow it, fills the blocks of the cipher: ECB then        *)
(* decrypts what comes after it as if it stood alone.                      *)
(***************************************************************************)
EXTENDS Naturals, Stream

CONSTANTS Text,    \* what users may type
          Crashes  \* whether the programs may be killed

\* What travels in clear, and what aes_encrypt() makes of a plaintext.
Clear(s)   == [i \in 1 .. Len(s) |-> [kind |-> s[i]]]
Cipher(p)  == [kind |-> "cipher", plain |-> p]

\* The three send() calls of a message.
Sends(text, p) == << Clear(Append(text, "NUL")), Clear(<<"|">>), <<Cipher(p)>> >>

Bar == [kind |-> "|"]
HasBar(q)   == \E i \in 1 .. Len(q) : q[i] = Bar
FirstBar(q) == CHOOSE i \in 1 .. Len(q) :
                 q[i] = Bar /\ \A k \in 1 .. i - 1 : q[k] # Bar
AfterBar(q) == Unread(q, FirstBar(q))

\* A string ends at a zero byte; the eight bytes of a time hold zero bytes too.
Ends == {"NUL", "time"}
\* What a user types is used as a string (strlen(), strcpy()): it has no zero byte, and
\* no piece of it stands for an encrypted part.
Typeable(text) == /\ text \in Seq(STRING)
                  /\ \A i \in 1 .. Len(text) : text[i] \notin Ends \cup {"cipher"}
ASSUME FramingConstants == (\A text \in Text : Typeable(text)) /\ Crashes \in BOOLEAN

EndOf(s) == CHOOSE i \in 1 .. Len(s) : s[i] \in Ends /\ \A k \in 1 .. i - 1 : s[k] \notin Ends
StringAt(s) ==
  IF \A i \in 1 .. Len(s) : s[i] \notin Ends THEN s
  ELSE SubSeq(s, 1, IF s[EndOf(s)] = "NUL" THEN EndOf(s) - 1 ELSE EndOf(s))
\* The string that starts one byte after the end of the string s starts with.
StringAfter(s) ==
  IF s[EndOf(s)] = "NUL" THEN StringAt(SubSeq(s, EndOf(s) + 1, Len(s))) ELSE <<>>

\* What the bytes before the first '|' print as.
TextBefore(q) ==
  LET before == SubSeq(q, 1, IF HasBar(q) THEN FirstBar(q) - 1 ELSE Len(q))
  IN  StringAt([i \in 1 .. Len(before) |-> before[i].kind])

\* aes_decrypt() of what one recv() returned.  It ends the program unless the
\* padding is right, which only the end of an encryption has; junk stands for
\* what a block that was never encrypted decrypts to.
Filled(q) == /\ Len(q) = 4 /\ q[1] = [kind |-> "fill"] /\ q[3] = Bar
             /\ q[4].kind = "cipher"
Decrypts(q) == Filled(q) \/ (Len(q) = 1 /\ q[1].kind = "cipher")
aes_decrypt(q, junk) == IF Filled(q) THEN junk \o q[4].plain ELSE q[1].plain
=============================================================================
