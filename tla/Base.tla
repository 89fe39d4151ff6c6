-------------------------------- MODULE Base --------------------------------
(***************************************************************************)
(* base.c: Base64 and Base32.  A code is how many octets make a group, how *)
(* many digits a group is written with, and how many bits a digit has.     *)
(* A digit stands for its letter; "=" and the end of a line are Pad and    *)
(* EndOfLine.                                                              *)
(***************************************************************************)
EXTENDS Integers, Sequences, SequencesExt

Pad == 64
EndOfLine == 65

base64 == [octets |-> 3, digits |-> 4, bits |-> 6]
base32 == [octets |-> 5, digits |-> 8, bits |-> 5]

\* BASE64 has a second "g" in the place of "j" (digit 35 is written as digit
\* 32), and the inverse table keeps the last digit of a letter.
Letter(code, d)  == IF code = base64 /\ d = 35 THEN 32 ELSE d
Inverse64(letter) == IF letter = 32 THEN 35 ELSE letter

\* char is signed.
Signed(octet) == IF octet > 127 THEN octet - 256 ELSE octet

-----------------------------------------------------------------------------
(* Chunks: numbers of more than 32 bits, kept as octets or digits.         *)

\* The place values of (v[1] << w*(n-1)) + ... + v[n] modulo 2^(w*n), for values
\* that may be negative or too large.
Carried(v, w) ==
  LET n == Len(v)
      carry[k \in 1 .. n] == IF k = n THEN 0 ELSE (v[k + 1] + carry[k + 1]) \div 2^w
  IN  [k \in 1 .. n |-> (v[k] + carry[k]) % 2^w]

BitsOf(values, w) == [i \in 1 .. Len(values) * w |->
                      (values[((i - 1) \div w) + 1] \div 2^(w - 1 - ((i - 1) % w))) % 2]
Values(bits, w) == [k \in 1 .. Len(bits) \div w |->
                      FoldLeft(LAMBDA v, b : 2 * v + b, 0,
                               SubSeq(bits, (k - 1) * w + 1, k * w))]

-----------------------------------------------------------------------------
(* Encoding.                                                               *)

\* (Slip: the digit that holds the last bits is left out.)
LastDigit_Less(code, size) ==
  LET rest == size % code.octets
  IN  IF rest = 0 THEN code.digits ELSE (rest * 8) \div code.bits

\* How many digits of the last group are written: the rest is "=".
LastDigit(code, size) ==
  LET rest == size % code.octets
  IN  IF rest = 0 THEN code.digits ELSE ((rest * 8) \div code.bits) + 1

Encode(code, data) ==
  LET groups == (Len(data) + code.octets - 1) \div code.octets
      Octets(g) == [k \in 1 .. code.octets |->
                      LET i == (g - 1) * code.octets + k
                      IN  IF i <= Len(data) THEN Signed(data[i]) ELSE 0]
      Digits(g) == Values(BitsOf(Carried(Octets(g), 8), 8), code.bits)
      Written(g) == [k \in 1 .. code.digits |->
                       IF g = groups /\ k > LastDigit(code, Len(data)) THEN Pad
                       ELSE Letter(code, Digits(g)[k])]
  IN  FlattenSeq([g \in 1 .. groups |-> Written(g)])

-----------------------------------------------------------------------------
(* Decoding.                                                               *)

\* The entries of the table that were never set are rest.
InverseOf(code, letter, rest) ==
  IF letter \in {Pad, EndOfLine} THEN rest
  ELSE IF code = base64 THEN Inverse64(letter) ELSE letter

\* Every group is stored as a whole; a last group that is not complete keeps
\* digits of the group before, and has no defined digits to keep when it is the
\* first one.
Decode(code, text, rest) ==
  LET groups == (Len(text) + code.digits - 1) \div code.digits
      Digit(i) == IF i <= Len(text) THEN InverseOf(code, text[i], rest)
                  ELSE IF i > code.digits THEN InverseOf(code, text[i - code.digits], rest)
                  ELSE rest
      Digits(g) == [k \in 1 .. code.digits |-> Digit((g - 1) * code.digits + k)]
      Octets(g) == Values(BitsOf(Carried(Digits(g), code.bits), code.bits), 8)
  IN  FlattenSeq([g \in 1 .. groups |-> Octets(g)])

-----------------------------------------------------------------------------
(* RFC 4648, over the bits of the whole text.                              *)

Reference(code, data) ==
  LET bits   == BitsOf(data, 8)
      digits == (Len(bits) + code.bits - 1) \div code.bits
      full   == bits \o [i \in 1 .. digits * code.bits - Len(bits) |-> 0]
      groups == (digits + code.digits - 1) \div code.digits
  IN  Values(full, code.bits) \o [i \in 1 .. groups * code.digits - digits |-> Pad]

\* Octets that are not negative, but for the first of a group.
Plain(code, data) ==
  \A i \in 1 .. Len(data) : data[i] < 128 \/ i % code.octets = 1

\* What base.c writes is the reference where no octet but the first of a group is
\* negative, and the reference has no "j"; and nowhere else.
EncodesAsReference(code, data) ==
  LET reference == Reference(code, data)
  IN  Encode(code, data) = reference <=>
        Plain(code, data) /\ ~(code = base64 /\ 35 \in Range(reference))

\* The spare bits of the last digit before the "=", as they are read, and what the
\* digits that "=" stands for carry into it.
Spare(code, digits, pads) ==
  LET last == digits[Len(digits) - pads]
      bits == (Len(digits) - pads) * code.bits - 8 * (((Len(digits) - pads) * code.bits) \div 8)
  IN  [bits |-> bits,
       value |-> (IF code = base64 THEN Inverse64(last) ELSE last) % 2^bits]
Spill(code, rest, pads) ==
  LET spill[k \in 0 .. pads] ==
        IF k = 0 THEN 0 ELSE (rest + spill[k - 1]) \div 2^code.bits
  IN  spill[pads]

\* base.c reads back what it wrote, and then what is left of the last group and of
\* the end of the line that getline() leaves on the text, where no octet but the
\* first of a group is negative, no digit is the "g" it reads as "j" (but for the
\* spare bits of the last one), and the spare bits take what the table happens to
\* hold for "="; and nowhere else.
ReadsBack(code, data, rest) ==
  LET reference == Reference(code, data)
      pads  == Cardinality({i \in DOMAIN reference : reference[i] = Pad})
      Twice == {i \in DOMAIN reference : reference[i] = 32}
      spare == Spare(code, reference, pads)
  IN  (\A end \in {<<>>, <<EndOfLine>>} :
         IsPrefix(data, Decode(code, Encode(code, data) \o end, rest))) <=>
        /\ Plain(code, data)
        /\ code = base64 => Twice \subseteq (IF pads = 0 THEN {} ELSE {Len(reference) - pads})
        /\ pads > 0 => spare.value + Spill(code, rest, pads) \in 0 .. 2^spare.bits - 1
=============================================================================
