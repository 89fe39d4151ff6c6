------------------------------- MODULE Chunks -------------------------------
(***************************************************************************)
(* How rsa.c and el_gamal.c, each with functions of its own, cut a text    *)
(* into chunks: the padding, and the number that a chunk is.               *)
(***************************************************************************)
EXTENDS Integers, Sequences

CONSTANTS
  Byte,      \* the values of a byte (256)
  CHUNKSIZE  \* bytes in a chunk (32)

pkcs7_pad(data) == LET pad_len == CHUNKSIZE - (Len(data) % CHUNKSIZE)
                   IN  data \o [i \in 1 .. pad_len |-> pad_len]

Chunks(padded) == Len(padded) \div CHUNKSIZE
Chunk(padded, j) == SubSeq(padded, (j - 1) * CHUNKSIZE + 1, j * CHUNKSIZE)

\* The number that bytes are, highest byte first, and the bytes of a chunk.
Number(bytes) ==
  LET sum[i \in 0 .. Len(bytes)] == IF i = 0 THEN 0 ELSE sum[i - 1] * Byte + bytes[i]
  IN  sum[Len(bytes)]
Bytes(m) == [i \in 1 .. CHUNKSIZE |-> (m \div (Byte ^ (CHUNKSIZE - i))) % Byte]

\* pkcs7_unpad(): copies nothing when the padding is not whole.
LastByte(padded) == padded[Len(padded)]
Whole(padded) ==
  /\ padded # <<>>
  /\ \A i \in Len(padded) - LastByte(padded) + 1 .. Len(padded) :
       padded[i] = LastByte(padded)
Unpadded(padded) == IF Whole(padded) THEN SubSeq(padded, 1, Len(padded) - LastByte(padded))
                    ELSE <<>>
=============================================================================
