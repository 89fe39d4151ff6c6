--------------------------------- MODULE Sha ---------------------------------
(***************************************************************************)
(* sha.c: what sha256() feeds to its compression function, and hmac.c,     *)
(* which is built on it.  The compression function is ideal: two hashes    *)
(* are equal when the bytes that were compressed are.                      *)
(*                                                                         *)
(* A byte is a pair: <<"value", n>> for a byte with a known value, or a    *)
(* name and a place for a byte that may have any.                          *)
(***************************************************************************)
EXTENDS Integers, Sequences

Block    == 64  \* bytes that are compressed at once
LengthAt == 56  \* 448 / 8: where the length goes
LenSize  == 8   \* its size

ByteOf(n) == <<"value", n>>
Bytes(name, len) == [i \in 1 .. len |-> <<name, i>>]

\* The loop adds a block until k is not negative.
calc_n_of_zeroes(len) == (LengthAt - len - 1) % Block

PaddedLen(len) == len + 1 + calc_n_of_zeroes(len) + LenSize

\* write_len() shifts a number of 64 bits by up to 120, which the processor
\* takes modulo 64: the first eight bytes, of which Pad() copies LenSize, are
\* the length in bits, highest byte first.  (TLC counts to 2^31.)
write_len(bits) ==
  [i \in 1 .. 16 |-> LET shift == (8 * (16 - i)) % 64
                     IN  ByteOf(IF shift > 24 THEN 0 ELSE (bits \div 2^shift) % 256)]

Pad(data) ==
  data \o <<ByteOf(128)>> \o [i \in 1 .. calc_n_of_zeroes(Len(data)) |-> ByteOf(0)]
       \o SubSeq(write_len(8 * Len(data)), 1, LenSize)

\* (Slip: the last block of the loop is left out.)
HashedBlocks_Less(len) == len \div Block

\* How many blocks sha256() goes through.
HashedBlocks(len) == (len \div Block) + 1

\* What sha256() compresses.
sha256(data) == SubSeq(Pad(data), 1, HashedBlocks(Len(data)) * Block)

\* What FIPS 180-4 says: the message, a one bit, the least number of zero bits that
\* leaves room for the length in the last block, and the length, all of it hashed.
Reference(data) ==
  LET len   == Len(data)
      zeros == CHOOSE k \in 0 .. Block - 1 : (len + 1 + k + LenSize) % Block = 0
      high  == [i \in 1 .. LenSize - 3 |-> ByteOf(0)]
  IN  data \o <<ByteOf(128)>> \o [i \in 1 .. zeros |-> ByteOf(0)] \o high
           \o << ByteOf((8 * len) \div 65536), ByteOf(((8 * len) \div 256) % 256),
                 ByteOf((8 * len) % 256) >>

-----------------------------------------------------------------------------
(* HMAC().  inner and outer are what the two calls of sha256() compress.   *)

\* sha256() leaves words in memory, lowest byte first.
InMemory(name) == [i \in 1 .. 32 |-> <<name, 4 * ((i - 1) \div 4) + 4 - ((i - 1) % 4)>>]
\* (Slip: the words are copied as they are.)
OMessage_Memory(name) == InMemory(name)
\* The loop turns the words of the inner hash.
OMessage(name) == [i \in 1 .. 32 |-> InMemory(name)[4 * ((i - 1) \div 4) + 4 - ((i - 1) % 4)]]

Zeros(n) == [i \in 1 .. n |-> ByteOf(0)]
Xored(pad, k) == [i \in 1 .. Block |-> <<pad, k[i]>>]

\* With a key between a block and 256 bytes the memset() after it has a
\* negative length and ends the program.
Crashes(keylen) == keylen > Block /\ keylen <= 256
Key(keylen) == IF keylen > 256 THEN InMemory("keyhash") \o Zeros(32)
               ELSE Bytes("key", keylen) \o Zeros(Block - keylen)

HMAC(keylen, m) ==
  [key   |-> IF keylen > 256 THEN sha256(Bytes("key", keylen)) ELSE <<>>,
   inner |-> sha256(Xored("ipad", Key(keylen)) \o m),
   outer |-> sha256(Xored("opad", Key(keylen)) \o OMessage("inner"))]

\* RFC 2104: a key longer than a block is hashed.
ReferenceKey(keylen) ==
  IF keylen > Block THEN Bytes("keyhash", 32) \o Zeros(32)
  ELSE Bytes("key", keylen) \o Zeros(Block - keylen)
ReferenceHMAC(keylen, m) ==
  [key   |-> IF keylen > Block THEN Reference(Bytes("key", keylen)) ELSE <<>>,
   inner |-> Reference(Xored("ipad", ReferenceKey(keylen)) \o m),
   outer |-> Reference(Xored("opad", ReferenceKey(keylen)) \o Bytes("inner", 32))]

-----------------------------------------------------------------------------
(* Properties.                                                             *)

\* The blocks sha256() goes through lie in what Pad() wrote, and are all of it exactly
\* when the length has room in the block of the last bytes.  Otherwise the block
\* with the length is left out.
Fits(len) == len % Block < LengthAt
BlocksInside(len) ==
  /\ PaddedLen(len) % Block = 0
  /\ HashedBlocks(len) * Block <= PaddedLen(len)
  /\ HashedBlocks(len) * Block = PaddedLen(len) <=> Fits(len)

\* So sha256() hashes the first blocks of what it should, which are all of them
\* exactly for these lengths.
ShaReads(len) ==
  LET data == Bytes("m", len) IN
  /\ BlocksInside(len)
  /\ sha256(data) = SubSeq(Reference(data), 1, Len(sha256(data)))
  /\ sha256(data) = Reference(data) <=> Fits(len)

\* HMAC() is the standard's exactly for keys up to a block and messages whose inner
\* hash is.
HmacReads(keylen, len) ==
  ~Crashes(keylen) =>
    (HMAC(keylen, Bytes("m", len)) = ReferenceHMAC(keylen, Bytes("m", len))
       <=> keylen <= Block /\ Fits(len))
=============================================================================
