------------------------------- MODULE Stribog -------------------------------
(***************************************************************************)
(* stribog.c and stri.c: the Streebog hash, as a buffer that Update()      *)
(* fills and Stage2() and Stage3() empty.  The compression function G() is *)
(* ideal: a hash is the sequence of its calls.  Sigma, the sum of the      *)
(* blocks, is determined by them.                                          *)
(*                                                                         *)
(* The bytes of the message are their places; 0 stands for a zero byte and *)
(* One for the byte that starts the padding.                               *)
(***************************************************************************)
EXTENDS Integers, Sequences, FiniteSetsExt

BLOCK_SIZE == 64
One == -1

\* calls are the blocks G() was called with, and N before each of them.
Init == [buffer |-> [i \in 1 .. BLOCK_SIZE |-> 0], buf_size |-> 0,
         N |-> 0, calls |-> <<>>]

\* What sets the two programs apart: whether the data pointer moves on, and
\* whether Padding() clears the whole buffer behind the bytes in it.
stribog == [moves |-> FALSE, clears |-> TRUE]
stri    == [moves |-> TRUE,  clears |-> FALSE]

Stage2(ctx) ==
  [ctx EXCEPT !.calls = Append(@, [N |-> ctx.N, m |-> ctx.buffer]),
              !.N = @ + 8 * BLOCK_SIZE, !.buf_size = 0]

RECURSIVE Update(_, _, _, _)
Update(program, ctx, data, len) ==
  IF len = 0 THEN ctx
  ELSE LET size   == ctx.buf_size
           chunk  == Min({BLOCK_SIZE - size, len})
           filled == [ctx EXCEPT
             !.buffer = [i \in 1 .. BLOCK_SIZE |->
                           IF i \in size + 1 .. size + chunk THEN data + i - size ELSE @[i]],
             !.buf_size = size + chunk]
       IN  Update(program,
                  IF filled.buf_size = BLOCK_SIZE THEN Stage2(filled) ELSE filled,
                  IF program.moves THEN data + chunk ELSE data,
                  len - chunk)

\* (Slip: the buffer is as it was behind the bytes in it.)
Padding_Kept(program, ctx) == [ctx.buffer EXCEPT ![ctx.buf_size + 1] = One]

\* stri.c leaves the last byte of the buffer as it is.
Padding(program, ctx) ==
  [i \in 1 .. BLOCK_SIZE |->
     IF i <= ctx.buf_size THEN ctx.buffer[i]
     ELSE IF i = ctx.buf_size + 1 THEN One
     ELSE IF i = BLOCK_SIZE /\ ~program.clears THEN ctx.buffer[i]
     ELSE 0]

\* What the hash is made from: the calls of G(), and N in the last but one.
Stage3(program, ctx) ==
  [calls |-> Append(ctx.calls, [N |-> ctx.N, m |-> Padding(program, ctx)]),
   N |-> ctx.N + 8 * ctx.buf_size]

Hash(program, len) == Stage3(program, Update(program, Init, 0, len))

\* GOST R 34.11-2012: blocks of the message in their order, the last one, with
\* fewer than BLOCK_SIZE bytes of it, padded; N is what was hashed before.
\* Byte(i) is the i-th byte of the message.
Reference(Byte(_), len) ==
  LET blocks == len \div BLOCK_SIZE
      At(b, i) == (b - 1) * BLOCK_SIZE + i
  IN  [calls |-> [b \in 1 .. blocks + 1 |->
                    [N |-> 8 * BLOCK_SIZE * (b - 1),
                     m |-> [i \in 1 .. BLOCK_SIZE |->
                              IF At(b, i) <= len THEN Byte(At(b, i))
                              ELSE IF At(b, i) = len + 1 THEN One ELSE 0]]],
       N |-> 8 * len]

-----------------------------------------------------------------------------
(* Properties.                                                             *)

\* stribog.c hashes the message whose every block is its first bytes again, which
\* is the message itself exactly up to one block; stri.c hashes the message
\* exactly when no earlier block left a byte at the end of the buffer, or when the
\* padding starts there.
StribogReads(len) ==
  LET Itself(i)  == i
      Again(i)  == ((i - 1) % BLOCK_SIZE) + 1
  IN  /\ Hash(stribog, len) = Reference(Again, len)
      /\ Hash(stribog, len) = Reference(Itself, len) <=> len <= BLOCK_SIZE
      /\ Hash(stri, len) = Reference(Itself, len)
           <=> len < BLOCK_SIZE \/ len % BLOCK_SIZE = BLOCK_SIZE - 1
=============================================================================
