------------------------------- MODULE Stream -------------------------------
(***************************************************************************)
(* What the programs of src/id2 rely on of a connected SOCK_STREAM socket. *)
(*                                                                         *)
(* One direction of a connection is a sequence of tokens in the order they *)
(* were sent.  A token is a piece of a message that the receiving code     *)
(* tells apart (a name with its '|', a number, a hash, a verdict).  The    *)
(* boundaries of the send() calls are not kept, because a stream does not  *)
(* keep them: what two sends wrote may come out of one recv.               *)
(*                                                                         *)
(* tearing = FALSE is the loopback interface all the programs are built    *)
(* for (every client connects to 127.0.0.1): a send() puts all its bytes   *)
(* in the receiver's queue at once, and a recv() takes everything that is  *)
(* there, up to its limit.  tearing = TRUE is everything a stream socket   *)
(* may do: a recv() returns any non-empty prefix of what was sent.         *)
(***************************************************************************)
EXTENDS Naturals, Sequences

\* The numbers of tokens one recv() with room for max tokens may return when
\* q # <<>> is on its way to it.
RecvLens(q, max, tearing) ==
  LET most == IF Len(q) < max THEN Len(q) ELSE max
  IN  IF tearing THEN 1 .. most ELSE {most}

\* What a recv() of n tokens returns, and what it leaves in the socket.
Received(q, n) == SubSeq(q, 1, n)
Unread(q, n)   == SubSeq(q, n + 1, Len(q))
=============================================================================
