--------------------------- MODULE OneTimePassword ---------------------------
(***************************************************************************)
(* What a server of one-time passwords promises, without sockets, buffers  *)
(* or hash functions.  The server keeps the index of the last password of  *)
(* the chain it has seen; a client is judged at most once, and a client is *)
(* accepted only for the password just below the index, which is thereby   *)
(* used up.                                                                *)
(***************************************************************************)
EXTENDS Integers

CONSTANTS Client,     \* the runs of the client program
          FirstIndex  \* index of the password the server is set up with

VARIABLES index,      \* index of the last password seen
          ruling      \* ruling[c]: "none", "accepted" or "refused"

avars == <<index, ruling>>

AInit == /\ index = FirstIndex
         /\ ruling = [c \in Client |-> "none"]

AAccept(c) == /\ ruling[c] = "none"
              /\ ruling' = [ruling EXCEPT ![c] = "accepted"]
              /\ index' = index - 1

ARefuse(c) == /\ ruling[c] = "none"
              /\ ruling' = [ruling EXCEPT ![c] = "refused"]
              /\ UNCHANGED index

ANext == \E c \in Client : AAccept(c) \/ ARefuse(c)

ASpec == AInit /\ [][ANext]_avars
=============================================================================
