----------------------------- MODULE PublicKeyId -----------------------------
(***************************************************************************)
(* Identification with B's public key (src/id2): runs of client_a_asm.c,   *)
(* each of which sends h(z), its name and E(A, z) for a random z, and the  *)
(* one run of client_b_asm.c, which serves the first of them: it decrypts, *)
(* compares the names and h(z), and sends z back.                          *)
(*                                                                         *)
(* A message is five tokens: the hash, "|A|", and an encryption in three   *)
(* chunks; z itself travels as two halves.  Hash and encryption are ideal; *)
(* what is kept of rsa_decode() is that its result is a string.            *)
(***************************************************************************)
EXTENDS Naturals, Sequences, Stream

CONSTANTS
  Client,     \* runs of client_a_asm.c
  Nobody,     \* no connection was accepted
  Number,     \* the values z may have
  ZeroAt,     \* ZeroAt[n]: where the first zero byte of n is
  Junk,       \* bytes that are no z
  Backlog     \* connections that may wait for accept()

ASSUME PkConstants ==
  /\ Nobody \notin Client
  /\ Junk \notin Number
  /\ ZeroAt \in [Number -> {"nowhere", "inside", "last"}]
  /\ Backlog \in Nat \ {0}

VARIABLES
  z,          \* z[c]: the number of c
  at,         \* at[c]: where c is
  received_z, \* received_z[c]: what c has compared with z
  toB, toA,   \* toB[c], toA[c]: the two directions of c's connection
  queue,      \* connections waiting for accept()
  serverAt,   \* where B is
  new_socket, \* the client B serves, or Nobody
  answered,   \* the numbers B has sent
  tearing,    \* whether a recv() may return less than was sent
  behind,     \* what B's stack holds behind the bytes received
  paired      \* whether A's pub_key_B.pem belongs to B's priv_key_B.pem

clientVars == <<z, at, received_z>>
serverVars == <<queue, serverAt, new_socket, answered>>
memVars == <<tearing, behind, paired>>
pkVars == <<clientVars, serverVars, memVars, toB, toA>>

Closed(c)    == at[c] \in {"accepted", "failed", "dead"}
ServerClosed == serverAt \in {"ended", "failed", "dead"}

-----------------------------------------------------------------------------
(* Messages.                                                               *)

sha256(n) == [hash |-> n]
Message(n) == <<sha256(n), "|A|", [chunk |-> 1, of |-> n],
                [chunk |-> 2, of |-> n], [chunk |-> 3, of |-> n]>>
Halves(n) == <<[half |-> 1, of |-> n], [half |-> 2, of |-> n]>>

PkInit ==
  /\ z \in [Client -> Number]
  /\ at = [c \in Client |-> "start"]
  /\ received_z = [c \in Client |-> Junk]
  /\ toB = [c \in Client |-> <<>>] /\ toA = [c \in Client |-> <<>>]
  /\ queue = <<>> /\ serverAt = "accept" /\ new_socket = Nobody /\ answered = {}
  /\ tearing \in BOOLEAN
  /\ behind \in {"end", "digits"}
  /\ paired \in BOOLEAN

-----------------------------------------------------------------------------
(* A.                                                                      *)

\* connect(): B listens until it ends.
Connect(c) ==
  /\ at[c] = "start"
  /\ \/ /\ ~ServerClosed /\ Len(queue) < Backlog
        /\ queue' = Append(queue, c)
        /\ at' = [at EXCEPT ![c] = "connected"]
     \/ /\ ServerClosed
        /\ at' = [at EXCEPT ![c] = "failed"]
        /\ UNCHANGED queue
  /\ UNCHANGED <<z, received_z, toB, toA, serverAt, new_socket, answered, memVars>>

\* One send(), which goes through or breaks when B is gone.
Send(c) ==
  /\ at[c] = "connected"
  /\ \/ /\ ~ServerClosed
        /\ toB' = [toB EXCEPT ![c] = Message(z[c])]
        /\ at' = [at EXCEPT ![c] = "sent"]
     \/ /\ ServerClosed
        /\ at' = [at EXCEPT ![c] = "failed"]
        /\ UNCHANGED toB
  /\ UNCHANGED <<z, received_z, toA, serverVars, memVars>>

\* recv() of 32 bytes, and memcmp() of all of them.
RecvZ(c) ==
  /\ at[c] = "sent" /\ toA[c] # <<>>
  /\ \E k \in RecvLens(toA[c], 2, tearing) :
       LET right == k = 2 /\ toA[c] = Halves(z[c])
       IN  /\ at' = [at EXCEPT ![c] = IF right THEN "accepted" ELSE "failed"]
           /\ received_z' = IF right THEN [received_z EXCEPT ![c] = z[c]] ELSE received_z
  /\ toA' = [toA EXCEPT ![c] = <<>>]
  /\ UNCHANGED <<z, toB, serverVars, memVars>>

\* (Slip: recv() writes into z itself, and what it returned is not looked at.)
RecvNothing_Over(c) ==
  /\ at[c] = "sent" /\ toA[c] = <<>> /\ ServerClosed
  /\ at' = [at EXCEPT ![c] = "accepted"]
  /\ received_z' = [received_z EXCEPT ![c] = z[c]]
  /\ UNCHANGED <<z, toB, toA, serverVars, memVars>>

\* recv() at the end of the connection.
RecvNothing(c) ==
  /\ at[c] = "sent" /\ toA[c] = <<>> /\ ServerClosed
  /\ at' = [at EXCEPT ![c] = "failed"]
  /\ UNCHANGED <<z, received_z, toB, toA, serverVars, memVars>>

ClientDies(c) ==
  /\ at[c] \in {"connected", "sent"}
  /\ at' = [at EXCEPT ![c] = "dead"]
  /\ UNCHANGED <<z, received_z, toB, toA, serverVars, memVars>>

-----------------------------------------------------------------------------
(* B.                                                                      *)

ServerAccepts ==
  /\ serverAt = "accept" /\ queue # <<>>
  /\ new_socket' = Head(queue) /\ queue' = Tail(queue)
  /\ serverAt' = "recv"
  /\ UNCHANGED <<clientVars, answered, toB, toA, memVars>>

\* recv() returned 0: handle_error() ends B.
RecvEOF ==
  /\ serverAt = "recv" /\ toB[new_socket] = <<>> /\ at[new_socket] = "dead"
  /\ serverAt' = "failed"
  /\ UNCHANGED <<clientVars, queue, new_socket, answered, toB, toA, memVars>>

\* The 32 bytes B takes for z out of the msg tokens it received.  Of a whole
\* message it decrypts what A encrypted, unless the keys are of two pairs or the
\* bytes behind the message look like another chunk (strtok() goes on to the
\* next zero byte); what it decrypted is copied as a string, and behind the first
\* zero byte of z, unless that is the last byte, memory is read.  A wrong padding
\* leaves memory too.
\* (Slip: the check of dec_data_len that is commented out.)
ZRead_Checked(msg, n) ==
  IF ~paired \/ Len(msg) < Len(Message(n)) \/ behind # "end" \/ ZeroAt[n] # "nowhere"
  THEN {Junk} ELSE {n}

ZRead(msg, n) ==
  IF ~paired THEN {Junk}
  ELSE IF Len(msg) < Len(Message(n)) \/ behind # "end" \/ ZeroAt[n] = "inside"
  THEN {n, Junk} ELSE {n}

\* (Slip: h(z) is not compared.)
HashMatches_Any(msg, n) == TRUE

HashMatches(msg, n) == msg[1] = sha256(n)

\* recv(), the checks and send(), of which only recv() waits.  B ends early when
\* the message stops before the name or a check fails, and may crash: the
\* text is longer than the memory it is copied to.  Closing a socket with unread
\* bytes resets the connection, and z may be lost with it.
Serve ==
  /\ serverAt = "recv" /\ toB[new_socket] # <<>>
  /\ \E k \in RecvLens(toB[new_socket], 5, tearing) :
       LET msg == Received(toB[new_socket], k)
           cut == k < Len(toB[new_socket])
       IN  \/ \E n \in ZRead(msg, z[new_socket]) :
                /\ k >= 2 /\ HashMatches(msg, n)
                /\ answered' = answered \cup {n}
                /\ \/ toA' = [toA EXCEPT ![new_socket] = Halves(n)]
                   \/ cut /\ UNCHANGED toA
                /\ serverAt' = "ended"
           \/ /\ \/ k < 2 \/ cut \/ behind # "end"
                 \/ \E n \in ZRead(msg, z[new_socket]) : ~HashMatches(msg, n)
              /\ serverAt' = "failed"
              /\ UNCHANGED <<answered, toA>>
           \/ /\ serverAt' = "dead"
              /\ UNCHANGED <<answered, toA>>
  /\ toB' = [toB EXCEPT ![new_socket] = <<>>]
  /\ UNCHANGED <<clientVars, queue, new_socket, memVars>>

ServerDies ==
  /\ serverAt \in {"accept", "recv"}
  /\ serverAt' = "dead"
  /\ UNCHANGED <<clientVars, queue, new_socket, answered, toB, toA, memVars>>

-----------------------------------------------------------------------------
ClientRuns(c) == Send(c) \/ RecvZ(c) \/ RecvNothing(c)
ServerRuns    == ServerAccepts \/ RecvEOF \/ Serve

PkNext == \/ \E c \in Client : Connect(c) \/ ClientRuns(c) \/ ClientDies(c)
          \/ ServerRuns \/ ServerDies

PkSpec == PkInit /\ [][PkNext]_pkVars

\* A client that has connected and B run; nobody has to connect.
PkFairSpec == PkSpec /\ WF_pkVars(ServerRuns) /\ \A c \in Client : WF_pkVars(ClientRuns(c))

-----------------------------------------------------------------------------
(* Properties.                                                             *)

\* The variables have their types.
PkTypeOK ==
  /\ z \in [Client -> Number] /\ received_z \in [Client -> Number \cup {Junk}]
  /\ at \in [Client -> {"start", "connected", "sent", "accepted", "failed", "dead"}]
  /\ toB \in [Client -> {<<>>} \cup {Message(n) : n \in Number}]
  /\ \A c \in Client : toB[c] \in {<<>>, Message(z[c])}
  /\ toA \in [Client -> {<<>>} \cup {Halves(n) : n \in Number \cup {Junk}}]
  /\ queue \in Seq(Client) /\ new_socket \in Client \cup {Nobody}
  /\ serverAt \in {"accept", "recv", "ended", "failed", "dead"}
  /\ answered \subseteq Number \cup {Junk}
  /\ tearing \in BOOLEAN /\ behind \in {"end", "digits"} /\ paired \in BOOLEAN

\* The variables have their types, and B has sent nothing but the number of the
\* client it serves, with the private key, whatever part of the message it received
\* and whatever its memory held: a number that was read wrong is never sent
\* (client_b_asm.c:83), nor is anything sent to a client that was not served.
PkInv ==
  /\ PkTypeOK
  /\ answered # {} => serverAt = "ended" /\ paired /\ answered = {z[new_socket]}
  /\ \A c \in Client :
       toA[c] # <<>> => c = new_socket /\ answered # {} /\ toA[c] = Halves(z[c])

\* Each client accepts only a B that has decrypted its number: what it accepts
\* was sent, and sent to it.
Said(c)  == IF c = new_socket THEN answered ELSE {}
Ruling(c) == IF at[c] = "accepted" THEN "accepted"
             ELSE IF Closed(c) THEN "refused" ELSE "none"
Heard(c) == IF at[c] = "accepted" THEN {received_z[c]} ELSE {}
AsksB(c) == INSTANCE Challenge
  WITH Texts <- Number, said <- Said(c), verdict <- Ruling(c), heard <- Heard(c)
PkIdentifies ==
  /\ \A c \in Client : AsksB(c)!CInit
  /\ [][\A c \in Client : [AsksB(c)!CNext]_(AsksB(c)!cvars)]_pkVars

\* Every client that has connected ends, whoever is killed; and where nobody is,
\* the keys are a pair, the message arrives whole and nothing lies behind it, the
\* client B serves accepts, unless its number has a zero byte before the last.
PkCompletes ==
  /\ \A c \in Client : at[c] = "connected" ~> Closed(c)
  /\ [](/\ serverAt # "dead" /\ paired /\ ~tearing /\ behind = "end"
        /\ \A c \in Client : at[c] # "dead")
       => \A c \in Client :
            new_socket = c ~> at[c] = "accepted" \/ ZeroAt[z[c]] = "inside"
=============================================================================
