-------------------------- MODULE PublicKeyIdProofs --------------------------
(***************************************************************************)
(* Theorems about PublicKeyId, for any clients, numbers and queue, any     *)
(* splitting of messages and whatever B's memory holds.                    *)
(*                                                                         *)
(* PkInv is not inductive: that a client is answered once, and is the one  *)
(* B reads from, is what Serving and Accepted add.                         *)
(***************************************************************************)
EXTENDS PublicKeyId, SequenceTheorems, TLAPS

\* B has sent nothing before it ends, it serves a client while it reads, and it
\* sends to that client.
Serving ==
  /\ serverAt = "recv" => new_socket \in Client
  /\ serverAt # "ended" => answered = {}
  /\ answered # {} => new_socket \in Client

\* Who has accepted is the client B served, and compared its own number.
Accepted ==
  \A c \in Client : at[c] = "accepted" =>
    c = new_socket /\ answered = {z[c]} /\ received_z[c] = z[c]

PkIInv == PkInv /\ Serving /\ Accepted

\* What B has sent, and what is on its way.
Answered ==
  /\ answered # {} => serverAt = "ended" /\ paired /\ answered = {z[new_socket]}
  /\ \A c \in Client :
       toA[c] # <<>> => c = new_socket /\ answered # {} /\ toA[c] = Halves(z[c])

LEMMA PkInvParts == PkInv <=> PkTypeOK /\ Answered
BY DEF PkInv, Answered

-----------------------------------------------------------------------------
(* One recv() of B.                                                        *)

\* The only number whose hash is that of the message is the message's.
LEMMA HashIsOfItsNumber ==
  ASSUME NEW n, NEW m, NEW k \in 1 .. 5,
         HashMatches(Received(Message(n), k), m)
  PROVE  m = n
<1> DEFINE Token == {sha256(n), "|A|", [chunk |-> 1, of |-> n],
                     [chunk |-> 2, of |-> n], [chunk |-> 3, of |-> n]}
<1>1. Message(n) \in Seq(Token) /\ Len(Message(n)) = 5 /\ Message(n)[1] = sha256(n)
  BY DEF Message
<1> HIDE DEF Token
<1>2. Received(Message(n), k)[1] = sha256(n)
  BY <1>1, SubSeqProperties DEF Received
<1>3. sha256(n) = sha256(m)
  BY <1>2 DEF HashMatches
<1> QED BY <1>3 DEF sha256

\* What one recv() and all that follows it can come to: the number of the client
\* is sent, with the right key, and arrives or is lost; or nothing is sent.
LEMMA ServeEffect ==
  ASSUME PkIInv, Serve
  PROVE  /\ new_socket \in Client /\ serverAt = "recv"
         /\ \/ /\ serverAt' = "ended" /\ paired /\ answered' = {z[new_socket]}
               /\ \/ toA' = [toA EXCEPT ![new_socket] = Halves(z[new_socket])]
                  \/ UNCHANGED toA
            \/ /\ serverAt' \in {"failed", "dead"}
               /\ UNCHANGED <<answered, toA>>
<1> DEFINE c == new_socket
<1>1. serverAt = "recv" /\ c \in Client /\ answered = {}
  BY DEF Serve, PkIInv, Serving
<1>2. toB[c] = Message(z[c]) /\ z[c] \in Number
  BY <1>1 DEF Serve, PkIInv, PkInv, PkTypeOK
<1>3. Len(toB[c]) = 5
  BY <1>2 DEF Message
<1>4. PICK k \in RecvLens(toB[c], 5, tearing) :
        LET msg == Received(toB[c], k)
            cut == k < Len(toB[c])
        IN  \/ \E n \in ZRead(msg, z[c]) :
                 /\ k >= 2 /\ HashMatches(msg, n)
                 /\ answered' = answered \cup {n}
                 /\ \/ toA' = [toA EXCEPT ![c] = Halves(n)]
                    \/ cut /\ UNCHANGED toA
                 /\ serverAt' = "ended"
            \/ /\ serverAt' \in {"failed", "dead"}
               /\ UNCHANGED <<answered, toA>>
  BY DEF Serve
<1>5. k \in 1 .. 5
  BY <1>3 DEF RecvLens
<1>6. ASSUME NEW n \in ZRead(Received(toB[c], k), z[c]),
             HashMatches(Received(toB[c], k), n)
      PROVE  n = z[c] /\ paired
  <2>1. n = z[c]
    BY <1>2, <1>5, <1>6, HashIsOfItsNumber
  <2> QED BY <1>2, <1>6, <2>1, PkConstants DEF ZRead
<1> QED BY <1>1, <1>4, <1>6

-----------------------------------------------------------------------------
(* The inductive invariant.                                                *)

LEMMA PkStarts == PkInit => PkIInv
BY PkConstants DEF PkInit, PkIInv, PkInv, PkTypeOK, Serving, Accepted

LEMMA PkStep == PkIInv /\ [PkNext]_pkVars => PkIInv'
<1> SUFFICES ASSUME PkIInv, [PkNext]_pkVars PROVE PkIInv'
  OBVIOUS
<1> USE DEF clientVars, serverVars, memVars
<1>1. ASSUME NEW c \in Client, Connect(c) PROVE PkIInv'
  <2> USE DEF PkIInv, PkInv, PkTypeOK
  <2>3. Append(queue, c) \in Seq(Client)
    BY AppendProperties
  <2>4. queue' \in Seq(Client)
    BY <1>1, <2>3 DEF Connect
  <2>5. at' \in [Client -> {"start", "connected", "sent", "accepted", "failed", "dead"}]
    BY <1>1 DEF Connect
  <2>1. PkTypeOK'
    BY <1>1, <2>4, <2>5 DEF Connect
  <2>2. Answered' /\ Serving' /\ Accepted'
    BY <1>1 DEF Connect, PkIInv, PkInv, PkTypeOK, Answered, Serving, Accepted
  <2> QED BY <2>1, <2>2 DEF PkIInv, PkInv, Answered
<1>2. ASSUME NEW c \in Client, Send(c) PROVE PkIInv'
  <2> USE DEF PkIInv, PkInv, PkTypeOK
  <2>3. \A d \in Client : toB'[d] \in {<<>>, Message(z'[d])}
    <3>1. CASE ServerClosed
      BY <1>2, <3>1 DEF Send
    <3>2. CASE ~ServerClosed
      <4> TAKE d \in Client
      <4>1. CASE d = c
        BY <1>2, <3>2, <4>1 DEF Send
      <4>2. CASE d # c
        BY <1>2, <3>2, <4>2 DEF Send
      <4> QED BY <4>1, <4>2
    <3> QED BY <3>1, <3>2
  <2>4. at' \in [Client -> {"start", "connected", "sent", "accepted", "failed", "dead"}]
    BY <1>2 DEF Send
  <2>5. toB' \in [Client -> {<<>>} \cup {Message(n) : n \in Number}]
    BY <1>2 DEF Send
  <2>1. PkTypeOK'
    BY <1>2, <2>3, <2>4, <2>5 DEF Send
  <2>2. Answered' /\ Serving' /\ Accepted'
    BY <1>2 DEF Send, PkIInv, PkInv, PkTypeOK, Answered, Serving, Accepted
  <2> QED BY <2>1, <2>2 DEF PkIInv, PkInv, Answered
<1>3. ASSUME NEW c \in Client, RecvZ(c) PROVE PkIInv'
  <2> USE DEF PkIInv, PkInv, PkTypeOK
  <2>3. at' \in [Client -> {"start", "connected", "sent", "accepted", "failed", "dead"}]
    BY <1>3 DEF RecvZ
  <2>4. received_z' \in [Client -> Number \cup {Junk}]
    BY <1>3 DEF RecvZ
  <2>5. toA' \in [Client -> {<<>>} \cup {Halves(n) : n \in Number \cup {Junk}}]
    BY <1>3 DEF RecvZ
  <2>1. PkTypeOK'
    BY <1>3, <2>3, <2>4, <2>5 DEF RecvZ
  <2>2. Answered' /\ Serving' /\ Accepted'
    BY <1>3 DEF RecvZ, PkIInv, PkInv, PkTypeOK, Answered, Serving, Accepted
  <2> QED BY <2>1, <2>2 DEF PkIInv, PkInv, Answered
<1>4. ASSUME NEW c \in Client, RecvNothing(c) \/ ClientDies(c) PROVE PkIInv'
  <2>1. PkTypeOK'
    BY <1>4 DEF RecvNothing, ClientDies, PkIInv, PkInv, PkTypeOK
  <2>2. Answered' /\ Serving' /\ Accepted'
    BY <1>4 DEF RecvNothing, ClientDies, PkIInv, PkInv, PkTypeOK, Answered, Serving, Accepted
  <2> QED BY <2>1, <2>2 DEF PkIInv, PkInv, Answered
<1>5. ASSUME ServerAccepts PROVE PkIInv'
  <2>1. PkTypeOK' /\ new_socket' \in Client
    BY <1>5, HeadTailProperties DEF ServerAccepts, PkIInv, PkInv, PkTypeOK
  <2>2. Answered' /\ Serving' /\ Accepted'
    BY <1>5, <2>1 DEF ServerAccepts, PkIInv, PkInv, PkTypeOK, Answered, Serving, Accepted
  <2> QED BY <2>1, <2>2 DEF PkIInv, PkInv, Answered
<1>6. ASSUME RecvEOF \/ ServerDies PROVE PkIInv'
  <2>1. PkTypeOK'
    BY <1>6 DEF RecvEOF, ServerDies, PkIInv, PkInv, PkTypeOK
  <2>2. Answered' /\ Serving' /\ Accepted'
    BY <1>6 DEF RecvEOF, ServerDies, PkIInv, PkInv, PkTypeOK, Answered, Serving, Accepted
  <2> QED BY <2>1, <2>2 DEF PkIInv, PkInv, Answered
<1>7. ASSUME Serve PROVE PkIInv'
  <2> USE DEF PkIInv, PkInv, PkTypeOK
  <2>1. UNCHANGED <<clientVars, queue, new_socket, memVars>>
    BY <1>7 DEF Serve
  <2>2. toB' = [toB EXCEPT ![new_socket] = <<>>]
    BY <1>7 DEF Serve
  <2>3. new_socket \in Client /\ z[new_socket] \in Number /\ answered = {}
    BY <1>7, ServeEffect DEF Serving
  <2>4. /\ toB' \in [Client -> {<<>>} \cup {Message(n) : n \in Number}]
        /\ \A c \in Client : toB'[c] \in {<<>>, Message(z'[c])}
    BY <2>1, <2>2
  <2>9. /\ serverAt' \in {"ended", "failed", "dead"}
        /\ answered' = {} \/ answered' = {z[new_socket]}
    BY <1>7, <2>3, ServeEffect
  <2>5. /\ toA' \in [Client -> {<<>>} \cup {Halves(n) : n \in Number \cup {Junk}}]
        /\ \A c \in Client : toA'[c] # <<>> =>
              c = new_socket /\ answered' # {} /\ toA'[c] = Halves(z[c])
    <3> DEFINE Queue == {<<>>} \cup {Halves(n) : n \in Number \cup {Junk}}
    <3>1. Halves(z[new_socket]) \in Queue
      BY <2>3
    <3>2. \A c \in Client : toA[c] = <<>>
      BY <2>3
    <3>3. CASE answered' = {z[new_socket]}
               /\ toA' = [toA EXCEPT ![new_socket] = Halves(z[new_socket])]
      BY <2>3, <3>1, <3>2, <3>3
    <3>4. CASE UNCHANGED toA
      BY <3>2, <3>4
    <3> QED BY <1>7, <3>3, <3>4, ServeEffect
  <2>10. answered' \subseteq Number \cup {Junk}
    BY <2>3, <2>9
  <2>11. /\ z' = z /\ received_z' = received_z /\ at' = at /\ queue' = queue
         /\ new_socket' = new_socket /\ tearing' = tearing /\ behind' = behind
         /\ paired' = paired
    BY <2>1
  <2>6. PkTypeOK'
    BY <2>4, <2>5, <2>9, <2>10, <2>11
  <2>7. Answered' /\ Serving'
    BY <1>7, <2>1, <2>3, <2>5, ServeEffect DEF Answered, Serving
  <2>8. Accepted'
    BY <2>1, <2>3 DEF Accepted
  <2> QED BY <2>6, <2>7, <2>8 DEF Answered
<1>8. CASE UNCHANGED pkVars
  BY <1>8 DEF pkVars, PkIInv, PkInv, PkTypeOK, Serving, Accepted
<1> QED BY <1>1, <1>2, <1>3, <1>4, <1>5, <1>6, <1>7, <1>8 DEF PkNext, ClientRuns, ServerRuns

\* B never sends a number that is not the one of the client it serves, decrypted
\* with the private key.
THEOREM PkAlways == PkSpec => []PkIInv
BY PkStarts, PkStep, PTL DEF PkSpec

THEOREM PkSendsOwnNumber == PkSpec => []PkInv
<1>1. PkIInv => PkInv
  BY DEF PkIInv
<1> QED BY <1>1, PkAlways, PTL

-----------------------------------------------------------------------------
(* Every client's view implements Challenge.                               *)

LEMMA AsksInit ==
  ASSUME PkInit, NEW c \in Client PROVE AsksB(c)!CInit
BY PkConstants DEF PkInit, AsksB!CInit, AsksB!Silence, Said, Ruling, Heard, Closed

\* A step either leaves a client's view alone, or is an answer to it, or makes it
\* refuse, or accept what was said.
LEMMA AsksStep ==
  ASSUME PkIInv, [PkNext]_pkVars, NEW c \in Client
  PROVE  [AsksB(c)!CNext]_(AsksB(c)!cvars)
<1> USE DEF clientVars, serverVars, memVars, Said, Ruling, Heard, Closed,
            AsksB!CNext, AsksB!Answer, AsksB!Accept, AsksB!Refuse, AsksB!Silence,
            AsksB!cvars
<1>1. ASSUME NEW d \in Client, Connect(d) \/ Send(d) \/ RecvNothing(d) \/ ClientDies(d)
      PROVE  [AsksB(c)!CNext]_(AsksB(c)!cvars)
  BY <1>1 DEF Connect, Send, RecvNothing, ClientDies, PkIInv, PkInv, PkTypeOK
<1>2. ASSUME NEW d \in Client, RecvZ(d)
      PROVE  [AsksB(c)!CNext]_(AsksB(c)!cvars)
  BY <1>2 DEF RecvZ, PkIInv, PkInv, PkTypeOK
<1>3. ASSUME ServerAccepts \/ RecvEOF \/ ServerDies
      PROVE  [AsksB(c)!CNext]_(AsksB(c)!cvars)
  BY <1>3 DEF ServerAccepts, RecvEOF, ServerDies, PkIInv, PkInv, PkTypeOK, Serving
<1>4. ASSUME Serve
      PROVE  [AsksB(c)!CNext]_(AsksB(c)!cvars)
  <2>1. UNCHANGED <<clientVars, new_socket>>
    BY <1>4 DEF Serve
  <2>2. answered = {} /\ z[new_socket] \in Number
    BY <1>4, ServeEffect DEF PkIInv, Serving, PkInv, PkTypeOK
  <2>3. UNCHANGED answered \/ answered' = {z[new_socket]}
    BY <1>4, ServeEffect
  <2> QED BY <2>1, <2>2, <2>3
<1>5. CASE UNCHANGED pkVars
  BY <1>5 DEF pkVars
<1> QED BY <1>1, <1>2, <1>3, <1>4, <1>5 DEF PkNext, ClientRuns, ServerRuns

\* Every client accepts only what B said to it (client_a_asm.c:84).
THEOREM PkIdentifiesAll == PkSpec => PkIdentifies
<1>1. PkInit => \A c \in Client : AsksB(c)!CInit
  BY AsksInit
<1>2. PkIInv /\ [PkNext]_pkVars =>
        [\A c \in Client : [AsksB(c)!CNext]_(AsksB(c)!cvars)]_pkVars
  BY AsksStep
<1> QED BY <1>1, <1>2, PkAlways, PTL DEF PkSpec, PkIdentifies
=============================================================================
