------------------------- MODULE OneTimeLoginProofs -------------------------
(***************************************************************************)
(* Theorems about OneTimeLogin, for any number of clients, any passwords   *)
(* and iterations, any listen queue and any behaviour of recv().           *)
(*                                                                         *)
(* UsedOnce is not inductive by itself.  Login adds what makes it so: the  *)
(* server judges a client only while that client's message is unread,      *)
(* which happens once, so that what a judged client wants is settled.      *)
(***************************************************************************)
EXTENDS OneTimeLogin, SequenceTheorems, TLAPS

\* A client that has not sent anything has not been judged, and neither has
\* one whose message is unread.
JudgedOnMessage ==
  \A c \in Client :
    /\ pc[c] \in {"prompt", "connected"} => verdict[c] = "none" /\ up[c] = <<>>
    /\ up[c] # <<>> => verdict[c] = "none"

\* What is on its way to a client is the verdict on that client.
AnswerOnItsWay ==
  \A c \in Client : down[c] # <<>> => verdict[c] # "none" /\ down[c] = <<verdict[c]>>

Login == /\ TypeOK
         /\ JudgedOnMessage
         /\ AnswerOnItsWay
         /\ AnswersAreVerdicts
         /\ UsedOnce

-----------------------------------------------------------------------------
(* Lemmas about hashes and about one recv().                               *)

\* fix_endian() and sha256() of a hash are hashes, and so is every link of a
\* chain.
LEMMA HashesClosed ==
  /\ Junk \in Hash
  /\ \A h \in Hash : fix_endian(h) \in Hash /\ sha256(h) \in Hash
  /\ \A pw \in Password, i \in Int : Chain(pw, i) \in Hash
BY DEF Junk, Hash, Form, fix_endian, OtherForm, sha256, Chain

\* A recv() of the server returns one to three tokens of the client's message,
\* and the hash the server goes on with is a hash, whether it was received or
\* was in the buffer.
LEMMA OneRecv ==
  ASSUME TypeOK, conn # NoClient, up[conn] # <<>>,
         NEW n \in RecvLens(up[conn], 3, conn \in Torn)
  PROVE  /\ conn \in Client
         /\ n \in 1 .. 3
         /\ Len(Received(up[conn], n)) = n
         /\ n >= 2 => Received(up[conn], n)[2] = want[conn].iter
         /\ HashRead(Received(up[conn], n)) \in Hash
<1> DEFINE sent == Chain(want[conn].pw, want[conn].iter)
           Token == {ClientID[conn], want[conn].iter, sent}
<1>1. conn \in Client /\ up[conn] = <<ClientID[conn], want[conn].iter, sent>>
  BY DEF TypeOK, Message
<1>2. n \in 1 .. 3
  BY <1>1 DEF RecvLens
<1>3. up[conn] \in Seq(Token) /\ Len(up[conn]) = 3
  BY <1>1
<1>4. /\ Len(Received(up[conn], n)) = n
      /\ \A i \in 1 .. n : Received(up[conn], n)[i] = up[conn][i]
  <2> DEFINE q == up[conn]
  <2>1. q \in Seq(Token) /\ 1 \in 1 .. Len(q) + 1 /\ n \in 0 .. Len(q)
    BY <1>2, <1>3
  <2> HIDE DEF q, Token
  <2>2. /\ Len(SubSeq(q, 1, n)) = n - 1 + 1
        /\ \A i \in 1 .. n - 1 + 1 : SubSeq(q, 1, n)[i] = q[1 + i - 1]
    BY <1>2, <2>1, SubSeqProperties
  <2>3. /\ Len(SubSeq(q, 1, n)) = n
        /\ \A i \in 1 .. n : SubSeq(q, 1, n)[i] = q[i]
    BY <1>2, <2>2
  <2> QED BY <2>3 DEF Received, q
<1>5. sent \in Hash
  BY <1>1 DEF TypeOK, Chain, Hash, Form
<1>6. HashRead(Received(up[conn], n)) \in Hash
  <2>1. CASE n = 3
    <3>1. Received(up[conn], n)[3] = sent
      BY <1>1, <1>4, <2>1
    <3> HIDE DEF sent
    <3> QED BY <1>4, <1>5, <2>1, <3>1, HashesClosed DEF HashRead
  <2>2. CASE n # 3
    BY <1>4, <2>2, HashesClosed DEF HashRead, TypeOK
  <2> QED BY <2>1, <2>2
<1> QED BY <1>1, <1>2, <1>4, <1>6

\* The client c, which had no verdict, gets the verdict answer, and it is a
\* success only for the iteration below current_iter.
Judges(c, answer) ==
  /\ up[c] # <<>>
  /\ verdict[c] = "none"
  /\ verdict' = [verdict EXCEPT ![c] = answer]
  /\ up' = [up EXCEPT ![c] = <<>>]
  /\ shut' = [shut EXCEPT ![c] = TRUE]
  /\ conn' = NoClient
  /\ down' = down \/ down' = [down EXCEPT ![c] = <<answer>>]
  /\ buffer' \in Hash /\ stored_hash' \in Hash
  /\ \/ /\ answer = Success
        /\ want[c].iter = current_iter - 1
        /\ current_iter' = current_iter - 1
     \/ /\ answer # Success
        /\ UNCHANGED <<current_iter, stored_hash>>
  /\ UNCHANGED <<backlog, pc, want, response>>

\* One step of the server's loop judges one client.
LEMMA ServeEffect ==
  ASSUME Login, Serve
  PROVE  \E c \in Client, answer \in Verdict : Judges(c, answer)
<1>1. TypeOK /\ conn # NoClient /\ up[conn] # <<>>
  BY DEF Login, Serve
<1>2. PICK n \in RecvLens(up[conn], 3, conn \in Torn) :
        LET msg    == Received(up[conn], n)
            hash   == HashRead(msg)
            answer == Answer(msg, hash)
        IN  /\ buffer' = IF n < 2 THEN buffer ELSE hash
            /\ Record(answer, hash)
            /\ Reply(conn, answer, Unread(up[conn], n))
  BY DEF Serve
<1> DEFINE msg    == Received(up[conn], n)
           hash   == HashRead(msg)
           answer == Answer(msg, hash)
<1>3. /\ conn \in Client /\ n \in 1 .. 3 /\ Len(msg) = n
      /\ n >= 2 => msg[2] = want[conn].iter
      /\ hash \in Hash
  BY <1>1, OneRecv
<1>4. answer \in Verdict
  BY DEF Answer, Verdict, Complaint
<1>5. answer = Success => want[conn].iter = current_iter - 1
  BY <1>3 DEF Answer, Success
<1>6. verdict[conn] = "none"
  BY <1>1, <1>3 DEF Login, JudgedOnMessage
<1> HIDE DEF hash, answer
<1>7. /\ buffer' \in Hash /\ stored_hash' \in Hash
      /\ answer = Success => current_iter' = current_iter - 1
      /\ answer # Success => UNCHANGED <<current_iter, stored_hash>>
  BY <1>1, <1>2, <1>3 DEF TypeOK, Record, hash, answer
<1>8. Reply(conn, answer, Unread(up[conn], n))
  BY <1>2 DEF hash, answer
<1>9. UNCHANGED <<backlog, pc, want, response>>
  BY DEF Serve, clientVars
<1> QED BY <1>1, <1>3, <1>4, <1>5, <1>6, <1>7, <1>8, <1>9 DEF Reply, Judges

-----------------------------------------------------------------------------
(* The inductive invariant.                                                *)

\* Nothing has happened yet.
LEMMA LoginInit == Init => Login
<1> SUFFICES ASSUME Init PROVE Login
  OBVIOUS
<1>1. TypeOK
  BY LoginConstants, HashesClosed DEF Init, TypeOK, Verdict
<1>2. JudgedOnMessage /\ AnswerOnItsWay /\ AnswersAreVerdicts
  BY DEF Init, JudgedOnMessage, AnswerOnItsWay, AnswersAreVerdicts
<1>3. UsedOnce
  BY DEF Init, UsedOnce, Success
<1> QED BY <1>1, <1>2, <1>3 DEF Login

\* A step of a client keeps the invariant.
LEMMA ClientKeepsLogin ==
  ASSUME Login, NEW c \in Client, ClientStep(c)
  PROVE  Login'
<1> USE DEF Login, serverVars
<1>1. ASSUME NEW pw \in Password, NEW i \in Iteration, Connect(c, pw, i)
      PROVE  Login'
  <2>1. verdict[c] = "none" /\ up[c] = <<>>
    BY <1>1 DEF Connect, JudgedOnMessage, TypeOK
  <2>2. \A d \in Client : d # c => want'[d] = want[d] /\ pc'[d] = pc[d]
    BY <1>1 DEF Connect, TypeOK
  <2>3. pc'[c] = "connected"
    BY <1>1 DEF Connect, TypeOK
  <2>4. TypeOK'
    <3>1. want' \in [Client -> [pw : Password \cup {NoPassword}, iter : Int]]
      BY <1>1, LoginConstants DEF Connect, TypeOK
    <3>2. \A d \in Client : up'[d] \in {<<>>, Message(d)'}
      BY <1>1, <2>1, <2>2 DEF Connect, TypeOK, Message
    <3>3. up' \in [Client -> {<<>>} \cup {Message(d)' : d \in Client}]
      BY <1>1, <3>2 DEF Connect, TypeOK
    <3>4. backlog' \in Seq(Client)
      BY <1>1 DEF Connect, TypeOK
    <3>5. pc' \in [Client -> {"prompt", "connected", "sent", "answered", "failed", "dead"}]
      BY <1>1 DEF Connect, TypeOK
    <3> QED BY <1>1, <3>1, <3>2, <3>3, <3>4, <3>5 DEF Connect, TypeOK
  <2>5. JudgedOnMessage'
    BY <1>1, <2>1, <2>2, <2>3 DEF Connect, JudgedOnMessage
  <2>6. AnswerOnItsWay' /\ AnswersAreVerdicts'
    BY <1>1 DEF Connect, AnswerOnItsWay, AnswersAreVerdicts
  <2>7. UsedOnce'
    <3>1. verdict[c] # Success /\ verdict' = verdict /\ current_iter' = current_iter
      BY <1>1, <2>1 DEF Connect, Success
    <3>2. \A d \in Client : verdict[d] = Success => want'[d] = want[d]
      BY <2>2, <3>1
    <3> QED BY <3>1, <3>2 DEF UsedOnce
  <2> QED BY <2>4, <2>5, <2>6, <2>7
<1>2. CASE Send(c)
  <2>1. TypeOK'
    <3>1. \A d \in Client : up'[d] \in {<<>>, Message(d)'}
      BY <1>2 DEF Send, TypeOK, Message
    <3> QED BY <1>2, <3>1 DEF Send, TypeOK, Message
  <2>2. JudgedOnMessage'
    BY <1>2 DEF Send, TypeOK, JudgedOnMessage
  <2>3. AnswerOnItsWay' /\ AnswersAreVerdicts' /\ UsedOnce'
    BY <1>2 DEF Send, AnswerOnItsWay, AnswersAreVerdicts, UsedOnce
  <2> QED BY <2>1, <2>2, <2>3
<1>3. CASE RecvAnswer(c)
  <2>1. down[c] = <<verdict[c]>> /\ verdict[c] \in Verdict
    BY <1>3 DEF RecvAnswer, AnswerOnItsWay, TypeOK
  <2>2. TypeOK'
    <3>1. response' \in [Client -> Verdict \cup {"none"}]
      <4>1. response'= [response EXCEPT ![c] = verdict[c]]
        BY <1>3, <2>1 DEF RecvAnswer
      <4> QED BY <2>1, <4>1 DEF TypeOK
    <3>2. down' \in [Client -> Seq(Verdict)]
      BY <1>3 DEF RecvAnswer, TypeOK
    <3>3. pc' \in [Client -> {"prompt", "connected", "sent", "answered", "failed", "dead"}]
      BY <1>3 DEF RecvAnswer, TypeOK
    <3> QED BY <1>3, <3>1, <3>2, <3>3 DEF RecvAnswer, TypeOK, Message
  <2>3. JudgedOnMessage'
    BY <1>3 DEF RecvAnswer, TypeOK, JudgedOnMessage
  <2>4. AnswerOnItsWay' /\ AnswersAreVerdicts'
    BY <1>3, <2>1 DEF RecvAnswer, TypeOK, AnswerOnItsWay, AnswersAreVerdicts
  <2>5. UsedOnce'
    BY <1>3 DEF RecvAnswer, UsedOnce
  <2> QED BY <2>2, <2>3, <2>4, <2>5
<1>4. CASE RecvNothing(c) \/ Die(c)
  <2>1. TypeOK'
    <3>1. pc' \in [Client -> {"prompt", "connected", "sent", "answered", "failed", "dead"}]
      BY <1>4 DEF RecvNothing, Die, TypeOK
    <3>2. UNCHANGED <<current_iter, stored_hash, buffer, conn, backlog, up, down,
                      shut, want, response, verdict>>
      BY <1>4 DEF RecvNothing, Die
    <3> QED BY <3>1, <3>2 DEF TypeOK, Message
  <2>2. JudgedOnMessage'
    BY <1>4 DEF RecvNothing, Die, TypeOK, JudgedOnMessage
  <2>3. AnswerOnItsWay' /\ AnswersAreVerdicts' /\ UsedOnce'
    BY <1>4 DEF RecvNothing, Die, AnswerOnItsWay, AnswersAreVerdicts, UsedOnce
  <2> QED BY <2>1, <2>2, <2>3
<1> QED BY <1>1, <1>2, <1>3, <1>4 DEF ClientStep

\* accept() and a recv() of nothing keep the invariant.
LEMMA IdleServerKeepsLogin ==
  ASSUME Login, Accept \/ RecvEOF
  PROVE  Login'
<1> USE DEF Login
<1>1. UNCHANGED <<current_iter, stored_hash, buffer, up, down, pc, want,
                  response, verdict>>
  BY DEF Accept, RecvEOF, serverVars, clientVars
<1>2. conn' \in Client \cup {NoClient}
  <2>1. backlog # <<>> => Head(backlog) \in Client
    BY HeadTailProperties DEF TypeOK
  <2> QED BY <2>1 DEF Accept, RecvEOF
<1>3. backlog' \in Seq(Client)
  <2>1. backlog \in Seq(Client)
    BY DEF TypeOK
  <2>2. backlog # <<>> => Tail(backlog) \in Seq(Client)
    BY <2>1, HeadTailProperties
  <2> QED BY <2>1, <2>2 DEF Accept, RecvEOF
<1>4. shut' \in [Client -> BOOLEAN]
  BY DEF Accept, RecvEOF, TypeOK
<1>5. TypeOK'
  BY <1>1, <1>2, <1>3, <1>4 DEF TypeOK, Message
<1>6. JudgedOnMessage' /\ AnswerOnItsWay' /\ AnswersAreVerdicts' /\ UsedOnce'
  BY <1>1 DEF JudgedOnMessage, AnswerOnItsWay, AnswersAreVerdicts, UsedOnce
<1> QED BY <1>5, <1>6

\* Judging a client keeps the invariant.  UsedOnce is kept because the one
\* iteration that can be used up is below all that were.
LEMMA ServeKeepsLogin ==
  ASSUME Login, Serve
  PROVE  Login'
<1> USE DEF Login
<1>1. PICK c \in Client, answer \in Verdict : Judges(c, answer)
  BY ServeEffect
<1> USE DEF Judges
<1>2. answer # "none"
  BY DEF Verdict, Complaint, Success
<1>3. /\ verdict'[c] = answer /\ up'[c] = <<>>
      /\ \A d \in Client : d # c => verdict'[d] = verdict[d] /\ up'[d] = up[d]
                                     /\ down'[d] = down[d]
  BY <1>1 DEF TypeOK
<1>4. TypeOK'
  <2>1. current_iter' \in Int
    BY <1>1 DEF TypeOK
  <2>2. up' \in [Client -> {<<>>} \cup {Message(d)' : d \in Client}]
    BY <1>1 DEF TypeOK, Message
  <2>3. \A d \in Client : up'[d] \in {<<>>, Message(d)'}
    BY <1>1, <1>3 DEF TypeOK, Message
  <2>4. down' \in [Client -> Seq(Verdict)]
    <3>1. <<answer>> \in Seq(Verdict)
      OBVIOUS
    <3> QED BY <1>1, <3>1 DEF TypeOK
  <2>5. verdict' \in [Client -> Verdict \cup {"none"}]
    BY <1>1 DEF TypeOK
  <2> QED BY <1>1, <2>1, <2>2, <2>3, <2>4, <2>5 DEF TypeOK
<1>5. JudgedOnMessage'
  BY <1>1, <1>3 DEF JudgedOnMessage, TypeOK
<1>6. AnswerOnItsWay'
  <2> SUFFICES ASSUME NEW d \in Client, down'[d] # <<>>
               PROVE  verdict'[d] # "none" /\ down'[d] = <<verdict'[d]>>
    BY DEF AnswerOnItsWay
  <2>1. CASE d # c
    BY <1>3, <2>1 DEF AnswerOnItsWay
  <2>2. CASE d = c
    <3>1. down' # down
      BY <1>1, <2>2 DEF AnswerOnItsWay
    <3>2. down'[c] = <<answer>>
      BY <1>1, <3>1 DEF TypeOK
    <3> QED BY <1>2, <1>3, <2>2, <3>2
  <2> QED BY <2>1, <2>2
<1>7. AnswersAreVerdicts'
  BY <1>1, <1>3 DEF AnswersAreVerdicts, TypeOK
<1>8. \A d \in Client : verdict'[d] = Success =>
        \/ d # c /\ verdict[d] = Success /\ want[d].iter >= current_iter
        \/ d = c /\ want[c].iter = current_iter'
  BY <1>1, <1>3 DEF UsedOnce
<1>9. current_iter' = current_iter \/ current_iter' = current_iter - 1
  BY <1>1
<1>10. UsedOnce'
  <2>1. CASE answer = Success
    <3>1. current_iter' < current_iter
      BY <1>1, <2>1 DEF TypeOK
    <3> QED BY <1>1, <1>3, <1>8, <3>1 DEF UsedOnce, TypeOK
  <2>2. CASE answer # Success
    BY <1>1, <1>3, <2>2 DEF UsedOnce
  <2> QED BY <2>1, <2>2
<1> QED BY <1>4, <1>5, <1>6, <1>7, <1>10

\* Login is inductive.
LEMMA LoginStep == Login /\ [Next]_vars => Login'
<1> SUFFICES ASSUME Login, [Next]_vars PROVE Login'
  OBVIOUS
<1>1. CASE \E c \in Client : ClientStep(c)
  BY <1>1, ClientKeepsLogin
<1>2. CASE Accept \/ RecvEOF
  BY <1>2, IdleServerKeepsLogin
<1>3. CASE Serve
  BY <1>3, ServeKeepsLogin
<1>4. CASE UNCHANGED vars
  BY <1>4 DEF vars, Login, TypeOK, Message, JudgedOnMessage, AnswerOnItsWay,
              AnswersAreVerdicts, UsedOnce
<1> QED BY <1>1, <1>2, <1>3, <1>4 DEF Next

-----------------------------------------------------------------------------
(* The theorems.                                                           *)

\* Every variable of server_pass.c and of the runs of client_pass.c keeps its
\* type, and the login invariant holds always.
THEOREM LoginAlways == Spec => []Login
BY LoginInit, LoginStep, PTL DEF Spec

\* The variables keep their types, among them that what a run of client_pass.c sends
\* and what server_pass.c stores are hashes.
THEOREM LoginTypes == Spec => []TypeOK
<1>1. Login => TypeOK
  BY DEF Login
<1> QED BY <1>1, LoginAlways, PTL

\* No two runs of the client are let in for the same iteration.
THEOREM LoginUsedOnce == Spec => []UsedOnce
<1>1. Login => UsedOnce
  BY DEF Login
<1> QED BY <1>1, LoginAlways, PTL

\* A client is only told the verdict the server reached on that client.
THEOREM LoginAnswers == Spec => []AnswersAreVerdicts
<1>1. Login => AnswersAreVerdicts
  BY DEF Login
<1> QED BY <1>1, LoginAlways, PTL

\* The iteration and the stored hash change only in a step that lets in a
\* client, which asked for the new iteration.
THEOREM LoginAdvances == Spec => OnlySuccessAdvances
<1> DEFINE Advance ==
      (current_iter' # current_iter \/ stored_hash' # stored_hash)
         => \E c \in Client : /\ verdict[c] = "none" /\ verdict'[c] = Success
                              /\ current_iter' = want[c].iter
<1>1. Login /\ [Next]_vars => [Advance]_vars
  <2> SUFFICES ASSUME Login, [Next]_vars PROVE Advance \/ UNCHANGED vars
    OBVIOUS
  <2>1. CASE Serve
    BY <2>1, ServeEffect DEF Judges, Login, TypeOK
  <2>2. CASE Accept \/ RecvEOF \/ \E c \in Client : ClientStep(c)
    BY <2>2 DEF Accept, RecvEOF, ClientStep, Connect, Send, RecvAnswer,
                RecvNothing, Die, serverVars
  <2> QED BY <2>1, <2>2 DEF Next
<1> QED BY <1>1, LoginAlways, PTL DEF Spec, OnlySuccessAdvances

\* server_pass.c with its clients implements the one-time password service.
THEOREM LoginImplements == Spec => ServiceSpec
<1>1. Init => Service!AInit
  BY DEF Init, Service!AInit, Ruling, RulingOf
<1>2. Login /\ [Next]_vars => [Service!ANext]_(Service!avars)
  <2> SUFFICES ASSUME Login, [Next]_vars
               PROVE  Service!ANext \/ UNCHANGED Service!avars
    OBVIOUS
  <2>1. CASE Serve
    <3>1. PICK c \in Client, answer \in Verdict :
            /\ verdict[c] = "none"
            /\ verdict' = [verdict EXCEPT ![c] = answer]
            /\ \/ answer = Success /\ current_iter' = current_iter - 1
               \/ answer # Success /\ UNCHANGED current_iter
      BY <2>1, ServeEffect DEF Judges
    <3>2. answer # "none"
      BY DEF Verdict, Complaint, Success
    <3>3. Ruling[c] = "none"
      BY <3>1 DEF Ruling, RulingOf
    <3>4. Ruling' = [Ruling EXCEPT ![c] = IF answer = Success THEN "accepted" ELSE "refused"]
      BY <3>1, <3>2 DEF Login, TypeOK, Ruling, RulingOf
    <3> QED BY <3>1, <3>3, <3>4 DEF Service!ANext, Service!AAccept, Service!ARefuse
  <2>2. CASE UNCHANGED <<current_iter, verdict>>
    BY <2>2 DEF Service!avars, Ruling
  <2>3. CASE Accept \/ RecvEOF \/ \E c \in Client : ClientStep(c)
    BY <2>2, <2>3 DEF Accept, RecvEOF, ClientStep, Connect, Send, RecvAnswer,
                      RecvNothing, Die, serverVars
  <2> QED BY <2>1, <2>2, <2>3 DEF Next, vars
<1> QED BY <1>1, <1>2, LoginAlways, PTL DEF Spec, ServiceSpec, Service!ASpec
-----------------------------------------------------------------------------
(* The password.                                                           *)

\* The stored hash is a hash of the password the server was set up with.
PasswordKept == /\ stored_hash.pw = SECRET_PASSWORD
                /\ current_iter <= INITIAL_ITER
                /\ OnlyThePassword

\* A hash that, hashed once more, comes to the stored one is of its password.
LEMMA SamePassword ==
  ASSUME NEW h \in Hash, stored_hash.pw # NoPassword,
         fix_endian(sha256(h)) = stored_hash
  PROVE  h.pw = stored_hash.pw
BY DEF fix_endian, sha256, Junk

\* Whatever part of a message a recv() returns, a success leaves a hash of the
\* same password stored, and a client whose message came whole has sent one.
LEMMA ServePassword ==
  ASSUME Login, Serve, stored_hash.pw # NoPassword
  PROVE  \E c \in Client, answer \in Verdict :
           /\ verdict' = [verdict EXCEPT ![c] = answer]
           /\ answer = Success => /\ c \notin Torn => want[c].pw = stored_hash.pw
                                  /\ stored_hash'.pw = stored_hash.pw
                                  /\ want[c].iter = current_iter - 1
                                  /\ current_iter' = current_iter - 1
           /\ answer # Success => UNCHANGED <<stored_hash, current_iter>>
           /\ UNCHANGED want
<1>1. /\ TypeOK /\ conn # NoClient /\ up[conn] # <<>>
      /\ conn \in Client /\ up[conn] = Message(conn)
  BY DEF Login, Serve, TypeOK
<1>2. PICK n \in RecvLens(up[conn], 3, conn \in Torn) :
        LET msg    == Received(up[conn], n)
            hash   == HashRead(msg)
            answer == Answer(msg, hash)
        IN  /\ Record(answer, hash)
            /\ Reply(conn, answer, Unread(up[conn], n))
  BY DEF Serve
<1> DEFINE msg    == Received(up[conn], n)
           sent   == Chain(want[conn].pw, want[conn].iter)
           hash   == HashRead(msg)
           answer == Answer(msg, hash)
<1>3. /\ Record(answer, hash)
      /\ Reply(conn, answer, Unread(up[conn], n))
  BY <1>2
<1>4. UNCHANGED want
  BY DEF Serve, clientVars
<1>5. /\ Len(msg) = n /\ n \in 1 .. 3 /\ hash \in Hash
      /\ n >= 2 => msg[2] = want[conn].iter
  <2> HIDE DEF sent
  <2> QED BY <1>1, OneRecv
<1>6. conn \notin Torn => hash.pw = want[conn].pw
  <2> SUFFICES ASSUME conn \notin Torn PROVE hash.pw = want[conn].pw
    OBVIOUS
  <2>1. n = 3
    BY <1>1 DEF RecvLens, Message
  <2>2. msg[3] = sent
    BY <1>1, <2>1 DEF Received, Message
  <2>3. sent \in Hash /\ sent.pw = want[conn].pw
    BY <1>1 DEF TypeOK, Chain, Hash, Form
  <2>4. hash = fix_endian(sent)
    BY <1>5, <2>1, <2>2 DEF HashRead
  <2> HIDE DEF sent, hash
  <2> QED BY <2>3, <2>4 DEF fix_endian
<1>7. answer \in Verdict
  BY DEF Answer, Verdict, Complaint
<1>8. answer = Success => /\ want[conn].iter = current_iter - 1
                          /\ fix_endian(sha256(hash)) = stored_hash
  <2> HIDE DEF hash, msg
  <2> QED BY <1>5 DEF Answer, Success
<1> HIDE DEF hash, answer
<1>9. answer = Success => hash.pw = stored_hash.pw
  BY <1>5, <1>8, SamePassword
<1> QED BY <1>1, <1>3, <1>4, <1>6, <1>7, <1>8, <1>9 DEF Record, Reply

\* Only the password lets in, when no recv() of the server cuts the message of
\* the client that is let in, whatever happens to those of the others.
THEOREM LoginOnlyThePassword == Spec => []OnlyThePassword
<1>1. Init => PasswordKept
  BY LoginConstants DEF Init, PasswordKept, OnlyThePassword, Chain, Success
<1>2. Login /\ PasswordKept /\ [Next]_vars => PasswordKept'
  <2> SUFFICES ASSUME Login, PasswordKept, [Next]_vars PROVE PasswordKept'
    OBVIOUS
  <2> USE DEF PasswordKept, OnlyThePassword
  <2>1. CASE Serve
    <3>1. PICK c \in Client, answer \in Verdict :
            /\ verdict' = [verdict EXCEPT ![c] = answer]
            /\ answer = Success => /\ c \notin Torn => want[c].pw = stored_hash.pw
                                   /\ stored_hash'.pw = stored_hash.pw
                                   /\ want[c].iter = current_iter - 1
                                   /\ current_iter' = current_iter - 1
            /\ answer # Success => UNCHANGED <<stored_hash, current_iter>>
            /\ UNCHANGED want
      BY <2>1, LoginConstants, ServePassword
    <3>2. stored_hash'.pw = SECRET_PASSWORD /\ current_iter' <= INITIAL_ITER
      BY <3>1, LoginConstants DEF Login, TypeOK
    <3>3. OnlyThePassword'
      BY <3>1, LoginConstants DEF Login, TypeOK
    <3> QED BY <3>2, <3>3
  <2>2. ASSUME NEW c \in Client, ClientStep(c) PROVE PasswordKept'
    <3>1. UNCHANGED <<stored_hash, current_iter, verdict>>
      BY <2>2 DEF ClientStep, Connect, Send, RecvAnswer, RecvNothing, Die, serverVars
    <3>2. \A d \in Client : want'[d] = want[d] \/ verdict[d] # Success
      BY <2>2 DEF ClientStep, Connect, Send, RecvAnswer, RecvNothing, Die,
                  Login, TypeOK, JudgedOnMessage, Success
    <3> QED BY <3>1, <3>2
  <2>3. CASE Accept \/ RecvEOF \/ UNCHANGED vars
    BY <2>3 DEF Accept, RecvEOF, serverVars, clientVars, vars
  <2> QED BY <2>1, <2>2, <2>3 DEF Next
<1>3. PasswordKept => OnlyThePassword
  BY DEF PasswordKept
<1> QED BY <1>1, <1>2, <1>3, LoginAlways, PTL DEF Spec
=============================================================================
