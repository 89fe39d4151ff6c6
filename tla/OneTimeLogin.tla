---------------------------- MODULE OneTimeLogin ----------------------------
(***************************************************************************)
(* The S/KEY login of src/id2: server_pass.c, which serves one connection  *)
(* at a time, and any number of runs of client_pass.c, each of which asks  *)
(* its user for a password and an iteration, sends "ID|iteration|hash" in  *)
(* one send() and waits for one answer.                                    *)
(*                                                                         *)
(* A hash is a term [pw, n, form]: the hash function applied n times to    *)
(* the password pw, in the byte order it is sent in ("wire") or in the     *)
(* word order sha256() computes in ("raw").  fix_endian() turns one into   *)
(* the other.                                                              *)
(***************************************************************************)
EXTENDS Integers, Sequences, Stream

CONSTANTS
  Client,       \* runs of client_pass.c
  NoClient,     \* no connection is being served
  Password,     \* what a user may type as the password
  SECRET_PASSWORD,
  NoPassword,   \* seed of bytes that are the hash of no password
  Iteration,    \* what a user may type as the iteration
  INITIAL_ITER,
  ClientID,     \* ClientID[c]: the ID the run c was built with
  ID,           \* the ID the server was built with
  Backlog,      \* connections that may wait for accept()
  Torn          \* runs of which one recv() may return less than was sent

ASSUME LoginConstants ==
  /\ NoClient \notin Client
  /\ SECRET_PASSWORD \in Password /\ NoPassword \notin Password
  /\ Iteration \subseteq Int
  /\ INITIAL_ITER \in Nat \ {0}
  /\ Backlog \in Nat \ {0}
  /\ Torn \subseteq Client

VARIABLES
  current_iter, \* server: index of stored_hash in the chain
  stored_hash,  \* server: the hash the next login is compared with
  buffer,       \* server: what the stack buffer holds where the hash goes
  conn,         \* server: the accepted client, or NoClient
  backlog,      \* connected clients waiting for accept()
  up, down,     \* up[c], down[c]: the two directions of c's connection
  shut,         \* shut[c]: the server has closed c's connection
  pc,           \* pc[c]: where the run c is
  want,         \* want[c]: what the user of c typed
  response,     \* response[c]: what c's recv() returned
  verdict       \* verdict[c]: what the server decided about c (history)

serverVars == <<current_iter, stored_hash, buffer>>
clientVars == <<pc, want, response>>
vars == <<current_iter, stored_hash, buffer, conn, backlog, up, down, shut,
          pc, want, response, verdict>>

-----------------------------------------------------------------------------
(* Hashes.                                                                 *)

Success == "Authentication successful"
Complaint == {"Invalid format", "Invalid ID", "Invalid iteration",
              "Authentication failed"}
Verdict == Complaint \cup {Success}

Form == {"wire", "raw"}
Hash == [pw : Password \cup {NoPassword}, n : Nat, form : Form]

Junk == [pw |-> NoPassword, n |-> 0, form |-> "raw"]

OtherForm(f) == IF f = "wire" THEN "raw" ELSE "wire"

fix_endian(h) == [pw |-> h.pw, n |-> h.n, form |-> OtherForm(h.form)]

\* sha256() of 32 bytes.  The chain is built on the raw form; the hash of the
\* wire form of a link is no link of any chain.
sha256(h) == IF h.form = "raw" THEN [pw |-> h.pw, n |-> h.n + 1, form |-> "raw"]
                                 ELSE Junk

\* h^i of a password as both programs print and send it.  The loop that goes
\* up the chain starts at 1, so iterations below 1 give h^1 too.
Chain(pw, i) == [pw |-> pw, n |-> IF i < 1 THEN 1 ELSE i, form |-> "wire"]

\* The message of the run c: three tokens, one send().
Message(c) == <<ClientID[c], want[c].iter, Chain(want[c].pw, want[c].iter)>>

-----------------------------------------------------------------------------
Init ==
  /\ current_iter = INITIAL_ITER
  /\ stored_hash = Chain(SECRET_PASSWORD, INITIAL_ITER)
  /\ buffer = Junk
  /\ conn = NoClient
  /\ backlog = <<>>
  /\ up = [c \in Client |-> <<>>]
  /\ down = [c \in Client |-> <<>>]
  /\ shut = [c \in Client |-> FALSE]
  /\ pc = [c \in Client |-> "prompt"]
  /\ want = [c \in Client |-> [pw |-> NoPassword, iter |-> 0]]
  /\ response = [c \in Client |-> "none"]
  /\ verdict = [c \in Client |-> "none"]

-----------------------------------------------------------------------------
(* The client.                                                             *)

\* The user types a password and an iteration, and connect() succeeds: the
\* connection waits in the listen queue, which has room for Backlog of them.
Connect(c, pw, i) ==
  /\ pc[c] = "prompt"
  /\ Len(backlog) < Backlog
  /\ want' = [want EXCEPT ![c] = [pw |-> pw, iter |-> i]]
  /\ backlog' = Append(backlog, c)
  /\ pc' = [pc EXCEPT ![c] = "connected"]
  /\ UNCHANGED <<serverVars, conn, up, down, shut, response, verdict>>

\* (Slip: the length of the hash is left out of msg_len.)
Send_NoHash(c) ==
  /\ pc[c] = "connected"
  /\ up' = [up EXCEPT ![c] = SubSeq(Message(c), 1, 2)]
  /\ pc' = [pc EXCEPT ![c] = "sent"]
  /\ UNCHANGED <<serverVars, conn, backlog, down, shut, want, response, verdict>>

Send(c) ==
  /\ pc[c] = "connected"
  /\ up' = [up EXCEPT ![c] = Message(c)]
  /\ pc' = [pc EXCEPT ![c] = "sent"]
  /\ UNCHANGED <<serverVars, conn, backlog, down, shut, want, response, verdict>>

RecvAnswer(c) ==
  /\ pc[c] = "sent"
  /\ down[c] # <<>>
  /\ response' = [response EXCEPT ![c] = down[c][1]]
  /\ down' = [down EXCEPT ![c] = <<>>]
  /\ pc' = [pc EXCEPT ![c] = "answered"]
  /\ UNCHANGED <<serverVars, conn, backlog, up, shut, want, verdict>>

\* recv() returned 0 or an error: handle_error() exits.
RecvNothing(c) ==
  /\ pc[c] = "sent"
  /\ down[c] = <<>> /\ shut[c]
  /\ pc' = [pc EXCEPT ![c] = "failed"]
  /\ UNCHANGED <<serverVars, conn, backlog, up, down, shut, want, response, verdict>>

\* The run is interrupted: its kernel closes the connection, and what it has
\* sent can still be read.
Die(c) ==
  /\ pc[c] \in {"connected", "sent"}
  /\ pc' = [pc EXCEPT ![c] = "dead"]
  /\ UNCHANGED <<serverVars, conn, backlog, up, down, shut, want, response, verdict>>

-----------------------------------------------------------------------------
(* The server.                                                             *)

Accept ==
  /\ conn = NoClient
  /\ backlog # <<>>
  /\ conn' = Head(backlog)
  /\ backlog' = Tail(backlog)
  /\ UNCHANGED <<serverVars, up, down, shut, clientVars, verdict>>

\* (Slip: a recv() of 0 bytes is tried again.)
RecvEOF_Again ==
  /\ conn # NoClient
  /\ up[conn] = <<>> /\ pc[conn] = "dead"
  /\ UNCHANGED vars

\* recv() returned 0: the client is gone without a message.
RecvEOF ==
  /\ conn # NoClient
  /\ up[conn] = <<>> /\ pc[conn] = "dead"
  /\ shut' = [shut EXCEPT ![conn] = TRUE]
  /\ conn' = NoClient
  /\ UNCHANGED <<serverVars, backlog, up, down, clientVars, verdict>>

\* (Slip: the memcmp() is left out.)
Answer_NoHash(msg, hash) ==
  IF Len(msg) < 2                       THEN "Invalid format"
  ELSE IF msg[1] # ID                   THEN "Invalid ID"
  ELSE IF msg[2] # current_iter - 1     THEN "Invalid iteration"
  ELSE Success

\* What the server answers to the message msg when the 32 bytes after the
\* second '|' in its buffer are, once fix_endian() was applied to them, hash.
Answer(msg, hash) ==
  IF Len(msg) < 2                       THEN "Invalid format"
  ELSE IF msg[1] # ID                   THEN "Invalid ID"
  ELSE IF msg[2] # current_iter - 1     THEN "Invalid iteration"
  ELSE IF fix_endian(sha256(hash)) # stored_hash THEN "Authentication failed"
  ELSE Success

\* The hash of the message, or, when the message ended at its second '|',
\* whatever the connections before left there.
HashRead(msg) == fix_endian(IF Len(msg) = 3 THEN msg[3] ELSE buffer)

\* (Slips: the answer is written before the checks; the connection is not
\* closed and its message is looked at again.)
Reply_TooEarly(c, answer, unread) ==
  /\ down' = [down EXCEPT ![c] = <<Success>>]
  /\ up' = [up EXCEPT ![c] = <<>>]
  /\ shut' = [shut EXCEPT ![c] = TRUE]
  /\ verdict' = [verdict EXCEPT ![c] = answer]
  /\ conn' = NoClient

Reply_NoClose(c, answer, unread) ==
  /\ down' = [down EXCEPT ![c] = <<answer>>]
  /\ verdict' = [verdict EXCEPT ![c] = answer]
  /\ UNCHANGED <<up, shut, conn>>

\* send() and close().  Closing a socket with unread bytes in it resets the
\* connection, and the answer may be lost with it.
Reply(c, answer, unread) ==
  /\ \/ down' = [down EXCEPT ![c] = <<answer>>]
     \/ unread # <<>> /\ UNCHANGED down
  /\ up' = [up EXCEPT ![c] = <<>>]
  /\ shut' = [shut EXCEPT ![c] = TRUE]
  /\ verdict' = [verdict EXCEPT ![c] = answer]
  /\ conn' = NoClient

\* (Slips: the login is not recorded; the iteration moves before the checks.)
Record_Not(answer, hash) == UNCHANGED <<stored_hash, current_iter>>

Record_Always(answer, hash) ==
  /\ stored_hash' = IF answer = Success THEN hash ELSE stored_hash
  /\ current_iter' = current_iter - 1

\* A success replaces the stored hash and moves the iteration.
Record(answer, hash) ==
  /\ stored_hash' = IF answer = Success THEN hash ELSE stored_hash
  /\ current_iter' = IF answer = Success THEN current_iter - 1 ELSE current_iter

\* One recv() and everything up to the next accept(): nothing in it waits.
Serve ==
  /\ conn # NoClient
  /\ up[conn] # <<>>
  /\ \E n \in RecvLens(up[conn], 3, conn \in Torn) :
       LET msg    == Received(up[conn], n)
           hash   == HashRead(msg)
           answer == Answer(msg, hash)
       IN  /\ buffer' = IF n < 2 THEN buffer ELSE hash
           /\ Record(answer, hash)
           /\ Reply(conn, answer, Unread(up[conn], n))
  /\ UNCHANGED <<backlog, clientVars>>

-----------------------------------------------------------------------------
ClientStep(c) ==
  \/ \E pw \in Password, i \in Iteration : Connect(c, pw, i)
  \/ Send(c)
  \/ RecvAnswer(c)
  \/ RecvNothing(c)
  \/ Die(c)

Next == \/ \E c \in Client : ClientStep(c)
        \/ Accept
        \/ RecvEOF
        \/ Serve

Spec == Init /\ [][Next]_vars

\* Neither program waits for a user once the client has connected, so both
\* keep running: each step that is possible is taken.
Fairness ==
  /\ WF_vars(Accept) /\ WF_vars(RecvEOF) /\ WF_vars(Serve)
  /\ \A c \in Client : WF_vars(Send(c)) /\ WF_vars(RecvAnswer(c) \/ RecvNothing(c))

FairSpec == Spec /\ Fairness

-----------------------------------------------------------------------------
(* Properties.                                                             *)

\* The variables have their types; a connection's queue is empty or holds the
\* one message its client sends.
TypeOK ==
  /\ current_iter \in Int
  /\ stored_hash \in Hash
  /\ buffer \in Hash
  /\ conn \in Client \cup {NoClient}
  /\ backlog \in Seq(Client)
  /\ up \in [Client -> {<<>>} \cup {Message(c) : c \in Client}]
  /\ \A c \in Client : up[c] \in {<<>>, Message(c)}
  /\ down \in [Client -> Seq(Verdict)]
  /\ shut \in [Client -> BOOLEAN]
  /\ pc \in [Client -> {"prompt", "connected", "sent", "answered", "failed", "dead"}]
  /\ want \in [Client -> [pw : Password \cup {NoPassword}, iter : Int]]
  /\ response \in [Client -> Verdict \cup {"none"}]
  /\ verdict \in [Client -> Verdict \cup {"none"}]

\* A one-time password is used once: an iteration that let a client in is never
\* below the current one again, and no two clients are let in for the same one,
\* however their connections interleave and whatever part of a message a
\* recv() returns (server_pass.c moves current_iter down with each success).
UsedOnce ==
  \A c \in Client :
    verdict[c] = Success =>
      /\ current_iter <= want[c].iter
      /\ \A d \in Client \ {c} : verdict[d] = Success => want[d].iter # want[c].iter

\* A client is told only what the server decided about that client, and a
\* client that was told something was told after the decision.
AnswersAreVerdicts ==
  \A c \in Client : response[c] # "none" => response[c] = verdict[c]

\* A run whose message the server gets whole is let in only if its user typed
\* the password the server was set up with, and an iteration the server had
\* still to use, whoever else sends messages that arrive in parts and whatever
\* those leave in the buffer.
OnlyThePassword ==
  \A c \in Client \ Torn :
    verdict[c] = Success => want[c].pw = SECRET_PASSWORD /\ want[c].iter < INITIAL_ITER

\* A refusal costs nothing: the iteration and the stored hash change only in
\* the step that lets a client in, and then together.
OnlySuccessAdvances ==
  [][(current_iter' # current_iter \/ stored_hash' # stored_hash)
       => \E c \in Client : /\ verdict[c] = "none" /\ verdict'[c] = Success
                            /\ current_iter' = want[c].iter]_vars

\* Everybody who connects and is not interrupted gets an answer or learns that
\* there will be none: the server, which serves one connection at a time, is
\* never stuck on one of them.
EverybodyAnswered ==
  \A c \in Client : pc[c] = "connected" ~> pc[c] \in {"answered", "failed", "dead"}

\* The server implements the abstract one-time password service.
RulingOf(v) == IF v = "none" THEN "none" ELSE IF v = Success THEN "accepted" ELSE "refused"
Ruling == [c \in Client |-> RulingOf(verdict[c])]

Service == INSTANCE OneTimePassword
             WITH FirstIndex <- INITIAL_ITER, index <- current_iter, ruling <- Ruling

ServiceSpec == Service!ASpec

(* What the program says of itself, and does not do.                       *)

\* server_pass.c prints the stored hash as the one that was expected ("ожидался"),
\* for a login with the next iteration: it is the current_iter-th hash of the
\* password in the byte order of the hash it is compared with.
StoredHashIsExpected == stored_hash = Chain(SECRET_PASSWORD, current_iter)
=============================================================================
