---------------------------- MODULE TimeStampProofs ----------------------------
(***************************************************************************)
(* Theorems about TimeStamp, for any number of runs of the program of any  *)
(* kind, any listen queue and any addresses, with every program killed     *)
(* anywhere.                                                               *)
(*                                                                         *)
(* StampIsOwn and FileIsWritten are not inductive: they need to know       *)
(* what every run has sent and been answered (RunOk), that a run connects  *)
(* once (Once), and that what the service has read is the beginning of     *)
(* what its client sent (Reading).                                         *)
(***************************************************************************)
EXTENDS TimeStamp, SequenceTheorems, TLAPS

-----------------------------------------------------------------------------
(* The inductive invariant.                                                *)

\* A signature with the stamp that was made for it.
Stamped(s, v) == \E a \in Address : s = Signature(v, Tbs(a, v))
Own(s) == \E v \in User : Stamped(s, v)

\* What a run has in memory, by how far it is.
Asking == {"connect", "send", "reply"}
Saving == {"stat", "mkdir", "fopen", "fclose"}
Holds(u) ==
  \/ sig[u] = Nothing /\ at[u] \in {"start"} \cup Ended
  \/ /\ mode[u] = "sign" /\ sig[u] = Signature(u, Nothing)
     /\ at[u] \in Asking \cup Ended
  \/ mode[u] = "sign" /\ Stamped(sig[u], u) /\ at[u] \in Saving \cup Ended
  \/ mode[u] # "sign" /\ Own(sig[u]) /\ at[u] \in Asking \cup Ended

\* What travels to the service.  What a run has sent is the beginning of its
\* request, and what the service has read the beginning of that.
Token == {"0", "1"} \cup User \cup {Tbs(a, v) : a \in Address, v \in User}
Begins(s, t) == Len(s) <= Len(t) /\ \A i \in 1 .. Len(s) : s[i] = t[i]
Sent(u) ==
  /\ up[u] \in Seq(Token)
  /\ at[u] \in {"start", "connect"} => up[u] = <<>>
  /\ at[u] = "send" => Len(up[u]) < Len(Request(u))
  /\ up[u] # <<>> => /\ IF mode[u] = "sign" THEN sig[u].fields = u ELSE Own(sig[u])
                     /\ Begins(up[u], Request(u))

\* What it was answered and has not read: its own stamp, or that the signature is
\* not good.
Answered(u) ==
  /\ at[u] \in {"start", "connect"} => down[u] = <<>>
  /\ \/ down[u] = <<>>
     \/ mode[u] = "sign" /\ \E a \in Address : down[u] = <<Tbs(a, u)>>
     \/ mode[u] # "sign" /\ down[u] = <<FALSE>>

RunOk(u) == /\ Holds(u) /\ Sent(u) /\ Answered(u)
            /\ mode[u] # "sign" => at[u] # "valid"

\* A run is in the queue once, or served, and has not been answered.
Waits(u)   == \E i \in 1 .. Len(queue) : queue[i] = u
Serving(u) == tsa = "serve" /\ client = u
Once ==
  /\ queue \in Seq(User) /\ Len(queue) <= Backlog
  /\ \A i, j \in 1 .. Len(queue) : queue[i] = queue[j] => i = j
  /\ tsa = "serve" => client \in User /\ ~Waits(client)
  /\ \A u \in User : Waits(u) \/ Serving(u) =>
       at[u] \notin {"start", "connect"} /\ down[u] = <<>>

Reading ==
  /\ tsa \in {"accept", "serve", "dead"}
  /\ tsa = "accept" => client = Nothing /\ read = <<>>
  /\ tsa = "serve" => read \in Seq(Token) /\ Begins(read, up[client])

Place == {"start"} \cup Asking \cup Saving \cup Ended
StampInv ==
  /\ mode \in [User -> Mode] /\ at \in [User -> Place]
  /\ DOMAIN sig = User /\ DOMAIN up = User /\ DOMAIN down = User
  /\ \A u \in User : RunOk(u)
  /\ Once /\ Reading
  /\ file \in {Absent, Empty} \/ Own(file)

-----------------------------------------------------------------------------
(* Stamps, strings and requests.                                           *)

\* The structure that is stamped, and what a string is made of it: nothing, or the
\* address.
LEMMA Stamps ==
  ASSUME NEW a, NEW v
  PROVE  /\ Tbs(a, v) # Nothing /\ Tbs(a, v)[3] = v
         /\ Signature(v, Tbs(a, v)).fields = v
         /\ Signature(v, Tbs(a, v)).stamp = Tbs(a, v)
BY DEF Tbs, Nothing, Signature

LEMMA StringsAreShorter ==
  ASSUME NEW a, NEW v, NEW b, NEW w
  PROVE  rsa_decode(Tbs(a, v)) # Tbs(b, w)
<1> DEFINE t == Tbs(a, v)
           P(i) == t[i] = "NUL" /\ \A k \in 1 .. i - 1 : t[k] # "NUL"
           end == CHOOSE i \in 1 .. Len(t) : P(i)
<1>1. Len(t) = 3 /\ t[1] = a /\ t[2] = "NUL"
  BY DEF Tbs
<1> HIDE DEF t
<1>2. \E i \in 1 .. Len(t) : P(i)
  <2>1. CASE a = "NUL"
    <3>1. P(1)
      BY <1>1, <2>1
    <3> QED BY <1>1, <3>1
  <2>2. CASE a # "NUL"
    <3>1. P(2)
      BY <1>1, <2>2
    <3> QED BY <1>1, <3>1
  <2> QED BY <2>1, <2>2
<1>3. end \in 1 .. Len(t) /\ P(end)
  <2> HIDE DEF P
  <2> QED BY <1>2
<1>4. end \in 1 .. 2
  BY <1>1, <1>3
<1> HIDE DEF end
<1>5. \A i \in 1 .. end - 1 : t[i] \in {a}
  BY <1>1, <1>4
<1>6. Len(SubSeq(t, 1, end - 1)) <= 1
  BY <1>4, <1>5, SubSeqProperties
<1>7. rsa_decode(t) = SubSeq(t, 1, end - 1)
  BY DEF rsa_decode, end
<1>8. Len(Tbs(b, w)) = 3
  BY DEF Tbs
<1>9. rsa_decode(t) # Tbs(b, w)
  <2>1. Len(rsa_decode(t)) <= 1
    BY <1>6, <1>7, Zenon
  <2>2. rsa_decode(t) = Tbs(b, w) => Len(rsa_decode(t)) = 3
    BY <1>8, Zenon
  <2> QED BY <2>1, <2>2
<1> QED BY <1>9 DEF t

\* The parts of a request are what may travel.
LEMMA Requests ==
  ASSUME NEW u \in User,
         IF mode[u] = "sign" THEN sig[u].fields = u ELSE Own(sig[u])
  PROVE  /\ mode[u] = "sign" => Request(u) = <<"0", u>>
         /\ mode[u] # "sign" => \E v \in User, a \in Address :
              sig[u] = Signature(v, Tbs(a, v)) /\ Request(u) = <<"1", v, Tbs(a, v)>>
         /\ Len(Request(u)) \in 2 .. 3
         /\ \A i \in 1 .. Len(Request(u)) : Request(u)[i] \in Token
<1>1. CASE mode[u] = "sign"
  <2>1. Request(u) = <<"0", u>>
    BY <1>1 DEF Request
  <2> QED BY <1>1, <2>1 DEF Token
<1>2. CASE mode[u] # "sign"
  <2>1. PICK v \in User, a \in Address : sig[u] = Signature(v, Tbs(a, v))
    BY <1>2 DEF Own, Stamped
  <2>2. Request(u) = <<"1", v, Tbs(a, v)>>
    BY <1>2, <2>1, Stamps DEF Request
  <2>3. Tbs(a, v) \in Token
    BY DEF Token
  <2> HIDE DEF Tbs
  <2>4. \A i \in 1 .. 3 : <<"1", v, Tbs(a, v)>>[i] \in Token
    BY <2>3 DEF Token
  <2> QED BY <1>2, <2>1, <2>2, <2>4
<1> QED BY <1>1, <1>2

-----------------------------------------------------------------------------
(* The initial states.                                                     *)

LEMMA StampInit == Init => StampInv
<1> SUFFICES ASSUME Init PROVE StampInv
  OBVIOUS
<1>1. \A u \in User : RunOk(u)
  BY EmptySeq DEF Init, RunOk, Holds, Sent, Answered
<1>2. Once
  BY EmptySeq, TimeStampConstants DEF Init, Once, Waits, Serving
<1>3. Reading
  BY DEF Init, Reading
<1> QED BY <1>1, <1>2, <1>3 DEF Init, StampInv, Place

-----------------------------------------------------------------------------
(* What a step of one run, or of the service, leaves as it is.             *)

LEMMA RunStays ==
  ASSUME NEW v \in User, RunOk(v), mode'[v] = mode[v], at'[v] = at[v],
         sig'[v] = sig[v], up'[v] = up[v], down'[v] = down[v]
  PROVE  RunOk(v)'
<1>1. Request(v)' = Request(v)
  BY DEF Request
<1>2. Token' = Token
  BY DEF Token
<1>3. Holds(v)' /\ Answered(v)'
  BY DEF RunOk, Holds, Answered
<1>4. Sent(v)'
  BY <1>1, <1>2 DEF RunOk, Sent
<1> QED BY <1>3, <1>4 DEF RunOk

LEMMA OthersStay ==
  ASSUME StampInv, NEW u \in User, RunOk(u)', UNCHANGED mode,
         \A v \in User \ {u} : /\ at'[v] = at[v] /\ sig'[v] = sig[v]
                               /\ up'[v] = up[v] /\ down'[v] = down[v]
  PROVE  \A v \in User : RunOk(v)'
<1> SUFFICES ASSUME NEW v \in User, v # u PROVE RunOk(v)'
  OBVIOUS
<1>1. /\ mode'[v] = mode[v] /\ at'[v] = at[v] /\ sig'[v] = sig[v]
      /\ up'[v] = up[v] /\ down'[v] = down[v] /\ RunOk(v)
  BY DEF StampInv
<1> QED BY <1>1, RunStays

\* A run ends, or goes on saving.
LEMMA RunMoves ==
  ASSUME StampInv, NEW u \in User, NEW label \in (Ended \ {"valid"}) \cup Saving,
         label \in Saving => at[u] \in Saving,
         Goto(u, label), UNCHANGED <<mode, sig, up, down, queue, tsaVars>>,
         file' \in {Absent, Empty} \/ Own(file')
  PROVE  StampInv'
<1>0. /\ at' \in [User -> Place] /\ at'[u] = label
      /\ \A v \in User \ {u} : at'[v] = at[v]
      /\ UNCHANGED <<mode, sig, up, down, queue, tsa, client, read>>
      /\ label \notin {"start", "connect", "send", "valid"}
  BY DEF StampInv, Goto, tsaVars, Place, Ended, Saving
<1>1. RunOk(u)
  BY DEF StampInv
<1>2. Holds(u)'
  BY <1>0, <1>1 DEF RunOk, Holds, Stamped, Saving, Ended, Asking
<1>3. Sent(u)' /\ Answered(u)'
  <2>1. Request(u)' = Request(u) /\ Token' = Token
    BY <1>0 DEF Request, Token
  <2> QED BY <1>0, <1>1, <2>1 DEF RunOk, Sent, Answered
<1>4. RunOk(u)'
  BY <1>0, <1>2, <1>3 DEF RunOk
<1>5. \A v \in User : RunOk(v)'
  BY <1>0, <1>4, OthersStay
<1>6. Once' /\ Reading'
  BY <1>0 DEF StampInv, Once, Reading, Waits, Serving, Token
<1>7. (file \in {Absent, Empty} \/ Own(file))'
  BY DEF Own, Stamped
<1> QED BY <1>0, <1>5, <1>6, <1>7 DEF StampInv

-----------------------------------------------------------------------------
(* Steps of a run.                                                         *)

LEMMA SignStep == ASSUME StampInv, NEW u \in User, Sign(u) PROVE StampInv'
<1>0. /\ at[u] = "start" /\ mode[u] = "sign" /\ sig'[u] = Signature(u, Nothing)
      /\ at' \in [User -> Place] /\ at'[u] = "connect" /\ DOMAIN sig' = User
      /\ \A v \in User \ {u} : at'[v] = at[v] /\ sig'[v] = sig[v]
      /\ UNCHANGED <<mode, up, down, queue, tsa, client, read, file>>
  BY DEF StampInv, Sign, Goto, tsaVars, Place, Asking
<1>1. RunOk(u) /\ up[u] = <<>>
  BY <1>0 DEF StampInv, RunOk, Sent
<1>2. RunOk(u)'
  <2>1. Holds(u)'
    BY <1>0 DEF Holds, Asking
  <2>2. Sent(u)' /\ Answered(u)'
    BY <1>0, <1>1, EmptySeq DEF RunOk, Sent, Answered
  <2> QED BY <1>0, <2>1, <2>2 DEF RunOk
<1>3. \A v \in User : RunOk(v)'
  BY <1>0, <1>2, OthersStay
<1>4. Once'
  BY <1>0 DEF StampInv, Once, Waits, Serving
<1>5. Reading'
  BY <1>0 DEF StampInv, Reading, Token
<1> QED BY <1>0, <1>3, <1>4, <1>5 DEF StampInv, Own, Stamped

LEMMA LoadStep == ASSUME StampInv, NEW u \in User, Load(u) PROVE StampInv'
<1>1. CASE file \in {Absent, Empty}
  <2>1. Goto(u, "failed") /\ UNCHANGED <<mode, sig, up, down, queue, tsaVars, file>>
    BY <1>1 DEF Load
  <2>2. "failed" \in (Ended \ {"valid"}) \cup Saving /\ "failed" \notin Saving
    BY DEF Ended, Saving
  <2> QED BY <1>1, <2>1, <2>2, RunMoves
<1>2. CASE file \notin {Absent, Empty}
  <2> DEFINE label == CASE mode[u] = "view"     -> "ended"
                        [] file.stamp = Nothing -> "invalid"
                        [] OTHER                -> "connect"
  <2>0. Own(file)
    BY <1>2 DEF StampInv
  <2>1. label \in {"ended", "invalid", "connect"}
    OBVIOUS
  <2>2. Goto(u, label)
    BY <1>2 DEF Load
  <2> HIDE DEF label
  <2>3. /\ at[u] = "start" /\ mode[u] # "sign" /\ sig'[u] = file
        /\ at' \in [User -> Place] /\ at'[u] = label /\ DOMAIN sig' = User
        /\ \A v \in User \ {u} : at'[v] = at[v] /\ sig'[v] = sig[v]
        /\ UNCHANGED <<mode, up, down, queue, tsa, client, read, file>>
    BY <1>2, <2>1, <2>2 DEF StampInv, Load, Goto, tsaVars, Place, Asking, Ended
  <2>4. RunOk(u) /\ up[u] = <<>>
    BY <2>3 DEF StampInv, RunOk, Sent
  <2>5. RunOk(u)'
    <3>1. Holds(u)'
      BY <2>0, <2>1, <2>3 DEF Holds, Own, Stamped, Asking, Ended
    <3>2. Sent(u)' /\ Answered(u)'
      BY <2>1, <2>3, <2>4, EmptySeq DEF RunOk, Sent, Answered
    <3> QED BY <2>1, <2>3, <3>1, <3>2 DEF RunOk
  <2>6. \A v \in User : RunOk(v)'
    BY <2>3, <2>5, OthersStay
  <2>7. Once'
    BY <2>1, <2>3 DEF StampInv, Once, Waits, Serving
  <2>8. Reading'
    BY <2>3 DEF StampInv, Reading, Token
  <2> QED BY <2>0, <2>3, <2>6, <2>7, <2>8 DEF StampInv, Own, Stamped
<1> QED BY <1>1, <1>2

LEMMA ConnectStep == ASSUME StampInv, NEW u \in User, Connect(u) PROVE StampInv'
<1>1. CASE tsa = "dead"
  <2>1. /\ Goto(u, Refused(u)) /\ UNCHANGED <<mode, sig, up, down, queue, tsaVars, file>>
    BY <1>1 DEF Connect, userVars
  <2>2. Refused(u) \in (Ended \ {"valid"}) \cup Saving /\ Refused(u) \notin Saving
    BY DEF Refused, Ended, Saving
  <2>3. file \in {Absent, Empty} \/ Own(file)
    BY DEF StampInv
  <2> QED BY <2>1, <2>2, <2>3, RunMoves
<1>2. CASE tsa # "dead"
  <2>1. /\ at[u] = "connect" /\ Len(queue) < Backlog /\ queue' = Append(queue, u)
        /\ at' \in [User -> Place] /\ at'[u] = "send"
        /\ \A v \in User \ {u} : at'[v] = at[v]
        /\ UNCHANGED <<mode, sig, up, down, tsa, client, read, file>>
    BY <1>2 DEF StampInv, Connect, Goto, userVars, tsaVars, Place, Asking
  <2>2. RunOk(u) /\ up[u] = <<>> /\ down[u] = <<>> /\ ~Waits(u) /\ ~Serving(u)
    BY <2>1 DEF StampInv, RunOk, Sent, Answered, Once
  <2>3. IF mode[u] = "sign" THEN sig[u].fields = u ELSE Own(sig[u])
    BY <2>1, <2>2, Stamps DEF RunOk, Holds, Ended, Saving, Signature, Stamped
  <2>4. Request(u)' = Request(u) /\ Len(Request(u)) > 0
    BY <2>1, <2>3, Requests DEF Request
  <2>5. RunOk(u)'
    <3>1. Holds(u)'
      BY <2>1, <2>2 DEF RunOk, Holds, Asking, Ended, Saving, Stamped, Own
    <3>2. Sent(u)' /\ Answered(u)'
      BY <2>1, <2>2, <2>4, EmptySeq DEF RunOk, Sent, Answered
    <3> QED BY <2>1, <3>1, <3>2 DEF RunOk
  <2>6. \A v \in User : RunOk(v)'
    BY <2>1, <2>5, OthersStay
  <2>7. Once'
    <3>1. queue \in Seq(User) /\ Len(queue) \in Nat /\ Backlog \in Nat
      BY TimeStampConstants DEF StampInv, Once
    <3>2. /\ queue' \in Seq(User) /\ Len(queue') = Len(queue) + 1
          /\ queue'[Len(queue) + 1] = u
          /\ \A i \in 1 .. Len(queue) : queue'[i] = queue[i]
      BY <2>1, <3>1, AppendProperties
    <3>3. Len(queue') <= Backlog
      BY <2>1, <3>1, <3>2
    <3>4. \A i \in 1 .. Len(queue) : queue[i] # u
      BY <2>2 DEF Waits
    <3>5. \A i \in 1 .. Len(queue') : i \in 1 .. Len(queue) \/ i = Len(queue) + 1
      BY <3>1, <3>2
    <3>6. \A i, j \in 1 .. Len(queue') : queue'[i] = queue'[j] => i = j
      BY <3>2, <3>4, <3>5 DEF StampInv, Once
    <3>7. \A v : Waits(v)' => Waits(v) \/ v = u
      BY <3>2, <3>5 DEF Waits
    <3>8. tsa' = "serve" => client' \in User /\ ~Waits(client)'
      BY <2>1, <2>2, <3>7 DEF StampInv, Once, Serving, Waits
    <3>9. \A v \in User : (Waits(v) \/ Serving(v))' =>
             at'[v] \notin {"start", "connect"} /\ down'[v] = <<>>
      BY <2>1, <2>2, <3>7 DEF StampInv, Once, Serving
    <3> QED BY <3>2, <3>3, <3>6, <3>8, <3>9 DEF Once
  <2>8. Reading'
    BY <2>1 DEF StampInv, Reading, Token
  <2> QED BY <2>1, <2>6, <2>7, <2>8 DEF StampInv, Own, Stamped
<1> QED BY <1>1, <1>2

LEMMA SendStep == ASSUME StampInv, NEW u \in User, Send(u) PROVE StampInv'
<1> DEFINE sent == Append(up[u], Request(u)[Len(up[u]) + 1])
           label == IF Len(sent) = Len(Request(u)) THEN "reply" ELSE "send"
<1>0. /\ at[u] = "send" /\ UNCHANGED <<mode, sig, dir, file, down, queue, tsaVars>>
      /\ file \in {Absent, Empty} \/ Own(file)
  BY DEF Send, userVars, StampInv
<1>1. CASE \E lb \in {Refused(u), "dead"} : Goto(u, lb) /\ UNCHANGED up
  <2>1. PICK lb \in {Refused(u), "dead"} : Goto(u, lb) /\ UNCHANGED up
    BY <1>1
  <2>2. lb \in (Ended \ {"valid"}) \cup Saving /\ lb \notin Saving
    BY DEF Refused, Ended, Saving
  <2> QED BY <1>0, <2>1, <2>2, RunMoves
<1>2. CASE up' = [up EXCEPT ![u] = sent] /\ Goto(u, label)
  <2>1. label \in {"reply", "send"}
    OBVIOUS
  <2>2. RunOk(u) /\ Len(up[u]) < Len(Request(u)) /\ up[u] \in Seq(Token)
    BY <1>0 DEF StampInv, RunOk, Sent
  <2>3. IF mode[u] = "sign" THEN sig[u].fields = u ELSE Own(sig[u])
    BY <1>0, <2>2, Stamps DEF RunOk, Holds, Ended, Saving, Signature, Stamped
  <2>4. Len(up[u]) \in Nat /\ Len(Request(u)) \in Nat /\ Request(u)[Len(up[u]) + 1] \in Token
    BY <2>2, <2>3, Requests
  <2>5. /\ sent \in Seq(Token) /\ Len(sent) = Len(up[u]) + 1
        /\ sent[Len(up[u]) + 1] = Request(u)[Len(up[u]) + 1]
        /\ \A i \in 1 .. Len(up[u]) : sent[i] = up[u][i]
    BY <2>2, <2>4, AppendProperties
  <2>6. label = "send" => Len(sent) < Len(Request(u))
    BY <2>2, <2>4, <2>5
  <2> HIDE DEF sent, label
  <2>7. /\ at' \in [User -> Place] /\ at'[u] = label /\ DOMAIN up' = User /\ up'[u] = sent
        /\ \A v \in User \ {u} : at'[v] = at[v] /\ up'[v] = up[v]
        /\ UNCHANGED <<mode, sig, down, queue, tsa, client, read, file>>
    BY <1>0, <1>2, <2>1 DEF StampInv, Goto, tsaVars, Place, Asking
  <2>8. \A i \in 1 .. Len(sent) : i \in 1 .. Len(up[u]) \/ i = Len(up[u]) + 1
    BY <2>4, <2>5
  <2>9. Begins(sent, Request(u))
    <3>1. \A i \in 1 .. Len(up[u]) : up[u][i] = Request(u)[i]
      <4>1. up[u] = <<>> => Len(up[u]) = 0
        BY EmptySeq
      <4> QED BY <2>2, <4>1 DEF RunOk, Sent, Begins
    <3> QED BY <2>2, <2>4, <2>5, <2>8, <3>1 DEF Begins
  <2>10. RunOk(u)'
    <3>1. Request(u)' = Request(u) /\ Token' = Token /\ Own(sig[u])' = Own(sig[u])
      BY <2>7 DEF Request, Token, Own, Stamped
    <3>2. Holds(u)'
      BY <1>0, <2>1, <2>2, <2>7 DEF RunOk, Holds, Asking, Ended, Saving, Stamped, Own
    <3>3. Sent(u)'
      BY <2>1, <2>3, <2>5, <2>6, <2>7, <2>9, <3>1 DEF Sent, Begins
    <3>4. Answered(u)'
      BY <2>1, <2>2, <2>7 DEF RunOk, Answered
    <3> QED BY <2>1, <2>7, <3>2, <3>3, <3>4 DEF RunOk
  <2>11. \A v \in User : RunOk(v)'
    BY <2>7, <2>10, OthersStay
  <2>12. Once'
    BY <2>1, <2>7 DEF StampInv, Once, Waits, Serving
  <2>13. Reading'
    <3>1. Token' = Token
      BY DEF Token
    <3>2. ASSUME tsa = "serve" PROVE Begins(read, up'[client])
      <4>1. CASE client = u
        <5>1. read \in Seq(Token) /\ Begins(read, up[u])
          BY <3>2, <4>1 DEF StampInv, Reading
        <5>2. Len(read) \in Nat /\ up'[client] = sent
          BY <2>7, <4>1, <5>1
        <5> QED BY <2>4, <2>5, <5>1, <5>2 DEF Begins
      <4>2. CASE client # u
        <5>1. client \in User
          BY <3>2 DEF StampInv, Once
        <5> QED BY <2>7, <3>2, <4>2, <5>1 DEF StampInv, Reading, Begins
      <4> QED BY <4>1, <4>2
    <3> QED BY <2>7, <3>1, <3>2 DEF StampInv, Reading, Begins
  <2> QED BY <2>7, <2>11, <2>12, <2>13 DEF StampInv, Own, Stamped
<1> QED BY <1>1, <1>2 DEF Send

LEMMA ReceiveStampStep == ASSUME StampInv, NEW u \in User, ReceiveStamp(u) PROVE StampInv'
<1>0. /\ at[u] = "reply" /\ mode[u] = "sign" /\ down[u] # <<>> /\ RunOk(u)
      /\ sig'[u] = Signature(u, Head(down[u])) /\ down'[u] = Tail(down[u])
      /\ at' \in [User -> Place] /\ at'[u] = "stat"
      /\ DOMAIN sig' = User /\ DOMAIN down' = User
      /\ \A v \in User \ {u} : at'[v] = at[v] /\ sig'[v] = sig[v] /\ down'[v] = down[v]
      /\ UNCHANGED <<mode, up, queue, tsa, client, read, file>>
  BY DEF StampInv, ReceiveStamp, Goto, tsaVars, Place, Saving
<1>1. PICK a \in Address : down[u] = <<Tbs(a, u)>>
  BY <1>0 DEF RunOk, Answered
<1>2. sig'[u] = Signature(u, Tbs(a, u)) /\ down'[u] = <<>>
  BY <1>0, <1>1
<1>3. RunOk(u)'
  <2>1. Holds(u)'
    BY <1>0, <1>2 DEF Holds, Stamped, Saving
  <2>2. sig[u].fields = u \/ up[u] = <<>>
    BY <1>0 DEF RunOk, Sent
  <2>3. sig'[u].fields = u
    BY <1>2, Stamps
  <2>4. up[u] # <<>> => Request(u)' = Request(u)
    BY <1>0, <2>2, <2>3 DEF Request
  <2>5. Token' = Token
    BY DEF Token
  <2>6. Sent(u)'
    BY <1>0, <2>3, <2>4, <2>5 DEF RunOk, Sent
  <2>7. Answered(u)'
    BY <1>0, <1>2 DEF Answered
  <2> QED BY <1>0, <2>1, <2>6, <2>7 DEF RunOk
<1>4. \A v \in User : RunOk(v)'
  BY <1>0, <1>3, OthersStay
<1>5. Once'
  BY <1>0, <1>2 DEF StampInv, Once, Waits, Serving
<1>6. Reading'
  BY <1>0 DEF StampInv, Reading, Token
<1> QED BY <1>0, <1>4, <1>5, <1>6 DEF StampInv, Own, Stamped

LEMMA ReceiveVerdictStep == ASSUME StampInv, NEW u \in User, ReceiveVerdict(u) PROVE StampInv'
<1>0. /\ at[u] = "reply" /\ mode[u] = "verify" /\ down[u] # <<>> /\ RunOk(u)
      /\ down'[u] = Tail(down[u]) /\ DOMAIN down' = User
      /\ \A v \in User \ {u} : down'[v] = down[v]
      /\ UNCHANGED <<mode, sig, up, queue, tsa, client, read, file>>
  BY DEF StampInv, ReceiveVerdict, userVars, tsaVars
<1>1. down[u] = <<FALSE>>
  BY <1>0 DEF RunOk, Answered
<1>2. down'[u] = <<>> /\ Goto(u, "invalid")
  <2>1. PICK same \in BOOLEAN :
               Goto(u, IF Head(down[u]) /\ same THEN "valid" ELSE "invalid")
    BY DEF ReceiveVerdict
  <2>2. \A x : Head(<<x>>) = x
    OBVIOUS
  <2>3. (IF Head(down[u]) /\ same THEN "valid" ELSE "invalid") = "invalid"
    BY <1>1, <2>2, Zenon
  <2>4. Tail(<<FALSE>>) = <<>>
    OBVIOUS
  <2>5. down'[u] = <<>>
    BY <1>0, <1>1, <2>4, Zenon
  <2> QED BY <2>1, <2>3, <2>5, Zenon
<1>3. /\ at' \in [User -> Place] /\ at'[u] = "invalid"
      /\ \A v \in User \ {u} : at'[v] = at[v]
  BY <1>2 DEF StampInv, Goto, Place, Ended
<1>4. RunOk(u)'
  <2>1. Request(u)' = Request(u) /\ Token' = Token
    BY <1>0 DEF Request, Token
  <2>2. Holds(u)'
    BY <1>0, <1>3 DEF RunOk, Holds, Stamped, Own, Saving, Asking, Ended
  <2>3. Sent(u)' /\ Answered(u)'
    BY <1>0, <1>2, <1>3, <2>1 DEF RunOk, Sent, Answered
  <2> QED BY <1>3, <2>2, <2>3 DEF RunOk
<1>5. \A v \in User : RunOk(v)'
  BY <1>0, <1>3, <1>4, OthersStay
<1>6. Once'
  BY <1>0, <1>2, <1>3 DEF StampInv, Once, Waits, Serving
<1>7. Reading'
  BY <1>0 DEF StampInv, Reading, Token
<1> QED BY <1>0, <1>3, <1>5, <1>6, <1>7 DEF StampInv, Own, Stamped

\* The steps that neither send nor receive.
LEMMA SavingStep ==
  ASSUME StampInv, NEW u \in User,
         \/ NoAnswer(u) \/ CheckDirectory(u) \/ MakeDirectory(u)
         \/ OpenFile(u) \/ WriteFile(u) \/ UserDies(u)
  PROVE  StampInv'
<1>0. /\ file \in {Absent, Empty} \/ Own(file)
      /\ Refused(u) \in Ended \ {"valid"} /\ Refused(u) \notin Saving
      /\ {"failed", "ended", "dead"} \subseteq Ended \ {"valid"}
      /\ {"fopen", "mkdir", "fclose"} \subseteq Saving
      /\ {"stat", "fopen", "mkdir", "fclose"} \subseteq Saving
      /\ {"failed", "ended", "dead"} \cap Saving = {}
  BY DEF StampInv, Refused, Ended, Saving
<1>1. CASE NoAnswer(u)
  BY <1>0, <1>1, RunMoves DEF NoAnswer, userVars
<1>2. CASE CheckDirectory(u)
  BY <1>0, <1>2, RunMoves DEF CheckDirectory, userVars
<1>3. CASE MakeDirectory(u)
  BY <1>0, <1>3, RunMoves DEF MakeDirectory
<1>4. CASE OpenFile(u)
  BY <1>0, <1>4, RunMoves DEF OpenFile
<1>5. CASE WriteFile(u)
  <2>1. at[u] = "fclose" /\ file' = sig[u]
    BY <1>5 DEF WriteFile
  <2>2. Stamped(sig[u], u)
    BY <2>1 DEF StampInv, RunOk, Holds, Ended, Asking
  <2>3. Own(file')
    BY <2>1, <2>2 DEF Own, Stamped
  <2> QED BY <1>0, <1>5, <2>3, RunMoves DEF WriteFile
<1>6. CASE UserDies(u)
  BY <1>0, <1>6, RunMoves DEF UserDies, userVars
<1> QED BY <1>1, <1>2, <1>3, <1>4, <1>5, <1>6

-----------------------------------------------------------------------------
(* Steps of the service.                                                   *)

\* Steps of which the runs see nothing.
LEMMA RunsStay ==
  ASSUME StampInv, UNCHANGED <<mode, at, sig, up, down, file>>, Once', Reading'
  PROVE  StampInv'
<1>1. ASSUME NEW v \in User PROVE RunOk(v)'
  BY RunStays DEF StampInv
<1> QED BY <1>1 DEF StampInv, Own, Stamped

LEMMA AcceptStep == StampInv /\ Accept => StampInv'
<1> SUFFICES ASSUME StampInv, Accept PROVE StampInv'
  OBVIOUS
<1>0. /\ UNCHANGED <<mode, at, sig, up, down, read, file>> /\ tsa = "accept" /\ tsa' = "serve"
      /\ queue # <<>> /\ client' = Head(queue) /\ queue' = Tail(queue)
      /\ queue \in Seq(User) /\ read = <<>>
  BY DEF Accept, userVars, StampInv, Once, Reading
<1>1. /\ Len(queue) \in Nat \ {0} /\ client' = queue[1] /\ client' \in User
      /\ queue' \in Seq(User) /\ Len(queue') = Len(queue) - 1
      /\ \A i \in 1 .. Len(queue') : queue'[i] = queue[i + 1]
  <2>1. Len(queue) \in Nat \ {0}
    BY <1>0, EmptySeq
  <2>2. Head(queue) = queue[1] /\ queue[1] \in User
    BY <1>0, <2>1, ElementOfSeq
  <2> QED BY <1>0, <2>1, <2>2, HeadTailProperties
<1>2. Once'
  <2>1. \A i \in 1 .. Len(queue') : i + 1 \in 1 .. Len(queue) /\ i + 1 # 1
    BY <1>1
  <2>2. \A i, j \in 1 .. Len(queue') : queue'[i] = queue'[j] => i = j
    <3> SUFFICES ASSUME NEW i \in 1 .. Len(queue'), NEW j \in 1 .. Len(queue'),
                        queue'[i] = queue'[j]
                 PROVE  i = j
      OBVIOUS
    <3>1. i + 1 = j + 1
      BY <1>1, <2>1 DEF StampInv, Once
    <3> QED BY <1>1, <3>1
  <2>3. ~Waits(client)'
    <3>1. \A i \in 1 .. Len(queue') : queue[i + 1] # queue[1]
      BY <1>1, <2>1 DEF StampInv, Once
    <3> QED BY <1>1, <3>1 DEF Waits
  <2>4. \A v : Waits(v)' => Waits(v)
    BY <1>1, <2>1 DEF Waits
  <2>5. Waits(queue[1])
    BY <1>1 DEF Waits
  <2>6. Len(queue') <= Backlog
    BY <1>1, TimeStampConstants DEF StampInv, Once
  <2>7. \A v \in User : (Waits(v) \/ Serving(v))' =>
           at'[v] \notin {"start", "connect"} /\ down'[v] = <<>>
    BY <1>0, <1>1, <2>4, <2>5 DEF StampInv, Once, Serving
  <2> QED BY <1>1, <2>2, <2>3, <2>6, <2>7 DEF Once
<1>3. Reading'
  <2>1. up[client'] \in Seq(Token)
    BY <1>1 DEF StampInv, RunOk, Sent
  <2>2. Begins(read, up'[client'])
    BY <1>0, <2>1, EmptySeq DEF Begins
  <2>3. read' \in Seq(Token')
    BY <1>0, EmptySeq
  <2> QED BY <1>0, <2>2, <2>3 DEF Reading, Begins
<1> QED BY <1>0, <1>2, <1>3, RunsStay

LEMMA ReadStep == StampInv /\ Read => StampInv'
<1> SUFFICES ASSUME StampInv, Read PROVE StampInv'
  OBVIOUS
<1>0. /\ UNCHANGED <<mode, at, sig, up, down, queue, tsa, client, file>> /\ tsa = "serve"
      /\ Len(read) < Len(up[client]) /\ read' = Append(read, up[client][Len(read) + 1])
      /\ read \in Seq(Token) /\ Begins(read, up[client]) /\ client \in User
  BY DEF Read, userVars, StampInv, Once, Reading
<1>1. up[client] \in Seq(Token)
  BY <1>0 DEF StampInv, RunOk, Sent
<1>2. /\ Len(read) \in Nat /\ Len(up[client]) \in Nat
      /\ up[client][Len(read) + 1] \in Token
  BY <1>0, <1>1, ElementOfSeq
<1>3. /\ read' \in Seq(Token) /\ Len(read') = Len(read) + 1
      /\ read'[Len(read) + 1] = up[client][Len(read) + 1]
      /\ \A i \in 1 .. Len(read) : read'[i] = read[i]
  BY <1>0, <1>2, AppendProperties
<1>4. \A i \in 1 .. Len(read') : i \in 1 .. Len(read) \/ i = Len(read) + 1
  BY <1>2, <1>3
<1>5. Reading'
  <2>1. Begins(read', up[client])
    BY <1>0, <1>2, <1>3, <1>4 DEF Begins
  <2>2. Token' = Token
    BY DEF Token
  <2> QED BY <1>0, <1>3, <2>1, <2>2 DEF StampInv, Reading, Begins
<1>6. Once'
  BY <1>0 DEF StampInv, Once, Waits, Serving
<1> QED BY <1>0, <1>5, <1>6, RunsStay

LEMMA ReadNothingStep == StampInv /\ ReadNothing => StampInv'
<1> SUFFICES ASSUME StampInv, ReadNothing PROVE StampInv'
  OBVIOUS
<1>0. /\ UNCHANGED <<mode, at, sig, up, down, queue, file>>
      /\ tsa' = "accept" /\ client' = Nothing /\ read' = <<>>
  BY DEF ReadNothing, userVars, CloseConnection
<1>1. Once' /\ Reading'
  BY <1>0 DEF StampInv, Once, Reading, Waits, Serving
<1> QED BY <1>0, <1>1, RunsStay

LEMMA TsaDiesStep == StampInv /\ TsaDies => StampInv'
<1> SUFFICES ASSUME StampInv, TsaDies PROVE StampInv'
  OBVIOUS
<1>0. UNCHANGED <<mode, at, sig, up, down, queue, file>> /\ tsa' = "dead"
  BY DEF TsaDies, userVars
<1>1. Once' /\ Reading'
  BY <1>0 DEF StampInv, Once, Reading, Waits, Serving
<1> QED BY <1>0, <1>1, RunsStay

\* A complete request is that of the client.
LEMMA CompleteRequests ==
  ASSUME StampInv, tsa = "serve", Complete
  PROVE  /\ client \in User
         /\ read[1] = "0" => mode[client] = "sign" /\ read[2] = client
         /\ read[1] = "1" =>
              /\ mode[client] # "sign"
              /\ \E v \in User, a \in Address : read[2] = v /\ read[3] = Tbs(a, v)
<1>0. /\ client \in User /\ read \in Seq(Token) /\ Begins(read, up[client])
      /\ up[client] \in Seq(Token) /\ read # <<>>
      /\ Len(read) = IF read[1] = "0" THEN 2 ELSE 3
  BY DEF StampInv, Once, Reading, RunOk, Sent, Complete
<1>1. Len(read) >= 2 /\ Len(up[client]) >= 2 /\ up[client] # <<>>
  BY <1>0, EmptySeq DEF Begins
<1>2. /\ IF mode[client] = "sign" THEN sig[client].fields = client ELSE Own(sig[client])
      /\ Begins(up[client], Request(client))
  BY <1>0, <1>1 DEF StampInv, RunOk, Sent
<1>3. \A i \in 1 .. Len(read) : read[i] = Request(client)[i]
  BY <1>0, <1>2 DEF Begins
<1>4. read[1] = Request(client)[1] /\ read[2] = Request(client)[2]
  BY <1>1, <1>3, <1>0
<1>5. CASE mode[client] = "sign"
  <2>1. Request(client) = <<"0", client>>
    BY <1>0, <1>2, <1>5, Requests
  <2> QED BY <1>0, <1>4, <1>5, <2>1
<1>6. CASE mode[client] # "sign"
  <2>1. PICK v \in User, a \in Address : Request(client) = <<"1", v, Tbs(a, v)>>
    BY <1>0, <1>2, <1>6, Requests
  <2>2. read[1] = "1" /\ read[2] = v
    BY <1>4, <2>1
  <2>3. read[3] = Tbs(a, v)
    <3>1. 3 \in 1 .. Len(read)
      BY <1>0, <2>2
    <3> QED BY <1>3, <2>1, <3>1
  <2> QED BY <1>0, <1>6, <2>2, <2>3
<1> QED BY <1>5, <1>6

\* The service answers, and closes the connection.
LEMMA Answers ==
  ASSUME StampInv, tsa = "serve", NEW answer,
         \/ mode[client] = "sign" /\ \E a \in Address : answer = Tbs(a, client)
         \/ mode[client] # "sign" /\ answer = FALSE,
         down' = [down EXCEPT ![client] = Append(@, answer)],
         CloseConnection, UNCHANGED <<mode, at, sig, up, queue, file>>
  PROVE  StampInv'
<1>0. client \in User /\ down[client] = <<>>
  BY DEF StampInv, Once, Serving
<1>1. /\ DOMAIN down' = User /\ down'[client] = <<answer>>
      /\ \A v \in User \ {client} : down'[v] = down[v]
      /\ tsa' = "accept" /\ client' = Nothing /\ read' = <<>>
  <2>1. Append(<<>>, answer) = <<answer>>
    OBVIOUS
  <2> QED BY <1>0, <2>1 DEF StampInv, CloseConnection
<1>2. ~Waits(client) /\ at[client] \notin {"start", "connect"}
  BY <1>0 DEF StampInv, Once, Serving
<1>3. ASSUME NEW v \in User PROVE RunOk(v)'
  <2>1. CASE v = client
    <3>0. RunOk(v)
      BY DEF StampInv
    <3>1. Holds(v)'
      BY <3>0 DEF RunOk, Holds, Stamped, Own
    <3>2. Request(v)' = Request(v) /\ Token' = Token
      BY DEF Request, Token
    <3>3. Sent(v)'
      BY <3>0, <3>2 DEF RunOk, Sent
    <3>4. Answered(v)'
      <4>1. CASE answer = FALSE /\ mode[client] # "sign"
        <5>1. down'[v] = <<FALSE>>
          BY <1>1, <2>1, <4>1, Zenon
        <5>2. at'[v] \notin {"start", "connect"} /\ mode'[v] # "sign"
          BY <1>2, <2>1, <4>1
        <5> QED BY <5>1, <5>2, Zenon DEF Answered
      <4>2. CASE mode[client] = "sign" /\ \E a \in Address : answer = Tbs(a, client)
        BY <1>1, <1>2, <2>1, <4>2 DEF Answered
      <4> QED BY <4>1, <4>2
    <3> QED BY <3>0, <3>1, <3>3, <3>4 DEF RunOk
  <2>2. CASE v # client
    <3>1. RunOk(v) /\ down'[v] = down[v]
      BY <1>1, <2>2 DEF StampInv
    <3> QED BY <3>1, RunStays
  <2> QED BY <2>1, <2>2
<1>4. Once'
  <2>1. \A v \in User : Waits(v) => v # client
    BY <1>2
  <2> QED BY <1>1, <2>1 DEF StampInv, Once, Waits, Serving
<1>5. Reading'
  BY <1>1 DEF Reading
<1> QED BY <1>1, <1>3, <1>4, <1>5 DEF StampInv, Own, Stamped

LEMMA StampStep == StampInv /\ Stamp => StampInv'
<1> SUFFICES ASSUME StampInv, Stamp PROVE StampInv'
  OBVIOUS
<1>0. UNCHANGED <<mode, at, sig, up, queue, file>> /\ tsa = "serve"
  BY DEF Stamp, userVars
<1>1. CASE tsa' = "dead"
  <2>1. UNCHANGED <<down, client, read>>
    BY <1>1 DEF Stamp, CloseConnection
  <2>2. Once' /\ Reading'
    BY <1>0, <1>1, <2>1 DEF StampInv, Once, Reading, Waits, Serving
  <2> QED BY <1>0, <2>1, <2>2, RunsStay
<1>2. CASE tsa' # "dead"
  <2>1. mode[client] = "sign" /\ read[2] = client
    BY CompleteRequests DEF Stamp
  <2>2. PICK a \in Address : down' = [down EXCEPT ![client] = Append(@, Tbs(a, client))]
    BY <1>2, <2>1 DEF Stamp
  <2>3. CloseConnection
    BY <1>2 DEF Stamp
  <2> QED BY <1>0, <2>1, <2>2, <2>3, Answers
<1> QED BY <1>1, <1>2

LEMMA VerifyStep == StampInv /\ Verify => StampInv'
<1> SUFFICES ASSUME StampInv, Verify PROVE StampInv'
  OBVIOUS
<1>0. /\ UNCHANGED <<mode, at, sig, up, queue, file>> /\ tsa = "serve" /\ CloseConnection
      /\ Complete /\ read[1] = "1"
  BY DEF Verify, userVars
<1>1. PICK v \in User, a \in Address : read[2] = v /\ read[3] = Tbs(a, v)
  BY <1>0, CompleteRequests
<1>2. mode[client] # "sign"
  BY <1>0, CompleteRequests
<1>3. PICK address \in Address :
        down' = [down EXCEPT ![client] =
                   Append(@, rsa_decode(read[3]) = Tbs(address, read[2]))]
  BY DEF Verify
<1>4. (rsa_decode(read[3]) = Tbs(address, read[2])) = FALSE
  BY <1>1, StringsAreShorter
<1>5. down' = [down EXCEPT ![client] = Append(@, FALSE)]
  BY <1>3, <1>4, Zenon
<1> QED BY <1>0, <1>2, <1>5, Answers

-----------------------------------------------------------------------------
(* Every step.                                                             *)

LEMMA StampStutters == StampInv /\ UNCHANGED vars => StampInv'
<1> SUFFICES ASSUME StampInv, UNCHANGED vars PROVE StampInv'
  OBVIOUS
<1>1. Once' /\ Reading'
  BY DEF vars, StampInv, Once, Reading, Waits, Serving, Token
<1> QED BY <1>1, RunsStay DEF vars

LEMMA StampNext == StampInv /\ [Next]_vars => StampInv'
<1> SUFFICES ASSUME StampInv, [Next]_vars PROVE StampInv'
  OBVIOUS
<1>1. CASE \E u \in User : Run(u) \/ UserDies(u)
  BY <1>1, SignStep, LoadStep, ConnectStep, SendStep, ReceiveStampStep,
     ReceiveVerdictStep, SavingStep DEF Run
<1>2. CASE Service \/ TsaDies
  BY <1>2, AcceptStep, ReadStep, ReadNothingStep, StampStep, VerifyStep, TsaDiesStep
     DEF Service
<1>3. CASE UNCHANGED vars
  BY <1>3, StampStutters
<1> QED BY <1>1, <1>2, <1>3 DEF Next

-----------------------------------------------------------------------------
(* The theorems.                                                           *)

\* The inductive invariant holds in every run of the programs and the service.
THEOREM StampAlways == Spec => []StampInv
BY StampInit, StampNext, PTL DEF Spec

\* Whatever runs share the service and the file, and whoever is killed, a
\* signature that is saved, or that anybody loads, is whole, and its stamp was
\* made for its own fields.
THEOREM StampOwn == Spec => []StampIsOwn
<1>1. ASSUME StampInv PROVE StampIsOwn
  <2>1. \A s : Own(s) => s.fields \in User /\ OwnStamp(s)
    BY Stamps DEF Own, Stamped, OwnStamp
  <2>2. ASSUME NEW u \in User
        PROVE  /\ Whole(sig[u]) => sig[u].fields \in User
               /\ Len(up[u]) <= 3 /\ Len(down[u]) <= 1
               /\ at[u] = "send" => Len(up[u]) < Len(Request(u))
               /\ mode[u] # "sign" /\ Whole(sig[u]) => OwnStamp(sig[u])
    <3>0. RunOk(u)
      BY <1>1 DEF StampInv
    <3>1. Whole(sig[u]) => sig[u].fields \in User
      <4>1. sig[u] = Nothing => ~Whole(sig[u])
        BY DEF Whole
      <4>2. Signature(u, Nothing).fields = u
        BY DEF Signature
      <4>3. Stamped(sig[u], u) => Own(sig[u])
        BY DEF Own
      <4> QED BY <2>1, <3>0, <4>1, <4>2, <4>3 DEF RunOk, Holds
    <3>2. Len(up[u]) <= 3
      <4>1. up[u] = <<>> => Len(up[u]) = 0
        BY EmptySeq, Zenon
      <4>2. CASE up[u] # <<>>
        <5>1. Len(up[u]) <= Len(Request(u))
          BY <3>0, <4>2 DEF RunOk, Sent, Begins
        <5>2. Len(Request(u)) \in 2 .. 3 /\ Len(up[u]) \in Nat
          BY <3>0, <4>2, Requests DEF RunOk, Sent
        <5>3. \A k \in Nat, l \in 2 .. 3 : k <= l => k <= 3
          OBVIOUS
        <5> QED BY <5>1, <5>2, <5>3, Zenon
      <4>3. \A k : k = 0 => k <= 3
        OBVIOUS
      <4> QED BY <4>1, <4>2, <4>3, EmptySeq, Zenon
    <3>3. Len(down[u]) <= 1
      <4>1. \A x : Len(<<x>>) = 1
        OBVIOUS
      <4>2. Len(down[u]) = 0 \/ Len(down[u]) = 1
        BY <3>0, <4>1, EmptySeq, Zenon DEF RunOk, Answered
      <4>3. \A k : k = 0 \/ k = 1 => k <= 1
        OBVIOUS
      <4> QED BY <4>2, <4>3, Zenon
    <3>4. mode[u] # "sign" /\ Whole(sig[u]) => OwnStamp(sig[u])
      BY <2>1, <3>0 DEF RunOk, Holds, Whole
    <3> QED BY <3>0, <3>1, <3>2, <3>3, <3>4 DEF RunOk, Sent
  <2>3. StampTypeOK
    <3>1. Place = {"start", "connect", "send", "reply", "stat", "mkdir", "fopen", "fclose"}
                    \cup Ended
      BY DEF Place, Asking, Saving
    <3> QED BY <1>1, <2>2, <3>1 DEF StampInv, StampTypeOK, Once, Reading
  <2>4. Whole(file) => OwnStamp(file)
    BY <1>1, <2>1 DEF StampInv, Whole
  <2> QED BY <2>2, <2>3, <2>4 DEF StampIsOwn
<1> QED BY <1>1, StampAlways, PTL

-----------------------------------------------------------------------------
(* The signature file.                                                     *)

\* A signer that has emptied the file, and has not written it.
Emptied(u) == mode[u] = "sign" /\ at[u] \in {"fclose", "dead"} /\ Stamped(sig[u], u)

FileInv ==
  /\ \A u \in User : mode[u] = "sign" /\ at[u] = "ended" => file # Absent
  /\ file = Empty => \E u \in User : Emptied(u)

\* A signature is neither no file nor an empty one.
LEMMA SignaturesAreBytes ==
  ASSUME NEW u, NEW t
  PROVE  Signature(u, t) # Absent /\ Signature(u, t) # Empty
<1>1. /\ DOMAIN Signature(u, t) = {"fields", "stamp"}
      /\ DOMAIN Absent = {"no"} /\ DOMAIN Empty = {"no"}
  BY DEF Signature, Absent, Empty
<1>2. {"fields", "stamp"} # {"no"}
  OBVIOUS
<1> QED BY <1>1, <1>2, Zenon

\* What a step of a run that leaves the file alone does.
LEMMA FileStays ==
  ASSUME StampInv, NEW u \in User, Run(u) \/ UserDies(u), ~OpenFile(u), ~WriteFile(u)
  PROVE  /\ UNCHANGED <<mode, file>> /\ at[u] # "dead"
         /\ \E label : /\ at' = [at EXCEPT ![u] = label]
                       /\ label = "ended" => mode[u] # "sign"
                       /\ at[u] = "fclose" => label = "dead" /\ sig' = sig
         /\ \A w \in User \ {u} : sig'[w] = sig[w]
<1>0. at \in [User -> Place] /\ DOMAIN sig = User
  BY DEF StampInv
<1>1. CASE Sign(u)
  BY <1>0, <1>1 DEF Sign, Goto
<1>2. CASE Load(u)
  BY <1>0, <1>2 DEF Load, Goto
<1>3. CASE Connect(u)
  BY <1>0, <1>3 DEF Connect, Goto, userVars, Refused
<1>4. CASE Send(u)
  BY <1>0, <1>4 DEF Send, Goto, userVars, Refused
<1>5. CASE ReceiveStamp(u)
  BY <1>0, <1>5 DEF ReceiveStamp, Goto
<1>6. CASE ReceiveVerdict(u)
  BY <1>0, <1>6 DEF ReceiveVerdict, Goto, userVars
<1>7. CASE NoAnswer(u)
  BY <1>0, <1>7 DEF NoAnswer, Goto, userVars, Refused
<1>8. CASE CheckDirectory(u) \/ MakeDirectory(u)
  BY <1>0, <1>8 DEF CheckDirectory, MakeDirectory, Goto, userVars
<1>9. CASE UserDies(u)
  BY <1>0, <1>9 DEF UserDies, Goto, userVars, Closed, Ended
<1> QED BY <1>1, <1>2, <1>3, <1>4, <1>5, <1>6, <1>7, <1>8, <1>9 DEF Run

LEMMA FileNext == StampInv /\ FileInv /\ [Next]_vars => FileInv'
<1> SUFFICES ASSUME StampInv, FileInv, [Next]_vars PROVE FileInv'
  OBVIOUS
<1>1. ASSUME NEW u \in User, OpenFile(u) PROVE FileInv'
  <2>1. /\ at[u] = "fopen" /\ at' = [at EXCEPT ![u] = "fclose"] /\ file' = Empty
        /\ UNCHANGED <<mode, sig>> /\ at \in [User -> Place]
    BY <1>1 DEF OpenFile, Goto, StampInv
  <2>2. mode[u] = "sign" /\ Stamped(sig[u], u)
    BY <2>1 DEF StampInv, RunOk, Holds, Asking, Ended
  <2>3. Emptied(u)'
    BY <2>1, <2>2 DEF Emptied, Stamped
  <2>4. Empty # Absent
    <3>1. Empty.no = "bytes" /\ Absent.no = "file"
      BY DEF Empty, Absent
    <3>2. "bytes" # "file"
      OBVIOUS
    <3> QED BY <3>1, <3>2, Zenon
  <2> QED BY <2>1, <2>3, <2>4 DEF FileInv
<1>2. ASSUME NEW u \in User, WriteFile(u) PROVE FileInv'
  <2>1. at[u] = "fclose" /\ file' = sig[u]
    BY <1>2 DEF WriteFile
  <2>2. Stamped(sig[u], u)
    BY <2>1 DEF StampInv, RunOk, Holds, Asking, Ended
  <2>3. file' # Absent /\ file' # Empty
    BY <2>1, <2>2, SignaturesAreBytes DEF Stamped
  <2> QED BY <2>3 DEF FileInv
<1>3. ASSUME NEW u \in User, Run(u) \/ UserDies(u), ~OpenFile(u), ~WriteFile(u)
      PROVE  FileInv'
  <2>1. /\ UNCHANGED <<mode, file>> /\ at[u] # "dead" /\ at \in [User -> Place]
        /\ \A w \in User \ {u} : sig'[w] = sig[w]
    BY <1>3, FileStays DEF StampInv
  <2>2. PICK label : /\ at' = [at EXCEPT ![u] = label]
                     /\ label = "ended" => mode[u] # "sign"
                     /\ at[u] = "fclose" => label = "dead" /\ sig' = sig
    BY <1>3, FileStays
  <2>3. ASSUME NEW w \in User, Emptied(w) PROVE Emptied(w)'
    <3>1. CASE w = u
      BY <2>1, <2>2, <2>3, <3>1 DEF Emptied, Stamped
    <3>2. CASE w # u
      BY <2>1, <2>2, <2>3, <3>2 DEF Emptied, Stamped
    <3> QED BY <3>1, <3>2
  <2>4. ASSUME NEW w \in User, mode'[w] = "sign", at'[w] = "ended"
        PROVE  file' # Absent
    BY <2>1, <2>2, <2>4 DEF FileInv
  <2> QED BY <2>1, <2>3, <2>4 DEF FileInv
<1>4. CASE Service \/ TsaDies \/ UNCHANGED vars
  <2>1. UNCHANGED <<mode, at, sig, file>>
    BY <1>4 DEF Service, Accept, Read, ReadNothing, Stamp, Verify, TsaDies, userVars, vars
  <2> QED BY <2>1 DEF FileInv, Emptied, Stamped
<1> QED BY <1>1, <1>2, <1>3, <1>4 DEF Next

\* Once a signer has ended well, the file is there, and it is without a signature
\* only while a signer that has a stamp of its own has emptied it, or was killed.
THEOREM StampFile == Spec => []FileIsWritten
<1>1. Init => FileInv
  <2>1. Absent # Empty
    <3>1. Empty.no = "bytes" /\ Absent.no = "file"
      BY DEF Empty, Absent
    <3>2. "bytes" # "file"
      OBVIOUS
    <3> QED BY <3>1, <3>2, Zenon
  <2> QED BY <2>1 DEF Init, FileInv
<1>2. FileInv => FileIsWritten
  <2>1. ASSUME NEW u \in User, Stamped(sig[u], u)
        PROVE  Whole(sig[u]) /\ OwnStamp(sig[u])
    <3>1. PICK a \in Address : sig[u] = Signature(u, Tbs(a, u))
      BY <2>1 DEF Stamped
    <3>2. OwnStamp(sig[u])
      BY <3>1, Stamps DEF OwnStamp
    <3>3. sig[u] # Nothing
      BY <3>1 DEF Signature, Nothing
    <3> QED BY <3>1, <3>2, <3>3, SignaturesAreBytes DEF Whole
  <2> QED BY <2>1 DEF FileInv, FileIsWritten, Emptied
<1> QED BY <1>1, <1>2, FileNext, StampAlways, PTL DEF Spec
=============================================================================
