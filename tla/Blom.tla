-------------------------------- MODULE Blom --------------------------------
(***************************************************************************)
(* Blom's key pre-distribution as src/id2 runs it: server_blom.c, the      *)
(* trusted center, accepts two connections and sends the first the key     *)
(* material of identity 1 and the second that of identity 2; every run of  *)
(* client_a_blom.c, started as user A or as user B, reads its material and *)
(* computes the key it shares with the other.                              *)
(*                                                                         *)
(* send_mpz() and recv_mpz() of common.c move one number: a length and a   *)
(* string, both read with MSG_WAITALL, so a number arrives whole or, when  *)
(* the connection ends first, not at all; recv_mpz() does not look at what *)
(* recv() returned.                                                        *)
(***************************************************************************)
EXTENDS Integers, Sequences

CONSTANTS
  User,     \* runs of client_a_blom.c
  Role,     \* Role[u]: "A" or "B", the run's argument
  P,        \* the modulus (2^127-1 in the code)
  Garbage,  \* the numbers that the memory of a failed recv_mpz() may read as
  Crashes   \* whether processes may be killed

ASSUME BlomConstants == /\ Role \in [User -> {"A", "B"}]
                        /\ P \in Nat /\ P > 1
                        /\ Garbage \subseteq 0 .. P /\ Garbage # {}
                        /\ Crashes \in BOOLEAN

VARIABLES
  secrets,  \* center: the coefficients a, b, c
  tc,       \* center: "up" or "down"
  slot,     \* center: the accepted users in the order of accept()
  step,     \* center: how many numbers it has sent
  backlog,  \* connected users waiting for accept()
  sent,     \* sent[u]: the numbers the center has sent to u
  nread,    \* nread[u]: how many recv_mpz() calls u has made
  val,      \* val[u]: p, ai and bi in the memory of u
  lost,     \* lost[u]: some recv_mpz() of u got nothing (history)
  st,       \* st[u]: "start", "reading", "printed" or "dead"
  key       \* key[u]: the key u has printed

centerVars == <<secrets, tc, slot, step>>
vars == <<secrets, tc, slot, step, backlog, sent, nread, val, lost, st, key>>

Residue == 0 .. P - 1
NoKey == -1

-----------------------------------------------------------------------------
(* The arithmetic.                                                         *)

\* (Slip: the identity is left out of bi.)
compute_user_key_NoX(s, x) == [ai |-> (s.a + s.b * x) % P, bi |-> (s.b + s.c) % P]

\* The part (ai, bi) of identity x of the secret polynomial.
compute_user_key(s, x) == [ai |-> (s.a + s.b * x) % P, bi |-> (s.b + s.c * x) % P]

\* The key with identity x, from one's own part.
compute_shared_key(ai, bi, x, p) == (ai + bi * x) % p

\* Identities: the center gives 1 and 2 in the order of accept(); user A goes
\* on as if the other were 2, user B as if the other were 1.
Peer(u) == IF Role[u] = "A" THEN 2 ELSE 1

\* The numbers an accepted user is sent, in order.
Material(x) == <<P, compute_user_key(secrets, x).ai, compute_user_key(secrets, x).bi>>

\* (Slip: the last two numbers go to the first client.)
Script_Crossed == <<[to |-> 1, what |-> 1], [to |-> 2, what |-> 1],
                    [to |-> 1, what |-> 2], [to |-> 2, what |-> 3],
                    [to |-> 2, what |-> 2], [to |-> 1, what |-> 3]>>

\* The order of the center's send_mpz() calls: to whom, and which number.
Script == <<[to |-> 1, what |-> 1], [to |-> 2, what |-> 1],
            [to |-> 1, what |-> 2], [to |-> 1, what |-> 3],
            [to |-> 2, what |-> 2], [to |-> 2, what |-> 3]>>

-----------------------------------------------------------------------------
Init ==
  /\ secrets \in [a : Residue, b : Residue, c : Residue]
  /\ tc = "up"
  /\ slot = <<>>
  /\ step = 0
  /\ backlog = <<>>
  /\ sent = [u \in User |-> <<>>]
  /\ nread = [u \in User |-> 0]
  /\ val = [u \in User |-> [k \in 1 .. 3 |-> 0]]
  /\ lost = [u \in User |-> FALSE]
  /\ st = [u \in User |-> "start"]
  /\ key = [u \in User |-> NoKey]

-----------------------------------------------------------------------------
(* The center.                                                             *)

Accept ==
  /\ tc = "up"
  /\ Len(slot) < 2
  /\ backlog # <<>>
  /\ slot' = Append(slot, Head(backlog))
  /\ backlog' = Tail(backlog)
  /\ UNCHANGED <<secrets, tc, step, sent, nread, val, lost, st, key>>

\* One send_mpz() of the script.
SendMpz ==
  /\ tc = "up"
  /\ Len(slot) = 2
  /\ step < 6
  /\ LET s == Script[step + 1]
         u == slot[s.to]
     IN  sent' = [sent EXCEPT ![u] = Append(@, Material(s.to)[s.what])]
  /\ step' = step + 1
  /\ UNCHANGED <<secrets, tc, slot, backlog, nread, val, lost, st, key>>

\* send() to a user that is gone may raise SIGPIPE, which ends the center.
SendBreaks ==
  /\ tc = "up"
  /\ Len(slot) = 2
  /\ step < 6
  /\ st[slot[Script[step + 1].to]] = "dead"
  /\ tc' = "down"
  /\ UNCHANGED <<secrets, slot, step, backlog, sent, nread, val, lost, st, key>>

Close ==
  /\ tc = "up"
  /\ step = 6
  /\ tc' = "down"
  /\ UNCHANGED <<secrets, slot, step, backlog, sent, nread, val, lost, st, key>>

CenterDies ==
  /\ Crashes
  /\ tc = "up"
  /\ tc' = "down"
  /\ UNCHANGED <<secrets, slot, step, backlog, sent, nread, val, lost, st, key>>

-----------------------------------------------------------------------------
(* A user.                                                                 *)

\* connect() succeeds as soon as the center listens, and ends the run when
\* nobody does.
Connect(u) ==
  /\ st[u] = "start"
  /\ \/ /\ tc = "up"
        /\ backlog' = Append(backlog, u)
        /\ st' = [st EXCEPT ![u] = "reading"]
     \/ /\ tc = "down"
        /\ st' = [st EXCEPT ![u] = "dead"]
        /\ UNCHANGED backlog
  /\ UNCHANGED <<centerVars, sent, nread, val, lost, key>>

\* recv_mpz() of a number that has arrived.
RecvMpz(u) ==
  /\ st[u] = "reading"
  /\ nread[u] < 3 /\ nread[u] < Len(sent[u])
  /\ val' = [val EXCEPT ![u][nread[u] + 1] = sent[u][nread[u] + 1]]
  /\ nread' = [nread EXCEPT ![u] = @ + 1]
  /\ UNCHANGED <<centerVars, backlog, sent, lost, st, key>>

\* (Slip: recv_mpz() tries again until something comes.)
RecvNothing_Again(u) ==
  /\ st[u] = "reading"
  /\ nread[u] < 3 /\ nread[u] >= Len(sent[u])
  /\ tc = "down"
  /\ UNCHANGED vars

\* recv_mpz() on a connection that has ended: length and string are what the
\* stack holds, and the number is whatever that reads as.
RecvNothing(u) ==
  /\ st[u] = "reading"
  /\ nread[u] < 3 /\ nread[u] >= Len(sent[u])
  /\ tc = "down"
  /\ \E junk \in Garbage : val' = [val EXCEPT ![u][nread[u] + 1] = junk]
  /\ lost' = [lost EXCEPT ![u] = TRUE]
  /\ nread' = [nread EXCEPT ![u] = @ + 1]
  /\ UNCHANGED <<centerVars, backlog, sent, st, key>>

\* The key is computed and printed; a modulus of 0 ends the run.
PrintKey(u) ==
  /\ st[u] = "reading"
  /\ nread[u] = 3
  /\ \/ /\ val[u][1] = 0
        /\ st' = [st EXCEPT ![u] = "dead"]
        /\ UNCHANGED key
     \/ /\ val[u][1] # 0
        /\ key' = [key EXCEPT ![u] =
                     compute_shared_key(val[u][2], val[u][3], Peer(u), val[u][1])]
        /\ st' = [st EXCEPT ![u] = "printed"]
  /\ UNCHANGED <<centerVars, backlog, sent, nread, val, lost>>

UserDies(u) ==
  /\ Crashes
  /\ st[u] = "reading"
  /\ st' = [st EXCEPT ![u] = "dead"]
  /\ UNCHANGED <<centerVars, backlog, sent, nread, val, lost, key>>

-----------------------------------------------------------------------------
CenterStep == Accept \/ SendMpz \/ SendBreaks \/ Close
UserStep(u) == RecvMpz(u) \/ RecvNothing(u) \/ PrintKey(u)

Next == \/ CenterStep \/ CenterDies
        \/ \E u \in User : Connect(u) \/ UserStep(u) \/ UserDies(u)

Spec == Init /\ [][Next]_vars

\* Nothing here waits for a person once it runs.
FairSpec == Spec /\ WF_vars(CenterStep) /\ \A u \in User : WF_vars(UserStep(u))

-----------------------------------------------------------------------------
(* Properties.                                                             *)

\* The variables have their types.
TypeOK ==
  /\ secrets \in [a : Residue, b : Residue, c : Residue]
  /\ tc \in {"up", "down"}
  /\ slot \in Seq(User) /\ Len(slot) <= 2
  /\ step \in 0 .. 6 /\ (step > 0 => Len(slot) = 2)
  /\ backlog \in Seq(User)
  /\ sent \in [User -> Seq(0 .. P)]
  /\ nread \in [User -> 0 .. 3]
  /\ val \in [User -> [1 .. 3 -> 0 .. P]]
  /\ lost \in [User -> BOOLEAN]
  /\ st \in [User -> {"start", "reading", "printed", "dead"}]
  /\ key \in [User -> -1 .. P]

\* u is served as identity x.
ServedAs(u, x) == Len(slot) >= x /\ slot[x] = u

\* The key of the two identities.
SharedKey == (secrets.a + 3 * secrets.b + 2 * secrets.c) % P

\* Two users of different roles that were accepted in the order A, B and got
\* everything the center sent print the same key, the one of identities 1 and
\* 2, whatever the interleaving of the sends, the receives and the deaths.
KeysAgree ==
  \A u, v \in User :
    /\ ServedAs(u, 1) /\ Role[u] = "A"
    /\ ServedAs(v, 2) /\ Role[v] = "B"
    => /\ st[u] = "printed" /\ ~lost[u] => key[u] = SharedKey
       /\ st[v] = "printed" /\ ~lost[v] => key[v] = SharedKey

\* Nobody holds numbers of two identities: a user that read three numbers, and
\* lost none, has the material of the identity the center accepted it as, in
\* the order its three recv_mpz() calls expect.
OwnMaterial ==
  \A u \in User :
    nread[u] = 3 /\ ~lost[u]
      => \E x \in 1 .. 2 : ServedAs(u, x) /\ \A k \in 1 .. 3 : val[u][k] = Material(x)[k]

\* Once two users have connected nobody waits for ever, and neither does
\* anybody once the center is gone.
EverybodyEnds ==
  \A u \in User :
    (st[u] = "reading" /\ (tc = "down" \/ Len(slot) = 2)) ~> st[u] \in {"printed", "dead"}
=============================================================================
