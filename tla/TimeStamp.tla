------------------------------ MODULE TimeStamp ------------------------------
(***************************************************************************)
(* CAdES signatures: the program of src/sign.c, run as `sign', `verify' or *)
(* `view' by any number of users at once, the requests of src/tsa_client.c *)
(* and the service of src/tsa_server.c, which takes one connection at a    *)
(* time.  All users share the signature file and its directory.            *)
(*                                                                         *)
(* A signature is the fields of CAdESSignature that a signer fills in      *)
(* (they name the signer: no two make the same) and the stamp: the         *)
(* structure that the service copied and encrypted, as the pieces of it    *)
(* that matter to a string.                                                *)
(***************************************************************************)
EXTENDS Stream

CONSTANTS User,    \* runs of the program
          Mode,    \* what a run may be: "sign", "verify" or "view"
          Backlog, \* the listen queue of the service (5)
          Address, \* where malloc() may put the signature the service reads
          Crashes  \* whether programs may be killed

ASSUME TimeStampConstants ==
  /\ Mode \subseteq {"sign", "verify", "view"}
  /\ Backlog \in Nat \ {0}
  /\ Crashes \in BOOLEAN

VARIABLES
  mode, at,  \* of each user
  sig,       \* the CAdESSignature in its memory
  up, down,  \* what is on its way to the service and back
  queue,     \* connections that wait for accept()
  tsa,       \* where the service is
  client,    \* whom it serves
  read,      \* what handle_sign_request() or handle_verify_request() has read
  dir, file  \* whether the directory is there, and the signature file

userVars == <<mode, sig, dir, file>>
tsaVars  == <<tsa, client, read>>
vars == <<mode, at, sig, up, down, queue, tsa, client, read, dir, file>>

Nothing == <<>>
Signature(u, stamp) == [fields |-> u, stamp |-> stamp]

\* The signature file: not there, emptied, or holding a signature.
Absent == [no |-> "file"]
Empty  == [no |-> "bytes"]

Ended == {"ended", "failed", "valid", "invalid", "dead"}
Closed(u)    == at[u] \in Ended
Served(u)    == u = client \/ \E i \in 1 .. Len(queue) : queue[i] = u
TsaClosed(u) == tsa = "dead" \/ ~Served(u)

\* What a run that gets no answer ends with.
Refused(u) == IF mode[u] = "sign" THEN "failed" ELSE "invalid"

\* The writes of a request, those of the fields of the signature as one.
Request(u) == IF mode[u] = "sign" THEN << "0", sig[u].fields >>
              ELSE << "1", sig[u].fields, sig[u].stamp >>

-----------------------------------------------------------------------------
Init ==
  /\ mode \in [User -> Mode]
  /\ at = [u \in User |-> "start"]
  /\ sig = [u \in User |-> Nothing]
  /\ up = [u \in User |-> <<>>] /\ down = [u \in User |-> <<>>]
  /\ queue = <<>>
  /\ tsa = "accept" /\ client = Nothing /\ read = <<>>
  /\ dir = FALSE /\ file = Absent

-----------------------------------------------------------------------------
(* The runs of the program.                                                *)

Goto(u, label) == at' = [at EXCEPT ![u] = label]

\* cades_sign_file() up to the request.
Sign(u) ==
  /\ at[u] = "start" /\ mode[u] = "sign"
  /\ sig' = [sig EXCEPT ![u] = Signature(u, Nothing)]
  /\ Goto(u, "connect")
  /\ UNCHANGED <<mode, up, down, queue, tsaVars, dir, file>>

\* cades_load_signature(): the file is read with one read().  A signature
\* without a stamp is not sent to the service.
Load(u) ==
  /\ at[u] = "start" /\ mode[u] # "sign"
  /\ IF file \in {Absent, Empty}
     THEN Goto(u, "failed") /\ UNCHANGED sig
     ELSE /\ sig' = [sig EXCEPT ![u] = file]
          /\ Goto(u, CASE mode[u] = "view"         -> "ended"
                       [] file.stamp = Nothing     -> "invalid"
                       [] OTHER                    -> "connect")
  /\ UNCHANGED <<mode, up, down, queue, tsaVars, dir, file>>

\* A connection waits where the queue has room for it.
Connect(u) ==
  /\ at[u] = "connect"
  /\ \/ /\ tsa = "dead"
        /\ Goto(u, Refused(u))
        /\ UNCHANGED queue
     \/ /\ tsa # "dead"
        /\ Len(queue) < Backlog
        /\ queue' = Append(queue, u)
        /\ Goto(u, "send")
  /\ UNCHANGED <<userVars, up, down, tsaVars>>

\* The next write() of the request.  On a connection that the service has
\* closed it may fail or raise SIGPIPE.
Send(u) ==
  /\ at[u] = "send"
  /\ \/ /\ LET sent == Append(up[u], Request(u)[Len(up[u]) + 1]) IN
             /\ up' = [up EXCEPT ![u] = sent]
             /\ Goto(u, IF Len(sent) = Len(Request(u)) THEN "reply" ELSE "send")
     \/ /\ TsaClosed(u)
        /\ \E label \in {Refused(u), "dead"} : Goto(u, label)
        /\ UNCHANGED up
  /\ UNCHANGED <<userVars, down, queue, tsaVars>>

\* The stamp arrives.
ReceiveStamp(u) ==
  /\ at[u] = "reply" /\ mode[u] = "sign"
  /\ down[u] # <<>>
  /\ sig' = [sig EXCEPT ![u] = Signature(u, Head(down[u]))]
  /\ down' = [down EXCEPT ![u] = Tail(@)]
  /\ Goto(u, "stat")
  /\ UNCHANGED <<mode, up, queue, tsaVars, dir, file>>

\* The verdict of the service arrives.  If it is good, the hash of the file is
\* compared with what the signature decrypts to.
ReceiveVerdict(u) ==
  /\ at[u] = "reply" /\ mode[u] = "verify"
  /\ down[u] # <<>>
  /\ \E same \in BOOLEAN : Goto(u, IF Head(down[u]) /\ same THEN "valid" ELSE "invalid")
  /\ down' = [down EXCEPT ![u] = Tail(@)]
  /\ UNCHANGED <<userVars, up, queue, tsaVars>>

\* The connection ends without an answer.
NoAnswer(u) ==
  /\ at[u] = "reply"
  /\ down[u] = <<>> /\ TsaClosed(u)
  /\ Goto(u, Refused(u))
  /\ UNCHANGED <<userVars, up, down, queue, tsaVars>>

\* cades_save_signature(): ensure_directory_exists() asks first and makes the
\* directory then, which fails when another has made it meanwhile.
CheckDirectory(u) ==
  /\ at[u] = "stat"
  /\ Goto(u, IF dir THEN "fopen" ELSE "mkdir")
  /\ UNCHANGED <<userVars, up, down, queue, tsaVars>>

MakeDirectory(u) ==
  /\ at[u] = "mkdir"
  /\ Goto(u, IF dir THEN "failed" ELSE "fopen")
  /\ dir' = TRUE
  /\ UNCHANGED <<mode, sig, file, up, down, queue, tsaVars>>

\* fopen() empties the file; the bytes are written at fclose().
OpenFile(u) ==
  /\ at[u] = "fopen"
  /\ file' = Empty
  /\ Goto(u, "fclose")
  /\ UNCHANGED <<mode, sig, dir, up, down, queue, tsaVars>>

\* (Slip: it ends without fclose().)
WriteFile_Lost(u) ==
  /\ at[u] = "fclose"
  /\ Goto(u, "ended")
  /\ UNCHANGED <<userVars, up, down, queue, tsaVars>>

WriteFile(u) ==
  /\ at[u] = "fclose"
  /\ file' = sig[u]
  /\ Goto(u, "ended")
  /\ UNCHANGED <<mode, sig, dir, up, down, queue, tsaVars>>

-----------------------------------------------------------------------------
(* The service.                                                            *)

\* The structure without its last two members: it starts with the address of
\* the signature, whose highest bytes are zero.
Tbs(address, fields) == <<address, "NUL", fields>>

\* What rsa_decode() makes of a stamp is a string, and strlen() its length.
rsa_decode(stamp) ==
  SubSeq(stamp, 1, (CHOOSE i \in 1 .. Len(stamp) :
                      stamp[i] = "NUL" /\ \A k \in 1 .. i - 1 : stamp[k] # "NUL") - 1)

Accept ==
  /\ tsa = "accept"
  /\ queue # <<>>
  /\ client' = Head(queue) /\ queue' = Tail(queue)
  /\ tsa' = "serve"
  /\ UNCHANGED <<userVars, at, up, down, read>>

\* The next read().
Read ==
  /\ tsa = "serve"
  /\ Len(read) < Len(up[client])
  /\ read' = Append(read, up[client][Len(read) + 1])
  /\ UNCHANGED <<userVars, at, up, down, queue, tsa, client>>

\* (Slip: the structure that was read into is not a new one.)
CloseConnection_Keeps == client' = Nothing /\ UNCHANGED read /\ tsa' = "accept"

CloseConnection == client' = Nothing /\ read' = <<>> /\ tsa' = "accept"

Complete == read # <<>> /\ Len(read) = IF read[1] = "0" THEN 2 ELSE 3

\* (Slip: only the first read() is looked at.)
ReadNothing_First ==
  /\ tsa = "serve"
  /\ read = <<>>
  /\ Len(up[client]) = 0 /\ Closed(client)
  /\ CloseConnection
  /\ UNCHANGED <<userVars, at, up, down, queue>>

\* A read() of less than was asked for, at the end of the connection.
ReadNothing ==
  /\ tsa = "serve"
  /\ ~Complete
  /\ Len(read) = Len(up[client]) /\ Closed(client)
  /\ CloseConnection
  /\ UNCHANGED <<userVars, at, up, down, queue>>

\* handle_sign_request(): the stamp goes out in two writes, and the second one
\* may raise SIGPIPE when the user is gone.
Stamp ==
  /\ tsa = "serve"
  /\ Complete /\ read[1] = "0"
  /\ \/ /\ \E address \in Address :
             down' = [down EXCEPT ![client] = Append(@, Tbs(address, read[2]))]
        /\ CloseConnection
     \/ /\ Closed(client)
        /\ tsa' = "dead"
        /\ UNCHANGED <<client, read, down>>
  /\ UNCHANGED <<userVars, at, up, queue>>

\* handle_verify_request(): decrypted_len and tbs_len, then the bytes.
Verify ==
  /\ tsa = "serve"
  /\ Complete /\ read[1] = "1"
  /\ \E address \in Address :
       down' = [down EXCEPT ![client] =
                  Append(@, rsa_decode(read[3]) = Tbs(address, read[2]))]
  /\ CloseConnection
  /\ UNCHANGED <<userVars, at, up, queue>>

-----------------------------------------------------------------------------
UserDies(u) ==
  /\ Crashes /\ ~Closed(u)
  /\ Goto(u, "dead")
  /\ UNCHANGED <<userVars, up, down, queue, tsaVars>>

TsaDies ==
  /\ Crashes /\ tsa # "dead"
  /\ tsa' = "dead"
  /\ UNCHANGED <<userVars, at, up, down, queue, client, read>>

Run(u) == \/ Sign(u) \/ Load(u) \/ Connect(u) \/ Send(u)
          \/ ReceiveStamp(u) \/ ReceiveVerdict(u) \/ NoAnswer(u)
          \/ CheckDirectory(u) \/ MakeDirectory(u) \/ OpenFile(u) \/ WriteFile(u)
Service == Accept \/ Read \/ ReadNothing \/ Stamp \/ Verify

Next == \/ \E u \in User : Run(u) \/ UserDies(u)
        \/ Service \/ TsaDies

Spec == Init /\ [][Next]_vars

\* Every program runs; a run that has not started may never do so.
FairSpec == /\ Spec
            /\ \A u \in User : WF_vars(at[u] # "start" /\ Run(u))
            /\ WF_vars(Service)

-----------------------------------------------------------------------------
(* Properties.                                                             *)

\* The variables have their types.
Whole(s) == s \notin {Nothing, Absent, Empty}
StampTypeOK ==
  /\ mode \in [User -> Mode]
  /\ at \in [User -> {"start", "connect", "send", "reply", "stat", "mkdir",
                      "fopen", "fclose"} \cup Ended]
  /\ \A u \in User : /\ Whole(sig[u]) => sig[u].fields \in User
                     /\ Len(up[u]) <= 3 /\ Len(down[u]) <= 1
                     /\ at[u] = "send" => Len(up[u]) < Len(Request(u))
  /\ tsa \in {"accept", "serve", "dead"}
  /\ tsa = "accept" => client = Nothing /\ read = <<>>
  /\ Len(queue) <= Backlog

\* The variables have their types, and whatever users share the service and the file,
\* a signature that is saved, or that anybody loads, is whole, and its stamp was made
\* for its own fields.
OwnStamp(s) == s.stamp # Nothing /\ s.stamp[3] = s.fields
StampIsOwn ==
  /\ StampTypeOK
  /\ Whole(file) => OwnStamp(file)
  /\ \A u \in User : mode[u] # "sign" /\ Whole(sig[u]) => OwnStamp(sig[u])

\* What a run saved is lost to another signer only: once a signer has ended well, the
\* file is there, and it is without a signature only while a signer that has a stamp
\* of its own has emptied it to write it, or was killed before it did.
FileIsWritten ==
  /\ \A u \in User : mode[u] = "sign" /\ at[u] = "ended" => file # Absent
  /\ file = Empty => \E u \in User : /\ mode[u] = "sign" /\ at[u] \in {"fclose", "dead"}
                                     /\ Whole(sig[u]) /\ OwnStamp(sig[u])

\* What sign.c announces ("Сначала проверяем подпись TSA", sign.c:183, and the result
\* it prints, line 345): the service finds a stamp good that it made for the very
\* fields it is sent with.  (Checked where it reads all signatures to one address, so
\* that another address is not what a refusal is due to.)
OwnStampVerifies ==
  \A u \in User :
    mode[u] = "verify" /\ Whole(sig[u]) /\ OwnStamp(sig[u]) /\ down[u] # <<>> => down[u] = <<TRUE>>

\* Every run that has started ends, whoever else is killed and when.
EveryRunEnds == \A u \in User : at[u] # "start" ~> Closed(u)
=============================================================================
