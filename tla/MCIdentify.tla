----------------------------- MODULE MCIdentify -----------------------------
(***************************************************************************)
(* Of the three identifications one is run: in two steps, in three, or     *)
(* with B's public key.                                                    *)
(***************************************************************************)
EXTENDS Identify, PublicKeyId

CONSTANTS a1, a2, a3

VARIABLE method

MCText == {<<"plain">>, <<"head", "|", "tail">>, <<"head", "|", "fill">>}
MCClient == {a1, a2, a3}
\* A number for each place its first zero byte may have.
MCNumber == 1 .. 3
MCZeroAt == <<"nowhere", "inside", "last">>

\* The programs that are not run start in one way only.
MCInit ==
  /\ method \in {"two steps", "three steps", "public key"}
  /\ Init /\ Three!Init /\ PkInit
  /\ method # "two steps" => choice = "t" /\ m1 = <<"plain">> /\ m2 = <<"plain">>
  /\ method # "three steps" => w1 = <<"plain">>
  /\ method # "public key" => /\ z = [c \in Client |-> 1]
                              /\ tearing = FALSE /\ behind = "end" /\ paired

MCNext ==
  \/ method = "two steps" /\ Next /\ UNCHANGED <<method, vars3, pkVars>>
  \/ method = "three steps" /\ Three!Next /\ UNCHANGED <<method, vars, pkVars>>
  \/ method = "public key" /\ PkNext /\ UNCHANGED <<method, vars, vars3>>

\* The programs that are run go on, and their users answer the prompts; a client of
\* the public key need not connect.
MCSpec ==
  /\ MCInit /\ [][MCNext]_<<method, vars, vars3, pkVars>>
  /\ WF_vars(method = "two steps" /\ A) /\ WF_vars(method = "two steps" /\ B)
  /\ WF_vars3(method = "three steps" /\ Three!A)
  /\ WF_vars3(method = "three steps" /\ Three!B)
  /\ WF_pkVars(method = "public key" /\ ServerRuns)
  /\ \A c \in Client : WF_pkVars(method = "public key" /\ ClientRuns(c))

-----------------------------------------------------------------------------
(* Properties.                                                             *)

\* Without kills, and with texts before '|' that hold none themselves, the programs
\* that are run come to accept (in two steps, unless B misreads the random number).
TwoStepsComplete   == method = "two steps" => TwoStepCompletes
ThreeStepsComplete == method = "three steps" => Three!ThreeStepCompletes
=============================================================================
