------------------------------ MODULE Challenge ------------------------------
(***************************************************************************)
(* What one side of an identification promises.  The other side answers at *)
(* most once, with texts of its own; the challenger then accepts, and has  *)
(* those texts, or refuses.  It never accepts what was not said.           *)
(***************************************************************************)
CONSTANTS Texts    \* what an answer may say

VARIABLES said,    \* what the other side has answered, or Silence
          verdict, \* of the challenger: "none", "accepted" or "refused"
          heard    \* what the challenger has accepted, or Silence

cvars == <<said, verdict, heard>>
Silence == {}

CInit == said = Silence /\ verdict = "none" /\ heard = Silence

Answer == /\ said = Silence
          /\ said' \in {{t} : t \in Texts}
          /\ UNCHANGED <<verdict, heard>>

Accept == /\ said # Silence
          /\ verdict = "none"
          /\ verdict' = "accepted"
          /\ heard' = said
          /\ UNCHANGED said

Refuse == /\ verdict = "none"
          /\ verdict' = "refused"
          /\ UNCHANGED <<said, heard>>

CNext == Answer \/ Accept \/ Refuse

CSpec == CInit /\ [][CNext]_cvars
=============================================================================
