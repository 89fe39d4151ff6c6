--------------------------- MODULE MCOneTimeLogin ---------------------------
EXTENDS OneTimeLogin, TLC

CONSTANTS c1, c2, c3, right, wrong

MCClient == {c1, c2, c3}
MCPassword == {right, wrong}
MCIteration == {0, 1}

\* c2 was built with another ID; the messages of c1 and c2 may arrive in parts.
MCClientID == (c1 :> "Client_A") @@ (c2 :> "Client_B") @@ (c3 :> "Client_A")
MCTorn == {c1, c2}
=============================================================================
