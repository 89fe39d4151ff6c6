----------------------------- MODULE MCTimeStamp -----------------------------
EXTENDS TimeStamp

CONSTANTS u1, u2, u3

\* Three runs, each of any kind.
MCUser == {u1, u2, u3}
MCMode == {"sign", "verify", "view"}
=============================================================================
