------------------------------- MODULE MCSpeke -------------------------------
EXTENDS Speke

MCPassword == {"weak", "other"}
MCTyped == 1 .. 4
=============================================================================
