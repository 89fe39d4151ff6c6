------------------------------- MODULE MCBlom -------------------------------
EXTENDS Blom, TLC

CONSTANTS alice, bob

MCUser == {alice, bob}
MCRole == (alice :> "A") @@ (bob :> "B")
MCGarbage == {0, 1}
=============================================================================
