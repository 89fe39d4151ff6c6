------------------------------ MODULE Identify ------------------------------
(***************************************************************************)
(* The two identifications by a key that A and B share, in two steps and   *)
(* in three, side by side: TwoStep is extended, and ThreeStep an instance  *)
(* with programs and texts of its own.                                     *)
(***************************************************************************)
EXTENDS TwoStep

VARIABLES
  aAt3, aSent3, aText3, aRb, aHeard3,      \* A of the three steps
  bAt3, bSent3, bRa, bText3, bM1, bHeard3, \* B of the three steps
  w1, w2, w3, w4, w5,                      \* what their users typed: M1 to M5
  up3, down3

vars3 == <<aAt3, aSent3, w1, w4, w5, aText3, aRb, aHeard3,
           bAt3, bSent3, w2, w3, bRa, bText3, bM1, bHeard3, up3, down3>>

Three == INSTANCE ThreeStep WITH
  aAt <- aAt3, aSent <- aSent3, aText <- aText3, aHeard <- aHeard3,
  bAt <- bAt3, bSent <- bSent3, bText <- bText3, bHeard <- bHeard3,
  m1 <- w1, m2 <- w2, m3 <- w3, m4 <- w4, m5 <- w5, up <- up3, down <- down3

\* The variables of the three steps always have their types; A accepts only what B
\* has answered to r_A, and B only what A has answered to r_B; each has the texts that
\* the user of the other typed.
ThreeStepIdentifies == Three!ThreeStepIdentifies
=============================================================================
