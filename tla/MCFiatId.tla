------------------------------ MODULE MCFiatId ------------------------------
EXTENDS FiatId

\* Two key pairs with different moduli.
MCKey == {[n |-> 15, s |-> 7], [n |-> 21, s |-> 8]}
=============================================================================
