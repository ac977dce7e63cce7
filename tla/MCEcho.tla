-------------------------------- MODULE MCEcho --------------------------------
(* TLC instances of Echo: the interface of an echo device, IN endpoint 129   *)
(* and OUT endpoint 1.                                                       *)
EXTENDS Echo

CONSTANTS d1, d2, r1, r2, t1, t2, t3, w1, w2, w3

OneInterface == {0}
InAndOut     == [i \in OneInterface |-> <<129, 1>>]
=============================================================================
