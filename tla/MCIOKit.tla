-------------------------------- MODULE MCIOKit --------------------------------
(* TLC instances of IOKit: small sets of cells and references, and symmetry  *)
(* for the runs that check no liveness.                                      *)
EXTENDS IOKit

CONSTANTS d1, d2, r1, r2, t1, t2, w1, w2

(* One or two interfaces of an echo device: IN endpoint 129 and OUT endpoint *)
(* 1, whose pipes are numbered 1 and 2.                                      *)
OneInterface  == {0}
TwoInterfaces == {0, 1}

InAndOut  == [i \in OneInterface |-> <<129, 1>>]
InThenOut == [i \in TwoInterfaces |-> IF i = 0 THEN <<129>> ELSE <<1>>]

(* Devices, references, transfers and requests are interchangeable. *)
Symmetry ==
    Permutations(Device) \cup Permutations(DevRef) \cup Permutations(Transfer) \cup Permutations(Token)
=============================================================================
