------------------------------- MODULE MCWinUsb -------------------------------
(* TLC instances of WinUsb: small sets of cells and handles, and symmetry    *)
(* for the runs that check no liveness.                                      *)
EXTENDS WinUsb

CONSTANTS d1, d2, h1, h2, t1, t2, w1, w2, w3

OneInterface  == {0}
TwoInterfaces == {0, 1}

(* Devices, files, transfers and cells are interchangeable. *)
Symmetry ==
    Permutations(Device) \cup Permutations(Handle) \cup Permutations(Transfer) \cup Permutations(Token)
=============================================================================
