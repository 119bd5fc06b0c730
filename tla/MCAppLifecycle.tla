--------------------------- MODULE MCAppLifecycle ---------------------------
(***************************************************************************)
(* Instances of AppLifecycle for TLC.                                      *)
(***************************************************************************)
EXTENDS AppLifecycle, TLC

CONSTANTS p1, p2, p3, s1, s2

SymPages == Permutations(Pages) \cup Permutations(Slots)
=============================================================================
