----------------------------- MODULE MCAppState -----------------------------
(* The names of a finite instance of AppState for TLC. *)
EXTENDS AppState

CONSTANTS p1, p2, k1, s1, s2, z1, z2
=============================================================================
