----------------------------- MODULE MCInstall ------------------------------
(***************************************************************************)
(* Three installers, of two packages, and one application.                 *)
(***************************************************************************)
EXTENDS Install, TLC

Symmetry == Permutations(Installers) \cup Permutations(Versions)
=============================================================================
