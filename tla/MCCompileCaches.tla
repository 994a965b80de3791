-------------------------- MODULE MCCompileCaches --------------------------
(* A finite instance of CompileCaches, and of Generations in it, for TLC. *)
EXTENDS CompileCaches

CONSTANTS p1, p2, a, b, v1, v2

(* An upgrade; with what the version before has left, also a return to it. *)
Upgrade == <<a, b>>

(* Two versions of the runtime take turns at one package. *)
Versions == [p \in Procs |-> IF p = p1 THEN v1 ELSE v2]
=============================================================================
