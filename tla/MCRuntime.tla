----------------------------- MODULE MCRuntime ------------------------------
(***************************************************************************)
(* One process and two native backends, a queue of one entry and a clock   *)
(* with two times.                                                         *)
(***************************************************************************)
EXTENDS Runtime
=============================================================================
