--------------------------- MODULE MCNativeGroups ---------------------------
(* Finite instances of NativeGroups for TLC. *)
EXTENDS NativeGroups, TLC

CONSTANTS p1, p2, p3, a, b

(* Two processes of one installation and one of another. *)
TwoAndOne == (p1 :> a) @@ (p2 :> a) @@ (p3 :> b)
OneEach   == (p1 :> a) @@ (p2 :> b)
=============================================================================
