---------------------------- MODULE MCEntryCache ----------------------------
(* EntryCache over a small archive.  The budget holds either of two entries
   and not both, one of them is larger than the byte limit of the limiter, and
   the third length does not fit the address space. *)
EXTENDS EntryCache, TLC

CONSTANTS t1, t2, t3, i1, i2, i3

Extreme == i1 :> 1 @@ i2 :> 2 @@ i3 :> 9
=============================================================================
