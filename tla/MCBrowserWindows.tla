-------------------------- MODULE MCBrowserWindows --------------------------
(* The names and policies of a finite instance of BrowserWindows for TLC. *)
EXTENDS BrowserWindows

CONSTANTS w1, w2, k1, u1, u2, n1, c1, c2

Delayed(d) == [mode |-> "delayed", delay |-> d]
MCPolicies ==
  {[mode |-> "immediate", delay |-> 0], [mode |-> "keep", delay |-> 0],
   Delayed(0), Delayed(MaxDelay)}
=============================================================================
