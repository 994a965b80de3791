------------------------------ MODULE Runtime -------------------------------
(***************************************************************************)
(* One desktop process from its start to its exit: the threads of          *)
(* DesktopMain, with the entries they send to the catalog of the user      *)
(* cache and the wait for them at the end (rt/dnr.rs, rt/dnr_cache.rs).    *)
(***************************************************************************)
EXTENDS Catalog, DesktopMain

vars == <<catalogVars, desktopVars>>

Init == CatalogInit /\ DesktopInit

Desktop(A) == A /\ UNCHANGED catalogVars

(* The package is opened (begin_usage), and later its cache and its groups
   are used (init, mark_used, notify_index). *)
Touch ==
  /\ Running /\ script \in Phases /\ call = "no"
  /\ \/ \E t \in Times : Access(t)
     \/ Notify
  /\ UNCHANGED <<batch, flush, used, best, rebuildVars, desktopVars>>

(* cleanup_native_libraries, on the main thread: one use if a package runs,
   and one more if its generation was used since the last. *)
LastUse ==
  /\ Running
  /\ \/ main = "cleanup" /\ main' = "finish"
     \/ main = "finish" /\ main' = "flush"
  /\ (\E t \in Times : Access(t)) \/ UNCHANGED <<sendVars, due>>
  /\ UNCHANGED <<batch, flush, used, best, rebuildVars, scriptVars, nativeVars, requests, status>>

FlushCatalog ==
  /\ Running /\ main = "flush"
  /\ BeginFlush \/ SendFlush \/ TimeOut
  /\ UNCHANGED desktopVars

Leave ==
  /\ Running /\ main = "flush" /\ flush \in {"ok", "failed"}
  /\ Exits("script")
  /\ UNCHANGED <<catalogVars, scriptVars, nativeVars, requests, main>>

Cleanup == LastUse \/ FlushCatalog \/ Leave

Write == Running /\ WriterStep /\ UNCHANGED desktopVars
Others == Running /\ CatalogOthers /\ UNCHANGED desktopVars

Script == Use \/ ScriptRuns \/ ScriptEnds \/ RuntimeThread
Native == Initialize \/ Mismatch \/ NoBackend \/ LoopEnds

Next ==
  \/ Desktop(Script) \/ Desktop(MainThread) \/ Desktop(Native)
  \/ Touch \/ Cleanup
  \/ Write \/ Others

Spec == Init /\ [][Next]_vars

(* The threads go on when they can, a call of the native API ends and the
   native loop ends when it is told to.  Nothing is assumed of JavaScript
   beyond what was reported to it, of the writer or of other processes. *)
Fairness ==
  /\ WF_vars(Desktop(RuntimeThread))
  /\ WF_vars(Desktop(MainThread))
  /\ WF_vars(Desktop(Initialize \/ Mismatch \/ NoBackend))
  /\ WF_vars(Desktop(quit /\ LoopEnds))
  /\ WF_vars(Cleanup)
FairSpec == Spec /\ Fairness

-----------------------------------------------------------------------------
TypeOK ==
  /\ Len(queue) <= Capacity
  /\ writer \in {"none", "recv", "drain", "apply"}
  /\ flush \in {"none", "sending", "waiting", "ok", "failed"}
  /\ used \in 0..MaxTime
  /\ script \in Phases \cup Ending
  /\ Len(requests) <= 1
  /\ ready => call = "sent"
  /\ status \in {"alive", "script", "native", "error"}

(* No recorded use is lost to a rebuild that can read and write, or to another
   process with an older clock, whenever the lock is free. *)
UsesKept == rebuild = "idle" => used = best

(* When the process has been told that its entries are written, the database
   has every use that it queued, whenever the lock is free, except those whose
   write failed, which the writer answers for all the same, and those that a
   failing rebuild lost: also when the queue was full in between and the clock
   went back. *)
FlushKeeps ==
  flush = "ok" /\ rebuild = "idle" => \A t \in due : t <= used

(* No native loop runs that nobody ends any more: once the runtime thread has
   told the loop to end, or found none, the main thread does not start a
   backend for a call that gave up, and is not in a loop that was not told. *)
LoopIsTold ==
  Running /\ script = "ended" =>
    /\ main \notin {"native", "failed"}
    /\ main = "looping" => quit

(* A thread that waits for the native API gets an answer, or the process
   ends. *)
CallsReturn == (call = "sent") ~> (call # "sent" \/ ~Running)

(* Once JavaScript has ended, or has asked to exit in whatever phase, the
   process ends, whatever holds up the writer of the catalog, in the native
   loop or not. *)
ProcessEnds == (exiting \/ script \in Ending) ~> ~Running
=============================================================================
