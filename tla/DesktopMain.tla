---------------------------- MODULE DesktopMain -----------------------------
(***************************************************************************)
(* The two threads of a desktop process (rt/desktop_tail.rs): a runtime    *)
(* thread that runs JavaScript, and the main thread, which lends itself to *)
(* the native event loop when JavaScript first uses a desktop API and ends *)
(* the process.                                                            *)
(*                                                                         *)
(* The native loop, what JavaScript asks for and the preparation for exit  *)
(* (see Runtime) are not of this module.                                   *)
(***************************************************************************)
EXTENDS Naturals, Sequences

CONSTANT
  Backends     \* native backends that are tried one after the other

VARIABLES
  script,      \* where the runtime thread is
  call,        \* its call of a desktop API: "no", "sent", "ok" or "error"
  exiting,     \* JavaScript has asked to exit
  live,        \* there are windows, trays or a system monitor
  initialized, \* the native API is there
  quit,        \* the native loop has been told to end
  requests,    \* the channel to the main thread
  main,        \* where the main thread is
  ready,       \* READY holds a reply for a call
  tried,       \* native backends tried
  native,      \* what dnr_native_main has returned
  status       \* "alive", or whose exit code the process ended with

scriptVars  == <<script, call, exiting, live>>
nativeVars  == <<initialized, quit, ready, tried, native>>
desktopVars == <<scriptVars, nativeVars, requests, main, status>>

Running == status = "alive"
Phases  == {"load", "loop", "beforeunload", "beforeexit", "unload"}
Ending  == {"finish", "quit", "ended"}

DesktopInit ==
  /\ script = "load" /\ call = "no" /\ exiting = FALSE /\ live = FALSE
  /\ initialized = FALSE /\ quit = FALSE /\ ready = FALSE /\ tried = 0 /\ native = 0
  /\ requests = <<>> /\ main = "recv" /\ status = "alive"

ScriptStep  == Running /\ call = "no" /\ UNCHANGED <<main, tried, native, status>>
ThreadStep  == Running /\ UNCHANGED <<scriptVars, requests, status>>
Exits(with) == status' = with

-----------------------------------------------------------------------------
(* JavaScript runs in every phase.  Its first use of a desktop API makes the
   thread wait for the main one (ensure_backend). *)
Use ==
  /\ ScriptStep /\ script \in Phases /\ ~exiting /\ ~initialized
  /\ requests' = Append(requests, "activate")
  /\ call' = "sent"
  /\ UNCHANGED <<script, exiting, live, initialized, quit, ready>>

(* The reply, or none because the main thread dropped it. *)
Resume ==
  /\ Running /\ call \in {"ok", "error"}
  /\ call' = "no"
  /\ IF call = "error" THEN Exits("error") ELSE UNCHANGED status
  /\ UNCHANGED <<script, exiting, live, nativeVars, requests, main>>

Open ==
  /\ ScriptStep /\ script \in Phases /\ ~exiting /\ initialized
  /\ live' = TRUE
  /\ UNCHANGED <<script, call, exiting, initialized, quit, ready, requests>>
Close ==
  /\ ScriptStep /\ script \in Phases /\ ~exiting /\ live
  /\ live' = FALSE
  /\ UNCHANGED <<script, call, exiting, initialized, quit, ready, requests>>

Ask ==
  /\ ScriptStep /\ script \in Phases /\ ~exiting
  /\ exiting' = TRUE
  /\ UNCHANGED <<script, call, live, initialized, quit, ready, requests>>

(* run_worker: an exit request ends it in every phase. *)
Goes(from, to) ==
  /\ ScriptStep /\ script = from
  /\ script' = to
  /\ UNCHANGED <<call, live, exiting, initialized, quit, ready, requests>>
Loaded == ~exiting /\ Goes("load", "loop")
Settled == ~exiting /\ ~live /\ Goes("loop", "beforeunload")
Prevented(at) == ~exiting /\ Goes(at, "loop")
Unloading == ~exiting /\ Goes("beforeunload", "beforeexit")
Again  == IF live THEN "loop" ELSE "unload"
Leaving == ~exiting /\ Goes("beforeexit", Again)
Unload == ~exiting /\ Goes("unload", "finish")
Throw  == \E at \in Phases : ~exiting /\ Goes(at, "finish")
Stop   == \E at \in Phases : exiting /\ Goes(at, "finish")

(* The runtime thread saves (see AppState), reports and gives the native loop
   back. *)
Finish ==
  /\ ScriptStep /\ script = "finish"
  /\ requests' = Append(requests, "finished")
  /\ script' = "quit"
  /\ UNCHANGED <<call, exiting, live, initialized, quit, ready>>
SlipGivesBack == initialized /\ live      \* only when something is still open
GivesBack == initialized
Quit ==
  /\ ScriptStep /\ script = "quit"
  /\ quit' = (quit \/ GivesBack)
  /\ script' = "ended"
  /\ UNCHANGED <<call, exiting, live, initialized, ready, requests>>

-----------------------------------------------------------------------------
(* The main thread: one request after the other. *)
Activate ==
  /\ Running /\ main = "recv" /\ requests # <<>> /\ Head(requests) = "activate"
  /\ requests' = Tail(requests)
  /\ ready' = TRUE
  /\ main' = "native"
  /\ UNCHANGED <<scriptVars, initialized, quit, tried, native, status>>
Finished ==
  /\ Running /\ main = "recv" /\ requests # <<>> /\ Head(requests) = "finished"
  /\ requests' = Tail(requests)
  /\ main' = "cleanup"
  /\ UNCHANGED <<scriptVars, nativeVars, status>>

Answer(result) ==
  /\ ready' = FALSE
  /\ call' = IF ready THEN result ELSE call
  /\ UNCHANGED <<script, exiting, live>>

(* laufey_runtime_init, called by a backend that has started.  A process gets
   one native API. *)
Initialize ==
  /\ Running /\ main = "native" /\ ~initialized
  /\ initialized' = TRUE
  /\ main' = "looping"
  /\ tried' = 0
  /\ Answer("ok")
  /\ UNCHANGED <<requests, quit, native, status>>
Mismatch ==
  /\ Running /\ main = "native" /\ ~initialized
  /\ main' = "failed"
  /\ Answer("error")
  /\ UNCHANGED <<requests, initialized, quit, tried, native, status>>

(* dnr_native_main tries the next backend unless one has the API. *)
NoBackend ==
  /\ ThreadStep /\ main \in {"native", "failed"}
  /\ tried' = tried + 1
  /\ main' = IF tried' < Backends THEN "native" ELSE "returned"
  /\ native' \in {0, 1}
  /\ UNCHANGED <<initialized, quit, ready>>
LoopEnds ==
  /\ ThreadStep /\ main = "looping"
  /\ \/ quit /\ native' = 0
     \/ native' \in {0, 1}              \* the desktop ended it, or it failed
  /\ main' = "returned"
  /\ UNCHANGED <<initialized, quit, ready, tried>>

SlipUnanswered == call                    \* the reply stays in READY
Unanswered == IF ready THEN "error" ELSE call
Returned ==
  /\ Running /\ main = "returned"
  /\ ready' = FALSE
  /\ call' = Unanswered
  /\ IF native # 0 THEN Exits("native") /\ UNCHANGED main ELSE main' = "recv" /\ UNCHANGED status
  /\ tried' = 0 /\ native' = 0
  /\ UNCHANGED <<script, exiting, live, initialized, quit, requests>>

ScriptRuns == Open \/ Close \/ Ask
ScriptEnds ==
  \/ Loaded \/ Settled \/ Unloading \/ Leaving \/ Unload \/ Throw
  \/ \E at \in {"beforeunload", "beforeexit"} : Prevented(at)
RuntimeThread == Resume \/ Finish \/ Quit \/ Stop
MainThread == Activate \/ Finished \/ NoBackend \/ Returned
=============================================================================
