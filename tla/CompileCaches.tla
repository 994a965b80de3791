--------------------------- MODULE CompileCaches ---------------------------
(***************************************************************************)
(* The compiled code that lies inside the cache generations of a path      *)
(* (Generation::compile and CompileCache in crates/package/src/            *)
(* persistent.rs, used through integration/rt/dnr_cache.rs), together with *)
(* the generations themselves.                                             *)
(*                                                                         *)
(* Inside a generation every version of the runtime has a directory, and   *)
(* the same scheme of gate, leases and `current' once more.  Here nothing  *)
(* protects those files but the lease of the generation: they go with it.  *)
(* A thread may still be reading or storing code when the process gives    *)
(* that lease back, and whatever it then does recreates the directory.     *)
(***************************************************************************)
EXTENDS Generations

CONSTANTS
  Runtimes,   \* the versions of the runtime
  Runtime,    \* Runtime[p]: the version that p is
  Lingering   \* bound: processes whose threads may run after the use has ended

NoRuntime == "no runtime"

ASSUME CompileCachesAssumption ==
  /\ Runtime \in [Procs -> Runtimes]
  /\ NoRuntime \notin Runtimes
  /\ Lingering \subseteq Procs

VARIABLES
  caches,     \* <<id, v>>: generation id has a directory of runtime v
  newest,     \* newest[id]: the runtime that `current' names in generation id
  staged,     \* <<id, v, p>>: an unfinished file of p in that directory
  user,       \* user[p]: what the threads of p, one at a time, do with the cache
  slot,       \* the processes that keep the cache for the next thread
  named,      \* named[p]: the files whose locks the cache of p has are there
  ended       \* the processes that ended the use of their generation but run

cacheVars == <<caches, newest, staged, user, slot, named, ended>>
allVars == <<vars, cacheVars>>

Mine(p) == <<Own(p), Runtime[p]>>
Unfinished(p) == <<Own(p), Runtime[p], p>>
Does(p, what) == user' = [user EXCEPT ![p] = what]

(* Either the path is new, or the version before has left its generation. *)
Before ==
  /\ \E id \in Contents \ {Content[1]} :
       current = id /\ dirs = {id} /\ receipts = {id} /\ names = {id}
  /\ source = 1 /\ temps = {} /\ gate = NoProc
  /\ pc     = [p \in Procs |-> "off"]
  /\ stamp  = [p \in Procs |-> 1]
  /\ lease  = [p \in Procs |-> NoContent]
  /\ linked = [p \in Procs |-> FALSE]
  /\ held   = [p \in Procs |-> {}]
  /\ todo   = [p \in Procs |-> {}]
  /\ kills = 0

InitAll ==
  /\ Init \/ Before
  /\ caches = {} /\ staged = {}
  /\ newest = [id \in Contents |-> NoRuntime]
  /\ user   = [p \in Procs |-> "none"]
  /\ slot = {} /\ ended = {}
  /\ named  = [p \in Procs |-> FALSE]

-----------------------------------------------------------------------------
(* Threads of the application, in use of the generation or after it. *)
Runs(p) == pc[p] \in Using \/ p \in ended

(* The directories on the way to a file are made with the file. *)
Recreated(p) ==
  /\ dirs' = dirs \cup {Own(p)}
  /\ UNCHANGED <<source, current, receipts, names, temps, gate, pc, stamp, leaseVars,
                 held, todo, kills>>

GateFree(id) == ~\E q \in Procs : user[q] = "compiling" /\ named[q] /\ Own(q) = id

(* cache(): the first thread that needs the cache opens it; the others wait,
   and so does the end of the use.  Opening, under the gate, takes the lease
   and sets `current'. *)
LockCompile(p) ==
  /\ Runs(p) /\ user[p] = "none"
  /\ GateFree(Own(p))
  /\ Does(p, "compiling")
  /\ named' = [named EXCEPT ![p] = TRUE]
  /\ Recreated(p)
  /\ UNCHANGED <<caches, newest, staged, slot, ended>>

(* collect_old once more, by p: the directories of other runtimes than cur
   that nobody uses. *)
Holds(q) == user[q] \in {"ready", "holding", "storing"}
SlipUnleased(p, d) == TRUE           \* the lease is opened but not locked
Unleased(p, d) == \A q \in Procs \ {p} : ~(Holds(q) /\ named[q] /\ Mine(q) = d)
Obsolete(p, cur) == {d \in caches : d[1] = Own(p) /\ d[2] # cur /\ Unleased(p, d)}
Without(old) == {s \in staged : <<s[1], s[2]>> \notin old}

Compile(p) ==
  /\ user[p] = "compiling"
  /\ LET old == Obsolete(p, Runtime[p])
     IN caches' = (caches \ old) \cup {Mine(p)} /\ staged' = Without(old)
  /\ newest' = [newest EXCEPT ![Own(p)] = Runtime[p]]
  /\ slot' = slot \cup {p}
  /\ named' = [named EXCEPT ![p] = TRUE]
  /\ Does(p, "ready")
  /\ Recreated(p)
  /\ UNCHANGED ended

(* A thread takes the cache to read or to store code with it ... *)
Take(p) ==
  /\ user[p] = "ready" /\ Runs(p)
  /\ Does(p, "holding")
  /\ UNCHANGED <<vars, caches, newest, staged, slot, named, ended>>

BeginStore(p) ==
  /\ user[p] = "holding" /\ Runs(p)
  /\ caches' = caches \cup {Mine(p)}
  /\ staged' = staged \cup {Unfinished(p)}
  /\ Does(p, "storing")
  /\ Recreated(p)
  /\ UNCHANGED <<newest, slot, named, ended>>

(* ... and when it is the last to let go of it, the cache is dropped: the
   lease first, then old directories, unless the gate is taken. *)
Drop(p) ==
  /\ Does(p, "none")
  /\ named' = [named EXCEPT ![p] = FALSE]
  /\ LET old == IF GateFree(Own(p)) THEN Obsolete(p, newest[Own(p)]) ELSE {}
     IN caches' = caches \ old /\ staged' = Without(old) \ {Unfinished(p)}

LetGo(p) ==
  /\ user[p] \in {"holding", "storing"} /\ Runs(p)
  /\ IF p \in slot
     THEN /\ Does(p, "ready")
          /\ staged' = staged \ {Unfinished(p)}
          /\ UNCHANGED <<vars, caches, named>>
     ELSE Drop(p) /\ Recreated(p)
  /\ UNCHANGED <<newest, slot, ended>>

(* dnr_cache::finish *)
EndUse(p) ==
  /\ Finish(p)
  /\ user[p] # "compiling"
  /\ p \notin Lingering => user[p] \in {"none", "ready"}
  /\ slot' = slot \ {p}
  /\ ended' = ended \cup ({p} \cap Lingering)
  /\ IF user[p] = "ready" THEN Drop(p) ELSE UNCHANGED <<user, named, caches, staged>>
  /\ UNCHANGED newest

-----------------------------------------------------------------------------
(* What lies in a generation goes with its directory; an idle generation is
   freed of unfinished files when it is opened. *)
Follow(p) ==
  LET gone == Contents \ dirs'
      idle == IF pc[p] = "idle" THEN {Own(p)} ELSE {}
  IN /\ caches' = {d \in caches : d[1] \notin gone}
     /\ staged' = {s \in staged : s[1] \notin gone \cup idle}
     /\ newest' = [id \in Contents |-> IF id \in gone THEN NoRuntime ELSE newest[id]]
     /\ named'  = [q \in Procs |-> named[q] /\ Own(q) \notin gone]

(* A process that has the gate of the generations, and the others. *)
Working(p) == (Open(p) \/ Collect(p)) /\ Follow(p) /\ UNCHANGED <<user, slot, ended>>

Uses(p) ==
  /\ LockGate(p) \/ BeginWrite(p) \/ EndWrite(p) \/ Sweep(p) \/ CleanUp(p)
  /\ Follow(p)
  /\ UNCHANGED <<user, slot, ended>>

(* Another process takes the place of one that is gone. *)
Begin(p) == (OpenPackage(p) \/ List(p)) /\ p \notin ended /\ UNCHANGED cacheVars

Forgotten(p) ==
  /\ Does(p, "none")
  /\ named' = [named EXCEPT ![p] = FALSE]
  /\ slot' = slot \ {p}
  /\ ended' = ended \ {p}
  /\ UNCHANGED <<caches, newest, staged>>

Exit(p) == pc[p] = "off" /\ p \in ended /\ Forgotten(p) /\ UNCHANGED vars

NextAll ==
  \/ Replace /\ UNCHANGED cacheVars
  \/ \E p \in Procs :
       \/ Begin(p) \/ Uses(p) \/ Working(p)
       \/ LockCompile(p) \/ Compile(p) \/ Take(p) \/ BeginStore(p) \/ LetGo(p)
       \/ EndUse(p) \/ Exit(p)
       \/ Kill(p) /\ Forgotten(p)

(* A process that has the gate of the generations goes on; nobody is made to
   come, and nothing is assumed of the threads. *)
FairAll == InitAll /\ [][NextAll]_allVars /\ \A p \in Procs : WF_allVars(Working(p))

-----------------------------------------------------------------------------
(* While a process uses its generation, the directory of its compiled code,
   its lock on it and what it is storing there stay, although processes of
   other runtimes make theirs current and remove the old ones, and although
   threads of a process that has ended its use go on in there, or recreate a
   directory that was removed. *)
CompiledStays ==
  \A p \in Procs : pc[p] \in Using /\ Holds(p) =>
    /\ named[p]
    /\ Mine(p) \in caches
    /\ user[p] = "storing" => Unfinished(p) \in staged
=============================================================================
