---------------------------- MODULE Generations ----------------------------
(***************************************************************************)
(* The cache generations of one package path (crates/package/src/          *)
(* persistent.rs, and `clean' of persistent/management.rs).  Every version *)
(* of the package has a directory of its own; processes that use one hold  *)
(* a shared lock on its lease file, `current' names the version at the     *)
(* path, and everything that takes a lease, publishes a version or removes *)
(* a directory happens under the gate, an exclusive lock.                  *)
(*                                                                         *)
(* A step is one operation on the file system; a process may be killed     *)
(* between any two, which frees its locks.  A lock belongs to the file it  *)
(* was taken on, not to the name: `linked[p]' is false once the lease file *)
(* that p holds was unlinked, whereupon nobody else can see its lock.      *)
(***************************************************************************)
EXTENDS Integers, FiniteSets

CONSTANTS
  Procs,      \* processes: the application, and `dnr clean'
  Contents,   \* content hashes of the versions
  Content,    \* Content[s]: the version at the path while its stamp is s
  MaxStamp,   \* bound: the path is replaced MaxStamp - 1 times
  MaxKills    \* bound: processes killed in one behaviour

NoProc    == "no process"
NoContent == "no content"

ASSUME GenerationsAssumption ==
  /\ MaxStamp \in Nat \ {0}
  /\ MaxKills \in Nat
  /\ Content \in [1..MaxStamp -> Contents]
  /\ NoProc \notin Procs /\ NoContent \notin Contents

VARIABLES
  source,     \* the stamp of the file at the path
  current,    \* the version published as current
  dirs,       \* the generation directories
  receipts,   \* those of them that hold a receipt
  names,      \* the lease files
  temps,      \* unfinished files: <<id, p>> is one of p in generation id
  gate,       \* the process that holds the gate
  pc,         \* pc[p]: where p stands
  stamp,      \* stamp[p]: the stamp of the package p has open
  lease,      \* lease[p]: the generation whose lease file p has locked
  linked,     \* linked[p]: that file still has its name
  held,       \* held[p]: the lease files p has locked exclusively to remove
  todo,       \* todo[p]: the generations p has still to consider
  kills

diskVars  == <<current, dirs, receipts, names, temps>>
leaseVars == <<lease, linked>>
vars == <<source, diskVars, gate, pc, stamp, leaseVars, held, todo, kills>>

Own(p) == Content[stamp[p]]

(* Whether a lock on the lease file of id keeps others from locking it
   exclusively. *)
InUse(id)  == \E q \in Procs : lease[q] = id /\ linked[q]
Locked(id) == InUse(id) \/ \E q \in Procs : id \in held[q]

Goto(p, where) == pc' = [pc EXCEPT ![p] = where]

-----------------------------------------------------------------------------
Init ==
  /\ source = 1
  /\ current = NoContent
  /\ dirs = {} /\ receipts = {} /\ names = {} /\ temps = {}
  /\ gate = NoProc
  /\ pc     = [p \in Procs |-> "off"]
  /\ stamp  = [p \in Procs |-> 1]
  /\ lease  = [p \in Procs |-> NoContent]
  /\ linked = [p \in Procs |-> FALSE]
  /\ held   = [p \in Procs |-> {}]
  /\ todo   = [p \in Procs |-> {}]
  /\ kills = 0

(* Somebody replaces the package; nothing waits for the gate to do so. *)
Replace ==
  /\ source < MaxStamp
  /\ source' = source + 1
  /\ UNCHANGED <<diskVars, gate, pc, stamp, leaseVars, held, todo, kills>>

(* Package::open: the stamp is that of the open file. *)
OpenPackage(p) ==
  /\ pc[p] = "off"
  /\ stamp' = [stamp EXCEPT ![p] = source]
  /\ Goto(p, "opened")
  /\ UNCHANGED <<source, diskVars, gate, leaseVars, held, todo, kills>>

-----------------------------------------------------------------------------
(* Generation::open, which the process may call much later. *)
LockGate(p) ==
  /\ pc[p] = "opened"
  /\ gate = NoProc
  /\ gate' = p
  /\ Goto(p, "lease")
  /\ UNCHANGED <<source, diskVars, stamp, leaseVars, held, todo, kills>>

(* An exclusive lock on the lease tells that nobody uses the generation; it
   becomes a shared one after the leftovers of killed processes are gone. *)
SlipQuiet(id) == TRUE                \* clean up without asking who writes
Quiet(id) == ~Locked(id)

TakeLease(p) ==
  /\ pc[p] = "lease"
  /\ \A q \in Procs : Own(p) \notin held[q]
  /\ names' = names \cup {Own(p)}
  /\ lease' = [lease EXCEPT ![p] = Own(p)]
  /\ linked' = [linked EXCEPT ![p] = TRUE]
  /\ Goto(p, IF Quiet(Own(p)) THEN "idle" ELSE "busy")
  /\ UNCHANGED <<source, current, dirs, receipts, temps, gate, stamp, held, todo, kills>>

Of(id) == {f \in temps : f[1] = id}

MakeDirectory(p) ==
  /\ pc[p] \in {"idle", "busy"}
  /\ dirs' = dirs \cup {Own(p)}
  /\ temps' = IF pc[p] = "idle" THEN temps \ Of(Own(p)) ELSE temps
  /\ Goto(p, "receipt")
  /\ UNCHANGED <<source, current, receipts, names, gate, stamp, leaseVars, held, todo,
                 kills>>

WriteReceipt(p) ==
  /\ pc[p] = "receipt"
  /\ receipts' = receipts \cup {Own(p)}
  /\ Goto(p, "stamp")
  /\ UNCHANGED <<source, current, dirs, names, temps, gate, stamp, leaseVars, held, todo,
                 kills>>

(* A process that still has an older package open uses its generation but
   must not make it current again. *)
SlipIsSource(p) == TRUE              \* whoever opens is current
IsSource(p) == source = stamp[p]

(* collect_old reads `current' and lists the directories. *)
SlipOld(cur) == {}
Old(cur) == dirs \ {cur}

CompareStamp(p) ==
  /\ pc[p] = "stamp"
  /\ IF IsSource(p) /\ current # Own(p)
     THEN Goto(p, "publish") /\ UNCHANGED todo
     ELSE Goto(p, "collect") /\ todo' = [todo EXCEPT ![p] = Old(current)]
  /\ UNCHANGED <<source, diskVars, gate, stamp, leaseVars, held, kills>>

Publish(p) ==
  /\ pc[p] = "publish"
  /\ current' = Own(p)
  /\ todo' = [todo EXCEPT ![p] = Old(Own(p))]
  /\ Goto(p, "collect")
  /\ UNCHANGED <<source, dirs, receipts, names, temps, gate, stamp, leaseVars, held, kills>>

(* collect_old: the lease of an old generation is tried; one that is free is
   removed, directory first, lease file last. *)
SlipFree(id) == TRUE                 \* the lease is opened but not locked
Free(id) == ~Locked(id)

Try(p, id) ==
  /\ pc[p] \in {"collect", "sweep"}
  /\ held[p] = {} /\ id \in todo[p]
  /\ names' = names \cup {id}
  /\ IF Free(id)
     THEN /\ held' = [held EXCEPT ![p] = {id}]
          /\ receipts' = receipts \ {id}
          /\ UNCHANGED todo
     ELSE /\ todo' = [todo EXCEPT ![p] = @ \ {id}]
          /\ UNCHANGED <<held, receipts>>
  /\ UNCHANGED <<source, current, dirs, temps, gate, pc, stamp, leaseVars, kills>>

Remove(p, id) ==
  /\ pc[p] \in {"collect", "sweep"}
  /\ id \in held[p]
  /\ dirs' = dirs \ {id}
  /\ temps' = temps \ Of(id)
  /\ names' = names \ {id}
  /\ linked' = [q \in Procs |-> linked[q] /\ lease[q] # id]
  /\ held' = [held EXCEPT ![p] = {}]
  /\ todo' = [todo EXCEPT ![p] = @ \ {id}]
  /\ UNCHANGED <<source, current, receipts, gate, pc, stamp, lease, kills>>

Unlock(p) ==
  /\ pc[p] \in {"collect", "sweep"}
  /\ todo[p] = {}
  /\ gate' = NoProc
  /\ Goto(p, IF pc[p] = "collect" THEN "use" ELSE "off")
  /\ UNCHANGED <<source, diskVars, stamp, leaseVars, held, todo, kills>>

-----------------------------------------------------------------------------
(* A file of the cache is written beside its place and then put there. *)
BeginWrite(p) ==
  /\ pc[p] = "use"
  /\ temps' = temps \cup {<<Own(p), p>>}
  /\ Goto(p, "write")
  /\ UNCHANGED <<source, current, dirs, receipts, names, gate, stamp, leaseVars, held,
                 todo, kills>>

EndWrite(p) ==
  /\ pc[p] = "write"
  /\ temps' = temps \ {<<Own(p), p>>}
  /\ Goto(p, "use")
  /\ UNCHANGED <<source, current, dirs, receipts, names, gate, stamp, leaseVars, held,
                 todo, kills>>

(* Generation::finish gives the lease back first ... *)
Finish(p) ==
  /\ pc[p] = "use"
  /\ lease' = [lease EXCEPT ![p] = NoContent]
  /\ linked' = [linked EXCEPT ![p] = FALSE]
  /\ Goto(p, "finish")
  /\ UNCHANGED <<source, diskVars, gate, stamp, held, todo, kills>>

(* ... and then collects, unless the gate is taken. *)
Sweep(p) ==
  /\ pc[p] = "finish"
  /\ IF gate = NoProc
     THEN /\ gate' = p
          /\ todo' = [todo EXCEPT ![p] = Old(current)]
          /\ Goto(p, "sweep")
     ELSE Goto(p, "off") /\ UNCHANGED <<gate, todo>>
  /\ UNCHANGED <<source, diskVars, stamp, leaseVars, held, kills>>

-----------------------------------------------------------------------------
(* `dnr clean': the generations with a receipt are listed, and some of them
   selected, before the gate is taken; a lock on the catalog keeps it to one
   process at a time. *)
List(p) ==
  /\ pc[p] = "off"
  /\ \A q \in Procs : pc[q] \notin {"listed", "clean"}
  /\ \E S \in SUBSET receipts :
       S # {} /\ todo' = [todo EXCEPT ![p] = S]
  /\ Goto(p, "listed")
  /\ UNCHANGED <<source, diskVars, gate, stamp, leaseVars, held, kills>>

(* Every generation of the path is tried, selected or not; one that is in use
   protects them all. *)
SlipActive(p) == \E id \in todo[p] : Locked(id)    \* only the selected ones
Active(p) == \E id \in dirs : Locked(id)

TryAll(p) ==
  /\ pc[p] = "listed"
  /\ gate = NoProc
  /\ names' = names \cup dirs
  /\ IF Active(p)
     THEN Goto(p, "off") /\ todo' = [todo EXCEPT ![p] = {}] /\ UNCHANGED <<gate, held>>
     ELSE /\ gate' = p
          /\ held' = [held EXCEPT ![p] = dirs]
          /\ Goto(p, "clean")
          /\ UNCHANGED todo
  /\ UNCHANGED <<source, current, dirs, receipts, temps, stamp, leaseVars, kills>>

(* Directories are removed, lease files stay. *)
Clean(p, id) ==
  /\ pc[p] = "clean"
  /\ id \in todo[p]
  /\ dirs' = dirs \ {id}
  /\ receipts' = receipts \ {id}
  /\ temps' = temps \ Of(id)
  /\ todo' = [todo EXCEPT ![p] = @ \ {id}]
  /\ UNCHANGED <<source, current, names, gate, pc, stamp, leaseVars, held, kills>>

Cleaned(p) ==
  /\ pc[p] = "clean"
  /\ todo[p] = {}
  /\ gate' = NoProc
  /\ held' = [held EXCEPT ![p] = {}]
  /\ Goto(p, "off")
  /\ UNCHANGED <<source, diskVars, stamp, leaseVars, todo, kills>>

-----------------------------------------------------------------------------
Kill(p) ==
  /\ pc[p] # "off"
  /\ kills < MaxKills
  /\ kills' = kills + 1
  /\ Goto(p, "off")
  /\ gate' = IF gate = p THEN NoProc ELSE gate
  /\ lease' = [lease EXCEPT ![p] = NoContent]
  /\ linked' = [linked EXCEPT ![p] = FALSE]
  /\ held' = [held EXCEPT ![p] = {}]
  /\ todo' = [todo EXCEPT ![p] = {}]
  /\ UNCHANGED <<source, diskVars, stamp>>

-----------------------------------------------------------------------------
Open(p) ==
  \/ TakeLease(p) \/ MakeDirectory(p) \/ WriteReceipt(p)
  \/ CompareStamp(p) \/ Publish(p)

Collect(p) ==
  (\E id \in Contents : Try(p, id) \/ Remove(p, id)) \/ Unlock(p)

CleanUp(p) == TryAll(p) \/ (\E id \in Contents : Clean(p, id)) \/ Cleaned(p)

Next ==
  \/ Replace
  \/ \E p \in Procs :
       \/ OpenPackage(p) \/ LockGate(p) \/ Open(p) \/ Collect(p)
       \/ BeginWrite(p) \/ EndWrite(p) \/ Finish(p) \/ Sweep(p)
       \/ List(p) \/ CleanUp(p)
       \/ Kill(p)

Spec == Init /\ [][Next]_vars

-----------------------------------------------------------------------------
Gated == {"lease", "idle", "busy", "receipt", "stamp", "publish", "collect", "sweep", "clean"}
Phases == Gated \cup {"off", "opened", "use", "write", "finish", "listed"}

Shape ==
  /\ source \in 1..MaxStamp
  /\ current \in Contents \cup {NoContent}
  /\ dirs \subseteq Contents
  /\ receipts \subseteq Contents
  /\ names \subseteq Contents
  /\ temps \subseteq Contents \X Procs
  /\ gate \in Procs \cup {NoProc}
  /\ pc \in [Procs -> Phases]
  /\ stamp \in [Procs -> 1..source]
  /\ lease \in [Procs -> Contents \cup {NoContent}]
  /\ linked \in [Procs -> BOOLEAN]
  /\ held \in [Procs -> SUBSET Contents]
  /\ todo \in [Procs -> SUBSET Contents]
  /\ kills \in 0..MaxKills

(* Every variable stays in its domain, and a receipt lies in a directory. *)
TypeOK == Shape /\ receipts \subseteq dirs

Using == {"use", "write"}

(* A generation stays while a process uses it: neither a process that starts
   or ends, nor a cleanup, nor one killed half way through, removes its
   directory, its receipt or the lease file that protects it. *)
InUseStays ==
  \A p \in Procs : pc[p] \in Using =>
    /\ lease[p] = Own(p) /\ Own(p) \in dirs \cap receipts
    /\ linked[p] /\ Own(p) \in names

(* The leftovers of killed processes are removed, and nothing that a live one
   is about to put in place. *)
WritesSurvive == \A p \in Procs : pc[p] = "write" => <<Own(p), p>> \in temps

(* A process that uses the package now at the path finds it current, however
   late another one that still has an older package open comes. *)
CurrentIsSource ==
  \A p \in Procs : pc[p] \in Using /\ stamp[p] = source => current = Own(p)

(* Cleanup removes nothing of a path of which any generation is in use, not
   even of a generation that is not. *)
CleansIdlePath ==
  \A p, q \in Procs : pc[p] = "clean" /\ dirs' # dirs => pc[q] \notin Using

CleanSparesPath == [][CleansIdlePath]_vars

(* Whoever opens the package removes the old generations nobody uses, those
   left behind by killed processes or by one that found the gate taken when it
   ended. *)
Opening == {"lease", "idle", "busy", "receipt", "stamp"}

Leftover(id) == id \in dirs /\ id # current /\ ~InUse(id)

OpenReclaims ==
  \A id \in Contents :
    ((\E p \in Procs : pc[p] \in Opening) /\ Leftover(id) /\ kills = MaxKills) ~> ~Leftover(id)
=============================================================================
