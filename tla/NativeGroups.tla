---------------------------- MODULE NativeGroups ----------------------------
(***************************************************************************)
(* A native group - libraries that only work from real files - of one      *)
(* package content installed at several paths (crates/package/src/         *)
(* materialize.rs).  Every path has a cache generation of its own, in      *)
(* which the group is extracted once and then shared by the processes of   *)
(* that path.  Who extracts it may instead link the files of another path, *)
(* found in the catalog.                                                   *)
(*                                                                         *)
(* There are four locks on each path, all of them on files: the gate of    *)
(* its generations, the lease of the generation, the preparation gate of   *)
(* the group and the lock of the group.  The threads of a process take     *)
(* turns at a mutex for the group, so a process stands for the one whose   *)
(* turn it is.  The sidecar of an installed package is not in this module. *)
(***************************************************************************)
EXTENDS Integers, FiniteSets

CONSTANTS
  Procs,       \* processes
  Paths,       \* the paths at which the package is installed
  Path,        \* Path[p]: the path p runs
  Indexable,   \* the paths whose generations come into the catalog
  MaxCalls,    \* bound: times that a process asks for the group
  MaxDamages   \* bound: times that files are lost from an extracted group

NoProc == "no process"
NoPath == "no path"

ASSUME GroupsAssumption ==
  /\ Path \in [Procs -> Paths]
  /\ Indexable \subseteq Paths
  /\ MaxCalls \in Nat /\ MaxDamages \in Nat
  /\ NoProc \notin Procs /\ NoPath \notin Paths

VARIABLES
  disk,       \* disk[a]: the directory of the group at a
  files,      \* the paths where the file of the group lock exists
  catalog,    \* the paths that the catalog names for this content
  gate,       \* gate[a]: who holds the gate of the generations at a
  leases,     \* leases[a]: who holds the lease of the generation at a
  preparing,  \* preparing[a]: who holds the preparation gate
  owner,      \* owner[a]: who holds the group lock exclusively
  sharers,    \* sharers[a]: who holds it shared
  pc,         \* pc[p]: where p stands
  todo,       \* todo[p]: the candidates p has still to look at
  from,       \* from[p]: the candidate p looks at, or copies from
  calls, damages

diskVars == <<disk, files, catalog>>
lockVars == <<gate, leases, preparing, owner, sharers>>
groupVars == <<owner, sharers>>
searchVars == <<todo, from>>
vars == <<diskVars, lockVars, pc, searchVars, calls, damages>>

Own(p) == Path[p]
Goto(p, where) == pc' = [pc EXCEPT ![p] = where]
Free(lock, a) == lock[a] = NoProc

(* Closing a file gives its lock back, whoever waits for it. *)
Dropped(lock, p) == [a \in Paths |-> IF lock[a] = p THEN NoProc ELSE lock[a]]
Without(set, p)  == [a \in Paths |-> set[a] \ {p}]

-----------------------------------------------------------------------------
(* Files may be missing from the start: an earlier extraction was killed. *)
Init ==
  /\ disk \in [Paths -> {"none", "damaged"}]
  /\ files = {a \in Paths : disk[a] = "damaged"}
  /\ catalog = {}
  /\ gate      = [a \in Paths |-> NoProc]
  /\ leases    = [a \in Paths |-> {}]
  /\ preparing = [a \in Paths |-> NoProc]
  /\ owner     = [a \in Paths |-> NoProc]
  /\ sharers   = [a \in Paths |-> {}]
  /\ pc   = [p \in Procs |-> "off"]
  /\ todo = [p \in Procs |-> {}]
  /\ from = [p \in Procs |-> NoPath]
  /\ calls = 0 /\ damages = 0

(* bind_group opens the generation of the path, under its gate. *)
Open(p) ==
  /\ pc[p] = "off"
  /\ Free(gate, Own(p))
  /\ leases' = [leases EXCEPT ![Own(p)] = @ \cup {p}]
  /\ Goto(p, "open")
  /\ UNCHANGED <<diskVars, gate, preparing, groupVars, searchVars, calls, damages>>

(* Whatever is stored in a generation, compiled code for one, is announced to
   a background thread that puts the generation into the catalog. *)
Index(p) ==
  /\ pc[p] # "off"
  /\ Own(p) \in Indexable \ catalog
  /\ catalog' = catalog \cup {Own(p)}
  /\ UNCHANGED <<disk, files, lockVars, pc, searchVars, calls, damages>>

-----------------------------------------------------------------------------
(* ensure_group, as long as the process has the group not ready. *)
Call(p) ==
  /\ pc[p] = "open"
  /\ calls < MaxCalls
  /\ calls' = calls + 1
  /\ Goto(p, "called")
  /\ UNCHANGED <<diskVars, lockVars, searchVars, damages>>

LockPreparation(p) ==
  /\ pc[p] = "called"
  /\ Free(preparing, Own(p))
  /\ preparing' = [preparing EXCEPT ![Own(p)] = p]
  /\ Goto(p, "prepare")
  /\ UNCHANGED <<diskVars, gate, leases, groupVars, searchVars, calls, damages>>

LockShared(p) ==
  /\ pc[p] = "prepare"
  /\ Free(owner, Own(p))
  /\ files' = files \cup {Own(p)}
  /\ sharers' = [sharers EXCEPT ![Own(p)] = @ \cup {p}]
  /\ Goto(p, "check")
  /\ UNCHANGED <<disk, catalog, gate, leases, preparing, owner, searchVars, calls, damages>>

Valid(a) == disk[a] = "complete"

SlipCheck(p) ==                      \* a group that is there is taken as it is
  /\ pc[p] = "check"
  /\ IF disk[Own(p)] # "none"
     THEN Goto(p, "ready") /\ preparing' = Dropped(preparing, p)
     ELSE Goto(p, "convert") /\ UNCHANGED preparing
  /\ UNCHANGED <<diskVars, gate, leases, groupVars, searchVars, calls, damages>>

Check(p) ==
  /\ pc[p] = "check"
  /\ IF Valid(Own(p))
     THEN Goto(p, "ready") /\ preparing' = Dropped(preparing, p)
     ELSE Goto(p, "convert") /\ UNCHANGED preparing
  /\ UNCHANGED <<diskVars, gate, leases, groupVars, searchVars, calls, damages>>

(* The other paths that the catalog names for the content; none if it is
   locked or cannot be read. *)
Found(p) == {catalog \ {Own(p)}, {}}

(* The shared lock becomes an exclusive one, or the call fails: the group is
   in use.  Then the catalog is asked for candidates. *)
MayConvert(p) == Free(owner, Own(p)) /\ sharers[Own(p)] \subseteq {p}

Convert(p) ==
  /\ pc[p] = "convert"
  /\ sharers' = [sharers EXCEPT ![Own(p)] = @ \ {p}]
  /\ IF MayConvert(p)
     THEN /\ owner' = [owner EXCEPT ![Own(p)] = p]
          /\ \E found \in Found(p) : todo' = [todo EXCEPT ![p] = found]
          /\ Goto(p, "search")
          /\ UNCHANGED preparing
     ELSE /\ preparing' = Dropped(preparing, p)
          /\ Goto(p, "open")
          /\ UNCHANGED <<owner, todo>>
  /\ UNCHANGED <<diskVars, gate, leases, from, calls, damages>>

-----------------------------------------------------------------------------
(* reusable_group. *)
Pick(p) ==
  /\ pc[p] = "search"
  /\ IF todo[p] = {}
     THEN Goto(p, "fill") /\ UNCHANGED searchVars
     ELSE \E b \in todo[p] :
            /\ from' = [from EXCEPT ![p] = b]
            /\ todo' = [todo EXCEPT ![p] = @ \ {b}]
            /\ Goto(p, "reach")
  /\ UNCHANGED <<diskVars, lockVars, calls, damages>>

(* The gate of the candidate's path, and a lease on its generation. *)
LockGate(p) ==
  /\ pc[p] = "reach"
  /\ Free(gate, from[p])
  /\ gate' = [gate EXCEPT ![from[p]] = p]
  /\ leases' = [leases EXCEPT ![from[p]] = @ \cup {p}]
  /\ Goto(p, "peek")
  /\ UNCHANGED <<diskVars, preparing, groupVars, searchVars, calls, damages>>

(* A candidate that is of no use: its locks are given back. *)
SlipReject(p) ==                     \* all but the gate
  /\ leases' = [leases EXCEPT ![from[p]] = @ \ {p}]
  /\ sharers' = [sharers EXCEPT ![from[p]] = @ \ {p}]
  /\ from' = [from EXCEPT ![p] = NoPath]
  /\ Goto(p, "search")
  /\ UNCHANGED gate

Reject(p) ==
  /\ gate' = Dropped(gate, p)
  /\ leases' = [leases EXCEPT ![from[p]] = @ \ {p}]
  /\ sharers' = [sharers EXCEPT ![from[p]] = @ \ {p}]
  /\ from' = [from EXCEPT ![p] = NoPath]
  /\ Goto(p, "search")

(* Its group lock.  The gate is held while a process that is extracting that
   group is waited for. *)
NoSuchGroup(p) ==
  /\ pc[p] = "peek"
  /\ from[p] \notin files
  /\ Reject(p)
  /\ UNCHANGED <<diskVars, preparing, owner, todo, calls, damages>>

LockCandidate(p) ==
  /\ pc[p] = "peek"
  /\ from[p] \in files
  /\ Free(owner, from[p])
  /\ sharers' = [sharers EXCEPT ![from[p]] = @ \cup {p}]
  /\ Goto(p, "compare")
  /\ UNCHANGED <<diskVars, gate, leases, preparing, owner, searchVars, calls, damages>>

(* The gate is released with a valid candidate, the other two locks are kept
   until the files are linked. *)
Compare(p) ==
  /\ pc[p] = "compare"
  /\ IF Valid(from[p])
     THEN /\ gate' = Dropped(gate, p)
          /\ Goto(p, "fill")
          /\ UNCHANGED <<leases, sharers, from>>
     ELSE Reject(p)
  /\ UNCHANGED <<diskVars, preparing, owner, todo, calls, damages>>

-----------------------------------------------------------------------------
(* publish_group.  The stage is filled, with links or else from the archive,
   what is at the destination is removed, and the stage is renamed to it. *)
Fill(p) ==
  /\ pc[p] = "fill"
  /\ Goto(p, "remove")
  /\ UNCHANGED <<diskVars, lockVars, searchVars, calls, damages>>

RemoveOld(p) ==
  /\ pc[p] = "remove"
  /\ disk' = [disk EXCEPT ![Own(p)] = "none"]
  /\ Goto(p, "rename")
  /\ UNCHANGED <<files, catalog, lockVars, searchVars, calls, damages>>

Candidate(p) == IF from[p] = NoPath THEN {} ELSE {from[p]}

(* With the end of publish_group the locks of the candidate are released. *)
Rename(p) ==
  /\ pc[p] = "rename"
  /\ disk' = [disk EXCEPT ![Own(p)] = "complete"]
  /\ leases'  = [a \in Paths |-> leases[a] \ (IF a \in Candidate(p) THEN {p} ELSE {})]
  /\ sharers' = Without(sharers, p)
  /\ from' = [from EXCEPT ![p] = NoPath]
  /\ Goto(p, "downgrade")
  /\ UNCHANGED <<files, catalog, gate, preparing, owner, todo, calls, damages>>

Downgrade(p) ==
  /\ pc[p] = "downgrade"
  /\ owner' = Dropped(owner, p)
  /\ sharers' = [sharers EXCEPT ![Own(p)] = @ \cup {p}]
  /\ preparing' = Dropped(preparing, p)
  /\ Goto(p, "ready")
  /\ UNCHANGED <<diskVars, gate, leases, searchVars, calls, damages>>

(* An error in publish_group - the archive is damaged, the disk full - ends
   the call, and another may follow. *)
Fail(p) ==
  /\ pc[p] \in {"fill", "remove", "rename"}
  /\ preparing' = Dropped(preparing, p)
  /\ owner' = Dropped(owner, p)
  /\ leases'  = [a \in Paths |-> leases[a] \ (IF a \in Candidate(p) THEN {p} ELSE {})]
  /\ sharers' = Without(sharers, p)
  /\ from' = [from EXCEPT ![p] = NoPath]
  /\ todo' = [todo EXCEPT ![p] = {}]
  /\ Goto(p, "open")
  /\ UNCHANGED <<diskVars, gate, calls, damages>>

-----------------------------------------------------------------------------
(* release_native_groups, and then the end of the generation's use. *)
Release(p) ==
  /\ pc[p] = "ready"
  /\ sharers' = Without(sharers, p)
  /\ Goto(p, "open")
  /\ UNCHANGED <<diskVars, gate, leases, preparing, owner, searchVars, calls, damages>>

Finish(p) ==
  /\ pc[p] = "open"
  /\ leases' = Without(leases, p)
  /\ Goto(p, "off")
  /\ UNCHANGED <<diskVars, gate, preparing, groupVars, searchVars, calls, damages>>

Kill(p) ==
  /\ pc[p] # "off"
  /\ gate' = Dropped(gate, p)
  /\ leases' = Without(leases, p)
  /\ preparing' = Dropped(preparing, p)
  /\ owner' = Dropped(owner, p)
  /\ sharers' = Without(sharers, p)
  /\ from' = [from EXCEPT ![p] = NoPath]
  /\ todo' = [todo EXCEPT ![p] = {}]
  /\ Goto(p, "off")
  /\ UNCHANGED <<diskVars, calls, damages>>

(* A generation that nobody leases is removed by `dnr cache clean', which
   takes it out of the catalog, or by collect_old, which does not.  If it is
   killed half way, something remains. *)
SlipUnused(a) == Free(gate, a)       \* the leases are not tried
Unused(a) == Free(gate, a) /\ leases[a] = {}

Reclaim(a) ==
  /\ Unused(a)
  /\ disk[a] # "none" \/ a \in files \cup catalog
  /\ \/ disk' = [disk EXCEPT ![a] = "none"] /\ files' = files \ {a}
     \/ disk[a] # "none" /\ disk' = [disk EXCEPT ![a] = "damaged"] /\ UNCHANGED files
  /\ catalog' \in {catalog, catalog \ {a}}
  /\ UNCHANGED <<lockVars, pc, searchVars, calls, damages>>

(* Files of an extracted group get lost. *)
Damage(a) ==
  /\ disk[a] = "complete"
  /\ damages < MaxDamages
  /\ damages' = damages + 1
  /\ disk' = [disk EXCEPT ![a] = "damaged"]
  /\ UNCHANGED <<files, catalog, lockVars, pc, searchVars, calls>>

-----------------------------------------------------------------------------
Search(p)  == Pick(p) \/ LockGate(p) \/ NoSuchGroup(p) \/ LockCandidate(p) \/ Compare(p)
Publish(p) == Fill(p) \/ RemoveOld(p) \/ Rename(p) \/ Downgrade(p)

Prepare(p) ==
  \/ LockPreparation(p) \/ LockShared(p) \/ Check(p) \/ Convert(p)
  \/ Search(p) \/ Publish(p)

Next ==
  \/ \E p \in Procs :
       \/ Open(p) \/ Index(p) \/ Call(p) \/ Prepare(p) \/ Fail(p)
       \/ Release(p) \/ Finish(p) \/ Kill(p)
  \/ \E a \in Paths : Reclaim(a) \/ Damage(a)

Spec == Init /\ [][Next]_vars

(* A process that prepares the group goes on when it can. *)
FairSpec == Spec /\ \A p \in Procs : WF_vars(Prepare(p))
-----------------------------------------------------------------------------
Searching == {"search", "reach", "peek", "compare"}
Owning    == Searching \cup {"fill", "remove", "rename", "downgrade"}
Preparing == {"called", "prepare", "check", "convert"} \cup Owning
Phases    == Preparing \cup {"off", "open", "ready"}

Shape ==
  /\ disk \in [Paths -> {"none", "damaged", "complete"}]
  /\ files \subseteq Paths /\ catalog \subseteq Paths
  /\ gate \in [Paths -> Procs \cup {NoProc}]
  /\ leases \in [Paths -> SUBSET Procs]
  /\ preparing \in [Paths -> Procs \cup {NoProc}]
  /\ owner \in [Paths -> Procs \cup {NoProc}]
  /\ sharers \in [Paths -> SUBSET Procs]
  /\ pc \in [Procs -> Phases]
  /\ todo \in [Procs -> SUBSET Paths]
  /\ from \in [Procs -> Paths \cup {NoPath}]
  /\ calls \in 0..MaxCalls /\ damages \in 0..MaxDamages

LocksExclude == \A a \in Paths : owner[a] = NoProc \/ sharers[a] = {}

(* Every variable stays in its domain, and who extracts a group is alone: no
   other process has its lock, and be it to look at the group as a candidate. *)
TypeOK == Shape /\ LocksExclude

(* A process that loads native code from a group finds all of it, whatever
   other processes prepare, fail at, remove or leave behind; only what is lost
   on disk meanwhile it may miss. *)
ReadyIsComplete ==
  \A p \in Procs : pc[p] = "ready" /\ damages = 0 => Valid(Own(p))

(* Nobody else changes a group that a process loads from or copies, not even
   a damaged one, and a complete group is not extracted again: it changes only
   when nobody has the generation in use. *)
UsesGroup(p, a) ==
  \/ pc[p] = "ready" /\ a = Own(p)
  \/ pc[p] \in {"fill", "remove", "rename"} /\ a = from[p]

GroupStays ==
  \A a \in Paths : disk'[a] # disk[a] /\ damages' = damages =>
    /\ \A p \in Procs : ~UsesGroup(p, a)
    /\ Valid(a) => leases[a] = {}

GroupsStay == [][GroupStays]_vars

(* Whoever asks for a group gets it, or an error. *)
PreparationEnds ==
  \A p \in Procs : pc[p] \in Preparing ~> pc[p] \notin Preparing

(* The preparation of one group does not hold what the preparation of another
   waits for, while it waits for that: two processes never wait for each other
   (docs/PERFORMANCE.md:183 says that checking and extracting a group holds
   no lock that other groups need). *)
WaitsFor(p, q) == pc[p] = "peek" /\ from[p] \in files /\ owner[from[p]] = q

NoMutualWait == \A p, q \in Procs : ~(WaitsFor(p, q) /\ WaitsFor(q, p))
=============================================================================
