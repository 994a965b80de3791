------------------------------ MODULE Install -------------------------------
(***************************************************************************)
(* `dnr install <package> <directory>' beside applications that start from *)
(* that directory.  A full installation (install_full in contents.rs) is a *)
(* directory of its own with .dnr/install.lock in it; a native one         *)
(* (install in commands.rs, prepare_at in materialize.rs) is the package   *)
(* with a sidecar of unpacked native groups, behind .dnr-install.lock.     *)
(* Both prepare the new tree aside, rename the old one away and the new    *)
(* one in.                                                                 *)
(*                                                                         *)
(* A lock is a lock on a file, not on a path: a tree brings the lock file  *)
(* that is in it.  Native installers exclude each other, full ones that    *)
(* run at the same time do not always.  A sidecar has one group.           *)
(***************************************************************************)
EXTENDS Naturals, FiniteSets

CONSTANTS
  Installers,   \* runs of `dnr install', each at most once
  Apps,         \* processes that start the application, again and again
  Versions,     \* package IDs
  MaxKills,     \* bound: installers killed
  MaxReplaced   \* bound: times the source package is replaced

None == "none"
Gate == "gate"      \* the file .dnr-install.lock
First == "first"    \* the lock file of the tree at the start

ASSUME InstallAssumption ==
  /\ Installers \cap Apps = {}
  /\ (Installers \cup Versions) \cap {None, Gate, First, "absent", "foreign"} = {}
  /\ MaxKills \in Nat /\ MaxReplaced \in Nat

(* Trees by the manifest or receipt in them, None for neither, "foreign" for
   something else that is there, and their lock file. *)
NoTree == [version |-> None, lock |-> "absent"]
Tree   == [version : Versions \cup {None, "foreign"}, lock : Installers \cup {First, None}]

Files == Installers \cup {First, Gate}

VARIABLES
  mode,       \* "full" or "native"
  source,     \* the package that is installed
  package,    \* native: the installed package
  gate,       \* native: .dnr-install.lock exists
  at,         \* the full installation, or the sidecar
  stash,      \* stash[i]: the tree that i renamed away
  staged,     \* staged[i]: the tree that i prepared
  pc,
  ask,        \* ask[i]: --force; the source is the installed package itself
  id,         \* the package ID that a process has read
  file,       \* the lock file that a process has opened in the tree
  held,       \* the locks: <<process, file>>
  met,        \* history: two full installers have run at the same time
  kills, replaced

idle == <<mode, met, kills, replaced>>
disk == <<package, gate, at, stash>>
own  == <<staged, ask, id, file>>
vars == <<mode, source, package, gate, at, stash, staged, pc, ask, id, file, held, met, kills, replaced>>

Processes == Installers \cup Apps

Ended == {"start", "done", "failed", "killed"}
Active(i) == pc[i] \notin Ended

(* An installer locks exclusively, an application shares. *)
Free(f, p) ==
  ~\E h \in held : h[2] = f /\ h[1] # p /\ (p \in Installers \/ h[1] \in Installers)
Take(f, p) == held' = held \cup {<<p, f>>}
Without(p) == {h \in held : h[1] # p}

Go(p, next) == pc' = [pc EXCEPT ![p] = next]

Drop(i) ==
  /\ held' = Without(i)
  /\ staged' = [staged EXCEPT ![i] = NoTree]
  /\ ask' = [ask EXCEPT ![i] = [force |-> FALSE, same |-> FALSE]]
  /\ id' = [id EXCEPT ![i] = None]
  /\ file' = [file EXCEPT ![i] = None]

(* An error return: locks and temporary directories are dropped. *)
Fail(i) ==
  /\ Go(i, "failed")
  /\ Drop(i)
  /\ stash' = [stash EXCEPT ![i] = NoTree]
  /\ UNCHANGED <<source, package, gate, at, idle>>

Init ==
  /\ mode \in {"full", "native"}
  /\ source \in Versions
  /\ at \in {NoTree, [version |-> None, lock |-> None], [version |-> "foreign", lock |-> None]}
            \cup [version : Versions, lock : {First}]
  /\ package \in Versions \cup {None}
  /\ mode = "full" => package = None
  /\ mode = "native" => at.lock \in {"absent", First}
  /\ gate = (mode = "native" /\ at # NoTree)
  /\ stash = [i \in Installers |-> NoTree]
  /\ staged = [i \in Installers |-> NoTree]
  /\ pc = [p \in Processes |-> "start"]
  /\ ask = [i \in Installers |-> [force |-> FALSE, same |-> FALSE]]
  /\ id = [p \in Processes |-> None]
  /\ file = [p \in Processes |-> None]
  /\ held = {}
  /\ met = FALSE
  /\ kills = 0 /\ replaced = 0

-----------------------------------------------------------------------------
(* The command opens its source. *)
Source(i, same) == IF same THEN package ELSE source
Open(i) ==
  /\ pc[i] = "start"
  /\ met' = (met \/ (mode = "full" /\ \E j \in Installers : Active(j)))
  /\ \E force \in BOOLEAN, same \in BOOLEAN :
       /\ same => mode = "native" /\ package # None
       /\ ask' = [ask EXCEPT ![i] = [force |-> force, same |-> same]]
       /\ id' = [id EXCEPT ![i] = Source(i, same)]
  /\ Go(i, IF mode = "full" THEN "check" ELSE "gate")
  /\ UNCHANGED <<source, disk, staged, file, held, mode, kills, replaced>>

(* Full: only an empty directory, or with --force an installation. *)
Empty(tree) == tree.version = None /\ tree.lock = None
MayReplaceTree(i) ==
  at = NoTree \/ Empty(at) \/ (ask[i].force /\ at.version \in Versions)
CheckDirectory(i) ==
  /\ pc[i] = "check"
  /\ IF MayReplaceTree(i) THEN Go(i, "lock") /\ UNCHANGED <<source, disk, own, held, idle>>
     ELSE Fail(i)

(* lock_file makes the directory and the lock file if they are not there. *)
LockDirectory(i) ==
  /\ pc[i] = "lock"
  /\ at' = IF at.lock \in Files THEN at ELSE [version |-> None, lock |-> i]
  /\ file' = [file EXCEPT ![i] = at'.lock]
  /\ Go(i, "try")
  /\ UNCHANGED <<source, package, gate, stash, staged, ask, id, held, idle>>

SlipTryFree(i) == TRUE                    \* the result of try_lock is not looked at
TryFree(i) == Free(file[i], i)
TryDirectory(i) ==
  /\ pc[i] = "try"
  /\ IF TryFree(i) THEN Take(file[i], i) /\ Go(i, "stage") /\ UNCHANGED <<source, disk, own, idle>>
     ELSE Fail(i)

-----------------------------------------------------------------------------
(* Native: the gate of the directory. *)
MakeGate(i) ==
  /\ pc[i] = "gate"
  /\ gate' = TRUE
  /\ Go(i, "trygate")
  /\ UNCHANGED <<source, package, at, stash, own, held, idle>>

SlipGateFree(i) == TRUE                   \* the result of try_lock is not looked at
GateFree(i) == Free(Gate, i)
TryGate(i) ==
  /\ pc[i] = "trygate"
  /\ IF GateFree(i) THEN Take(Gate, i) /\ Go(i, "compare") /\ UNCHANGED <<source, disk, own, idle>>
     ELSE Fail(i)

Permitted(i) == ask[i].same \/ ask[i].force \/ package \in {None, id[i]}
Compare(i) ==
  /\ pc[i] = "compare"
  /\ IF Permitted(i) THEN Go(i, "copy") /\ UNCHANGED <<source, disk, own, held, idle>>
     ELSE Fail(i)

(* The source is read again, into the directory. *)
SlipCopied(i) == TRUE                     \* whatever the source is by now
Copied(i) == Source(i, ask[i].same) = id[i]
Copy(i) ==
  /\ pc[i] = "copy"
  /\ IF Copied(i)
     THEN /\ id' = [id EXCEPT ![i] = Source(i, ask[i].same)]
          /\ Go(i, "scan")
          /\ UNCHANGED <<source, disk, staged, ask, file, held, idle>>
     ELSE Fail(i)

(* prepare_at: the groups of the old sidecar must not be in use. *)
Scan(i) ==
  /\ pc[i] = "scan"
  /\ IF at = NoTree
     THEN Go(i, "stage") /\ UNCHANGED <<source, disk, own, held, idle>>
     ELSE IF Free(at.lock, i)
     THEN Take(at.lock, i) /\ Go(i, "stage") /\ UNCHANGED <<source, disk, own, idle>>
     ELSE Fail(i)

-----------------------------------------------------------------------------
(* The new tree.  A full installation takes the lock file along that it finds
   in the old one. *)
SlipLockOf(i) == i                        \* a new lock file for the new tree
LockOf(i) == IF mode = "full" THEN at.lock ELSE i
Stage(i) ==
  /\ pc[i] = "stage"
  /\ \/ /\ LockOf(i) \in Files
        /\ staged' = [staged EXCEPT ![i] = [version |-> id[i], lock |-> LockOf(i)]]
        /\ Go(i, "away")
        /\ UNCHANGED <<source, disk, ask, id, file, held, idle>>
     \/ Fail(i)

Away(i) ==
  /\ pc[i] = "away"
  /\ stash' = [stash EXCEPT ![i] = at]
  /\ at' = NoTree
  /\ Go(i, "in")
  /\ UNCHANGED <<source, package, gate, own, held, idle>>

(* The rename fails by itself or because something is in the way. *)
In(i) ==
  /\ pc[i] = "in"
  /\ \/ at = NoTree /\ at' = staged[i] /\ Go(i, "tidy")
     \/ Go(i, "restore") /\ UNCHANGED at
  /\ UNCHANGED <<source, package, gate, stash, own, held, idle>>

SlipRestored(i) == at                     \* the backup is dropped as it is
Restored(i) == IF at = NoTree THEN stash[i] ELSE at
Restore(i) ==
  /\ pc[i] = "restore"
  /\ at' = Restored(i)
  /\ stash' = [stash EXCEPT ![i] = NoTree]
  /\ Go(i, "failed")
  /\ Drop(i)
  /\ UNCHANGED <<source, package, gate, idle>>

(* The backup and the locks in the old tree are dropped. *)
Tidy(i) ==
  /\ pc[i] = "tidy"
  /\ stash' = [stash EXCEPT ![i] = NoTree]
  /\ IF mode = "full" THEN Drop(i) /\ Go(i, "done")
     ELSE /\ held' = Without(i) \cup {<<i, Gate>>}
          /\ Go(i, "persist")
          /\ UNCHANGED own
  /\ UNCHANGED <<source, package, gate, at, idle>>

Persist(i) ==
  /\ pc[i] = "persist"
  /\ \/ /\ package' = IF ask[i].same THEN package ELSE id[i]
        /\ Go(i, "installed")
        /\ UNCHANGED <<source, gate, at, stash, own, held, idle>>
     \/ Fail(i)

End(i) ==
  /\ pc[i] = "installed"
  /\ Drop(i)
  /\ Go(i, "done")
  /\ UNCHANGED <<source, disk, idle>>

-----------------------------------------------------------------------------
(* An application starts: from the directory (installed_lease, then
   installed_manifest), or from the package, whose group it binds to the
   sidecar or to its cache (bind_group). *)
Start(a) ==
  /\ pc[a] = "start"
  /\ \/ /\ mode = "full" /\ at.lock \in Files
        /\ file' = [file EXCEPT ![a] = at.lock]
        /\ Go(a, "share")
        /\ UNCHANGED id
     \/ /\ mode = "native" /\ package # None
        /\ id' = [id EXCEPT ![a] = package]
        /\ Go(a, "probe")
        /\ UNCHANGED file
  /\ UNCHANGED <<source, disk, staged, ask, held, idle>>

Probe(a) ==
  /\ pc[a] = "probe"
  /\ Go(a, IF at = NoTree THEN "cache" ELSE "behind")
  /\ UNCHANGED <<source, disk, own, held, idle>>

PassGate(a) ==
  /\ pc[a] = "behind"
  /\ IF gate THEN Free(Gate, a) /\ Take(Gate, a) ELSE UNCHANGED held
  /\ Go(a, "group")
  /\ UNCHANGED <<source, disk, own, idle>>

OpenGroup(a) ==
  /\ pc[a] = "group"
  /\ IF at = NoTree
     THEN Go(a, "cache") /\ held' = Without(a) /\ UNCHANGED file
     ELSE Go(a, "share") /\ file' = [file EXCEPT ![a] = at.lock] /\ UNCHANGED held
  /\ UNCHANGED <<source, disk, staged, ask, id, idle>>

Share(a) ==
  /\ pc[a] = "share"
  /\ Free(file[a], a) /\ Take(file[a], a)
  /\ Go(a, "bind")
  /\ UNCHANGED <<source, disk, own, idle>>

(* valid_group for the package of the application; installed_manifest for
   whatever is installed. *)
SlipMatches(a) == at # NoTree             \* a receipt of any package will do
Matches(a) == IF mode = "full" THEN at.version \in Versions ELSE at.version = id[a]
Bind(a) ==
  /\ pc[a] = "bind"
  /\ IF Matches(a)
     THEN /\ Go(a, "running")
          /\ id' = IF mode = "full" THEN [id EXCEPT ![a] = at.version] ELSE id
          /\ UNCHANGED held
     ELSE /\ Go(a, IF mode = "full" THEN "leaving" ELSE "cache")
          /\ held' = Without(a)
          /\ UNCHANGED id
  /\ UNCHANGED <<source, disk, staged, ask, file, idle>>

Exit(a) ==
  /\ pc[a] \in {"running", "cache", "leaving"}
  /\ Go(a, "start")
  /\ held' = Without(a)
  /\ id' = [id EXCEPT ![a] = None]
  /\ file' = [file EXCEPT ![a] = None]
  /\ UNCHANGED <<source, disk, staged, ask, idle>>

-----------------------------------------------------------------------------
(* A killed installer leaves its temporary directories behind. *)
Kill(i) ==
  /\ Active(i) /\ kills < MaxKills
  /\ kills' = kills + 1
  /\ Go(i, "killed")
  /\ Drop(i)
  /\ UNCHANGED <<mode, source, disk, met, replaced>>

ReplaceSource ==
  /\ replaced < MaxReplaced
  /\ source' \in Versions \ {source}
  /\ replaced' = replaced + 1
  /\ UNCHANGED <<mode, disk, pc, own, held, met, kills>>

Full(i)   == CheckDirectory(i) \/ LockDirectory(i) \/ TryDirectory(i)
Native(i) == MakeGate(i) \/ TryGate(i) \/ Compare(i) \/ Copy(i) \/ Scan(i) \/ Persist(i) \/ End(i)
Replace(i) == Stage(i) \/ Away(i) \/ In(i) \/ Restore(i) \/ Tidy(i)
App(a) == Start(a) \/ Probe(a) \/ PassGate(a) \/ OpenGroup(a) \/ Share(a) \/ Bind(a) \/ Exit(a)

Next ==
  \/ \E i \in Installers : Open(i) \/ Full(i) \/ Native(i) \/ Replace(i) \/ Kill(i)
  \/ \E a \in Apps : App(a)
  \/ ReplaceSource

Spec == Init /\ [][Next]_vars

-----------------------------------------------------------------------------
TypeOK ==
  /\ source \in Versions /\ package \in Versions \cup {None}
  /\ at \in Tree \cup {NoTree}
  /\ \A i \in Installers : {stash[i], staged[i]} \subseteq Tree \cup {NoTree}
  /\ held \subseteq Processes \X Files
  /\ \A h, k \in held : h[2] = k[2] /\ h[1] \in Installers => h = k
  /\ kills \in 0..MaxKills /\ replaced \in 0..MaxReplaced

(* An application holds a lock on what it runs from.  Two that do not count:
   a full installer that is killed leaves a lock file behind that no directory
   has any more, and an application may have waited for that lock; and full
   installers that meet may hold the locks of different files. *)
Protected(a) ==
  /\ pc[a] = "running"
  /\ \/ mode = "native" /\ <<a, Gate>> \in held
     \/ mode = "full" /\ kills = 0 /\ ~met
     \/ file[a] = at.lock /\ ~met

(* Nothing is renamed under a running application, whatever order processes
   open the lock files, wait for them and look at the tree in. *)
RunningStays == [][\A a \in Apps : Protected(a) => at' = at]_at

(* What an application runs from is the package that it opened. *)
RunsOwnTree == \A a \in Apps : Protected(a) => at.version = id[a]

(* Once there is an installation there always is one, in place or in a
   backup beside it, also after failures and kills, unless two full installers
   meet. *)
Trees == {at} \cup {stash[i] : i \in Installers}
Exists == \E tree \in Trees : tree.version \in Versions
InstallationKept == [][Exists /\ ~met => Exists']_vars

(* Without --force, only an installation of the same package is replaced,
   though the package may be replaced by somebody else meanwhile, on either
   side.  (A full installer looks before it locks; nothing is said of two.) *)
Commits(i) == pc[i] = "persist" /\ pc'[i] = "installed"
NoForceKeeps ==
  [][/\ package \notin {None, package'} => \E i \in Installers : Commits(i) /\ ask[i].force
     /\ mode = "full" /\ ~met /\ at.version # None /\ at' # at =>
          \E i \in Installers : Active(i) /\ ask[i].force]_vars

(* A successful installation leaves a sidecar that its package will use. *)
PairAgrees ==
  \A i \in Installers : pc[i] = "installed" => {at.version, package} = {id[i]}
=============================================================================
