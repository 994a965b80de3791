--------------------------- MODULE InstallProofs ---------------------------
(* What Install keeps for any number of installers, applications, packages,
   kills and replacements. *)
EXTENDS Install, TLAPS

InFull   == {"check", "lock", "try"}
InNative == {"compare", "copy", "scan", "persist", "installed"}
InBoth   == {"stage", "away", "in", "restore", "tidy"}

(* Who works on the directory: every full installer from its first look on, a
   native one behind the gate. *)
Works(i) == pc[i] \in InFull \cup InNative \cup InBoth

InstallerPhases == Ended \cup InFull \cup InNative \cup InBoth \cup {"gate", "trygate"}
AppPhases == {"start", "probe", "behind", "group", "cache", "share", "bind", "running", "leaving"}
TreeFiles == Installers \cup {First}

Shape ==
  /\ mode \in {"full", "native"} /\ met \in BOOLEAN /\ gate \in BOOLEAN
  /\ stash \in [Installers -> Tree \cup {NoTree}] /\ staged \in [Installers -> Tree \cup {NoTree}]
  /\ pc \in [Processes -> InstallerPhases \cup AppPhases]
  /\ ask \in [Installers -> [force : BOOLEAN, same : BOOLEAN]]
  /\ id \in [Processes -> Versions \cup {None}]
  /\ file \in [Processes -> TreeFiles \cup {None}]

(* The error returns. *)
Fails(i) ==
  pc[i] \in {"check", "try", "trygate", "compare", "copy", "scan", "stage", "persist"} /\ Fail(i)

(* Which phases a process of each kind goes through in each mode. *)
Phased ==
  /\ mode = "native" => ~met
  /\ \A i \in Installers :
       /\ pc[i] \in InstallerPhases
       /\ pc[i] \in InFull => mode = "full"
       /\ pc[i] \in InNative \cup {"gate", "trygate"} => mode = "native"
  /\ \A a \in Apps :
       /\ pc[a] \in AppPhases
       /\ pc[a] \in {"probe", "behind", "group", "cache"} => mode = "native"

(* One installer works on the directory: because of the gate, or because full
   installers have never met. *)
Alone ==
  /\ ~met => \A i, j \in Installers : Works(i) /\ Works(j) => i = j
  /\ mode = "native" => \A i \in Installers : Works(i) => <<i, Gate>> \in held

(* A tree that somebody installed has a lock file, and so has every sidecar. *)
Whole(tree) ==
  /\ tree.version \in Versions => tree.lock \in TreeFiles
  /\ mode = "native" /\ tree # NoTree => tree.lock \in TreeFiles
Disk ==
  /\ Whole(at)
  /\ \A i \in Installers :
       /\ Whole(stash[i])
       /\ pc[i] \notin {"in", "restore", "tidy", "killed"} => stash[i] = NoTree

(* An installer that has not put a lock file into the directory yet: nobody
   can know the file. *)
Fresh(i) ==
  \/ pc[i] \in {"start", "check", "lock"}
  \/ mode = "native" /\ pc[i] \in InstallerPhases \ (Ended \cup {"tidy", "persist", "installed"})
Unknown(i) ==
  /\ at.lock # i
  /\ \A p \in Processes : file[p] # i
  /\ \A j \in Installers : stash[j].lock # i /\ (j # i => staged[j].lock # i)

(* What the only one at work knows of the tree, by where it stands. *)
Looked(i) ==
  /\ Active(i) => id[i] \in Versions
  /\ pc[i] = "try" => file[i] \in TreeFiles
  /\ pc[i] = "lock" /\ ~met => MayReplaceTree(i)
  /\ pc[i] \in {"try", "stage", "away"} /\ mode = "full" /\ ~met =>
       /\ at.lock = file[i] /\ file[i] \in TreeFiles
       /\ at.version = None \/ ask[i].force
Locked(i) ==
  /\ pc[i] \in {"stage", "away"} /\ ~met /\ at # NoTree => <<i, at.lock>> \in held
  /\ pc[i] \in {"in", "restore"} /\ ~met =>
       /\ at = NoTree
       /\ stash[i] # NoTree => <<i, stash[i].lock>> \in held
       /\ mode = "full" => stash[i].lock = file[i] /\ file[i] \in TreeFiles
Prepared(i) ==
  /\ pc[i] \in {"away", "in", "restore", "tidy", "persist", "installed"} =>
       /\ staged[i] \in Tree /\ staged[i].version = id[i]
       /\ staged[i].lock \in TreeFiles
       /\ mode = "native" => staged[i].lock = i
       /\ mode = "full" /\ ~met => staged[i].lock = file[i]
  /\ pc[i] \in {"tidy", "persist", "installed"} /\ ~met => at = staged[i]
Asked(i) ==
  /\ ask[i].same => package # None
  /\ ask[i].same /\ mode = "native" /\ pc[i] \in {"scan", "persist"} \cup InBoth => package = id[i]
  /\ mode = "native" /\ pc[i] \in {"copy", "scan", "persist"} \cup InBoth => Permitted(i)
  /\ pc[i] = "installed" => package = id[i]

(* What an application knows of the tree that it binds to.  While a full
   installation has never lost its lock file, it is the one it has opened, in
   the tree or in the backup of it. *)
Guards(a) ==
  \/ mode = "native" /\ <<a, Gate>> \in held
  \/ file[a] = at.lock /\ ~met
Bound(a) ==
  /\ pc[a] \in {"share", "bind", "running"} => file[a] \in TreeFiles
  /\ pc[a] \in {"bind", "running"} => <<a, file[a]>> \in held
  /\ pc[a] = "running" /\ Guards(a) => at.version = id[a]
  /\ pc[a] \in {"share", "bind", "running"} /\ mode = "full" /\ kills = 0 /\ ~met =>
       \/ file[a] = at.lock
       \/ \E i \in Installers : pc[i] \in {"in", "restore"} /\ stash[i].lock = file[a]

(* What a step of p leaves alone: everything that others have and, unless p
   works on the directory, the directory and the package. *)
Others(p) ==
  /\ mode' = mode /\ (met => met') /\ (mode = "native" => met' = met)
  /\ \A q \in Processes \ {p} :
       /\ pc'[q] = pc[q] /\ id'[q] = id[q] /\ file'[q] = file[q]
       /\ \A f \in Files : <<q, f>> \in held' <=> <<q, f>> \in held
  /\ \A j \in Installers \ {p} :
       ask'[j] = ask[j] /\ stash'[j] = stash[j] /\ staged'[j] = staged[j]
  /\ at' # at => p \in Installers /\ Works(p)
  /\ package' # package => p \in Installers /\ Works(p) /\ package' # None

(* Where a lock file can come from. *)
Known(p) ==
  /\ at'.lock \in {at.lock, NoTree.lock, p}
                \cup (IF p \in Installers THEN {stash[p].lock, staged[p].lock} ELSE {})
  /\ file'[p] \in {file[p], at.lock, None, p}
  /\ p \in Installers =>
       /\ stash'[p].lock \in {stash[p].lock, at.lock, NoTree.lock}
       /\ staged'[p].lock \in {staged[p].lock, at.lock, NoTree.lock, p}

Inv ==
  /\ Shape /\ TypeOK /\ Phased /\ Alone /\ Disk
  /\ \A i \in Installers : Fresh(i) => Unknown(i)
  /\ \A i \in Installers : Looked(i) /\ Locked(i) /\ Prepared(i) /\ Asked(i)
  /\ \A a \in Apps : Bound(a)

-----------------------------------------------------------------------------
(* The steps of an installer: an error return, or a handler that goes on. *)
Steps(i) ==
  \/ Fails(i)
  \/ Open(i)
  \/ MayReplaceTree(i) /\ CheckDirectory(i)
  \/ LockDirectory(i)
  \/ TryFree(i) /\ TryDirectory(i)
  \/ MakeGate(i)
  \/ GateFree(i) /\ TryGate(i)
  \/ Permitted(i) /\ Compare(i)
  \/ Copied(i) /\ Copy(i)
  \/ at = NoTree /\ Scan(i)
  \/ at # NoTree /\ Free(at.lock, i) /\ Scan(i)
  \/ ~Fail(i) /\ Stage(i)
  \/ Away(i)
  \/ In(i)
  \/ Restore(i)
  \/ Tidy(i)
  \/ ~Fail(i) /\ Persist(i)
  \/ End(i)
  \/ Kill(i)

(* Every action of an installer is one of these steps. *)
LEMMA InstallerSteps ==
  ASSUME NEW i \in Installers, Open(i) \/ Full(i) \/ Native(i) \/ Replace(i) \/ Kill(i)
  PROVE  Steps(i)
  BY DEF Steps, Fails, Full, Native, Replace, CheckDirectory, TryDirectory, TryGate, Compare,
         Copy, Scan, Stage, Persist

(* What an installer's step leaves alone, and where lock files come from. *)
LEMMA InstallerFrame ==
  ASSUME NEW i \in Installers, Steps(i), Inv
  PROVE  Others(i) /\ Known(i)
  <1> USE InstallAssumption DEF InstallAssumption, Inv, Shape, Others, Known, Works, InFull,
        InNative, InBoth, Processes, NoTree, Go, Drop, Without, Take, Ended, idle, disk, own,
        LockOf, Restored, Asked, Source, Active, Looked, None
  <1>1. CASE Fails(i)
    BY <1>1 DEF Fails, Fail
  <1>2. CASE Open(i)
    BY <1>2 DEF Open
  <1>3. CASE MayReplaceTree(i) /\ CheckDirectory(i)
    BY <1>3 DEF CheckDirectory
  <1>4. CASE LockDirectory(i)
    BY <1>4 DEF LockDirectory
  <1>5. CASE TryFree(i) /\ TryDirectory(i)
    BY <1>5 DEF TryDirectory
  <1>6. CASE MakeGate(i)
    BY <1>6 DEF MakeGate
  <1>7. CASE GateFree(i) /\ TryGate(i)
    BY <1>7 DEF TryGate
  <1>8. CASE Permitted(i) /\ Compare(i)
    BY <1>8 DEF Compare
  <1>9. CASE Copied(i) /\ Copy(i)
    BY <1>9 DEF Copy
  <1>10. CASE at = NoTree /\ Scan(i)
    BY <1>10 DEF Scan
  <1>11. CASE at # NoTree /\ Free(at.lock, i) /\ Scan(i)
    BY <1>11 DEF Scan
  <1>12. CASE ~Fail(i) /\ Stage(i)
    BY <1>12 DEF Stage
  <1>13. CASE Away(i)
    BY <1>13 DEF Away
  <1>14. CASE In(i)
    BY <1>14 DEF In
  <1>15. CASE Restore(i)
    BY <1>15 DEF Restore
  <1>16. CASE Tidy(i)
    BY <1>16 DEF Tidy
  <1>17. CASE ~Fail(i) /\ Persist(i)
    BY <1>17 DEF Persist
  <1>18. CASE End(i)
    BY <1>18 DEF End
  <1>19. CASE Kill(i)
    BY <1>19 DEF Kill
  <1> QED BY <1>1, <1>2, <1>3, <1>4, <1>5, <1>6, <1>7, <1>8, <1>9, <1>10, <1>11, <1>12, <1>13,
        <1>14, <1>15, <1>16, <1>17, <1>18, <1>19 DEF Steps

(* The same of an application's step. *)
LEMMA AppFrame ==
  ASSUME NEW a \in Apps, App(a), Inv
  PROVE  Others(a) /\ Known(a)
  <1> USE InstallAssumption DEF InstallAssumption, Inv, Shape, Others, Known, Works, InFull,
        InNative, InBoth, Processes, NoTree, Go, Drop, Without, Take, Ended, idle, disk, own
  <1>1. CASE Start(a)
    BY <1>1 DEF Start
  <1>2. CASE Probe(a)
    BY <1>2 DEF Probe
  <1>3. CASE PassGate(a)
    BY <1>3 DEF PassGate
  <1>4. CASE OpenGroup(a)
    BY <1>4 DEF OpenGroup
  <1>5. CASE Share(a)
    BY <1>5 DEF Share
  <1>6. CASE Bind(a)
    BY <1>6 DEF Bind
  <1>7. CASE Exit(a)
    BY <1>7 DEF Exit
  <1> QED BY <1>1, <1>2, <1>3, <1>4, <1>5, <1>6, <1>7 DEF App

-----------------------------------------------------------------------------
(* Every variable stays in its domain. *)
LEMMA InstallerShape ==
  ASSUME NEW i \in Installers, Steps(i), Inv
  PROVE  Shape'
  <1> USE InstallAssumption DEF InstallAssumption, Inv, Shape, TypeOK, Phased, Go, Drop, LockOf,
        Source, Restored, idle, disk, own, TreeFiles, Tree, NoTree, Files, Processes, None,
        First, Gate, InstallerPhases, AppPhases, InFull, InNative, InBoth, Ended
  <1>1. CASE Fails(i)
    BY <1>1 DEF Fails, Fail
  <1>2. CASE Open(i)
    BY <1>2 DEF Open
  <1>3. CASE MayReplaceTree(i) /\ CheckDirectory(i)
    BY <1>3 DEF CheckDirectory
  <1>4. CASE LockDirectory(i)
    BY <1>4 DEF LockDirectory
  <1>5. CASE TryFree(i) /\ TryDirectory(i)
    BY <1>5 DEF TryDirectory
  <1>6. CASE MakeGate(i)
    BY <1>6 DEF MakeGate
  <1>7. CASE GateFree(i) /\ TryGate(i)
    BY <1>7 DEF TryGate
  <1>8. CASE Permitted(i) /\ Compare(i)
    BY <1>8 DEF Compare
  <1>9. CASE Copied(i) /\ Copy(i)
    BY <1>9 DEF Copy
  <1>10. CASE at = NoTree /\ Scan(i)
    BY <1>10 DEF Scan
  <1>11. CASE at # NoTree /\ Free(at.lock, i) /\ Scan(i)
    BY <1>11 DEF Scan
  <1>12. CASE ~Fail(i) /\ Stage(i)
    BY <1>12 DEF Stage
  <1>13. CASE Away(i)
    BY <1>13 DEF Away
  <1>14. CASE In(i)
    BY <1>14 DEF In
  <1>15. CASE Restore(i)
    BY <1>15 DEF Restore
  <1>16. CASE Tidy(i)
    <2>1. \/ Drop(i)
          \/ UNCHANGED own
      BY <1>16 DEF Tidy
    <2>2. /\ ask' \in [Installers -> [force : BOOLEAN, same : BOOLEAN]]
          /\ id' \in [Processes -> Versions \cup {None}]
          /\ file' \in [Processes -> TreeFiles \cup {None}]
          /\ staged' \in [Installers -> Tree \cup {NoTree}]
      <3>1. CASE Drop(i)
        BY <3>1
      <3>2. CASE UNCHANGED own
        BY <3>2
      <3> QED BY <2>1, <3>1, <3>2
    <2>3. pc' \in [Processes -> InstallerPhases \cup AppPhases]
      BY <1>16 DEF Tidy
    <2>4. stash' \in [Installers -> Tree \cup {NoTree}]
      BY <1>16 DEF Tidy
    <2> QED BY <1>16, <2>2, <2>3, <2>4 DEF Tidy
  <1>17. CASE ~Fail(i) /\ Persist(i)
    BY <1>17 DEF Persist
  <1>18. CASE End(i)
    BY <1>18 DEF End
  <1>19. CASE Kill(i)
    BY <1>19 DEF Kill
  <1> QED BY <1>1, <1>2, <1>3, <1>4, <1>5, <1>6, <1>7, <1>8, <1>9, <1>10, <1>11, <1>12, <1>13,
        <1>14, <1>15, <1>16, <1>17, <1>18, <1>19 DEF Steps

LEMMA AppShape ==
  ASSUME NEW a \in Apps, App(a), Inv
  PROVE  Shape'
  <1> USE InstallAssumption DEF InstallAssumption, Inv, Shape, TypeOK, Phased, Disk, Whole, Go,
        idle, disk, own, TreeFiles, Tree, NoTree, Files, Processes, None, First, Gate,
        InstallerPhases, AppPhases, InFull, InNative, InBoth, Ended
  <1>1. CASE Start(a)
    BY <1>1 DEF Start
  <1>2. CASE Probe(a)
    BY <1>2 DEF Probe
  <1>3. CASE PassGate(a)
    BY <1>3 DEF PassGate
  <1>4. CASE OpenGroup(a)
    BY <1>4 DEF OpenGroup
  <1>5. CASE Share(a)
    BY <1>5 DEF Share
  <1>6. CASE Bind(a)
    <2>1. pc' \in [Processes -> InstallerPhases \cup AppPhases]
      BY <1>6 DEF Bind
    <2>2. id' \in [Processes -> Versions \cup {None}]
      BY <1>6 DEF Bind, Matches
    <2> QED BY <1>6, <2>1, <2>2 DEF Bind
  <1>7. CASE Exit(a)
    BY <1>7 DEF Exit
  <1> QED BY <1>1, <1>2, <1>3, <1>4, <1>5, <1>6, <1>7 DEF App

(* A lock is taken only where it is free, and so nobody shares an exclusive
   one. *)
Exclusive ==
  /\ held \subseteq Processes \X Files
  /\ \A h, k \in held : h[2] = k[2] /\ h[1] \in Installers => h = k

LEMMA TakeExcludes ==
  ASSUME Exclusive, NEW p \in Processes, NEW f \in Files, Free(f, p), Take(f, p)
  PROVE  Exclusive'
  <1>1. held' \subseteq Processes \X Files
    BY DEF Exclusive, Take
  <1>2. ASSUME NEW h \in held', NEW k \in held', h[2] = k[2], h[1] \in Installers PROVE h = k
    <2>1. CASE h \in held /\ k \in held
      BY <1>2, <2>1 DEF Exclusive
    <2>2. CASE h = <<p, f>> /\ k = <<p, f>>
      BY <2>2
    <2>3. CASE h = <<p, f>> /\ k \in held
      BY <1>2, <2>3 DEF Exclusive, Free
    <2>4. CASE k = <<p, f>> /\ h \in held
      BY <1>2, <2>4 DEF Exclusive, Free
    <2> QED BY <1>2, <2>1, <2>2, <2>3, <2>4 DEF Take
  <1> QED BY <1>1, <1>2 DEF Exclusive

LEMMA LessExcludes == ASSUME Exclusive, held' \subseteq held PROVE Exclusive'
  BY DEF Exclusive

(* Locks stay exclusive. *)
LEMMA InstallerExcludes ==
  ASSUME NEW i \in Installers, Steps(i), Inv, Others(i)
  PROVE  Exclusive'
  <1> USE InstallAssumption DEF InstallAssumption, Inv, Shape, TypeOK, Phased, Exclusive, Drop,
        Without, Looked, Disk, Whole, Alone, Works, InFull, InNative, InBoth, Ended, TryFree,
        GateFree, idle, disk, own, TreeFiles, Tree, NoTree, Files, Processes, None, First, Gate
  <1>1. CASE Fails(i)
    BY LessExcludes, <1>1 DEF Fails, Fail
  <1>2. CASE Open(i)
    BY LessExcludes, <1>2 DEF Open
  <1>3. CASE MayReplaceTree(i) /\ CheckDirectory(i)
    BY LessExcludes, <1>3 DEF CheckDirectory
  <1>4. CASE LockDirectory(i)
    BY LessExcludes, <1>4 DEF LockDirectory
  <1>5. CASE TryFree(i) /\ TryDirectory(i)
    BY TakeExcludes, <1>5 DEF TryDirectory
  <1>6. CASE MakeGate(i)
    BY LessExcludes, <1>6 DEF MakeGate
  <1>7. CASE GateFree(i) /\ TryGate(i)
    BY TakeExcludes, <1>7 DEF TryGate
  <1>8. CASE Permitted(i) /\ Compare(i)
    BY LessExcludes, <1>8 DEF Compare
  <1>9. CASE Copied(i) /\ Copy(i)
    BY LessExcludes, <1>9 DEF Copy
  <1>10. CASE at = NoTree /\ Scan(i)
    BY TakeExcludes, <1>10 DEF Scan
  <1>11. CASE at # NoTree /\ Free(at.lock, i) /\ Scan(i)
    BY TakeExcludes, <1>11 DEF Scan
  <1>12. CASE ~Fail(i) /\ Stage(i)
    BY LessExcludes, <1>12 DEF Stage
  <1>13. CASE Away(i)
    BY LessExcludes, <1>13 DEF Away
  <1>14. CASE In(i)
    BY LessExcludes, <1>14 DEF In
  <1>15. CASE Restore(i)
    BY LessExcludes, <1>15 DEF Restore
  <1>16. CASE Tidy(i)
    BY LessExcludes, <1>16 DEF Tidy
  <1>17. CASE ~Fail(i) /\ Persist(i)
    BY LessExcludes, <1>17 DEF Persist
  <1>18. CASE End(i)
    BY LessExcludes, <1>18 DEF End
  <1>19. CASE Kill(i)
    BY LessExcludes, <1>19 DEF Kill
  <1> QED BY <1>1, <1>2, <1>3, <1>4, <1>5, <1>6, <1>7, <1>8, <1>9, <1>10, <1>11, <1>12, <1>13,
        <1>14, <1>15, <1>16, <1>17, <1>18, <1>19 DEF Steps

LEMMA AppExcludes ==
  ASSUME NEW a \in Apps, App(a), Inv
  PROVE  Exclusive'
  <1> USE InstallAssumption DEF InstallAssumption, Inv, Shape, TypeOK, Exclusive, Without, Bound,
        idle, disk, own, TreeFiles, Tree, NoTree, Files, Processes, None, First, Gate
  <1>1. CASE Start(a)
    BY LessExcludes, <1>1 DEF Start
  <1>2. CASE Probe(a)
    BY LessExcludes, <1>2 DEF Probe
  <1>3. CASE PassGate(a)
    BY TakeExcludes, <1>3 DEF PassGate
  <1>4. CASE OpenGroup(a)
    BY LessExcludes, <1>4 DEF OpenGroup
  <1>5. CASE Share(a)
    BY TakeExcludes, <1>5 DEF Share
  <1>6. CASE Bind(a)
    BY LessExcludes, <1>6 DEF Bind
  <1>7. CASE Exit(a)
    BY LessExcludes, <1>7 DEF Exit
  <1> QED BY <1>1, <1>2, <1>3, <1>4, <1>5, <1>6, <1>7 DEF App

(* TypeOK is what is left of the domains, and Exclusive. *)
LEMMA InstallerTypes ==
  ASSUME NEW i \in Installers, Steps(i), Inv, Shape', Exclusive'
  PROVE  TypeOK'
  <1> USE InstallAssumption DEF InstallAssumption, Inv, Shape, TypeOK, Exclusive, Go, LockOf,
        Source, Restored, Looked, Asked, Ended, Active, idle, disk, own, TreeFiles, Tree, NoTree,
        Files, Processes, None, First, Gate
  <1>1. CASE Fails(i)
    BY <1>1 DEF Fails, Fail
  <1>2. CASE Open(i)
    BY <1>2 DEF Open
  <1>3. CASE MayReplaceTree(i) /\ CheckDirectory(i)
    BY <1>3 DEF CheckDirectory
  <1>4. CASE LockDirectory(i)
    BY <1>4 DEF LockDirectory
  <1>5. CASE TryFree(i) /\ TryDirectory(i)
    BY <1>5 DEF TryDirectory
  <1>6. CASE MakeGate(i)
    BY <1>6 DEF MakeGate
  <1>7. CASE GateFree(i) /\ TryGate(i)
    BY <1>7 DEF TryGate
  <1>8. CASE Permitted(i) /\ Compare(i)
    BY <1>8 DEF Compare
  <1>9. CASE Copied(i) /\ Copy(i)
    BY <1>9 DEF Copy
  <1>10. CASE at = NoTree /\ Scan(i)
    BY <1>10 DEF Scan
  <1>11. CASE at # NoTree /\ Free(at.lock, i) /\ Scan(i)
    BY <1>11 DEF Scan
  <1>12. CASE ~Fail(i) /\ Stage(i)
    BY <1>12 DEF Stage
  <1>13. CASE Away(i)
    BY <1>13 DEF Away
  <1>14. CASE In(i)
    BY <1>14 DEF In
  <1>15. CASE Restore(i)
    BY <1>15 DEF Restore
  <1>16. CASE Tidy(i)
    BY <1>16 DEF Tidy
  <1>17. CASE ~Fail(i) /\ Persist(i)
    BY <1>17 DEF Persist
  <1>18. CASE End(i)
    BY <1>18 DEF End
  <1>19. CASE Kill(i)
    BY <1>19 DEF Kill
  <1> QED BY <1>1, <1>2, <1>3, <1>4, <1>5, <1>6, <1>7, <1>8, <1>9, <1>10, <1>11, <1>12, <1>13,
        <1>14, <1>15, <1>16, <1>17, <1>18, <1>19 DEF Steps

LEMMA AppTypes ==
  ASSUME NEW a \in Apps, App(a), Inv, Shape', Exclusive'
  PROVE  TypeOK'
  <1> USE InstallAssumption DEF InstallAssumption, Inv, Shape, TypeOK, Exclusive, idle, disk,
        own, TreeFiles, Tree, NoTree, Files, Processes, None, First, Gate
  <1>1. CASE Start(a)
    BY <1>1 DEF Start
  <1>2. CASE Probe(a)
    BY <1>2 DEF Probe
  <1>3. CASE PassGate(a)
    BY <1>3 DEF PassGate
  <1>4. CASE OpenGroup(a)
    BY <1>4 DEF OpenGroup
  <1>5. CASE Share(a)
    BY <1>5 DEF Share
  <1>6. CASE Bind(a)
    BY <1>6 DEF Bind
  <1>7. CASE Exit(a)
    BY <1>7 DEF Exit
  <1> QED BY <1>1, <1>2, <1>3, <1>4, <1>5, <1>6, <1>7 DEF App

(* Processes stay on the way of their mode. *)
LEMMA InstallerPhased ==
  ASSUME NEW i \in Installers, Steps(i), Inv, Shape', Others(i)
  PROVE  Phased'
  <1> USE InstallAssumption DEF InstallAssumption, Inv, Shape, Phased, Others, Go, Processes,
        idle, disk, own, InstallerPhases, AppPhases, InFull, InNative, InBoth, Ended
  <1>1. CASE Fails(i)
    BY <1>1 DEF Fails, Fail
  <1>2. CASE Open(i)
    BY <1>2 DEF Open
  <1>3. CASE MayReplaceTree(i) /\ CheckDirectory(i)
    BY <1>3 DEF CheckDirectory
  <1>4. CASE LockDirectory(i)
    BY <1>4 DEF LockDirectory
  <1>5. CASE TryFree(i) /\ TryDirectory(i)
    BY <1>5 DEF TryDirectory
  <1>6. CASE MakeGate(i)
    BY <1>6 DEF MakeGate
  <1>7. CASE GateFree(i) /\ TryGate(i)
    BY <1>7 DEF TryGate
  <1>8. CASE Permitted(i) /\ Compare(i)
    BY <1>8 DEF Compare
  <1>9. CASE Copied(i) /\ Copy(i)
    BY <1>9 DEF Copy
  <1>10. CASE at = NoTree /\ Scan(i)
    BY <1>10 DEF Scan
  <1>11. CASE at # NoTree /\ Free(at.lock, i) /\ Scan(i)
    BY <1>11 DEF Scan
  <1>12. CASE ~Fail(i) /\ Stage(i)
    BY <1>12 DEF Stage
  <1>13. CASE Away(i)
    BY <1>13 DEF Away
  <1>14. CASE In(i)
    BY <1>14 DEF In
  <1>15. CASE Restore(i)
    BY <1>15 DEF Restore
  <1>16. CASE Tidy(i)
    BY <1>16 DEF Tidy
  <1>17. CASE ~Fail(i) /\ Persist(i)
    BY <1>17 DEF Persist
  <1>18. CASE End(i)
    BY <1>18 DEF End
  <1>19. CASE Kill(i)
    BY <1>19 DEF Kill
  <1> QED BY <1>1, <1>2, <1>3, <1>4, <1>5, <1>6, <1>7, <1>8, <1>9, <1>10, <1>11, <1>12, <1>13,
        <1>14, <1>15, <1>16, <1>17, <1>18, <1>19 DEF Steps

LEMMA AppPhased ==
  ASSUME NEW a \in Apps, App(a), Inv, Shape', Others(a)
  PROVE  Phased'
  <1> USE InstallAssumption DEF InstallAssumption, Inv, Shape, Phased, Others, Go, Processes,
        idle, disk, own, InstallerPhases, AppPhases, InFull, InNative, InBoth, Ended
  <1>1. CASE Start(a)
    BY <1>1 DEF Start
  <1>2. CASE Probe(a)
    BY <1>2 DEF Probe
  <1>3. CASE PassGate(a)
    BY <1>3 DEF PassGate
  <1>4. CASE OpenGroup(a)
    BY <1>4 DEF OpenGroup
  <1>5. CASE Share(a)
    BY <1>5 DEF Share
  <1>6. CASE Bind(a)
    BY <1>6 DEF Bind
  <1>7. CASE Exit(a)
    BY <1>7 DEF Exit
  <1> QED BY <1>1, <1>2, <1>3, <1>4, <1>5, <1>6, <1>7 DEF App

(* Another installer knows what it knew: if it works on the directory, then
   nobody else does. *)
LEMMA InstallersKept ==
  ASSUME Inv, Shape', NEW p \in Processes, Others(p), NEW j \in Installers, j # p
  PROVE  Looked(j)' /\ Locked(j)' /\ Prepared(j)' /\ Asked(j)'
  <1> USE InstallAssumption DEF InstallAssumption, Inv, Shape, Alone, Works, Others, Processes,
        Files, TreeFiles, InFull, InNative, InBoth, Tree, Ended, Active
  <1>1. Looked(j)'
    BY DEF Looked, MayReplaceTree, Empty
  <1>2. Locked(j)'
    BY DEF Locked, Disk, Whole, TypeOK
  <1>3. Prepared(j)'
    BY DEF Prepared
  <1>4. Asked(j)'
    BY DEF Asked, Permitted, Phased
  <1> QED BY <1>1, <1>2, <1>3, <1>4

(* A file that nobody has seen stays so until its installer puts it in place. *)
LEMMA FreshKept ==
  ASSUME Inv, Shape', NEW p \in Processes, Others(p), Known(p), NEW j \in Installers,
         j # p, Fresh(j)'
  PROVE  Unknown(j)'
  BY InstallAssumption DEF InstallAssumption, Inv, Shape, Others, Known, Processes, Fresh,
        Unknown, None, NoTree

(* The installer that moves learns what its checks establish. *)
LEMMA InstallerLooked ==
  ASSUME NEW i \in Installers, Steps(i), Inv, Shape', Others(i)
  PROVE  Looked(i)'
  <1> USE InstallAssumption DEF InstallAssumption, Inv, Shape, Phased, TypeOK, Alone, Works,
        Disk, Whole, InFull, InNative, InBoth, Ended, Active, Go, Drop, Without, Take, Free,
        Processes, NoTree, None, TreeFiles, Files, idle, disk, own, Looked, MayReplaceTree,
        Empty, Source, Asked, Tree, Copied
  <1>1. CASE Fails(i)
    BY <1>1 DEF Fails, Fail
  <1>2. CASE Open(i)
    BY <1>2 DEF Open
  <1>3. CASE MayReplaceTree(i) /\ CheckDirectory(i)
    BY <1>3 DEF CheckDirectory
  <1>4. CASE LockDirectory(i)
    <2>1. pc'[i] = "try" /\ id'[i] = id[i] /\ ask'[i] = ask[i] /\ file'[i] = at'.lock /\ met' = met
      BY <1>4 DEF LockDirectory
    <2>2. \/ at.lock \in Files /\ at' = at
          \/ at.lock \notin Files /\ at' = [version |-> None, lock |-> i]
      BY <1>4 DEF LockDirectory
    <2>3. at'.lock \in TreeFiles
      BY <2>2 DEF Tree, First, Gate
    <2>4. ~met => at'.version = None \/ ask[i].force
      BY <1>4, <2>2 DEF LockDirectory
    <2> QED BY <1>4, <2>1, <2>3, <2>4 DEF LockDirectory
  <1>5. CASE TryFree(i) /\ TryDirectory(i)
    BY <1>5 DEF TryDirectory
  <1>6. CASE MakeGate(i)
    BY <1>6 DEF MakeGate
  <1>7. CASE GateFree(i) /\ TryGate(i)
    BY <1>7 DEF TryGate
  <1>8. CASE Permitted(i) /\ Compare(i)
    BY <1>8 DEF Compare
  <1>9. CASE Copied(i) /\ Copy(i)
    BY <1>9 DEF Copy
  <1>10. CASE at = NoTree /\ Scan(i)
    BY <1>10 DEF Scan
  <1>11. CASE at # NoTree /\ Free(at.lock, i) /\ Scan(i)
    BY <1>11 DEF Scan
  <1>12. CASE ~Fail(i) /\ Stage(i)
    BY <1>12 DEF Stage
  <1>13. CASE Away(i)
    BY <1>13 DEF Away
  <1>14. CASE In(i)
    BY <1>14 DEF In
  <1>15. CASE Restore(i)
    BY <1>15 DEF Restore
  <1>16. CASE Tidy(i)
    BY <1>16 DEF Tidy
  <1>17. CASE ~Fail(i) /\ Persist(i)
    BY <1>17 DEF Persist
  <1>18. CASE End(i)
    BY <1>18 DEF End
  <1>19. CASE Kill(i)
    BY <1>19 DEF Kill
  <1> QED BY <1>1, <1>2, <1>3, <1>4, <1>5, <1>6, <1>7, <1>8, <1>9, <1>10, <1>11, <1>12, <1>13,
        <1>14, <1>15, <1>16, <1>17, <1>18, <1>19 DEF Steps

LEMMA InstallerLocked ==
  ASSUME NEW i \in Installers, Steps(i), Inv, Shape', Others(i)
  PROVE  Locked(i)'
  <1> USE InstallAssumption DEF InstallAssumption, Inv, Shape, Phased, TypeOK, Alone, Works,
        Disk, Whole, InFull, InNative, InBoth, Ended, Active, Go, Drop, Without, Take, Free,
        Processes, NoTree, None, TreeFiles, Files, idle, disk, own, Looked, Locked, Prepared,
        TryFree, Tree
  <1>1. CASE Fails(i)
    BY <1>1 DEF Fails, Fail
  <1>2. CASE Open(i)
    BY <1>2 DEF Open
  <1>3. CASE MayReplaceTree(i) /\ CheckDirectory(i)
    BY <1>3 DEF CheckDirectory
  <1>4. CASE LockDirectory(i)
    BY <1>4 DEF LockDirectory
  <1>5. CASE TryFree(i) /\ TryDirectory(i)
    <2>1. pc'[i] = "stage" /\ at' = at /\ met' = met /\ <<i, file[i]>> \in held'
      BY <1>5 DEF TryDirectory
    <2>2. pc[i] = "try" /\ mode = "full"
      BY <1>5 DEF TryDirectory
    <2> QED BY <2>1, <2>2
  <1>6. CASE MakeGate(i)
    BY <1>6 DEF MakeGate
  <1>7. CASE GateFree(i) /\ TryGate(i)
    BY <1>7 DEF TryGate
  <1>8. CASE Permitted(i) /\ Compare(i)
    BY <1>8 DEF Compare
  <1>9. CASE Copied(i) /\ Copy(i)
    BY <1>9 DEF Copy
  <1>10. CASE at = NoTree /\ Scan(i)
    BY <1>10 DEF Scan
  <1>11. CASE at # NoTree /\ Free(at.lock, i) /\ Scan(i)
    BY <1>11 DEF Scan
  <1>12. CASE ~Fail(i) /\ Stage(i)
    BY <1>12 DEF Stage
  <1>13. CASE Away(i)
    <2>1. pc'[i] = "in" /\ at' = NoTree /\ met' = met /\ mode' = mode /\ stash'[i] = at
          /\ file' = file /\ held' = held
      BY <1>13 DEF Away
    <2>2. pc[i] = "away"
      BY <1>13 DEF Away
    <2> QED BY <2>1, <2>2
  <1>14. CASE In(i)
    <2>1. pc[i] = "in" /\ pc'[i] \in {"tidy", "restore"} /\ met' = met /\ mode' = mode
          /\ stash' = stash /\ file' = file /\ held' = held /\ (pc'[i] = "restore" => at' = at)
      BY <1>14 DEF In
    <2> QED BY <2>1
  <1>15. CASE Restore(i)
    BY <1>15 DEF Restore
  <1>16. CASE Tidy(i)
    BY <1>16 DEF Tidy
  <1>17. CASE ~Fail(i) /\ Persist(i)
    BY <1>17 DEF Persist
  <1>18. CASE End(i)
    BY <1>18 DEF End
  <1>19. CASE Kill(i)
    BY <1>19 DEF Kill
  <1> QED BY <1>1, <1>2, <1>3, <1>4, <1>5, <1>6, <1>7, <1>8, <1>9, <1>10, <1>11, <1>12, <1>13,
        <1>14, <1>15, <1>16, <1>17, <1>18, <1>19 DEF Steps

LEMMA InstallerPrepared ==
  ASSUME NEW i \in Installers, Steps(i), Inv, Shape', Others(i)
  PROVE  Prepared(i)'
  <1> USE InstallAssumption DEF InstallAssumption, Inv, Shape, Phased, TypeOK, Alone, Works,
        Disk, Whole, InFull, InNative, InBoth, Ended, Active, Go, Drop, Without, Take, Free,
        Processes, NoTree, None, TreeFiles, Files, idle, disk, own, Looked, Locked, Prepared,
        LockOf
  <1>1. CASE Fails(i)
    BY <1>1 DEF Fails, Fail
  <1>2. CASE Open(i)
    BY <1>2 DEF Open
  <1>3. CASE MayReplaceTree(i) /\ CheckDirectory(i)
    BY <1>3 DEF CheckDirectory
  <1>4. CASE LockDirectory(i)
    BY <1>4 DEF LockDirectory
  <1>5. CASE TryFree(i) /\ TryDirectory(i)
    BY <1>5 DEF TryDirectory
  <1>6. CASE MakeGate(i)
    BY <1>6 DEF MakeGate
  <1>7. CASE GateFree(i) /\ TryGate(i)
    BY <1>7 DEF TryGate
  <1>8. CASE Permitted(i) /\ Compare(i)
    BY <1>8 DEF Compare
  <1>9. CASE Copied(i) /\ Copy(i)
    BY <1>9 DEF Copy
  <1>10. CASE at = NoTree /\ Scan(i)
    BY <1>10 DEF Scan
  <1>11. CASE at # NoTree /\ Free(at.lock, i) /\ Scan(i)
    BY <1>11 DEF Scan
  <1>12. CASE ~Fail(i) /\ Stage(i)
    <2>1. pc[i] = "stage" /\ pc'[i] = "away" /\ met' = met /\ mode' = mode /\ at' = at
          /\ id' = id /\ file' = file /\ staged'[i] = [version |-> id[i], lock |-> LockOf(i)]
          /\ LockOf(i) \in Files
      BY <1>12 DEF Stage
    <2>2. LockOf(i) \in TreeFiles
      BY <2>1 DEF Gate, First, Tree
    <2>3. id[i] \in Versions
      BY <2>1
    <2>6. staged'[i] \in Tree
      BY <2>1, <2>2, <2>3 DEF Tree
    <2>4. mode = "native" => LockOf(i) = i
      OBVIOUS
    <2>5. mode = "full" /\ ~met => LockOf(i) = file[i]
      BY <2>1
    <2> HIDE DEF LockOf, Tree, TreeFiles
    <2> QED BY <2>1, <2>2, <2>3, <2>4, <2>5, <2>6
  <1>13. CASE Away(i)
    BY <1>13 DEF Away
  <1>14. CASE In(i)
    <2>1. pc[i] = "in" /\ pc'[i] \in {"tidy", "restore"} /\ met' = met /\ mode' = mode
          /\ staged' = staged /\ file' = file /\ id' = id /\ (pc'[i] = "tidy" => at' = staged[i])
      BY <1>14 DEF In
    <2>2. CASE pc'[i] = "tidy"
      BY <2>1, <2>2
    <2>3. CASE pc'[i] = "restore"
      BY <2>1, <2>3
    <2> QED BY <2>1, <2>2, <2>3
  <1>15. CASE Restore(i)
    BY <1>15 DEF Restore
  <1>16. CASE Tidy(i)
    <2>1. \/ pc'[i] = "done"
          \/ pc[i] = "tidy" /\ pc'[i] = "persist" /\ met' = met /\ mode' = mode
             /\ staged' = staged /\ file' = file /\ id' = id /\ at' = at
      BY <1>16 DEF Tidy
    <2>2. CASE pc'[i] = "done"
      BY <2>2
    <2> HIDE DEF Disk, Whole, Alone, Works, TypeOK, Looked, Locked
    <2>3. CASE pc'[i] = "persist"
      BY <2>1, <2>3
    <2> QED BY <2>1, <2>2, <2>3
  <1>17. CASE ~Fail(i) /\ Persist(i)
    <2>1. pc[i] = "persist" /\ pc'[i] = "installed" /\ met' = met /\ mode' = mode
          /\ staged' = staged /\ file' = file /\ id' = id /\ at' = at
      BY <1>17 DEF Persist
    <2> QED BY <2>1
  <1>18. CASE End(i)
    BY <1>18 DEF End
  <1>19. CASE Kill(i)
    BY <1>19 DEF Kill
  <1> QED BY <1>1, <1>2, <1>3, <1>4, <1>5, <1>6, <1>7, <1>8, <1>9, <1>10, <1>11, <1>12, <1>13,
        <1>14, <1>15, <1>16, <1>17, <1>18, <1>19 DEF Steps

LEMMA InstallerAsked ==
  ASSUME NEW i \in Installers, Steps(i), Inv, Shape', Others(i)
  PROVE  Asked(i)'
  <1> USE InstallAssumption DEF InstallAssumption, Inv, Shape, Phased, TypeOK, Alone, Works,
        Disk, Whole, InFull, InNative, InBoth, Ended, Active, Go, Drop, Without, Take, Free,
        Processes, NoTree, None, TreeFiles, Files, idle, disk, own, Looked, Asked, Permitted,
        Source, Copied, Prepared
  <1>1. CASE Fails(i)
    BY <1>1 DEF Fails, Fail
  <1>2. CASE Open(i)
    BY <1>2 DEF Open
  <1>3. CASE MayReplaceTree(i) /\ CheckDirectory(i)
    BY <1>3 DEF CheckDirectory
  <1>4. CASE LockDirectory(i)
    BY <1>4 DEF LockDirectory
  <1>5. CASE TryFree(i) /\ TryDirectory(i)
    BY <1>5 DEF TryDirectory
  <1>6. CASE MakeGate(i)
    BY <1>6 DEF MakeGate
  <1>7. CASE GateFree(i) /\ TryGate(i)
    BY <1>7 DEF TryGate
  <1>8. CASE Permitted(i) /\ Compare(i)
    BY <1>8 DEF Compare
  <1>9. CASE Copied(i) /\ Copy(i)
    BY <1>9 DEF Copy
  <1>10. CASE at = NoTree /\ Scan(i)
    BY <1>10 DEF Scan
  <1>11. CASE at # NoTree /\ Free(at.lock, i) /\ Scan(i)
    BY <1>11 DEF Scan
  <1>12. CASE ~Fail(i) /\ Stage(i)
    BY <1>12 DEF Stage
  <1>13. CASE Away(i)
    BY <1>13 DEF Away
  <1>14. CASE In(i)
    BY <1>14 DEF In
  <1>15. CASE Restore(i)
    BY <1>15 DEF Restore
  <1>16. CASE Tidy(i)
    BY <1>16 DEF Tidy
  <1>17. CASE ~Fail(i) /\ Persist(i)
    BY <1>17 DEF Persist
  <1>18. CASE End(i)
    BY <1>18 DEF End
  <1>19. CASE Kill(i)
    BY <1>19 DEF Kill
  <1> QED BY <1>1, <1>2, <1>3, <1>4, <1>5, <1>6, <1>7, <1>8, <1>9, <1>10, <1>11, <1>12, <1>13,
        <1>14, <1>15, <1>16, <1>17, <1>18, <1>19 DEF Steps

LEMMA InstallerFresh ==
  ASSUME NEW i \in Installers, Steps(i), Inv, Shape', Others(i), Fresh(i)'
  PROVE  Unknown(i)'
  <1> USE InstallAssumption DEF InstallAssumption, Inv, Shape, Phased, TypeOK, Alone, Works,
        Disk, Whole, InFull, InNative, InBoth, Ended, Active, Go, Drop, Without, Take, Free,
        Processes, NoTree, None, TreeFiles, Files, idle, disk, own, Fresh, Unknown,
        InstallerPhases, Others
  <1>1. CASE Fails(i)
    BY <1>1 DEF Fails, Fail
  <1>2. CASE Open(i)
    BY <1>2 DEF Open
  <1>3. CASE MayReplaceTree(i) /\ CheckDirectory(i)
    BY <1>3 DEF CheckDirectory
  <1>4. CASE LockDirectory(i)
    BY <1>4 DEF LockDirectory
  <1>5. CASE TryFree(i) /\ TryDirectory(i)
    BY <1>5 DEF TryDirectory
  <1>6. CASE MakeGate(i)
    BY <1>6 DEF MakeGate
  <1>7. CASE GateFree(i) /\ TryGate(i)
    BY <1>7 DEF TryGate
  <1>8. CASE Permitted(i) /\ Compare(i)
    BY <1>8 DEF Compare
  <1>9. CASE Copied(i) /\ Copy(i)
    BY <1>9 DEF Copy
  <1>10. CASE at = NoTree /\ Scan(i)
    BY <1>10 DEF Scan
  <1>11. CASE at # NoTree /\ Free(at.lock, i) /\ Scan(i)
    BY <1>11 DEF Scan
  <1>12. CASE ~Fail(i) /\ Stage(i)
    BY <1>12 DEF Stage
  <1>13. CASE Away(i)
    BY <1>13 DEF Away
  <1>14. CASE In(i)
    BY <1>14 DEF In
  <1>15. CASE Restore(i)
    BY <1>15 DEF Restore
  <1>16. CASE Tidy(i)
    BY <1>16 DEF Tidy
  <1>17. CASE ~Fail(i) /\ Persist(i)
    BY <1>17 DEF Persist
  <1>18. CASE End(i)
    BY <1>18 DEF End
  <1>19. CASE Kill(i)
    BY <1>19 DEF Kill
  <1> QED BY <1>1, <1>2, <1>3, <1>4, <1>5, <1>6, <1>7, <1>8, <1>9, <1>10, <1>11, <1>12, <1>13,
        <1>14, <1>15, <1>16, <1>17, <1>18, <1>19 DEF Steps

LEMMA InstallerDisk ==
  ASSUME NEW i \in Installers, Steps(i), Inv, Shape', Others(i)
  PROVE  Disk'
  <1> USE InstallAssumption DEF InstallAssumption, Inv, Shape, Phased, TypeOK, Alone, Works,
        Disk, Whole, InFull, InNative, InBoth, Ended, Active, Go, Drop, Without, Take, Free,
        Processes, NoTree, None, TreeFiles, Files, idle, disk, own, Others, Looked, Locked,
        Prepared, Empty, Tree, Restored
  <1>1. CASE Fails(i)
    BY <1>1 DEF Fails, Fail
  <1>2. CASE Open(i)
    BY <1>2 DEF Open
  <1>3. CASE MayReplaceTree(i) /\ CheckDirectory(i)
    BY <1>3 DEF CheckDirectory
  <1>4. CASE LockDirectory(i)
    BY <1>4 DEF LockDirectory
  <1>5. CASE TryFree(i) /\ TryDirectory(i)
    BY <1>5 DEF TryDirectory
  <1>6. CASE MakeGate(i)
    BY <1>6 DEF MakeGate
  <1>7. CASE GateFree(i) /\ TryGate(i)
    BY <1>7 DEF TryGate
  <1>8. CASE Permitted(i) /\ Compare(i)
    BY <1>8 DEF Compare
  <1>9. CASE Copied(i) /\ Copy(i)
    BY <1>9 DEF Copy
  <1>10. CASE at = NoTree /\ Scan(i)
    BY <1>10 DEF Scan
  <1>11. CASE at # NoTree /\ Free(at.lock, i) /\ Scan(i)
    BY <1>11 DEF Scan
  <1>12. CASE ~Fail(i) /\ Stage(i)
    BY <1>12 DEF Stage
  <1>13. CASE Away(i)
    BY <1>13 DEF Away
  <1>14. CASE In(i)
    BY <1>14 DEF In
  <1>15. CASE Restore(i)
    BY <1>15 DEF Restore
  <1>16. CASE Tidy(i)
    BY <1>16 DEF Tidy
  <1>17. CASE ~Fail(i) /\ Persist(i)
    BY <1>17 DEF Persist
  <1>18. CASE End(i)
    BY <1>18 DEF End
  <1>19. CASE Kill(i)
    BY <1>19 DEF Kill
  <1> QED BY <1>1, <1>2, <1>3, <1>4, <1>5, <1>6, <1>7, <1>8, <1>9, <1>10, <1>11, <1>12, <1>13,
        <1>14, <1>15, <1>16, <1>17, <1>18, <1>19 DEF Steps

(* One at a time: a new worker has found the gate free, or nobody active. *)
LEMMA AloneKept ==
  ASSUME Inv, Shape', NEW p \in Processes, Others(p),
         p \in Installers /\ Works(p)' => Works(p) /\ (mode = "native" => <<p, Gate>> \in held')
  PROVE  Alone'
  BY InstallAssumption DEF InstallAssumption, Inv, Shape, Alone, Works, Others, Processes, Files

(* An application stays bound while the tree does. *)
LEMMA BoundKept ==
  ASSUME Inv, Shape', NEW p \in Processes, Others(p), NEW a \in Apps, a # p, at' = at,
         \/ kills' # 0
         \/ kills' = kills /\ \A i \in Installers : pc[i] \in {"in", "restore"} =>
               pc'[i] \in {"in", "restore"} /\ stash'[i] = stash[i]
  PROVE  Bound(a)'
  BY InstallAssumption DEF InstallAssumption, Inv, Shape, Others, Processes, Files, TreeFiles,
        Bound, Guards

(* Who holds a lock exclusively is its only holder. *)
LEMMA HolderIsAlone ==
  ASSUME TypeOK, NEW i \in Installers, NEW f, <<i, f>> \in held, NEW p, <<p, f>> \in held
  PROVE  p = i
  BY DEF TypeOK

LEMMA WorkerHasGate ==
  ASSUME Inv, mode = "native", NEW i \in Installers, Works(i), NEW q, q # i
  PROVE  <<q, Gate>> \notin held
  BY HolderIsAlone DEF Inv, Alone

LEMMA NobodyBehindGate ==
  ASSUME Inv, mode = "native", NEW i \in Installers, pc[i] = "trygate", GateFree(i),
         NEW j \in Installers
  PROVE  ~Works(j)
  <1> SUFFICES ASSUME Works(j) PROVE FALSE
    OBVIOUS
  <1>1. <<j, Gate>> \in held
    BY DEF Inv, Alone
  <1>2. j # i
    BY DEF Works, InFull, InNative, InBoth
  <1> QED BY <1>1, <1>2 DEF GateFree, Free

LEMMA InstallerAlone ==
  ASSUME NEW i \in Installers, Steps(i), Inv, Shape', Others(i)
  PROVE  Alone'
  <1> USE InstallAssumption DEF InstallAssumption, Inv, Shape, Phased, TypeOK, Alone, Works,
        Disk, Whole, InFull, InNative, InBoth, Ended, Active, Go, Drop, Without, Take, Free,
        Processes, NoTree, None, TreeFiles, Files, idle, disk, own, Phased, InstallerPhases
  <1>1. CASE Fails(i)
    BY AloneKept, <1>1 DEF Fails, Fail
  <1>2. CASE Open(i)
    <2>1. mode = "native" => ~Works(i)' /\ ~Works(i)
      BY <1>2 DEF Open
    <2>2. mode = "full" /\ ~met' => \A j \in Installers : ~Works(j)
      BY <1>2 DEF Open
    <2> QED BY <1>2, <2>1, <2>2 DEF Open, Others
  <1>3. CASE MayReplaceTree(i) /\ CheckDirectory(i)
    BY AloneKept, <1>3 DEF CheckDirectory
  <1>4. CASE LockDirectory(i)
    BY AloneKept, <1>4 DEF LockDirectory
  <1>5. CASE TryFree(i) /\ TryDirectory(i)
    BY AloneKept, <1>5 DEF TryDirectory
  <1>6. CASE MakeGate(i)
    BY AloneKept, <1>6 DEF MakeGate
  <1>7. CASE GateFree(i) /\ TryGate(i)
    <2>1. mode = "native" /\ <<i, Gate>> \in held' /\ held \subseteq held' /\ met' = met
      BY <1>7 DEF TryGate
    <2>2. \A j \in Installers : ~Works(j)
      BY <1>7, <2>1, NobodyBehindGate DEF TryGate
    <2>3. ASSUME NEW j \in Installers, Works(j)' PROVE j = i
      BY <2>2, <2>3 DEF Others
    <2> QED BY <2>1, <2>3
  <1>8. CASE Permitted(i) /\ Compare(i)
    BY AloneKept, <1>8 DEF Compare
  <1>9. CASE Copied(i) /\ Copy(i)
    BY AloneKept, <1>9 DEF Copy
  <1>10. CASE at = NoTree /\ Scan(i)
    BY AloneKept, <1>10 DEF Scan
  <1>11. CASE at # NoTree /\ Free(at.lock, i) /\ Scan(i)
    BY AloneKept, <1>11 DEF Scan
  <1>12. CASE ~Fail(i) /\ Stage(i)
    BY AloneKept, <1>12 DEF Stage
  <1>13. CASE Away(i)
    BY AloneKept, <1>13 DEF Away
  <1>14. CASE In(i)
    BY AloneKept, <1>14 DEF In
  <1>15. CASE Restore(i)
    BY AloneKept, <1>15 DEF Restore
  <1>16. CASE Tidy(i)
    BY AloneKept, <1>16 DEF Tidy
  <1>17. CASE ~Fail(i) /\ Persist(i)
    BY AloneKept, <1>17 DEF Persist
  <1>18. CASE End(i)
    BY AloneKept, <1>18 DEF End
  <1>19. CASE Kill(i)
    BY AloneKept, <1>19 DEF Kill
  <1> QED BY <1>1, <1>2, <1>3, <1>4, <1>5, <1>6, <1>7, <1>8, <1>9, <1>10, <1>11, <1>12, <1>13,
        <1>14, <1>15, <1>16, <1>17, <1>18, <1>19 DEF Steps

LEMMA AppAlone ==
  ASSUME NEW a \in Apps, Inv, Shape', Others(a)
  PROVE  Alone'
  <1>1. a \in Processes /\ a \notin Installers
    BY InstallAssumption DEF InstallAssumption, Processes
  <1> QED BY <1>1, AloneKept

LEMMA InstallerBound ==
  ASSUME NEW i \in Installers, Steps(i), NEW a \in Apps, Inv, Shape', Others(i)
  PROVE  Bound(a)'
  <1> USE InstallAssumption DEF InstallAssumption, Shape, Phased, Alone, Works, InFull, InNative,
        InBoth, Ended, Active, Go, Drop, Processes, NoTree, None, TreeFiles, Files, idle, disk,
        own
  <1>0. Shape /\ TypeOK /\ Phased /\ Alone /\ Disk /\ Looked(i) /\ Locked(i) /\ Prepared(i)
        /\ (Fresh(i) => Unknown(i)) /\ Bound(a)
    BY DEF Inv
  <1>1. CASE Fails(i)
    BY BoundKept, <1>0, <1>1 DEF Fails, Fail
  <1>2. CASE Open(i)
    BY BoundKept, <1>0, <1>2 DEF Open
  <1>3. CASE MayReplaceTree(i) /\ CheckDirectory(i)
    BY BoundKept, <1>0, <1>3 DEF CheckDirectory
  <1>4. CASE LockDirectory(i)
    <2>1. pc[i] = "lock" /\ mode = "full" /\ file[a] # i
      BY <1>0, <1>4 DEF LockDirectory, Fresh, Unknown
    <2>2. /\ at.lock \in Files => at' = at
          /\ at.lock \notin Files => at'.lock = i
          /\ met' = met /\ kills' = kills
      BY <1>0, <1>4 DEF LockDirectory
    <2>3. \A j \in Installers : pc[j] \in {"in", "restore"} => met
      BY <1>0, <2>1
    <2>4. CASE at.lock \in Files
      BY <1>0, <2>2, <2>3, <2>4 DEF Others, Bound, Guards
    <2>5. CASE at.lock \notin Files
      BY <1>0, <2>1, <2>2, <2>3, <2>5 DEF Others, Bound, Guards
    <2> QED BY <1>0, <2>4, <2>5
  <1>5. CASE TryFree(i) /\ TryDirectory(i)
    BY BoundKept, <1>0, <1>5 DEF TryDirectory
  <1>6. CASE MakeGate(i)
    BY BoundKept, <1>0, <1>6 DEF MakeGate
  <1>7. CASE GateFree(i) /\ TryGate(i)
    BY BoundKept, <1>0, <1>7 DEF TryGate
  <1>8. CASE Permitted(i) /\ Compare(i)
    BY BoundKept, <1>0, <1>8 DEF Compare
  <1>9. CASE Copied(i) /\ Copy(i)
    BY BoundKept, <1>0, <1>9 DEF Copy
  <1>10. CASE at = NoTree /\ Scan(i)
    BY BoundKept, <1>0, <1>10 DEF Scan
  <1>11. CASE at # NoTree /\ Free(at.lock, i) /\ Scan(i)
    BY BoundKept, <1>0, <1>11 DEF Scan
  <1>12. CASE ~Fail(i) /\ Stage(i)
    BY BoundKept, <1>0, <1>12 DEF Stage
  <1>13. CASE Away(i)
    <2>1. pc[i] = "away" /\ pc'[i] = "in" /\ at' = NoTree /\ stash'[i] = at
          /\ met' = met /\ kills' = kills
      BY <1>0, <1>13 DEF Away
    <2>2. \A j \in Installers : pc[j] \in {"in", "restore"} => met
      BY <1>0, <2>1
    <2>3. mode = "native" => <<a, Gate>> \notin held
      BY <2>1, WorkerHasGate
    <2>4. file[a] \in TreeFiles => file[a] # at'.lock
      BY <1>0, <2>1 DEF First
    <2> QED BY <1>0, <2>1, <2>2, <2>3, <2>4 DEF Others, Bound, Guards
  <1>14. CASE In(i)
    <2>1. /\ pc[i] = "in" /\ stash' = stash /\ met' = met /\ kills' = kills
          /\ \/ pc'[i] = "restore" /\ at' = at
             \/ at = NoTree /\ at' = staged[i]
      BY <1>0, <1>14 DEF In
    <2>2. CASE at' = at /\ pc'[i] = "restore"
      <3>1. \A j \in Installers : pc[j] \in {"in", "restore"} => pc'[j] \in {"in", "restore"}
        BY <2>2 DEF Others
      <3>2. i \in Processes /\ a # i
        OBVIOUS
      <3> QED BY <2>1, <2>2, <3>1, <3>2, BoundKept
    <2>3. CASE at = NoTree /\ at' = staged[i]
      <3>1. mode = "native" => <<a, Gate>> \notin held
        BY <2>1, WorkerHasGate
      <3>2. mode = "native" => file[a] # staged[i].lock
        BY <1>0, <2>1 DEF Fresh, Unknown, InstallerPhases, Prepared
      <3>3. mode = "full" /\ ~met => <<i, staged[i].lock>> \in held
        <4>1. SUFFICES ASSUME mode = "full", ~met PROVE <<i, staged[i].lock>> \in held
          OBVIOUS
        <4>2. stash[i].lock = file[i] /\ file[i] \in TreeFiles /\ staged[i].lock = file[i]
          BY <1>0, <2>1, <4>1 DEF Locked, Prepared
        <4>3. stash[i] # NoTree
          BY <4>2 DEF First
        <4> QED BY <1>0, <2>1, <4>1, <4>2, <4>3 DEF Locked
      <3>4. mode = "full" /\ ~met /\ pc[a] = "running" => file[a] # staged[i].lock
        BY <1>0, <3>3, HolderIsAlone DEF Bound
      <3>5. mode = "full" /\ ~met /\ pc[a] \in {"share", "bind", "running"} /\ kills = 0
              => file[a] = staged[i].lock
        BY <1>0, <2>1, <2>3 DEF Bound, Prepared, Locked, First
      <3>6. pc[a] = "running" => ~Guards(a)'
        BY <1>0, <2>1, <2>3, <3>1, <3>2, <3>4 DEF Others, Bound, Guards
      <3>7. /\ pc'[a] = pc[a] /\ file'[a] = file[a] /\ mode' = mode
            /\ file[a] \in Files /\ <<a, file[a]>> \in held => <<a, file[a]>> \in held'
        BY <2>1 DEF Others
      <3>8. file[a] \in TreeFiles => file[a] \in Files
        OBVIOUS
      <3> QED BY <1>0, <2>1, <2>3, <3>5, <3>6, <3>7, <3>8 DEF Bound
    <2> QED BY <1>0, <2>1, <2>2, <2>3
  <1>15. CASE Restore(i)
    <2>1. pc[i] = "restore" /\ at' = Restored(i) /\ met' = met /\ kills' = kills
      BY <1>0, <1>15 DEF Restore
    <2>2. ~met => at = NoTree /\ at' = stash[i]
      BY <1>0, <2>1 DEF Locked, Restored
    <2>3. mode = "native" => <<a, Gate>> \notin held
      BY <2>1, WorkerHasGate
    <2>4. ~met /\ pc[a] = "running" => file[a] # stash[i].lock
      <3>1. SUFFICES ASSUME ~met, pc[a] = "running", file[a] = stash[i].lock PROVE FALSE
        OBVIOUS
      <3>2. stash[i] # NoTree
        BY <1>0, <3>1 DEF Bound, First
      <3>3. <<i, stash[i].lock>> \in held
        BY <1>0, <2>1, <3>1, <3>2 DEF Locked
      <3> QED BY <1>0, <3>1, <3>3, HolderIsAlone DEF Bound
    <2>5. mode = "full" /\ ~met /\ pc[a] \in {"share", "bind", "running"} /\ kills = 0
            => file[a] = stash[i].lock
      BY <1>0, <2>1, <2>2 DEF Bound, Locked, First
    <2>6. pc[a] = "running" => ~Guards(a)'
      BY <1>0, <2>1, <2>2, <2>3, <2>4 DEF Others, Bound, Guards
    <2> QED BY <1>0, <2>1, <2>2, <2>5, <2>6 DEF Others, Bound
  <1>16. CASE Tidy(i)
    BY BoundKept, <1>0, <1>16 DEF Tidy
  <1>17. CASE ~Fail(i) /\ Persist(i)
    BY BoundKept, <1>0, <1>17 DEF Persist
  <1>18. CASE End(i)
    BY BoundKept, <1>0, <1>18 DEF End
  <1>19. CASE Kill(i)
    <2>1. kills' = kills + 1 /\ kills \in Nat /\ at' = at
      BY <1>0, <1>19 DEF Kill, TypeOK
    <2>2. kills' # 0
      BY <2>1
    <2>3. i \in Processes /\ a # i
      OBVIOUS
    <2> QED BY <2>1, <2>2, <2>3, BoundKept
  <1> QED BY <1>1, <1>2, <1>3, <1>4, <1>5, <1>6, <1>7, <1>8, <1>9, <1>10, <1>11, <1>12, <1>13,
        <1>14, <1>15, <1>16, <1>17, <1>18, <1>19 DEF Steps

LEMMA AppBound ==
  ASSUME NEW a \in Apps, App(a), Inv, Shape', Others(a)
  PROVE  Bound(a)'
  <1> USE InstallAssumption DEF InstallAssumption, Shape, Phased, Disk, Whole, Bound, Guards,
        Without, Take, Go, Processes, NoTree, None, TreeFiles, Files, idle, disk, own
  <1>0. Shape /\ TypeOK /\ Phased /\ Alone /\ Disk /\ Bound(a)
    BY DEF Inv
  <1>1. CASE Start(a)
    <2>1. \/ mode = "full" /\ at.lock \in Files /\ file'[a] = at.lock /\ pc'[a] = "share"
          \/ pc'[a] = "probe"
      BY <1>0, <1>1 DEF Start
    <2>2. at.lock \in Files => at.lock \in TreeFiles
      BY <1>0 DEF TypeOK, Tree, First, Gate
    <2> QED BY <2>1, <2>2, <1>1 DEF Start
  <1>2. CASE Probe(a)
    BY <1>0, <1>2 DEF Probe
  <1>3. CASE PassGate(a)
    BY <1>0, <1>3 DEF PassGate
  <1>4. CASE OpenGroup(a)
    BY <1>0, <1>4 DEF OpenGroup
  <1>5. CASE Share(a)
    BY <1>0, <1>5 DEF Share
  <1>6. CASE Bind(a)
    <2>1. /\ pc[a] = "bind" /\ file' = file /\ at' = at /\ met' = met /\ kills' = kills
          /\ stash' = stash /\ mode' = mode
          /\ \/ pc'[a] \in {"leaving", "cache"}
             \/ /\ pc'[a] = "running" /\ held' = held
                /\ id'[a] = at.version
      BY <1>0, <1>6 DEF Bind, Matches
    <2>2. \A j \in Installers : pc'[j] = pc[j]
      BY DEF Others
    <2>3. CASE pc'[a] = "running"
      BY <1>0, <2>1, <2>2, <2>3
    <2>4. CASE pc'[a] \in {"leaving", "cache"}
      BY <2>4
    <2> QED BY <2>1, <2>3, <2>4
  <1>7. CASE Exit(a)
    BY <1>0, <1>7 DEF Exit
  <1> QED BY <1>1, <1>2, <1>3, <1>4, <1>5, <1>6, <1>7 DEF App

(* The invariant holds at the start, and every step keeps it. *)
LEMMA InitInv == Init => Inv
  <1> SUFFICES ASSUME Init PROVE Inv
    OBVIOUS
  <1> USE InstallAssumption DEF InstallAssumption, Init, Processes, NoTree, None, First, Ended
  <1>1. Shape
    BY DEF Shape, InstallerPhases
  <1>2. at \in Tree \cup {NoTree}
    BY DEF Tree
  <1>3. TypeOK
    BY <1>2 DEF TypeOK
  <1>4. Phased
    BY DEF Phased, InstallerPhases, AppPhases, InFull, InNative
  <1>5. Alone
    BY DEF Alone, Works, InFull, InNative, InBoth
  <1>6. Disk
    BY DEF Disk, Whole, TreeFiles
  <1>7. ASSUME NEW i \in Installers PROVE Unknown(i)
    BY DEF Unknown
  <1>8. ASSUME NEW i \in Installers PROVE Looked(i) /\ Locked(i) /\ Prepared(i) /\ Asked(i)
    BY DEF Looked, Locked, Prepared, Asked, Active, InBoth
  <1>9. ASSUME NEW a \in Apps PROVE Bound(a)
    BY DEF Bound
  <1> QED BY <1>1, <1>3, <1>4, <1>5, <1>6, <1>7, <1>8, <1>9 DEF Inv

LEMMA InstallerKeeps ==
  ASSUME NEW i \in Installers, Steps(i), Inv
  PROVE  Inv'
  <1>1. Others(i) /\ Known(i) /\ Shape'
    BY InstallerFrame, InstallerShape
  <1>2. TypeOK'
    BY <1>1, InstallerExcludes, InstallerTypes
  <1>3. Phased' /\ Alone' /\ Disk'
    BY <1>1, InstallerPhased, InstallerAlone, InstallerDisk
  <1>4. i \in Processes
    BY DEF Processes
  <1>5. ASSUME NEW j \in Installers, Fresh(j)' PROVE Unknown(j)'
    BY <1>1, <1>4, <1>5, InstallerFresh, FreshKept
  <1>6. ASSUME NEW j \in Installers PROVE Looked(j)' /\ Locked(j)' /\ Prepared(j)' /\ Asked(j)'
    BY <1>1, <1>4, InstallersKept, InstallerLooked, InstallerLocked, InstallerPrepared,
       InstallerAsked
  <1>7. ASSUME NEW a \in Apps PROVE Bound(a)'
    BY <1>1, InstallerBound
  <1> QED BY <1>1, <1>2, <1>3, <1>5, <1>6, <1>7 DEF Inv

LEMMA AppKeeps ==
  ASSUME NEW a \in Apps, App(a), Inv
  PROVE  Inv'
  <1>1. Others(a) /\ Known(a) /\ Shape'
    BY AppFrame, AppShape
  <1>2. TypeOK'
    BY <1>1, AppExcludes, AppTypes
  <1>3. Phased' /\ Alone'
    BY <1>1, AppPhased, AppAlone
  <1>4. a \in Processes /\ a \notin Installers
    BY InstallAssumption DEF InstallAssumption, Processes
  <1>5. Disk'
    BY <1>1, <1>4 DEF Inv, Others, Disk, Whole, Processes
  <1>6. ASSUME NEW j \in Installers, Fresh(j)' PROVE Unknown(j)'
    BY <1>1, <1>4, <1>6, FreshKept
  <1>7. ASSUME NEW j \in Installers PROVE Looked(j)' /\ Locked(j)' /\ Prepared(j)' /\ Asked(j)'
    BY <1>1, <1>4, InstallersKept
  <1>8. at' = at /\ kills' = kills /\ UNCHANGED stash
    BY DEF App, Start, Probe, PassGate, OpenGroup, Share, Bind, Exit, disk, idle
  <1>9. ASSUME NEW b \in Apps PROVE Bound(b)'
    <2>1. \A i \in Installers : pc'[i] = pc[i]
      BY <1>1, <1>4 DEF Others, Processes
    <2> QED BY <1>1, <1>4, <1>8, <2>1, AppBound, BoundKept
  <1> QED BY <1>1, <1>2, <1>3, <1>5, <1>6, <1>7, <1>9 DEF Inv

LEMMA StillKeeps ==
  ASSUME Inv, UNCHANGED <<mode, disk, pc, own, held, met, kills>>
  PROVE  Shape' /\ Phased' /\ Alone' /\ Disk'
         /\ (\A i \in Installers : Fresh(i)' => Unknown(i)')
         /\ (\A i \in Installers : Looked(i)' /\ Locked(i)' /\ Prepared(i)' /\ Asked(i)')
         /\ (\A a \in Apps : Bound(a)')
  <1> USE DEF disk, own, Inv
  <1>1. Shape' /\ Phased' /\ Alone' /\ Disk'
    BY DEF Shape, Phased, Alone, Works, Disk, Whole
  <1>2. \A i \in Installers : Fresh(i)' => Unknown(i)'
    BY DEF Fresh, Unknown
  <1>3. ASSUME NEW i \in Installers PROVE Looked(i)' /\ Locked(i)' /\ Prepared(i)' /\ Asked(i)'
    BY DEF Looked, MayReplaceTree, Empty, Locked, Prepared, Asked, Permitted, Active
  <1>4. \A a \in Apps : Bound(a)'
    BY DEF Bound, Guards
  <1> QED BY <1>1, <1>2, <1>3, <1>4

LEMMA SourceKeeps == Inv /\ ReplaceSource => Inv'
  <1> SUFFICES ASSUME Inv, ReplaceSource PROVE Inv'
    OBVIOUS
  <1>1. TypeOK'
    BY InstallAssumption DEF InstallAssumption, ReplaceSource, Inv, TypeOK, disk, own
  <1> QED BY <1>1, StillKeeps DEF Inv, ReplaceSource

LEMMA IdleKeeps == Inv /\ UNCHANGED vars => Inv'
  <1> SUFFICES ASSUME Inv, UNCHANGED vars PROVE Inv'
    OBVIOUS
  <1>1. TypeOK' /\ UNCHANGED <<mode, disk, pc, own, held, met, kills>>
    BY DEF vars, Inv, TypeOK, disk, own
  <1> QED BY <1>1, StillKeeps DEF Inv

LEMMA InvCorrect == Spec => []Inv
  <1>1. Inv /\ [Next]_vars => Inv'
    BY InstallerSteps, InstallerKeeps, AppKeeps, SourceKeeps, IdleKeeps DEF Next
  <1> QED BY <1>1, InitInv, PTL DEF Spec

-----------------------------------------------------------------------------
(* Every variable stays in its domain, and an installer has its locks alone. *)
THEOREM TypeCorrect == Spec => []TypeOK
  <1>1. Inv => TypeOK
    BY DEF Inv
  <1> QED BY <1>1, InvCorrect, PTL

LEMMA ProtectedGuards ==
  ASSUME Inv, NEW a \in Apps, Protected(a)
  PROVE  Guards(a) /\ <<a, file[a]>> \in held /\ file[a] \in TreeFiles
  <1>1. <<a, file[a]>> \in held /\ file[a] \in TreeFiles
    BY DEF Inv, Bound, Protected
  <1>2. CASE mode = "full" /\ kills = 0 /\ ~met
    <2>1. SUFFICES ASSUME file[a] # at.lock PROVE FALSE
      BY <1>1, <1>2 DEF Guards
    <2>2. PICK i \in Installers : pc[i] \in {"in", "restore"} /\ stash[i].lock = file[a]
      BY <1>2, <2>1 DEF Inv, Bound, Protected
    <2>3. stash[i] # NoTree
      BY <1>1, <2>2, InstallAssumption DEF InstallAssumption, TreeFiles, First, NoTree
    <2>4. <<i, file[a]>> \in held
      BY <1>2, <2>2, <2>3 DEF Inv, Locked
    <2> QED BY <1>1, <2>4, HolderIsAlone, InstallAssumption DEF Inv, InstallAssumption
  <1> QED BY <1>1, <1>2 DEF Protected, Guards

(* An application runs from the tree of the package that it opened, whatever
   installers do meanwhile. *)
THEOREM ApplicationsRunTheirTree == Spec => []RunsOwnTree
  <1>1. Inv => RunsOwnTree
    BY ProtectedGuards DEF RunsOwnTree, Protected, Inv, Bound
  <1> QED BY <1>1, InvCorrect, PTL

(* A successful native installation leaves a package and the sidecar of that
   package. *)
THEOREM PairsAgree == Spec => []PairAgrees
  <1>1. ASSUME Inv, NEW i \in Installers, pc[i] = "installed"
        PROVE  {at.version, package} = {id[i]}
    <2>1. ~met /\ package = id[i]
      BY <1>1 DEF Inv, Phased, InNative, Asked
    <2>2. at.version = id[i]
      BY <1>1, <2>1 DEF Inv, Prepared
    <2> QED BY <2>1, <2>2
  <1>2. Inv => PairAgrees
    BY <1>1 DEF PairAgrees
  <1> QED BY <1>2, InvCorrect, PTL

(* The steps that change the tree, and the one that changes the package. *)
LEMMA WhoMoves ==
  ASSUME Inv, [Next]_vars
  PROVE  /\ at' # at =>
              \E i \in Installers : LockDirectory(i) \/ Away(i) \/ In(i) \/ Restore(i)
         /\ package' # package => \E i \in Installers : ~Fail(i) /\ Persist(i)
  <1>1. CASE UNCHANGED vars \/ ReplaceSource
    BY <1>1 DEF vars, ReplaceSource, disk
  <1>2. CASE \E a \in Apps : App(a)
    BY <1>2 DEF App, Start, Probe, PassGate, OpenGroup, Share, Bind, Exit, disk
  <1>3. ASSUME NEW i \in Installers, Steps(i)
        PROVE  /\ at' # at => LockDirectory(i) \/ Away(i) \/ In(i) \/ Restore(i)
               /\ package' # package => ~Fail(i) /\ Persist(i)
    BY <1>3 DEF Steps, Fails, Fail, Open, CheckDirectory, TryDirectory, MakeGate, TryGate,
         Compare, Copy, Scan, Stage, Tidy, End, Kill, LockDirectory, Away, In, Restore, Persist,
         disk
  <1> QED BY <1>1, <1>2, <1>3, InstallerSteps DEF Next

(* Nothing is renamed under a running application. *)
THEOREM RunningTreesStay == Spec => RunningStays
  <1>1. ASSUME Inv, [Next]_vars, NEW a \in Apps, Protected(a) PROVE at' = at
    <2>1. SUFFICES ASSUME NEW i \in Installers,
                          LockDirectory(i) \/ Away(i) \/ In(i) \/ Restore(i)
                   PROVE  at' = at
      BY <1>1, WhoMoves
    <2>2. Works(i) /\ a # i
      BY <2>1, InstallAssumption
      DEF InstallAssumption, LockDirectory, Away, In, Restore, Works, InFull, InBoth
    <2>3. mode = "native" => <<a, Gate>> \notin held
      BY <1>1, <2>2, WorkerHasGate
    <2>4. at.lock = file[a] /\ ~met /\ <<a, at.lock>> \in held /\ at.lock \in TreeFiles
      BY <1>1, <2>3, ProtectedGuards DEF Guards
    <2>5. at # NoTree
      BY <2>4, InstallAssumption DEF InstallAssumption, TreeFiles, First, NoTree
    <2>6. CASE LockDirectory(i)
      BY <2>4, <2>6 DEF LockDirectory, TreeFiles, Files
    <2>7. CASE Away(i)
      BY <1>1, <2>2, <2>4, <2>5, <2>7, HolderIsAlone DEF Away, Inv, Locked
    <2>8. CASE In(i) \/ Restore(i)
      BY <1>1, <2>4, <2>5, <2>8 DEF In, Restore, Inv, Locked
    <2> QED BY <2>1, <2>6, <2>7, <2>8
  <1>2. Inv /\ [Next]_vars => [\A a \in Apps : Protected(a) => at' = at]_at
    BY <1>1
  <1> QED BY <1>2, InvCorrect, PTL DEF Spec, RunningStays

(* Once there is an installation, there always is one, in place or in a
   backup beside it. *)
THEOREM InstallationsAreKept == Spec => InstallationKept
  <1>1. ASSUME Inv, NEW i \in Installers, Steps(i), Exists, ~met PROVE Exists'
    <2>0. stash \in [Installers -> Tree \cup {NoTree}] /\ NoTree.version \notin Versions
      BY <1>1, InstallAssumption DEF Inv, Shape, NoTree, None, InstallAssumption
    <2>1. Others(i)
      BY <1>1, InstallerFrame
    <2>2. PICK tree \in Trees : tree.version \in Versions
      BY <1>1 DEF Exists
    <2>3. CASE tree = at /\ at' = at
      BY <2>2, <2>3 DEF Exists, Trees
    <2>4. ASSUME NEW j \in Installers, tree = stash[j], stash'[j] = stash[j] PROVE Exists'
      BY <2>2, <2>4 DEF Exists, Trees
    <2>5. CASE tree = at /\ at' # at
      <3>1. CASE LockDirectory(i)
        BY <1>1, <2>2, <2>5, <3>1 DEF LockDirectory, Inv, Disk, Whole, TreeFiles, Files
      <3>2. CASE Away(i)
        <4>1. stash'[i] = at
          BY <2>0, <3>2 DEF Away
        <4> QED BY <2>2, <2>5, <4>1 DEF Exists, Trees
      <3>3. CASE In(i) \/ Restore(i)
        BY <1>1, <2>0, <2>2, <2>5, <3>3 DEF In, Restore, Inv, Locked
      <3>4. LockDirectory(i) \/ Away(i) \/ In(i) \/ Restore(i)
        BY <1>1, <2>5
        DEF Steps, Fails, Fail, Open, CheckDirectory, TryDirectory, MakeGate, TryGate,
            Compare, Copy, Scan, Stage, Tidy, Persist, End, Kill, disk
      <3> QED BY <3>1, <3>2, <3>3, <3>4
    <2>6. ASSUME NEW j \in Installers, tree = stash[j], stash'[j] # stash[j] PROVE Exists'
      <3>1. j = i /\ stash[i] # NoTree
        BY <2>0, <2>1, <2>2, <2>6 DEF Others
      <3>2. pc[i] \in {"in", "restore", "tidy", "killed"}
        BY <1>1, <3>1 DEF Inv, Disk
      <3>3. Restore(i) \/ Tidy(i)
        BY <1>1, <2>6, <3>1, <3>2
        DEF Steps, Fails, Fail, Open, CheckDirectory, LockDirectory, TryDirectory, MakeGate,
            TryGate, Compare, Copy, Scan, Stage, Away, In, Persist, End, Kill, disk, Active, Ended
      <3>4. CASE Restore(i)
        <4>1. at' = stash[i]
          BY <1>1, <3>4 DEF Restore, Restored, Inv, Locked
        <4> QED BY <2>2, <2>6, <3>1, <4>1 DEF Exists, Trees
      <3>5. CASE Tidy(i)
        <4>1. at' = at /\ at.version = id[i] /\ pc[i] = "tidy"
          BY <1>1, <3>5 DEF Tidy, Inv, Prepared
        <4>2. id[i] \in Versions
          BY <1>1, <4>1 DEF Inv, Looked, Active, Ended
        <4> QED BY <4>1, <4>2 DEF Exists, Trees
      <3> QED BY <3>3, <3>4, <3>5
    <2> QED BY <2>2, <2>3, <2>4, <2>5, <2>6 DEF Trees
  <1>2. ASSUME UNCHANGED <<at, stash>>, Exists PROVE Exists'
    BY <1>2 DEF Exists, Trees
  <1>3. Inv /\ [Next]_vars => [Exists /\ ~met => Exists']_vars
    <2>1. (\E a \in Apps : App(a)) \/ ReplaceSource => UNCHANGED <<at, stash>>
      BY DEF App, Start, Probe, PassGate, OpenGroup, Share, Bind, Exit, ReplaceSource, disk
    <2> QED BY <1>1, <1>2, <2>1, InstallerSteps DEF Next
  <1> QED BY <1>3, InvCorrect, PTL DEF Spec, InstallationKept

(* Without --force only an installation of the same package is replaced. *)
THEOREM OthersAreKept == Spec => NoForceKeeps
  <1>1. ASSUME Inv, [Next]_vars, package \notin {None, package'}
        PROVE  \E i \in Installers : Commits(i) /\ ask[i].force
    <2>1. PICK i \in Installers : ~Fail(i) /\ Persist(i)
      BY <1>1, WhoMoves
    <2>2. Commits(i)
      BY <1>1, <2>1 DEF Persist, Commits, Go, Inv, Shape, Processes
    <2>3. package' = id[i] /\ ~ask[i].same /\ mode = "native"
      BY <1>1, <2>1 DEF Persist, Inv, Phased, InNative
    <2>4. Permitted(i)
      BY <1>1, <2>1, <2>3 DEF Persist, Inv, Asked
    <2> QED BY <1>1, <2>2, <2>3, <2>4 DEF Permitted
  <1>2. ASSUME Inv, [Next]_vars, mode = "full", ~met, at.version # None, at' # at
        PROVE  \E i \in Installers : Active(i) /\ ask[i].force
    <2>1. PICK i \in Installers : LockDirectory(i) \/ Away(i) \/ In(i) \/ Restore(i)
      BY <1>2, WhoMoves
    <2>2. Active(i)
      BY <2>1 DEF LockDirectory, Away, In, Restore, Active, Ended
    <2>3. at # NoTree
      BY <1>2 DEF NoTree
    <2>4. pc[i] \notin {"in", "restore"}
      BY <1>2, <2>3 DEF Inv, Locked
    <2>5. ask[i].force
      <3>1. CASE LockDirectory(i)
        BY <1>2, <2>3, <3>1 DEF LockDirectory, Inv, Looked, MayReplaceTree, Empty
      <3>2. CASE Away(i)
        BY <1>2, <3>2 DEF Away, Inv, Looked
      <3> QED BY <2>1, <2>4, <3>1, <3>2 DEF In, Restore
    <2> QED BY <2>2, <2>5
  <1>3. Inv /\ [Next]_vars =>
          [/\ package \notin {None, package'} =>
                \E i \in Installers : Commits(i) /\ ask[i].force
           /\ mode = "full" /\ ~met /\ at.version # None /\ at' # at =>
                \E i \in Installers : Active(i) /\ ask[i].force]_vars
    BY <1>1, <1>2
  <1> QED BY <1>3, InvCorrect, PTL DEF Spec, NoForceKeeps
=============================================================================
