------------------------- MODULE NativeGroupsProofs -------------------------
(* What NativeGroups keeps for any number of processes, paths, calls and
   damages. *)
EXTENDS NativeGroups, TLAPS

Copying == {"compare", "fill", "remove", "rename"}
Looking == {"check", "convert", "ready"}

(* Which locks a process holds follows from where it stands. *)
HasLease(p) ==
  /\ pc[p] # "off" => p \in leases[Own(p)]
  /\ pc[p] \in Copying \cup {"peek"} /\ from[p] # NoPath => p \in leases[from[p]]

HasPreparation(p) ==
  \A a \in Paths :
    preparing[a] = p <=> a = Own(p) /\ pc[p] \in Preparing \ {"called"}

HasGroup(p) ==
  \A a \in Paths : owner[a] = p <=> a = Own(p) /\ pc[p] \in Owning

Shares(p) ==
  \A a \in Paths :
    p \in sharers[a] <=> \/ a = Own(p) /\ pc[p] \in Looking
                         \/ a = from[p] /\ pc[p] \in Copying

(* The candidates of a process are catalogued paths other than its own. *)
Candidates(p) ==
  /\ todo[p] \subseteq Indexable \ {Own(p)}
  /\ from[p] = NoPath \/ from[p] \in Indexable \ {Own(p)}
  /\ pc[p] \in {"reach", "peek", "compare"} => from[p] # NoPath
  /\ from[p] # NoPath => pc[p] \in Copying \cup {"reach", "peek"}

LockInv(p) ==
  HasLease(p) /\ HasPreparation(p) /\ HasGroup(p) /\ Shares(p) /\ Candidates(p)

Locked ==
  /\ Shape
  /\ LocksExclude
  /\ catalog \subseteq Indexable
  /\ \A p \in Procs : LockInv(p)

(* What is on disk, seen by a process: who is about to extract the group has
   found that it is not complete, and so it stays until it is put in place. *)
Seen(p) ==
  /\ pc[p] \in {"convert"} \cup (Owning \ {"downgrade"}) => ~Valid(Own(p))
  /\ pc[p] \in {"downgrade", "ready"} /\ damages = 0 => Valid(Own(p))

Inv == Locked /\ \A p \in Procs : Seen(p)

-----------------------------------------------------------------------------
LEMMA InitInv == Init => Inv
  <1> SUFFICES ASSUME Init PROVE Inv
    OBVIOUS
  <1> USE GroupsAssumption DEF GroupsAssumption, Init
  <1>1. Shape
    BY DEF Shape, Phases
  <1>2. LocksExclude
    BY DEF LocksExclude
  <1>3. ASSUME NEW p \in Procs PROVE LockInv(p)
    BY DEF LockInv, HasLease, HasPreparation, HasGroup, Shares, Candidates, Own,
           Preparing, Owning, Searching, Copying, Looking
  <1>4. ASSUME NEW p \in Procs PROVE Seen(p)
    BY DEF Seen, Owning, Searching
  <1> QED BY <1>1, <1>2, <1>3, <1>4 DEF Inv, Locked

LEMMA OpenShape ==
  ASSUME Locked, NEW p \in Procs,
         Open(p) \/ Index(p) \/ Call(p) \/ LockPreparation(p) \/ LockShared(p)
           \/ Check(p) \/ Convert(p)
  PROVE  Shape'
  <1> USE GroupsAssumption DEF GroupsAssumption, Locked, Shape, Goto, Own, Phases,
          Preparing, Owning, Searching, diskVars, lockVars, groupVars, searchVars
  <1>1. CASE Open(p)
    BY <1>1 DEF Open
  <1>2. CASE Index(p)
    BY <1>2 DEF Index
  <1>3. CASE Call(p)
    BY <1>3 DEF Call
  <1>4. CASE LockPreparation(p)
    BY <1>4 DEF LockPreparation
  <1>5. CASE LockShared(p)
    BY <1>5 DEF LockShared
  <1>6. CASE Check(p)
    BY <1>6 DEF Check, Dropped
  <1>7. CASE Convert(p)
    <2>1. CASE MayConvert(p)
      BY <1>7, <2>1 DEF Convert, Found
    <2>2. CASE ~MayConvert(p)
      BY <1>7, <2>2 DEF Convert, Dropped
    <2> QED BY <2>1, <2>2
  <1> QED BY <1>1, <1>2, <1>3, <1>4, <1>5, <1>6, <1>7

LEMMA SearchShape ==
  ASSUME Locked, NEW p \in Procs, Search(p)
  PROVE  Shape'
  <1> USE GroupsAssumption DEF GroupsAssumption, Locked, Shape, Goto, Own, Phases,
          Preparing, Owning, Searching, diskVars, lockVars, groupVars, searchVars
  <1>1. CASE Pick(p)
    <2>1. CASE todo[p] = {}
      BY <1>1, <2>1 DEF Pick
    <2>2. CASE todo[p] # {}
      <3>1. PICK b \in todo[p] : from' = [from EXCEPT ![p] = b]
        BY <1>1, <2>2 DEF Pick
      <3>2. pc' = [pc EXCEPT ![p] = "reach"] /\ todo' = [todo EXCEPT ![p] = @ \ {from'[p]}]
        BY <1>1, <2>2 DEF Pick
      <3>3. b \in Paths /\ todo' \in [Procs -> SUBSET Paths]
        BY <3>1, <3>2
      <3>4. from' \in [Procs -> Paths \cup {NoPath}]
        BY <3>1, <3>3
      <3> QED BY <1>1, <2>2, <3>2, <3>3, <3>4 DEF Pick
    <2> QED BY <2>1, <2>2
  <1>2. CASE LockGate(p)
    BY <1>2 DEF LockGate
  <1>3. CASE NoSuchGroup(p)
    BY <1>3 DEF NoSuchGroup, Reject, Dropped
  <1>4. CASE LockCandidate(p)
    BY <1>4 DEF LockCandidate
  <1>5. CASE Compare(p)
    <2>1. CASE Valid(from[p])
      BY <1>5, <2>1 DEF Compare, Dropped
    <2>2. CASE ~Valid(from[p])
      <3>1. gate' = Dropped(gate, p) /\ pc' = [pc EXCEPT ![p] = "search"]
        BY <1>5, <2>2 DEF Compare, Reject
      <3>2. gate' \in [Paths -> Procs \cup {NoProc}] /\ pc' \in [Procs -> Phases]
        BY <3>1 DEF Dropped
      <3>3. /\ leases' = [leases EXCEPT ![from[p]] = @ \ {p}]
            /\ sharers' = [sharers EXCEPT ![from[p]] = @ \ {p}]
            /\ from' = [from EXCEPT ![p] = NoPath]
            /\ UNCHANGED <<diskVars, preparing, owner, todo, calls, damages>>
        BY <1>5, <2>2 DEF Compare, Reject
      <3> QED BY <3>2, <3>3
    <2> QED BY <2>1, <2>2
  <1> QED BY <1>1, <1>2, <1>3, <1>4, <1>5 DEF Search

LEMMA PublishShape ==
  ASSUME Locked, NEW p \in Procs, Publish(p) \/ Fail(p)
  PROVE  Shape'
  <1> USE GroupsAssumption DEF GroupsAssumption, Locked, Shape, Goto, Own, Phases,
          Preparing, Owning, Searching, diskVars, lockVars, groupVars, searchVars
  <1>1. CASE Fill(p)
    BY <1>1 DEF Fill
  <1>2. CASE RemoveOld(p)
    BY <1>2 DEF RemoveOld
  <1>3. CASE Rename(p)
    BY <1>3 DEF Rename, Without
  <1>4. CASE Downgrade(p)
    BY <1>4 DEF Downgrade, Dropped
  <1>5. CASE Fail(p)
    BY <1>5 DEF Fail, Dropped, Without
  <1> QED BY <1>1, <1>2, <1>3, <1>4, <1>5 DEF Publish

LEMMA EndShape ==
  ASSUME Locked, NEW p \in Procs, Release(p) \/ Finish(p) \/ Kill(p)
  PROVE  Shape'
  <1> USE GroupsAssumption DEF GroupsAssumption, Locked, Shape, Goto, Own, Phases,
          Preparing, Owning, Searching, diskVars, lockVars, groupVars, searchVars
  <1>1. CASE Release(p)
    BY <1>1 DEF Release, Without
  <1>2. CASE Finish(p)
    BY <1>2 DEF Finish, Without
  <1>3. CASE Kill(p)
    BY <1>3 DEF Kill, Without, Dropped
  <1> QED BY <1>1, <1>2, <1>3

LEMMA DiskShape ==
  ASSUME Locked, NEW a \in Paths, Reclaim(a) \/ Damage(a)
  PROVE  Shape'
  <1> USE GroupsAssumption DEF GroupsAssumption, Locked, Shape, lockVars, searchVars
  <1>1. CASE Reclaim(a)
    BY <1>1 DEF Reclaim
  <1>2. CASE Damage(a)
    BY <1>2 DEF Damage
  <1> QED BY <1>1, <1>2

LEMMA OpenLocks ==
  ASSUME Locked, NEW p \in Procs, 
         Open(p) \/ Index(p) \/ Call(p) \/ LockPreparation(p) \/ LockShared(p)
           \/ Check(p) \/ Convert(p)
  PROVE  LocksExclude' /\ catalog' \subseteq Indexable /\ \A q \in Procs : LockInv(q)'
  <1> USE GroupsAssumption DEF GroupsAssumption, Locked, Shape, Goto, Own, Free,
          Preparing, Owning, Searching, Copying, Looking, LockInv, HasLease, HasPreparation,
          HasGroup, Shares, Candidates, LocksExclude,
          diskVars, lockVars, groupVars, searchVars
  <1>1. CASE Open(p)
    BY <1>1 DEF Open
  <1>2. CASE Index(p)
    BY <1>2 DEF Index
  <1>3. CASE Call(p)
    BY <1>3 DEF Call
  <1>4. CASE LockPreparation(p)
    BY <1>4 DEF LockPreparation
  <1>5. CASE LockShared(p)
    BY <1>5 DEF LockShared
  <1>6. CASE Check(p)
    <2>1. CASE Valid(Own(p))
      BY <1>6, <2>1 DEF Check, Dropped
    <2>2. CASE ~(Valid(Own(p)))
      BY <1>6, <2>2 DEF Check, Dropped
    <2> QED BY <2>1, <2>2
  <1>7. CASE Convert(p)
    <2>1. CASE MayConvert(p)
      BY <1>7, <2>1 DEF Convert, MayConvert, Dropped, Found
    <2>2. CASE ~(MayConvert(p))
      BY <1>7, <2>2 DEF Convert, MayConvert, Dropped, Found
    <2> QED BY <2>1, <2>2
  <1> QED BY <1>1, <1>2, <1>3, <1>4, <1>5, <1>6, <1>7

LEMMA SearchLocks ==
  ASSUME Locked, NEW p \in Procs, Search(p)
  PROVE  LocksExclude' /\ catalog' \subseteq Indexable /\ \A q \in Procs : LockInv(q)'
  <1> USE GroupsAssumption DEF GroupsAssumption, Locked, Shape, Goto, Own, Free,
          Preparing, Owning, Searching, Copying, Looking, LockInv, HasLease, HasPreparation,
          HasGroup, Shares, Candidates, LocksExclude,
          diskVars, lockVars, groupVars, searchVars
  <1>1. CASE Pick(p)
    <2>1. CASE todo[p] = {}
      BY <1>1, <2>1 DEF Pick
    <2>2. CASE ~(todo[p] = {})
      BY <1>1, <2>2 DEF Pick
    <2> QED BY <2>1, <2>2
  <1>2. CASE LockGate(p)
    BY <1>2 DEF LockGate
  <1>3. CASE NoSuchGroup(p)
    BY <1>3 DEF NoSuchGroup, Reject, Dropped
  <1>4. CASE LockCandidate(p)
    BY <1>4 DEF LockCandidate
  <1>5. CASE Compare(p)
    <2>1. CASE Valid(from[p])
      BY <1>5, <2>1 DEF Compare, Reject, Dropped
    <2>2. CASE ~(Valid(from[p]))
      BY <1>5, <2>2 DEF Compare, Reject, Dropped
    <2> QED BY <2>1, <2>2
  <1> QED BY <1>1, <1>2, <1>3, <1>4, <1>5 DEF Search

LEMMA PublishLocks ==
  ASSUME Locked, NEW p \in Procs, Publish(p) \/ Fail(p)
  PROVE  LocksExclude' /\ catalog' \subseteq Indexable /\ \A q \in Procs : LockInv(q)'
  <1> USE GroupsAssumption DEF GroupsAssumption, Locked, Shape, Goto, Own, Free,
          Preparing, Owning, Searching, Copying, Looking, LockInv, HasLease, HasPreparation,
          HasGroup, Shares, Candidates, LocksExclude,
          diskVars, lockVars, groupVars, searchVars
  <1>1. CASE Fill(p)
    BY <1>1 DEF Fill
  <1>2. CASE RemoveOld(p)
    BY <1>2 DEF RemoveOld
  <1>3. CASE Rename(p)
    BY <1>3 DEF Rename, Without, Candidate
  <1>4. CASE Downgrade(p)
    BY <1>4 DEF Downgrade, Dropped
  <1>5. CASE Fail(p)
    BY <1>5 DEF Fail, Dropped, Without, Candidate
  <1> QED BY <1>1, <1>2, <1>3, <1>4, <1>5 DEF Publish

LEMMA EndLocks ==
  ASSUME Locked, NEW p \in Procs, Release(p) \/ Finish(p) \/ Kill(p)
  PROVE  LocksExclude' /\ catalog' \subseteq Indexable /\ \A q \in Procs : LockInv(q)'
  <1> USE GroupsAssumption DEF GroupsAssumption, Locked, Shape, Goto, Own, Free,
          Preparing, Owning, Searching, Copying, Looking, LockInv, HasLease, HasPreparation,
          HasGroup, Shares, Candidates, LocksExclude,
          diskVars, lockVars, groupVars, searchVars
  <1>1. CASE Release(p)
    BY <1>1 DEF Release, Without
  <1>2. CASE Finish(p)
    BY <1>2 DEF Finish, Without
  <1>3. CASE Kill(p)
    BY <1>3 DEF Kill, Dropped, Without
  <1> QED BY <1>1, <1>2, <1>3

LEMMA DiskLocks ==
  ASSUME Locked, NEW a \in Paths, Reclaim(a) \/ Damage(a)
  PROVE  LocksExclude' /\ catalog' \subseteq Indexable /\ \A q \in Procs : LockInv(q)'
  <1>1. UNCHANGED <<lockVars, pc, searchVars>> /\ catalog' \subseteq catalog
    BY DEF Reclaim, Damage
  <1> QED BY <1>1 DEF Locked, LocksExclude, LockInv, HasLease, HasPreparation, HasGroup,
             Shares, Candidates, Own, lockVars, searchVars

LEMMA StepLocked == Locked /\ [Next]_vars => Locked'
  <1> SUFFICES ASSUME Locked, [Next]_vars PROVE Locked'
    OBVIOUS
  <1>1. ASSUME NEW p \in Procs,
               Open(p) \/ Index(p) \/ Call(p) \/ LockPreparation(p) \/ LockShared(p)
                 \/ Check(p) \/ Convert(p)
        PROVE  Locked'
    BY <1>1, OpenShape, OpenLocks DEF Locked
  <1>2. ASSUME NEW p \in Procs, Search(p) PROVE Locked'
    BY <1>2, SearchShape, SearchLocks DEF Locked
  <1>3. ASSUME NEW p \in Procs, Publish(p) \/ Fail(p) PROVE Locked'
    BY <1>3, PublishShape, PublishLocks DEF Locked
  <1>4. ASSUME NEW p \in Procs, Release(p) \/ Finish(p) \/ Kill(p) PROVE Locked'
    BY <1>4, EndShape, EndLocks DEF Locked
  <1>5. ASSUME NEW a \in Paths, Reclaim(a) \/ Damage(a) PROVE Locked'
    BY <1>5, DiskShape, DiskLocks DEF Locked
  <1>6. CASE UNCHANGED vars
    BY <1>6 DEF vars, diskVars, lockVars, searchVars, Locked, Shape, LocksExclude, LockInv,
            HasLease, HasPreparation, HasGroup, Shares, Candidates, Own
  <1> QED BY <1>1, <1>2, <1>3, <1>4, <1>5, <1>6 DEF Next, Prepare

-----------------------------------------------------------------------------
(* Who holds the group lock exclusively is the only one that has it, so nobody
   loads from that group or copies it. *)
LEMMA OwnerIsAlone ==
  ASSUME Locked, NEW p \in Procs, pc[p] \in Owning, NEW q \in Procs
  PROVE  ~UsesGroup(q, Own(p)) /\ (pc[q] \in Owning /\ Own(q) = Own(p) => q = p)
  <1> USE GroupsAssumption DEF GroupsAssumption
  <1>1. Own(p) \in Paths /\ owner[Own(p)] = p /\ p # NoProc
    BY DEF Locked, LockInv, HasGroup, Own
  <1>2. sharers[Own(p)] = {}
    BY <1>1 DEF Locked, LocksExclude
  <1>3. ~UsesGroup(q, Own(p))
    BY <1>1, <1>2 DEF UsesGroup, Locked, LockInv, Shares, Looking, Copying
  <1>4. pc[q] \in Owning /\ Own(q) = Own(p) => q = p
    BY <1>1 DEF Locked, LockInv, HasGroup
  <1> QED BY <1>3, <1>4

LEMMA UserHasLease ==
  ASSUME Locked, NEW q \in Procs, NEW a \in Paths, UsesGroup(q, a)
  PROVE  q \in leases[a]
  BY GroupsAssumption DEF GroupsAssumption, UsesGroup, Locked, LockInv, HasLease, Copying

(* Every step but Damage changes the disk as GroupStays demands. *)
LEMMA StepStays == Inv /\ [Next]_vars => GroupStays
  <1> SUFFICES ASSUME Inv, [Next]_vars,
                      NEW a \in Paths, disk'[a] # disk[a], damages' = damages
               PROVE  /\ \A q \in Procs : ~UsesGroup(q, a)
                      /\ Valid(a) => leases[a] = {}
    BY DEF GroupStays
  <1>1. ASSUME NEW p \in Procs, RemoveOld(p) \/ Rename(p)
        PROVE  a = Own(p) /\ pc[p] \in Owning \ {"downgrade"}
    BY <1>1 DEF RemoveOld, Rename, Owning, Searching, Inv, Locked, Shape
  <1>2. CASE \E p \in Procs : RemoveOld(p) \/ Rename(p)
    <2>1. PICK p \in Procs : RemoveOld(p) \/ Rename(p)
      BY <1>2
    <2>2. ~Valid(a)
      BY <1>1, <2>1 DEF Inv, Seen
    <2>3. ASSUME NEW q \in Procs PROVE ~UsesGroup(q, a)
      BY <1>1, <2>1, OwnerIsAlone DEF Inv
    <2> QED BY <2>2, <2>3
  <1>3. CASE \E b \in Paths : Reclaim(b)
    <2>1. leases[a] = {}
      BY <1>3 DEF Reclaim, Unused, Inv, Locked, Shape
    <2> QED BY <2>1, UserHasLease DEF Inv
  <1>4. CASE \E b \in Paths : Damage(b)
    BY <1>4 DEF Damage, Inv, Locked, Shape
  <1>5. CASE UNCHANGED vars
    BY <1>5 DEF vars, diskVars
  <1>6. CASE \E p \in Procs :
               \/ Open(p) \/ Index(p) \/ Call(p) \/ LockPreparation(p) \/ LockShared(p)
               \/ Check(p) \/ Convert(p) \/ Search(p) \/ Fill(p) \/ Downgrade(p)
               \/ Fail(p) \/ Release(p) \/ Finish(p) \/ Kill(p)
    BY <1>6 DEF Open, Index, Call, LockPreparation, LockShared, Check, Convert, Search, Pick,
            LockGate, NoSuchGroup, LockCandidate, Compare, Fill, Downgrade, Fail, Release,
            Finish, Kill, diskVars
  <1> QED BY <1>2, <1>3, <1>4, <1>5, <1>6 DEF Next, Prepare, Publish

(* What a process has seen on disk stays so. *)
LEMMA OpenSeen ==
  ASSUME Inv, NEW p \in Procs, UNCHANGED <<disk, damages>>, NEW q \in Procs,
         \/ q # p /\ pc'[q] = pc[q]
         \/ q = p /\ Check(p)
         \/ q = p /\ pc'[p] = pc[p]
         \/ q = p /\ pc'[p] \in Phases \ ({"convert", "ready"} \cup Owning)
         \/ q = p /\ pc[p] \in {"convert"} \cup (Owning \ {"downgrade"})
                /\ pc'[p] \in Owning \ {"downgrade"}
         \/ q = p /\ pc[p] = "downgrade" /\ pc'[p] = "ready"
  PROVE  Seen(q)'
  <1> USE DEF Inv, Seen, Valid, Owning, Searching, Own
  <1>1. CASE q = p /\ Check(p)
    BY <1>1 DEF Check, Goto, Locked, Shape
  <1>2. CASE pc'[q] = pc[q]
    BY <1>2
  <1>3. CASE q = p /\ pc'[p] \in Phases \ ({"convert", "ready"} \cup Owning)
    BY <1>3
  <1>4. CASE q = p /\ pc[p] \in {"convert"} \cup (Owning \ {"downgrade"})
               /\ pc'[p] \in Owning \ {"downgrade"}
    BY <1>4
  <1>5. CASE q = p /\ pc[p] = "downgrade" /\ pc'[p] = "ready"
    BY <1>5
  <1> QED BY <1>1, <1>2, <1>3, <1>4, <1>5

LEMMA StepSeen ==
  ASSUME Inv, [Next]_vars, NEW q \in Procs
  PROVE  Seen(q)'
  <1> USE GroupsAssumption DEF GroupsAssumption
  <1>0. Shape /\ Shape' /\ Locked'
    BY StepLocked DEF Inv, Locked
  <1>1. CASE \E p \in Procs : RemoveOld(p)
    <2>1. PICK p \in Procs : RemoveOld(p)
      BY <1>1
    <2>2. pc[p] \in Owning /\ Own(p) \in Paths
      BY <2>1 DEF RemoveOld, Owning, Own
    <2>3. CASE q = p
      BY <1>0, <2>1, <2>3 DEF RemoveOld, Goto, Shape, Seen, Owning, Searching, Valid, Own
    <2>4. CASE q # p /\ pc[q] = "ready"
      <3>1. Own(q) # Own(p)
        BY <2>2, <2>4, OwnerIsAlone DEF Inv, UsesGroup
      <3> QED BY <1>0, <2>1, <2>4, <3>1 DEF Inv, RemoveOld, Goto, Shape, Seen, Owning, Searching,
                 Valid, Own
    <2>5. CASE q # p /\ pc[q] # "ready"
      <3>1. pc[q] \in Owning => Own(q) # Own(p)
        BY <2>2, <2>5, OwnerIsAlone DEF Inv
      <3> QED BY <1>0, <2>1, <2>5, <3>1 DEF Inv, RemoveOld, Goto, Shape, Seen, Owning, Searching,
                 Valid, Own
    <2> QED BY <2>3, <2>4, <2>5
  <1>2. CASE \E p \in Procs : Rename(p)
    <2>1. PICK p \in Procs : Rename(p)
      BY <1>2
    <2>2. Own(p) \in Paths /\ pc[p] = "rename"
      BY <2>1 DEF Rename, Own
    <2>3. CASE q = p
      BY <1>0, <2>1, <2>3 DEF Rename, Goto, Shape, Seen, Owning, Searching, Valid, Own
    <2>4. CASE q # p
      <3>1. pc[q] \in {"convert"} \cup Owning => Own(q) # Own(p)
        BY <2>2, <2>4 DEF Inv, Locked, LockInv, HasPreparation, Preparing, Owning, Searching
      <3> QED BY <1>0, <2>1, <2>4, <3>1 DEF Inv, Rename, Goto, Shape, Seen, Owning, Searching,
                 Valid, Own
    <2> QED BY <2>3, <2>4
  <1>3. CASE \E a \in Paths : Reclaim(a)
    <2>1. PICK a \in Paths : Reclaim(a)
      BY <1>3
    <2>2. pc[q] # "off" => Own(q) # a
      BY <2>1 DEF Reclaim, Unused, Inv, Locked, LockInv, HasLease
    <2> QED BY <1>0, <2>1, <2>2 DEF Inv, Reclaim, Shape, Seen, Owning, Searching, Valid, Own
  <1>4. CASE \E a \in Paths : Damage(a)
    BY <1>0, <1>4 DEF Inv, Damage, Shape, Seen, Owning, Searching, Valid, Own
  <1>5. CASE UNCHANGED vars
    BY <1>5 DEF vars, diskVars, Inv, Seen, Valid, Own
  <1>6. CASE \E p \in Procs :
               \/ Open(p) \/ Index(p) \/ Call(p) \/ LockPreparation(p) \/ LockShared(p)
               \/ Check(p) \/ Convert(p)
    <2> USE DEF Goto, diskVars, Inv, Shape, Owning, Searching, Phases, Preparing
    <2>1. PICK p \in Procs :
             \/ Open(p) \/ Index(p) \/ Call(p) \/ LockPreparation(p) \/ LockShared(p)
             \/ Check(p) \/ Convert(p)
      BY <1>6
    <2>2. CASE Open(p) \/ Index(p) \/ Call(p) \/ LockPreparation(p) \/ LockShared(p)
      <3>1. UNCHANGED <<disk, damages>> /\ (q # p => pc'[q] = pc[q])
        BY <1>0, <2>2 DEF Open, Index, Call, LockPreparation, LockShared
      <3>2. pc'[p] = pc[p] \/ pc'[p] \in {"open", "called", "prepare", "check"}
        BY <1>0, <2>2 DEF Open, Index, Call, LockPreparation, LockShared
      <3> QED BY <3>1, <3>2, OpenSeen
    <2>3. CASE Check(p)
      BY <1>0, <2>3, OpenSeen DEF Check
    <2>4. CASE Convert(p)
      BY <1>0, <2>4, OpenSeen DEF Convert
    <2> QED BY <2>1, <2>2, <2>3, <2>4
  <1>7. CASE \E p \in Procs : Search(p) \/ Fill(p) \/ Downgrade(p)
    <2> USE DEF Goto, diskVars, Inv, Shape, Owning, Searching, Phases, Preparing
    <2>1. PICK p \in Procs : Search(p) \/ Fill(p) \/ Downgrade(p)
      BY <1>7
    <2>2. CASE Search(p)
      <3>1. CASE Pick(p)
        BY <1>0, <3>1, OpenSeen DEF Pick
      <3>2. CASE LockGate(p) \/ LockCandidate(p)
        BY <1>0, <3>2, OpenSeen DEF LockGate, LockCandidate
      <3>3. CASE NoSuchGroup(p)
        BY <1>0, <3>3, OpenSeen DEF NoSuchGroup, Reject
      <3>4. CASE Compare(p)
        BY <1>0, <3>4, OpenSeen DEF Compare, Reject
      <3> QED BY <2>2, <3>1, <3>2, <3>3, <3>4 DEF Search
    <2>3. CASE Fill(p) \/ Downgrade(p)
      BY <1>0, <2>3, OpenSeen DEF Fill, Downgrade
    <2> QED BY <2>1, <2>2, <2>3
  <1>8. CASE \E p \in Procs : Fail(p) \/ Release(p) \/ Finish(p) \/ Kill(p)
    <2> USE DEF Goto, diskVars, Inv, Shape, Owning, Searching, Phases, Preparing
    <2>1. PICK p \in Procs : Fail(p) \/ Release(p) \/ Finish(p) \/ Kill(p)
      BY <1>8
    <2>2. UNCHANGED <<disk, damages>> /\ (q # p => pc'[q] = pc[q]) /\ pc'[p] \in {"off", "open"}
      BY <1>0, <2>1 DEF Fail, Release, Finish, Kill
    <2> QED BY <2>2, OpenSeen
  <1> QED BY <1>1, <1>2, <1>3, <1>4, <1>5, <1>6, <1>7, <1>8 DEF Next, Prepare, Publish

LEMMA InvHolds == Spec => []Inv
  <1>1. Inv /\ [Next]_vars => Inv'
    BY StepLocked, StepSeen DEF Inv
  <1> QED BY InitInv, <1>1, PTL DEF Spec

-----------------------------------------------------------------------------
(* For every instance: every variable stays in its domain, and the process that
   extracts a group has its lock alone. *)
THEOREM TypeCorrect == Spec => []TypeOK
  <1>1. Inv => TypeOK
    BY DEF Inv, Locked, TypeOK
  <1> QED BY <1>1, InvHolds, PTL

(* A process that loads native code finds the whole group, unless files were
   lost on disk. *)
THEOREM ReadyGroupsAreComplete == Spec => []ReadyIsComplete
  <1>1. Inv => ReadyIsComplete
    BY DEF Inv, Seen, ReadyIsComplete
  <1> QED BY <1>1, InvHolds, PTL

(* No process replaces or removes a group that another one loads from or
   copies, and none extracts a complete group again. *)
THEOREM UsedGroupsStay == Spec => GroupsStay
  <1>1. Inv /\ [Next]_vars => [GroupStays]_vars
    BY StepStays
  <1> QED BY <1>1, InvHolds, PTL DEF Spec, GroupsStay

(* Two processes wait for each other only if two paths with the same content
   are in the catalog: with one, the wait has a direction. *)
THEOREM OneCataloguedPath ==
  ASSUME \A a, b \in Indexable : a = b
  PROVE  Spec => []NoMutualWait
  <1>1. ASSUME Inv, NEW p \in Procs, NEW q \in Procs, WaitsFor(p, q), WaitsFor(q, p)
        PROVE  FALSE
    <2>1. from[p] \in Indexable /\ from[q] \in Indexable /\ from[q] # Own(q)
      BY <1>1, GroupsAssumption DEF GroupsAssumption, WaitsFor, Inv, Locked, LockInv, Candidates
    <2>2. from[p] = Own(q)
      BY <1>1, <2>1, GroupsAssumption
      DEF GroupsAssumption, WaitsFor, Inv, Locked, LockInv, HasGroup
    <2> QED BY <2>1, <2>2
  <1>2. Inv => NoMutualWait
    BY <1>1 DEF NoMutualWait
  <1> QED BY <1>2, InvHolds, PTL
=============================================================================
