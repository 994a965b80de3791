-------------------------- MODULE GenerationsProofs --------------------------
(* What Generations keeps for any number of processes, versions, replacements
   of the package and kills, and that it keeps it, with the compiled code in
   the generations, as part of CompileCaches. *)
EXTENDS CompileCaches, TLAPS

-----------------------------------------------------------------------------
(* The shape of the state, the gate included: the phases under it belong to
   the process that holds it. *)

GateInv == \A p \in Procs : pc[p] \in Gated <=> gate = p

Typed == Shape /\ GateInv

LEMMA OwnContent == ASSUME Shape, NEW p \in Procs PROVE Own(p) \in Contents
  BY GenerationsAssumption DEF GenerationsAssumption, Shape, Own

LEMMA InitTyped == Init => Typed
  <1> SUFFICES ASSUME Init PROVE Typed
    OBVIOUS
  <1>1. Shape
    BY GenerationsAssumption DEF GenerationsAssumption, Init, Shape, Phases
  <1>2. GateInv
    BY GenerationsAssumption DEF GenerationsAssumption, Init, GateInv, Gated
  <1> QED BY <1>1, <1>2 DEF Typed

LEMMA OpenTyped ==
  ASSUME Typed, NEW p \in Procs, OpenPackage(p) \/ LockGate(p) \/ Open(p)
  PROVE  Typed'
  <1> USE GenerationsAssumption DEF GenerationsAssumption, Typed, Shape, GateInv, Goto,
          Phases, Gated, diskVars, leaseVars
  <1>0. Own(p) \in Contents /\ \A c : Old(c) \in SUBSET Contents
    BY OwnContent DEF Old
  <1>1. CASE OpenPackage(p)
    BY <1>1 DEF OpenPackage
  <1>2. CASE LockGate(p)
    BY <1>2 DEF LockGate
  <1>3. CASE TakeLease(p)
    <2>1. Goto(p, "idle") \/ Goto(p, "busy")
      BY <1>3 DEF TakeLease
    <2> QED BY <1>0, <1>3, <2>1 DEF TakeLease
  <1>4. CASE MakeDirectory(p) \/ WriteReceipt(p)
    <2>1. CASE MakeDirectory(p)
      <3>1. temps' \subseteq Contents \X Procs
        BY <2>1 DEF MakeDirectory
      <3> QED BY <1>0, <2>1, <3>1 DEF MakeDirectory
    <2>2. CASE WriteReceipt(p)
      BY <1>0, <2>2 DEF WriteReceipt
    <2> QED BY <1>4, <2>1, <2>2
  <1>5. CASE CompareStamp(p)
    <2>1. CASE IsSource(p) /\ current # Own(p)
      BY <1>5, <2>1 DEF CompareStamp
    <2>2. CASE ~(IsSource(p) /\ current # Own(p))
      <3>1. todo' = [todo EXCEPT ![p] = Old(current)] /\ Goto(p, "collect")
        BY <1>5, <2>2 DEF CompareStamp
      <3>2. todo' \in [Procs -> SUBSET Contents]
        BY <1>0, <3>1
      <3> QED BY <1>5, <3>1, <3>2 DEF CompareStamp
    <2> QED BY <2>1, <2>2
  <1>6. CASE Publish(p)
    BY <1>0, <1>6 DEF Publish
  <1> QED BY <1>1, <1>2, <1>3, <1>4, <1>5, <1>6 DEF Open

LEMMA UseTyped ==
  ASSUME Typed, NEW p \in Procs,
         Collect(p) \/ BeginWrite(p) \/ EndWrite(p) \/ Finish(p) \/ Sweep(p)
  PROVE  Typed'
  <1> USE GenerationsAssumption DEF GenerationsAssumption, Typed, Shape, GateInv, Goto,
          Phases, Gated, diskVars, leaseVars
  <1>0. Own(p) \in Contents /\ \A c : Old(c) \in SUBSET Contents
    BY OwnContent DEF Old
  <1>1. ASSUME NEW id \in Contents, Try(p, id) PROVE Typed'
    <2>1. /\ held' \in [Procs -> SUBSET Contents]
          /\ todo' \in [Procs -> SUBSET Contents]
          /\ receipts' \subseteq Contents
      <3>1. CASE Free(id)
        BY <1>1, <3>1 DEF Try
      <3>2. CASE ~Free(id)
        <4>1. todo' = [todo EXCEPT ![p] = todo[p] \ {id}]
          BY <1>1, <3>2 DEF Try
        <4>2. todo' \in [Procs -> SUBSET Contents]
          BY <4>1
        <4>3. held' = held /\ receipts' = receipts
          BY <1>1, <3>2 DEF Try
        <4> QED BY <4>2, <4>3
      <3> QED BY <3>1, <3>2
    <2> QED BY <1>1, <2>1 DEF Try
  <1>2. ASSUME NEW id \in Contents, Remove(p, id) PROVE Typed'
    <2>1. linked' \in [Procs -> BOOLEAN]
      BY <1>2 DEF Remove
    <2>2. temps' \subseteq Contents \X Procs
      BY <1>2 DEF Remove
    <2> QED BY <1>2, <2>1, <2>2 DEF Remove
  <1>3. CASE Unlock(p)
    BY <1>3 DEF Unlock
  <1>4. CASE BeginWrite(p)
    BY <1>0, <1>4 DEF BeginWrite
  <1>5. CASE EndWrite(p)
    BY <1>5 DEF EndWrite
  <1>6. CASE Finish(p)
    BY <1>6 DEF Finish
  <1>7. CASE Sweep(p)
    <2>1. CASE gate = NoProc
      <3>1. todo' = [todo EXCEPT ![p] = Old(current)] /\ Goto(p, "sweep") /\ gate' = p
        BY <1>7, <2>1 DEF Sweep
      <3>2. todo' \in [Procs -> SUBSET Contents]
        BY <1>0, <3>1
      <3>3. UNCHANGED <<source, diskVars, stamp, leaseVars, held, kills>>
        BY <1>7 DEF Sweep
      <3> QED BY <2>1, <3>1, <3>2, <3>3
    <2>2. CASE gate # NoProc
      BY <1>7, <2>2 DEF Sweep
    <2> QED BY <2>1, <2>2
  <1> QED BY <1>1, <1>2, <1>3, <1>4, <1>5, <1>6, <1>7 DEF Collect

LEMMA CleanTyped ==
  ASSUME Typed, NEW p \in Procs, List(p) \/ CleanUp(p) \/ Kill(p)
  PROVE  Typed'
  <1> USE GenerationsAssumption DEF GenerationsAssumption, Typed, Shape, GateInv, Goto,
          Phases, Gated, diskVars, leaseVars
  <1>1. CASE List(p)
    BY <1>1 DEF List
  <1>2. CASE TryAll(p)
    <2>1. CASE Active(p)
      BY <1>2, <2>1 DEF TryAll
    <2>2. CASE ~Active(p)
      <3>1. held' = [held EXCEPT ![p] = dirs] /\ dirs \in SUBSET Contents
        BY <1>2, <2>2 DEF TryAll
      <3>2. held' \in [Procs -> SUBSET Contents]
        BY <3>1
      <3>3. /\ gate = NoProc /\ gate' = p /\ Goto(p, "clean")
            /\ names' = names \cup dirs
            /\ UNCHANGED <<source, current, dirs, receipts, temps, stamp, leaseVars, todo,
                           kills>>
        BY <1>2, <2>2 DEF TryAll
      <3> QED BY <3>2, <3>3
    <2> QED BY <2>1, <2>2
  <1>3. ASSUME NEW id \in Contents, Clean(p, id) PROVE Typed'
    BY <1>3 DEF Clean
  <1>4. CASE Cleaned(p)
    BY <1>4 DEF Cleaned
  <1>5. CASE Kill(p)
    BY <1>5 DEF Kill
  <1> QED BY <1>1, <1>2, <1>3, <1>4, <1>5 DEF CleanUp

LEMMA ReplaceTyped == Typed /\ Replace => Typed'
  BY GenerationsAssumption
     DEF GenerationsAssumption, Typed, Shape, GateInv, Replace, diskVars, leaseVars

LEMMA TypedCorrect == Spec => []Typed
  <1>1. Typed /\ [Next]_vars => Typed'
    <2> SUFFICES ASSUME Typed, [Next]_vars PROVE Typed'
      OBVIOUS
    <2>1. CASE UNCHANGED vars
      BY <2>1 DEF Typed, Shape, GateInv, vars, diskVars, leaseVars
    <2>2. CASE Next
      BY <2>2, ReplaceTyped, OpenTyped, UseTyped, CleanTyped DEF Next
    <2> QED BY <2>1, <2>2
  <1> QED BY <1>1, InitTyped, PTL DEF Spec

-----------------------------------------------------------------------------
(* What the lease protects.  A process holds it, under the name others look
   for, from the moment it takes it to the moment it gives it back; whatever
   it has put in its generation since is still there. *)

Holding == {"idle", "busy", "receipt", "stamp", "publish", "collect", "use", "write"}

Leased(p) ==
  /\ pc[p] \in Holding => lease[p] = Own(p) /\ linked[p] /\ Own(p) \in names
  /\ pc[p] \notin Holding => lease[p] = NoContent /\ ~linked[p]
  /\ pc[p] \in Holding \ {"idle", "busy"} => Own(p) \in dirs
  /\ pc[p] \in Holding \ {"idle", "busy", "receipt"} => Own(p) \in receipts
  /\ pc[p] = "write" => <<Own(p), p>> \in temps
  /\ pc[p] = "idle" => \A q \in Procs \ {p} : linked[q] => lease[q] # Own(p)

LeaseInv == \A p \in Procs : Leased(p)

(* What is locked to be removed, and that it is nobody's. *)
Removing(p) ==
  /\ held[p] # {} => pc[p] \in {"collect", "sweep", "clean"}
  /\ \A q \in Procs : lease[q] \in held[p] => ~linked[q]
  /\ pc[p] = "clean" => \A q \in Procs : ~linked[q]
  /\ pc[p] # "clean" => held[p] \cap receipts = {} /\ held[p] \subseteq todo[p]

HeldInv == receipts \subseteq dirs /\ \A p \in Procs : Removing(p)

(* Who publishes is at least as new as whoever is at work. *)
Current(p) ==
  /\ stamp[p] = source /\ pc[p] \in {"collect", "use", "write"} => current = Own(p)
  /\ pc[p] = "publish" => \A q \in Procs : pc[q] \in Using => stamp[q] <= stamp[p]

CurrentInv == \A p \in Procs : Current(p)

Inv == Typed /\ LeaseInv /\ HeldInv /\ CurrentInv

LEMMA InitInv == Init => Inv
  <1> SUFFICES ASSUME Init PROVE Inv
    OBVIOUS
  <1>1. LeaseInv /\ HeldInv /\ CurrentInv
    BY DEF Init, LeaseInv, Leased, HeldInv, Removing, CurrentInv, Current, Holding, Using
  <1> QED BY <1>1, InitTyped DEF Inv

LEMMA OpenLeased ==
  ASSUME Inv, NEW p \in Procs, OpenPackage(p) \/ LockGate(p) \/ Open(p), NEW q \in Procs
  PROVE  Leased(q)'
  <1> USE DEF Inv, Typed, Shape, LeaseInv, Leased, Holding, Goto, Own, diskVars, leaseVars
  <1>1. CASE OpenPackage(p)
    BY <1>1 DEF OpenPackage
  <1>2. CASE LockGate(p)
    BY <1>2 DEF LockGate
  <1>3. CASE TakeLease(p)
    <2>1. CASE Quiet(Own(p))
      <3>1. Goto(p, "idle") /\ \A r \in Procs : linked[r] => lease[r] # Own(p)
        BY <1>3, <2>1 DEF TakeLease, Quiet, Locked, InUse
      <3>2. pc[q] # "idle"
        BY <1>3 DEF TakeLease, GateInv, Gated
      <3> QED BY <1>3, <3>1, <3>2 DEF TakeLease
    <2>2. CASE ~Quiet(Own(p))
      <3>1. Goto(p, "busy")
        BY <1>3, <2>2 DEF TakeLease
      <3>2. pc[q] # "idle"
        BY <1>3 DEF TakeLease, GateInv, Gated
      <3> QED BY <1>3, <3>1, <3>2 DEF TakeLease
    <2> QED BY <2>1, <2>2
  <1>4. CASE MakeDirectory(p)
    <2>1. pc[q] = "write" => <<Own(q), q>> \in temps'
      <3>1. pc[q] = "write" => q # p /\ <<Own(q), q>> \in temps
        BY <1>4 DEF MakeDirectory
      <3>2. pc[q] = "write" /\ pc[p] = "idle" => Own(q) # Own(p)
        <4> SUFFICES ASSUME pc[q] = "write", pc[p] = "idle" PROVE Own(q) # Own(p)
          OBVIOUS
        <4>1. lease[q] = Own(q) /\ linked[q]
          OBVIOUS
        <4>2. linked[q] => lease[q] # Own(p)
          BY <3>1
        <4> QED BY <4>1, <4>2
      <3> QED BY <1>4, <3>1, <3>2 DEF MakeDirectory, Of
    <2> QED BY <1>4, <2>1 DEF MakeDirectory
  <1>5. CASE WriteReceipt(p)
    BY <1>5 DEF WriteReceipt
  <1>6. CASE CompareStamp(p)
    <2>1. Goto(p, "publish") \/ Goto(p, "collect")
      BY <1>6 DEF CompareStamp
    <2> QED BY <1>6, <2>1 DEF CompareStamp
  <1>7. CASE Publish(p)
    BY <1>7 DEF Publish
  <1> QED BY <1>1, <1>2, <1>3, <1>4, <1>5, <1>6, <1>7 DEF Open

LEMMA UseLeased ==
  ASSUME Inv, NEW p \in Procs, NEW q \in Procs,
         Collect(p) \/ BeginWrite(p) \/ EndWrite(p) \/ Finish(p) \/ Sweep(p)
  PROVE  Leased(q)'
  <1> USE DEF Inv, Typed, Shape, LeaseInv, Leased, Holding, Goto, Own, diskVars, leaseVars
  <1>1. ASSUME NEW id \in Contents, Try(p, id) PROVE Leased(q)'
    <2>1. CASE Free(id)
      <3>0. \A r \in Procs : linked[r] => lease[r] # id
        BY <2>1 DEF Free, Locked, InUse
      <3>1. pc[q] \in Holding => Own(q) # id
        BY <3>0
      <3> QED BY <1>1, <2>1, <3>1 DEF Try
    <2>2. CASE ~Free(id)
      BY <1>1, <2>2 DEF Try
    <2> QED BY <2>1, <2>2
  <1>2. ASSUME NEW id \in Contents, Remove(p, id) PROVE Leased(q)'
    <2>0. linked[q] => lease[q] # id
      BY <1>2 DEF Remove, HeldInv, Removing
    <2>1. pc[q] \in Holding => Own(q) # id
      BY <2>0
    <2>2. pc[q] = "write" => <<Own(q), q>> \in temps'
      BY <1>2, <2>1 DEF Remove, Of
    <2>3. linked' = [r \in Procs |-> linked[r] /\ lease[r] # id]
      BY <1>2 DEF Remove
    <2>4. pc[q] \in Holding => linked'[q]
      BY <2>1, <2>3
    <2>5. \A r \in Procs : linked'[r] => linked[r]
      BY <2>3
    <2>6. UNCHANGED <<pc, stamp, lease, receipts>>
      BY <1>2 DEF Remove
    <2>7. /\ pc[q] \in Holding /\ Own(q) \in names => Own(q) \in names'
          /\ pc[q] \in Holding /\ Own(q) \in dirs => Own(q) \in dirs'
      BY <1>2, <2>1 DEF Remove
    <2>8. pc[q] = "idle" => \A r \in Procs \ {q} : linked'[r] => lease[r] # Own(q)
      BY <2>5
    <2>9. pc[q] \notin Holding => ~linked'[q]
      BY <2>5
    <2> QED BY <2>2, <2>4, <2>5, <2>6, <2>7, <2>8, <2>9
  <1>3. CASE Unlock(p)
    <2>1. /\ pc[p] = "collect" => Goto(p, "use")
          /\ pc[p] = "sweep" => Goto(p, "off")
          /\ pc[p] \in {"collect", "sweep"}
      BY <1>3 DEF Unlock
    <2> QED BY <1>3, <2>1 DEF Unlock
  <1>4. CASE BeginWrite(p)
    BY <1>4 DEF BeginWrite
  <1>5. CASE EndWrite(p)
    BY <1>5 DEF EndWrite
  <1>6. CASE Finish(p)
    BY <1>6 DEF Finish
  <1>7. CASE Sweep(p)
    <2>1. Goto(p, "sweep") \/ Goto(p, "off")
      BY <1>7 DEF Sweep
    <2> QED BY <1>7, <2>1 DEF Sweep
  <1> QED BY <1>1, <1>2, <1>3, <1>4, <1>5, <1>6, <1>7 DEF Collect

LEMMA CleanLeased ==
  ASSUME Inv, NEW p \in Procs, NEW q \in Procs, List(p) \/ CleanUp(p) \/ Kill(p)
  PROVE  Leased(q)'
  <1> USE DEF Inv, Typed, Shape, LeaseInv, Leased, Holding, Goto, Own, diskVars, leaseVars
  <1>1. CASE List(p)
    BY <1>1 DEF List
  <1>2. CASE TryAll(p)
    <2>1. Goto(p, "off") \/ Goto(p, "clean")
      BY <1>2 DEF TryAll
    <2> QED BY <1>2, <2>1 DEF TryAll
  <1>3. ASSUME NEW id \in Contents, Clean(p, id) PROVE Leased(q)'
    <2>1. ~linked[q]
      BY <1>3 DEF Clean, HeldInv, Removing
    <2>2. pc[q] \notin Holding
      BY <2>1
    <2> QED BY <1>3, <2>2 DEF Clean
  <1>4. CASE Cleaned(p)
    BY <1>4 DEF Cleaned
  <1>5. CASE Kill(p)
    BY <1>5 DEF Kill
  <1> QED BY <1>1, <1>2, <1>3, <1>4, <1>5 DEF CleanUp

LEMMA OpenRemoving ==
  ASSUME Inv, NEW p \in Procs, OpenPackage(p) \/ LockGate(p) \/ Open(p)
  PROVE  HeldInv'
  <1> USE DEF Inv, Typed, Shape, HeldInv, Removing, Goto, diskVars, leaseVars
  <1>1. CASE OpenPackage(p)
    BY <1>1 DEF OpenPackage
  <1>2. CASE LockGate(p)
    BY <1>2 DEF LockGate
  <1>3. CASE TakeLease(p)
    <2>1. Goto(p, "idle") \/ Goto(p, "busy")
      BY <1>3 DEF TakeLease
    <2>2. \A q \in Procs : pc[q] # "clean" /\ pc'[q] # "clean"
      BY <1>3, <2>1 DEF TakeLease, GateInv, Gated
    <2> QED BY <1>3, <2>1, <2>2 DEF TakeLease
  <1>4. CASE MakeDirectory(p)
    BY <1>4 DEF MakeDirectory, GateInv, Gated
  <1>5. CASE WriteReceipt(p)
    <2>1. Own(p) \in dirs
      BY <1>5 DEF WriteReceipt, LeaseInv, Leased, Holding
    <2>2. \A q \in Procs : held[q] = {} \/ pc[q] = "clean"
      BY <1>5 DEF WriteReceipt, GateInv, Gated
    <2> QED BY <1>5, <2>1, <2>2 DEF WriteReceipt
  <1>6. CASE CompareStamp(p)
    <2>1. Goto(p, "publish") \/ Goto(p, "collect")
      BY <1>6 DEF CompareStamp
    <2> QED BY <1>6, <2>1 DEF CompareStamp
  <1>7. CASE Publish(p)
    BY <1>7 DEF Publish
  <1> QED BY <1>1, <1>2, <1>3, <1>4, <1>5, <1>6, <1>7 DEF Open

LEMMA UseRemoving ==
  ASSUME Inv, NEW p \in Procs,
         Collect(p) \/ BeginWrite(p) \/ EndWrite(p) \/ Finish(p) \/ Sweep(p)
  PROVE  HeldInv'
  <1> USE DEF Inv, Typed, Shape, HeldInv, Removing, Goto, diskVars, leaseVars
  <1>1. ASSUME NEW id \in Contents, Try(p, id) PROVE HeldInv'
    <2>1. CASE Free(id)
      <3>1. \A q \in Procs : lease[q] = id => ~linked[q]
        BY <2>1 DEF Free, Locked, InUse
      <3>2. /\ held' = [held EXCEPT ![p] = {id}]
            /\ receipts' = receipts \ {id}
            /\ UNCHANGED <<dirs, pc, leaseVars, todo>>
            /\ pc[p] \in {"collect", "sweep"} /\ id \in todo[p]
        BY <1>1, <2>1 DEF Try
      <3>3. held'[p] = {id} /\ \A q \in Procs \ {p} : held'[q] = held[q]
        BY <3>2
      <3> QED BY <3>1, <3>2, <3>3
    <2>2. CASE ~Free(id)
      BY <1>1, <2>2 DEF Try
    <2> QED BY <2>1, <2>2
  <1>2. ASSUME NEW id \in Contents, Remove(p, id) PROVE HeldInv'
    <2>1. id \notin receipts
      BY <1>2 DEF Remove
    <2>2. /\ held' = [held EXCEPT ![p] = {}] /\ dirs' = dirs \ {id}
          /\ UNCHANGED <<pc, lease, receipts>>
          /\ pc[p] \in {"collect", "sweep"}
      BY <1>2 DEF Remove
    <2>3. \A r \in Procs : linked'[r] => linked[r]
      BY <1>2 DEF Remove
    <2>4. held'[p] = {} /\ \A q \in Procs \ {p} : held'[q] = held[q]
      BY <2>2
    <2>5. \A q \in Procs \ {p} : todo'[q] = todo[q]
      BY <1>2 DEF Remove
    <2> QED BY <2>1, <2>2, <2>3, <2>4, <2>5
  <1>3. CASE Unlock(p)
    <2>1. held[p] = {}
      BY <1>3 DEF Unlock
    <2> QED BY <1>3, <2>1 DEF Unlock
  <1>4. CASE BeginWrite(p)
    BY <1>4 DEF BeginWrite
  <1>5. CASE EndWrite(p)
    BY <1>5 DEF EndWrite
  <1>6. CASE Finish(p)
    BY <1>6 DEF Finish
  <1>7. CASE Sweep(p)
    <2>1. Goto(p, "sweep") \/ Goto(p, "off")
      BY <1>7 DEF Sweep
    <2> QED BY <1>7, <2>1 DEF Sweep
  <1> QED BY <1>1, <1>2, <1>3, <1>4, <1>5, <1>6, <1>7 DEF Collect

LEMMA CleanRemoving ==
  ASSUME Inv, NEW p \in Procs, List(p) \/ CleanUp(p) \/ Kill(p)
  PROVE  HeldInv'
  <1> USE DEF Inv, Typed, Shape, HeldInv, Removing, Goto, diskVars, leaseVars
  <1>1. CASE List(p)
    BY <1>1 DEF List
  <1>2. CASE TryAll(p)
    <2>1. CASE Active(p)
      BY <1>2, <2>1 DEF TryAll
    <2>2. CASE ~Active(p)
      <3>0. gate = NoProc /\ \A q \in Procs : lease[q] \in dirs => ~linked[q]
        BY <1>2, <2>2 DEF TryAll, Active, Locked, InUse
      <3>1. ASSUME NEW q \in Procs PROVE ~linked[q]
        <4>1. pc[q] \notin Gated
          BY <3>0, GenerationsAssumption DEF GenerationsAssumption, GateInv
        <4>2. pc[q] \in Holding => lease[q] = Own(q) /\ Own(q) \in dirs
          BY <4>1 DEF LeaseInv, Leased, Holding, Gated
        <4> QED BY <3>0, <4>2 DEF LeaseInv, Leased
      <3>2. /\ held' = [held EXCEPT ![p] = dirs]
            /\ pc' = [pc EXCEPT ![p] = "clean"]
            /\ UNCHANGED <<dirs, receipts, leaseVars, todo>>
        BY <1>2, <2>2 DEF TryAll
      <3>3. held'[p] = dirs /\ \A q \in Procs \ {p} : held'[q] = held[q]
        BY <3>2
      <3> QED BY <3>1, <3>2, <3>3
    <2> QED BY <2>1, <2>2
  <1>3. ASSUME NEW id \in Contents, Clean(p, id) PROVE HeldInv'
    BY <1>3 DEF Clean
  <1>4. CASE Cleaned(p)
    BY <1>4 DEF Cleaned
  <1>5. CASE Kill(p)
    BY <1>5 DEF Kill
  <1> QED BY <1>1, <1>2, <1>3, <1>4, <1>5 DEF CleanUp

LEMMA OpenCurrent ==
  ASSUME Inv, NEW p \in Procs, OpenPackage(p) \/ LockGate(p) \/ Open(p), NEW q \in Procs
  PROVE  Current(q)'
  <1> USE GenerationsAssumption
      DEF GenerationsAssumption, Inv, Typed, Shape, CurrentInv, Current, Using, Goto, Own,
          diskVars, leaseVars
  <1>1. CASE OpenPackage(p)
    BY <1>1 DEF OpenPackage
  <1>2. CASE LockGate(p)
    BY <1>2 DEF LockGate
  <1>3. CASE TakeLease(p)
    <2>1. Goto(p, "idle") \/ Goto(p, "busy")
      BY <1>3 DEF TakeLease
    <2> QED BY <1>3, <2>1 DEF TakeLease
  <1>4. CASE MakeDirectory(p)
    BY <1>4 DEF MakeDirectory
  <1>5. CASE WriteReceipt(p)
    BY <1>5 DEF WriteReceipt
  <1>6. CASE CompareStamp(p)
    <2>1. CASE IsSource(p) /\ current # Own(p)
      BY <1>6, <2>1 DEF CompareStamp, IsSource
    <2>2. CASE ~(IsSource(p) /\ current # Own(p))
      BY <1>6, <2>2 DEF CompareStamp, IsSource
    <2> QED BY <2>1, <2>2
  <1>7. CASE Publish(p)
    (* Only p is under the gate; one that uses the package now at the path has
       no newer version than p publishes, and so the same. *)
    <2>1. \A r \in Procs \ {p} : pc[r] \notin {"collect", "publish"}
      BY <1>7 DEF Publish, GateInv, Gated
    <2>2. ASSUME stamp[q] = source, pc[q] \in Using PROVE stamp[p] = stamp[q]
      BY <1>7, <2>2 DEF Publish
    <2> QED BY <1>7, <2>1, <2>2 DEF Publish
  <1> QED BY <1>1, <1>2, <1>3, <1>4, <1>5, <1>6, <1>7 DEF Open

LEMMA UseCurrent ==
  ASSUME Inv, NEW p \in Procs, NEW q \in Procs,
         Collect(p) \/ BeginWrite(p) \/ EndWrite(p) \/ Finish(p) \/ Sweep(p)
  PROVE  Current(q)'
  <1> USE DEF Inv, Typed, Shape, CurrentInv, Current, Using, Goto, Own, diskVars, leaseVars
  <1>1. ASSUME NEW id \in Contents, Try(p, id) PROVE Current(q)'
    BY <1>1 DEF Try
  <1>2. ASSUME NEW id \in Contents, Remove(p, id) PROVE Current(q)'
    BY <1>2 DEF Remove
  <1>3. CASE Unlock(p)
    <2>1. /\ pc[p] = "collect" => Goto(p, "use")
          /\ pc[p] = "sweep" => Goto(p, "off")
          /\ pc[p] \in {"collect", "sweep"}
      BY <1>3 DEF Unlock
    <2>2. \A r \in Procs : pc[r] # "publish"
      BY <1>3 DEF Unlock, GateInv, Gated
    <2> QED BY <1>3, <2>1, <2>2 DEF Unlock
  <1>4. CASE BeginWrite(p)
    BY <1>4 DEF BeginWrite
  <1>5. CASE EndWrite(p)
    BY <1>5 DEF EndWrite
  <1>6. CASE Finish(p)
    BY <1>6 DEF Finish
  <1>7. CASE Sweep(p)
    <2>1. Goto(p, "sweep") \/ Goto(p, "off")
      BY <1>7 DEF Sweep
    <2> QED BY <1>7, <2>1 DEF Sweep
  <1> QED BY <1>1, <1>2, <1>3, <1>4, <1>5, <1>6, <1>7 DEF Collect

LEMMA CleanCurrent ==
  ASSUME Inv, NEW p \in Procs, NEW q \in Procs, List(p) \/ CleanUp(p) \/ Kill(p)
  PROVE  Current(q)'
  <1> USE DEF Inv, Typed, Shape, CurrentInv, Current, Using, Goto, Own, diskVars, leaseVars
  <1>1. CASE List(p)
    BY <1>1 DEF List
  <1>2. CASE TryAll(p)
    <2>1. Goto(p, "off") \/ Goto(p, "clean")
      BY <1>2 DEF TryAll
    <2> QED BY <1>2, <2>1 DEF TryAll
  <1>3. ASSUME NEW id \in Contents, Clean(p, id) PROVE Current(q)'
    BY <1>3 DEF Clean
  <1>4. CASE Cleaned(p)
    BY <1>4 DEF Cleaned
  <1>5. CASE Kill(p)
    BY <1>5 DEF Kill
  <1> QED BY <1>1, <1>2, <1>3, <1>4, <1>5 DEF CleanUp

LEMMA ReplaceKeeps == Inv /\ Replace => Inv'
  <1> SUFFICES ASSUME Inv, Replace PROVE Inv'
    OBVIOUS
  <1>1. Typed'
    BY ReplaceTyped DEF Inv
  <1>2. LeaseInv' /\ HeldInv'
    BY DEF Inv, Replace, LeaseInv, Leased, HeldInv, Removing, Own, diskVars, leaseVars
  <1>3. CurrentInv'
    BY DEF Inv, Typed, Shape, Replace, CurrentInv, Current, Using, Own, diskVars, leaseVars
  <1> QED BY <1>1, <1>2, <1>3 DEF Inv

LEMMA StepKeeps ==
  ASSUME Inv, [Next]_vars
  PROVE  Inv'
  <1>1. CASE UNCHANGED vars
    BY <1>1 DEF Inv, Typed, Shape, GateInv, LeaseInv, Leased, HeldInv, Removing, CurrentInv,
                Current, Own, vars, diskVars, leaseVars
  <1>2. CASE Replace
    BY <1>2, ReplaceKeeps
  <1>3. ASSUME NEW p \in Procs, OpenPackage(p) \/ LockGate(p) \/ Open(p) PROVE Inv'
    BY <1>3, OpenTyped, OpenLeased, OpenRemoving, OpenCurrent DEF Inv, LeaseInv, CurrentInv
  <1>4. ASSUME NEW p \in Procs,
               Collect(p) \/ BeginWrite(p) \/ EndWrite(p) \/ Finish(p) \/ Sweep(p)
        PROVE  Inv'
    BY <1>4, UseTyped, UseLeased, UseRemoving, UseCurrent DEF Inv, LeaseInv, CurrentInv
  <1>5. ASSUME NEW p \in Procs, List(p) \/ CleanUp(p) \/ Kill(p) PROVE Inv'
    BY <1>5, CleanTyped, CleanLeased, CleanRemoving, CleanCurrent DEF Inv, LeaseInv, CurrentInv
  <1> QED BY <1>1, <1>2, <1>3, <1>4, <1>5 DEF Next

LEMMA InvCorrect == Spec => []Inv
  BY InitInv, StepKeeps, PTL DEF Spec

LEMMA InvSparesPath ==
  ASSUME Inv
  PROVE  CleansIdlePath
  <1> SUFFICES ASSUME NEW p \in Procs, NEW q \in Procs, pc[p] = "clean"
               PROVE  pc[q] \notin Using
    BY DEF CleansIdlePath
  <1>1. pc[q] \in Using => linked[q]
    BY DEF Inv, LeaseInv, Leased, Using, Holding
  <1>2. ~linked[q]
    BY DEF Inv, HeldInv, Removing
  <1> QED BY <1>1, <1>2

-----------------------------------------------------------------------------
(* Every variable stays in its domain, and a receipt lies in a directory. *)
THEOREM TypeCorrect == Spec => []TypeOK
  <1>1. Inv => TypeOK
    BY DEF Inv, Typed, HeldInv, TypeOK
  <1> QED BY <1>1, InvCorrect, PTL

(* A generation stays while a process uses it, whoever starts, ends, cleans or
   is killed meanwhile. *)
THEOREM UsedGenerationsStay == Spec => []InUseStays
  <1>1. Inv => InUseStays
    BY DEF Inv, LeaseInv, Leased, InUseStays, Using, Holding
  <1> QED BY <1>1, InvCorrect, PTL

(* No process removes a file that a live one is about to put in place. *)
THEOREM WritesAreSafe == Spec => []WritesSurvive
  <1>1. Inv => WritesSurvive
    BY DEF Inv, LeaseInv, Leased, WritesSurvive
  <1> QED BY <1>1, InvCorrect, PTL

(* An older package that is still open never becomes current again. *)
THEOREM NoRollBack == Spec => []CurrentIsSource
  <1>1. Inv => CurrentIsSource
    BY DEF Inv, CurrentInv, Current, CurrentIsSource, Using
  <1> QED BY <1>1, InvCorrect, PTL

(* Cleanup leaves a path alone of which any generation is in use. *)
THEOREM CleanIsSafe == Spec => CleanSparesPath
  <1>1. Inv => CleansIdlePath
    BY InvSparesPath
  <1> QED BY <1>1, InvCorrect, PTL DEF CleanSparesPath

-----------------------------------------------------------------------------
(* The compiled code.  A process whose threads have the cache open is in use
   of its generation, or has ended the use and not begun another. *)

CacheShape ==
  /\ caches \subseteq Contents \X Runtimes
  /\ newest \in [Contents -> Runtimes \cup {NoRuntime}]
  /\ staged \subseteq Contents \X Runtimes \X Procs
  /\ user \in [Procs -> {"none", "compiling", "ready", "holding", "storing"}]
  /\ named \in [Procs -> BOOLEAN]
  /\ slot \subseteq Procs /\ ended \subseteq Procs

Attended(p) ==
  /\ p \in ended => pc[p] \in {"off", "finish", "sweep"}
  /\ p \notin ended /\ pc[p] \notin Using => user[p] = "none"

(* CompiledStays for one process. *)
Kept(p) ==
  pc[p] \in Using /\ Holds(p) =>
    /\ named[p]
    /\ Mine(p) \in caches
    /\ user[p] = "storing" => Unfinished(p) \in staged

CacheInv == CacheShape /\ \A p \in Procs : Attended(p) /\ Kept(p)

SpecAll == InitAll /\ [][NextAll]_allVars

LEMMA InitAllInv == InitAll => Inv /\ CacheInv
  <1> SUFFICES ASSUME InitAll PROVE Inv /\ CacheInv
    OBVIOUS
  <1>1. Init => Inv
    BY InitInv
  <1>2. ASSUME Before PROVE Inv
    <2> USE GenerationsAssumption, <1>2 DEF GenerationsAssumption, Before
    <2>1. Shape
      BY DEF Shape, Phases
    <2>2. GateInv
      BY DEF GateInv, Gated
    <2>3. LeaseInv /\ HeldInv /\ CurrentInv
      BY DEF LeaseInv, Leased, HeldInv, Removing, CurrentInv, Current, Holding, Using
    <2> QED BY <2>1, <2>2, <2>3 DEF Inv, Typed
  <1>3. CacheShape
    BY DEF InitAll, CacheShape
  <1>4. ASSUME NEW p \in Procs PROVE Attended(p) /\ Kept(p)
    BY DEF InitAll, Attended, Kept, Holds
  <1> QED BY <1>1, <1>2, <1>3, <1>4 DEF InitAll, CacheInv

(* To the generations a step of CompileCaches is one of theirs, or makes a
   directory. *)
LEMMA RecreatedKeeps ==
  ASSUME Inv, NEW p \in Procs, Recreated(p)
  PROVE  Inv'
  <1>1. Own(p) \in Contents
    BY OwnContent DEF Inv, Typed
  <1>2. /\ dirs \subseteq dirs' /\ dirs' \subseteq dirs \cup {Own(p)}
        /\ UNCHANGED <<source, current, receipts, names, temps, gate, pc, stamp, lease, linked,
                       held, todo, kills>>
    BY DEF Recreated, leaseVars
  <1>3. Typed'
    BY <1>1, <1>2 DEF Inv, Typed, Shape, GateInv
  <1>4. LeaseInv'
    BY <1>2 DEF Inv, LeaseInv, Leased, Own
  <1>5. HeldInv'
    BY <1>2 DEF Inv, HeldInv, Removing
  <1>6. CurrentInv'
    BY <1>2 DEF Inv, CurrentInv, Current, Own
  <1> QED BY <1>3, <1>4, <1>5, <1>6 DEF Inv

LEMMA GenerationsStep ==
  ASSUME [NextAll]_allVars
  PROVE  [Next]_vars \/ \E p \in Procs : Recreated(p)
  <1>1. CASE UNCHANGED allVars
    BY <1>1 DEF allVars
  <1>2. CASE Replace /\ UNCHANGED cacheVars
    BY <1>2 DEF Next
  <1>3. ASSUME NEW p \in Procs, Begin(p) \/ Uses(p) \/ Working(p)
        PROVE  Next
    BY <1>3 DEF Begin, Uses, Working, Next
  <1>4. ASSUME NEW p \in Procs,
               LockCompile(p) \/ Compile(p) \/ Take(p) \/ BeginStore(p) \/ LetGo(p)
        PROVE  UNCHANGED vars \/ Recreated(p)
    BY <1>4 DEF LockCompile, Compile, Take, BeginStore, LetGo
  <1>5. ASSUME NEW p \in Procs, EndUse(p)
        PROVE  Next
    BY <1>5 DEF EndUse, Next
  <1>6. ASSUME NEW p \in Procs, Exit(p)
        PROVE  UNCHANGED vars
    BY <1>6 DEF Exit
  <1>7. ASSUME NEW p \in Procs, Kill(p) /\ Forgotten(p)
        PROVE  Next
    BY <1>7 DEF Next
  <1> QED BY <1>1, <1>2, <1>3, <1>4, <1>5, <1>6, <1>7 DEF NextAll

LEMMA GenerationsKept ==
  ASSUME Inv, [NextAll]_allVars
  PROVE  Inv'
  BY StepKeeps, RecreatedKeeps, GenerationsStep

(* What becomes of the compiled code when something is done to generations. *)
LEMMA FollowKeeps ==
  ASSUME Inv, Inv', CacheInv, NEW p \in Procs, Follow(p), UNCHANGED <<user, stamp>>,
         NEW q \in Procs, pc'[q] \in Using => pc[q] \in Using \/ user[q] = "none"
  PROVE  Kept(q)'
  <1> SUFFICES ASSUME pc'[q] \in Using, Holds(q)
               PROVE  /\ named'[q]
                      /\ Mine(q) \in caches'
                      /\ user[q] = "storing" => Unfinished(q) \in staged'
    BY DEF Kept, Holds, Mine, Unfinished, Own
  <1>1. Own(q) \in dirs'
    <2>1. Own(q)' \in dirs'
      BY DEF Inv, LeaseInv, Leased, Using, Holding
    <2> QED BY <2>1 DEF Own
  <1>2. pc[q] \in Using
    BY DEF Holds
  <1>3. pc[p] = "idle" => Own(q) # Own(p)
    <2>1. lease[q] = Own(q) /\ linked[q]
      BY <1>2 DEF Inv, LeaseInv, Leased, Using, Holding
    <2>2. pc[p] = "idle" => q # p
      BY <1>2 DEF Using
    <2> QED BY <2>1, <2>2 DEF Inv, LeaseInv, Leased
  <1>4. /\ named[q] /\ Mine(q) \in caches
        /\ user[q] = "storing" => Unfinished(q) \in staged
    BY <1>2 DEF CacheInv, Kept
  <1>5. named'[q]
    BY <1>1, <1>4 DEF Follow
  <1>6. Mine(q) \in caches'
    BY <1>1, <1>4 DEF Follow, Mine
  <1>7. user[q] = "storing" => Unfinished(q) \in staged'
    BY <1>1, <1>3, <1>4 DEF Follow, Unfinished
  <1> QED BY <1>5, <1>6, <1>7

LEMMA FollowShape ==
  ASSUME CacheShape, NEW p \in Procs, Follow(p), UNCHANGED <<user, slot, ended>>
  PROVE  CacheShape'
  BY DEF CacheShape, Follow

(* How a process moves in those steps. *)
LEMMA PhasesMove ==
  ASSUME Inv, NEW p \in Procs, Uses(p) \/ Working(p)
  PROVE  /\ \A q \in Procs \ {p} : pc'[q] = pc[q]
         /\ UNCHANGED stamp
         /\ \/ pc[p] \in Using /\ pc'[p] \in Using
            \/ pc[p] \in {"finish", "sweep"} /\ pc'[p] \in {"sweep", "off"}
            \/ pc[p] \in {"opened", "listed", "clean", "lease"} \cup Holding /\ pc[p] \notin Using
  <1> USE DEF Inv, Typed, Shape, Goto, Using, Holding
  <1>1. CASE LockGate(p) \/ BeginWrite(p) \/ EndWrite(p)
    BY <1>1 DEF LockGate, BeginWrite, EndWrite
  <1>2. CASE Sweep(p)
    <2>1. Goto(p, "sweep") \/ Goto(p, "off")
      BY <1>2 DEF Sweep
    <2> QED BY <1>2, <2>1 DEF Sweep
  <1>3. CASE TryAll(p)
    <2>1. Goto(p, "clean") \/ Goto(p, "off")
      BY <1>3 DEF TryAll
    <2> QED BY <1>3, <2>1 DEF TryAll
  <1>4. CASE (\E id \in Contents : Clean(p, id)) \/ Cleaned(p)
    BY <1>4 DEF Clean, Cleaned
  <1>5. CASE TakeLease(p)
    <2>1. Goto(p, "idle") \/ Goto(p, "busy")
      BY <1>5 DEF TakeLease
    <2> QED BY <1>5, <2>1 DEF TakeLease
  <1>6. CASE MakeDirectory(p) \/ WriteReceipt(p) \/ Publish(p)
    BY <1>6 DEF MakeDirectory, WriteReceipt, Publish
  <1>7. CASE CompareStamp(p)
    <2>1. Goto(p, "publish") \/ Goto(p, "collect")
      BY <1>7 DEF CompareStamp
    <2> QED BY <1>7, <2>1 DEF CompareStamp
  <1>8. CASE \E id \in Contents : Try(p, id) \/ Remove(p, id)
    BY <1>8 DEF Try, Remove
  <1>9. CASE Unlock(p)
    <2>1. /\ pc[p] = "collect" => Goto(p, "use")
          /\ pc[p] = "sweep" => Goto(p, "off")
          /\ pc[p] \in {"collect", "sweep"}
      BY <1>9 DEF Unlock
    <2> QED BY <1>9, <2>1 DEF Unlock
  <1> QED BY <1>1, <1>2, <1>3, <1>4, <1>5, <1>6, <1>7, <1>8, <1>9
          DEF Uses, Working, CleanUp, Open, Collect

LEMMA GatedCached ==
  ASSUME Inv, Inv', CacheInv, NEW p \in Procs, Uses(p) \/ Working(p)
  PROVE  CacheInv'
  <1>1. Follow(p) /\ UNCHANGED <<user, slot, ended>>
    BY DEF Uses, Working
  <1>2. CacheShape'
    BY <1>1, FollowShape DEF CacheInv
  <1>3. ASSUME NEW q \in Procs
        PROVE  Attended(q)' /\ Kept(q)'
    <2>1. /\ q # p => pc'[q] = pc[q]
          /\ UNCHANGED stamp
          /\ \/ pc[p] \in Using /\ pc'[p] \in Using
             \/ pc[p] \in {"finish", "sweep"} /\ pc'[p] \in {"sweep", "off"}
             \/ pc[p] \in {"opened", "listed", "clean", "lease"} \cup Holding /\ pc[p] \notin Using
      BY PhasesMove
    <2>2. Attended(q)
      BY DEF CacheInv
    <2>3. Attended(q)'
      BY <1>1, <2>1, <2>2 DEF Attended, Using, Holding
    <2>4. pc'[q] \in Using => pc[q] \in Using \/ user[q] = "none"
      BY <2>1, <2>2 DEF Attended, Using, Holding
    <2> QED BY <1>1, <2>1, <2>3, <2>4, FollowKeeps
  <1> QED BY <1>2, <1>3 DEF CacheInv

(* Threads: what one process takes out of the cache is not what another has
   locked. *)
LEMMA ThreadShape ==
  ASSUME Inv, CacheInv, NEW p \in Procs,
         LockCompile(p) \/ Compile(p) \/ Take(p) \/ BeginStore(p) \/ LetGo(p) \/ EndUse(p)
  PROVE  CacheShape'
  <1>0. /\ Own(p) \in Contents /\ Mine(p) \in Contents \X Runtimes /\ Runtime[p] \in Runtimes
        /\ Unfinished(p) \in Contents \X Runtimes \X Procs
        /\ \A old : Without(old) \in SUBSET staged
    BY OwnContent, CompileCachesAssumption
       DEF CompileCachesAssumption, Inv, Typed, Mine, Unfinished, Without
  <1> USE DEF CacheInv, CacheShape, Does
  <1>1. CASE LockCompile(p)
    BY <1>1 DEF LockCompile
  <1>2. CASE Compile(p)
    BY <1>0, <1>2 DEF Compile
  <1>3. CASE Take(p)
    BY <1>3 DEF Take
  <1>4. CASE BeginStore(p)
    BY <1>0, <1>4 DEF BeginStore
  <1>5. ASSUME Drop(p)
        PROVE  /\ caches' \subseteq caches /\ staged' \subseteq staged
               /\ user' = [user EXCEPT ![p] = "none"] /\ named' = [named EXCEPT ![p] = FALSE]
    BY <1>0, <1>5 DEF Drop
  <1>6. CASE LetGo(p)
    <2>1. CASE p \in slot
      BY <1>6, <2>1 DEF LetGo
    <2>2. CASE p \notin slot
      BY <1>5, <1>6, <2>2 DEF LetGo
    <2> QED BY <2>1, <2>2
  <1>7. CASE EndUse(p)
    <2>1. newest' = newest /\ slot' \subseteq slot /\ ended' \subseteq ended \cup {p}
      BY <1>7 DEF EndUse
    <2>2. CASE user[p] = "ready"
      BY <1>5, <1>7, <2>1, <2>2 DEF EndUse
    <2>3. CASE user[p] # "ready"
      BY <1>7, <2>1, <2>3 DEF EndUse
    <2> QED BY <2>2, <2>3
  <1> QED BY <1>1, <1>2, <1>3, <1>4, <1>6, <1>7

LEMMA RemovesNone ==
  ASSUME CacheInv, NEW p \in Procs, NEW q \in Procs \ {p}, pc[q] \in Using, Holds(q),
         NEW old, \E cur : old \subseteq Obsolete(p, cur)
  PROVE  /\ Mine(q) \in caches \ old
         /\ user[q] = "storing" => Unfinished(q) \in Without(old)
  <1>1. /\ named[q] /\ Mine(q) \in caches
        /\ user[q] = "storing" => Unfinished(q) \in staged
    BY DEF CacheInv, Kept
  <1>2. Mine(q) \notin old
    BY <1>1 DEF Obsolete, Unleased
  <1> QED BY <1>1, <1>2 DEF Without, Unfinished, Mine

LEMMA OthersKept ==
  ASSUME Inv, CacheInv, NEW p \in Procs, NEW q \in Procs \ {p},
         \/ LockCompile(p) \/ Compile(p) \/ Take(p) \/ BeginStore(p) \/ LetGo(p)
         \/ EndUse(p)
  PROVE  Attended(q)' /\ Kept(q)'
  <1>1. /\ pc'[q] = pc[q] /\ stamp' = stamp /\ user'[q] = user[q] /\ named'[q] = named[q]
        /\ q \in ended' <=> q \in ended
    <2> USE DEF CacheInv, CacheShape, Does, Recreated, vars, Inv, Typed, Shape
    <2>1. ASSUME Drop(p) PROVE user'[q] = user[q] /\ named'[q] = named[q]
      BY <2>1 DEF Drop
    <2>2. CASE LockCompile(p) \/ Compile(p) \/ Take(p) \/ BeginStore(p)
      BY <2>2 DEF LockCompile, Compile, Take, BeginStore
    <2>3. CASE LetGo(p)
      BY <2>1, <2>3 DEF LetGo
    <2>4. CASE EndUse(p)
      BY <2>1, <2>4 DEF EndUse, Finish, Goto
    <2> QED BY <2>2, <2>3, <2>4
  <1>2. Attended(q) /\ Kept(q)
    BY DEF CacheInv
  <1>3. Attended(q)'
    BY <1>1, <1>2 DEF Attended
  <1>4. ASSUME pc[q] \in Using, Holds(q)
        PROVE  Mine(q) \in caches' /\ (user[q] = "storing" => Unfinished(q) \in staged')
    <2>0. /\ Mine(q) \in caches
          /\ user[q] = "storing" => Unfinished(q) \in staged
          /\ Unfinished(q) # Unfinished(p)
      BY <1>2, <1>4 DEF Kept, Unfinished
    <2>1. ASSUME Drop(p)
          PROVE  Mine(q) \in caches' /\ (user[q] = "storing" => Unfinished(q) \in staged')
      <3> DEFINE old == IF GateFree(Own(p)) THEN Obsolete(p, newest[Own(p)]) ELSE {}
      <3>1. caches' = caches \ old /\ staged' = Without(old) \ {Unfinished(p)}
        BY <2>1 DEF Drop
      <3>2. \E cur : old \subseteq Obsolete(p, cur)
        OBVIOUS
      <3> HIDE DEF old
      <3> QED BY <1>4, <2>0, <3>1, <3>2, RemovesNone
    <2>2. CASE Compile(p)
      <3>1. /\ caches' = (caches \ Obsolete(p, Runtime[p])) \cup {Mine(p)}
            /\ staged' = Without(Obsolete(p, Runtime[p]))
        BY <2>2 DEF Compile
      <3> QED BY <1>4, <3>1, RemovesNone
    <2>3. CASE LockCompile(p) \/ Take(p) \/ BeginStore(p)
      BY <2>0, <2>3 DEF LockCompile, Take, BeginStore
    <2>4. CASE LetGo(p)
      BY <2>0, <2>1, <2>4 DEF LetGo
    <2>5. CASE EndUse(p)
      BY <2>0, <2>1, <2>5 DEF EndUse
    <2> QED BY <2>2, <2>3, <2>4, <2>5
  <1> QED BY <1>1, <1>2, <1>3, <1>4 DEF Kept, Holds, Mine, Unfinished, Own

LEMMA OwnKept ==
  ASSUME Inv, CacheInv, NEW p \in Procs,
         \/ LockCompile(p) \/ Compile(p) \/ Take(p) \/ BeginStore(p) \/ LetGo(p)
         \/ EndUse(p)
  PROVE  Attended(p)' /\ Kept(p)'
  <1>0. /\ Attended(p) /\ Kept(p) /\ named \in [Procs -> BOOLEAN]
        /\ user \in [Procs -> {"none", "compiling", "ready", "holding", "storing"}]
    BY DEF CacheInv, CacheShape
  <1> USE DEF Attended, Kept, Runs, Does, Recreated, vars, Mine, Unfinished, Own, Holds
  <1>1. CASE LockCompile(p)
    BY <1>0, <1>1 DEF LockCompile
  <1>2. CASE Compile(p)
    BY <1>0, <1>2 DEF Compile
  <1>3. CASE Take(p)
    BY <1>0, <1>3 DEF Take
  <1>4. CASE BeginStore(p)
    BY <1>0, <1>4 DEF BeginStore
  <1>5. CASE LetGo(p)
    <2>1. CASE p \in slot
      BY <1>0, <1>5, <2>1 DEF LetGo
    <2>2. CASE p \notin slot
      BY <1>0, <1>5, <2>2 DEF LetGo, Drop
    <2> QED BY <2>1, <2>2
  <1>6. CASE EndUse(p)
    <2>1. pc'[p] = "finish" /\ pc[p] \in Using
      BY <1>6 DEF EndUse, Finish, Goto, Inv, Typed, Shape, Using
    <2>2. CASE p \in Lingering
      BY <1>6, <2>1, <2>2 DEF EndUse, Using
    <2>3. CASE p \notin Lingering
      <3>1. user'[p] = "none"
        BY <1>0, <1>6, <2>3 DEF EndUse, Drop
      <3>2. p \notin ended'
        BY <1>0, <1>6, <2>1, <2>3 DEF EndUse, Using
      <3> QED BY <2>1, <3>1, <3>2 DEF Using
    <2> QED BY <2>2, <2>3
  <1> QED BY <1>1, <1>2, <1>3, <1>4, <1>5, <1>6

LEMMA LeaveCached ==
  ASSUME Inv, CacheInv, NEW p \in Procs,
         Begin(p) \/ Exit(p) \/ (Kill(p) /\ Forgotten(p))
  PROVE  CacheInv'
  <1>0. /\ CacheShape /\ \A q \in Procs : Attended(q) /\ Kept(q)
        /\ pc \in [Procs -> Phases] /\ stamp \in [Procs -> 1..source]
    BY DEF CacheInv, Inv, Typed, Shape
  <1>1. CASE Begin(p)
    <2>1. /\ UNCHANGED cacheVars /\ p \notin ended
          /\ pc[p] = "off" /\ pc'[p] \notin Using
          /\ \A q \in Procs \ {p} : pc'[q] = pc[q] /\ stamp'[q] = stamp[q]
      BY <1>0, <1>1 DEF Begin, OpenPackage, List, Goto, Using
    <2>2. CacheShape'
      BY <1>0, <2>1 DEF CacheShape, cacheVars
    <2>3. ASSUME NEW q \in Procs PROVE Attended(q)' /\ Kept(q)'
      BY <1>0, <2>1 DEF Attended, Kept, Holds, Mine, Unfinished, Own, cacheVars, Using
    <2> QED BY <2>2, <2>3 DEF CacheInv
  <1>2. CASE Exit(p) \/ (Kill(p) /\ Forgotten(p))
    <2>1. Forgotten(p) /\ pc'[p] = "off" /\ stamp' = stamp /\ \A q \in Procs \ {p} : pc'[q] = pc[q]
      BY <1>0, <1>2 DEF Exit, Kill, Goto, vars
    <2>2. CacheShape'
      BY <1>0, <2>1 DEF CacheShape, Forgotten, Does
    <2>3. /\ user'[p] = "none" /\ ended' = ended \ {p}
          /\ \A q \in Procs \ {p} : user'[q] = user[q] /\ named'[q] = named[q]
          /\ UNCHANGED <<caches, staged>>
      BY <1>0, <2>1 DEF CacheShape, Forgotten, Does
    <2>4. Attended(p)' /\ Kept(p)'
      BY <2>1, <2>3 DEF Attended, Kept, Using
    <2>5. ASSUME NEW q \in Procs \ {p} PROVE Attended(q)' /\ Kept(q)'
      <3>1. Attended(q) /\ Kept(q)
        BY <1>0
      <3>2. /\ pc'[q] = pc[q] /\ user'[q] = user[q] /\ named'[q] = named[q]
            /\ q \in ended' <=> q \in ended
        BY <2>1, <2>3
      <3>3. Attended(q)'
        BY <3>1, <3>2 DEF Attended
      <3>4. Kept(q)'
        BY <2>1, <2>3, <3>1, <3>2 DEF Kept, Holds, Mine, Unfinished, Own
      <3> QED BY <3>3, <3>4
    <2> QED BY <2>2, <2>4, <2>5 DEF CacheInv
  <1> QED BY <1>1, <1>2

LEMMA CacheKept ==
  ASSUME Inv, CacheInv, [NextAll]_allVars
  PROVE  CacheInv'
  <1>0. Inv'
    BY GenerationsKept
  <1>1. CASE UNCHANGED allVars \/ (Replace /\ UNCHANGED cacheVars)
    <2>1. UNCHANGED <<cacheVars, pc, stamp>>
      BY <1>1 DEF allVars, vars, Replace
    <2> QED BY <2>1 DEF CacheInv, CacheShape, Attended, Kept, Holds, Mine, Unfinished, Own,
                        cacheVars
  <1>2. ASSUME NEW p \in Procs, Begin(p) \/ Exit(p) \/ (Kill(p) /\ Forgotten(p))
        PROVE  CacheInv'
    BY <1>2, LeaveCached
  <1>3. ASSUME NEW p \in Procs, Uses(p) \/ Working(p)
        PROVE  CacheInv'
    BY <1>0, <1>3, GatedCached
  <1>4. ASSUME NEW p \in Procs,
               \/ LockCompile(p) \/ Compile(p) \/ Take(p) \/ BeginStore(p) \/ LetGo(p)
               \/ EndUse(p)
        PROVE  CacheInv'
    <2>1. CacheShape'
      BY <1>4, ThreadShape
    <2>2. Attended(p)' /\ Kept(p)'
      BY <1>4, OwnKept
    <2>3. ASSUME NEW q \in Procs \ {p} PROVE Attended(q)' /\ Kept(q)'
      BY <1>4, OthersKept
    <2> QED BY <2>1, <2>2, <2>3 DEF CacheInv
  <1> QED BY <1>1, <1>2, <1>3, <1>4 DEF NextAll

LEMMA AllCorrect == SpecAll => [](Inv /\ CacheInv)
  BY InitAllInv, GenerationsKept, CacheKept, PTL DEF SpecAll

LEMMA FairIsSpec == FairAll => SpecAll
  BY PTL DEF FairAll, SpecAll

-----------------------------------------------------------------------------
(* What the generations promise they promise beside the compiled code, whose
   threads recreate directories that were removed under them. *)
THEOREM GenerationsRemainSafe ==
  FairAll => /\ []TypeOK /\ []InUseStays /\ []WritesSurvive /\ []CurrentIsSource
             /\ CleanSparesPath
  <1>1. Inv => TypeOK /\ InUseStays /\ WritesSurvive /\ CurrentIsSource
    BY DEF Inv, Typed, HeldInv, LeaseInv, Leased, CurrentInv, Current, TypeOK, InUseStays,
           WritesSurvive, CurrentIsSource, Using, Holding
  <1>2. Inv => CleansIdlePath
    BY InvSparesPath
  <1> QED BY <1>1, <1>2, AllCorrect, FairIsSpec, PTL DEF CleanSparesPath

(* While a process uses its generation, its directory of compiled code, the
   lock on it and the file that it is storing there stay, whatever versions of
   the runtime open and drop theirs, and although threads go on after the use
   of their generation has ended (CompileCache, Generation::compile). *)
THEOREM CompiledCodeStays == FairAll => []CompiledStays
  <1>1. CacheInv => CompiledStays
    BY DEF CacheInv, Kept, CompiledStays
  <1> QED BY <1>1, AllCorrect, FairIsSpec, PTL
=============================================================================
