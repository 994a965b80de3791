----------------------------- MODULE EntryCache -----------------------------
(***************************************************************************)
(* The in-memory cache of decoded ZIP entries (crates/package/src/         *)
(* cache.rs): one decode at a time per entry, shared by every reader that  *)
(* arrives meanwhile (a flight), a byte-budgeted second-chance CLOCK over  *)
(* the decoded entries, and a limiter on the decodes under way.            *)
(*                                                                         *)
(* A step is one critical section of the code, or one iteration of the     *)
(* eviction loop, which takes the slot locks of its victims one at a time  *)
(* so that readers may hit them in between.  A thread asleep on a          *)
(* condition variable is in `parked' until a notification takes it out.    *)
(***************************************************************************)
EXTENDS Integers, Sequences, FiniteSets, FiniteSetsExt

CONSTANTS
  Threads,    \* the threads that call the cache
  Slots,      \* the entries of the archive
  Size,       \* Size[i]: the declared, and verified, length of entry i
  Budget,     \* bytes the cache may keep
  MaxCount,   \* decodes under way at once
  MaxBytes,   \* bytes of the decodes under way at once
  MaxUsize,   \* the largest length the address space can hold
  MaxFlights  \* bound: decodes started in one behaviour

ASSUME CacheAssumption ==
  /\ IsFiniteSet(Threads)
  /\ Size \in [Slots -> Nat]
  /\ Budget \in Nat
  /\ MaxCount \in Nat \ {0}
  /\ MaxBytes \in Nat
  /\ MaxUsize \in Nat
  /\ MaxBytes <= MaxUsize
  /\ MaxFlights \in Nat

NoSlot   == "no slot"
NoThread == "no thread"
NoFlight == 0

ASSUME NamesAssumption == NoSlot \notin Slots /\ NoThread \notin Threads

VARIABLES
  value,       \* value[i]: "empty", "loading" or "ready"
  current,     \* current[i]: the flight of a loading slot
  referenced,  \* referenced[i]: the second-chance bit of a ready slot
  queue,       \* the CLOCK: slots in the order they are considered
  resident,    \* bytes the CLOCK accounts for
  clockOwner,  \* the thread that holds the CLOCK lock
  scans,       \* iterations its eviction loop may still make
  flights,     \* flights[f]: the result of flight f, "none" until finished
  count,       \* decodes admitted by the limiter
  bytes,       \* the bytes they will occupy
  parked,      \* threads asleep on a condition variable
  pc,          \* pc[t]: where t stands in `read'
  job,         \* job[t]: the slot t reads
  flight,      \* flight[t]: the flight t leads or waits for
  outcome      \* outcome[t]: what the decode of a leader returned

slotVars    == <<value, current, referenced>>
clockVars   == <<queue, resident, clockOwner, scans>>
limiterVars == <<count, bytes>>
callVars    == <<job, flight, outcome>>
vars == <<slotVars, clockVars, flights, limiterVars, parked, pc, callVars>>

Results  == {"ok", "error", "interrupted"}
Phases   == {"idle", "wait", "permit", "load", "complete", "scan", "release"}
Leading  == {"permit", "load", "complete", "scan"}
Admitted == {"load", "complete", "scan", "release"}

-----------------------------------------------------------------------------
Init ==
  /\ value      = [i \in Slots |-> "empty"]
  /\ current    = [i \in Slots |-> NoFlight]
  /\ referenced = [i \in Slots |-> FALSE]
  /\ queue = <<>>
  /\ resident = 0
  /\ clockOwner = NoThread
  /\ scans = 0
  /\ flights = <<>>
  /\ count = 0
  /\ bytes = 0
  /\ parked = {}
  /\ pc      = [t \in Threads |-> "idle"]
  /\ job     = [t \in Threads |-> NoSlot]
  /\ flight  = [t \in Threads |-> NoFlight]
  /\ outcome = [t \in Threads |-> "none"]

Representable(i) == Size[i] <= MaxUsize

(* The call of t is over; `where' is what is left of it to do. *)
Leave(t, where) ==
  /\ pc' = [pc EXCEPT ![t] = where]
  /\ outcome' = [outcome EXCEPT ![t] = "none"]
  /\ flight' = [flight EXCEPT ![t] = NoFlight]
  /\ job' = [job EXCEPT ![t] = IF where = "idle" THEN NoSlot ELSE @]

-----------------------------------------------------------------------------
(* Slips of the programmer are stated beside the definition they would spoil,
   as operators named Slip...; no specification uses them.               *)

(* `read' under the lock of the slot: a resident entry is returned and gets
   its second chance. *)
Hit(t, i) ==
  /\ pc[t] = "idle"
  /\ value[i] = "ready"
  /\ referenced' = [referenced EXCEPT ![i] = TRUE]
  /\ UNCHANGED <<value, current, clockVars, flights, limiterVars, parked, pc,
                 callVars>>

(* `get', the probe that never waits: a hit, or nothing at all. *)
Probe(t, i) ==
  /\ pc[t] = "idle"
  /\ referenced' = [referenced EXCEPT ![i] = @ \/ value[i] = "ready"]
  /\ UNCHANGED <<value, current, clockVars, flights, limiterVars, parked, pc,
                 callVars>>

(* `read' of an entry being decoded: join its flight. *)
Coalesce(t, i) ==
  /\ pc[t] = "idle"
  /\ value[i] = "loading"
  /\ pc' = [pc EXCEPT ![t] = "wait"]
  /\ job' = [job EXCEPT ![t] = i]
  /\ flight' = [flight EXCEPT ![t] = current[i]]
  /\ UNCHANGED <<slotVars, clockVars, flights, limiterVars, parked, outcome>>

Vacant(i)     == value[i] = "empty"

(* `read' of an empty slot: become its leader.  A length that does not fit
   the address space fails without asking the limiter. *)
Lead(t, i) ==
  /\ pc[t] = "idle"
  /\ Vacant(i)
  /\ Len(flights) < MaxFlights
  /\ flights' = Append(flights, "none")
  /\ value' = [value EXCEPT ![i] = "loading"]
  /\ current' = [current EXCEPT ![i] = Len(flights) + 1]
  /\ flight' = [flight EXCEPT ![t] = Len(flights) + 1]
  /\ job' = [job EXCEPT ![t] = i]
  /\ \/ /\ Representable(i)
        /\ pc' = [pc EXCEPT ![t] = "permit"]
        /\ UNCHANGED outcome
     \/ /\ ~Representable(i)
        /\ pc' = [pc EXCEPT ![t] = "complete"]
        /\ outcome' = [outcome EXCEPT ![t] = "error"]
  /\ UNCHANGED <<referenced, clockVars, limiterVars, parked>>

-----------------------------------------------------------------------------
(* Limiter::acquire: nobody waits for an idle limiter, so a file larger than
   the byte limit is decoded alone. *)
SlipMustWaitAlone(b) ==            \* an idle limiter makes a large file wait
  count >= MaxCount \/ bytes > MaxBytes \/ b > MaxBytes - bytes

MustWait(b) ==
  /\ count # 0
  /\ \/ count >= MaxCount
     \/ bytes > MaxBytes
     \/ b > MaxBytes - bytes

Acquire(t) ==
  /\ pc[t] = "permit"
  /\ t \notin parked
  /\ ~MustWait(Size[job[t]])
  /\ count' = count + 1
  /\ bytes' = bytes + Size[job[t]]
  /\ pc' = [pc EXCEPT ![t] = "load"]
  /\ UNCHANGED <<slotVars, clockVars, flights, parked, callVars>>

AwaitPermit(t) ==
  /\ pc[t] = "permit"
  /\ t \notin parked
  /\ MustWait(Size[job[t]])
  /\ parked' = parked \cup {t}
  /\ UNCHANGED <<slotVars, clockVars, flights, limiterVars, pc, callVars>>

(* The decode: it may fail, or unwind through the leader's drop guard. *)
Load(t) ==
  /\ pc[t] = "load"
  /\ \E r \in Results : outcome' = [outcome EXCEPT ![t] = r]
  /\ pc' = [pc EXCEPT ![t] = "complete"]
  /\ UNCHANGED <<slotVars, clockVars, flights, limiterVars, parked, job, flight>>

(* Permit::drop, which notifies every thread waiting for a permit. *)
WokenByRelease == {t \in parked : pc[t] = "permit"}

Release(t) ==
  /\ pc[t] = "release"
  /\ count' = count - 1
  /\ bytes' = bytes - Size[job[t]]
  /\ parked' = parked \ WokenByRelease
  /\ Leave(t, "idle")
  /\ UNCHANGED <<slotVars, clockVars, flights>>

-----------------------------------------------------------------------------
(* Flight::wait *)
Await(t) ==
  /\ pc[t] = "wait"
  /\ t \notin parked
  /\ flights[flight[t]] = "none"
  /\ parked' = parked \cup {t}
  /\ UNCHANGED <<slotVars, clockVars, flights, limiterVars, pc, callVars>>

Answer(t) ==
  /\ pc[t] = "wait"
  /\ t \notin parked
  /\ flights[flight[t]] # "none"
  /\ Leave(t, "idle")
  /\ UNCHANGED <<slotVars, clockVars, flights, limiterVars, parked>>

-----------------------------------------------------------------------------
(* Cache::complete.  The result is worth keeping when it is a success within
   the budget; `Crowded' is the condition of the eviction loop. *)
SlipCacheable(t) == Size[job[t]] <= Budget    \* failures are kept as well
Cacheable(t) == outcome[t] = "ok" /\ Size[job[t]] <= Budget

Crowded(t)   == resident > Budget - Size[job[t]]

Evicting(t)  == Cacheable(t) /\ Crowded(t) /\ scans > 0

ScanBound == 2 * Len(queue)

LockClock(t) ==
  /\ pc[t] = "complete"
  /\ clockOwner = NoThread
  /\ clockOwner' = t
  /\ scans' = IF Cacheable(t) THEN ScanBound ELSE 0
  /\ pc' = [pc EXCEPT ![t] = "scan"]
  /\ UNCHANGED <<slotVars, queue, resident, flights, limiterVars, parked, callVars>>

(* One iteration over a victim that was used since the last pass ...  To pop
   an empty queue would be a panic under the CLOCK lock: the thread is then
   stuck here. *)
SecondChance(t) ==
  /\ pc[t] = "scan"
  /\ Evicting(t)
  /\ queue # <<>>
  /\ LET victim == Head(queue) IN
       /\ value[victim] = "ready" /\ referenced[victim]
       /\ referenced' = [referenced EXCEPT ![victim] = FALSE]
       /\ queue' = Append(Tail(queue), victim)
  /\ scans' = scans - 1
  /\ UNCHANGED <<value, current, resident, clockOwner, flights, limiterVars,
                 parked, pc, callVars>>

(* ... and over one that was not: whatever the slot holds is taken. *)
SlipFreed(i) == 0                             \* evicted bytes stay accounted for
Freed(i) == IF value[i] = "ready" THEN Size[i] ELSE 0

Evict(t) ==
  /\ pc[t] = "scan"
  /\ Evicting(t)
  /\ queue # <<>>
  /\ LET victim == Head(queue) IN
       /\ ~(value[victim] = "ready" /\ referenced[victim])
       /\ value' = [value EXCEPT ![victim] = "empty"]
       /\ current' = [current EXCEPT ![victim] = NoFlight]
       /\ resident' = resident - Freed(victim)
  /\ queue' = Tail(queue)
  /\ scans' = scans - 1
  /\ UNCHANGED <<referenced, clockOwner, flights, limiterVars, parked, pc, callVars>>

(* The end of `complete': if the slot still holds this flight, store or drop
   the bytes and wake whoever shares it. *)
SlipSleepingOn(f) ==                          \* notify_one for notify_all
  LET S == {t \in parked : pc[t] = "wait" /\ flight[t] = f}
  IN IF S = {} THEN {} ELSE {CHOOSE t \in S : TRUE}
SleepingOn(f) == {t \in parked : pc[t] = "wait" /\ flight[t] = f}

Store(i) ==
  /\ value' = [value EXCEPT ![i] = "ready"]
  /\ referenced' = [referenced EXCEPT ![i] = TRUE]
  /\ queue' = Append(queue, i)
  /\ resident' = resident + Size[i]

Discard(i) ==
  /\ value' = [value EXCEPT ![i] = "empty"]
  /\ UNCHANGED <<referenced, queue, resident>>

Current(t) == value[job[t]] = "loading" /\ current[job[t]] = flight[t]

Publish(t) ==
  IF Current(t)
  THEN /\ current' = [current EXCEPT ![job[t]] = NoFlight]
       /\ IF Cacheable(t) /\ ~Crowded(t) THEN Store(job[t]) ELSE Discard(job[t])
       /\ flights' = [flights EXCEPT ![flight[t]] = outcome[t]]
       /\ parked' = parked \ SleepingOn(flight[t])
  ELSE UNCHANGED <<slotVars, queue, resident, flights, parked>>

(* Only a leader the limiter admitted has a permit to drop. *)
Afterwards(t) == IF Representable(job[t]) THEN "release" ELSE "idle"

Complete(t) ==
  /\ pc[t] = "scan"
  /\ ~Evicting(t)
  /\ Publish(t)
  /\ clockOwner' = NoThread
  /\ scans' = 0
  /\ Leave(t, Afterwards(t))
  /\ UNCHANGED limiterVars

-----------------------------------------------------------------------------
Progress(t) ==
  \/ Acquire(t) \/ AwaitPermit(t) \/ Load(t) \/ Release(t)
  \/ Await(t) \/ Answer(t)
  \/ LockClock(t) \/ SecondChance(t) \/ Evict(t) \/ Complete(t)

Call(t) ==
  \E i \in Slots : Hit(t, i) \/ Probe(t, i) \/ Coalesce(t, i) \/ Lead(t, i)

Next == \E t \in Threads : Call(t) \/ Progress(t)

Spec == Init /\ [][Next]_vars

(* A thread inside `read' is scheduled and decodes terminate; nobody is made
   to call. *)
FairSpec == Spec /\ \A t \in Threads : WF_vars(Progress(t))
-----------------------------------------------------------------------------
FlightIds == 1..Len(flights)
Leaders   == {t \in Threads : pc[t] \in Leading}
Holders   == {t \in Threads : pc[t] \in Admitted /\ Representable(job[t])}
Ready     == {i \in Slots : value[i] = "ready"}

(* Every variable stays in its domain.  The byte counters, unsigned in the
   code, are only said to be integers: BooksBalance gives their sign. *)
TypeOK ==
  /\ value \in [Slots -> {"empty", "loading", "ready"}]
  /\ current \in [Slots -> NoFlight..Len(flights)]
  /\ referenced \in [Slots -> BOOLEAN]
  /\ queue \in Seq(Slots)
  /\ resident \in Int
  /\ clockOwner \in Threads \cup {NoThread}
  /\ scans \in Nat
  /\ flights \in Seq(Results \cup {"none"})
  /\ count \in Nat
  /\ bytes \in Int
  /\ parked \subseteq Threads
  /\ pc \in [Threads -> Phases]
  /\ job \in [Threads -> Slots \cup {NoSlot}]
  /\ flight \in [Threads -> NoFlight..Len(flights)]
  /\ outcome \in [Threads -> Results \cup {"none"}]

Distinct(q) == \A m, n \in 1..Len(q) : m # n => q[m] # q[n]
Members(q)  == {q[n] : n \in 1..Len(q)}

(* The CLOCK lists each ready slot exactly once and nothing else, although
   hits, eviction and publication touch slots under different locks. *)
QueueIsReadySet == Distinct(queue) /\ Members(queue) = Ready

Total(size, S) == MapThenSumSet(LAMBDA x : size[x], S)
Admission      == [t \in Holders |-> Size[job[t]]]

(* Both byte counts equal what they stand for, the entries really resident
   and the decodes really admitted.  So neither, unsigned in the code, wraps
   below zero, and an eviction that wants room never pops an empty queue. *)
BooksBalance ==
  /\ resident = Total(Size, Ready)
  /\ bytes = Total(Admission, Holders)

(* What the cache keeps never exceeds its budget, at any step of any
   eviction. *)
WithinBudget == resident <= Budget

(* A slot is loading exactly while one thread, and only one, is between
   winning it and publishing; that thread's flight is the one in the slot, and
   it is unfinished. *)
OneDecoderPerSlot ==
  /\ \A t, u \in Leaders : t # u => job[t] # job[u] /\ flight[t] # flight[u]
  /\ \A t \in Leaders : Current(t) /\ flights[flight[t]] = "none"
  /\ \A i \in Slots : value[i] = "loading" => \E t \in Leaders : job[t] = i

(* Whoever waits for an unfinished flight waits for a leader still at work
   on the entry it asked for: no failure, unwinding or lost notification may
   leave a waiter behind. *)
NoOrphanWaiter ==
  \A t \in Threads : pc[t] = "wait" =>
    IF flights[flight[t]] = "none"
    THEN \E u \in Leaders : flight[u] = flight[t] /\ job[u] = job[t]
    ELSE t \notin parked

(* The limiter counts exactly the threads between admission and the drop of
   their permit, there are never more than MaxCount of them, and only a decode
   that runs alone may exceed MaxBytes. *)
LimiterBound ==
  /\ count = Cardinality(Holders)
  /\ count <= MaxCount
  /\ count > 1 => bytes <= MaxBytes

(* A thread asleep for a permit has somebody to wake it: an admitted thread
   that has not released yet. *)
NoLostPermitWakeup ==
  (\E t \in parked : pc[t] = "permit") => Holders # {}

(* A thread decodes from winning the slot until publication, a waiter shares
   from joining until it leaves. *)
Decoding == {<<t, job[t]>> : t \in Leaders}
Asked    == [t \in Threads |-> IF pc[t] = "wait" THEN job[t] ELSE NoSlot]
Answers  == [t \in Threads |-> IF pc[t] = "wait" THEN flights[flight[t]] ELSE "none"]

Promise == INSTANCE SharedReads WITH
  decoding <- Decoding, asked <- Asked, answer <- Answers, kept <- Ready

(* The cache keeps the promise of SharedReads: no interleaving of its locks
   decodes an entry twice at once, hands a sharer the result of another decode
   than the one it joined, or keeps what failed. *)
KeepsPromise == Promise!Spec

(* Every call of `read' returns, whatever the decodes of the others do. *)
EveryReadReturns == \A t \in Threads : pc[t] # "idle" ~> pc[t] = "idle"
=============================================================================
