-------------------------- MODULE EntryCacheProofs --------------------------
(* What EntryCache keeps for every number of threads, every archive and every
   limit.  Each layer is inductive relative to the ones before it. *)
EXTENDS EntryCache, FiniteSetTheorems, WellFoundedInduction, TLAPS

(* A call that is under way names its slot, a leader or waiter its flight,
   the CLOCK lock is held by the one thread that scans, and only a length
   that fits the address space ever meets the limiter. *)
CallsOK ==
  \A t \in Threads :
    /\ pc[t] # "idle" => job[t] \in Slots
    /\ pc[t] \in Leading \cup {"wait"} => flight[t] \in FlightIds
    /\ pc[t] = "scan" <=> clockOwner = t
    /\ pc[t] \in {"permit", "load", "release"} => Representable(job[t])
    /\ t \in parked => pc[t] \in {"permit", "wait"}
    /\ pc[t] \in {"complete", "scan"} => outcome[t] # "none"

LoadingHasFlight ==
  \A i \in Slots : value[i] = "loading" => current[i] \in FlightIds

Typed == TypeOK /\ CallsOK /\ LoadingHasFlight

LEMMA InitTyped == Init => Typed
  <1> SUFFICES ASSUME Init PROVE Typed
    OBVIOUS
  <1>1. TypeOK
    BY DEF Init, TypeOK, FlightIds, Phases, NoFlight
  <1>2. \A t \in Threads : pc[t] = "idle" /\ clockOwner # t
    BY NamesAssumption DEF NamesAssumption, Init
  <1>3. CallsOK
    BY <1>2 DEF CallsOK, Leading, Init
  <1>4. LoadingHasFlight
    BY DEF Init, LoadingHasFlight
  <1> QED BY <1>1, <1>3, <1>4 DEF Typed

LEMMA LeadTyped ==
  ASSUME Typed, NEW t \in Threads, NEW i \in Slots, Lead(t, i)
  PROVE  Typed'
  <1> USE DEF Typed, NoFlight, FlightIds
  <1>1. /\ Len(flights) \in Nat
        /\ flights' \in Seq(Results \cup {"none"})
        /\ Len(flights') = Len(flights) + 1
    BY DEF TypeOK, Lead
  <1>2. /\ current' \in [Slots -> 0..Len(flights')]
        /\ flight' \in [Threads -> 0..Len(flights')]
    BY <1>1 DEF TypeOK, Lead
  <1>3. /\ value' \in [Slots -> {"empty", "loading", "ready"}]
        /\ pc' \in [Threads -> Phases]
        /\ job' \in [Threads -> Slots \cup {NoSlot}]
        /\ outcome' \in [Threads -> Results \cup {"none"}]
    BY DEF TypeOK, Lead, Phases, Results
  <1>4. TypeOK'
    BY <1>1, <1>2, <1>3 DEF TypeOK, Lead, clockVars, limiterVars
  <1>5. CallsOK'
    BY <1>1 DEF TypeOK, CallsOK, Lead, clockVars, limiterVars, Leading
  <1>6. LoadingHasFlight'
    BY <1>1 DEF TypeOK, LoadingHasFlight, Lead
  <1> QED BY <1>4, <1>5, <1>6

(* Calls that find the entry resident or loading, and threads that fall
   asleep. *)
LEMMA AwaitTyped ==
  ASSUME Typed, NEW t \in Threads, AwaitPermit(t) \/ Await(t)
  PROVE  Typed'
  BY DEF Typed, TypeOK, CallsOK, LoadingHasFlight, AwaitPermit, Await, NoFlight,
     FlightIds, slotVars, clockVars, limiterVars, callVars

LEMMA CallTyped ==
  ASSUME Typed, NEW t \in Threads, NEW i \in Slots,
         Hit(t, i) \/ Probe(t, i) \/ Coalesce(t, i)
  PROVE  Typed'
  <1> USE DEF Typed, NoFlight, FlightIds, slotVars, clockVars, limiterVars, callVars
  <1>1. CASE Hit(t, i) \/ Probe(t, i)
    BY <1>1 DEF TypeOK, CallsOK, LoadingHasFlight, Hit, Probe
  <1>2. CASE Coalesce(t, i)
    <2>1. current[i] \in 1..Len(flights)
      BY <1>2 DEF LoadingHasFlight, Coalesce
    <2>2. TypeOK'
      BY <1>2, <2>1 DEF TypeOK, Coalesce, Phases
    <2>3. CallsOK'
      BY <1>2, <2>1 DEF TypeOK, CallsOK, Coalesce, Leading
    <2>4. LoadingHasFlight'
      BY <1>2 DEF LoadingHasFlight, Coalesce
    <2> QED BY <2>2, <2>3, <2>4
  <1> QED BY <1>1, <1>2

(* The limiter and the decode.  Sizes are natural numbers, so the sum of the
   bytes stays an integer. *)
LEMMA DecodeTyped ==
  ASSUME Typed, NEW t \in Threads,
         Acquire(t) \/ Load(t) \/ Release(t) \/ Answer(t) \/ LockClock(t),
         Release(t) => count > 0
  PROVE  Typed'
  <1> USE DEF Typed, NoFlight, FlightIds, slotVars, clockVars, limiterVars, callVars
  <1>1. pc[t] # "idle" => Size[job[t]] \in Nat
    BY CacheAssumption DEF CacheAssumption, CallsOK
  <1>2. CASE Acquire(t)
    <2>1. TypeOK'
      BY <1>1, <1>2 DEF TypeOK, Acquire, Phases
    <2>2. CallsOK' /\ LoadingHasFlight'
      BY <1>2 DEF TypeOK, CallsOK, LoadingHasFlight, Acquire, Leading
    <2> QED BY <2>1, <2>2
  <1>3. CASE Load(t)
    <2>1. TypeOK'
      BY <1>3 DEF TypeOK, Load, Phases
    <2>2. CallsOK' /\ LoadingHasFlight'
      BY <1>3 DEF TypeOK, CallsOK, LoadingHasFlight, Load, Leading, Results
    <2> QED BY <2>1, <2>2
  <1>4. CASE Release(t)
    <2>1. TypeOK'
      BY <1>1, <1>4 DEF TypeOK, Release, Leave, Phases
    <2>2. CallsOK' /\ LoadingHasFlight'
      BY <1>4 DEF TypeOK, CallsOK, LoadingHasFlight, Release, Leave, Leading
    <2> QED BY <2>1, <2>2
  <1>5. CASE Answer(t)
    <2>1. TypeOK'
      BY <1>5 DEF TypeOK, Answer, Leave, Phases
    <2>2. CallsOK' /\ LoadingHasFlight'
      BY <1>5 DEF TypeOK, CallsOK, LoadingHasFlight, Answer, Leave, Leading
    <2> QED BY <2>1, <2>2
  <1>6. CASE LockClock(t)
    <2>1. Len(queue) \in Nat
      BY DEF TypeOK
    <2>2. TypeOK'
      BY <1>6, <2>1 DEF TypeOK, LockClock, ScanBound, Phases
    <2>3. CallsOK' /\ LoadingHasFlight'
      BY <1>6, NamesAssumption
      DEF TypeOK, CallsOK, LoadingHasFlight, LockClock, Leading, NamesAssumption
    <2> QED BY <2>2, <2>3
  <1> QED BY <1>2, <1>3, <1>4, <1>5, <1>6

(* The eviction loop. *)
LEMMA EvictionTyped ==
  ASSUME Typed, NEW t \in Threads, SecondChance(t) \/ Evict(t)
  PROVE  Typed'
  <1> USE DEF Typed, NoFlight, FlightIds, slotVars, clockVars, limiterVars, callVars
  <1>1. /\ queue # <<>> /\ scans > 0
        /\ Head(queue) \in Slots
        /\ Tail(queue) \in Seq(Slots)
        /\ Append(Tail(queue), Head(queue)) \in Seq(Slots)
    BY DEF TypeOK, SecondChance, Evict, Evicting
  <1>2. Freed(Head(queue)) \in Nat
    BY <1>1, CacheAssumption DEF Freed, CacheAssumption
  <1>3. CASE SecondChance(t)
    BY <1>1, <1>3 DEF TypeOK, CallsOK, LoadingHasFlight, SecondChance
  <1>4. CASE Evict(t)
    <2>1. TypeOK'
      BY <1>1, <1>2, <1>4 DEF TypeOK, Evict
    <2>2. CallsOK' /\ LoadingHasFlight'
      BY <1>1, <1>4 DEF TypeOK, CallsOK, LoadingHasFlight, Evict
    <2> QED BY <2>1, <2>2
  <1> QED BY <1>3, <1>4

LEMMA CompleteTyped ==
  ASSUME Typed, NEW t \in Threads, Complete(t)
  PROVE  Typed'
  <1> USE DEF Typed, NoFlight, FlightIds, slotVars, clockVars, limiterVars, callVars
  <1>1. /\ job[t] \in Slots /\ Size[job[t]] \in Nat
        /\ flight[t] \in 1..Len(flights)
        /\ outcome[t] \in Results \cup {"none"}
        /\ pc[t] = "scan" /\ clockOwner = t /\ clockOwner' = NoThread
    BY CacheAssumption DEF CacheAssumption, CallsOK, TypeOK, Complete, Leading
  <1>2. /\ flights' \in Seq(Results \cup {"none"})
        /\ Len(flights') = Len(flights)
    <2>1. CASE UNCHANGED flights
      BY <2>1 DEF TypeOK
    <2>2. CASE flights' = [flights EXCEPT ![flight[t]] = outcome[t]]
      BY <1>1, <2>2 DEF TypeOK
    <2> QED BY <2>1, <2>2 DEF Complete, Publish
  <1>3. /\ pc' \in [Threads -> Phases]
        /\ job' \in [Threads -> Slots \cup {NoSlot}]
        /\ flight' \in [Threads -> 0..Len(flights)]
        /\ outcome' \in [Threads -> Results \cup {"none"}]
    BY DEF TypeOK, Complete, Leave, Afterwards, Phases
  <1>4. /\ value' \in [Slots -> {"empty", "loading", "ready"}]
        /\ current' \in [Slots -> 0..Len(flights)]
        /\ referenced' \in [Slots -> BOOLEAN]
        /\ queue' \in Seq(Slots)
        /\ resident' \in Int
        /\ parked' \subseteq Threads
    <2>1. CASE Store(job[t]) /\ current' = [current EXCEPT ![job[t]] = NoFlight]
               /\ parked' = parked \ SleepingOn(flight[t])
      BY <1>1, <2>1 DEF TypeOK, Store
    <2>2. CASE Discard(job[t]) /\ current' = [current EXCEPT ![job[t]] = NoFlight]
               /\ parked' = parked \ SleepingOn(flight[t])
      BY <1>1, <2>2 DEF TypeOK, Discard
    <2>3. CASE UNCHANGED <<slotVars, queue, resident, parked>>
      BY <2>3 DEF TypeOK
    <2> QED BY <2>1, <2>2, <2>3 DEF Complete, Publish
  <1>5. TypeOK'
    BY <1>2, <1>3, <1>4 DEF TypeOK, Complete
  <1>6. parked' \subseteq parked /\ t \notin parked
    BY <1>1 DEF CallsOK, Complete, Publish
  <1>7. CallsOK'
    BY <1>1, <1>2, <1>6, NamesAssumption
    DEF TypeOK, CallsOK, Complete, Leave, Afterwards, Leading, NamesAssumption,
        Representable
  <1>8. LoadingHasFlight'
    BY <1>1, <1>2 DEF TypeOK, LoadingHasFlight, Complete, Publish, Store, Discard
  <1> QED BY <1>5, <1>7, <1>8
-----------------------------------------------------------------------------
(* The limiter.  Which threads hold a permit changes in two actions only. *)
LEMMA HoldersFinite == IsFiniteSet(Holders)
  BY CacheAssumption, FS_Subset DEF CacheAssumption, Holders

LEMMA HoldersStep ==
  ASSUME Typed, NEW t \in Threads,
         \/ Call(t)
         \/ AwaitPermit(t) \/ Await(t) \/ Load(t) \/ Answer(t) \/ LockClock(t)
         \/ SecondChance(t) \/ Evict(t) \/ Complete(t)
  PROVE  Holders' = Holders /\ UNCHANGED <<count, bytes>>
  <1> USE DEF Typed, TypeOK, CallsOK, Holders, Admitted, Representable, callVars,
          limiterVars
  <1>1. CASE AwaitPermit(t) \/ Await(t) \/ SecondChance(t) \/ Evict(t)
    BY <1>1 DEF AwaitPermit, Await, SecondChance, Evict
  <1>2. CASE Call(t)
    <2> PICK i \in Slots : Hit(t, i) \/ Probe(t, i) \/ Coalesce(t, i) \/ Lead(t, i)
      BY <1>2 DEF Call
    <2>1. CASE Hit(t, i) \/ Probe(t, i)
      BY <2>1 DEF Hit, Probe
    <2>2. CASE Coalesce(t, i)
      BY <2>2 DEF Coalesce
    <2>3. CASE Lead(t, i)
      <3>1. \A u \in Threads \ {t} : pc'[u] = pc[u] /\ job'[u] = job[u]
        BY <2>3 DEF Lead
      <3>2. /\ pc[t] = "idle" /\ job'[t] = i
            /\ pc'[t] = "permit" \/ (pc'[t] = "complete" /\ ~(Size[i] <= MaxUsize))
        BY <2>3 DEF Lead
      <3>3. \A u \in Threads : u \in Holders' <=> u \in Holders
        BY <3>1, <3>2
      <3>4. Holders' = Holders
        BY <3>3
      <3>5. UNCHANGED <<count, bytes>>
        BY <2>3 DEF Lead
      <3> QED BY <3>4, <3>5
    <2> QED BY <2>1, <2>2, <2>3
  <1>3. CASE Load(t) \/ LockClock(t)
    BY <1>3 DEF Load, LockClock
  <1>4. CASE Answer(t)
    BY <1>4 DEF Answer, Leave
  <1>5. CASE Complete(t)
    BY <1>5 DEF Complete, Leave, Afterwards
  <1> QED BY <1>1, <1>2, <1>3, <1>4, <1>5

LEMMA LimiterStep ==
  ASSUME Typed, LimiterBound, NEW t \in Threads, Call(t) \/ Progress(t)
  PROVE  LimiterBound'
  <1>1. CASE Acquire(t)
    <2>1. Holders' = Holders \cup {t} /\ t \notin Holders
      BY <1>1 DEF Typed, TypeOK, CallsOK, Acquire, Holders, Admitted, Representable,
         callVars
    <2>2. Cardinality(Holders') = Cardinality(Holders) + 1
      BY <2>1, HoldersFinite, FS_AddElement
    <2>3. Size[job[t]] \in Nat
      BY <1>1, CacheAssumption DEF CacheAssumption, Typed, CallsOK, Acquire
    <2>4. ~MustWait(Size[job[t]]) /\ count' = count + 1 /\ bytes' = bytes + Size[job[t]]
      BY <1>1 DEF Acquire
    <2>5. /\ count \in Nat /\ bytes \in Int /\ count = Cardinality(Holders)
          /\ MaxCount \in Nat \ {0} /\ MaxBytes \in Nat
      BY CacheAssumption DEF LimiterBound, Typed, TypeOK, CacheAssumption
    <2> QED BY <2>2, <2>3, <2>4, <2>5 DEF LimiterBound, MustWait
  <1>2. CASE Release(t)
    <2>1. Holders' = Holders \ {t} /\ t \in Holders
      BY <1>2 DEF Typed, TypeOK, CallsOK, Release, Leave, Holders, Admitted,
         Representable
    <2>2. Cardinality(Holders') = Cardinality(Holders) - 1
      BY <2>1, HoldersFinite, FS_RemoveElement
    <2>3. Size[job[t]] \in Nat
      BY <1>2, CacheAssumption DEF CacheAssumption, Typed, CallsOK, Release
    <2> QED
      BY <1>2, <2>2, <2>3, CacheAssumption
      DEF LimiterBound, Typed, TypeOK, Release, CacheAssumption
  <1>3. CASE ~Acquire(t) /\ ~Release(t)
    <2>1. Holders' = Holders /\ UNCHANGED <<count, bytes>>
      BY <1>3, HoldersStep DEF Progress
    <2> QED BY <2>1 DEF LimiterBound
  <1> QED BY <1>1, <1>2, <1>3

LEMMA ReleaseCounts ==
  ASSUME Typed, LimiterBound, NEW t \in Threads, Release(t)
  PROVE  count > 0
  <1>1. t \in Holders
    BY DEF Typed, CallsOK, Release, Holders, Admitted
  <1>2. Cardinality(Holders) # 0
    BY <1>1, HoldersFinite, FS_EmptySet
  <1> QED BY <1>2 DEF LimiterBound, Typed, TypeOK

(* Types and the limiter together are inductive. *)
LEMMA LimiterInvariant == Spec => [](Typed /\ LimiterBound)
  <1>1. Init => Typed /\ LimiterBound
    <2> SUFFICES ASSUME Init PROVE LimiterBound
      BY InitTyped
    <2>1. Holders = {}
      BY DEF Init, Holders, Admitted
    <2> QED BY <2>1, FS_EmptySet, CacheAssumption
        DEF Init, LimiterBound, CacheAssumption
  <1>2. Typed /\ LimiterBound /\ [Next]_vars => (Typed /\ LimiterBound)'
    <2> SUFFICES ASSUME Typed, LimiterBound, [Next]_vars
                 PROVE  Typed' /\ LimiterBound'
      OBVIOUS
    <2>1. CASE UNCHANGED vars
      BY <2>1 DEF vars, slotVars, clockVars, limiterVars, callVars, Typed, TypeOK,
         CallsOK, LoadingHasFlight, FlightIds, LimiterBound, Holders
    <2>2. ASSUME NEW t \in Threads, Call(t) \/ Progress(t)
          PROVE  Typed' /\ LimiterBound'
      <3>1. CASE Progress(t)
        BY <3>1, ReleaseCounts, AwaitTyped, DecodeTyped, EvictionTyped,
           CompleteTyped, LimiterStep
        DEF Progress
      <3>2. CASE Call(t)
        BY <3>2, CallTyped, LeadTyped, LimiterStep DEF Call
      <3> QED BY <2>2, <3>1, <3>2
    <2> QED BY <2>1, <2>2 DEF Next
  <1> QED BY <1>1, <1>2, PTL DEF Spec

(* The state of the cache is well typed for every set of threads and every
   archive. *)
THEOREM TypeCorrect == Spec => []TypeOK
  BY LimiterInvariant, PTL DEF Typed

(* The bound of the limiter holds for every archive and every limit. *)
THEOREM LimiterCorrect == Spec => []LimiterBound
  BY LimiterInvariant, PTL
-----------------------------------------------------------------------------
(* The CLOCK.  Three facts about queues without repetition. *)
LEMMA Pop ==
  ASSUME NEW S, NEW q \in Seq(S), q # <<>>, Distinct(q)
  PROVE  /\ Head(q) \in Members(q)
         /\ Distinct(Tail(q))
         /\ Members(Tail(q)) = Members(q) \ {Head(q)}
  <1>1. /\ Len(q) \in Nat \ {0} /\ Head(q) = q[1]
        /\ Len(Tail(q)) = Len(q) - 1
        /\ \A n \in 1..Len(Tail(q)) : Tail(q)[n] = q[n + 1]
    OBVIOUS
  <1>2. Head(q) \in Members(q)
    BY <1>1 DEF Members
  <1>3. Distinct(Tail(q))
    BY <1>1 DEF Distinct
  <1>4. ASSUME NEW x \in Members(Tail(q)) PROVE x \in Members(q) \ {Head(q)}
    BY <1>1, <1>4 DEF Members, Distinct
  <1>5. ASSUME NEW x \in Members(q) \ {Head(q)} PROVE x \in Members(Tail(q))
    <2> PICK n \in 1..Len(q) : x = q[n]
      BY <1>5 DEF Members
    <2>1. n - 1 \in 1..Len(Tail(q)) /\ Tail(q)[n - 1] = x
      BY <1>1, <1>5
    <2> QED BY <2>1 DEF Members
  <1> QED BY <1>2, <1>3, <1>4, <1>5

LEMMA Push ==
  ASSUME NEW S, NEW q \in Seq(S), NEW x \in S, Distinct(q), x \notin Members(q)
  PROVE  /\ Distinct(Append(q, x))
         /\ Members(Append(q, x)) = Members(q) \cup {x}
  <1> DEFINE r == Append(q, x)
  <1>1. /\ Len(q) \in Nat /\ Len(r) = Len(q) + 1 /\ r[Len(q) + 1] = x
        /\ \A n \in 1..Len(q) : r[n] = q[n]
    OBVIOUS
  <1> HIDE DEF r
  <1>2. Distinct(r)
    BY <1>1 DEF Distinct, Members
  <1>3. Members(r) = Members(q) \cup {x}
    BY <1>1 DEF Members
  <1> QED BY <1>2, <1>3 DEF r

ClockInv == QueueIsReadySet /\ WithinBudget

LEMMA CallClock ==
  ASSUME Typed, ClockInv, NEW t \in Threads, Call(t)
  PROVE  ClockInv'
  <1> PICK i \in Slots : Hit(t, i) \/ Probe(t, i) \/ Coalesce(t, i) \/ Lead(t, i)
    BY DEF Call
  <1>1. UNCHANGED <<queue, resident>>
    BY DEF Hit, Probe, Coalesce, Lead, clockVars
  <1>2. Ready' = Ready
    BY DEF Typed, TypeOK, Hit, Probe, Coalesce, Lead, Vacant, Ready, slotVars
  <1> QED BY <1>1, <1>2 DEF ClockInv, QueueIsReadySet, WithinBudget

LEMMA EvictionClock ==
  ASSUME Typed, ClockInv, NEW t \in Threads, SecondChance(t) \/ Evict(t)
  PROVE  ClockInv'
  <1>1. /\ queue \in Seq(Slots) /\ queue # <<>> /\ Distinct(queue)
        /\ Members(queue) = Ready
    BY DEF Typed, TypeOK, ClockInv, QueueIsReadySet, SecondChance, Evict
  <1>2. /\ Head(queue) \in Slots /\ Tail(queue) \in Seq(Slots)
        /\ Head(queue) \in Ready
        /\ Distinct(Tail(queue))
        /\ Members(Tail(queue)) = Ready \ {Head(queue)}
    BY <1>1, Pop DEF Ready
  <1>3. CASE SecondChance(t)
    <2>1. /\ queue' = Append(Tail(queue), Head(queue))
          /\ UNCHANGED <<value, resident>>
      BY <1>3 DEF SecondChance
    <2> DEFINE rest == Tail(queue)
               victim == Head(queue)
    <2>2. /\ rest \in Seq(Slots) /\ victim \in Slots /\ Distinct(rest)
          /\ victim \in Ready /\ Members(rest) = Ready \ {victim}
          /\ queue' = Append(rest, victim)
      BY <1>2, <2>1
    <2> HIDE DEF rest, victim
    <2>3. /\ Distinct(Append(rest, victim))
          /\ Members(Append(rest, victim)) = Members(rest) \cup {victim}
      BY <2>2, Push
    <2>5. Distinct(queue') /\ Members(queue') = Ready
      BY <2>2, <2>3
    <2> QED BY <2>1, <2>5 DEF ClockInv, QueueIsReadySet, WithinBudget, Ready
  <1>4. CASE Evict(t)
    <2>1. /\ queue' = Tail(queue)
          /\ value' = [value EXCEPT ![Head(queue)] = "empty"]
          /\ resident' = resident - Freed(Head(queue))
      BY <1>4 DEF Evict
    <2>2. Ready' = Ready \ {Head(queue)}
      BY <1>2, <2>1 DEF Ready, Typed, TypeOK
    <2>3. Freed(Head(queue)) \in Nat
      BY <1>2, CacheAssumption DEF Freed, CacheAssumption
    <2>4. resident' <= Budget
      BY <2>1, <2>3, CacheAssumption
      DEF ClockInv, WithinBudget, Typed, TypeOK, CacheAssumption
    <2> QED BY <1>2, <2>1, <2>2, <2>4 DEF ClockInv, QueueIsReadySet, WithinBudget
  <1> QED BY <1>3, <1>4

LEMMA CompleteClock ==
  ASSUME Typed, ClockInv, NEW t \in Threads, Complete(t)
  PROVE  ClockInv'
  <1>1. /\ queue \in Seq(Slots) /\ Distinct(queue) /\ Members(queue) = Ready
        /\ job[t] \in Slots /\ Size[job[t]] \in Nat
        /\ resident \in Int /\ resident <= Budget /\ Budget \in Nat
    BY CacheAssumption DEF CacheAssumption, Typed, TypeOK, CallsOK, ClockInv,
       QueueIsReadySet, WithinBudget, Complete
  <1>2. CASE Current(t) /\ Cacheable(t) /\ ~Crowded(t)
    <2>1. Store(job[t])
      BY <1>2 DEF Complete, Publish
    <2>2. job[t] \notin Ready /\ Ready' = Ready \cup {job[t]}
      BY <1>1, <1>2, <2>1 DEF Current, Store, Ready, Typed, TypeOK
    <2>3. Distinct(queue') /\ Members(queue') = Ready'
      BY <1>1, <2>1, <2>2, Push DEF Store
    <2>4. resident' <= Budget
      BY <1>1, <1>2, <2>1 DEF Store, Crowded
    <2> QED BY <2>3, <2>4 DEF ClockInv, QueueIsReadySet, WithinBudget
  <1>3. CASE Current(t) /\ ~(Cacheable(t) /\ ~Crowded(t))
    <2>1. Discard(job[t])
      BY <1>3 DEF Complete, Publish
    <2>2. Ready' = Ready
      BY <1>1, <1>3, <2>1 DEF Current, Discard, Ready, Typed, TypeOK
    <2> QED BY <2>1, <2>2 DEF Discard, ClockInv, QueueIsReadySet, WithinBudget
  <1>4. CASE ~Current(t)
    BY <1>4 DEF Complete, Publish, slotVars, ClockInv, QueueIsReadySet,
       WithinBudget, Ready
  <1> QED BY <1>2, <1>3, <1>4

LEMMA ClockInvariant == Spec => []ClockInv
  <1>1. Init => ClockInv
    BY CacheAssumption DEF CacheAssumption, Init, ClockInv, QueueIsReadySet,
       WithinBudget, Distinct, Members, Ready
  <1>2. Typed /\ ClockInv /\ [Next]_vars => ClockInv'
    <2> SUFFICES ASSUME Typed, ClockInv, [Next]_vars
                 PROVE  ClockInv'
      OBVIOUS
    <2> USE DEF slotVars, clockVars
    <2>1. ASSUME UNCHANGED <<value, queue, resident>>
          PROVE  ClockInv'
      BY <2>1 DEF ClockInv, QueueIsReadySet, WithinBudget, Ready
    <2>2. CASE UNCHANGED vars
      BY <2>1, <2>2 DEF vars
    <2>3. ASSUME NEW t \in Threads, Progress(t)
          PROVE  ClockInv'
      <3>1. CASE Acquire(t) \/ AwaitPermit(t) \/ Load(t) \/ Release(t)
                 \/ Await(t) \/ Answer(t) \/ LockClock(t)
        BY <2>1, <3>1 DEF Acquire, AwaitPermit, Load, Release, Await, Answer, LockClock
      <3> QED BY <2>3, <3>1, EvictionClock, CompleteClock DEF Progress
    <2> QED BY <2>2, <2>3, CallClock DEF Next
  <1> QED BY <1>1, <1>2, LimiterInvariant, PTL DEF Spec

(* What is resident never exceeds the budget. *)
THEOREM BudgetCorrect == Spec => []WithinBudget
  BY ClockInvariant, PTL DEF ClockInv

(* The CLOCK and the slots agree on what is resident. *)
THEOREM ClockCorrect == Spec => []QueueIsReadySet
  BY ClockInvariant, PTL DEF ClockInv
-----------------------------------------------------------------------------
(* Flights. *)
FlightInv == OneDecoderPerSlot /\ NoOrphanWaiter

(* A step that moves no leader out, starts no flight, finishes none and lets
   nobody start to wait. *)
LEMMA QuietFlights ==
  ASSUME Typed, FlightInv, UNCHANGED <<flights, job, flight>>,
         Leaders' = Leaders,
         \A i \in Slots : value[i] = "loading" \/ value'[i] = "loading" =>
            value'[i] = value[i] /\ current'[i] = current[i],
         \A t \in Threads : pc'[t] = "wait" => pc[t] = "wait",
         \A t \in Threads :
            t \in parked' /\ pc'[t] = "wait" => t \in parked \/ flights[flight[t]] = "none"
  PROVE  FlightInv'
  <1>1. \A t \in Leaders : t \in Threads /\ job[t] \in Slots
    BY DEF Leaders, Typed, CallsOK, Leading
  <1>2. OneDecoderPerSlot'
    BY <1>1 DEF FlightInv, OneDecoderPerSlot, Current
  <1>3. NoOrphanWaiter'
    BY DEF FlightInv, NoOrphanWaiter
  <1> QED BY <1>2, <1>3 DEF FlightInv

LEMMA LeadFlight ==
  ASSUME Typed, FlightInv, NEW t \in Threads, NEW i \in Slots, Lead(t, i)
  PROVE  FlightInv'
  <1> DEFINE f == Len(flights) + 1
  <1>1. /\ Len(flights) \in Nat /\ flights' = Append(flights, "none")
        /\ flights'[f] = "none"
        /\ \A g \in 1..Len(flights) : flights'[g] = flights[g] /\ g # f
    BY DEF Typed, TypeOK, Lead
  <1>2. /\ pc[t] = "idle" /\ value[i] = "empty"
        /\ job'[t] = i /\ flight'[t] = f /\ value'[i] = "loading" /\ current'[i] = f
        /\ pc'[t] \in Leading
        /\ \A u \in Threads \ {t} : pc'[u] = pc[u] /\ job'[u] = job[u]
                                   /\ flight'[u] = flight[u]
        /\ \A j \in Slots \ {i} : value'[j] = value[j] /\ current'[j] = current[j]
        /\ parked' = parked
    BY DEF Typed, TypeOK, Lead, Vacant, Leading
  <1>3. /\ t \notin Leaders /\ Leaders' = Leaders \cup {t}
        /\ \A u \in Leaders : u # t /\ u \in Threads /\ job[u] \in Slots
                           /\ flight[u] \in 1..Len(flights)
                           /\ job[u] # i
    BY <1>2 DEF Leaders, Leading, Typed, CallsOK, FlightIds, FlightInv,
       OneDecoderPerSlot, Current
  <1> HIDE DEF f
  <1>4. OneDecoderPerSlot'
    <2>1. \A u, v \in Leaders' : u # v => job'[u] # job'[v] /\ flight'[u] # flight'[v]
      BY <1>1, <1>2, <1>3 DEF FlightInv, OneDecoderPerSlot
    <2>2. ASSUME NEW u \in Leaders'
          PROVE  Current(u)' /\ flights'[flight'[u]] = "none"
      <3>1. CASE u = t
        BY <1>1, <1>2, <3>1 DEF Current
      <3>2. CASE u \in Leaders
        <4>1. Current(u) /\ flights[flight[u]] = "none"
          BY <3>2 DEF FlightInv, OneDecoderPerSlot
        <4> QED BY <1>1, <1>2, <1>3, <3>2, <4>1 DEF Current
      <3> QED BY <1>3, <3>1, <3>2
    <2>3. \A j \in Slots : value'[j] = "loading" => \E u \in Leaders' : job'[u] = j
      BY <1>2, <1>3 DEF FlightInv, OneDecoderPerSlot
    <2> QED BY <2>1, <2>2, <2>3 DEF OneDecoderPerSlot
  <1>5. NoOrphanWaiter'
    <2> SUFFICES ASSUME NEW w \in Threads, pc'[w] = "wait"
                 PROVE  IF flights'[flight'[w]] = "none"
                        THEN \E u \in Leaders' : flight'[u] = flight'[w] /\ job'[u] = job'[w]
                        ELSE w \notin parked'
      BY DEF NoOrphanWaiter
    <2>1. w # t /\ pc[w] = "wait" /\ flight[w] \in 1..Len(flights)
      BY <1>2 DEF Leading, Typed, CallsOK, FlightIds
    <2> QED BY <1>1, <1>2, <1>3, <2>1 DEF FlightInv, NoOrphanWaiter
  <1> QED BY <1>4, <1>5 DEF FlightInv

LEMMA CoalesceFlight ==
  ASSUME Typed, FlightInv, NEW t \in Threads, NEW i \in Slots, Coalesce(t, i)
  PROVE  FlightInv'
  <1>1. /\ pc[t] = "idle" /\ value[i] = "loading" /\ pc'[t] = "wait"
        /\ job'[t] = i /\ flight'[t] = current[i] /\ t \notin parked
        /\ \A u \in Threads \ {t} : pc'[u] = pc[u] /\ job'[u] = job[u]
                                   /\ flight'[u] = flight[u]
        /\ UNCHANGED <<value, current, flights, parked>>
    BY DEF Typed, TypeOK, CallsOK, Coalesce, slotVars
  <1>2. t \notin Leaders /\ Leaders' = Leaders
    BY <1>1 DEF Leaders, Leading
  <1>3. OneDecoderPerSlot'
    BY <1>1, <1>2 DEF FlightInv, OneDecoderPerSlot, Current, Leaders
  <1>4. PICK u \in Leaders : job[u] = i /\ flight[u] = current[i]
    BY <1>1 DEF FlightInv, OneDecoderPerSlot, Current
  <1>5. NoOrphanWaiter'
    BY <1>1, <1>2, <1>4 DEF FlightInv, NoOrphanWaiter, Leaders
  <1> QED BY <1>3, <1>5 DEF FlightInv

LEMMA CompleteFlight ==
  ASSUME Typed, FlightInv, NEW t \in Threads, Complete(t)
  PROVE  FlightInv'
  <1> DEFINE i == job[t]
             f == flight[t]
  <1>1. /\ t \in Leaders /\ i \in Slots /\ f \in 1..Len(flights)
        /\ outcome[t] # "none" /\ Current(t)
    BY DEF Complete, Leaders, Leading, Typed, CallsOK, FlightIds, FlightInv,
       OneDecoderPerSlot
  <1>2. /\ value'[i] # "loading"
        /\ \A j \in Slots \ {i} : value'[j] = value[j] /\ current'[j] = current[j]
        /\ flights' = [flights EXCEPT ![f] = outcome[t]]
        /\ parked' = parked \ SleepingOn(f)
    BY <1>1 DEF Complete, Publish, Store, Discard, Typed, TypeOK
  <1>3. /\ pc'[t] \in {"release", "idle"}
        /\ \A u \in Threads \ {t} : pc'[u] = pc[u] /\ job'[u] = job[u]
                                   /\ flight'[u] = flight[u]
    BY DEF Complete, Leave, Afterwards, Typed, TypeOK
  <1>4. Leaders' = Leaders \ {t}
    BY <1>3 DEF Leaders, Leading
  <1>5. /\ flights'[f] # "none"
        /\ \A g \in 1..Len(flights) : g # f => flights'[g] = flights[g]
    BY <1>1, <1>2 DEF Typed, TypeOK
  <1>6. \A u \in Leaders' : /\ u \in Threads \ {t} /\ u \in Leaders
                          /\ job[u] \in Slots \ {i}
                          /\ flight[u] \in 1..Len(flights) /\ flight[u] # f
    BY <1>1, <1>4 DEF FlightInv, OneDecoderPerSlot, Leaders, Leading, Typed,
       CallsOK, FlightIds
  <1> HIDE DEF i, f
  <1>7. OneDecoderPerSlot'
    <2>1. \A u, v \in Leaders' : u # v => job'[u] # job'[v] /\ flight'[u] # flight'[v]
      BY <1>3, <1>6 DEF FlightInv, OneDecoderPerSlot
    <2>2. \A u \in Leaders' : Current(u)' /\ flights'[flight'[u]] = "none"
      BY <1>2, <1>3, <1>5, <1>6 DEF FlightInv, OneDecoderPerSlot, Current
    <2>3. \A j \in Slots : value'[j] = "loading" => \E u \in Leaders' : job'[u] = j
      BY <1>2, <1>3, <1>4, <1>6 DEF FlightInv, OneDecoderPerSlot, i
    <2> QED BY <2>1, <2>2, <2>3 DEF OneDecoderPerSlot
  <1>8. NoOrphanWaiter'
    <2> SUFFICES ASSUME NEW w \in Threads, pc'[w] = "wait"
                 PROVE  IF flights'[flight'[w]] = "none"
                        THEN \E u \in Leaders' : flight'[u] = flight'[w] /\ job'[u] = job'[w]
                        ELSE w \notin parked'
      BY DEF NoOrphanWaiter
    <2>1. /\ w # t /\ pc[w] = "wait" /\ flight'[w] = flight[w] /\ job'[w] = job[w]
          /\ flight[w] \in 1..Len(flights)
      BY <1>3 DEF Typed, CallsOK, FlightIds
    <2>2. CASE flight[w] = f
      BY <1>2, <1>5, <2>1, <2>2 DEF SleepingOn
    <2>3. CASE flight[w] # f /\ flights[flight[w]] = "none"
      <3>1. PICK u \in Leaders : flight[u] = flight[w] /\ job[u] = job[w]
        BY <2>1, <2>3 DEF FlightInv, NoOrphanWaiter
      <3>2. u # t /\ u \in Leaders' /\ flight'[u] = flight[u] /\ job'[u] = job[u]
        BY <1>3, <1>4, <2>3, <3>1 DEF f, Leaders
      <3> QED BY <1>5, <2>1, <2>3, <3>1, <3>2
    <2>4. CASE flight[w] # f /\ flights[flight[w]] # "none"
      BY <1>2, <1>5, <2>1, <2>4 DEF FlightInv, NoOrphanWaiter
    <2> QED BY <2>2, <2>3, <2>4
  <1> QED BY <1>7, <1>8 DEF FlightInv

LEMMA FlightStep ==
  ASSUME Typed, QueueIsReadySet, FlightInv, NEW t \in Threads, Call(t) \/ Progress(t)
  PROVE  FlightInv'
  <1> USE DEF slotVars, clockVars, limiterVars, callVars
  <1>1. CASE Call(t)
    <2> PICK i \in Slots : Hit(t, i) \/ Probe(t, i) \/ Coalesce(t, i) \/ Lead(t, i)
      BY <1>1 DEF Call
    <2>1. CASE Hit(t, i) \/ Probe(t, i)
      BY <2>1, QuietFlights DEF Hit, Probe, Leaders
    <2> QED BY <2>1, LeadFlight, CoalesceFlight
  <1>2. CASE AwaitPermit(t) \/ Await(t)
    BY <1>2, QuietFlights DEF AwaitPermit, Await, Leaders
  <1>3. CASE Acquire(t) \/ Load(t) \/ LockClock(t)
    <2>1. Leaders' = Leaders
      BY <1>3 DEF Acquire, Load, LockClock, Leaders, Leading, Typed, TypeOK
    <2>2. /\ UNCHANGED <<flights, job, flight, value, current, parked>>
          /\ \A u \in Threads : pc'[u] = "wait" => pc[u] = "wait"
      BY <1>3 DEF Acquire, Load, LockClock, Typed, TypeOK
    <2> QED BY <2>1, <2>2, QuietFlights
  <1>4. CASE Release(t) \/ Answer(t)
    <2>1. /\ pc[t] \in {"release", "wait"} /\ pc'[t] = "idle"
          /\ \A u \in Threads \ {t} : /\ pc'[u] = pc[u] /\ job'[u] = job[u]
                                    /\ flight'[u] = flight[u]
          /\ UNCHANGED <<flights, value, current>> /\ parked' \subseteq parked
      BY <1>4 DEF Release, Answer, Leave, Typed, TypeOK
    <2>2. Leaders' = Leaders /\ t \notin Leaders
      BY <2>1 DEF Leaders, Leading
    <2>3. OneDecoderPerSlot'
      BY <2>1, <2>2 DEF FlightInv, OneDecoderPerSlot, Current, Leaders
    <2>4. NoOrphanWaiter'
      BY <2>1, <2>2 DEF FlightInv, NoOrphanWaiter, Leaders
    <2> QED BY <2>3, <2>4 DEF FlightInv
  <1>5. CASE SecondChance(t)
    BY <1>5, QuietFlights DEF SecondChance, Leaders
  <1>6. CASE Evict(t)
    <2>1. Head(queue) \in Ready
      BY <1>6, Pop DEF Evict, Typed, TypeOK, QueueIsReadySet
    <2>2. \A i \in Slots : value[i] = "loading" \/ value'[i] = "loading" =>
             value'[i] = value[i] /\ current'[i] = current[i]
      BY <1>6, <2>1 DEF Evict, Ready, Typed, TypeOK
    <2> QED BY <1>6, <2>2, QuietFlights DEF Evict, Leaders
  <1> QED BY <1>1, <1>2, <1>3, <1>4, <1>5, <1>6, CompleteFlight DEF Progress

LEMMA FlightInvariant == Spec => []FlightInv
  <1>1. Init => FlightInv
    BY DEF Init, FlightInv, OneDecoderPerSlot, NoOrphanWaiter, Leaders, Leading
  <1>2. Typed /\ ClockInv /\ FlightInv /\ [Next]_vars => FlightInv'
    <2> SUFFICES ASSUME Typed, ClockInv, FlightInv, [Next]_vars
                 PROVE  FlightInv'
      OBVIOUS
    <2>1. CASE UNCHANGED vars
      BY <2>1 DEF vars, slotVars, callVars, FlightInv, OneDecoderPerSlot,
         NoOrphanWaiter, Leaders, Current
    <2>2. CASE Next
      BY <2>2, FlightStep DEF Next, ClockInv
    <2> QED BY <2>1, <2>2
  <1> QED BY <1>1, <1>2, LimiterInvariant, ClockInvariant, PTL DEF Spec

(* One decode per entry at a time, whoever reads it. *)
THEOREM SingleFlight == Spec => []OneDecoderPerSlot
  BY FlightInvariant, PTL DEF FlightInv

(* A waiter has a leader at work for it or a result to take. *)
THEOREM WaitersAreServed == Spec => []NoOrphanWaiter
  BY FlightInvariant, PTL DEF FlightInv
-----------------------------------------------------------------------------
(* Sleepers on the limiter. *)
LEMMA PermitStep ==
  ASSUME Typed, LimiterBound, NoLostPermitWakeup, NEW t \in Threads,
         Call(t) \/ Progress(t)
  PROVE  NoLostPermitWakeup'
  <1> USE DEF Typed, TypeOK, CallsOK, slotVars, clockVars, limiterVars, callVars
  <1>1. CASE AwaitPermit(t)
    <2>1. Holders # {} /\ Holders' = Holders
      BY <1>1, FS_EmptySet, HoldersStep DEF LimiterBound, AwaitPermit, MustWait
    <2> QED BY <2>1 DEF NoLostPermitWakeup
  <1>2. CASE Release(t)
    <2>1. \A u \in parked' : pc'[u] # "permit"
      BY <1>2 DEF Release, Leave, WokenByRelease
    <2> QED BY <2>1 DEF NoLostPermitWakeup
  <1>3. CASE Acquire(t)
    <2>1. t \in Holders'
      BY <1>3 DEF Acquire, Holders, Admitted, Representable
    <2> QED BY <2>1 DEF NoLostPermitWakeup
  <1>4. CASE ~AwaitPermit(t) /\ ~Release(t) /\ ~Acquire(t)
    <2>1. Holders' = Holders
      BY <1>4, HoldersStep DEF Progress
    <2>2. ASSUME NEW u \in parked', pc'[u] = "permit"
          PROVE  u \in parked /\ pc[u] = "permit"
      <3>1. CASE Call(t)
        <4> PICK i \in Slots : Hit(t, i) \/ Probe(t, i) \/ Coalesce(t, i) \/ Lead(t, i)
          BY <3>1 DEF Call
        <4> QED BY <2>2 DEF Hit, Probe, Coalesce, Lead
      <3>2. CASE Await(t) \/ SecondChance(t) \/ Evict(t)
        BY <2>2, <3>2 DEF Await, SecondChance, Evict
      <3>3. CASE Load(t) \/ LockClock(t) \/ Answer(t)
        BY <2>2, <3>3 DEF Load, LockClock, Answer, Leave
      <3>4. CASE Complete(t)
        <4>1. parked' \subseteq parked
          BY <3>4 DEF Complete, Publish
        <4> QED BY <2>2, <3>4, <4>1 DEF Complete, Leave, Afterwards
      <3> QED BY <1>4, <3>1, <3>2, <3>3, <3>4 DEF Progress
    <2> QED BY <2>1, <2>2 DEF NoLostPermitWakeup
  <1> QED BY <1>1, <1>2, <1>3, <1>4

(* A thread asleep for a permit has an admitted thread to wake it. *)
THEOREM PermitsAreNotified == Spec => []NoLostPermitWakeup
  <1>1. Init => NoLostPermitWakeup
    BY DEF Init, NoLostPermitWakeup
  <1>2. Typed /\ LimiterBound /\ NoLostPermitWakeup /\ [Next]_vars => NoLostPermitWakeup'
    <2> SUFFICES ASSUME Typed, LimiterBound, NoLostPermitWakeup, [Next]_vars
                 PROVE  NoLostPermitWakeup'
      OBVIOUS
    <2>1. CASE UNCHANGED vars
      BY <2>1 DEF vars, callVars, NoLostPermitWakeup, Holders
    <2>2. CASE Next
      BY <2>2, PermitStep DEF Next
    <2> QED BY <2>1, <2>2
  <1> QED BY <1>1, <1>2, LimiterInvariant, PTL DEF Spec
-----------------------------------------------------------------------------
(* Finite sums.  A set of numbers that has zero and with every number the
   next one has them all; what holds of sets of every size follows from it. *)
LEMMA NatSetInduction ==
  ASSUME NEW T \in SUBSET Nat, 0 \in T, \A n \in T : n + 1 \in T
  PROVE  T = Nat
  <1> DEFINE R == OpToRel(<, Nat)
             U == Nat \ T
  <1> SUFFICES ASSUME U # {} PROVE FALSE
    OBVIOUS
  <1>1. PICK x \in U : \A y \in U : <<y, x>> \notin R
    <2>1. IsWellFoundedOn(R, Nat) /\ U \subseteq Nat
      BY NatLessThanWellFounded
    <2> HIDE DEF R, U
    <2> QED BY <2>1, WFMin
  <1>2. x - 1 \in U
    OBVIOUS
  <1>3. <<x - 1, x>> \in R
    BY <1>2 DEF OpToRel
  <1> QED BY <1>1, <1>2, <1>3

(* A sum is the value at S of a function that adds up the subsets of S one
   element at a time, taken in the order in which CHOOSE yields them.  Adds
   says that g is such a function for f; Whole and Agree, that f is an integer
   on S and that k is the same there. *)
First(s) == CHOOSE x \in s : TRUE
Adds(g, f, D) ==
  g = [s \in D |-> IF s = {} THEN 0 ELSE f[First(s)] + g[s \ {First(s)}]]
Whole(f, S) == \A x \in S : f[x] \in Int
Agree(f, k, S) == \A x \in S : f[x] = k[x]
Additive(g, f, D) ==
  \A s \in D : g[s] \in Int /\ \A x \in s : g[s] = f[x] + g[s \ {x}]
Small(S, n) == {s \in SUBSET S : Cardinality(s) <= n}

LEMMA FirstIn == ASSUME NEW s, s # {} PROVE First(s) \in s
  BY DEF First

(* Every f has one; by induction on the size of the subsets it adds up. *)
LEMMA AdderExists ==
  ASSUME NEW S, IsFiniteSet(S), NEW f
  PROVE  \E g : Adds(g, f, SUBSET S)
  <1> DEFINE T == {n \in Nat : \E g : Adds(g, f, Small(S, n))}
  <1>0. \A s \in SUBSET S :
          IsFiniteSet(s) /\ Cardinality(s) \in Nat /\ Cardinality(s) <= Cardinality(S)
    BY FS_Subset, FS_CardinalityType
  <1>1. 0 \in T
    <2> DEFINE g == [s \in {{}} |-> 0]
    <2>1. Small(S, 0) = {{}}
      BY <1>0, FS_EmptySet DEF Small
    <2>2. g = [s \in {{}} |-> IF s = {} THEN 0 ELSE f[First(s)] + g[s \ {First(s)}]]
      OBVIOUS
    <2>3. Adds(g, f, Small(S, 0))
      BY <2>1, <2>2 DEF Adds
    <2> HIDE DEF g
    <2> QED BY <2>3
  <1>2. ASSUME NEW n \in T PROVE n + 1 \in T
    <2>1. PICK g : Adds(g, f, Small(S, n))
      OBVIOUS
    <2> DEFINE h == [s \in Small(S, n + 1) |->
                       IF s = {} THEN 0 ELSE f[First(s)] + g[s \ {First(s)}]]
    <2>2. ASSUME NEW s \in Small(S, n + 1), s # {}
          PROVE  s \ {First(s)} \in Small(S, n) /\ s \ {First(s)} \in Small(S, n + 1)
      BY <1>0, <2>2, FirstIn, FS_RemoveElement DEF Small
    <2>3. ASSUME NEW s \in Small(S, n)
          PROVE  h[s] = g[s]
      <3>1. s \in Small(S, n + 1)
        BY <1>0 DEF Small
      <3>2. g[s] = IF s = {} THEN 0 ELSE f[First(s)] + g[s \ {First(s)}]
        BY <2>1 DEF Adds
      <3> QED BY <3>1, <3>2
    <2>4. ASSUME NEW s \in Small(S, n + 1)
          PROVE  h[s] = IF s = {} THEN 0 ELSE f[First(s)] + h[s \ {First(s)}]
      BY <2>2, <2>3
    <2>5. Adds(h, f, Small(S, n + 1))
      BY <2>4 DEF Adds
    <2> HIDE DEF h
    <2> QED BY <2>5
  <1>3. T = Nat
    <2> HIDE DEF T
    <2>1. T \in SUBSET Nat
      BY DEF T
    <2> QED BY <1>1, <1>2, <2>1, NatSetInduction
  <1>4. Small(S, Cardinality(S)) = SUBSET S
    BY <1>0 DEF Small
  <1>5. Cardinality(S) \in T
    BY <1>3, FS_CardinalityType
  <1> QED BY <1>4, <1>5

(* The order does not matter: whichever element is taken first. *)
LEMMA AdderAdds ==
  ASSUME NEW S, IsFiniteSet(S), NEW f, Whole(f, S),
         NEW g, Adds(g, f, SUBSET S)
  PROVE  Additive(g, f, SUBSET S)
  <1> DEFINE Good(s) == g[s] \in Int /\ \A x \in s : g[s] = f[x] + g[s \ {x}]
             T == {n \in Nat : \A s \in SUBSET S : Cardinality(s) <= n => Good(s)}
  <1>0. \A s \in SUBSET S : IsFiniteSet(s) /\ Cardinality(s) \in Nat
    BY FS_Subset, FS_CardinalityType
  <1>1. 0 \in T
    <2> SUFFICES ASSUME NEW s \in SUBSET S, Cardinality(s) <= 0 PROVE Good(s)
      OBVIOUS
    <2>1. s = {}
      BY <1>0, FS_EmptySet
    <2> QED BY <2>1 DEF Adds
  <1>2. ASSUME NEW n \in T PROVE n + 1 \in T
    <2> SUFFICES ASSUME NEW s \in SUBSET S, Cardinality(s) <= n + 1 PROVE Good(s)
      OBVIOUS
    <2>0. CASE s = {}
      BY <2>0 DEF Adds
    <2>1. CASE s # {}
      <3> DEFINE c == First(s)
      <3>1. c \in s /\ f[c] \in Int
        BY <2>1, FirstIn DEF Whole
      <3>2. g[s] = f[c] + g[s \ {c}]
        BY <2>1 DEF Adds
      <3> HIDE DEF c
      <3>3. ASSUME NEW x \in s
            PROVE  /\ s \ {x} \in SUBSET S /\ Cardinality(s \ {x}) <= n
                   /\ Good(s \ {x})
        <4>1. Cardinality(s \ {x}) = Cardinality(s) - 1 /\ s \ {x} \in SUBSET S
          BY <1>0, FS_RemoveElement
        <4>2. Cardinality(s \ {x}) <= n
          BY <1>0, <4>1
        <4> QED BY <4>1, <4>2
      <3>4. ASSUME NEW x \in s PROVE g[s] = f[x] + g[s \ {x}]
        <4>1. CASE x = c
          BY <3>2, <4>1
        <4>2. CASE x # c
          <5> DEFINE u == s \ {x, c}
          <5>1. (s \ {c}) \ {x} = u /\ (s \ {x}) \ {c} = u
            OBVIOUS
          <5>2. g[s \ {c}] = f[x] + g[u]
            <6>1. Good(s \ {c}) /\ x \in s \ {c}
              BY <3>1, <3>3, <4>2
            <6>2. g[s \ {c}] = f[x] + g[(s \ {c}) \ {x}]
              BY <6>1
            <6> QED BY <5>1, <6>2
          <5>3. g[s \ {x}] = f[c] + g[u]
            <6>1. Good(s \ {x}) /\ c \in s \ {x}
              BY <3>1, <3>3, <4>2
            <6>2. g[s \ {x}] = f[c] + g[(s \ {x}) \ {c}]
              BY <6>1
            <6> QED BY <5>1, <6>2
          <5>4. g[u] \in Int
            <6>1. u \in SUBSET S /\ u \in SUBSET (s \ {x}) /\ IsFiniteSet(s \ {x})
              BY <1>0
            <6>2. Cardinality(u) <= Cardinality(s \ {x})
              BY <6>1, FS_Subset
            <6>3. Cardinality(u) \in Nat /\ Cardinality(s \ {x}) \in Nat
              BY <1>0, <6>1
            <6>4. Cardinality(s \ {x}) <= n
              BY <3>3
            <6>5. Cardinality(u) <= n
              BY <6>2, <6>3, <6>4
            <6> QED BY <6>1, <6>5
          <5>5. f[x] \in Int
            BY DEF Whole
          <5> HIDE DEF u
          <5> QED BY <3>1, <3>2, <5>2, <5>3, <5>4, <5>5
        <4> QED BY <4>1, <4>2
      <3>5. g[s] \in Int
        BY <3>1, <3>2, <3>3
      <3> QED BY <3>4, <3>5
    <2> QED BY <2>0, <2>1
  <1>3. T = Nat
    <2> HIDE DEF T
    <2>1. T \in SUBSET Nat
      BY DEF T
    <2> QED BY <1>1, <1>2, <2>1, NatSetInduction
  <1>4. ASSUME NEW s \in SUBSET S PROVE Good(s)
    <2>1. Cardinality(s) \in T /\ Cardinality(s) <= Cardinality(s)
      BY <1>0, <1>3
    <2> QED BY <2>1
  <1> QED BY <1>4 DEF Additive

(* Neither does the set whose subsets are added up. *)
LEMMA AddersAgree ==
  ASSUME NEW S, IsFiniteSet(S), NEW f, NEW g, Adds(g, f, SUBSET S),
         NEW U, IsFiniteSet(U), NEW k, NEW h, Adds(h, k, SUBSET U),
         S \subseteq U, Agree(f, k, S)
  PROVE  g[S] = h[S]
  <1> DEFINE T == {n \in Nat : \A s \in SUBSET S : Cardinality(s) <= n => g[s] = h[s]}
  <1>0. \A s \in SUBSET S : IsFiniteSet(s) /\ Cardinality(s) \in Nat
    BY FS_Subset, FS_CardinalityType
  <1>1. 0 \in T
    <2> SUFFICES ASSUME NEW s \in SUBSET S, Cardinality(s) <= 0 PROVE g[s] = h[s]
      OBVIOUS
    <2>1. s = {} /\ s \in SUBSET U
      BY <1>0, FS_EmptySet
    <2> QED BY <2>1 DEF Adds
  <1>2. ASSUME NEW n \in T PROVE n + 1 \in T
    <2> SUFFICES ASSUME NEW s \in SUBSET S, Cardinality(s) <= n + 1 PROVE g[s] = h[s]
      OBVIOUS
    <2>0. CASE s = {}
      BY <2>0 DEF Adds
    <2>1. CASE s # {}
      <3>1. First(s) \in s
        BY <2>1, FirstIn
      <3>2. g[s] = f[First(s)] + g[s \ {First(s)}] /\ h[s] = k[First(s)] + h[s \ {First(s)}]
        BY <2>1 DEF Adds
      <3>3. Cardinality(s \ {First(s)}) = Cardinality(s) - 1 /\ s \ {First(s)} \in SUBSET S
        BY <1>0, <3>1, FS_RemoveElement
      <3>4. Cardinality(s \ {First(s)}) <= n
        BY <1>0, <3>3
      <3> QED BY <3>1, <3>2, <3>3, <3>4 DEF Agree
    <2> QED BY <2>0, <2>1
  <1>3. T = Nat
    <2> HIDE DEF T
    <2>1. T \in SUBSET Nat
      BY DEF T
    <2> QED BY <1>1, <1>2, <2>1, NatSetInduction
  <1>4. Cardinality(S) \in T /\ Cardinality(S) <= Cardinality(S) /\ S \in SUBSET S
    BY <1>0, <1>3
  <1> QED BY <1>4

LEMMA TotalAdder ==
  ASSUME NEW S, IsFiniteSet(S), NEW f
  PROVE  \E g : Adds(g, f, SUBSET S) /\ Total(f, S) = g[S]
  <1> DEFINE g == CHOOSE g : Adds(g, f, SUBSET S)
  <1>1. Adds(g, f, SUBSET S)
    BY AdderExists
  <1>2. Total(f, S) = g[S]
    BY DEF Total, MapThenSumSet, MapThenFoldSet, Adds, First
  <1> QED BY <1>1, <1>2

LEMMA TotalType ==
  ASSUME NEW S, IsFiniteSet(S), NEW f, Whole(f, S)
  PROVE  Total(f, S) \in Int
  <1>1. PICK g : Adds(g, f, SUBSET S) /\ Total(f, S) = g[S]
    BY TotalAdder
  <1>2. Additive(g, f, SUBSET S)
    BY <1>1, AdderAdds
  <1> QED BY <1>1, <1>2 DEF Additive

LEMMA TotalSame ==
  ASSUME NEW S, IsFiniteSet(S), NEW f, Whole(f, S), NEW k, Agree(f, k, S)
  PROVE  Total(k, S) = Total(f, S)
  <1>1. PICK g : Adds(g, f, SUBSET S) /\ Total(f, S) = g[S]
    BY TotalAdder
  <1>2. PICK h : Adds(h, k, SUBSET S) /\ Total(k, S) = h[S]
    BY TotalAdder
  <1> QED BY <1>1, <1>2, AddersAgree

LEMMA TotalWithout ==
  ASSUME NEW S, IsFiniteSet(S), NEW f, Whole(f, S), NEW x \in S
  PROVE  Total(f, S) = f[x] + Total(f, S \ {x})
  <1>1. PICK g : Adds(g, f, SUBSET S) /\ Total(f, S) = g[S]
    BY TotalAdder
  <1>2. g[S] = f[x] + g[S \ {x}]
    <2>1. Additive(g, f, SUBSET S)
      BY <1>1, AdderAdds
    <2> QED BY <2>1 DEF Additive
  <1>3. IsFiniteSet(S \ {x})
    BY FS_RemoveElement
  <1>4. PICK h : Adds(h, f, SUBSET (S \ {x})) /\ Total(f, S \ {x}) = h[S \ {x}]
    BY <1>3, TotalAdder
  <1>5. h[S \ {x}] = g[S \ {x}]
    <2>1. Agree(f, f, S \ {x}) /\ S \ {x} \subseteq S
      BY DEF Agree
    <2> QED BY <1>1, <1>3, <1>4, <2>1, AddersAgree
  <1> QED BY <1>1, <1>2, <1>4, <1>5

LEMMA TotalNone == ASSUME NEW f PROVE Total(f, {}) = 0
  BY TotalAdder, FS_EmptySet DEF Adds

LEMMA TotalNatural ==
  ASSUME NEW S, IsFiniteSet(S), NEW f, \A x \in S : f[x] \in Nat
  PROVE  Total(f, S) \in Nat
  <1>1. PICK g : Adds(g, f, SUBSET S) /\ Total(f, S) = g[S]
    BY TotalAdder
  <1>2. Additive(g, f, SUBSET S)
    <2>1. Whole(f, S)
      BY DEF Whole
    <2> QED BY <1>1, <2>1, AdderAdds
  <1> DEFINE T == {n \in Nat : \A s \in SUBSET S : Cardinality(s) <= n => g[s] >= 0}
  <1>3. \A s \in SUBSET S : IsFiniteSet(s) /\ Cardinality(s) \in Nat
    BY FS_Subset, FS_CardinalityType
  <1>4. ASSUME NEW n \in Nat, n = 0 \/ n - 1 \in T PROVE n \in T
    <2> SUFFICES ASSUME NEW s \in SUBSET S, Cardinality(s) <= n PROVE g[s] >= 0
      OBVIOUS
    <2>0. CASE s = {}
      BY <1>1, <2>0 DEF Adds
    <2>1. ASSUME NEW x \in s PROVE g[s] >= 0
      <3>1. Cardinality(s \ {x}) = Cardinality(s) - 1 /\ s \ {x} \in SUBSET S
        BY <1>3, FS_RemoveElement
      <3>2. n # 0 /\ Cardinality(s \ {x}) <= n - 1
        BY <1>3, <3>1
      <3>3. g[s \ {x}] >= 0
        BY <1>4, <3>1, <3>2
      <3>4. g[s] = f[x] + g[s \ {x}] /\ g[s \ {x}] \in Int /\ f[x] \in Nat
        BY <1>2, <3>1 DEF Additive
      <3> QED BY <3>3, <3>4
    <2> QED BY <2>0, <2>1
  <1>5. T = Nat
    <2>1. 0 \in T /\ T \in SUBSET Nat
      BY <1>4
    <2>2. ASSUME NEW n \in T PROVE n + 1 \in T
      BY <1>4
    <2> HIDE DEF T
    <2> QED BY <2>1, <2>2, NatSetInduction
  <1>6. Cardinality(S) \in T /\ Cardinality(S) <= Cardinality(S) /\ S \in SUBSET S
    BY <1>3, <1>5
  <1>7. g[S] \in Int
    BY <1>2 DEF Additive
  <1> QED BY <1>1, <1>6, <1>7
-----------------------------------------------------------------------------
(* The books.  The CLOCK lists what is ready, so there are finitely many. *)
LEMMA ReadyFinite == ASSUME Typed, QueueIsReadySet PROVE IsFiniteSet(Ready)
  <1>1. Len(queue) \in Nat /\ IsFiniteSet(1..Len(queue)) /\ queue \in Seq(Slots)
    BY FS_Interval DEF Typed, TypeOK
  <1>2. queue \in [1..Len(queue) -> Ready] /\ \A i \in Ready : \E n \in 1..Len(queue) : queue[n] = i
    BY <1>1 DEF QueueIsReadySet, Members
  <1>3. queue \in Surjection(1..Len(queue), Ready)
    BY <1>2 DEF Surjection
  <1> QED BY <1>1, <1>3, FS_Surjection

LEMMA SizesWhole == ASSUME NEW S \in SUBSET Slots PROVE Whole(Size, S)
  BY CacheAssumption DEF CacheAssumption, Whole

LEMMA AdmissionWhole == ASSUME Typed PROVE Whole(Admission, Holders)
  BY CacheAssumption
  DEF CacheAssumption, Whole, Admission, Holders, Admitted, Typed, CallsOK

ResidentBalance == resident = Total(Size, Ready)
AdmittedBalance == bytes = Total(Admission, Holders)

(* What is resident changes with an eviction and with a publication. *)
LEMMA ResidentStep ==
  ASSUME Typed, Typed', QueueIsReadySet, QueueIsReadySet', ResidentBalance,
         NEW t \in Threads, Call(t) \/ Progress(t)
  PROVE  ResidentBalance'
  <1> USE DEF slotVars, clockVars
  <1>0. ASSUME UNCHANGED <<value, resident>> PROVE ResidentBalance'
    <2>1. Ready' = Ready
      BY <1>0 DEF Ready
    <2> QED BY <1>0, <2>1 DEF ResidentBalance
  <1>1. CASE Call(t)
    <2> PICK i \in Slots : Hit(t, i) \/ Probe(t, i) \/ Coalesce(t, i) \/ Lead(t, i)
      BY <1>1 DEF Call
    <2>1. Ready' = Ready /\ resident' = resident
      BY DEF Typed, TypeOK, Hit, Probe, Coalesce, Lead, Vacant, Ready
    <2> QED BY <2>1 DEF ResidentBalance
  <1>2. CASE Acquire(t) \/ AwaitPermit(t) \/ Load(t) \/ Release(t)
             \/ Await(t) \/ Answer(t) \/ LockClock(t) \/ SecondChance(t)
    BY <1>0, <1>2
    DEF Acquire, AwaitPermit, Load, Release, Await, Answer, LockClock, SecondChance
  <1>3. CASE Evict(t)
    <2> DEFINE victim == Head(queue)
    <2>1. victim \in Ready
      BY <1>3, Pop DEF Evict, Typed, TypeOK, QueueIsReadySet
    <2>2. Ready' = Ready \ {victim} /\ resident' = resident - Size[victim]
      BY <1>3, <2>1 DEF Evict, Freed, Ready, Typed, TypeOK
    <2>3. IsFiniteSet(Ready) /\ Whole(Size, Ready) /\ Whole(Size, Ready')
      BY ReadyFinite, SizesWhole DEF Ready
    <2>4. Total(Size, Ready) = Size[victim] + Total(Size, Ready \ {victim})
      BY <2>1, <2>3, TotalWithout
    <2>5. Total(Size, Ready') \in Int /\ Size[victim] \in Int
      BY <2>1, <2>2, <2>3, TotalType, FS_RemoveElement DEF Whole
    <2> QED BY <2>2, <2>4, <2>5 DEF ResidentBalance
  <1>4. CASE Complete(t)
    <2> DEFINE i == job[t]
    <2>1. CASE Current(t) /\ Cacheable(t) /\ ~Crowded(t)
      <3>1. resident' = resident + Size[i] /\ i \in Slots /\ i \notin Ready
            /\ Ready' = Ready \cup {i}
        BY <1>4, <2>1
        DEF Complete, Publish, Store, Current, Ready, Typed, TypeOK, CallsOK
      <3>2. IsFiniteSet(Ready') /\ Whole(Size, Ready') /\ Whole(Size, Ready)
            /\ IsFiniteSet(Ready)
        BY <3>1, ReadyFinite, SizesWhole, FS_AddElement DEF Ready
      <3>3. Total(Size, Ready') = Size[i] + Total(Size, Ready' \ {i})
        BY <3>1, <3>2, TotalWithout
      <3>4. Total(Size, Ready' \ {i}) = Total(Size, Ready)
        <4>1. Ready' \ {i} = Ready
          BY <3>1
        <4> QED BY <4>1, Zenon
      <3>5. Total(Size, Ready) \in Int /\ Size[i] \in Int
        BY <3>1, <3>2, TotalType DEF Whole
      <3> QED BY <3>1, <3>3, <3>4, <3>5 DEF ResidentBalance
    <2>2. CASE ~(Current(t) /\ Cacheable(t) /\ ~Crowded(t))
      <3>1. Ready' = Ready /\ resident' = resident
        BY <1>4, <2>2 DEF Complete, Publish, Discard, Current, Ready, Typed, TypeOK
      <3> QED BY <3>1 DEF ResidentBalance
    <2> QED BY <2>1, <2>2
  <1> QED BY <1>1, <1>2, <1>3, <1>4 DEF Progress

(* Nobody changes the entry it reads while it holds a permit. *)
LEMMA HoldersKeepJobs ==
  ASSUME Typed, NEW t \in Threads, Call(t) \/ Progress(t),
         NEW u \in Holders \cap Holders'
  PROVE  job'[u] = job[u]
  <1>1. CASE Call(t)
    <2> PICK i \in Slots : Hit(t, i) \/ Probe(t, i) \/ Coalesce(t, i) \/ Lead(t, i)
      BY <1>1 DEF Call
    <2> QED BY DEF Hit, Probe, Coalesce, Lead, callVars, Typed, TypeOK, Holders, Admitted
  <1>2. CASE Acquire(t) \/ AwaitPermit(t) \/ Load(t) \/ Await(t) \/ LockClock(t)
             \/ SecondChance(t) \/ Evict(t)
    BY <1>2 DEF Acquire, AwaitPermit, Load, Await, LockClock, SecondChance, Evict,
       callVars
  <1>3. CASE Release(t) \/ Answer(t) \/ Complete(t)
    BY <1>3 DEF Release, Answer, Complete, Leave, Typed, TypeOK, Holders, Admitted
  <1> QED BY <1>1, <1>2, <1>3 DEF Progress

(* What is admitted changes with a permit taken and with one dropped. *)
LEMMA AdmittedStep ==
  ASSUME Typed, Typed', AdmittedBalance, NEW t \in Threads, Call(t) \/ Progress(t)
  PROVE  AdmittedBalance'
  <1>0. IsFiniteSet(Holders) /\ IsFiniteSet(Holders')
        /\ Whole(Admission, Holders) /\ Whole(Admission', Holders')
    <2>1. IsFiniteSet(Holders) /\ IsFiniteSet(Holders')
      BY CacheAssumption, FS_Subset DEF CacheAssumption, Holders
    <2>2. Whole(Admission', Holders')
      BY CacheAssumption
      DEF CacheAssumption, Whole, Admission, Holders, Admitted, Typed, CallsOK
    <2> QED BY <2>1, <2>2, AdmissionWhole
  <1>1. Agree(Admission, Admission', Holders \cap Holders')
    BY HoldersKeepJobs DEF Agree, Admission
  <1>2. CASE Acquire(t)
    <2>1. Holders' = Holders \cup {t} /\ t \notin Holders /\ Holders' \ {t} = Holders
          /\ Holders \cap Holders' = Holders
      BY <1>2 DEF Typed, TypeOK, CallsOK, Acquire, Holders, Admitted, Representable,
         callVars
    <2>2. Total(Admission', Holders') = Admission'[t] + Total(Admission', Holders' \ {t})
      BY <1>0, <2>1, TotalWithout
    <2>3. Total(Admission', Holders) = Total(Admission, Holders)
      BY <1>0, <1>1, <2>1, TotalSame
    <2>4. Admission'[t] = Size[job[t]] /\ bytes' = bytes + Size[job[t]]
      BY <1>2, <2>1 DEF Acquire, Admission, callVars
    <2>5. Total(Admission, Holders) \in Int /\ Admission'[t] \in Int
      BY <1>0, <2>1, TotalType DEF Whole
    <2>6. Total(Admission', Holders' \ {t}) = Total(Admission', Holders)
      BY <2>1, Zenon
    <2> QED BY <2>2, <2>3, <2>4, <2>5, <2>6 DEF AdmittedBalance
  <1>3. CASE Release(t)
    <2>1. Holders' = Holders \ {t} /\ t \in Holders /\ Holders \cap Holders' = Holders'
      BY <1>3 DEF Typed, TypeOK, CallsOK, Release, Leave, Holders, Admitted,
         Representable
    <2>2. Total(Admission, Holders) = Admission[t] + Total(Admission, Holders \ {t})
      BY <1>0, <2>1, TotalWithout
    <2>3. Total(Admission', Holders') = Total(Admission, Holders')
      <3>1. Whole(Admission, Holders')
        BY <1>0, <2>1 DEF Whole
      <3> QED BY <1>0, <1>1, <2>1, <3>1, TotalSame
    <2>4. Admission[t] = Size[job[t]] /\ bytes' = bytes - Size[job[t]]
      BY <1>3, <2>1 DEF Release, Admission
    <2>5. Total(Admission', Holders') \in Int /\ Admission[t] \in Int
      BY <1>0, <2>1, TotalType DEF Whole
    <2> QED BY <2>1, <2>2, <2>3, <2>4, <2>5 DEF AdmittedBalance
  <1>4. CASE ~Acquire(t) /\ ~Release(t)
    <2>1. Holders' = Holders /\ bytes' = bytes
      BY <1>4, HoldersStep DEF Progress
    <2>2. Total(Admission', Holders) = Total(Admission, Holders)
      BY <1>0, <1>1, <2>1, TotalSame
    <2> QED BY <2>1, <2>2 DEF AdmittedBalance
  <1> QED BY <1>2, <1>3, <1>4

(* The bytes the cache accounts for are the bytes it holds, and the bytes
   the limiter accounts for are those of the decodes it admitted. *)
THEOREM CountersBalance == Spec => []BooksBalance
  <1>1. Init => ResidentBalance /\ AdmittedBalance
    <2> SUFFICES ASSUME Init PROVE ResidentBalance /\ AdmittedBalance
      OBVIOUS
    <2>1. Ready = {} /\ Holders = {} /\ resident = 0 /\ bytes = 0
      BY DEF Init, Ready, Holders, Admitted
    <2> QED BY <2>1, TotalNone DEF ResidentBalance, AdmittedBalance
  <1>2. Typed /\ Typed' /\ QueueIsReadySet /\ QueueIsReadySet'
        /\ ResidentBalance /\ AdmittedBalance /\ [Next]_vars
        => (ResidentBalance /\ AdmittedBalance)'
    <2>1. ASSUME UNCHANGED vars, ResidentBalance, AdmittedBalance
          PROVE  ResidentBalance' /\ AdmittedBalance'
      <3>1. Ready' = Ready /\ Holders' = Holders /\ Admission' = Admission
            /\ UNCHANGED <<resident, bytes>>
        BY <2>1 DEF vars, slotVars, clockVars, limiterVars, callVars, Ready, Holders,
           Admission
      <3> QED BY <2>1, <3>1 DEF ResidentBalance, AdmittedBalance
    <2> QED BY <2>1, ResidentStep, AdmittedStep DEF Next
  <1>3. ResidentBalance /\ AdmittedBalance => BooksBalance
    BY DEF ResidentBalance, AdmittedBalance, BooksBalance
  <1>4. ClockInv => QueueIsReadySet
    BY DEF ClockInv
  <1> QED BY <1>1, <1>2, <1>3, <1>4, LimiterInvariant, ClockInvariant, PTL DEF Spec

(* So neither counter, unsigned in the code, is ever taken below zero. *)
THEOREM CountersNeverWrap == Spec => [](resident \in Nat /\ bytes \in Nat)
  <1>1. Typed /\ ClockInv /\ BooksBalance => resident \in Nat /\ bytes \in Nat
    <2> SUFFICES ASSUME Typed, ClockInv, BooksBalance
                 PROVE  resident \in Nat /\ bytes \in Nat
      OBVIOUS
    <2>1. IsFiniteSet(Ready) /\ \A i \in Ready : Size[i] \in Nat
      BY ReadyFinite, CacheAssumption DEF ClockInv, CacheAssumption, Ready
    <2>2. IsFiniteSet(Holders) /\ \A t \in Holders : Admission[t] \in Nat
      BY HoldersFinite, CacheAssumption
      DEF CacheAssumption, Admission, Holders, Admitted, Typed, CallsOK
    <2> QED BY <2>1, <2>2, TotalNatural DEF BooksBalance
  <1> QED BY <1>1, CountersBalance, LimiterInvariant, ClockInvariant, PTL
-----------------------------------------------------------------------------
(* EntryCache implements SharedReads: every step is a step of the promise or
   leaves what it speaks of unchanged. *)
promiseVars == <<Decoding, Asked, Answers, Ready>>

Supported == Typed /\ QueueIsReadySet /\ FlightInv

(* A step that moves nobody between leading, waiting and neither. *)
LEMMA Stutters ==
  ASSUME UNCHANGED <<value, flights, job, flight>>, Leaders' = Leaders,
         \A u \in Threads : pc'[u] = "wait" <=> pc[u] = "wait"
  PROVE  UNCHANGED promiseVars
  BY DEF promiseVars, Decoding, Asked, Answers, Ready, Leaders

LEMMA InitPromise == Init => Promise!Init
  BY DEF Init, Promise!Init, Decoding, Asked, Answers, Ready, Leaders, Leading

LEMMA CoalesceJoins ==
  ASSUME Supported, NEW t \in Threads, NEW i \in Slots, Coalesce(t, i)
  PROVE  Promise!Join(t, i)
  <1>1. /\ pc[t] = "idle" /\ value[i] = "loading" /\ pc'[t] = "wait"
        /\ job'[t] = i /\ flight'[t] = current[i]
        /\ \A u \in Threads \ {t} : pc'[u] = pc[u] /\ job'[u] = job[u]
                                   /\ flight'[u] = flight[u]
        /\ UNCHANGED <<value, flights>>
    BY DEF Supported, Typed, TypeOK, Coalesce, slotVars
  <1>2. t \notin Leaders /\ Leaders' = Leaders
    BY <1>1 DEF Leaders, Leading
  <1>3. PICK u \in Leaders : job[u] = i /\ flight[u] = current[i] /\ flights[current[i]] = "none"
    BY <1>1 DEF Supported, FlightInv, OneDecoderPerSlot, Current
  <1>4. Promise!Free(t)
    BY <1>1, <1>2 DEF Promise!Free, Asked, Decoding
  <1>5. Promise!Decoded(i)
    BY <1>3 DEF Promise!Decoded, Decoding, Leaders
  <1>6. Asked' = [Asked EXCEPT ![t] = i]
    BY <1>1 DEF Asked
  <1>7. Answers' = Answers
    BY <1>1, <1>3 DEF Answers
  <1>8. Decoding' = Decoding /\ Ready' = Ready
    BY <1>1, <1>2 DEF Decoding, Ready, Leaders
  <1> QED BY <1>4, <1>5, <1>6, <1>7, <1>8 DEF Promise!Join

LEMMA LeadDecodes ==
  ASSUME Supported, NEW t \in Threads, NEW i \in Slots, Lead(t, i)
  PROVE  Promise!Decode(t, i)
  <1>1. /\ pc[t] = "idle" /\ value[i] = "empty" /\ pc'[t] \in Leading
        /\ job'[t] = i
        /\ \A u \in Threads \ {t} : pc'[u] = pc[u] /\ job'[u] = job[u]
                                   /\ flight'[u] = flight[u]
        /\ value' = [value EXCEPT ![i] = "loading"]
        /\ flights' = Append(flights, "none")
    BY DEF Supported, Typed, TypeOK, Lead, Vacant, Leading
  <1>2. t \notin Leaders /\ Leaders' = Leaders \cup {t}
    BY <1>1 DEF Leaders, Leading
  <1>3. \A u \in Leaders : u \in Threads \ {t} /\ job[u] # i
    BY <1>1, <1>2 DEF Leaders, Supported, FlightInv, OneDecoderPerSlot, Current
  <1>4. Promise!Free(t) /\ ~Promise!Decoded(i)
    BY <1>1, <1>2, <1>3 DEF Promise!Free, Promise!Decoded, Asked, Decoding
  <1>5. i \notin Ready /\ Ready' = Ready
    BY <1>1 DEF Ready, Supported, Typed, TypeOK
  <1>6. Decoding' = Decoding \cup {<<t, i>>}
    BY <1>1, <1>2, <1>3 DEF Decoding
  <1>7. Asked' = Asked
    BY <1>1 DEF Asked, Leading
  <1>8. Answers' = Answers
    <2>1. \A u \in Threads : pc[u] = "wait" => flights'[flight[u]] = flights[flight[u]]
      BY <1>1 DEF Supported, Typed, TypeOK, CallsOK, FlightIds
    <2> QED BY <1>1, <2>1 DEF Answers, Leading
  <1> QED BY <1>4, <1>5, <1>6, <1>7, <1>8 DEF Promise!Decode

LEMMA EvictGivesUp ==
  ASSUME Supported, NEW t \in Threads, Evict(t)
  PROVE  Promise!GiveUp(Head(queue)) /\ Head(queue) \in Slots
  <1>1. Head(queue) \in Ready
    BY Pop DEF Evict, Supported, Typed, TypeOK, QueueIsReadySet
  <1>2. Ready' = Ready \ {Head(queue)}
    BY <1>1 DEF Evict, Ready, Supported, Typed, TypeOK
  <1>3. /\ Decoding' = Decoding /\ Asked' = Asked /\ Answers' = Answers
        /\ <<t, job[t]>> \in Decoding
    BY DEF Evict, Decoding, Asked, Answers, Leaders, Leading, callVars
  <1> QED BY <1>1, <1>2, <1>3 DEF Promise!GiveUp, Ready

LEMMA AnswerReturns ==
  ASSUME Supported, NEW t \in Threads, Answer(t)
  PROVE  Promise!Return(t)
  <1>1. /\ pc[t] = "wait" /\ pc'[t] = "idle" /\ flights[flight[t]] # "none"
        /\ \A u \in Threads \ {t} : pc'[u] = pc[u] /\ job'[u] = job[u]
                                   /\ flight'[u] = flight[u]
        /\ UNCHANGED <<value, flights>>
    BY DEF Supported, Typed, TypeOK, Answer, Leave, slotVars
  <1>2. t \notin Leaders /\ Leaders' = Leaders
    BY <1>1 DEF Leaders, Leading
  <1>3. Decoding' = Decoding /\ Ready' = Ready
    BY <1>1, <1>2 DEF Decoding, Ready, Leaders
  <1>4. /\ Asked' = [Asked EXCEPT ![t] = NoSlot]
        /\ Answers' = [Answers EXCEPT ![t] = "none"]
        /\ Answers[t] # "none"
    BY <1>1 DEF Asked, Answers
  <1> QED BY <1>3, <1>4 DEF Promise!Return

LEMMA CompleteFinishes ==
  ASSUME Supported, NEW t \in Threads, Complete(t)
  PROVE  Promise!Finish(t, job[t], outcome[t]) /\ job[t] \in Slots /\ outcome[t] \in Results
  <1> DEFINE i == job[t]
             f == flight[t]
  <1>1. /\ t \in Leaders /\ i \in Slots /\ f \in 1..Len(flights)
        /\ outcome[t] \in Results /\ Current(t) /\ flights[f] = "none"
    BY DEF Complete, Leaders, Leading, Supported, Typed, TypeOK, CallsOK, FlightIds,
       FlightInv, OneDecoderPerSlot
  <1>2. /\ flights' = [flights EXCEPT ![f] = outcome[t]]
        /\ \/ value' = [value EXCEPT ![i] = "ready"] /\ outcome[t] = "ok"
           \/ value' = [value EXCEPT ![i] = "empty"]
    BY <1>1 DEF Complete, Publish, Store, Discard, Cacheable
  <1>3. /\ pc'[t] \in {"release", "idle"} /\ pc[t] = "scan"
        /\ \A u \in Threads \ {t} : pc'[u] = pc[u] /\ job'[u] = job[u]
                                   /\ flight'[u] = flight[u]
    BY DEF Complete, Leave, Afterwards, Supported, Typed, TypeOK
  <1>4. Leaders' = Leaders \ {t}
    BY <1>3 DEF Leaders, Leading
  <1>5. \A u \in Leaders : u # t => job[u] # i /\ flight[u] # f
    BY <1>1 DEF Supported, FlightInv, OneDecoderPerSlot
  <1>6. <<t, i>> \in Decoding /\ Decoding' = Decoding \ {<<t, i>>}
    BY <1>1, <1>3, <1>4, <1>5 DEF Decoding, Leaders
  <1>7. Ready' = Ready \/ (outcome[t] = "ok" /\ Ready' = Ready \cup {i})
    BY <1>1, <1>2 DEF Ready, Current, Supported, Typed, TypeOK
  <1>8. Asked' = Asked
    BY <1>3 DEF Asked
  <1>9. ASSUME NEW u \in Threads
        PROVE  Answers'[u] = IF Asked[u] = i /\ Answers[u] = "none"
                             THEN outcome[t] ELSE Answers[u]
    <2>1. CASE pc[u] # "wait"
      BY <1>1, <1>3, <2>1, NamesAssumption DEF Asked, Answers, NamesAssumption
    <2>2. CASE pc[u] = "wait"
      <3>1. /\ u # t /\ flight[u] \in 1..Len(flights) /\ Asked[u] = job[u]
            /\ Answers[u] = flights[flight[u]] /\ Answers'[u] = flights'[flight[u]]
        BY <1>3, <2>2 DEF Asked, Answers, Supported, Typed, CallsOK, FlightIds
      <3>2. flight[u] = f <=> (flights[flight[u]] = "none" /\ job[u] = i)
        <4>1. flights[flight[u]] = "none" =>
                \E v \in Leaders : flight[v] = flight[u] /\ job[v] = job[u]
          BY <2>2 DEF Supported, FlightInv, NoOrphanWaiter
        <4> QED BY <1>1, <1>5, <4>1
      <3>3. flights'[flight[u]] =
              IF flight[u] = f THEN outcome[t] ELSE flights[flight[u]]
        BY <1>1, <1>2, <3>1 DEF Supported, Typed, TypeOK
      <3> QED BY <3>1, <3>2, <3>3
    <2> QED BY <2>1, <2>2
  <1>10. Answers' = [u \in Threads |-> IF Asked[u] = i /\ Answers[u] = "none"
                                       THEN outcome[t] ELSE Answers[u]]
    BY <1>9 DEF Answers
  <1> QED BY <1>1, <1>6, <1>7, <1>8, <1>10 DEF Promise!Finish

LEMMA StepKeepsPromise ==
  ASSUME Supported, NEW t \in Threads, Call(t) \/ Progress(t)
  PROVE  Promise!Next \/ UNCHANGED promiseVars
  <1> USE DEF slotVars, clockVars, callVars
  <1>1. CASE Call(t)
    <2> PICK i \in Slots : Hit(t, i) \/ Probe(t, i) \/ Coalesce(t, i) \/ Lead(t, i)
      BY <1>1 DEF Call
    <2>1. CASE Hit(t, i) \/ Probe(t, i)
      BY <2>1, Stutters DEF Hit, Probe, Leaders
    <2> QED BY <2>1, CoalesceJoins, LeadDecodes DEF Promise!Next
  <1>2. CASE AwaitPermit(t) \/ Await(t) \/ SecondChance(t)
    BY <1>2, Stutters DEF AwaitPermit, Await, SecondChance, Leaders
  <1>3. CASE Acquire(t) \/ Load(t) \/ LockClock(t)
    <2>1. Leaders' = Leaders
      BY <1>3 DEF Acquire, Load, LockClock, Leaders, Leading, Supported, Typed, TypeOK
    <2>2. /\ UNCHANGED <<flights, job, flight, value>>
          /\ \A u \in Threads : pc'[u] = "wait" <=> pc[u] = "wait"
      BY <1>3 DEF Acquire, Load, LockClock, Supported, Typed, TypeOK
    <2> QED BY <2>1, <2>2, Stutters
  <1>4. CASE Release(t)
    <2>1. /\ pc[t] = "release" /\ pc'[t] = "idle"
          /\ \A u \in Threads \ {t} : pc'[u] = pc[u] /\ job'[u] = job[u]
                                     /\ flight'[u] = flight[u]
          /\ UNCHANGED <<flights, value>>
      BY <1>4 DEF Release, Leave, Supported, Typed, TypeOK
    <2>2. Leaders' = Leaders /\ t \notin Leaders
      BY <2>1 DEF Leaders, Leading
    <2> QED BY <2>1, <2>2 DEF promiseVars, Decoding, Asked, Answers, Ready, Leaders
  <1>5. CASE Answer(t)
    BY <1>5, AnswerReturns DEF Promise!Next
  <1>6. CASE Evict(t)
    BY <1>6, EvictGivesUp DEF Promise!Next
  <1>7. CASE Complete(t)
    BY <1>7, CompleteFinishes DEF Promise!Next
  <1> QED BY <1>1, <1>2, <1>3, <1>4, <1>5, <1>6, <1>7 DEF Progress

(* The cache of decoded entries keeps what SharedReads promises a reader. *)
THEOREM CacheKeepsPromise == Spec => KeepsPromise
  <1>1. Supported /\ [Next]_vars => [Promise!Next]_promiseVars
    <2> SUFFICES ASSUME Supported, [Next]_vars
                 PROVE  Promise!Next \/ UNCHANGED promiseVars
      OBVIOUS
    <2>1. CASE UNCHANGED vars
      BY <2>1, Stutters DEF vars, slotVars, callVars, Leaders
    <2>2. CASE Next
      BY <2>2, StepKeepsPromise DEF Next
    <2> QED BY <2>1, <2>2
  <1>2. Typed /\ ClockInv /\ FlightInv => Supported
    BY DEF Supported, ClockInv
  <1> QED
    BY <1>1, <1>2, InitPromise, LimiterInvariant, ClockInvariant, FlightInvariant, PTL
    DEF Spec, KeepsPromise, Promise!Spec, Promise!vars, promiseVars
=============================================================================
