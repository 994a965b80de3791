--------------------------- MODULE RuntimeProofs ---------------------------
(* What Runtime keeps for any length of the queue, any number of native
   backends and any times. *)
EXTENDS Runtime, TLAPS

Events ==
  {[kind |-> "update"], [kind |-> "flush"]} \cup [kind : {"access"}, time : Times]

Catalogued ==
  /\ queue \in Seq(Events) /\ Len(queue) <= Capacity
  /\ batch \in [update : BOOLEAN, time : 0..MaxTime, reply : BOOLEAN]
  /\ writer \in {"none", "recv", "drain", "apply"}
  /\ flush \in {"none", "sending", "waiting", "ok", "failed"}
  /\ {used, best, saved} \subseteq 0..MaxTime /\ due \subseteq Times
  /\ rebuild \in {"idle", "read", "removed", "index"}

(* The rebuilding process carries the last use over the time that the
   database is not there, unless it could not read it. *)
Carries ==
  /\ rebuild \in {"idle", "index"} => used = best
  /\ rebuild \in {"read", "removed"} => saved = best
  /\ rebuild = "read" => best <= used

(* The call that a thread waits for is in the channel or in READY.  The main
   thread starts a backend only while JavaScript waits for it, or is about to
   end the process because it failed; it cleans up when JavaScript has ended,
   and waits for the writer after that. *)
Threaded ==
  /\ script \in Phases \cup Ending /\ status \in {"alive", "script", "native", "error"}
  /\ main \in {"recv", "native", "failed", "looping", "returned", "cleanup", "finish", "flush"}
  /\ ready \in BOOLEAN /\ (ready => call = "sent")
  /\ requests \in {<<>>, <<"activate">>, <<"finished">>}
  /\ requests = <<"activate">> => call = "sent" /\ ~ready
  /\ requests = <<"finished">> => script \in {"quit", "ended"}
  /\ main \in {"cleanup", "finish", "flush"} => script \in {"quit", "ended"} /\ requests = <<>>
  /\ flush # "none" => main = "flush"
  /\ script \in Ending => call = "no"
  /\ Running /\ main \in {"native", "failed"} => call \in {"sent", "error"}
  /\ main = "looping" => initialized
  /\ Running /\ script = "ended" /\ initialized => quit

(* A use that was queued was recorded, or is in the writer's hands, or still
   in the queue.  The request for an answer is the last entry. *)
IsFlush(event) == event.kind = "flush"
Followed ==
  /\ \A t \in due : t <= best \/ t <= batch.time \/ Waits(t)
  /\ writer = "none" =>
       queue = <<>> /\ batch.time = 0 /\ flush \notin {"sending", "waiting"}
  /\ flush \in {"none", "sending"} =>
       ~batch.reply /\ \A k \in 1..Len(queue) : ~IsFlush(queue[k])
  /\ flush = "waiting" =>
       IF batch.reply THEN queue = <<>>
       ELSE queue # <<>> /\ \A k \in 1..Len(queue) : IsFlush(queue[k]) <=> k = Len(queue)
  /\ flush = "ok" => queue = <<>> /\ batch.time = 0

Inv == Catalogued /\ Carries /\ Threaded /\ Followed

-----------------------------------------------------------------------------
LEMMA InitInv == Init => Inv
  <1> SUFFICES ASSUME Init PROVE Inv
    OBVIOUS
  <1> USE CatalogAssumption DEF CatalogAssumption, Init, CatalogInit, DesktopInit
  <1>1. Catalogued
    BY DEF Catalogued, NoBatch
  <1>2. Carries
    BY DEF Carries
  <1>3. Threaded
    BY DEF Threaded, Phases, Ending
  <1>4. Followed
    BY DEF Followed, NoBatch, IsFlush
  <1> QED BY <1>1, <1>2, <1>3, <1>4 DEF Inv

(* The database: what is used is what was recorded last, or the rebuilding
   process has it. *)
LEMMA CatalogCarries ==
  ASSUME Catalogued, Carries, [WriterStep \/ CatalogOthers]_<<used, best, rebuild, saved>>
  PROVE  Carries'
  <1> USE CatalogAssumption DEF CatalogAssumption, Catalogued, Carries, Record, Latest, Later,
        Unlocked, Rebuild, KeptUse, dataVars, rebuildVars, writerVars, Times
  <1>1. CASE Receive \/ Drained \/ Index \/ Reply \/ UNCHANGED <<used, best, rebuild, saved>>
    BY <1>1 DEF Receive, Drained, Index, Reply
  <1>2. CASE RecordAccess
    BY <1>2 DEF RecordAccess
  <1>3. CASE ReadUses \/ RemoveFiles \/ WriteUses \/ IndexAll \/ GiveUp
    BY <1>3 DEF ReadUses, RemoveFiles, WriteUses, IndexAll, GiveUp
  <1>4. CASE \E s \in Times : OtherUse(s)
    BY <1>4 DEF OtherUse
  <1> QED BY <1>1, <1>2, <1>3, <1>4 DEF WriterStep, CatalogOthers

LEMMA CatalogTypes ==
  ASSUME Catalogued, WriterStep \/ CatalogOthers
  PROVE  Catalogued'
  <1> USE CatalogAssumption DEF CatalogAssumption, Catalogued, Record, Latest, Later,
        Unlocked, Rebuild, KeptUse, dataVars, rebuildVars, writerVars, Times
  <1>1. CASE Receive
    <2>1. queue # <<>> /\ Head(queue) \in Events /\ Tail(queue) \in Seq(Events)
          /\ Len(Tail(queue)) <= Capacity
      BY <1>1 DEF Receive
    <2>2. Merged(Head(queue)) \in [update : BOOLEAN, time : 0..MaxTime, reply : BOOLEAN]
      <3>1. CASE Head(queue).kind = "update"
        BY <3>1 DEF Merged
      <3>2. CASE Head(queue).kind = "access"
        <4>1. Head(queue).time \in Times
          BY <2>1, <3>2 DEF Events
        <4> QED BY <3>2, <4>1 DEF Merged
      <3>3. CASE Head(queue).kind = "flush"
        BY <3>3 DEF Merged
      <3> QED BY <2>1, <3>1, <3>2, <3>3 DEF Events
    <2> QED BY <1>1, <2>1, <2>2 DEF Receive
  <1>2. CASE Drained \/ Index \/ Reply
    BY <1>2 DEF Drained, Index, Reply
  <1>3. CASE RecordAccess
    BY <1>3 DEF RecordAccess
  <1>4. CASE ReadUses \/ RemoveFiles \/ WriteUses \/ IndexAll \/ GiveUp
    <2>1. due' \subseteq due
      BY <1>4 DEF ReadUses, RemoveFiles, WriteUses, IndexAll, GiveUp
    <2>2. {used', best', saved'} \subseteq {used, best, saved, 0}
      BY <1>4 DEF ReadUses, RemoveFiles, WriteUses, IndexAll, GiveUp
    <2>3. /\ rebuild' \in {"idle", "read", "removed", "index"}
          /\ UNCHANGED <<queue, batch, writer, flush>>
      BY <1>4 DEF ReadUses, RemoveFiles, WriteUses, IndexAll, GiveUp
    <2> QED BY <2>1, <2>2, <2>3
  <1>5. CASE \E s \in Times : OtherUse(s)
    BY <1>5 DEF OtherUse
  <1> QED BY <1>1, <1>2, <1>3, <1>4, <1>5 DEF WriterStep, CatalogOthers

LEMMA SendTypes ==
  ASSUME Catalogued, NEW event \in Events, Send(event),
         due' \subseteq Times,
         UNCHANGED <<batch, flush, used, best, rebuildVars>>
  PROVE  Catalogued'
  <1>1. queue' \in Seq(Events) /\ Len(queue') <= Capacity
    BY CatalogAssumption DEF CatalogAssumption, Catalogued, Send, Room
  <1> QED BY <1>1 DEF Catalogued, Send, rebuildVars

-----------------------------------------------------------------------------
(* The writer moves a use from the queue to its hands and from there to the
   database. *)
LEMMA ReceiveFollows ==
  ASSUME Catalogued, Followed, Receive
  PROVE  Followed'
  <1> DEFINE event == Head(queue)
  <1>1. /\ queue # <<>> /\ event \in Events /\ event = queue[1] /\ Len(queue) \in Nat
        /\ Len(queue') = Len(queue) - 1
        /\ \A k \in 1..Len(queue') : queue'[k] = queue[k + 1]
        /\ batch' = Merged(event)
        /\ UNCHANGED <<flush, used, best, due>>
    BY DEF Receive, Catalogued, dataVars
  <1>2. /\ batch.time \in 0..MaxTime /\ batch.reply \in BOOLEAN
        /\ due \subseteq Times /\ MaxTime \in Nat
    BY CatalogAssumption DEF Catalogued, CatalogAssumption
  <1>3. /\ event.kind = "access" => event.time \in Times
        /\ event.kind \in {"update", "access", "flush"}
    BY <1>1 DEF Events
  <1>4. /\ batch'.time = (IF event.kind = "access" THEN Later(batch.time, event.time)
                         ELSE batch.time)
        /\ batch'.reply = (IF event.kind = "flush" THEN TRUE ELSE batch.reply)
    BY <1>1, <1>3 DEF Merged, Catalogued
  <1>5. ASSUME NEW t \in due PROVE t <= best \/ t <= batch'.time \/ Waits(t)'
    <2>0. t \in Times
      BY <1>2
    <2>1. CASE t <= best \/ t <= batch.time
      BY <1>1, <1>2, <1>3, <1>4, <2>0, <2>1 DEF Later, Times
    <2>2. CASE Waits(t)
      <3>1. PICK k \in 1..Len(queue) : queue[k].kind = "access" /\ t <= queue[k].time
        BY <2>2 DEF Waits
      <3>2. CASE k = 1
        BY <1>1, <1>2, <1>3, <1>4, <2>0, <3>1, <3>2 DEF Later, Times
      <3>3. CASE k # 1
        <4>1. k - 1 \in 1..Len(queue') /\ queue'[k - 1] = queue[k]
          BY <1>1, <3>1, <3>3
        <4> QED BY <1>1, <3>1, <4>1 DEF Waits
      <3> QED BY <3>2, <3>3
    <2> QED BY <2>1, <2>2 DEF Followed
  <1>6. writer' # "none"
    BY DEF Receive
  <1>7. ASSUME flush \in {"none", "sending"}
        PROVE  ~batch'.reply /\ \A k \in 1..Len(queue') : ~IsFlush(queue'[k])
    <2>1. ~batch.reply /\ \A k \in 1..Len(queue) : ~IsFlush(queue[k])
      BY <1>7 DEF Followed
    <2>2. event.kind # "flush"
      BY <1>1, <2>1 DEF IsFlush
    <2> QED BY <1>1, <1>4, <2>1, <2>2
  <1>8. ASSUME flush = "waiting"
        PROVE  IF batch'.reply THEN queue' = <<>>
               ELSE /\ queue' # <<>>
                    /\ \A k \in 1..Len(queue') : IsFlush(queue'[k]) <=> k = Len(queue')
    <2>1. ~batch.reply /\ \A k \in 1..Len(queue) : IsFlush(queue[k]) <=> k = Len(queue)
      BY <1>1, <1>8 DEF Followed
    <2>2. CASE Len(queue) = 1
      <3>1. IsFlush(event)
        BY <1>1, <2>1, <2>2
      <3>2. queue' = Tail(queue) /\ Tail(queue) \in Seq(Events) /\ Len(Tail(queue)) = 0
        BY <1>1, <2>2 DEF Receive, Catalogued
      <3> QED BY <1>4, <3>1, <3>2 DEF IsFlush
    <2>3. CASE Len(queue) # 1
      <3>1. ~IsFlush(event)
        BY <1>1, <2>1, <2>3
      <3>2. \A k \in 1..Len(queue') : IsFlush(queue'[k]) <=> k + 1 = Len(queue)
        BY <1>1, <2>1
      <3> QED BY <1>1, <1>4, <2>1, <2>3, <3>1, <3>2 DEF IsFlush
    <2> QED BY <2>2, <2>3
  <1>9. flush # "ok"
    BY <1>1 DEF Followed
  <1> QED BY <1>1, <1>5, <1>6, <1>7, <1>8, <1>9 DEF Followed

(* What the database refuses or a rebuild loses is not due any more, unless
   the writer has it still. *)
LEMMA LossFollows ==
  ASSUME Catalogued, Carries, Followed,
         \/ due' = due \ Refused /\ batch'.time = 0 /\ best' = best
         \/ due' = due \ Lost(best) /\ batch'.time = batch.time /\ best' \in Nat,
         queue' = queue
  PROVE  \A t \in due' : t <= best' \/ t <= batch'.time \/ Waits(t)'
  <1> SUFFICES ASSUME NEW t \in due' PROVE t <= best' \/ t <= batch'.time \/ Waits(t)'
    OBVIOUS
  <1>0. t \in due
    OBVIOUS
  <1>1. /\ t \in due /\ t \in Nat /\ best \in Nat /\ batch.time \in Nat
        /\ t <= best \/ t <= batch.time \/ Waits(t)
    BY <1>0, CatalogAssumption DEF CatalogAssumption, Catalogued, Followed, Times
  <1>2. Waits(t)' <=> Waits(t)
    BY DEF Waits
  <1>3. CASE due' = due \ Refused /\ batch'.time = 0 /\ best' = best
    BY <1>1, <1>2, <1>3 DEF Refused
  <1>4. CASE due' = due \ Lost(best) /\ batch'.time = batch.time /\ best' \in Nat
    BY <1>1, <1>2, <1>4 DEF Lost
  <1> QED BY <1>3, <1>4

LEMMA WriterFollows ==
  ASSUME Catalogued, Carries, Followed, WriterStep \/ CatalogOthers
  PROVE  Followed'
  <1> USE DEF dataVars, rebuildVars, writerVars
  <1>0. /\ {used, best, saved, batch.time, MaxTime} \subseteq Nat /\ due \subseteq Nat
        /\ rebuild \in {"idle", "read", "removed", "index"}
    BY CatalogAssumption DEF CatalogAssumption, Catalogued, Times
  <1>1. CASE Receive
    BY <1>1, ReceiveFollows
  <1>2. CASE Drained \/ Index \/ Reply
    BY <1>2 DEF Drained, Index, Reply, Applied, Catalogued, Followed, Waits
  <1>3. CASE RecordAccess
    <2>1. /\ batch'.time = 0 /\ batch'.reply = batch.reply /\ writer # "none"
          /\ UNCHANGED <<queue, writer, flush>>
      BY <1>3 DEF RecordAccess, Catalogued
    <2>2. \A t \in due' : t <= best' \/ t <= batch'.time \/ Waits(t)'
      <3>1. CASE Record(batch.time) /\ UNCHANGED due
        <4>1. best' = Later(best, batch.time)
          BY <3>1 DEF Record
        <4>2. ASSUME NEW t \in due, t <= best \/ t <= batch.time \/ Waits(t)
              PROVE  t <= best' \/ Waits(t)'
          BY <1>0, <2>1, <4>1, <4>2 DEF Later, Waits
        <4> QED BY <3>1, <4>2 DEF Followed
      <3>2. CASE due' = due \ Refused /\ best' = best
        BY <2>1, <3>2, LossFollows
      <3> QED BY <1>3, <3>1, <3>2 DEF RecordAccess
    <2> QED BY <2>1, <2>2 DEF Followed
  <1>4. ASSUME UNCHANGED <<queue, writer, batch, flush>>,
               \A t \in due' : t <= best' \/ t <= batch'.time \/ Waits(t)'
        PROVE  Followed'
    BY <1>4 DEF Followed
  <1>5. CASE ReadUses
    <2>1. UNCHANGED <<queue, writer, batch, flush>>
      BY <1>5 DEF ReadUses, Rebuild
    <2>2. CASE UNCHANGED <<best, due>>
      BY <1>4, <2>1, <2>2 DEF Followed, Waits
    <2>3. CASE best' = 0 /\ due' = due \ Lost(used)
      <3>1. used = best
        BY <1>5 DEF ReadUses, Rebuild, Carries
      <3> QED BY <1>4, <2>1, <2>3, <3>1, LossFollows
    <2> QED BY <1>5, <2>2, <2>3 DEF ReadUses
  <1>6. CASE RemoveFiles \/ WriteUses \/ IndexAll
    <2>1. UNCHANGED <<queue, writer, batch, flush, best, due>>
      BY <1>6 DEF RemoveFiles, WriteUses, IndexAll, Rebuild
    <2> QED BY <1>4, <2>1 DEF Followed, Waits
  <1>7. CASE GiveUp
    <2>1. /\ UNCHANGED <<queue, writer, batch, flush>> /\ best' = used
          /\ due' = IF rebuild = "removed" THEN due \ Lost(saved) ELSE due
          /\ rebuild # "idle"
      BY <1>7 DEF GiveUp, Rebuild
    <2>2. CASE rebuild = "removed"
      <3>1. saved = best
        BY <2>2 DEF Carries
      <3> QED BY <1>0, <1>4, <2>1, <2>2, <3>1, LossFollows
    <2>3. CASE rebuild # "removed"
      <3>1. best <= used
        BY <1>0, <2>1, <2>3 DEF Carries
      <3>2. \A t \in due : Waits(t)' <=> Waits(t)
        BY <2>1 DEF Waits
      <3> QED BY <1>0, <1>4, <2>1, <2>3, <3>1, <3>2 DEF Followed
    <2> QED BY <2>2, <2>3
  <1>8. CASE \E s \in Times : OtherUse(s)
    <2>1. UNCHANGED <<queue, writer, batch, flush, due>> /\ best <= best' /\ best' \in Nat
      BY <1>0, <1>8, CatalogAssumption DEF CatalogAssumption, OtherUse, Record, Later, Times
    <2>2. \A t \in due : Waits(t)' <=> Waits(t)
      BY <2>1 DEF Waits
    <2> QED BY <1>0, <1>4, <2>1, <2>2 DEF Followed
  <1> QED BY <1>1, <1>2, <1>3, <1>5, <1>6, <1>7, <1>8 DEF WriterStep, CatalogOthers

(* What is sent before the wait for the writer. *)
LEMMA SendFollows ==
  ASSUME Catalogued, Followed, flush = "none", NEW event \in Events, Send(event),
         \/ event.kind = "update" /\ due' = due
         \/ /\ event.kind = "access"
            /\ due' = (IF Room THEN due \cup {event.time} ELSE due),
         UNCHANGED <<batch, flush, used, best, rebuildVars>>
  PROVE  Followed'
  <1>1. CASE ~Room
    <2>1. UNCHANGED <<queue, due, batch, flush, best>> /\ writer' # "none"
      BY <1>1 DEF Send, Catalogued
    <2>2. \A t \in due : Waits(t)' <=> Waits(t)
      BY <2>1 DEF Waits
    <2> QED BY <2>1, <2>2 DEF Followed
  <1>2. CASE Room
    <2>1. /\ Len(queue) \in Nat /\ Len(queue') = Len(queue) + 1 /\ queue'[Len(queue) + 1] = event
          /\ \A k \in 1..Len(queue) : queue'[k] = queue[k]
      BY <1>2 DEF Send, Catalogued
    <2>2. event.kind = "access" => event.time \in Nat
      BY CatalogAssumption DEF CatalogAssumption, Events, Times
    <2>3. ASSUME NEW t \in due' PROVE t <= best \/ t <= batch.time \/ Waits(t)'
      <3>1. CASE t \in due
        <4>1. CASE Waits(t)
          <5>1. PICK k \in 1..Len(queue) : queue[k].kind = "access" /\ t <= queue[k].time
            BY <4>1 DEF Waits
          <5>2. k \in 1..Len(queue') /\ queue'[k] = queue[k]
            BY <2>1, <5>1
          <5> QED BY <5>1, <5>2 DEF Waits
        <4> QED BY <3>1, <4>1 DEF Followed
      <3>2. CASE event.kind = "access" /\ t = event.time
        <4> DEFINE k == Len(queue) + 1
        <4>1. k \in 1..Len(queue') /\ queue'[k] = event
          BY <2>1
        <4>2. t <= queue'[k].time /\ queue'[k].kind = "access"
          BY <2>2, <3>2, <4>1
        <4> HIDE DEF k
        <4> QED BY <4>1, <4>2 DEF Waits
      <3> QED BY <1>2, <3>1, <3>2
    <2>4. ~batch'.reply /\ \A k \in 1..Len(queue') : ~IsFlush(queue'[k])
      BY <2>1 DEF Followed, IsFlush
    <2>5. writer' # "none" /\ UNCHANGED <<batch, flush, best>>
      BY DEF Send, Catalogued
    <2>6. flush' = "none"
      BY <2>5
    <2>7. \A t \in due' : t <= best' \/ t <= batch'.time \/ Waits(t)'
      BY <2>3, <2>5
    <2> QED BY <2>4, <2>5, <2>6, <2>7 DEF Followed
  <1> QED BY <1>1, <1>2

LEMMA FlushFollows ==
  ASSUME Catalogued, Followed, BeginFlush \/ SendFlush \/ TimeOut
  PROVE  Catalogued' /\ Followed'
  <1> USE DEF dataVars, writerVars, rebuildVars
  <1>1. CASE BeginFlush
    BY <1>1, CatalogAssumption DEF CatalogAssumption, BeginFlush, Catalogued, Followed, Waits
  <1>2. CASE SendFlush
    <2>1. /\ Len(queue) \in Nat /\ Len(queue') = Len(queue) + 1
          /\ IsFlush(queue'[Len(queue')])
          /\ \A k \in 1..Len(queue) : queue'[k] = queue[k]
          /\ queue' # <<>>
      BY <1>2 DEF SendFlush, Catalogued, IsFlush
    <2>2. Catalogued'
      BY <1>2, CatalogAssumption DEF CatalogAssumption, SendFlush, Catalogued, Room, Events
    <2>3. UNCHANGED <<writer, batch, best, due>> /\ flush = "sending" /\ flush' = "waiting"
      BY <1>2 DEF SendFlush
    <2>4. ASSUME NEW t \in due, Waits(t) PROVE Waits(t)'
      <3>1. PICK k \in 1..Len(queue) : queue[k].kind = "access" /\ t <= queue[k].time
        BY <2>4 DEF Waits
      <3>2. k \in 1..Len(queue') /\ queue'[k] = queue[k]
        BY <2>1, <3>1
      <3> QED BY <3>1, <3>2 DEF Waits
    <2>5. ~batch.reply /\ \A k \in 1..Len(queue') : IsFlush(queue'[k]) <=> k = Len(queue')
      BY <2>1, <2>3 DEF Followed
    <2>6. \A t \in due' : t <= best' \/ t <= batch'.time \/ Waits(t)'
      BY <2>3, <2>4 DEF Followed
    <2>7. writer' # "none"
      BY <2>1, <2>3 DEF Followed
    <2> QED BY <2>1, <2>2, <2>3, <2>5, <2>6, <2>7 DEF Followed
  <1>3. CASE TimeOut
    BY <1>3 DEF TimeOut, Catalogued, Followed, Waits
  <1> QED BY <1>1, <1>2, <1>3

-----------------------------------------------------------------------------
(* The two threads. *)
LEMMA ScriptThreads ==
  ASSUME Threaded, Script, UNCHANGED flush
  PROVE  Threaded' /\ UNCHANGED main
  <1> USE DEF Threaded, Phases, Ending, ScriptStep, Running, Exits, nativeVars
  <1>1. CASE Use
    <2>1. requests = <<>>
      BY <1>1 DEF Use
    <2>2. requests' = <<"activate">>
      BY <1>1, <2>1 DEF Use
    <2>3. main \notin {"cleanup", "finish", "flush"} /\ ~ready
      BY <1>1 DEF Use
    <2>4. call' = "sent" /\ UNCHANGED <<script, status, main, ready, flush, initialized, quit>>
      BY <1>1 DEF Use
    <2>5. requests' # <<>> /\ requests' # <<"finished">>
      BY <2>2
    <2>6. script \notin Ending
      BY <1>1 DEF Use
    <2> QED BY <2>2, <2>3, <2>4, <2>5, <2>6
  <1>2. CASE Open \/ Close \/ Ask
    BY <1>2 DEF Open, Close, Ask
  <1>3. CASE Resume
    BY <1>3 DEF Resume
  <1>4. CASE Finish
    <2>1. requests = <<>>
      BY <1>4 DEF Finish
    <2> QED BY <1>4, <2>1 DEF Finish
  <1>5. CASE Quit
    BY <1>5 DEF Quit, GivesBack
  <1>6. ASSUME NEW from \in Phases, NEW to \in Phases \cup {"finish"}, Goes(from, to)
        PROVE  Threaded' /\ UNCHANGED main
    BY <1>6 DEF Goes
  <1>7. Again \in Phases
    BY DEF Again
  <1>8. CASE ScriptEnds \/ Stop
    BY <1>6, <1>7, <1>8 DEF ScriptEnds, Loaded, Settled, Unloading, Leaving, Unload, Throw,
         Prevented, Stop
  <1> QED BY <1>1, <1>2, <1>3, <1>4, <1>5, <1>8 DEF Script, ScriptRuns, RuntimeThread

LEMMA MainThreads ==
  ASSUME Threaded, MainThread \/ Native, UNCHANGED flush
  PROVE  Threaded' /\ main # "flush"
  <1> USE DEF Threaded, Phases, Ending, ThreadStep, Running, Exits, scriptVars, nativeVars, Answer
  <1>1. CASE Activate
    <2>1. requests = <<"activate">>
      BY <1>1 DEF Activate
    <2> QED BY <1>1, <2>1 DEF Activate
  <1>2. CASE Finished
    <2>1. requests = <<"finished">>
      BY <1>2 DEF Finished
    <2> QED BY <1>2, <2>1 DEF Finished
  <1>3. CASE NoBackend
    BY <1>3 DEF NoBackend
  <1>4. CASE Returned
    <2>1. status' \in {status, "native"} /\ main' \in {main, "recv"} /\ main = "returned"
      BY <1>4 DEF Returned
    <2> QED BY <1>4, <2>1 DEF Returned, Unanswered
  <1>5. CASE Initialize
    BY <1>5 DEF Initialize
  <1>6. CASE Mismatch
    BY <1>6 DEF Mismatch
  <1>7. CASE LoopEnds
    BY <1>7 DEF LoopEnds
  <1> QED BY <1>1, <1>2, <1>3, <1>4, <1>5, <1>6, <1>7 DEF MainThread, Native

(* The entries of the process: none after it has begun to wait. *)
LEMMA TouchKeeps ==
  ASSUME Inv, Touch
  PROVE  Inv'
  <1> USE DEF Inv
  <1>1. flush = "none"
    BY DEF Touch, Threaded, Phases
  <1>2. PICK event \in Events :
          /\ Send(event)
          /\ \/ event.kind = "update" /\ due' = due
             \/ /\ event.kind = "access"
                /\ due' = (IF Room THEN due \cup {event.time} ELSE due)
    <2>1. CASE Notify
      BY <2>1 DEF Notify, Events
    <2>2. ASSUME NEW t \in Times, Access(t)
          PROVE  \E event \in Events :
                   /\ Send(event)
                   /\ event.kind = "access"
                   /\ due' = (IF Room THEN due \cup {event.time} ELSE due)
      <3> DEFINE event == [kind |-> "access", time |-> t]
      <3> event \in Events
        BY DEF Events
      <3> QED BY <2>2 DEF Access
    <2> QED BY <2>1, <2>2 DEF Touch
  <1>3. due' \subseteq Times
    BY <1>2 DEF Events, Catalogued
  <1>4. UNCHANGED <<batch, flush, used, best, rebuildVars, desktopVars>>
    BY DEF Touch
  <1>5. Catalogued'
    BY <1>2, <1>3, <1>4, SendTypes
  <1>6. Followed'
    BY <1>1, <1>2, <1>4, SendFollows
  <1>7. Carries'
    BY <1>4 DEF Carries, rebuildVars
  <1>8. Threaded'
    BY <1>4 DEF Threaded, Running, desktopVars, scriptVars, nativeVars
  <1> QED BY <1>5, <1>6, <1>7, <1>8

LEMMA LastUseKeeps ==
  ASSUME Inv, LastUse
  PROVE  Inv'
  <1> USE DEF Inv
  <1>1. flush = "none" /\ main \in {"cleanup", "finish"} /\ main' \in {"finish", "flush"}
    BY DEF LastUse, Threaded
  <1>2. UNCHANGED <<batch, flush, used, best, rebuildVars, scriptVars, nativeVars, requests,
                    status>>
    BY DEF LastUse
  <1>3. Carries'
    BY <1>2 DEF Carries, rebuildVars
  <1>4. Threaded'
    BY <1>1, <1>2 DEF Threaded, Running, scriptVars, nativeVars
  <1>5. CASE UNCHANGED <<sendVars, due>>
    <2>1. Catalogued'
      BY <1>2, <1>5 DEF Catalogued, sendVars, rebuildVars
    <2>2. Followed'
      BY <1>2, <1>5 DEF Followed, Waits, sendVars
    <2> QED BY <1>3, <1>4, <2>1, <2>2
  <1>6. ASSUME NEW t \in Times, Access(t)
        PROVE  Catalogued' /\ Followed'
    <2> DEFINE event == [kind |-> "access", time |-> t]
    <2>1. event \in Events /\ event.kind = "access" /\ event.time = t
      BY DEF Events
    <2>2. Send(event) /\ due' = (IF Room THEN due \cup {event.time} ELSE due)
      BY <1>6 DEF Access
    <2> HIDE DEF event
    <2>3. due' \subseteq Times
      BY <2>1, <2>2 DEF Events, Catalogued
    <2>4. Catalogued'
      BY <1>2, <2>1, <2>2, <2>3, SendTypes
    <2>5. Followed'
      BY <1>1, <1>2, <2>1, <2>2, SendFollows
    <2> QED BY <2>4, <2>5
  <1> QED BY <1>3, <1>4, <1>5, <1>6 DEF LastUse

-----------------------------------------------------------------------------
LEMMA StepKeeps == Inv /\ [Next]_vars => Inv'
  <1> SUFFICES ASSUME Inv, [Next]_vars PROVE Inv'
    OBVIOUS
  <1>0. Catalogued /\ Carries /\ Threaded /\ Followed
    BY DEF Inv
  <1>1. ASSUME UNCHANGED catalogVars, Threaded', flush = flush'
        PROVE  Inv'
    <2>1. UNCHANGED <<queue, writer, batch, flush, used, best, due, rebuild, saved>>
      BY <1>1 DEF catalogVars, writerVars, dataVars, rebuildVars
    <2>2. Catalogued'
      BY <1>0, <2>1 DEF Catalogued
    <2>3. Carries'
      BY <1>0, <2>1 DEF Carries
    <2>4. Followed'
      BY <1>0, <2>1 DEF Followed, Waits
    <2> QED BY <1>1, <2>2, <2>3, <2>4 DEF Inv
  <1>2. CASE Desktop(Script)
    BY <1>0, <1>1, <1>2, ScriptThreads DEF Desktop, catalogVars
  <1>3. CASE Desktop(MainThread) \/ Desktop(Native)
    BY <1>0, <1>1, <1>3, MainThreads DEF Desktop, catalogVars
  <1>4. CASE Touch
    BY <1>4, TouchKeeps
  <1>5. CASE LastUse
    BY <1>5, LastUseKeeps
  <1>6. CASE FlushCatalog
    <2>1. Catalogued' /\ Followed'
      BY <1>0, <1>6, FlushFollows DEF FlushCatalog
    <2>2. UNCHANGED desktopVars /\ main = "flush"
      BY <1>6 DEF FlushCatalog
    <2>3. UNCHANGED <<used, best, rebuild, saved>>
      BY <1>6 DEF FlushCatalog, BeginFlush, SendFlush, TimeOut, dataVars, rebuildVars
    <2>4. Carries'
      BY <1>0, <2>3 DEF Carries
    <2>5. Threaded'
      BY <1>0, <2>2 DEF Threaded, Running, desktopVars, scriptVars, nativeVars
    <2> QED BY <2>1, <2>4, <2>5 DEF Inv
  <1>7. CASE Leave
    <2>1. UNCHANGED catalogVars /\ UNCHANGED flush
      BY <1>7 DEF Leave, catalogVars
    <2>2. Threaded'
      BY <1>0, <1>7, <2>1 DEF Leave, Exits, Threaded, Running, scriptVars, nativeVars
    <2> QED BY <1>1, <2>1, <2>2
  <1>8. CASE Write \/ Others
    <2>1. (WriterStep \/ CatalogOthers) /\ UNCHANGED desktopVars
      BY <1>8 DEF Write, Others
    <2>2. Catalogued' /\ Carries' /\ Followed'
      BY <1>0, <2>1, CatalogTypes, CatalogCarries, WriterFollows
    <2>3. flush' # "none" => flush # "none"
      BY <2>1 DEF WriterStep, CatalogOthers, Receive, Drained, Index, RecordAccess, Reply,
           ReadUses, RemoveFiles, WriteUses, IndexAll, GiveUp, Rebuild, OtherUse
    <2>4. Threaded'
      BY <1>0, <2>1, <2>3 DEF Threaded, Running, desktopVars, scriptVars, nativeVars
    <2> QED BY <2>2, <2>4 DEF Inv
  <1>9. CASE UNCHANGED vars
    <2>1. UNCHANGED catalogVars /\ UNCHANGED flush /\ UNCHANGED desktopVars
      BY <1>9 DEF vars, catalogVars
    <2>2. Threaded'
      BY <1>0, <2>1 DEF Threaded, Running, desktopVars, scriptVars, nativeVars
    <2> QED BY <1>1, <2>1, <2>2
  <1> QED BY <1>2, <1>3, <1>4, <1>5, <1>6, <1>7, <1>8, <1>9 DEF Next, Cleanup

LEMMA Always == Spec => []Inv
  BY InitInv, StepKeeps, PTL DEF Spec

-----------------------------------------------------------------------------
(* Every variable has its type: at most one request is in the channel to the
   main thread and at most Capacity entries are in the channel to the writer
   (rt/desktop_tail.rs, persistent/catalog.rs). *)
THEOREM TypeCorrect == Spec => []TypeOK
  <1>1. ASSUME Inv PROVE TypeOK
    <2>1. Catalogued /\ Threaded
      BY <1>1 DEF Inv
    <2>0. requests \in {<<>>, <<"activate">>, <<"finished">>}
      BY <2>1 DEF Threaded
    <2>2. Len(requests) <= 1
      <3>1. CASE requests = <<>>
        BY <3>1
      <3>2. ASSUME NEW r, requests = <<r>> PROVE Len(requests) <= 1
        BY <3>2
      <3> QED BY <2>0, <3>1, <3>2
    <2>3. used \in 0..MaxTime
      BY <2>1 DEF Catalogued
    <2> QED BY <2>1, <2>2, <2>3 DEF Catalogued, Threaded, TypeOK
  <1> QED BY <1>1, Always, PTL

(* Whenever the lock of the catalog is free, the database has the latest use
   that was recorded since a rebuild last failed: whatever the writer, the
   rebuilding process and other processes with other clocks did in between
   (record_access, rebuild). *)
THEOREM UsesAreKept == Spec => []UsesKept
  <1>1. Inv => UsesKept
    BY DEF Inv, Carries, UsesKept
  <1> QED BY <1>1, Always, PTL

(* When flush_on_exit has its answer, every use that the process queued is in
   the database whenever its lock is free, except those whose write failed
   and those lost by a rebuild that failed: the answer comes after what was
   queued before it, in one batch or in several, nothing is queued after it,
   and it comes as well when a write failed. *)
THEOREM FlushesKeep == Spec => []FlushKeeps
  <1>1. ASSUME Inv, flush = "ok", rebuild = "idle", NEW t \in due PROVE t <= used
    <2>1. used = best
      BY <1>1 DEF Inv, Carries
    <2>2. batch.time = 0 /\ Len(queue) = 0
      BY <1>1 DEF Inv, Followed
    <2>3. t <= best \/ t <= batch.time \/ Waits(t)
      BY <1>1 DEF Inv, Followed
    <2>4. ~Waits(t)
      BY <2>2 DEF Waits
    <2>5. t \in Nat /\ 1 <= t
      BY <1>1, CatalogAssumption DEF CatalogAssumption, Inv, Catalogued, Times
    <2> QED BY <2>1, <2>2, <2>3, <2>4, <2>5
  <1>2. Inv => FlushKeeps
    BY <1>1 DEF FlushKeeps
  <1> QED BY <1>2, Always, PTL

(* Once the runtime thread is done with the native API no backend is being
   started, and a native loop that runs has been told to end, however many
   backends were tried before one had the API (ensure_backend, the end of the
   runtime thread, dnr_native_main). *)
THEOREM LoopsAreTold == Spec => []LoopIsTold
  <1>1. Inv => LoopIsTold
    BY DEF Inv, Threaded, Ending, LoopIsTold
  <1> QED BY <1>1, Always, PTL
=============================================================================
