------------------------------ MODULE Catalog -------------------------------
(***************************************************************************)
(* The catalog of the user cache (persistent/catalog.rs): a database of    *)
(* generations and of when packages were last used, behind the lock file   *)
(* .catalog.lock.  A process sends its entries to a writer thread of its   *)
(* own through a bounded queue and may wait for them at its end; `cache    *)
(* rebuild' makes the database anew.                                       *)
(*                                                                         *)
(* One process with a writer, beside other processes that record uses and  *)
(* one that rebuilds; the uses are those of one package.  The rows of      *)
(* generations are hints for other programs' caches and are left out.      *)
(* Writing is best effort: what fails is ignored, here and in the code, so *)
(* the history variables tell such uses from those that must be there.     *)
(***************************************************************************)
EXTENDS Naturals, Sequences, FiniteSets

CONSTANTS
  Capacity,    \* the length of the queue (64 in the code)
  MaxTime      \* bound: times of the clock, which may jump

ASSUME CatalogAssumption == Capacity \in Nat /\ MaxTime \in Nat

VARIABLES
  queue,       \* the channel to the writer
  writer,      \* "none" before the first entry, "recv", "drain" or "apply"
  batch,       \* what the writer took from the queue
  flush,       \* the wait for the writer at exit
  used,        \* the database: the last use, 0 for none
  rebuild,     \* the rebuilding process; it holds the lock unless "idle"
  saved,       \* the last use that it has read
  best,        \* history: the latest use recorded since the last rebuild
               \*   that could not read or write back what there was
  due          \* history: the uses that this process queued, without those
               \*   that the database refused or such a rebuild lost since

sendVars    == <<queue, writer>>
writerVars  == <<queue, writer, batch>>
dataVars    == <<used, best, due>>
rebuildVars == <<rebuild, saved>>
catalogVars == <<writerVars, flush, dataVars, rebuildVars>>

Times    == 1..MaxTime
Later(s, t) == IF s < t THEN t ELSE s
NoBatch  == [update |-> FALSE, time |-> 0, reply |-> FALSE]

CatalogInit ==
  /\ queue = <<>> /\ writer = "none" /\ batch = NoBatch
  /\ flush = "none"
  /\ used \in 0..MaxTime /\ best = used
  /\ due = {}
  /\ rebuild = "idle" /\ saved = 0

-----------------------------------------------------------------------------
(* send: the thread is started by the first entry; an entry that does not
   fit is dropped. *)
Room == Len(queue) < Capacity
Send(event) ==
  /\ queue' = IF Room THEN Append(queue, event) ELSE queue
  /\ writer' = IF writer = "none" THEN "recv" ELSE writer

Notify == Send([kind |-> "update"]) /\ UNCHANGED due
Access(t) ==
  /\ Send([kind |-> "access", time |-> t])
  /\ due' = IF Room THEN due \cup {t} ELSE due

(* The writer takes what the queue has, and more while there is more. *)
Merged(event) ==
  CASE event.kind = "update" -> [batch EXCEPT !.update = TRUE]
    [] event.kind = "access" -> [batch EXCEPT !.time = Later(@, event.time)]
    [] event.kind = "flush"  -> [batch EXCEPT !.reply = TRUE]
Receive ==
  /\ writer \in {"recv", "drain"} /\ queue # <<>>
  /\ batch' = Merged(Head(queue))
  /\ queue' = Tail(queue)
  /\ writer' = "drain"
  /\ UNCHANGED <<flush, dataVars, rebuildVars>>
Drained ==
  /\ writer = "drain" /\ queue = <<>>
  /\ writer' = "apply"
  /\ UNCHANGED <<queue, batch, flush, dataVars, rebuildVars>>

SlipUnlocked == TRUE                      \* without the lock
Unlocked == rebuild = "idle"

(* index: the row of a generation; an error, such as a directory that is
   gone or a lock file that does not open, is ignored. *)
Index ==
  /\ writer = "apply" /\ batch.update
  /\ batch' = [batch EXCEPT !.update = FALSE]
  /\ UNCHANGED <<queue, writer, flush, dataVars, rebuildVars>>

(* record_access.  When it fails, before it has the lock or after, the error
   is ignored and the writer goes on: the uses that only this batch held will
   not be in the database. *)
Latest(t) == Later(used, t)
Record(t) ==
  /\ Unlocked
  /\ used' = Latest(t)
  /\ best' = Later(best, t)
Waits(t) == \E k \in 1..Len(queue) : queue[k].kind = "access" /\ t <= queue[k].time
Refused == {t \in due : best < t /\ t <= batch.time /\ ~Waits(t)}
RecordAccess ==
  /\ writer = "apply" /\ ~batch.update /\ batch.time # 0
  /\ \/ Record(batch.time) /\ UNCHANGED due
     \/ due' = due \ Refused /\ UNCHANGED <<used, best>>
  /\ batch' = [batch EXCEPT !.time = 0]
  /\ UNCHANGED <<queue, writer, flush, rebuildVars>>

SlipApplied == ~batch.update         \* replies before the accesses
Applied == ~batch.update /\ batch.time = 0
Reply ==
  /\ writer = "apply" /\ Applied
  /\ batch' = [batch EXCEPT !.reply = FALSE]
  /\ writer' = "recv"
  /\ flush' = IF batch.reply /\ flush = "waiting" THEN "ok" ELSE flush
  /\ UNCHANGED <<queue, dataVars, rebuildVars>>

-----------------------------------------------------------------------------
(* flush_on_exit: room in the queue and the answer are awaited until one
   deadline. *)
BeginFlush ==
  /\ flush = "none"
  /\ flush' = IF writer = "none" THEN "ok" ELSE "sending"
  /\ UNCHANGED <<writerVars, dataVars, rebuildVars>>
SendFlush ==
  /\ flush = "sending" /\ Room
  /\ queue' = Append(queue, [kind |-> "flush"])
  /\ flush' = "waiting"
  /\ UNCHANGED <<writer, batch, dataVars, rebuildVars>>
SlipImpatient == flush = "sending"        \* the answer is awaited for ever
Impatient == flush \in {"sending", "waiting"}
TimeOut ==
  /\ Impatient
  /\ flush' = "failed"
  /\ UNCHANGED <<writerVars, dataVars, rebuildVars>>

-----------------------------------------------------------------------------
(* rebuild: the uses are read, the files removed, the uses written back and
   the directories indexed.  Uses that cannot be read, from a database that is
   damaged or busy, count as none and are removed. *)
KeptUse == used
Lost(until) == {t \in due : t <= until /\ batch.time < t /\ ~Waits(t)}
Rebuild(at, next) ==
  /\ rebuild = at /\ rebuild' = next
  /\ UNCHANGED <<writerVars, flush>>
ReadUses ==
  /\ Rebuild("idle", "read")
  /\ \/ saved' = KeptUse /\ UNCHANGED <<best, due>>
     \/ saved' = 0 /\ best' = 0 /\ due' = due \ Lost(used)
  /\ UNCHANGED used
RemoveFiles == Rebuild("read", "removed")  /\ used' = 0 /\ UNCHANGED <<saved, best, due>>
WriteUses   == Rebuild("removed", "index") /\ used' = saved /\ UNCHANGED <<saved, best, due>>
IndexAll    == Rebuild("index", "idle")    /\ saved' = 0 /\ UNCHANGED <<used, best, due>>

(* A step of it fails, or it is killed: the lock is free, and what was removed
   is not written back. *)
GiveUp ==
  /\ rebuild # "idle"
  /\ Rebuild(rebuild, "idle")
  /\ best' = used
  /\ due' = IF rebuild = "removed" THEN due \ Lost(saved) ELSE due
  /\ saved' = 0
  /\ UNCHANGED used

(* Other processes record uses. *)
OtherUse(t) ==
  /\ Record(t)
  /\ UNCHANGED <<writerVars, flush, due, rebuildVars>>

WriterStep == Receive \/ Drained \/ Index \/ RecordAccess \/ Reply
CatalogOthers ==
  \/ ReadUses \/ RemoveFiles \/ WriteUses \/ IndexAll \/ GiveUp
  \/ \E t \in Times : OtherUse(t)
=============================================================================
