------------------------------ MODULE AppState ------------------------------
(***************************************************************************)
(* The preferences of one application (integration/rt/dnr_state.rs): its   *)
(* zoom and the sizes of its windows, kept in one file that every running  *)
(* process of the application shares.  A process works on the snapshot it  *)
(* took at startup, collects its own changes, and merges them into the     *)
(* file a few seconds after the last of them, or when it exits.  A file    *)
(* that cannot be read counts as an empty one, at startup and in a save.   *)
(*                                                                         *)
(* A step is one critical section on the state lock of a process.  Saving  *)
(* keeps that lock over three steps, because it waits for the file lock    *)
(* and then reads and replaces a file that other processes see; while      *)
(* `saving' is not "no" nothing else of the process that needs the lock    *)
(* can run.  Time is abstracted: a deadline that is set may have passed.   *)
(***************************************************************************)
EXTENDS Integers

CONSTANTS
  Procs,      \* processes running the application, over time
  Keys,       \* stateKeys of its windows
  Sizes,      \* window sizes
  Factors,    \* zoom factors
  One,        \* the factor 1.0
  None,       \* a field the document does not have
  MaxEdits,   \* bound: changes of a preference or of the settings
  MaxFaults   \* bound: saves that fail

ASSUME FactorsAssumption ==
  /\ One \in Factors
  /\ None \notin Factors /\ None \notin Sizes

NoProc == "no process"
ASSUME ProcsAssumption == NoProc \notin Procs

VARIABLES
  disk,       \* the document in the file
  legacy,     \* what the zoom file of an older version holds, or None
  fileLock,   \* the process that holds the lock beside the file
  stage,      \* stage[p]: "off", "running", "quitting" or "exiting"
  document,   \* document[p]: the preferences as p sees them
  dirty,      \* dirty[p]: the changes of p that are to be saved
  enabled,    \* enabled[p]: whether p remembers zoom, and sizes
  touched,    \* touched[p]: zoom_changed, the zoom is not the restored one
  deadline,   \* deadline[p]: a save is scheduled
  saving,     \* saving[p]: "no", "lock" or "replace": where a save stands
  merged,     \* merged[p]: the document about to replace the file
  blind,      \* the processes whose save could not read the file
  zoom,       \* zoom[p]: the factor the windows of p are shown at
  resetting,  \* resetting[p]: the controller was asked to undo the restored zoom
  edits, faults

fileVars   == <<disk, legacy, fileLock>>
stateVars  == <<document, dirty, enabled, touched, deadline>>
saveVars   == <<saving, merged, blind>>
zoomVars   == <<zoom, resetting>>
boundVars  == <<edits, faults>>
vars == <<fileVars, stage, stateVars, saveVars, zoomVars, boundVars>>

Documents == [zoom : Factors \cup {None}, size : [Keys -> Sizes \cup {None}]]
Settings  == [zoom : BOOLEAN, size : BOOLEAN]
Blank     == [zoom |-> None, size |-> [k \in Keys |-> None]]
AllOn     == [zoom |-> TRUE, size |-> TRUE]

Either(a, b) == IF a # None THEN a ELSE b

-----------------------------------------------------------------------------
Init ==
  /\ disk = Blank
  /\ legacy \in Factors \cup {None}
  /\ fileLock = NoProc
  /\ stage     = [p \in Procs |-> "off"]
  /\ document  = [p \in Procs |-> Blank]
  /\ dirty     = [p \in Procs |-> Blank]
  /\ enabled   = [p \in Procs |-> AllOn]
  /\ touched   = [p \in Procs |-> FALSE]
  /\ deadline  = [p \in Procs |-> FALSE]
  /\ saving    = [p \in Procs |-> "no"]
  /\ merged    = [p \in Procs |-> Blank]
  /\ blind     = {}
  /\ zoom      = [p \in Procs |-> One]
  /\ resetting = [p \in Procs |-> FALSE]
  /\ edits = 0 /\ faults = 0

(* Manager::load and load_application: the snapshot of the file, or an empty
   one when it cannot be read (an error, damage, another version), completed
   by the zoom of an older version; the controller is given the result before
   anybody listens to it. *)
Loaded(seen) == [seen EXCEPT !.zoom = Either(@, legacy)]

Shown(d) == Either(d.zoom, One)

Start(p) ==
  /\ stage[p] = "off"
  /\ stage' = [stage EXCEPT ![p] = "running"]
  /\ \E seen \in {disk, Blank} :
       /\ document' = [document EXCEPT ![p] = Loaded(seen)]
       /\ zoom' = [zoom EXCEPT ![p] = Shown(Loaded(seen))]
  /\ UNCHANGED <<fileVars, dirty, enabled, touched, deadline, saveVars, resetting,
                 edits, faults>>

(* The runtime thread, which runs the script, is free to call. *)
Script(p) == stage[p] = "running" /\ ~resetting[p] /\ saving[p] = "no"

Edit == edits < MaxEdits /\ edits' = edits + 1

-----------------------------------------------------------------------------
(* The zoom controller publishes a new factor under its own lock, and with it
   calls zoom_changed. *)
Publish(p, f) ==
  /\ zoom' = [zoom EXCEPT ![p] = f]
  /\ touched' = [touched EXCEPT ![p] = @ \/ zoom[p] # f]
  /\ IF zoom[p] # f /\ enabled[p].zoom /\ document[p].zoom # f
     THEN /\ document' = [document EXCEPT ![p].zoom = f]
          /\ dirty' = [dirty EXCEPT ![p].zoom = f]
          /\ deadline' = [deadline EXCEPT ![p] = TRUE]
     ELSE UNCHANGED <<document, dirty, deadline>>

(* setZoomFactor, or a shortcut: native shortcuts still work while the
   process is quitting. *)
ChangeZoom(p, f) ==
  /\ stage[p] \in {"running", "quitting"}
  /\ saving[p] = "no"
  /\ zoom[p] # f
  /\ Edit
  /\ Publish(p, f)
  /\ UNCHANGED <<fileVars, stage, enabled, saveVars, resetting, faults>>

(* record_size: a window was resized, hidden or released. *)
RecordSize(p, k, s) ==
  /\ Script(p)
  /\ enabled[p].size
  /\ document[p].size[k] # s
  /\ Edit
  /\ document' = [document EXCEPT ![p].size[k] = s]
  /\ dirty' = [dirty EXCEPT ![p].size[k] = s]
  /\ deadline' = [deadline EXCEPT ![p] = TRUE]
  /\ UNCHANGED <<fileVars, stage, enabled, touched, saveVars, zoomVars, faults>>

(* set_settings: what is switched off is no longer pending.  Its answer tells
   the caller, which holds no lock any more, to reset the zoom. *)
Kept(on, d) ==
  [zoom |-> IF on.zoom THEN d.zoom ELSE None,
   size |-> IF on.size THEN d.size ELSE Blank.size]

SlipStillDue(on, d, due) == due /\ on.zoom     \* sizes that wait are forgotten
StillDue(on, d, due) == due /\ Kept(on, d) # Blank

SlipUndoes(p, on) == ~on.zoom /\ touched[p]    \* the test is the wrong way round
Undoes(p, on) == enabled[p].zoom /\ ~on.zoom /\ ~touched[p]

SetSettings(p, on) ==
  /\ Script(p)
  /\ Edit
  /\ resetting' = [resetting EXCEPT ![p] = Undoes(p, on)]
  /\ enabled' = [enabled EXCEPT ![p] = on]
  /\ dirty' = [dirty EXCEPT ![p] = Kept(on, @)]
  /\ deadline' = [deadline EXCEPT ![p] = StillDue(on, dirty[p], @)]
  /\ UNCHANGED <<fileVars, stage, document, touched, saveVars, zoom, faults>>

(* set_state_persistence, after set_settings said so. *)
ResetZoom(p) ==
  /\ stage[p] = "running"
  /\ resetting[p]
  /\ saving[p] = "no"
  /\ resetting' = [resetting EXCEPT ![p] = FALSE]
  /\ Publish(p, One)
  /\ UNCHANGED <<fileVars, stage, enabled, saveVars, boundVars>>

-----------------------------------------------------------------------------
(* flush_locked: without changes nothing is written. *)
Flush(p) ==
  /\ saving[p] = "no"
  /\ deadline' = [deadline EXCEPT ![p] = FALSE]
  /\ saving' = [saving EXCEPT ![p] = IF dirty[p] = Blank THEN "no" ELSE "lock"]
  /\ UNCHANGED <<fileVars, document, dirty, enabled, touched, merged, blind,
                 zoomVars, boundVars>>

(* The writer thread, once the deadline has passed. *)
Expire(p) == stage[p] # "off" /\ deadline[p] /\ Flush(p) /\ UNCHANGED stage

(* The script has ended: the runtime thread flushes and asks the native loop
   to stop ... *)
Quit(p) ==
  /\ Script(p)
  /\ stage' = [stage EXCEPT ![p] = "quitting"]
  /\ Flush(p)

(* ... and the main thread flushes again when it has. *)
LastFlush(p) == Flush(p)

Cleanup(p) ==
  /\ stage[p] = "quitting"
  /\ stage' = [stage EXCEPT ![p] = "exiting"]
  /\ LastFlush(p)

(* merge_write, as far as the lock: the file as it is now, with the fields p
   changed.  A file without a zoom gets the one p knows of.  A file that cannot
   be read counts as an empty one here too: what it had is given up. *)
SlipWhole(d, e, own) == own        \* the snapshot is written back whole
SlipOlder(d, e, own) ==            \* what is in the file stays
  [zoom |-> Either(d.zoom, Either(e.zoom, own.zoom)),
   size |-> [k \in Keys |-> Either(d.size[k], e.size[k])]]
Merge(d, e, own) ==
  [zoom |-> Either(e.zoom, Either(d.zoom, own.zoom)),
   size |-> [k \in Keys |-> Either(e.size[k], d.size[k])]]

FileFree == fileLock = NoProc

LockFile(p) ==
  /\ saving[p] = "lock"
  /\ FileFree
  /\ fileLock' = p
  /\ \/ /\ merged' = [merged EXCEPT ![p] = Merge(disk, dirty[p], document[p])]
        /\ blind' = blind \ {p}
     \/ /\ merged' = [merged EXCEPT ![p] = Merge(Blank, dirty[p], document[p])]
        /\ blind' = blind \cup {p}
  /\ saving' = [saving EXCEPT ![p] = "replace"]
  /\ UNCHANGED <<disk, legacy, stage, stateVars, zoomVars, boundVars>>

SlipUnlocked(p) == fileLock        \* the lock is not given back
Unlocked(p) == IF fileLock = p THEN NoProc ELSE fileLock

(* The new file replaces the old one in one step. *)
Replace(p) ==
  /\ saving[p] = "replace"
  /\ disk' = merged[p]
  /\ dirty' = [dirty EXCEPT ![p] = Blank]
  /\ fileLock' = Unlocked(p)
  /\ saving' = [saving EXCEPT ![p] = "no"]
  /\ merged' = [merged EXCEPT ![p] = Blank]
  /\ blind' = blind \ {p}
  /\ UNCHANGED <<legacy, stage, document, enabled, touched, deadline, zoomVars,
                 boundVars>>

(* Any of the calls may fail, the last one, which syncs the directory, after
   the file was replaced.  The changes are kept, without a deadline. *)
FailToSave(p) ==
  /\ saving[p] # "no"
  /\ faults < MaxFaults
  /\ faults' = faults + 1
  /\ disk' \in IF saving[p] = "replace" THEN {disk, merged[p]} ELSE {disk}
  /\ fileLock' = Unlocked(p)
  /\ saving' = [saving EXCEPT ![p] = "no"]
  /\ merged' = [merged EXCEPT ![p] = Blank]
  /\ blind' = blind \ {p}
  /\ UNCHANGED <<legacy, stage, stateVars, zoomVars, edits>>

-----------------------------------------------------------------------------
(* The end of the process: what it had in memory is gone, and the system
   drops its file lock. *)
Gone(p) ==
  /\ stage'     = [stage EXCEPT ![p] = "off"]
  /\ document'  = [document EXCEPT ![p] = Blank]
  /\ dirty'     = [dirty EXCEPT ![p] = Blank]
  /\ enabled'   = [enabled EXCEPT ![p] = AllOn]
  /\ touched'   = [touched EXCEPT ![p] = FALSE]
  /\ deadline'  = [deadline EXCEPT ![p] = FALSE]
  /\ saving'    = [saving EXCEPT ![p] = "no"]
  /\ merged'    = [merged EXCEPT ![p] = Blank]
  /\ blind'     = blind \ {p}
  /\ zoom'      = [zoom EXCEPT ![p] = One]
  /\ resetting' = [resetting EXCEPT ![p] = FALSE]
  /\ fileLock' = Unlocked(p)
  /\ UNCHANGED <<disk, legacy, boundVars>>

Exit(p) == stage[p] = "exiting" /\ saving[p] = "no" /\ Gone(p)
Kill(p) == stage[p] # "off" /\ Gone(p)

-----------------------------------------------------------------------------
Save(p) == Expire(p) \/ LockFile(p) \/ Replace(p)

Work(p) ==
  \/ \E f \in Factors : ChangeZoom(p, f)
  \/ \E k \in Keys, s \in Sizes : RecordSize(p, k, s)
  \/ \E on \in Settings : SetSettings(p, on)
  \/ ResetZoom(p)
  \/ Quit(p) \/ Cleanup(p) \/ Exit(p) \/ Kill(p)

Next == \E p \in Procs : Start(p) \/ Work(p) \/ Save(p) \/ FailToSave(p)

Spec == Init /\ [][Next]_vars

(* The writer thread runs, and files that can be locked and replaced are. *)
FairSpec == Spec /\ \A p \in Procs : WF_vars(Save(p))

-----------------------------------------------------------------------------
TypeOK ==
  /\ disk \in Documents
  /\ legacy \in Factors \cup {None}
  /\ fileLock \in Procs \cup {NoProc}
  /\ stage \in [Procs -> {"off", "running", "quitting", "exiting"}]
  /\ document \in [Procs -> Documents]
  /\ dirty \in [Procs -> Documents]
  /\ enabled \in [Procs -> Settings]
  /\ touched \in [Procs -> BOOLEAN]
  /\ deadline \in [Procs -> BOOLEAN]
  /\ saving \in [Procs -> {"no", "lock", "replace"}]
  /\ merged \in [Procs -> Documents]
  /\ blind \subseteq Procs
  /\ zoom \in [Procs -> Factors]
  /\ resetting \in [Procs -> BOOLEAN]
  /\ edits \in Nat /\ faults \in Nat

Unset(p) == {k \in Keys : dirty[p].size[k] = None}

(* p replaces the file in this step. *)
Replaces(p) == saving[p] = "replace" /\ saving'[p] = "no" /\ stage'[p] = stage[p]

(* Whatever the interleaving of saves, retries and restarts, a process that
   can read the file changes in it only the fields it set itself and has not
   saved yet, or gives it the first zoom it ever had: no process writes back
   its old snapshot over what another one saved since.  One that cannot read
   it, in this save, drops the sizes the others saved, but does not put those
   of its snapshot in their place. *)
WritesOwnEdits ==
  \A p \in Procs : Replaces(p) =>
    /\ p \notin blind /\ dirty[p].zoom = None /\ disk.zoom # None
         => disk'.zoom = disk.zoom
    /\ \A k \in Unset(p) :
         \/ disk'.size[k] = disk.size[k]
         \/ p \in blind /\ disk'.size[k] = None

OnlyOwnEdits == [][WritesOwnEdits]_vars

(* A save that succeeds makes the file agree with what its process shows in
   every field it set, whether it could read the file or not: the last of
   several changes wins, and none is made between reading the file and
   replacing it. *)
WritesLastEdit ==
  \A p \in Procs : Replaces(p) /\ dirty'[p] = Blank =>
    /\ dirty[p].zoom # None => disk'.zoom = document[p].zoom
    /\ \A k \in Keys \ Unset(p) : disk'.size[k] = document[p].size[k]

LastEditIsSaved == [][WritesLastEdit]_vars

(* With size memory off a process saves no size, whatever was pending when it
   was switched off: the file keeps those it has, or has none any more when a
   save for the zoom could not read it. *)
WritesNoSize ==
  \A p \in Procs : Replaces(p) /\ ~enabled[p].size =>
    \/ disk'.size = disk.size
    \/ p \in blind /\ disk'.size = Blank.size

SizeMemoryOff == [][WritesNoSize]_vars

(* A deadline is set only for a change, and unless a save failed every change
   has a deadline or is being saved: no switch, flush or restart forgets one.
   A process that exits has saved everything, shortcuts pressed while the
   native loop was winding down included. *)
NothingForgotten ==
  \A p \in Procs :
    /\ deadline[p] => dirty[p] # Blank
    /\ dirty[p] # Blank => deadline[p] \/ saving[p] # "no" \/ faults > 0
    /\ stage[p] = "exiting" /\ saving[p] = "no" /\ faults = 0 => dirty[p] = Blank

(* Once zoom memory is off a zoom that was only restored is not shown any
   more. *)
RestoredZoomUndone ==
  \A p \in Procs :
    stage[p] # "off" /\ ~enabled[p].zoom /\ ~touched[p] /\ ~resetting[p] => zoom[p] = One

(* One process at a time is between reading the file and replacing it. *)
OneSaver ==
  \A p \in Procs : saving[p] = "replace" => fileLock = p

(* What is pending is saved or withdrawn sooner or later, unless the process
   is killed or the save fails. *)
PendingIsSaved ==
  \A p \in Procs :
    stage[p] # "off" /\ dirty[p] # Blank ~> stage[p] = "off" \/ dirty[p] = Blank \/ faults > 0

(* ZOOM.md on switching the memory off: no later saving, and the pending
   change is withdrawn.  So a save without zoom memory leaves the saved zoom
   alone, or imports the one of an older version (if it could read the file,
   of which the page does not speak). *)
ZoomMemoryOff ==
  [][\A p \in Procs : Replaces(p) /\ p \notin blind /\ ~enabled[p].zoom =>
       disk'.zoom \in {disk.zoom, legacy}]_vars

(* The comment of set_settings: it asks to undo an untouched startup zoom. *)
ResetSparesUserZoom ==
  [][\A p \in Procs : ResetZoom(p) /\ touched[p] => zoom'[p] = zoom[p]]_vars
=============================================================================
