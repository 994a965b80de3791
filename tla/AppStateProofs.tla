--------------------------- MODULE AppStateProofs ---------------------------
(* What AppState keeps for any number of processes, windows and values, and
   any number of edits and failures. *)
EXTENDS AppState, TLAPS

-----------------------------------------------------------------------------
(* Types *)

LEMMA BlankDocument == Blank \in Documents
  BY DEF Blank, Documents

LEMMA MergeDocument ==
  ASSUME NEW d \in Documents, NEW e \in Documents, NEW own \in Documents
  PROVE  Merge(d, e, own) \in Documents
  BY DEF Merge, Either, Documents

LEMMA KeptDocument ==
  ASSUME NEW on \in Settings, NEW d \in Documents
  PROVE  Kept(on, d) \in Documents
  BY DEF Kept, Blank, Documents, Settings

LEMMA InitTyped == Init => TypeOK
  BY BlankDocument, FactorsAssumption DEF FactorsAssumption, Init, TypeOK, AllOn, Settings

LEMMA StartTyped ==
  ASSUME TypeOK, NEW p \in Procs, Start(p)
  PROVE  TypeOK'
  <1>1. PICK seen \in {disk, Blank} :
          /\ document' = [document EXCEPT ![p] = Loaded(seen)]
          /\ zoom' = [zoom EXCEPT ![p] = Shown(Loaded(seen))]
    BY DEF Start
  <1>2. Loaded(seen) \in Documents
    BY BlankDocument DEF TypeOK, Loaded, Documents, Either
  <1>3. Shown(Loaded(seen)) \in Factors
    BY <1>2, FactorsAssumption DEF FactorsAssumption, Shown, Either, Documents
  <1> QED BY <1>1, <1>2, <1>3 DEF TypeOK, Start, fileVars, saveVars

LEMMA PublishTyped ==
  ASSUME TypeOK, NEW p \in Procs, NEW f \in Factors, Publish(p, f)
  PROVE  /\ zoom' \in [Procs -> Factors]
         /\ touched' \in [Procs -> BOOLEAN]
         /\ document' \in [Procs -> Documents]
         /\ dirty' \in [Procs -> Documents]
         /\ deadline' \in [Procs -> BOOLEAN]
  <1>1. zoom' \in [Procs -> Factors]
    BY DEF TypeOK, Publish
  <1>2. touched' \in [Procs -> BOOLEAN]
    <2>1. (touched[p] \/ zoom[p] # f) \in BOOLEAN
      OBVIOUS
    <2> QED BY <2>1 DEF TypeOK, Publish
  <1>3. deadline' \in [Procs -> BOOLEAN]
    BY DEF TypeOK, Publish
  <1>4. \A d \in Documents : [d EXCEPT !.zoom = f] \in Documents
    BY DEF Documents
  <1>5. document' \in [Procs -> Documents] /\ dirty' \in [Procs -> Documents]
    BY <1>4 DEF TypeOK, Publish
  <1> QED BY <1>1, <1>2, <1>3, <1>5

LEMMA EditTyped ==
  ASSUME TypeOK, NEW p \in Procs,
         \/ \E f \in Factors : ChangeZoom(p, f)
         \/ \E k \in Keys, s \in Sizes : RecordSize(p, k, s)
         \/ \E on \in Settings : SetSettings(p, on)
         \/ ResetZoom(p)
  PROVE  TypeOK'
  <1>1. ASSUME NEW f \in Factors, ChangeZoom(p, f) PROVE TypeOK'
    <2>1. Publish(p, f)
      BY <1>1 DEF ChangeZoom
    <2> QED BY <1>1, <2>1, PublishTyped DEF TypeOK, ChangeZoom, Edit, fileVars, saveVars
  <1>2. ASSUME NEW k \in Keys, NEW s \in Sizes, RecordSize(p, k, s) PROVE TypeOK'
    <2>1. \A d \in Documents : [d EXCEPT !.size[k] = s] \in Documents
      BY DEF Documents
    <2>2. document' \in [Procs -> Documents] /\ dirty' \in [Procs -> Documents]
      BY <1>2, <2>1 DEF TypeOK, RecordSize
    <2> QED BY <1>2, <2>2 DEF TypeOK, RecordSize, Edit, fileVars, saveVars, zoomVars
  <1>3. ASSUME NEW on \in Settings, SetSettings(p, on) PROVE TypeOK'
    <2>1. /\ StillDue(on, dirty[p], deadline[p]) \in BOOLEAN
          /\ Undoes(p, on) \in BOOLEAN
      BY DEF TypeOK, StillDue, Undoes, Settings
    <2>2. dirty' \in [Procs -> Documents]
      BY <1>3, KeptDocument DEF TypeOK, SetSettings
    <2>3. deadline' \in [Procs -> BOOLEAN] /\ resetting' \in [Procs -> BOOLEAN]
      BY <1>3, <2>1, Zenon DEF TypeOK, SetSettings
    <2> QED BY <1>3, <2>2, <2>3 DEF TypeOK, SetSettings, Edit, fileVars, saveVars
  <1>4. CASE ResetZoom(p)
    <2>1. Publish(p, One) /\ One \in Factors
      BY <1>4, FactorsAssumption DEF FactorsAssumption, ResetZoom
    <2> QED BY <1>4, <2>1, PublishTyped DEF TypeOK, ResetZoom, fileVars, saveVars, boundVars
  <1> QED BY <1>1, <1>2, <1>3, <1>4

LEMMA SaveTyped ==
  ASSUME TypeOK, NEW p \in Procs,
         Expire(p) \/ Quit(p) \/ Cleanup(p) \/ LockFile(p) \/ Replace(p)
           \/ FailToSave(p) \/ Exit(p) \/ Kill(p)
  PROVE  TypeOK'
  <1> USE DEF fileVars, stateVars, saveVars, zoomVars, boundVars
  <1>1. CASE Expire(p) \/ Quit(p) \/ Cleanup(p)
    BY <1>1 DEF TypeOK, Expire, Quit, Cleanup, LastFlush, Flush
  <1>2. CASE LockFile(p)
    <2>1. /\ Merge(disk, dirty[p], document[p]) \in Documents
          /\ Merge(Blank, dirty[p], document[p]) \in Documents
      BY BlankDocument, MergeDocument DEF TypeOK
    <2>2. merged' \in [Procs -> Documents] /\ blind' \subseteq Procs
      BY <1>2, <2>1 DEF TypeOK, LockFile
    <2> QED BY <1>2, <2>2 DEF TypeOK, LockFile
  <1>3. CASE Replace(p)
    BY <1>3, BlankDocument DEF TypeOK, Replace, Unlocked
  <1>4. CASE FailToSave(p)
    BY <1>4, BlankDocument DEF TypeOK, FailToSave, Unlocked
  <1>5. CASE Exit(p) \/ Kill(p)
    <2>1. Gone(p) /\ One \in Factors /\ AllOn \in Settings
      BY <1>5, FactorsAssumption DEF FactorsAssumption, Exit, Kill, AllOn, Settings
    <2> QED BY <2>1, BlankDocument DEF TypeOK, Gone, Unlocked
  <1> QED BY <1>1, <1>2, <1>3, <1>4, <1>5

(* The disjuncts of Next, as the proofs below take them. *)
LEMMA StepCases ==
  ASSUME Next
  PROVE  \E p \in Procs :
           \/ Start(p)
           \/ \E f \in Factors : ChangeZoom(p, f)
           \/ \E k \in Keys, s \in Sizes : RecordSize(p, k, s)
           \/ \E on \in Settings : SetSettings(p, on)
           \/ ResetZoom(p)
           \/ Expire(p) \/ Quit(p) \/ Cleanup(p)
           \/ LockFile(p) \/ Replace(p) \/ FailToSave(p)
           \/ Exit(p) \/ Kill(p)
  BY DEF Next, Work, Save

(* Every variable of the store stays in its domain, whatever is edited, saved,
   lost and restarted. *)
THEOREM TypeCorrect == Spec => []TypeOK
  <1>1. TypeOK /\ [Next]_vars => TypeOK'
    <2> SUFFICES ASSUME TypeOK, [Next]_vars PROVE TypeOK'
      OBVIOUS
    <2>1. CASE UNCHANGED vars
      BY <2>1 DEF TypeOK, vars, fileVars, stateVars, saveVars, zoomVars, boundVars
    <2>2. CASE Next
      BY <2>2, StepCases, StartTyped, EditTyped, SaveTyped
    <2> QED BY <2>1, <2>2
  <1> QED BY <1>1, InitTyped, PTL DEF Spec

-----------------------------------------------------------------------------
(* Saving.  Everything that touches what is being saved needs the state lock
   of the process, and everything that touches the file needs the file lock:
   what a process is about to write is at every moment what merging into the
   file would yield, or into an empty one if it could not read the file. *)

Basis(p) == IF p \in blind THEN Blank ELSE disk

SaveInv ==
  /\ \A p \in Procs :
       saving[p] = "replace" =>
         fileLock = p /\ merged[p] = Merge(Basis(p), dirty[p], document[p])
  /\ \A p \in Procs : stage[p] = "off" => saving[p] = "no" /\ dirty[p] = Blank
  /\ \A p \in Procs : fileLock = p => saving[p] = "replace"
LEMMA EditKeepsSave ==
  ASSUME TypeOK, SaveInv, NEW p \in Procs,
         \/ Start(p)
         \/ \E f \in Factors : ChangeZoom(p, f)
         \/ \E k \in Keys, s \in Sizes : RecordSize(p, k, s)
         \/ \E on \in Settings : SetSettings(p, on)
         \/ ResetZoom(p)
  PROVE  SaveInv'
  <1>1. saving[p] = "no"
    BY DEF SaveInv, Start, ChangeZoom, RecordSize, SetSettings, ResetZoom, Script
  <1>2. UNCHANGED <<disk, fileLock, saving, merged, blind>>
    BY DEF Start, ChangeZoom, RecordSize, SetSettings, ResetZoom, fileVars, saveVars
  <1>3. \A q \in Procs : q # p =>
          UNCHANGED <<document[q], dirty[q], stage[q]>>
    BY DEF TypeOK, Start, ChangeZoom, RecordSize, SetSettings, ResetZoom, Publish
  <1>4. stage'[p] # "off"
    BY DEF TypeOK, Start, ChangeZoom, RecordSize, SetSettings, ResetZoom, Script
  <1> QED BY <1>1, <1>2, <1>3, <1>4 DEF SaveInv, TypeOK, Basis

LEMMA FlushKeepsSave ==
  ASSUME TypeOK, SaveInv, NEW p \in Procs, Expire(p) \/ Quit(p) \/ Cleanup(p)
  PROVE  SaveInv'
  <1>1. stage[p] # "off" /\ stage'[p] # "off" /\ Flush(p)
    BY DEF TypeOK, Expire, Quit, Cleanup, LastFlush, Script
  <1>2. \A q \in Procs : q # p => stage'[q] = stage[q]
    BY DEF TypeOK, Expire, Quit, Cleanup
  <1> QED BY <1>1, <1>2 DEF SaveInv, TypeOK, Flush, fileVars, Basis

LEMMA SaveKeepsSave ==
  ASSUME TypeOK, SaveInv, NEW p \in Procs,
         LockFile(p) \/ Replace(p) \/ FailToSave(p) \/ Exit(p) \/ Kill(p)
  PROVE  SaveInv'
  <1> USE ProcsAssumption DEF ProcsAssumption, TypeOK, SaveInv, Basis
  <1>1. CASE LockFile(p)
    BY <1>1 DEF LockFile, FileFree, stateVars
  <1>2. CASE Replace(p)
    BY <1>2 DEF Replace, Unlocked
  <1>3. CASE FailToSave(p)
    BY <1>3 DEF FailToSave, Unlocked, stateVars
  <1>4. CASE Exit(p) \/ Kill(p)
    BY <1>4 DEF Exit, Kill, Gone, Unlocked
  <1> QED BY <1>1, <1>2, <1>3, <1>4

(* One process at a time is between reading and replacing the file, and what
   it is about to write is what merging its changes now would yield
   (merge_write). *)
THEOREM SavesAreExclusive == Spec => [](SaveInv /\ OneSaver)
  <1>1. Init => SaveInv
    BY ProcsAssumption DEF ProcsAssumption, Init, SaveInv
  <1>2. TypeOK /\ SaveInv /\ [Next]_vars => SaveInv'
    <2> SUFFICES ASSUME TypeOK, SaveInv, [Next]_vars PROVE SaveInv'
      OBVIOUS
    <2>1. CASE UNCHANGED vars
      BY <2>1 DEF SaveInv, Basis, vars, fileVars, stateVars, saveVars
    <2>2. CASE Next
      BY <2>2, StepCases, EditKeepsSave, FlushKeepsSave, SaveKeepsSave
    <2> QED BY <2>1, <2>2
  <1>3. SaveInv => OneSaver
    BY DEF SaveInv, OneSaver
  <1> QED BY <1>1, <1>2, <1>3, TypeCorrect, PTL DEF Spec
-----------------------------------------------------------------------------
(* What is pending is what the process shows, has a deadline unless it is
   being saved or failed to be, and belongs to a memory that is on. *)

Shows(doc, d) ==
  /\ d.zoom # None => doc.zoom = d.zoom
  /\ \A k \in Keys : d.size[k] # None => doc.size[k] = d.size[k]

Pending(p) ==
  /\ Shows(document[p], dirty[p])
  /\ ~enabled[p].size => dirty[p].size = Blank.size
  /\ deadline[p] => dirty[p] # Blank /\ saving[p] = "no" /\ stage[p] # "exiting"
  /\ dirty[p] # Blank => deadline[p] \/ saving[p] # "no" \/ faults > 0
  /\ stage[p] = "off" => enabled[p] = AllOn
  /\ stage[p] # "off" /\ ~enabled[p].zoom /\ ~touched[p] /\ ~resetting[p]
       => zoom[p] = One

PendInv == \A p \in Procs : Pending(p)

LEMMA KeptBlank == ASSUME NEW on \in Settings PROVE Kept(on, Blank) = Blank
  BY DEF Kept, Blank

LEMMA KeptShown ==
  ASSUME NEW doc, NEW d, NEW on \in Settings, Shows(doc, d)
  PROVE  /\ Shows(doc, Kept(on, d))
         /\ ~on.size => Kept(on, d).size = Blank.size
  BY DEF Shows, Kept, Blank

LEMMA InitPending == Init => PendInv
  BY DEF Init, PendInv, Pending, Shows, Blank, AllOn

(* A change of p leaves the others alone. *)
LEMMA OthersPending ==
  ASSUME TypeOK, NEW p \in Procs,
         \/ Start(p)
         \/ \E f \in Factors : ChangeZoom(p, f)
         \/ \E k \in Keys, s \in Sizes : RecordSize(p, k, s)
         \/ \E on \in Settings : SetSettings(p, on)
         \/ ResetZoom(p)
         \/ Expire(p) \/ Quit(p) \/ Cleanup(p)
         \/ LockFile(p) \/ Replace(p) \/ FailToSave(p)
         \/ Exit(p) \/ Kill(p)
  PROVE  /\ \A q \in Procs : q # p =>
              UNCHANGED <<document[q], dirty[q], enabled[q], deadline[q], saving[q],
                          stage[q], touched[q], resetting[q], zoom[q]>>
         /\ faults' >= faults /\ faults' \in Nat /\ faults \in Nat
  <1> USE DEF TypeOK, fileVars, stateVars, saveVars, zoomVars, boundVars
  <1>1. CASE Start(p) \/ ResetZoom(p)
    BY <1>1 DEF Start, ResetZoom, Publish
  <1>2. CASE \E f \in Factors : ChangeZoom(p, f)
    BY <1>2 DEF ChangeZoom, Publish
  <1>3. CASE \E k \in Keys, s \in Sizes : RecordSize(p, k, s)
    BY <1>3 DEF RecordSize
  <1>4. CASE \E on \in Settings : SetSettings(p, on)
    BY <1>4 DEF SetSettings
  <1>5. CASE Expire(p) \/ Quit(p) \/ Cleanup(p)
    BY <1>5 DEF Expire, Quit, Cleanup, LastFlush, Flush
  <1>6. CASE LockFile(p) \/ Replace(p) \/ FailToSave(p)
    BY <1>6 DEF LockFile, Replace, FailToSave
  <1>7. CASE Exit(p) \/ Kill(p)
    BY <1>7 DEF Exit, Kill, Gone
  <1> QED BY <1>1, <1>2, <1>3, <1>4, <1>5, <1>6, <1>7

LEMMA PublishPending ==
  ASSUME TypeOK, NEW p \in Procs, NEW f \in Factors, Publish(p, f),
         Pending(p), saving[p] = "no", stage[p] \in {"running", "quitting"},
         zoom[p] # f \/ f = One,
         UNCHANGED <<enabled, saving, stage, faults>>
  PROVE  Pending(p)'
  <1>1. zoom'[p] = f /\ (f = One \/ touched'[p])
    BY DEF TypeOK, Publish
  <1>2. CASE zoom[p] # f /\ enabled[p].zoom /\ document[p].zoom # f
    <2>1. /\ document' = [document EXCEPT ![p].zoom = f]
          /\ dirty' = [dirty EXCEPT ![p].zoom = f]
          /\ deadline' = [deadline EXCEPT ![p] = TRUE]
      BY <1>2, Zenon DEF Publish
    <2>2. /\ dirty'[p] = [dirty[p] EXCEPT !.zoom = f]
          /\ document'[p] = [document[p] EXCEPT !.zoom = f]
          /\ deadline'[p]
      BY <2>1 DEF TypeOK
    <2>3. dirty[p] \in Documents /\ document[p] \in Documents
      BY DEF TypeOK
    <2>4. /\ dirty'[p].zoom = f /\ document'[p].zoom = f
          /\ dirty'[p].size = dirty[p].size /\ document'[p].size = document[p].size
      BY <2>2, <2>3 DEF Documents
    <2>5. dirty'[p] # Blank
      BY <2>4, FactorsAssumption DEF FactorsAssumption, Blank
    <2>6. Shows(document'[p], dirty'[p])
      BY <2>4 DEF Shows, Pending
    <2> QED BY <1>1, <2>2, <2>4, <2>5, <2>6 DEF Pending
  <1>3. CASE ~(zoom[p] # f /\ enabled[p].zoom /\ document[p].zoom # f)
    <2>1. UNCHANGED <<document, dirty, deadline>>
      BY <1>3, Zenon DEF Publish
    <2> QED BY <1>1, <2>1 DEF Pending
  <1> QED BY <1>2, <1>3

LEMMA EditPending ==
  ASSUME TypeOK, SaveInv, PendInv, NEW p \in Procs,
         \/ Start(p)
         \/ \E f \in Factors : ChangeZoom(p, f)
         \/ \E k \in Keys, s \in Sizes : RecordSize(p, k, s)
         \/ \E on \in Settings : SetSettings(p, on)
         \/ ResetZoom(p)
  PROVE  Pending(p)'
  <1>0. Pending(p)
    BY DEF PendInv
  <1>1. CASE Start(p)
    <2>1. /\ dirty'[p] = Blank /\ stage'[p] = "running"
          /\ UNCHANGED <<enabled, deadline, saving, faults>>
      BY <1>1 DEF TypeOK, SaveInv, Start, saveVars
    <2>2. enabled[p] = AllOn /\ dirty[p] = Blank
      BY <1>0, <1>1 DEF Pending, SaveInv, Start
    <2>3. Shows(document'[p], Blank)
      BY DEF Shows, Blank
    <2> QED BY <1>0, <2>1, <2>2, <2>3 DEF Pending, AllOn
  <1>2. ASSUME NEW f \in Factors, ChangeZoom(p, f) PROVE Pending(p)'
    <2>1. /\ Publish(p, f) /\ saving[p] = "no" /\ stage[p] \in {"running", "quitting"}
          /\ zoom[p] # f /\ UNCHANGED <<enabled, saving, stage, faults>>
      BY <1>2 DEF ChangeZoom, saveVars
    <2> QED BY <1>0, <2>1, PublishPending
  <1>3. ASSUME NEW k \in Keys, NEW s \in Sizes, RecordSize(p, k, s)
        PROVE  Pending(p)'
    <2>1. dirty[p] \in Documents /\ document[p] \in Documents
      BY DEF TypeOK
    <2>2. /\ dirty'[p] = [dirty[p] EXCEPT !.size[k] = s]
          /\ document'[p] = [document[p] EXCEPT !.size[k] = s]
          /\ deadline'[p] /\ enabled[p].size /\ saving[p] = "no" /\ stage[p] = "running"
          /\ UNCHANGED <<enabled, saving, stage, faults, touched, resetting, zoom>>
      BY <1>3 DEF TypeOK, RecordSize, Script, saveVars, zoomVars
    <2>3. /\ dirty'[p].zoom = dirty[p].zoom /\ document'[p].zoom = document[p].zoom
          /\ dirty'[p].size = [dirty[p].size EXCEPT ![k] = s]
          /\ document'[p].size = [document[p].size EXCEPT ![k] = s]
      BY <2>1, <2>2 DEF Documents
    <2>4. Shows(document'[p], dirty'[p])
      BY <1>0, <2>1, <2>3 DEF Shows, Pending, Documents
    <2>5. dirty'[p].size[k] = s /\ s # None
      BY <2>1, <2>3, FactorsAssumption DEF FactorsAssumption, Documents
    <2>6. dirty'[p] # Blank
      BY <2>5 DEF Blank
    <2> QED BY <1>0, <2>2, <2>4, <2>6 DEF Pending
  <1>4. ASSUME NEW on \in Settings, SetSettings(p, on) PROVE Pending(p)'
    <2>1. /\ dirty'[p] = Kept(on, dirty[p]) /\ enabled'[p] = on
          /\ deadline'[p] = StillDue(on, dirty[p], deadline[p])
          /\ resetting'[p] = Undoes(p, on)
          /\ saving[p] = "no" /\ stage[p] = "running" /\ ~resetting[p]
          /\ UNCHANGED <<saving, stage, document, faults, touched, zoom>>
      BY <1>4, Zenon DEF TypeOK, SetSettings, Script, saveVars
    <2>2. Shows(document[p], dirty'[p]) /\ (~on.size => dirty'[p].size = Blank.size)
      BY <1>0, <2>1, KeptShown DEF Pending
    <2>3. dirty'[p] # Blank => dirty[p] # Blank
      BY <2>1, KeptBlank
    <2>4. deadline'[p] => dirty'[p] # Blank
      BY <2>1 DEF StillDue
    <2>5. dirty'[p] # Blank => deadline'[p] \/ faults > 0
      BY <1>0, <2>1, <2>3 DEF StillDue, Pending
    <2>6. ~on.zoom /\ ~touched[p] /\ ~resetting'[p] => zoom[p] = One
      BY <1>0, <2>1 DEF Undoes, Pending
    <2> QED BY <2>1, <2>2, <2>4, <2>5, <2>6 DEF Pending
  <1>5. CASE ResetZoom(p)
    <2>1. /\ Publish(p, One) /\ saving[p] = "no" /\ stage[p] = "running"
          /\ UNCHANGED <<enabled, saving, stage, faults>>
      BY <1>5 DEF ResetZoom, saveVars, boundVars
    <2> QED BY <1>0, <2>1, PublishPending, FactorsAssumption DEF FactorsAssumption
  <1> QED BY <1>1, <1>2, <1>3, <1>4, <1>5

LEMMA SavePending ==
  ASSUME TypeOK, SaveInv, PendInv, NEW p \in Procs,
         \/ Expire(p) \/ Quit(p) \/ Cleanup(p)
         \/ LockFile(p) \/ Replace(p) \/ FailToSave(p)
         \/ Exit(p) \/ Kill(p)
  PROVE  Pending(p)'
  <1>0. /\ Pending(p)
        /\ \A d \in Documents : Shows(d, Blank)
    BY DEF PendInv, Shows, Blank
  <1>1. CASE Expire(p) \/ Quit(p) \/ Cleanup(p)
    <2>1. /\ ~deadline'[p] /\ (dirty[p] # Blank => saving'[p] # "no")
          /\ stage[p] # "off" /\ stage'[p] # "off"
          /\ UNCHANGED <<document, dirty, enabled, touched, zoom, resetting, faults>>
      BY <1>1 DEF TypeOK, Expire, Quit, Cleanup, LastFlush, Flush, Script, zoomVars,
         boundVars
    <2> QED BY <1>0, <2>1 DEF Pending
  <1>2. CASE LockFile(p)
    <2>1. /\ saving[p] = "lock" /\ saving'[p] = "replace"
          /\ UNCHANGED <<document, dirty, enabled, touched, deadline, stage, zoom,
                         resetting, faults>>
      BY <1>2 DEF TypeOK, LockFile, stateVars, zoomVars, boundVars
    <2> QED BY <1>0, <2>1 DEF Pending
  <1>3. CASE Replace(p)
    <2>1. /\ saving[p] = "replace" /\ saving'[p] = "no" /\ dirty'[p] = Blank
          /\ document[p] \in Documents
          /\ UNCHANGED <<document, enabled, touched, deadline, stage, zoom, resetting,
                         faults>>
      BY <1>3 DEF TypeOK, Replace, zoomVars, boundVars
    <2> QED BY <1>0, <2>1 DEF Pending
  <1>4. CASE FailToSave(p)
    <2>1. /\ saving[p] # "no" /\ saving'[p] = "no" /\ faults' > 0
          /\ UNCHANGED <<document, dirty, enabled, touched, deadline, stage, zoom,
                         resetting>>
      BY <1>4 DEF TypeOK, FailToSave, stateVars, zoomVars
    <2> QED BY <1>0, <2>1 DEF Pending
  <1>5. CASE Exit(p) \/ Kill(p)
    <2>1. /\ stage'[p] = "off" /\ document'[p] = Blank /\ dirty'[p] = Blank
          /\ enabled'[p] = AllOn /\ ~deadline'[p]
      BY <1>5 DEF TypeOK, Exit, Kill, Gone
    <2> QED BY <1>0, <2>1, BlankDocument DEF Pending, AllOn
  <1> QED BY <1>1, <1>2, <1>3, <1>4, <1>5

LEMMA StepPending ==
  ASSUME TypeOK, SaveInv, PendInv, Next
  PROVE  PendInv'
  <1>1. PICK p \in Procs :
           \/ Start(p)
           \/ \E f \in Factors : ChangeZoom(p, f)
           \/ \E k \in Keys, s \in Sizes : RecordSize(p, k, s)
           \/ \E on \in Settings : SetSettings(p, on)
           \/ ResetZoom(p)
           \/ Expire(p) \/ Quit(p) \/ Cleanup(p)
           \/ LockFile(p) \/ Replace(p) \/ FailToSave(p)
           \/ Exit(p) \/ Kill(p)
    BY StepCases
  <1>2. Pending(p)'
    BY <1>1, EditPending, SavePending
  <1>3. ASSUME NEW q \in Procs, q # p PROVE Pending(q)'
    <2>1. Pending(q)
      BY DEF PendInv
    <2>2. /\ UNCHANGED <<document[q], dirty[q], enabled[q], deadline[q], saving[q],
                         stage[q], touched[q], resetting[q], zoom[q]>>
          /\ faults > 0 => faults' > 0
      BY <1>1, <1>3, OthersPending
    <2> QED BY <2>1, <2>2 DEF Pending
  <1> QED BY <1>2, <1>3 DEF PendInv

(* A change that is not saved has a deadline or is being saved, unless a save
   failed, and a restored zoom goes when zoom memory is switched off
   (schedule, flush_locked, set_settings). *)
THEOREM PendingCorrect ==
  Spec => [](PendInv /\ NothingForgotten /\ RestoredZoomUndone)
  <1>1. TypeOK /\ SaveInv /\ PendInv /\ [Next]_vars => PendInv'
    <2> SUFFICES ASSUME TypeOK, SaveInv, PendInv, [Next]_vars PROVE PendInv'
      OBVIOUS
    <2>1. CASE UNCHANGED vars
      BY <2>1 DEF PendInv, Pending, Shows, vars, fileVars, stateVars, saveVars, zoomVars,
         boundVars
    <2>2. CASE Next
      BY <2>2, StepPending
    <2> QED BY <2>1, <2>2
  <1>2. TypeOK /\ PendInv => NothingForgotten /\ RestoredZoomUndone
    <2> SUFFICES ASSUME TypeOK, PendInv
                 PROVE  NothingForgotten /\ RestoredZoomUndone
      OBVIOUS
    <2>1. NothingForgotten
      <3>1. ASSUME NEW p \in Procs
            PROVE  /\ deadline[p] => dirty[p] # Blank
                   /\ dirty[p] # Blank => deadline[p] \/ saving[p] # "no" \/ faults > 0
        BY DEF PendInv, Pending
      <3>2. ASSUME NEW p \in Procs, stage[p] = "exiting", saving[p] = "no", faults = 0
            PROVE  dirty[p] = Blank
        BY <3>2 DEF TypeOK, PendInv, Pending
      <3> QED BY <3>1, <3>2 DEF NothingForgotten
    <2>2. RestoredZoomUndone
      BY DEF PendInv, Pending, RestoredZoomUndone
    <2> QED BY <2>1, <2>2
  <1> QED BY <1>1, <1>2, InitPending, TypeCorrect, SavesAreExclusive, PTL DEF Spec

(* Once zoom memory is off, a zoom that was only restored from the file is not
   shown, unless the controller is still to be asked to undo it (set_settings,
   reset_zoom). *)
THEOREM RestoredZoomGoes == Spec => []RestoredZoomUndone
  BY PendingCorrect, PTL

-----------------------------------------------------------------------------
(* What a save may do to the file. *)

LEMMA Replacement ==
  ASSUME TypeOK, SaveInv, [Next]_vars, NEW p \in Procs, Replaces(p)
  PROVE  /\ disk' = Merge(Basis(p), dirty[p], document[p]) \/ disk' = disk
         /\ Replace(p) \/ FailToSave(p)
  <1>0. saving[p] = "replace" /\ saving'[p] = "no" /\ stage'[p] = stage[p]
    BY DEF Replaces
  <1>1. Next
    BY <1>0 DEF vars, saveVars
  <1>2. PICK q \in Procs :
           \/ Start(q)
           \/ \E f \in Factors : ChangeZoom(q, f)
           \/ \E k \in Keys, s \in Sizes : RecordSize(q, k, s)
           \/ \E on \in Settings : SetSettings(q, on)
           \/ ResetZoom(q)
           \/ Expire(q) \/ Quit(q) \/ Cleanup(q)
           \/ LockFile(q) \/ Replace(q) \/ FailToSave(q)
           \/ Exit(q) \/ Kill(q)
    BY <1>1, StepCases
  <1>3. q = p
    BY <1>0, <1>2, OthersPending
  <1>4. Replace(p) \/ FailToSave(p)
    <2>1. CASE \/ Start(p) \/ ResetZoom(p)
               \/ \E f \in Factors : ChangeZoom(p, f)
               \/ \E k \in Keys, s \in Sizes : RecordSize(p, k, s)
               \/ \E on \in Settings : SetSettings(p, on)
      BY <1>0, <2>1 DEF Start, ResetZoom, ChangeZoom, RecordSize, SetSettings, saveVars
    <2>2. CASE Expire(p) \/ Quit(p) \/ Cleanup(p) \/ LockFile(p)
      BY <1>0, <2>2 DEF Expire, Quit, Cleanup, LastFlush, Flush, LockFile
    <2>3. CASE Exit(p) \/ Kill(p)
      BY <1>0, <2>3 DEF TypeOK, Exit, Kill, Gone
    <2> QED BY <1>2, <1>3, <2>1, <2>2, <2>3
  <1>5. merged[p] = Merge(Basis(p), dirty[p], document[p])
    BY <1>0 DEF SaveInv
  <1>6. disk' = merged[p] \/ disk' = disk
    BY <1>4 DEF Replace, FailToSave
  <1> QED BY <1>4, <1>5, <1>6

(* A process that could read the file (merge_write) saves the fields it set
   and no others; one that could not takes the sizes of others out of the file
   and puts none of its own snapshot there. *)
THEOREM OnlyOwnEditsHolds == Spec => OnlyOwnEdits
  <1>1. TypeOK /\ SaveInv /\ [Next]_vars => [WritesOwnEdits]_vars
    <2> SUFFICES ASSUME TypeOK, SaveInv, [Next]_vars, NEW p \in Procs, Replaces(p)
                 PROVE  /\ p \notin blind /\ dirty[p].zoom = None /\ disk.zoom # None
                             => disk'.zoom = disk.zoom
                        /\ \A k \in Unset(p) :
                             \/ disk'.size[k] = disk.size[k]
                             \/ p \in blind /\ disk'.size[k] = None
      BY DEF WritesOwnEdits
    <2>1. disk' = Merge(Basis(p), dirty[p], document[p]) \/ disk' = disk
      BY Replacement
    <2> QED BY <2>1 DEF Merge, Either, Unset, Basis, Blank
  <1> QED BY <1>1, TypeCorrect, SavesAreExclusive, PTL DEF Spec, OnlyOwnEdits

(* What a successful save leaves in the file is the last value of every field
   that its process set (flush_locked, merge_write), also when the rest of the
   file could not be read. *)
THEOREM LastEditIsSavedHolds == Spec => LastEditIsSaved
  <1>1. TypeOK /\ SaveInv /\ PendInv /\ [Next]_vars => [WritesLastEdit]_vars
    <2> SUFFICES ASSUME TypeOK, SaveInv, PendInv, [Next]_vars, NEW p \in Procs,
                        Replaces(p), dirty'[p] = Blank
                 PROVE  /\ dirty[p].zoom # None => disk'.zoom = document[p].zoom
                        /\ \A k \in Keys \ Unset(p) :
                             disk'.size[k] = document[p].size[k]
      BY DEF WritesLastEdit
    <2>1. Shows(document[p], dirty[p])
      BY DEF PendInv, Pending
    <2>2. CASE Replace(p)
      <3>1. disk' = Merge(Basis(p), dirty[p], document[p])
        BY <2>2 DEF Replace, SaveInv
      <3> QED BY <2>1, <3>1 DEF Shows, Merge, Either, Unset
    <2>3. CASE FailToSave(p)
      <3>1. dirty[p] = Blank
        BY <2>3 DEF FailToSave, stateVars
      <3> QED BY <3>1 DEF Blank, Unset
    <2> QED BY <2>2, <2>3, Replacement
  <1> QED BY <1>1, TypeCorrect, SavesAreExclusive, PendingCorrect, PTL
          DEF Spec, LastEditIsSaved

(* A process with size memory off saves no size (set_settings, merge_write):
   the sizes in the file stay, or are all gone if it could not read them. *)
THEOREM SizeMemoryOffHolds == Spec => SizeMemoryOff
  <1>1. TypeOK /\ SaveInv /\ PendInv /\ [Next]_vars => [WritesNoSize]_vars
    <2> SUFFICES ASSUME TypeOK, SaveInv, PendInv, [Next]_vars, NEW p \in Procs,
                        Replaces(p), ~enabled[p].size
                 PROVE  \/ disk'.size = disk.size
                        \/ p \in blind /\ disk'.size = Blank.size
      BY DEF WritesNoSize
    <2>1. dirty[p].size = Blank.size
      BY DEF PendInv, Pending
    <2>2. \A d \in Documents : Merge(d, dirty[p], document[p]).size = d.size
      BY <2>1 DEF Merge, Either, Blank, Documents
    <2>3. disk \in Documents /\ Blank \in Documents
      BY BlankDocument DEF TypeOK
    <2>4. Merge(Basis(p), dirty[p], document[p]).size = Basis(p).size
      BY <2>2, <2>3 DEF Basis
    <2> QED BY <2>4, Replacement DEF Basis
  <1> QED BY <1>1, TypeCorrect, SavesAreExclusive, PendingCorrect, PTL
          DEF Spec, SizeMemoryOff
=============================================================================
