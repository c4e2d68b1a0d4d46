-------------------------- MODULE JournalSaveProofs --------------------------
(***************************************************************************)
(* What saving a journal keeps for any number of tabs, journals, rows,      *)
(* images and seconds: the types, that a visible attachment has its         *)
(* objects, and that a save of a deleted journal changes nothing; then that *)
(* each row points at its own image, that a save answered with success did  *)
(* all it was asked, and that saves from forms that showed all images never *)
(* take a journal past its limit.                                           *)
(***************************************************************************)
EXTENDS JournalSave, FiniteSetTheorems, TLAPS

(* What a save knows at each of its statements.                              *)
FormOK(f) ==
  /\ f.pc \in Saving \ {"insertJournal"} => f.journal \in Journals
  /\ f.pc \in {"upload", "thumb", "insertRow"} => f.file \in Files /\ f.at \in Seconds
  /\ f.pc = "deleteRow" => f.row \in Rows

(* The objects of the image under way that are in the store by now.          *)
Stored(f) ==
  /\ f.pc \in {"thumb", "insertRow"} => store[KeyOf(f)] # NoFile
  /\ f.pc = "insertRow" /\ f.file \in Decodable => thumbs[KeyOf(f)] # NoFile

(* A late save has not got past the UPDATE, and its journal stays deleted.   *)
LateKnown(f) ==
  f.late /\ f.pc \in Saving => f.pc = "updateJournal" /\ journal[f.journal] = "deleted"

FormsOK     == \A t \in Tabs : FormOK(tab[t])
AllStored   == \A t \in Tabs : Stored(tab[t])
AllLate     == \A t \in Tabs : LateKnown(tab[t])

IInv == TypeOK /\ FormsOK /\ AllStored /\ AllLate /\ RowsHaveObjects

TabAction(t) ==
  \/ OpenNew(t) \/ OpenEdit(t) \/ Submit(t) \/ Settle(t) \/ GiveUp(t)
  \/ InsertJournal(t) \/ UpdateJournal(t) \/ CheckOwner(t) \/ DeleteRow(t)
  \/ FinishDrops(t) \/ StartFile(t) \/ Upload(t) \/ UploadThumbnail(t)
  \/ InsertRow(t) \/ FinishSave(t) \/ Fail(t)

LEMMA NextCases ==
  Next => \/ \E t \in Tabs : TabAction(t)
          \/ \E j \in Journals : SoftDelete(j)
          \/ ServerStops
BY DEF Next, TabAction, FormSteps, RowSteps, FileSteps

------------------------------------------------------------------------------
(* Forms at rest.                                                            *)
Resting(f) == f.pc \notin Saving

LEMMA ClosedType ==
  /\ Closed \in Form /\ Resting(Closed) /\ Closed.late = FALSE
  /\ [Closed EXCEPT !.pc = "editing"] \in Form
  /\ Resting([Closed EXCEPT !.pc = "editing"])
BY DEF Closed, Form, Resting, Saving

LEMMA RestoredType ==
  ASSUME NEW f \in Form
  PROVE  Restored(f) \in Form /\ Resting(Restored(f))
<1>1. f.entry \in Journals \cup {NoJournal} /\ f.seen \in SUBSET Rows /\ f.drop \in SUBSET Rows
  BY DEF Form
<1>2. Restored(f) \in Form
  BY <1>1, ZenonT(60) DEF Restored, Closed, Form
<1>3. Restored(f).pc = "editing"
  BY DEF Restored, Closed
<1> QED BY <1>2, <1>3 DEF Resting, Saving

LEMMA SubmittedType ==
  ASSUME NEW f \in Form, NEW j \in Journals \cup {NoJournal}, NEW late \in BOOLEAN,
         NEW pc \in {"insertJournal", "updateJournal"},
         NEW files \in SUBSET Files, NEW drop \in SUBSET Rows
  PROVE  [f EXCEPT !.pc = pc, !.journal = j, !.files = files, !.toStore = files,
                   !.drop = drop, !.toDrop = drop, !.late = late] \in Form
<1> DEFINE pcs == Saving \cup {"closed", "editing", "ok"}
<1>1. pc \in pcs
  BY DEF Saving
<1> HIDE DEF pcs
<1> QED
  BY <1>1 DEF Form, pcs

LEMMA RestingOK ==
  ASSUME NEW f, Resting(f)
  PROVE  FormOK(f) /\ Stored(f) /\ LateKnown(f) /\ Stored(f)' /\ LateKnown(f)'
BY DEF Resting, FormOK, Stored, LateKnown, Saving

(* The key of an image under way is a key of the store.                      *)
LEMMA KeyType ==
  ASSUME NEW f \in Form, FormOK(f), f.pc \in {"upload", "thumb", "insertRow"}
  PROVE  KeyOf(f) \in Keys
BY DEF KeyOf, Keys, Names, FormOK, Form, Saving

------------------------------------------------------------------------------
(* Every step of a tab puts a well-formed form in its place.                 *)
Good(f) == f \in Form /\ FormOK(f)

LEMMA TabStep ==
  ASSUME TypeOK, FormsOK, NEW t \in Tabs, TabAction(t)
  PROVE  \E f : Good(f) /\ Become(t, f)
<1>1. tab[t] \in Form /\ FormOK(tab[t])
  BY DEF TypeOK, FormsOK
<1>2. CASE OpenNew(t)
  BY <1>2, ClosedType, RestingOK DEF OpenNew, Good
<1>3. CASE OpenEdit(t)
  <2>1. PICK j \in Journals, seen \in SUBSET Rows :
          Become(t, [Closed EXCEPT !.pc = "editing", !.entry = j, !.seen = seen])
    BY <1>3 DEF OpenEdit, RowsOf
  <2> DEFINE f == [Closed EXCEPT !.pc = "editing", !.entry = j, !.seen = seen]
  <2>3. f \in Form /\ Resting(f)
    BY DEF Closed, Form, Resting, Saving
  <2> QED BY <2>1, <2>3, RestingOK DEF Good
<1>4. CASE Submit(t)
  <2> DEFINE j == tab[t].entry
             f(files, drop) == [tab[t] EXCEPT
                !.pc = IF j = NoJournal THEN "insertJournal" ELSE "updateJournal",
                !.journal = j, !.files = files, !.toStore = files,
                !.drop = drop, !.toDrop = drop,
                !.late = j # NoJournal /\ journal[j] = "deleted"]
  <2>2. tab[t].seen \in SUBSET Rows /\ j \in Journals \cup {NoJournal}
    BY <1>1 DEF Form
  <2>1. PICK files \in SUBSET Files, drop \in SUBSET tab[t].seen : Become(t, f(files, drop))
    BY <1>4 DEF Submit
  <2>3. drop \in SUBSET Rows
    BY <2>2
  <2>4. (j # NoJournal /\ journal[j] = "deleted") \in BOOLEAN
    OBVIOUS
  <2>5. f(files, drop) \in Form
    BY <1>1, <2>2, <2>3, <2>4, SubmittedType
  <2>6. FormOK(f(files, drop))
    BY <1>1, <2>2 DEF FormOK, Form, Saving
  <2> HIDE DEF f
  <2> QED BY <2>1, <2>5, <2>6 DEF Good
<1>5. CASE Settle(t)
  BY <1>1, <1>5, ClosedType, RestoredType, RestingOK DEF Settle, Good
<1>6. CASE GiveUp(t)
  BY <1>6, ClosedType, RestingOK DEF GiveUp, Good
<1>7. CASE InsertJournal(t)
  <2>1. PICK j \in Journals : Become(t, [tab[t] EXCEPT !.pc = "file", !.journal = j])
    BY <1>7 DEF InsertJournal
  <2> DEFINE g == [tab[t] EXCEPT !.pc = "file", !.journal = j]
  <2>2. Good(g)
    <3>1. g \in Form
      BY <1>1 DEF Form, Saving
    <3>2. g.pc = "file" /\ g.journal = j
      BY <1>1 DEF Form
    <3> HIDE DEF g
    <3> QED BY <3>1, <3>2 DEF Good, FormOK
  <2> QED BY <2>1, <2>2
<1>8. CASE UpdateJournal(t)
  <2>1. Good([tab[t] EXCEPT !.pc = "drop"])
    BY <1>1, <1>8 DEF UpdateJournal, At, Good, Form, FormOK, Saving
  <2>2. Good(Restored(tab[t]))
    BY <1>1, RestoredType, RestingOK DEF Good
  <2> QED BY <1>8, <2>1, <2>2 DEF UpdateJournal, Goto
<1>9. CASE CheckOwner(t)
  <2>1. PICK r \in tab[t].toDrop :
          \/ Become(t, [tab[t] EXCEPT !.row = r, !.pc = "deleteRow"])
          \/ Become(t, Restored(tab[t]))
    BY <1>9 DEF CheckOwner
  <2>2. r \in Rows
    BY <1>1 DEF Form
  <2>3. Good([tab[t] EXCEPT !.row = r, !.pc = "deleteRow"])
    BY <1>1, <1>9, <2>2 DEF CheckOwner, At, Good, Form, FormOK, Saving
  <2>4. Good(Restored(tab[t]))
    BY <1>1, RestoredType, RestingOK DEF Good
  <2> QED BY <2>1, <2>3, <2>4
<1>10. CASE DeleteRow(t)
  <2> DEFINE f == [tab[t] EXCEPT !.pc = "drop", !.toDrop = @ \ {tab[t].row}, !.row = NoRow]
  <2>1. Good(f)
    BY <1>1, <1>10 DEF DeleteRow, At, Good, Form, FormOK, Saving
  <2> QED BY <1>10, <2>1 DEF DeleteRow
<1>11. CASE FinishDrops(t)
  <2>1. Good([tab[t] EXCEPT !.pc = "file"])
    BY <1>1, <1>11 DEF FinishDrops, At, Good, Form, FormOK, Saving
  <2> QED BY <1>11, <2>1 DEF FinishDrops, Goto
<1>12. CASE StartFile(t)
  <2>1. PICK g \in tab[t].toStore, second \in Seconds :
          Become(t, [tab[t] EXCEPT !.pc = "upload", !.file = g, !.at = second])
    BY <1>12 DEF StartFile
  <2>2. g \in Files
    BY <1>1 DEF Form
  <2>3. Good([tab[t] EXCEPT !.pc = "upload", !.file = g, !.at = second])
    BY <1>1, <1>12, <2>2 DEF StartFile, At, Good, Form, FormOK, Saving
  <2> QED BY <2>1, <2>3
<1>13. CASE Upload(t)
  <2>1. Good([tab[t] EXCEPT !.pc = AfterUpload(t)])
    BY <1>1, <1>13 DEF Upload, At, AfterUpload, Good, Form, FormOK, Saving
  <2> QED BY <1>13, <2>1 DEF Upload, Goto
<1>14. CASE UploadThumbnail(t)
  <2>1. Good([tab[t] EXCEPT !.pc = "insertRow"])
    BY <1>1, <1>14 DEF UploadThumbnail, At, Good, Form, FormOK, Saving
  <2> QED BY <1>14, <2>1 DEF UploadThumbnail, Goto
<1>15. CASE InsertRow(t)
  <2>1. PICK r \in Rows : Become(t, NextFile(tab[t], {r}))
    BY <1>15 DEF InsertRow
  <2>2. Good(NextFile(tab[t], {r}))
    BY <1>1, <1>15 DEF InsertRow, At, NextFile, Good, Form, FormOK, Saving
  <2> QED BY <2>1, <2>2
<1>16. CASE FinishSave(t)
  <2>1. Good([tab[t] EXCEPT !.pc = "ok"])
    BY <1>1, <1>16 DEF FinishSave, At, Good, Form, FormOK, Saving
  <2> QED BY <1>16, <2>1 DEF FinishSave, Goto
<1>17. CASE Fail(t)
  BY <1>1, <1>17, RestoredType, RestingOK DEF Fail, Good
<1> QED
  BY <1>2, <1>3, <1>4, <1>5, <1>6, <1>7, <1>8, <1>9, <1>10, <1>11, <1>12, <1>13,
     <1>14, <1>15, <1>16, <1>17 DEF TabAction

LEMMA TabsStep ==
  ASSUME TypeOK, FormsOK, NEW t \in Tabs, TabAction(t)
  PROVE  /\ tab' \in [Tabs -> Form] /\ FormsOK'
         /\ \A u \in Tabs \ {t} : tab'[u] = tab[u]
<1>1. PICK f : Good(f) /\ tab' = [tab EXCEPT ![t] = f]
  BY TabStep DEF Become
<1>2. tab \in [Tabs -> Form]
  BY DEF TypeOK
<1>3. tab' \in [Tabs -> Form] /\ \A u \in Tabs : tab'[u] = IF u = t THEN f ELSE tab[u]
  BY <1>1, <1>2 DEF Good
<1>4. \A u \in Tabs : FormOK(tab'[u])
  BY <1>1, <1>3 DEF Good, FormsOK
<1>5. FormsOK'
  BY <1>4 DEF FormsOK, FormOK
<1> QED BY <1>3, <1>5

------------------------------------------------------------------------------
(* Objects are only ever added or replaced.                                  *)
Objects == [Keys -> Files \cup {NoFile}]

Grows(old, new) == \A k \in Keys : old[k] # NoFile => new[k] # NoFile

LEMMA Put ==
  ASSUME NEW s \in Objects, NEW k \in Keys, NEW g \in Files
  PROVE  /\ [s EXCEPT ![k] = g] \in Objects
         /\ Grows(s, [s EXCEPT ![k] = g])
         /\ [s EXCEPT ![k] = g][k] # NoFile
<1>1. g # NoFile
  BY ConstantAssumption
<1> QED BY <1>1 DEF Objects, Grows

LEMMA ObjectsStep ==
  ASSUME TypeOK, FormsOK, NEW t \in Tabs, TabAction(t)
  PROVE  /\ store' \in Objects /\ thumbs' \in Objects
         /\ Grows(store, store') /\ Grows(thumbs, thumbs')
<1>1. store \in Objects /\ thumbs \in Objects
  BY DEF TypeOK, Objects
<1>2. tab[t] \in Form /\ FormOK(tab[t])
  BY DEF TypeOK, FormsOK
<1>3. CASE UNCHANGED <<store, thumbs>>
  BY <1>1, <1>3 DEF Grows
<1>4. ASSUME tab[t].pc \in {"upload", "thumb"}
      PROVE  KeyOf(tab[t]) \in Keys /\ tab[t].file \in Files
  BY <1>2, <1>4, KeyType DEF FormOK
<1>5. CASE Upload(t)
  <2>1. tab[t].pc = "upload" /\ store' = [store EXCEPT ![KeyOf(tab[t])] = tab[t].file]
        /\ thumbs' = thumbs
    BY <1>5 DEF Upload, At
  <2>2. KeyOf(tab[t]) \in Keys /\ tab[t].file \in Files
    BY <1>4, <2>1
  <2>3. store' \in Objects /\ Grows(store, store')
    BY <1>1, <2>1, <2>2, Put
  <2> QED BY <1>1, <2>1, <2>3 DEF Grows
<1>6. CASE UploadThumbnail(t)
  <2>1. tab[t].pc = "thumb" /\ thumbs' = [thumbs EXCEPT ![KeyOf(tab[t])] = tab[t].file]
        /\ store' = store
    BY <1>6 DEF UploadThumbnail, At
  <2>2. KeyOf(tab[t]) \in Keys /\ tab[t].file \in Files
    BY <1>4, <2>1
  <2>3. thumbs' \in Objects /\ Grows(thumbs, thumbs')
    BY <1>1, <2>1, <2>2, Put
  <2> QED BY <1>1, <2>1, <2>3 DEF Grows
<1>7. CASE Fail(t)
  <2>1. CASE tab[t].pc = "upload" /\ store' = [store EXCEPT ![KeyOf(tab[t])] = tab[t].file]
             /\ thumbs' = thumbs
    <3>1. KeyOf(tab[t]) \in Keys /\ tab[t].file \in Files
      BY <1>4, <2>1
    <3>2. store' \in Objects /\ Grows(store, store')
      BY <1>1, <2>1, <3>1, Put
    <3> QED BY <1>1, <2>1, <3>2 DEF Grows
  <2>2. CASE tab[t].pc = "thumb" /\ thumbs' = [thumbs EXCEPT ![KeyOf(tab[t])] = tab[t].file]
             /\ store' = store
    <3>1. KeyOf(tab[t]) \in Keys /\ tab[t].file \in Files
      BY <1>4, <2>2
    <3>2. thumbs' \in Objects /\ Grows(thumbs, thumbs')
      BY <1>1, <2>2, <3>1, Put
    <3> QED BY <1>1, <2>2, <3>2 DEF Grows
  <2> QED BY <1>3, <1>7, <2>1, <2>2 DEF Fail, At, objects
<1>8. CASE OpenNew(t) \/ OpenEdit(t) \/ Submit(t) \/ Settle(t) \/ GiveUp(t)
  BY <1>3, <1>8 DEF OpenNew, OpenEdit, Submit, Settle, GiveUp, objects
<1>9. CASE InsertJournal(t) \/ UpdateJournal(t) \/ CheckOwner(t) \/ DeleteRow(t) \/ FinishDrops(t)
  BY <1>3, <1>9 DEF InsertJournal, UpdateJournal, CheckOwner, DeleteRow, FinishDrops, objects
<1>10. CASE StartFile(t) \/ InsertRow(t) \/ FinishSave(t)
  BY <1>3, <1>10 DEF StartFile, InsertRow, FinishSave, objects
<1> QED BY <1>5, <1>6, <1>7, <1>8, <1>9, <1>10 DEF TabAction

------------------------------------------------------------------------------
(* A tab's steps on the database.                                            *)
LEMMA NewRowType ==
  ASSUME NEW f \in Form, FormOK(f), f.pc = "insertRow"
  PROVE  NewRow(f) \in AttachmentRow
<1>1. KeyOf(f) \in Keys /\ f.journal \in Journals /\ f.file \in Files
  BY KeyType DEF FormOK, Saving
<1>2. (f.file \in Decodable) \in BOOLEAN
  OBVIOUS
<1> QED BY <1>1, <1>2 DEF NewRow, AttachmentRow

LEMMA DatabaseStep ==
  ASSUME TypeOK, FormsOK, NEW t \in Tabs, TabAction(t)
  PROVE  /\ journal' \in [Journals -> {"none", "live", "deleted"}]
         /\ rows' \in [Rows -> AttachmentRow \cup {Unused, Deleted}]
         /\ stale' \subseteq Journals
         /\ \A j \in Journals : journal[j] = "deleted" => journal'[j] = "deleted"
<1> USE DEF TypeOK
<1>1. tab[t] \in Form /\ FormOK(tab[t])
  BY DEF FormsOK
<1>2. CASE OpenNew(t) \/ OpenEdit(t) \/ Settle(t) \/ GiveUp(t)
  BY <1>2 DEF OpenNew, OpenEdit, Settle, GiveUp, database
<1>3. CASE Submit(t)
  <2>1. tab[t].entry \in Journals \cup {NoJournal}
    BY <1>1 DEF Form
  <2>2. stale' \subseteq Journals
    BY <1>3, <2>1 DEF Submit
  <2> QED BY <1>3, <2>2 DEF Submit, database
<1>4. CASE InsertJournal(t)
  BY <1>4 DEF InsertJournal
<1>5. CASE UpdateJournal(t) \/ CheckOwner(t) \/ FinishDrops(t)
  BY <1>5 DEF UpdateJournal, CheckOwner, FinishDrops, database
<1>6. CASE DeleteRow(t)
  <2>1. \A r \in Rows : rows[r] \in AttachmentRow \cup {Unused, Deleted}
    OBVIOUS
  <2>2. rows' \in [Rows -> AttachmentRow \cup {Unused, Deleted}]
    BY <1>6, <2>1 DEF DeleteRow
  <2> QED BY <1>6, <2>2 DEF DeleteRow
<1>7. CASE InsertRow(t)
  <2>1. NewRow(tab[t]) \in AttachmentRow
    BY <1>1, <1>7, NewRowType DEF InsertRow, At
  <2>2. rows' \in [Rows -> AttachmentRow \cup {Unused, Deleted}]
    BY <1>7, <2>1 DEF InsertRow
  <2> QED BY <1>7, <2>2 DEF InsertRow
<1>8. CASE StartFile(t) \/ FinishSave(t) \/ Fail(t)
  BY <1>8 DEF StartFile, FinishSave, Fail, database
<1>9. CASE Upload(t) \/ UploadThumbnail(t)
  BY <1>9 DEF Upload, UploadThumbnail, database
<1> QED BY <1>2, <1>3, <1>4, <1>5, <1>6, <1>7, <1>8, <1>9 DEF TabAction

LEMMA TypeStep == TypeOK /\ FormsOK /\ [Next]_vars => TypeOK' /\ FormsOK'
<1> SUFFICES ASSUME TypeOK, FormsOK, [Next]_vars PROVE TypeOK' /\ FormsOK'
  OBVIOUS
<1>1. ASSUME NEW t \in Tabs, TabAction(t) PROVE TypeOK' /\ FormsOK'
  BY <1>1, TabsStep, ObjectsStep, DatabaseStep DEF TypeOK, Objects
<1>2. ASSUME NEW j \in Journals, SoftDelete(j) PROVE TypeOK' /\ FormsOK'
  BY <1>2 DEF SoftDelete, objects, TypeOK, FormsOK, FormOK
<1>3. CASE ServerStops
  <2>1. \A t \in Tabs : Good(tab[t]) /\ Good(Restored(tab[t]))
    BY RestoredType, RestingOK DEF TypeOK, FormsOK, Good
  <2>2. tab' = [t \in Tabs |-> IF tab[t].pc \in Saving THEN Restored(tab[t]) ELSE tab[t]]
    BY <1>3 DEF ServerStops
  <2>3. tab' \in [Tabs -> Form] /\ \A t \in Tabs : FormOK(tab'[t])
    BY <2>1, <2>2 DEF Good
  <2>4. TypeOK'
    BY <1>3, <2>3 DEF ServerStops, database, objects, TypeOK
  <2> QED BY <2>3, <2>4 DEF FormsOK, FormOK
<1>4. CASE UNCHANGED vars
  BY <1>4 DEF vars, TypeOK, FormsOK, FormOK
<1> QED BY <1>1, <1>2, <1>3, <1>4, NextCases

------------------------------------------------------------------------------
(* The form a submission leaves.                                             *)
LEMMA SubmitForm ==
  ASSUME TypeOK, NEW t \in Tabs, Submit(t)
  PROVE  /\ tab'[t].pc \in {"insertJournal", "updateJournal"}
         /\ tab'[t].late => /\ tab'[t].pc = "updateJournal"
                            /\ journal[tab'[t].journal] = "deleted"
<1> DEFINE j == tab[t].entry
           f(files, drop) == [tab[t] EXCEPT
              !.pc = IF j = NoJournal THEN "insertJournal" ELSE "updateJournal",
              !.journal = j, !.files = files, !.toStore = files,
              !.drop = drop, !.toDrop = drop,
              !.late = j # NoJournal /\ journal[j] = "deleted"]
<1>1. PICK files \in SUBSET Files, drop \in SUBSET tab[t].seen : Become(t, f(files, drop))
  BY DEF Submit
<1>2. tab \in [Tabs -> Form] /\ tab[t] \in Form
  BY DEF TypeOK
<1>3. /\ f(files, drop).pc = IF j = NoJournal THEN "insertJournal" ELSE "updateJournal"
      /\ f(files, drop).journal = j
      /\ f(files, drop).late = (j # NoJournal /\ journal[j] = "deleted")
  BY <1>2 DEF Form
<1>4. tab'[t] = f(files, drop)
  BY <1>1, <1>2 DEF Become
<1> HIDE DEF f
<1> QED BY <1>3, <1>4

(* Only an upload leads to the statements that rely on it.                   *)
LEMMA PcStep ==
  ASSUME TypeOK, NEW t \in Tabs, TabAction(t), ~Upload(t), ~UploadThumbnail(t)
  PROVE  tab'[t].pc \notin {"thumb", "insertRow"}
<1>1. tab \in [Tabs -> Form] /\ tab[t] \in Form
  BY DEF TypeOK
<1>2. \A f : Become(t, f) => tab'[t] = f
  BY <1>1 DEF Become
<1>3. Closed.pc = "closed" /\ Restored(tab[t]).pc = "editing"
  BY DEF Closed, Restored
<1>4. CASE OpenNew(t) \/ OpenEdit(t) \/ Settle(t) \/ GiveUp(t) \/ Fail(t)
  BY <1>2, <1>3, <1>4 DEF OpenNew, OpenEdit, Settle, GiveUp, Fail, Closed
<1>5. CASE Submit(t)
  BY <1>5, SubmitForm
<1>6. CASE InsertJournal(t) \/ UpdateJournal(t) \/ CheckOwner(t)
  BY <1>1, <1>2, <1>3, <1>6 DEF InsertJournal, UpdateJournal, CheckOwner, Goto, Form
<1>7. CASE DeleteRow(t) \/ FinishDrops(t) \/ StartFile(t)
  <2>1. CASE DeleteRow(t)
    BY <1>1, <1>2, <2>1 DEF DeleteRow, Form
  <2>2. CASE FinishDrops(t) \/ StartFile(t)
    BY <1>1, <1>2, <2>2 DEF FinishDrops, StartFile, Goto, Form
  <2> QED BY <1>7, <2>1, <2>2
<1>8. CASE InsertRow(t) \/ FinishSave(t)
  BY <1>1, <1>2, <1>8 DEF InsertRow, FinishSave, NextFile, Goto, Form
<1> QED BY <1>4, <1>5, <1>6, <1>7, <1>8 DEF TabAction

LEMMA StoredStep == IInv /\ [Next]_vars => AllStored'
<1> SUFFICES ASSUME IInv, [Next]_vars, NEW u \in Tabs PROVE Stored(tab[u])'
  BY DEF AllStored
<1> USE DEF IInv
<1>1. tab \in [Tabs -> Form] /\ tab[u] \in Form /\ FormOK(tab[u]) /\ Stored(tab[u])
  BY DEF TypeOK, FormsOK, AllStored
<1>2. ASSUME tab'[u] = tab[u], Grows(store, store'), Grows(thumbs, thumbs')
      PROVE  Stored(tab[u])'
  <2>1. tab[u].pc \in {"thumb", "insertRow"} => KeyOf(tab[u]) \in Keys
    BY <1>1, KeyType
  <2>2. KeyOf(tab[u])' = KeyOf(tab[u])
    BY <1>2 DEF KeyOf
  <2> QED BY <1>1, <1>2, <2>1, <2>2 DEF Stored, Grows
<1>3. ASSUME NEW t \in Tabs, TabAction(t) PROVE Stored(tab[u])'
  <2>1. Grows(store, store') /\ Grows(thumbs, thumbs')
    BY <1>3, ObjectsStep
  <2>2. CASE t # u
    BY <1>2, <1>3, <2>1, <2>2, TabsStep
  <2>3. CASE t = u /\ ~Upload(u) /\ ~UploadThumbnail(u)
    BY <1>3, <2>3, PcStep DEF Stored
  <2>4. CASE t = u /\ Upload(u)
    <3>1. tab[u].pc = "upload" /\ tab'[u] = [tab[u] EXCEPT !.pc = AfterUpload(u)]
          /\ store' = [store EXCEPT ![KeyOf(tab[u])] = tab[u].file]
      BY <1>1, <2>4 DEF Upload, At, Goto, Become
    <3>2. KeyOf(tab[u]) \in Keys /\ tab[u].file \in Files
      BY <1>1, <3>1, KeyType DEF FormOK
    <3>3. store'[KeyOf(tab[u])] # NoFile
      BY <3>1, <3>2, Put DEF TypeOK, Objects
    <3>4. tab'[u].file = tab[u].file /\ tab'[u].pc = AfterUpload(u) /\ KeyOf(tab[u])' = KeyOf(tab[u])
      BY <1>1, <3>1 DEF KeyOf, Form
    <3> QED BY <3>3, <3>4 DEF Stored, AfterUpload
  <2>5. CASE t = u /\ UploadThumbnail(u)
    <3>1. tab[u].pc = "thumb" /\ tab'[u] = [tab[u] EXCEPT !.pc = "insertRow"]
          /\ thumbs' = [thumbs EXCEPT ![KeyOf(tab[u])] = tab[u].file] /\ store' = store
      BY <1>1, <2>5 DEF UploadThumbnail, At, Goto, Become
    <3>2. KeyOf(tab[u]) \in Keys /\ tab[u].file \in Files
      BY <1>1, <3>1, KeyType DEF FormOK
    <3>3. thumbs'[KeyOf(tab[u])] # NoFile
      BY <3>1, <3>2, Put DEF TypeOK, Objects
    <3>4. store'[KeyOf(tab[u])] # NoFile
      BY <1>1, <3>1 DEF Stored
    <3>5. KeyOf(tab[u])' = KeyOf(tab[u])
      BY <1>1, <3>1 DEF KeyOf, Form
    <3> QED BY <3>3, <3>4, <3>5 DEF Stored
  <2> QED BY <2>2, <2>3, <2>4, <2>5
<1>4. ASSUME NEW j \in Journals, SoftDelete(j) PROVE Stored(tab[u])'
  BY <1>2, <1>4 DEF SoftDelete, objects, Grows
<1>5. CASE ServerStops
  <2>1. Grows(store, store') /\ Grows(thumbs, thumbs')
    BY <1>5 DEF ServerStops, objects, Grows
  <2>2. tab'[u] = IF tab[u].pc \in Saving THEN Restored(tab[u]) ELSE tab[u]
    BY <1>5 DEF ServerStops
  <2>3. CASE tab'[u] = tab[u]
    BY <1>2, <2>1, <2>3
  <2>4. CASE tab'[u] = Restored(tab[u])
    BY <1>1, <2>4, RestoredType DEF Stored, Resting, Saving
  <2> QED BY <2>2, <2>3, <2>4
<1>6. CASE UNCHANGED vars
  BY <1>2, <1>6 DEF vars, Grows
<1> QED BY <1>3, <1>4, <1>5, <1>6, NextCases

------------------------------------------------------------------------------
LEMMA RowsStep == IInv /\ [Next]_vars => RowsHaveObjects'
<1> SUFFICES ASSUME IInv, [Next]_vars PROVE RowsHaveObjects'
  OBVIOUS
<1> USE DEF IInv
<1>1. \A r \in Rows : Present(r) => rows[r].key \in Keys
  <2>1. \A r \in Rows : Present(r) => rows[r] \in AttachmentRow
    BY DEF TypeOK, Present
  <2> QED BY <2>1 DEF AttachmentRow
<1>2. ASSUME rows' = rows, Grows(store, store'), Grows(thumbs, thumbs')
      PROVE  RowsHaveObjects'
  BY <1>1, <1>2 DEF RowsHaveObjects, Present, Grows
<1>3. ASSUME NEW t \in Tabs, TabAction(t) PROVE RowsHaveObjects'
  <2>1. Grows(store, store') /\ Grows(thumbs, thumbs')
    BY <1>3, ObjectsStep
  <2>2. CASE DeleteRow(t)
    <3>1. store' = store /\ thumbs' = thumbs
      BY <2>2 DEF DeleteRow, objects
    <3>2. \A r \in Rows : Present(r)' => rows'[r] = rows[r] /\ Present(r)
      BY <2>2 DEF DeleteRow, Present, TypeOK
    <3> QED BY <3>1, <3>2 DEF RowsHaveObjects
  <2>3. CASE InsertRow(t)
    <3>1. PICK r \in Rows : rows[r] = Unused /\ rows' = [rows EXCEPT ![r] = NewRow(tab[t])]
      BY <2>3 DEF InsertRow
    <3>2. tab[t].pc = "insertRow" /\ store' = store /\ thumbs' = thumbs
      BY <2>3 DEF InsertRow, At, objects
    <3>3. /\ store[NewRow(tab[t]).key] # NoFile
          /\ NewRow(tab[t]).thumb => thumbs[NewRow(tab[t]).key] # NoFile
      BY <3>2 DEF AllStored, Stored, NewRow
    <3>4. \A s \in Rows : s # r => rows'[s] = rows[s]
      BY <3>1 DEF TypeOK
    <3>5. rows'[r] = NewRow(tab[t])
      BY <3>1 DEF TypeOK
    <3> QED BY <3>2, <3>3, <3>4, <3>5 DEF RowsHaveObjects, Present
  <2>4. CASE rows' = rows
    BY <1>2, <2>1, <2>4
  <2>5. CASE OpenNew(t) \/ OpenEdit(t) \/ Submit(t) \/ Settle(t) \/ GiveUp(t)
    BY <2>4, <2>5 DEF OpenNew, OpenEdit, Submit, Settle, GiveUp, database
  <2>6. CASE InsertJournal(t) \/ UpdateJournal(t) \/ CheckOwner(t) \/ FinishDrops(t)
    BY <2>4, <2>6 DEF InsertJournal, UpdateJournal, CheckOwner, FinishDrops, database
  <2>7. CASE StartFile(t) \/ Upload(t) \/ UploadThumbnail(t) \/ FinishSave(t) \/ Fail(t)
    BY <2>4, <2>7 DEF StartFile, Upload, UploadThumbnail, FinishSave, Fail, database
  <2> QED BY <1>3, <2>2, <2>3, <2>5, <2>6, <2>7 DEF TabAction
<1>4. ASSUME NEW j \in Journals, SoftDelete(j) PROVE RowsHaveObjects'
  BY <1>2, <1>4 DEF SoftDelete, objects, Grows
<1>5. CASE ServerStops
  BY <1>2, <1>5 DEF ServerStops, database, objects, Grows
<1>6. CASE UNCHANGED vars
  BY <1>2, <1>6 DEF vars, Grows
<1> QED BY <1>3, <1>4, <1>5, <1>6, NextCases

------------------------------------------------------------------------------
(* A step of a tab that is saving late.                                      *)
LEMMA LateOwnStep ==
  ASSUME IInv, NEW t \in Tabs, TabAction(t), tab[t].late, tab[t].pc \in Saving
  PROVE  tab'[t].pc \notin Saving /\ UNCHANGED <<rows, objects>>
<1> USE DEF IInv
<1>1. tab \in [Tabs -> Form] /\ tab[t] \in Form
  BY DEF TypeOK
<1>2. tab[t].pc = "updateJournal" /\ journal[tab[t].journal] = "deleted"
  BY DEF AllLate, LateKnown
<1>3. UpdateJournal(t) \/ Fail(t)
  BY <1>2 DEF TabAction, At, OpenNew, OpenEdit, Submit, Settle, GiveUp, InsertJournal,
     CheckOwner, DeleteRow, FinishDrops, StartFile, Upload, UploadThumbnail,
     InsertRow, FinishSave
<1>4. tab' = [tab EXCEPT ![t] = Restored(tab[t])]
  BY <1>2, <1>3 DEF UpdateJournal, Fail, Become
<1>5. UNCHANGED <<rows, objects>>
  BY <1>2, <1>3 DEF UpdateJournal, Fail, At, database, objects
<1>6. tab'[t] = Restored(tab[t])
  BY <1>1, <1>4
<1> QED BY <1>1, <1>5, <1>6, RestoredType DEF Resting

(* A save that was not late does not become so, but at its start.            *)
LEMMA LateStart ==
  ASSUME IInv, NEW t \in Tabs, TabAction(t), tab'[t].late, tab'[t].pc \in Saving
  PROVE  Submit(t) \/ (tab[t].late /\ tab[t].pc \in Saving)
<1> SUFFICES ASSUME ~Submit(t) PROVE tab[t].late /\ tab[t].pc \in Saving
  OBVIOUS
<1> USE DEF IInv
<1>1. tab \in [Tabs -> Form] /\ tab[t] \in Form
  BY DEF TypeOK
<1>2. \A f : Become(t, f) => tab'[t] = f
  BY <1>1 DEF Become
<1>3. Resting(Closed) /\ Resting([Closed EXCEPT !.pc = "editing"]) /\ Resting(Restored(tab[t]))
  BY <1>1, ClosedType, RestoredType
<1>4. ~(OpenNew(t) \/ Settle(t) \/ GiveUp(t) \/ Fail(t))
  BY <1>2, <1>3 DEF OpenNew, Settle, GiveUp, Fail, Resting
<1>5. ~OpenEdit(t)
  BY <1>2 DEF OpenEdit, Closed, Saving
<1>6. CASE InsertJournal(t) \/ DeleteRow(t) \/ FinishDrops(t) \/ StartFile(t)
  <2>1. tab[t].pc \in Saving
    BY <1>6 DEF InsertJournal, DeleteRow, FinishDrops, StartFile, At, Saving
  <2>2. CASE InsertJournal(t) \/ StartFile(t)
    BY <1>1, <1>2, <2>1, <2>2 DEF InsertJournal, StartFile, Form
  <2>3. CASE DeleteRow(t) \/ FinishDrops(t)
    BY <1>1, <1>2, <2>1, <2>3 DEF DeleteRow, FinishDrops, Goto, Form
  <2> QED BY <1>6, <2>2, <2>3
<1>7. CASE UpdateJournal(t) \/ CheckOwner(t)
  <2>1. tab[t].pc \in Saving
    BY <1>7 DEF UpdateJournal, CheckOwner, At, Saving
  <2>2. tab'[t] # Restored(tab[t])
    BY <1>3 DEF Resting
  <2>3. CASE UpdateJournal(t)
    BY <1>1, <1>2, <2>1, <2>2, <2>3 DEF UpdateJournal, Goto, Form
  <2>4. CASE CheckOwner(t)
    <3>1. PICK r \in tab[t].toDrop :
            tab'[t] \in {[tab[t] EXCEPT !.row = r, !.pc = "deleteRow"], Restored(tab[t])}
      BY <1>2, <2>4 DEF CheckOwner
    <3> QED BY <1>1, <2>1, <2>2, <3>1 DEF Form
  <2> QED BY <1>7, <2>3, <2>4
<1>8. CASE Upload(t) \/ UploadThumbnail(t)
  BY <1>1, <1>2, <1>8 DEF Upload, UploadThumbnail, Goto, At, Form, Saving
<1>9. CASE InsertRow(t)
  <2>1. PICK r : tab'[t] = NextFile(tab[t], {r})
    BY <1>2, <1>9 DEF InsertRow
  <2>2. NextFile(tab[t], {r}).late = tab[t].late
    BY <1>1 DEF NextFile, Form
  <2> QED BY <1>9, <2>1, <2>2 DEF InsertRow, At, Saving
<1>10. CASE FinishSave(t)
  BY <1>1, <1>2, <1>10 DEF FinishSave, Goto, At, Form, Saving
<1> QED BY <1>4, <1>5, <1>6, <1>7, <1>8, <1>9, <1>10 DEF TabAction

LEMMA LateStep == IInv /\ [Next]_vars => AllLate'
<1> SUFFICES ASSUME IInv, [Next]_vars, NEW u \in Tabs PROVE LateKnown(tab[u])'
  BY DEF AllLate
<1> USE DEF IInv
<1>1. tab[u] \in Form /\ FormOK(tab[u]) /\ LateKnown(tab[u])
  BY DEF TypeOK, FormsOK, AllLate
<1>2. ASSUME tab'[u] = tab[u],
             \A j \in Journals : journal[j] = "deleted" => journal'[j] = "deleted"
      PROVE  LateKnown(tab[u])'
  BY <1>1, <1>2 DEF LateKnown, FormOK, Saving
<1>3. ASSUME NEW t \in Tabs, TabAction(t) PROVE LateKnown(tab[u])'
  <2>1. \A j \in Journals : journal[j] = "deleted" => journal'[j] = "deleted"
    BY <1>3, DatabaseStep
  <2>2. CASE t # u
    BY <1>2, <1>3, <2>1, <2>2, TabsStep
  <2>3. CASE t = u /\ ~(tab'[u].late /\ tab'[u].pc \in Saving)
    BY <2>3 DEF LateKnown
  <2>4. CASE t = u /\ tab'[u].late /\ tab'[u].pc \in Saving
    <3>1. Submit(u)
      BY <1>3, <2>4, LateStart, LateOwnStep
    <3>2. tab'[u].pc = "updateJournal" /\ journal[tab'[u].journal] = "deleted"
      BY <2>4, <3>1, SubmitForm
    <3>3. journal' = journal
      BY <3>1 DEF Submit, database
    <3> QED BY <3>2, <3>3 DEF LateKnown
  <2> QED BY <2>2, <2>3, <2>4
<1>4. ASSUME NEW j \in Journals, SoftDelete(j) PROVE LateKnown(tab[u])'
  <2>1. \A i \in Journals : journal[i] = "deleted" => journal'[i] = "deleted"
    BY <1>4 DEF SoftDelete, TypeOK
  <2> QED BY <1>2, <1>4, <2>1 DEF SoftDelete
<1>5. CASE ServerStops
  <2>1. journal' = journal
    BY <1>5 DEF ServerStops, database
  <2>2. tab'[u] = tab[u] \/ tab'[u] = Restored(tab[u])
    BY <1>5 DEF ServerStops
  <2>3. CASE tab'[u] = Restored(tab[u])
    BY <1>1, <2>3, RestoredType DEF LateKnown, Resting
  <2> QED BY <1>2, <2>1, <2>2, <2>3
<1>6. CASE UNCHANGED vars
  BY <1>2, <1>6 DEF vars
<1> QED BY <1>3, <1>4, <1>5, <1>6, NextCases

------------------------------------------------------------------------------
LEMMA InitInv == Init => IInv
<1> SUFFICES ASSUME Init PROVE IInv
  OBVIOUS
<1>1. \A t \in Tabs : tab[t] = Closed
  BY DEF Init
<1>2. \A t \in Tabs : FormOK(tab[t]) /\ Stored(tab[t]) /\ LateKnown(tab[t])
  BY <1>1, ClosedType, RestingOK
<1>3. TypeOK
  BY ClosedType DEF Init, TypeOK
<1>4. RowsHaveObjects
  BY DEF Init, RowsHaveObjects, Present
<1> QED BY <1>2, <1>3, <1>4 DEF IInv, FormsOK, AllStored, AllLate

LEMMA IInvStep == IInv /\ [Next]_vars => IInv'
BY TypeStep, StoredStep, RowsStep, LateStep DEF IInv

(* The inductive invariant of saving a journal (service/journal.go).         *)
THEOREM Inductive == Spec => []IInv
BY InitInv, IInvStep, PTL DEF Spec

(* Every variable keeps its type: an attachment row names an issued journal  *)
(* id and a key made for it, whatever two tabs and failures do.              *)
THEOREM TypeCorrect == Spec => []TypeOK
<1>1. IInv => TypeOK
  BY DEF IInv
<1> QED BY <1>1, Inductive, PTL

(* A visible attachment has its object, and its thumbnail when its row names *)
(* one: UploadFile comes before the INSERT, and nothing removes an object.   *)
THEOREM RowsCorrect == Spec => []RowsHaveObjects
<1>1. IInv => RowsHaveObjects
  BY DEF IInv
<1> QED BY <1>1, Inductive, PTL

(* A save that arrives after its journal was deleted ends at the UPDATE.     *)
THEOREM LateSavesCorrect == Spec => LateSavesChangeNothing
<1>1. IInv /\ [Next]_vars =>
        [\A t \in Tabs : tab[t].late /\ tab[t].pc \in Saving /\ tab'[t] # tab[t]
           => UNCHANGED <<rows, objects>>]_vars
  <2> SUFFICES ASSUME IInv, [Next]_vars, NEW t \in Tabs, tab[t].late,
                      tab[t].pc \in Saving, tab'[t] # tab[t]
               PROVE  UNCHANGED <<rows, objects>>
    OBVIOUS
  <2>1. ASSUME NEW u \in Tabs, TabAction(u) PROVE UNCHANGED <<rows, objects>>
    <3>1. u = t
      BY <2>1, TabsStep DEF IInv
    <3> QED BY <2>1, <3>1, LateOwnStep
  <2>2. ASSUME NEW j \in Journals, SoftDelete(j) PROVE UNCHANGED <<rows, objects>>
    BY <2>2 DEF SoftDelete, objects
  <2>3. CASE ServerStops
    BY <2>3 DEF ServerStops, database, objects
  <2>4. CASE UNCHANGED vars
    BY <2>4 DEF vars, objects
  <2> QED BY <2>1, <2>2, <2>3, <2>4, NextCases
<1> QED BY <1>1, Inductive, PTL DEF Spec, LateSavesChangeNothing

------------------------------------------------------------------------------
(* What the rows of a journal have to do with the forms that made them.      *)
(* Where a save is: still removing rows, or past that.                       *)
Dropping == {"updateJournal", "drop", "deleteRow"}
Storing  == {"file", "upload", "thumb", "insertRow", "ok"}

(* What a form f knows, of rows rs and journals js: it shows rows of its     *)
(* journal or rows that are gone, and drops some of those it shows.          *)
Holds(x) == x \notin {Unused, Deleted}

Shows(f, rs, js) ==
  /\ f.toDrop \subseteq f.drop /\ f.drop \subseteq f.seen
  /\ f.entry \in Journals => js[f.entry] # "none"
  /\ \A r \in f.seen : rs[r] = Deleted \/ (Holds(rs[r]) /\ rs[r].journal = f.entry)

(* The journal it saves is that of its page, or was made by the save.        *)
Targets(f, js) ==
  /\ f.pc = "insertJournal" => f.entry = NoJournal /\ f.journal = NoJournal
  /\ f.pc \in Dropping => f.entry = f.journal
  /\ f.pc \in Dropping \cup Storing =>
       f.journal \in Journals /\ js[f.journal] # "none" /\ f.entry \in {NoJournal, f.journal}

(* What it has dropped by now is gone, and all of it before the first image. *)
Drops(f, rs) ==
  /\ f.pc \in Dropping => \A r \in f.drop \ f.toDrop : rs[r] = Deleted
  /\ f.pc = "deleteRow" => f.row \in f.toDrop
  /\ f.pc \in Storing => \A r \in f.drop : rs[r] = Deleted

(* The images stored by now have a row each, of their own and in its journal.*)
Counted(f) ==
  IsFiniteSet(f.made) /\ Cardinality(f.made) + Cardinality(f.toStore) = Cardinality(f.files)

OwnRows(f, rs) ==
  /\ \A r \in f.made :
       /\ rs[r] # Unused
       /\ Holds(rs[r]) => rs[r].journal = f.journal /\ rs[r].file \in f.files \ f.toStore
  /\ \A r, s \in f.made : Holds(rs[r]) /\ Holds(rs[s]) /\ r # s => rs[r].file # rs[s].file

Stores(f, rs) ==
  /\ f.pc \in {"editing", "insertJournal"} \cup Dropping => f.made = {}
  /\ f.pc \in {"insertJournal"} \cup Dropping => f.toStore = f.files
  /\ f.pc \in {"upload", "thumb", "insertRow"} => f.file \in f.toStore
  /\ f.pc = "ok" => f.toStore = {}
  /\ f.pc \in Storing => f.toStore \subseteq f.files /\ Counted(f) /\ OwnRows(f, rs)

Right(f, rs, js) == Shows(f, rs, js) /\ Targets(f, js) /\ Drops(f, rs) /\ Stores(f, rs)

AllRight == \A t \in Tabs : Right(tab[t], rows, journal)

------------------------------------------------------------------------------
(* What the steps of a save make of its form.                                *)
Submitted(f, files, drop, late) ==
  [f EXCEPT !.pc = IF f.entry = NoJournal THEN "insertJournal" ELSE "updateJournal",
            !.journal = f.entry, !.files = files, !.toStore = files,
            !.drop = drop, !.toDrop = drop, !.late = late]

Moved(f, pc)     == [f EXCEPT !.pc = pc]
Chosen(f, r)     == [f EXCEPT !.row = r, !.pc = "deleteRow"]
Dropped(f)       == [f EXCEPT !.pc = "drop", !.toDrop = @ \ {f.row}, !.row = NoRow]
Inserted(f, j)   == [f EXCEPT !.pc = "file", !.journal = j]
Opened(j, seen)  == [Closed EXCEPT !.pc = "editing", !.entry = j, !.seen = seen]

------------------------------------------------------------------------------
(* A row ends, and its id is never used again; a journal stays issued.       *)
RowsEnd(rs, new) == \A r \in Rows : rs[r] # Unused => new[r] \in {rs[r], Deleted}

JournalsStay(js, new) == \A j \in Journals : js[j] # "none" => new[j] # "none"

(* Whatever others do to rows and journals, a form stays right.              *)
LEMMA RightStays ==
  ASSUME NEW f \in Form, NEW rs, NEW js, NEW new, NEW now,
         Right(f, rs, js), RowsEnd(rs, new), JournalsStay(js, now)
  PROVE  Right(f, new, now)
<1>0. Unused # Deleted
  BY ConstantAssumption
<1>1. f.seen \subseteq Rows /\ f.drop \subseteq Rows /\ f.made \subseteq Rows
  BY DEF Form
<1>2. Shows(f, new, now)
  BY <1>0, <1>1 DEF Right, Shows, RowsEnd, JournalsStay, Holds
<1>3. Targets(f, now)
  BY DEF Right, Targets, JournalsStay
<1>4. Drops(f, new)
  BY <1>0, <1>1 DEF Right, Drops, RowsEnd
<1>5. OwnRows(f, rs) => OwnRows(f, new)
  BY <1>0, <1>1 DEF OwnRows, RowsEnd, Holds
<1>6. Stores(f, new)
  BY <1>5 DEF Right, Stores
<1> QED BY <1>2, <1>3, <1>4, <1>6 DEF Right

(* A form that is closed, or open and not saving.                            *)
LEMMA ClosedRight ==
  ASSUME NEW rs, NEW js
  PROVE  /\ Right(Closed, rs, js)
         /\ Right([Closed EXCEPT !.pc = "editing"], rs, js)
BY ConstantAssumption DEF Right, Shows, Targets, Drops, Stores, Closed, Dropping, Storing

LEMMA RestoredRight ==
  ASSUME NEW f \in Form, NEW rs, NEW js, Right(f, rs, js)
  PROVE  Right(Restored(f), rs, js)
<1> DEFINE g == Restored(f)
<1>1. /\ g.pc = "editing" /\ g.entry = f.entry /\ g.seen = f.seen /\ g.drop = f.drop
      /\ g.toDrop = {} /\ g.made = {}
  BY DEF Restored, Closed
<1> HIDE DEF g
<1>2. Shows(g, rs, js)
  BY <1>1 DEF Right, Shows
<1>3. Targets(g, js) /\ Drops(g, rs) /\ Stores(g, rs)
  BY <1>1 DEF Targets, Drops, Stores, Dropping, Storing
<1> QED BY <1>2, <1>3 DEF Right, g

------------------------------------------------------------------------------
(* The steps of a tab on its own form, those that leave the database alone   *)
(* first.                                                                    *)
LEMMA OpenRight ==
  ASSUME TypeOK, NEW j \in Journals, NEW seen \in {RowsOf(j), {}}, journal[j] = "live"
  PROVE  Right(Opened(j, seen), rows, journal)
<1> DEFINE f == Opened(j, seen)
<1>1. /\ f.pc = "editing" /\ f.entry = j /\ f.seen = seen /\ f.drop = {} /\ f.toDrop = {}
      /\ f.made = {}
  BY DEF Opened, Closed
<1> HIDE DEF f
<1>2. Shows(f, rows, journal)
  BY <1>1 DEF Shows, RowsOf, Present, Holds
<1>3. Targets(f, journal) /\ Drops(f, rows) /\ Stores(f, rows)
  BY <1>1 DEF Targets, Drops, Stores, Dropping, Storing
<1> QED BY <1>2, <1>3 DEF Right, f

LEMMA SubmitRight ==
  ASSUME NEW f \in Form, NEW rs, NEW js, Right(f, rs, js), f.pc = "editing",
         NEW files \in SUBSET Files, NEW drop \in SUBSET f.seen, NEW late \in BOOLEAN
  PROVE  Right(Submitted(f, files, drop, late), rs, js)
<1> DEFINE g == Submitted(f, files, drop, late)
<1>1. /\ g.pc = (IF f.entry = NoJournal THEN "insertJournal" ELSE "updateJournal")
      /\ g.journal = f.entry /\ g.entry = f.entry /\ g.seen = f.seen /\ g.made = f.made
      /\ g.files = files /\ g.toStore = files /\ g.drop = drop /\ g.toDrop = drop
  BY DEF Submitted, Form
<1>2. f.made = {} /\ f.entry \in Journals \cup {NoJournal}
  BY DEF Right, Stores, Form
<1> HIDE DEF g
<1>3. Shows(g, rs, js)
  BY <1>1 DEF Right, Shows
<1>4. Targets(g, js)
  BY <1>1, <1>2 DEF Right, Shows, Targets, Dropping, Storing
<1>5. Drops(g, rs) /\ Stores(g, rs)
  BY <1>1, <1>2 DEF Drops, Stores, Dropping, Storing
<1> QED BY <1>3, <1>4, <1>5 DEF Right, g

(* Steps that move the program counter on, and perhaps choose a row or an    *)
(* image to go on with.                                                      *)
LEMMA DropRight ==
  ASSUME NEW f \in Form, NEW rs, NEW js, Right(f, rs, js)
  PROVE  /\ f.pc = "updateJournal" => Right(Moved(f, "drop"), rs, js)
         /\ \A r \in f.toDrop :
              f.pc = "drop" => Right(Chosen(f, r), rs, js)
<1>1. ASSUME f.pc = "updateJournal" PROVE Right(Moved(f, "drop"), rs, js)
  <2> DEFINE g == Moved(f, "drop")
  <2>1. /\ g.pc = "drop" /\ g.journal = f.journal /\ g.entry = f.entry /\ g.seen = f.seen
        /\ g.made = f.made /\ g.files = f.files /\ g.toStore = f.toStore /\ g.drop = f.drop
        /\ g.toDrop = f.toDrop
    BY DEF Moved, Chosen, Form
  <2> HIDE DEF g
  <2> QED BY <1>1, <2>1 DEF Right, Shows, Targets, Drops, Stores, Dropping, Storing, g
<1>2. ASSUME f.pc = "drop", NEW r \in f.toDrop
      PROVE  Right(Chosen(f, r), rs, js)
  <2> DEFINE g == Chosen(f, r)
  <2>1. /\ g.pc = "deleteRow" /\ g.journal = f.journal /\ g.entry = f.entry /\ g.seen = f.seen
        /\ g.made = f.made /\ g.files = f.files /\ g.toStore = f.toStore /\ g.drop = f.drop
        /\ g.toDrop = f.toDrop /\ g.row = r
    BY DEF Moved, Chosen, Form
  <2> HIDE DEF g
  <2> QED BY <1>2, <2>1 DEF Right, Shows, Targets, Drops, Stores, Dropping, Storing, g
<1> QED BY <1>1, <1>2

(* No image has a row yet when the first one is begun.                       *)
LEMMA NoneMade ==
  ASSUME NEW f \in Form, f.made = {}, f.toStore = f.files
  PROVE  Counted(f) /\ \A rs : OwnRows(f, rs)
<1>1. IsFiniteSet(f.files)
  BY ConstantAssumption, FS_Subset DEF Form
<1>2. Cardinality(f.files) \in Nat
  BY <1>1, FS_CardinalityType
<1> QED BY <1>2, FS_EmptySet DEF Counted, OwnRows

LEMMA FinishDropsRight ==
  ASSUME NEW f \in Form, NEW rs, NEW js, Right(f, rs, js), f.pc = "drop", f.toDrop = {}
  PROVE  Right(Moved(f, "file"), rs, js)
<1> DEFINE g == Moved(f, "file")
<1>1. /\ g.pc = "file" /\ g.journal = f.journal /\ g.entry = f.entry /\ g.seen = f.seen
      /\ g.made = f.made /\ g.files = f.files /\ g.toStore = f.toStore /\ g.drop = f.drop
      /\ g.toDrop = f.toDrop /\ g \in Form
  BY DEF Moved, Form, Saving
<1> HIDE DEF g
<1>2. f.made = {} /\ f.toStore = f.files
  BY DEF Right, Stores, Dropping
<1>3. Counted(g) /\ OwnRows(g, rs)
  BY <1>1, <1>2, NoneMade
<1>4. Shows(g, rs, js) /\ Targets(g, js) /\ Drops(g, rs)
  BY <1>1 DEF Right, Shows, Targets, Drops, Dropping, Storing
<1>5. Stores(g, rs)
  BY <1>1, <1>2, <1>3 DEF Stores, Dropping
<1> QED BY <1>4, <1>5 DEF Right, g

(* The steps on one image up to its row, and the end of the save.            *)
SameSave(f, g) ==
  /\ g.journal = f.journal /\ g.entry = f.entry /\ g.seen = f.seen /\ g.made = f.made
  /\ g.files = f.files /\ g.toStore = f.toStore /\ g.drop = f.drop /\ g.toDrop = f.toDrop
  /\ g.pc \in {"upload", "thumb", "insertRow"} => g.file \in f.toStore
  /\ g.pc = "ok" => f.toStore = {}

LEMMA StoreRight ==
  ASSUME NEW f \in Form, NEW rs, NEW js, Right(f, rs, js), f.pc \in Storing \ {"ok"},
         NEW g \in Form, g.pc \in Storing, SameSave(f, g)
  PROVE  Right(g, rs, js)
<1> USE DEF SameSave
<1>1. Shows(g, rs, js) /\ Targets(g, js) /\ Drops(g, rs)
  BY DEF Right, Shows, Targets, Drops, Dropping, Storing
<1>2. Counted(g) /\ OwnRows(g, rs)
  BY DEF Right, Stores, Counted, OwnRows
<1>3. Stores(g, rs)
  BY <1>2 DEF Right, Stores, Dropping, Storing
<1> QED BY <1>1, <1>3 DEF Right

------------------------------------------------------------------------------
(* The steps that write the database.                                        *)
LEMMA RowHolds ==
  /\ \A x \in AttachmentRow : Holds(x)
  /\ \A x \in AttachmentRow \cup {Unused, Deleted} : Holds(x) => x \in AttachmentRow
  /\ ~Holds(Unused) /\ ~Holds(Deleted)
BY ConstantAssumption DEF Holds

LEMMA InsertJournalRight ==
  ASSUME NEW f \in Form, NEW rs, NEW js, NEW now, Right(f, rs, js), f.pc = "insertJournal",
         \A r \in Rows : rs[r] \in AttachmentRow \cup {Unused, Deleted},
         NEW j \in Journals, JournalsStay(js, now), now[j] # "none"
  PROVE  Right(Inserted(f, j), rs, now)
<1> DEFINE g == Inserted(f, j)
<1>1. /\ g.pc = "file" /\ g.journal = j /\ g.entry = f.entry /\ g.seen = f.seen
      /\ g.made = f.made /\ g.files = f.files /\ g.toStore = f.toStore /\ g.drop = f.drop
      /\ g.toDrop = f.toDrop /\ g \in Form
  BY DEF Inserted, Form, Saving
<1> HIDE DEF g
<1>2. f.made = {} /\ f.toStore = f.files /\ f.entry = NoJournal
  BY DEF Right, Targets, Stores
<1>3. Counted(g) /\ OwnRows(g, rs)
  BY <1>1, <1>2, NoneMade
<1>4. \A r \in f.seen : rs[r] = Deleted
  <2>1. \A r \in f.seen : Holds(rs[r]) => rs[r].journal \in Journals
    BY RowHolds DEF Form, AttachmentRow
  <2> QED BY <1>2, <2>1, ConstantAssumption DEF Right, Shows
<1>5. Shows(g, rs, now) /\ Targets(g, now) /\ Drops(g, rs)
  BY <1>1, <1>2, <1>4, ConstantAssumption
     DEF Right, Shows, Targets, Drops, Dropping, Storing, JournalsStay
<1>6. Stores(g, rs)
  BY <1>1, <1>2, <1>3 DEF Stores, Dropping
<1> QED BY <1>5, <1>6 DEF Right, g

LEMMA DeleteRowRight ==
  ASSUME NEW f \in Form, NEW rs, NEW new, NEW js, Right(f, rs, js), f.pc = "deleteRow",
         RowsEnd(rs, new),
         Holds(rs[f.row]) /\ rs[f.row].journal = f.journal => new[f.row] = Deleted
  PROVE  Right(Dropped(f), new, js)
<1> DEFINE g == Dropped(f)
<1>1. /\ g.pc = "drop" /\ g.journal = f.journal /\ g.entry = f.entry /\ g.seen = f.seen
      /\ g.made = f.made /\ g.files = f.files /\ g.toStore = f.toStore /\ g.drop = f.drop
      /\ g.toDrop = f.toDrop \ {f.row}
  BY DEF Dropped, Form
<1>2. Right(f, new, js)
  BY RightStays DEF JournalsStay
<1>3. f.row \in f.toDrop /\ f.row \in f.seen /\ f.row \in Rows /\ f.entry = f.journal
  BY DEF Right, Shows, Targets, Drops, Dropping, Form
<1>4. new[f.row] = Deleted
  BY <1>3, ConstantAssumption DEF Right, Shows, RowsEnd
<1> HIDE DEF g
<1>5. Shows(g, new, js) /\ Targets(g, js)
  BY <1>1, <1>2 DEF Right, Shows, Targets, Dropping, Storing
<1>6. Drops(g, new) /\ Stores(g, new)
  BY <1>1, <1>2, <1>4 DEF Right, Drops, Stores, Dropping, Storing
<1> QED BY <1>5, <1>6 DEF Right, g

(* One image less to store, one row more; the file is no other row's.        *)
LEMMA InsertRowRight ==
  ASSUME NEW f \in Form, NEW rs, NEW js, Right(f, rs, js), FormOK(f), f.pc = "insertRow",
         NEW r \in Rows, rs[r] = Unused, NEW new, new[r] = NewRow(f),
         \A q \in Rows \ {r} : new[q] = rs[q]
  PROVE  Right(NextFile(f, {r}), new, js)
<1> DEFINE g == NextFile(f, {r})
<1>1. /\ g.pc = "file" /\ g.journal = f.journal /\ g.entry = f.entry /\ g.seen = f.seen
      /\ g.made = f.made \cup {r} /\ g.files = f.files /\ g.toStore = f.toStore \ {f.file}
      /\ g.drop = f.drop /\ g.toDrop = f.toDrop
  BY DEF Form, NextFile
<1> HIDE DEF g
<1>2. /\ f.file \in f.toStore /\ f.toStore \subseteq f.files /\ f.made \subseteq Rows
      /\ Counted(f) /\ OwnRows(f, rs)
  BY DEF Right, Stores, Storing, Form
<1>3. new[r].journal = f.journal /\ new[r].file = f.file /\ Holds(new[r])
  BY NewRowType, RowHolds DEF NewRow
<1>4. Right(f, new, js)
  BY RightStays DEF RowsEnd, JournalsStay
<1>5. r \notin f.made
  BY <1>2 DEF OwnRows
<1>6. Counted(g)
  <2>1. IsFiniteSet(f.toStore)
    BY ConstantAssumption, FS_Subset DEF Form
  <2>2. Cardinality(f.toStore \ {f.file}) = Cardinality(f.toStore) - 1
    BY <1>2, <2>1, FS_RemoveElement
  <2>3. IsFiniteSet(g.made) /\ Cardinality(g.made) = Cardinality(f.made) + 1
    <3>1. IsFiniteSet(f.made) /\ g.made = f.made \cup {r}
      BY <1>1, <1>2 DEF Counted
    <3>2. /\ IsFiniteSet(f.made \cup {r})
          /\ Cardinality(f.made \cup {r}) = IF r \in f.made THEN Cardinality(f.made)
                                            ELSE Cardinality(f.made) + 1
      BY <3>1, FS_AddElement
    <3> QED BY <1>5, <3>1, <3>2
  <2>4. Cardinality(f.made) \in Nat /\ Cardinality(f.toStore) \in Nat
    BY <1>2, <2>1, FS_CardinalityType DEF Counted
  <2> QED BY <1>1, <1>2, <2>2, <2>3, <2>4 DEF Counted
<1>7. OwnRows(g, new)
  <2>1. \A q \in f.made : new[q] = rs[q]
    BY <1>2, <1>5
  <2>2. new[r] # Unused
    BY <1>3 DEF Holds
  <2> QED BY <1>1, <1>2, <1>3, <1>5, <2>1, <2>2 DEF OwnRows
<1>8. Shows(g, new, js) /\ Targets(g, js) /\ Drops(g, new)
  BY <1>1, <1>4 DEF Right, Shows, Targets, Drops, Dropping, Storing
<1>9. Stores(g, new)
  BY <1>1, <1>2, <1>6, <1>7 DEF Stores, Dropping
<1> QED BY <1>8, <1>9 DEF Right, g

------------------------------------------------------------------------------
(* What a step of a tab does to the rows and the journals.                   *)
LEMMA EndsStep ==
  ASSUME TypeOK, FormsOK, NEW t \in Tabs, TabAction(t)
  PROVE  RowsEnd(rows, rows') /\ JournalsStay(journal, journal')
<1> USE DEF RowsEnd, JournalsStay
<1>1. CASE OpenNew(t) \/ OpenEdit(t) \/ Submit(t) \/ Settle(t) \/ GiveUp(t)
  BY <1>1 DEF OpenNew, OpenEdit, Submit, Settle, GiveUp, database
<1>2. CASE InsertJournal(t)
  BY <1>2 DEF InsertJournal, TypeOK
<1>3. CASE DeleteRow(t)
  BY <1>3 DEF DeleteRow, TypeOK
<1>4. CASE InsertRow(t)
  BY <1>4 DEF InsertRow, TypeOK
<1>5. CASE UpdateJournal(t) \/ CheckOwner(t) \/ FinishDrops(t) \/ StartFile(t) \/ Upload(t)
           \/ UploadThumbnail(t) \/ FinishSave(t) \/ Fail(t)
  BY <1>5 DEF UpdateJournal, CheckOwner, FinishDrops, StartFile, Upload, UploadThumbnail,
     FinishSave, Fail, database
<1> QED BY <1>1, <1>2, <1>3, <1>4, <1>5 DEF TabAction

LEMMA OwnRight ==
  ASSUME TypeOK, FormsOK, AllRight, NEW t \in Tabs, TabAction(t)
  PROVE  Right(tab'[t], rows', journal')
<1> DEFINE f == tab[t]
<1>1. /\ tab \in [Tabs -> Form] /\ f \in Form /\ FormOK(f) /\ Right(f, rows, journal)
      /\ \A r \in Rows : rows[r] \in AttachmentRow \cup {Unused, Deleted}
  BY DEF TypeOK, FormsOK, AllRight
<1>2. \A g : Become(t, g) => tab'[t] = g
  BY <1>1 DEF Become
<1>3. \A p : Goto(t, p) => tab'[t] = Moved(f, p)
  BY <1>2 DEF Goto, Moved, f
<1>4. RowsEnd(rows, rows') /\ JournalsStay(journal, journal')
  BY EndsStep
<1>5. Right(f, rows', journal')
  BY <1>1, <1>4, RightStays
<1>6. Right(Restored(f), rows', journal')
  BY <1>1, <1>5, RestoredRight
<1> HIDE DEF f
<1>7. CASE OpenNew(t) \/ Settle(t) \/ GiveUp(t) \/ Fail(t)
  BY <1>2, <1>6, <1>7, ClosedRight DEF OpenNew, Settle, GiveUp, Fail, f
<1>8. CASE OpenEdit(t)
  <2>1. PICK j \in Journals : \E seen \in {RowsOf(j), {}} :
          /\ journal[j] = "live"
          /\ tab'[t] = Opened(j, seen)
    BY <1>2, <1>8 DEF OpenEdit, Opened
  <2>2. PICK seen \in {RowsOf(j), {}} :
          /\ journal[j] = "live"
          /\ tab'[t] = Opened(j, seen)
    BY <2>1
  <2>3. rows' = rows /\ journal' = journal
    BY <1>8 DEF OpenEdit, database
  <2> QED BY <2>2, <2>3, OpenRight
<1>9. CASE Submit(t)
  <2> DEFINE late == f.entry # NoJournal /\ journal[f.entry] = "deleted"
  <2>1. PICK files \in SUBSET Files, drop \in SUBSET f.seen :
          tab'[t] = Submitted(f, files, drop, late)
    BY <1>2, <1>9 DEF Submit, Submitted, f
  <2>2. rows' = rows /\ journal' = journal /\ f.pc = "editing" /\ late \in BOOLEAN
    BY <1>9 DEF Submit, database, At, f
  <2> HIDE DEF late
  <2> QED BY <1>1, <2>1, <2>2, SubmitRight
<1>10. CASE InsertJournal(t)
  <2>1. PICK j \in Journals : /\ journal' = [journal EXCEPT ![j] = "live"]
                              /\ tab'[t] = Inserted(f, j)
    BY <1>2, <1>10 DEF InsertJournal, Inserted, f
  <2>2. journal'[j] # "none" /\ f.pc = "insertJournal" /\ rows' = rows
    BY <1>10, <2>1 DEF TypeOK, InsertJournal, At, f
  <2>3. Right(Inserted(f, j), rows, journal')
    BY <1>1, <1>4, <2>2, InsertJournalRight
  <2> QED BY <2>1, <2>2, <2>3
<1>11. CASE UpdateJournal(t)
  BY <1>1, <1>2, <1>3, <1>5, <1>6, <1>11, DropRight DEF UpdateJournal, database, At, f
<1>12. CASE CheckOwner(t)
  <2>1. PICK r \in f.toDrop : tab'[t] \in {Chosen(f, r), Restored(f)}
    BY <1>2, <1>12 DEF CheckOwner, Chosen, f
  <2>2. Right(Chosen(f, r), rows', journal')
    BY <1>1, <1>5, <1>12, DropRight DEF CheckOwner, At, f
  <2> QED BY <1>6, <2>1, <2>2
<1>13. CASE DeleteRow(t)
  <2>1. /\ tab'[t] = Dropped(f)
        /\ f.pc = "deleteRow" /\ journal' = journal
    BY <1>2, <1>13 DEF DeleteRow, Dropped, At, f
  <2>2. f.row \in Rows
    BY <1>1, <2>1 DEF FormOK
  <2>3. Holds(rows[f.row]) /\ rows[f.row].journal = f.journal => rows'[f.row] = Deleted
    BY <1>13, <2>2 DEF DeleteRow, RowsOf, Present, Holds, TypeOK, f
  <2> QED BY <1>1, <1>4, <2>1, <2>3, DeleteRowRight
<1>14. CASE FinishDrops(t)
  BY <1>1, <1>3, <1>5, <1>14, FinishDropsRight DEF FinishDrops, database, At, f
<1>15. CASE InsertRow(t)
  <2>1. PICK r \in Rows : /\ rows[r] = Unused /\ rows' = [rows EXCEPT ![r] = NewRow(f)]
                          /\ tab'[t] = NextFile(f, {r})
    BY <1>2, <1>15 DEF InsertRow, f
  <2>2. /\ rows[r] = Unused /\ rows'[r] = NewRow(f)
        /\ \A q \in Rows \ {r} : rows'[q] = rows[q]
    BY <2>1 DEF TypeOK
  <2>3. f.pc = "insertRow" /\ journal' = journal
    BY <1>15 DEF InsertRow, At, f
  <2>4. Right(NextFile(f, {r}), rows', journal)
    BY <1>1, <2>2, <2>3, InsertRowRight
  <2> QED BY <2>1, <2>3, <2>4
<1>16. CASE StartFile(t) \/ Upload(t) \/ UploadThumbnail(t) \/ FinishSave(t)
  <2>1. /\ tab'[t] \in Form /\ tab'[t].pc \in Storing /\ SameSave(f, tab'[t])
        /\ f.pc \in Storing \ {"ok"}
    <3>1. tab'[t] \in Form
      BY TabsStep
    <3>2. CASE StartFile(t)
      <4>1. PICK g \in f.toStore, second \in Seconds :
              tab'[t] = [f EXCEPT !.pc = "upload", !.file = g, !.at = second]
        BY <1>2, <3>2 DEF StartFile, f
      <4> QED BY <1>1, <3>1, <3>2, <4>1 DEF StartFile, At, Form, Storing, SameSave, f
    <3>3. ASSUME NEW pc \in {"thumb", "insertRow", "ok"}, tab'[t] = Moved(f, pc),
                 f.pc \in {"file", "upload", "thumb"},
                 pc # "ok" => f.file \in f.toStore, pc = "ok" => f.toStore = {}
          PROVE  /\ tab'[t].pc \in Storing /\ SameSave(f, tab'[t])
                 /\ f.pc \in Storing \ {"ok"}
      BY <1>1, <3>1, <3>3 DEF Moved, SameSave, Form, Storing
    <3>4. CASE Upload(t) \/ UploadThumbnail(t)
      <4>1. f.pc \in {"upload", "thumb"} /\ f.file \in f.toStore
        BY <1>1, <3>4 DEF Upload, UploadThumbnail, At, Right, Stores, f
      <4> QED BY <1>3, <3>1, <3>3, <3>4, <4>1 DEF Upload, UploadThumbnail, AfterUpload
    <3>5. CASE FinishSave(t)
      <4>1. f.pc = "file" /\ f.toStore = {}
        BY <3>5 DEF FinishSave, At, f
      <4> QED BY <1>3, <3>1, <3>3, <3>5, <4>1 DEF FinishSave
    <3> QED BY <1>16, <3>1, <3>2, <3>4, <3>5
  <2> QED BY <1>1, <1>5, <2>1, StoreRight
<1> QED
  BY <1>7, <1>8, <1>9, <1>10, <1>11, <1>12, <1>13, <1>14, <1>15, <1>16 DEF TabAction

LEMMA RightStep == IInv /\ AllRight /\ [Next]_vars => AllRight'
<1> SUFFICES ASSUME IInv, AllRight, [Next]_vars, NEW u \in Tabs
             PROVE  Right(tab'[u], rows', journal')
  BY DEF AllRight
<1> USE DEF IInv
<1>1. tab[u] \in Form /\ Right(tab[u], rows, journal)
  BY DEF TypeOK, AllRight
<1>2. ASSUME NEW t \in Tabs, TabAction(t) PROVE Right(tab'[u], rows', journal')
  <2>1. CASE t = u
    BY <1>2, <2>1, OwnRight
  <2>2. CASE t # u
    <3>1. tab'[u] = tab[u]
      BY <1>2, <2>2, TabsStep
    <3> QED BY <1>1, <1>2, <3>1, EndsStep, RightStays
  <2> QED BY <2>1, <2>2
<1>3. ASSUME NEW j \in Journals, SoftDelete(j) PROVE Right(tab'[u], rows', journal')
  <2>1. RowsEnd(rows, rows') /\ JournalsStay(journal, journal')
    BY <1>3 DEF SoftDelete, RowsEnd, JournalsStay, TypeOK
  <2> QED BY <1>1, <1>3, <2>1, RightStays DEF SoftDelete
<1>4. CASE ServerStops
  <2>1. tab'[u] = tab[u] \/ tab'[u] = Restored(tab[u])
    BY <1>4 DEF ServerStops
  <2> QED BY <1>1, <1>4, <2>1, RestoredRight DEF ServerStops, database
<1>5. CASE UNCHANGED vars
  BY <1>1, <1>5 DEF vars
<1> QED BY <1>2, <1>3, <1>4, <1>5, NextCases

LEMMA InitRight == Init => AllRight
BY ClosedRight DEF Init, AllRight

(* The history of a save in its form agrees with the rows, always.           *)
THEOREM FormsRight == Spec => [](IInv /\ AllRight)
BY InitInv, IInvStep, InitRight, RightStep, PTL DEF Spec

------------------------------------------------------------------------------
LEMMA AnswerFacts == TypeOK /\ AllRight => AnswerComplete
<1> SUFFICES ASSUME TypeOK, AllRight, NEW t \in Tabs, At(t, "ok")
             PROVE  /\ Cardinality(tab[t].made) = Cardinality(tab[t].files)
                    /\ \A r \in tab[t].made : Present(r) =>
                         rows[r].journal = tab[t].journal /\ rows[r].file \in tab[t].files
                    /\ \A r, s \in tab[t].made : Present(r) /\ Present(s) /\ r # s =>
                         rows[r].file # rows[s].file
                    /\ \A r \in tab[t].drop : ~Present(r)
  BY DEF AnswerComplete
<1> DEFINE f == tab[t]
<1>1. f \in Form /\ Right(f, rows, journal) /\ f.pc = "ok"
  BY DEF TypeOK, AllRight, At
<1> HIDE DEF f
<1>2. f.toStore = {} /\ Counted(f) /\ OwnRows(f, rows) /\ \A r \in f.drop : rows[r] = Deleted
  BY <1>1 DEF Right, Stores, Drops, Storing
<1>3. Cardinality(f.made) = Cardinality(f.files)
  <2>1. Cardinality(f.made) \in Nat /\ Cardinality(f.toStore) = 0
    BY <1>2, FS_CardinalityType, FS_EmptySet DEF Counted
  <2> QED BY <1>2, <2>1 DEF Counted
<1>4. /\ \A r \in f.made : Present(r) =>
           rows[r].journal = f.journal /\ rows[r].file \in f.files
      /\ \A r, s \in f.made : Present(r) /\ Present(s) /\ r # s => rows[r].file # rows[s].file
      /\ \A r \in f.drop : ~Present(r)
  BY <1>2 DEF OwnRows, Holds, Present
<1> QED BY <1>3, <1>4 DEF f

(* UpdateJournal and CreateJournalWithImages answer 200 only at the end of   *)
(* both loops: a row for each image, and none left of what was removed.      *)
THEOREM AnswerCorrect == Spec => []AnswerComplete
<1>1. IInv /\ AllRight => AnswerComplete
  BY AnswerFacts DEF IInv
<1> QED BY <1>1, FormsRight, PTL

------------------------------------------------------------------------------
(* An object and a row agree with their key on the name of the image.        *)
StoreNamed == \A k \in Keys : store[k] # NoFile => Name[store[k]] = k[3]
KeysNamed  == \A r \in Rows : Present(r) => rows[r].key[3] = Name[rows[r].file]

LEMMA StoreChange ==
  ASSUME TypeOK, NEW t \in Tabs, TabAction(t)
  PROVE  \/ store' = store
         \/ At(t, "upload") /\ store' = [store EXCEPT ![KeyOf(tab[t])] = tab[t].file]
<1>1. CASE Upload(t) \/ Fail(t)
  BY <1>1 DEF Upload, Fail, objects
<1>2. CASE ~(Upload(t) \/ Fail(t))
  BY <1>2 DEF TabAction, OpenNew, OpenEdit, Submit, Settle, GiveUp, InsertJournal,
     UpdateJournal, CheckOwner, DeleteRow, FinishDrops, StartFile, UploadThumbnail,
     InsertRow, FinishSave, objects
<1> QED BY <1>1, <1>2

LEMMA RowsChange ==
  ASSUME TypeOK, NEW t \in Tabs, TabAction(t)
  PROVE  \/ rows' = rows
         \/ DeleteRow(t)
         \/ InsertRow(t)
BY DEF TabAction, OpenNew, OpenEdit, Submit, Settle, GiveUp, InsertJournal, UpdateJournal,
   CheckOwner, FinishDrops, StartFile, Upload, UploadThumbnail, FinishSave, Fail, database

LEMMA NamedStep == IInv /\ StoreNamed /\ KeysNamed /\ [Next]_vars => StoreNamed' /\ KeysNamed'
<1> SUFFICES ASSUME IInv, StoreNamed, KeysNamed, [Next]_vars PROVE StoreNamed' /\ KeysNamed'
  OBVIOUS
<1> USE DEF IInv
<1>1. ASSUME NEW t \in Tabs, TabAction(t) PROVE StoreNamed'
  <2>1. CASE store' = store
    BY <2>1 DEF StoreNamed
  <2>2. CASE At(t, "upload") /\ store' = [store EXCEPT ![KeyOf(tab[t])] = tab[t].file]
    <3>1. store \in [Keys -> Files \cup {NoFile}]
      BY DEF TypeOK
    <3>2. KeyOf(tab[t])[3] = Name[tab[t].file]
      BY DEF KeyOf
    <3> QED BY <2>2, <3>1, <3>2 DEF StoreNamed
  <2> QED BY <1>1, <2>1, <2>2, StoreChange
<1>2. ASSUME NEW t \in Tabs, TabAction(t) PROVE KeysNamed'
  <2>1. CASE rows' = rows
    BY <2>1 DEF KeysNamed, Present
  <2>2. CASE DeleteRow(t)
    BY <2>2 DEF DeleteRow, KeysNamed, Present, TypeOK
  <2>3. CASE InsertRow(t)
    <3>1. PICK r \in Rows : rows' = [rows EXCEPT ![r] = NewRow(tab[t])]
      BY <2>3 DEF InsertRow
    <3>2. NewRow(tab[t]).key[3] = Name[NewRow(tab[t]).file]
      BY DEF NewRow, KeyOf
    <3> QED BY <3>1, <3>2 DEF KeysNamed, Present, TypeOK
  <2> QED BY <1>2, <2>1, <2>2, <2>3, RowsChange
<1>3. ASSUME NEW j \in Journals, SoftDelete(j) PROVE StoreNamed' /\ KeysNamed'
  BY <1>3 DEF SoftDelete, objects, StoreNamed, KeysNamed, Present
<1>4. CASE ServerStops
  BY <1>4 DEF ServerStops, database, objects, StoreNamed, KeysNamed, Present
<1>5. CASE UNCHANGED vars
  BY <1>5 DEF vars, StoreNamed, KeysNamed, Present
<1> QED BY <1>1, <1>2, <1>3, <1>4, <1>5, NextCases

LEMMA OwnObjectFacts == IInv /\ StoreNamed /\ KeysNamed => OwnObject
<1> SUFFICES ASSUME IInv, StoreNamed, KeysNamed, NEW r \in Rows, Present(r),
                    store[rows[r].key] # rows[r].file
             PROVE  \E f \in Files \ {rows[r].file} : Name[f] = Name[rows[r].file]
  BY DEF OwnObject
<1>1. rows[r].key \in Keys /\ store[rows[r].key] \in Files
  BY DEF IInv, TypeOK, RowsHaveObjects, Present, AttachmentRow
<1>2. Name[store[rows[r].key]] = Name[rows[r].file]
  BY <1>1, ConstantAssumption DEF StoreNamed, KeysNamed
<1> QED BY <1>1, <1>2

(* A row points at its own image, or another image has its name: UploadFile  *)
(* writes under journal, second and file name, and the row keeps that key.   *)
THEOREM OwnObjectCorrect == Spec => []OwnObject
<1>1. Init => StoreNamed /\ KeysNamed
  BY DEF Init, StoreNamed, KeysNamed, Present
<1>2. IInv /\ StoreNamed /\ KeysNamed => OwnObject
  BY OwnObjectFacts
<1> QED BY <1>1, <1>2, InitInv, IInvStep, NamedStep, PTL DEF Spec

------------------------------------------------------------------------------
(* The limit.  Rows belong to journals that were issued, in finite sets; on  *)
(* a journal that is not stale only one tab saves, and what it has left to   *)
(* store fits beside what it has left to drop.                               *)
Born   == \A r \in Rows : Present(r) => journal[rows[r].journal] # "none"
Finite == \A j \in Journals : IsFiniteSet(RowsOf(j))
Begun  == \A t \in Tabs :
            /\ IsFiniteSet(tab[t].seen)
            /\ At(t, "insertJournal") => Cardinality(tab[t].toStore) <= MaxImages
Alone  == \A j \in Journals \ stale : \A t, u \in Tabs :
            SaveOpen(t, j) /\ SaveOpen(u, j) => t = u

Space(R, f) == Cardinality(R \ f.toDrop) + Cardinality(f.toStore) <= MaxImages

Room   == \A j \in Journals \ stale : \A t \in Tabs :
            SaveOpen(t, j) => Space(RowsOf(j), tab[t])

Limits == Born /\ Finite /\ Begun /\ Alone /\ Room /\ LimitUnlessStale

(* A journal loses rows, or a save of it gains one.                          *)
LEMMA RowsOfStep ==
  ASSUME TypeOK, NEW t \in Tabs, TabAction(t), NEW j \in Journals
  PROVE  \/ RowsOf(j)' = RowsOf(j)
         \/ DeleteRow(t) /\ SaveOpen(t, j) /\ RowsOf(j)' = RowsOf(j) \ {tab[t].row}
         \/ InsertRow(t) /\ SaveOpen(t, j) /\ \E r \in Rows : RowsOf(j)' = RowsOf(j) \cup {r}
<1> USE DEF RowsOf, Present
<1>1. CASE rows' = rows
  BY <1>1
<1>2. CASE DeleteRow(t)
  <2>1. CASE tab[t].journal = j
    <3>1. SaveOpen(t, j)
      BY <1>2, <2>1 DEF DeleteRow, At, SaveOpen, Saving
    <3>2. RowsOf(j)' = RowsOf(j) \ {tab[t].row}
      BY <1>2, <2>1 DEF DeleteRow, TypeOK
    <3> QED BY <1>2, <3>1, <3>2
  <2>2. CASE tab[t].journal # j
    BY <1>2, <2>2 DEF DeleteRow, TypeOK
  <2> QED BY <2>1, <2>2
<1>3. CASE InsertRow(t)
  <2>1. PICK r \in Rows : rows[r] = Unused /\ rows' = [rows EXCEPT ![r] = NewRow(tab[t])]
    BY <1>3 DEF InsertRow
  <2>2. CASE tab[t].journal = j
    <3>1. SaveOpen(t, j)
      BY <1>3, <2>2 DEF InsertRow, At, SaveOpen, Saving
    <3>2. RowsOf(j)' = RowsOf(j) \/ RowsOf(j)' = RowsOf(j) \cup {r}
      BY <2>1 DEF TypeOK
    <3> QED BY <1>3, <3>1, <3>2
  <2>3. CASE tab[t].journal # j
    BY <2>1, <2>3 DEF TypeOK, NewRow
  <2> QED BY <2>2, <2>3
<1> QED BY <1>1, <1>2, <1>3, RowsChange

LEMMA FiniteStep ==
  ASSUME TypeOK, Finite, NEW t \in Tabs, TabAction(t), NEW j \in Journals
  PROVE  IsFiniteSet(RowsOf(j)')
<1>1. IsFiniteSet(RowsOf(j))
  BY DEF Finite
<1> QED BY <1>1, RowsOfStep, FS_AddElement, FS_RemoveElement

LEMMA BornStep ==
  ASSUME TypeOK, FormsOK, AllRight, Born, NEW t \in Tabs, TabAction(t)
  PROVE  Born'
<1>1. \A j \in Journals : journal[j] # "none" => journal'[j] # "none"
  BY EndsStep DEF JournalsStay
<1>2. \A r \in Rows : Present(r) => rows[r].journal \in Journals
  BY DEF TypeOK, Present, AttachmentRow
<1>3. CASE rows' = rows \/ DeleteRow(t)
  BY <1>1, <1>2, <1>3 DEF Born, Present, DeleteRow, TypeOK
<1>4. CASE InsertRow(t)
  <2>1. PICK r \in Rows : rows' = [rows EXCEPT ![r] = NewRow(tab[t])]
    BY <1>4 DEF InsertRow
  <2>2. tab[t].journal \in Journals /\ journal[tab[t].journal] # "none"
    BY <1>4 DEF InsertRow, At, AllRight, Right, Targets, Storing
  <2>3. NewRow(tab[t]).journal = tab[t].journal
    BY DEF NewRow
  <2> QED BY <1>1, <1>2, <2>1, <2>2, <2>3 DEF Born, Present, TypeOK
<1> QED BY <1>3, <1>4, RowsChange

------------------------------------------------------------------------------
(* The form a tab is left with.                                              *)
LEMMA SubmitFits ==
  ASSUME TypeOK, NEW t \in Tabs, Submit(t)
  PROVE  \E files \in SUBSET Files, drop \in SUBSET tab[t].seen :
           /\ Fits(tab[t], files, drop)
           /\ tab'[t].seen = tab[t].seen /\ tab'[t].journal = tab[t].entry
           /\ tab'[t].toStore = files /\ tab'[t].toDrop = drop
<1> DEFINE f == tab[t]
           late == f.entry # NoJournal /\ journal[f.entry] = "deleted"
<1>1. f \in Form /\ \A g : Become(t, g) => tab'[t] = g
  BY DEF TypeOK, Become
<1>2. PICK files \in SUBSET Files, drop \in SUBSET f.seen :
        Fits(f, files, drop) /\ tab'[t] = Submitted(f, files, drop, late)
  BY <1>1 DEF Submit, Submitted
<1> HIDE DEF f, late
<1>3. /\ tab'[t].seen = f.seen /\ tab'[t].journal = f.entry
      /\ tab'[t].toStore = files /\ tab'[t].toDrop = drop
  BY <1>1, <1>2 DEF Submitted, Form
<1> QED BY <1>2, <1>3 DEF f

LEMMA SeenStep ==
  ASSUME TypeOK, NEW t \in Tabs, TabAction(t)
  PROVE  /\ tab'[t].seen \in {tab[t].seen, {}} \/ \E j \in Journals : tab'[t].seen = RowsOf(j)
         /\ tab'[t].pc = "insertJournal" => Submit(t)
<1> DEFINE f == tab[t]
<1>1. f \in Form /\ \A g : Become(t, g) => tab'[t] = g
  BY DEF TypeOK, Become
<1>2. \A pc : Goto(t, pc) => tab'[t].seen = f.seen /\ tab'[t].pc = pc
  BY <1>1 DEF Goto, Form
<1>3. /\ Closed.pc = "closed" /\ Closed.seen = {}
      /\ Restored(f).pc = "editing" /\ Restored(f).seen = f.seen
  BY DEF Restored, Closed
<1> HIDE DEF f
<1>4. CASE OpenNew(t) \/ Settle(t) \/ GiveUp(t) \/ Fail(t)
  <2>1. /\ [Closed EXCEPT !.pc = "editing"].pc = "editing"
        /\ [Closed EXCEPT !.pc = "editing"].seen = {}
    BY DEF Closed
  <2> QED BY <1>1, <1>3, <1>4, <2>1 DEF OpenNew, Settle, GiveUp, Fail, f
<1>5. CASE OpenEdit(t)
  <2>1. PICK j \in Journals : \E seen \in {RowsOf(j), {}} : Become(t, Opened(j, seen))
    BY <1>5 DEF OpenEdit, Opened
  <2>2. \A seen : Opened(j, seen).seen = seen /\ Opened(j, seen).pc = "editing"
    BY DEF Opened, Closed
  <2> QED BY <1>1, <2>1, <2>2
<1>6. CASE Submit(t)
  BY <1>1, <1>6, SubmitFits DEF Form, f
<1>7. CASE InsertJournal(t) \/ CheckOwner(t) \/ DeleteRow(t)
  <2>1. /\ \A j : Inserted(f, j).seen = f.seen /\ Inserted(f, j).pc = "file"
        /\ \A r : Chosen(f, r).seen = f.seen /\ Chosen(f, r).pc = "deleteRow"
        /\ Dropped(f).seen = f.seen /\ Dropped(f).pc = "drop"
    BY <1>1 DEF Inserted, Chosen, Dropped, Form
  <2>2. InsertJournal(t) => \E j : tab'[t] = Inserted(f, j)
    BY <1>1 DEF InsertJournal, Inserted, f
  <2>3. CheckOwner(t) => tab'[t] = Restored(f) \/ \E r : tab'[t] = Chosen(f, r)
    BY <1>1 DEF CheckOwner, Chosen, f
  <2>4. DeleteRow(t) => tab'[t] = Dropped(f)
    BY <1>1 DEF DeleteRow, Dropped, f
  <2> QED BY <1>3, <1>7, <2>1, <2>2, <2>3, <2>4 DEF f
<1>8. CASE StartFile(t) \/ InsertRow(t)
  <2> DEFINE S(i, at) == [f EXCEPT !.pc = "upload", !.file = i, !.at = at]
  <2>1. /\ \A i, at : S(i, at).seen = f.seen /\ S(i, at).pc = "upload"
        /\ \A made : NextFile(f, made).seen = f.seen /\ NextFile(f, made).pc = "file"
    BY <1>1 DEF NextFile, Form
  <2>2. StartFile(t) => \E i, at : tab'[t] = S(i, at)
    BY <1>1 DEF StartFile, f
  <2>3. InsertRow(t) => \E made : tab'[t] = NextFile(f, made)
    BY <1>1 DEF InsertRow, f
  <2> HIDE DEF S
  <2> QED BY <1>8, <2>1, <2>2, <2>3 DEF f
<1>9. CASE UpdateJournal(t) \/ FinishDrops(t) \/ Upload(t) \/ UploadThumbnail(t) \/ FinishSave(t)
  BY <1>1, <1>2, <1>3, <1>9 DEF UpdateJournal, FinishDrops, Upload, AfterUpload,
     UploadThumbnail, FinishSave, f
<1> QED BY <1>4, <1>5, <1>6, <1>7, <1>8, <1>9 DEF TabAction

(* A save goes on as it was, unless it removes a row or stores an image.     *)
LEMMA KeepsOpen ==
  ASSUME TypeOK, NEW t \in Tabs, TabAction(t), ~Submit(t), ~InsertJournal(t),
         NEW j \in Journals, SaveOpen(t, j)'
  PROVE  /\ SaveOpen(t, j)
         /\ \/ DeleteRow(t)
            \/ InsertRow(t)
            \/ /\ rows' = rows
               /\ tab'[t].toDrop = tab[t].toDrop /\ tab'[t].toStore = tab[t].toStore
<1> DEFINE f == tab[t]
<1>1. f \in Form /\ \A g : Become(t, g) => tab'[t] = g
  BY DEF TypeOK, Become
<1>2. \A pc : Goto(t, pc) => tab'[t] = Moved(f, pc)
  BY <1>1 DEF Goto, Moved
<1>3. Resting(Closed) /\ Resting(Restored(f))
  BY <1>1, ClosedType, RestoredType
<1>4. /\ tab'[t].pc \in Saving /\ tab'[t].journal = j
      /\ tab'[t] # Closed /\ tab'[t] # Restored(f)
  BY <1>3 DEF SaveOpen, Resting
<1>5. \A pc : /\ Moved(f, pc).journal = f.journal /\ Moved(f, pc).pc = pc
              /\ Moved(f, pc).toDrop = f.toDrop /\ Moved(f, pc).toStore = f.toStore
  BY <1>1 DEF Moved, Form
<1> HIDE DEF f
<1>6. ~(OpenNew(t) \/ OpenEdit(t) \/ Settle(t) \/ GiveUp(t) \/ Fail(t))
  <2>1. [Closed EXCEPT !.pc = "editing"].pc = "editing"
    BY DEF Closed
  <2>2. \A i, seen : Opened(i, seen).pc = "editing"
    BY DEF Opened, Closed
  <2>3. ~OpenEdit(t)
    <3> SUFFICES ASSUME OpenEdit(t) PROVE FALSE
      OBVIOUS
    <3>1. PICK i, seen : tab'[t] = Opened(i, seen)
      BY <1>1 DEF OpenEdit, Opened
    <3> QED
      BY <1>4, <2>2, <3>1 DEF Saving
  <2> QED BY <1>1, <1>4, <2>1, <2>3 DEF OpenNew, Settle, GiveUp, Fail, Saving, f
<1>7. CASE UpdateJournal(t) \/ FinishDrops(t) \/ Upload(t) \/ UploadThumbnail(t) \/ FinishSave(t)
  <2>1. f.pc \in Saving /\ rows' = rows
    BY <1>7 DEF UpdateJournal, FinishDrops, Upload, UploadThumbnail, FinishSave, database, At,
       Saving, f
  <2>2. PICK pc : tab'[t] = Moved(f, pc)
    BY <1>1, <1>2, <1>4, <1>7 DEF UpdateJournal, FinishDrops, Upload, UploadThumbnail,
       FinishSave, f
  <2> QED BY <1>4, <1>5, <2>1, <2>2 DEF SaveOpen, f
<1>8. CASE CheckOwner(t) \/ StartFile(t)
  <2> DEFINE S(i, at) == [f EXCEPT !.pc = "upload", !.file = i, !.at = at]
             Same(g) == g.journal = f.journal /\ g.toDrop = f.toDrop /\ g.toStore = f.toStore
  <2>1. f.pc \in Saving /\ rows' = rows
    BY <1>8 DEF CheckOwner, StartFile, database, At, Saving, f
  <2>2. (\A r : Same(Chosen(f, r))) /\ (\A i, at : Same(S(i, at)))
    BY <1>1 DEF Chosen, Form
  <2>3. (\E r : tab'[t] = Chosen(f, r)) \/ (\E i, at : tab'[t] = S(i, at))
    BY <1>1, <1>4, <1>8 DEF CheckOwner, StartFile, Chosen, f
  <2>4. Same(tab'[t])
    <3> HIDE DEF S, Same
    <3> QED BY <2>2, <2>3
  <2> QED BY <1>4, <2>1, <2>4 DEF SaveOpen, f
<1>9. CASE DeleteRow(t) \/ InsertRow(t)
  <2>1. f.pc \in Saving
    BY <1>9 DEF DeleteRow, InsertRow, At, Saving, f
  <2>2. Dropped(f).journal = f.journal /\ \A made : NextFile(f, made).journal = f.journal
    BY <1>1 DEF Dropped, NextFile, Form
  <2>3. tab'[t] = Dropped(f) \/ \E made : tab'[t] = NextFile(f, made)
    BY <1>1, <1>9 DEF DeleteRow, InsertRow, Dropped, f
  <2> QED BY <1>4, <1>9, <2>1, <2>2, <2>3 DEF SaveOpen, f
<1> QED BY <1>6, <1>7, <1>8, <1>9 DEF TabAction

LEMMA BegunStep ==
  ASSUME TypeOK, FormsOK, AllRight, Finite, Begun, NEW t \in Tabs, TabAction(t)
  PROVE  Begun'
<1>1. ASSUME NEW u \in Tabs, u # t
      PROVE  IsFiniteSet(tab'[u].seen)
             /\ (tab'[u].pc = "insertJournal" => Cardinality(tab'[u].toStore) <= MaxImages)
  BY <1>1, TabsStep DEF Begun, At
<1>2. IsFiniteSet(tab'[t].seen)
  BY SeenStep, FS_EmptySet DEF Begun, Finite
<1>3. ASSUME tab'[t].pc = "insertJournal" PROVE Cardinality(tab'[t].toStore) <= MaxImages
  <2>1. Submit(t)
    BY <1>3, SeenStep
  <2>2. PICK files \in SUBSET Files, drop \in SUBSET tab[t].seen :
          Fits(tab[t], files, drop) /\ tab'[t].toStore = files
    BY <2>1, SubmitFits
  <2>3. IsFiniteSet(files) /\ Cardinality(files) \in Nat
    BY ConstantAssumption, FS_Subset, FS_CardinalityType
  <2>4. Cardinality(tab[t].seen \ drop) \in Nat
    BY FS_Subset, FS_CardinalityType DEF Begun
  <2>5. CASE files = {}
    BY <2>2, <2>5, FS_EmptySet, ConstantAssumption
  <2>6. CASE files # {}
    BY <2>2, <2>3, <2>4, <2>6, ConstantAssumption DEF Fits
  <2> QED BY <2>5, <2>6
<1> QED BY <1>1, <1>2, <1>3 DEF Begun, At

------------------------------------------------------------------------------
(* A save that begins on a journal that does not become stale.               *)
LEMMA StaleStep ==
  ASSUME TypeOK, NEW t \in Tabs, TabAction(t)
  PROVE  /\ stale \subseteq stale'
         /\ Submit(t) /\ tab[t].entry \in Journals \ stale' =>
              /\ tab[t].seen = RowsOf(tab[t].entry)
              /\ \A u \in Tabs \ {t} : ~SaveOpen(u, tab[t].entry)
<1>1. CASE Submit(t)
  BY <1>1, ConstantAssumption DEF Submit
<1>2. CASE ~Submit(t)
  BY <1>2 DEF TabAction, OpenNew, OpenEdit, Settle, GiveUp, InsertJournal, UpdateJournal,
     CheckOwner, DeleteRow, FinishDrops, StartFile, Upload, UploadThumbnail, InsertRow,
     FinishSave, Fail
<1> QED BY <1>1, <1>2

(* A journal that is just made is saved by no tab and has no rows.           *)
LEMMA NewJournal ==
  ASSUME TypeOK, FormsOK, AllRight, Born, NEW t \in Tabs, InsertJournal(t)
  PROVE  LET j == tab'[t].journal IN
         /\ j \in Journals /\ RowsOf(j) = {} /\ \A u \in Tabs : ~SaveOpen(u, j)
         /\ tab'[t].toStore = tab[t].toStore /\ tab[t].pc = "insertJournal"
<1> DEFINE f == tab[t]
<1>1. f \in Form /\ \A g : Become(t, g) => tab'[t] = g
  BY DEF TypeOK, Become
<1>2. PICK j \in Journals : journal[j] = "none" /\ tab'[t] = Inserted(f, j)
  BY <1>1 DEF InsertJournal, Inserted
<1>3. tab'[t].journal = j /\ tab'[t].toStore = f.toStore
  BY <1>1, <1>2 DEF Inserted, Form
<1>4. RowsOf(j) = {}
  BY <1>2 DEF Born, RowsOf
<1>5. ASSUME NEW u \in Tabs, SaveOpen(u, j) PROVE FALSE
  <2>1. Targets(tab[u], journal) /\ tab[u].journal = j /\ tab[u].pc \in Saving
    BY <1>5 DEF AllRight, Right, SaveOpen
  <2>2. tab[u].pc = "insertJournal" \/ tab[u].pc \in Dropping \cup Storing
    BY <2>1 DEF Saving, Dropping, Storing
  <2> QED BY <1>2, <2>1, <2>2, ConstantAssumption DEF Targets
<1>6. f.pc = "insertJournal"
  BY DEF InsertJournal, At
<1> QED BY <1>3, <1>4, <1>5, <1>6

LEMMA AloneStep ==
  ASSUME TypeOK, FormsOK, AllRight, Born, Alone, NEW t \in Tabs, TabAction(t)
  PROVE  Alone'
<1> SUFFICES ASSUME NEW j \in Journals, j \notin stale', NEW u \in Tabs, u # t,
                    SaveOpen(t, j)', SaveOpen(u, j)'
             PROVE  FALSE
  <2>1. ASSUME NEW u \in Tabs, NEW v \in Tabs, u # v, u # t, v # t, NEW j \in Journals,
               j \notin stale', SaveOpen(u, j)', SaveOpen(v, j)'
        PROVE  FALSE
    <3>1. SaveOpen(u, j) /\ SaveOpen(v, j)
      BY <2>1, TabsStep DEF SaveOpen
    <3> QED BY <2>1, <3>1, StaleStep DEF Alone
  <2> QED BY <2>1 DEF Alone
<1>1. SaveOpen(u, j) /\ j \notin stale
  BY TabsStep, StaleStep DEF SaveOpen
<1>2. CASE Submit(t)
  <2>1. tab[t].entry = j
    BY <1>2, SubmitFits DEF SaveOpen
  <2> QED BY <1>1, <1>2, <2>1, StaleStep
<1>3. CASE InsertJournal(t)
  BY <1>1, <1>3, NewJournal DEF SaveOpen
<1>4. CASE ~Submit(t) /\ ~InsertJournal(t)
  BY <1>1, <1>4, KeepsOpen DEF Alone
<1> QED BY <1>2, <1>3, <1>4

------------------------------------------------------------------------------
(* The sums the limit is kept by.                                            *)
LEMMA SpaceShrinks ==
  ASSUME NEW R, NEW S, NEW f, NEW g, IsFiniteSet(R), IsFiniteSet(f.toStore),
         S \ g.toDrop \subseteq R \ f.toDrop, g.toStore = f.toStore, Space(R, f)
  PROVE  Space(S, g)
<1>1. /\ IsFiniteSet(R \ f.toDrop)
      /\ Cardinality(S \ g.toDrop) <= Cardinality(R \ f.toDrop)
      /\ IsFiniteSet(S \ g.toDrop)
  BY FS_Subset
<1>2. /\ Cardinality(S \ g.toDrop) \in Nat /\ Cardinality(R \ f.toDrop) \in Nat
      /\ Cardinality(f.toStore) \in Nat
  BY <1>1, FS_CardinalityType
<1> QED BY <1>1, <1>2, ConstantAssumption DEF Space

LEMMA SpaceTraded ==
  ASSUME NEW R, NEW r, NEW f, NEW g, IsFiniteSet(R), IsFiniteSet(f.toStore),
         f.file \in f.toStore, g.toDrop = f.toDrop, g.toStore = f.toStore \ {f.file},
         Space(R, f)
  PROVE  Space(R \cup {r}, g)
<1> DEFINE A == R \ f.toDrop
           B == (R \cup {r}) \ g.toDrop
<1>1. IsFiniteSet(A) /\ Cardinality(A) \in Nat
  BY FS_Subset, FS_CardinalityType
<1>2. IsFiniteSet(A \cup {r}) /\ Cardinality(A \cup {r}) <= Cardinality(A) + 1
  <2> HIDE DEF A
  <2>1. /\ IsFiniteSet(A \cup {r})
        /\ Cardinality(A \cup {r}) = IF r \in A THEN Cardinality(A) ELSE Cardinality(A) + 1
    BY <1>1, FS_AddElement
  <2> QED BY <1>1, <2>1
<1>3. B \subseteq A \cup {r}
  OBVIOUS
<1>4. Cardinality(B) <= Cardinality(A \cup {r}) /\ Cardinality(B) \in Nat
  BY <1>2, <1>3, FS_Subset, FS_CardinalityType
<1>5. Cardinality(A \cup {r}) \in Nat /\ Cardinality(f.toStore) \in Nat
  BY <1>2, FS_CardinalityType
<1>6. Cardinality(g.toStore) = Cardinality(f.toStore) - 1
  BY FS_RemoveElement
<1>7. Cardinality(A) + Cardinality(f.toStore) <= MaxImages
  BY DEF Space
<1>8. Cardinality(B) + Cardinality(g.toStore) <= MaxImages
  <2> HIDE DEF A, B
  <2> QED BY <1>1, <1>2, <1>4, <1>5, <1>6, <1>7, ConstantAssumption
<1> QED BY <1>8 DEF Space

------------------------------------------------------------------------------
LEMMA DeleteRowsOf ==
  ASSUME TypeOK, NEW t \in Tabs, NEW j \in Journals, DeleteRow(t), SaveOpen(t, j)
  PROVE  /\ RowsOf(j)' = RowsOf(j) \ {tab[t].row}
         /\ tab'[t].toDrop = tab[t].toDrop \ {tab[t].row}
         /\ tab'[t].toStore = tab[t].toStore
<1>1. RowsOf(j)' = RowsOf(j) \ {tab[t].row}
  BY DEF DeleteRow, SaveOpen, RowsOf, Present, TypeOK
<1>2. tab[t] \in Form /\ tab'[t] = Dropped(tab[t])
  BY DEF DeleteRow, Become, Dropped, TypeOK
<1> QED BY <1>1, <1>2 DEF Dropped, Form

LEMMA InsertRowsOf ==
  ASSUME TypeOK, FormsOK, NEW t \in Tabs, NEW j \in Journals, InsertRow(t), SaveOpen(t, j)
  PROVE  /\ \E r : RowsOf(j)' = RowsOf(j) \cup {r}
         /\ tab'[t].toDrop = tab[t].toDrop /\ tab'[t].drop = tab[t].drop
         /\ tab'[t].toStore = tab[t].toStore \ {tab[t].file}
         /\ tab'[t].pc = "file" /\ tab'[t].journal = j
<1> DEFINE f == tab[t]
<1>1. f \in Form /\ FormOK(f) /\ f.pc = "insertRow" /\ f.journal = j
  BY DEF TypeOK, FormsOK, InsertRow, At, SaveOpen
<1>2. PICK r \in Rows : /\ rows[r] = Unused /\ rows' = [rows EXCEPT ![r] = NewRow(f)]
                        /\ tab'[t] = NextFile(f, {r})
  BY DEF InsertRow, Become, TypeOK
<1> HIDE DEF f
<1>3. Holds(NewRow(f)) /\ NewRow(f).journal = j
  BY <1>1, NewRowType, RowHolds DEF NewRow
<1>4. RowsOf(j)' = RowsOf(j) \cup {r}
  BY <1>2, <1>3, RowHolds DEF RowsOf, Present, Holds, TypeOK
<1>5. /\ tab'[t].toDrop = f.toDrop /\ tab'[t].drop = f.drop
      /\ tab'[t].toStore = f.toStore \ {f.file}
      /\ tab'[t].pc = "file" /\ tab'[t].journal = f.journal
  BY <1>1, <1>2 DEF NextFile, Form
<1> QED BY <1>1, <1>4, <1>5 DEF f

LEMMA FilesFinite ==
  ASSUME TypeOK, NEW t \in Tabs
  PROVE  IsFiniteSet(tab[t].toStore) /\ Cardinality(tab[t].toStore) \in Nat
<1>1. tab[t].toStore \subseteq Files
  BY DEF TypeOK, Form
<1> QED BY <1>1, ConstantAssumption, FS_Subset, FS_CardinalityType

(* The save that begins has room, by the form's count.                       *)
LEMMA SubmitRoom ==
  ASSUME TypeOK, FormsOK, Limits, NEW t \in Tabs, Submit(t), NEW j \in Journals,
         j \notin stale', SaveOpen(t, j)'
  PROVE  Space(RowsOf(j)', tab'[t])
<1>1. PICK files \in SUBSET Files, drop \in SUBSET tab[t].seen :
        /\ Fits(tab[t], files, drop)
        /\ tab'[t].seen = tab[t].seen /\ tab'[t].journal = tab[t].entry
        /\ tab'[t].toStore = files /\ tab'[t].toDrop = drop
  BY SubmitFits
<1>2. RowsOf(j)' = RowsOf(j)
  BY DEF Submit, database, RowsOf, Present
<1>3. tab[t].seen = RowsOf(j) /\ j \notin stale
  BY <1>1, StaleStep DEF SaveOpen, TabAction
<1>4. IsFiniteSet(RowsOf(j)) /\ Cardinality(RowsOf(j)) <= MaxImages
  BY <1>3 DEF Limits, Finite, LimitUnlessStale
<1>5. Cardinality(RowsOf(j) \ drop) <= Cardinality(RowsOf(j))
      /\ Cardinality(RowsOf(j) \ drop) \in Nat /\ Cardinality(RowsOf(j)) \in Nat
  BY <1>4, FS_Subset, FS_CardinalityType
<1>6. Cardinality(RowsOf(j) \ drop) + Cardinality(files) <= MaxImages
  <2>1. CASE files = {}
    BY <1>4, <1>5, <2>1, FS_EmptySet, ConstantAssumption
  <2>2. CASE files # {}
    BY <1>1, <1>3, <2>2 DEF Fits
  <2> QED BY <2>1, <2>2
<1> QED BY <1>1, <1>2, <1>6 DEF Space

LEMMA RoomStep ==
  ASSUME TypeOK, FormsOK, AllRight, Limits, NEW t \in Tabs, TabAction(t)
  PROVE  Room'
<1> SUFFICES ASSUME NEW j \in Journals, j \notin stale', NEW u \in Tabs, SaveOpen(u, j)'
             PROVE  Space(RowsOf(j)', tab'[u])
  BY DEF Room, Space
<1>1. j \notin stale /\ IsFiniteSet(RowsOf(j)) /\ IsFiniteSet(tab[u].toStore)
  BY StaleStep, FilesFinite DEF Limits, Finite
<1>2. CASE u # t
  <2>1. tab'[u] = tab[u] /\ SaveOpen(u, j)
    BY <1>2, TabsStep DEF SaveOpen
  <2>2. ~SaveOpen(t, j)
    BY <1>1, <1>2, <2>1 DEF Limits, Alone
  <2>3. RowsOf(j)' = RowsOf(j)
    BY <2>2, RowsOfStep
  <2>4. Space(RowsOf(j), tab[u])
    BY <1>1, <2>1 DEF Limits, Room
  <2> QED BY <2>1, <2>3, <2>4
<1>3. CASE u = t /\ Submit(t)
  BY <1>3, SubmitRoom
<1>4. CASE u = t /\ InsertJournal(t)
  <2>1. /\ tab'[t].journal = j /\ RowsOf(j)' = RowsOf(j)
    BY <1>4 DEF SaveOpen, InsertJournal, RowsOf, Present
  <2>2. RowsOf(j) = {} /\ tab'[t].toStore = tab[t].toStore /\ tab[t].pc = "insertJournal"
    BY <1>4, <2>1, NewJournal DEF Limits
  <2>3. Cardinality(tab[t].toStore) <= MaxImages /\ Cardinality(tab[t].toStore) \in Nat
    BY <2>2, FilesFinite DEF Limits, Begun, At
  <2>4. Cardinality({} \ tab'[t].toDrop) = 0
    <3>1. {} \ tab'[t].toDrop = {}
      OBVIOUS
    <3> QED BY <3>1, FS_EmptySet
  <2> QED BY <1>4, <2>1, <2>2, <2>3, <2>4, ConstantAssumption DEF Space
<1>5. CASE u = t /\ ~Submit(t) /\ ~InsertJournal(t)
  <2>1. SaveOpen(t, j) /\ Space(RowsOf(j), tab[t])
    BY <1>1, <1>5, KeepsOpen DEF Limits, Room
  <2>2. CASE DeleteRow(t)
    <3>1. /\ RowsOf(j)' \ tab'[t].toDrop \subseteq RowsOf(j) \ tab[t].toDrop
          /\ tab'[t].toStore = tab[t].toStore
      BY <2>1, <2>2, DeleteRowsOf
    <3> QED BY <1>1, <1>5, <2>1, <3>1, SpaceShrinks
  <2>3. CASE InsertRow(t)
    <3>1. PICK r : RowsOf(j)' = RowsOf(j) \cup {r}
      BY <2>1, <2>3, InsertRowsOf
    <3>2. tab'[t].toDrop = tab[t].toDrop /\ tab'[t].toStore = tab[t].toStore \ {tab[t].file}
      BY <2>1, <2>3, InsertRowsOf
    <3>3. tab[t].file \in tab[t].toStore
      BY <2>3 DEF InsertRow, At, AllRight, Right, Stores
    <3>4. PICK R, f, g : R = RowsOf(j) /\ f = tab[t] /\ g = tab'[t]
      OBVIOUS
    <3>5. IsFiniteSet(R) /\ IsFiniteSet(f.toStore) /\ Space(R, f)
      BY <1>1, <1>5, <2>1, <3>4
    <3>6. f.file \in f.toStore /\ g.toDrop = f.toDrop /\ g.toStore = f.toStore \ {f.file}
      BY <3>2, <3>3, <3>4
    <3>7. Space(R \cup {r}, g)
      BY <3>5, <3>6, SpaceTraded
    <3> QED BY <1>5, <3>1, <3>4, <3>7
  <2>4. CASE /\ rows' = rows
             /\ tab'[t].toDrop = tab[t].toDrop /\ tab'[t].toStore = tab[t].toStore
    <3>1. RowsOf(j)' = RowsOf(j)
      BY <2>4 DEF RowsOf, Present
    <3> QED BY <1>1, <1>5, <2>1, <2>4, <3>1, SpaceShrinks
  <2> QED BY <1>5, <2>2, <2>3, <2>4, KeepsOpen
<1> QED BY <1>2, <1>3, <1>4, <1>5

(* A row is inserted only where there was room: what was to be dropped is    *)
(* gone by then, so all rows of the journal count.                           *)
LEMMA LimitStep ==
  ASSUME TypeOK, FormsOK, AllRight, Limits, NEW t \in Tabs, TabAction(t)
  PROVE  LimitUnlessStale'
<1> SUFFICES ASSUME NEW j \in Journals, j \notin stale'
             PROVE  Cardinality(RowsOf(j)') <= MaxImages
  BY DEF LimitUnlessStale
<1>1. j \notin stale /\ IsFiniteSet(RowsOf(j)) /\ Cardinality(RowsOf(j)) <= MaxImages
  BY StaleStep DEF Limits, Finite, LimitUnlessStale
<1>2. CASE RowsOf(j)' = RowsOf(j)
  BY <1>1, <1>2
<1>3. CASE RowsOf(j)' = RowsOf(j) \ {tab[t].row}
  <2>1. /\ Cardinality(RowsOf(j)') <= Cardinality(RowsOf(j))
        /\ Cardinality(RowsOf(j)') \in Nat /\ Cardinality(RowsOf(j)) \in Nat
    BY <1>1, <1>3, FS_Subset, FS_CardinalityType
  <2> QED BY <1>1, <2>1, ConstantAssumption
<1>4. CASE InsertRow(t) /\ SaveOpen(t, j)
  <2>1. /\ tab'[t].pc = "file" /\ tab'[t].journal = j
        /\ IsFiniteSet(tab'[t].toStore) /\ Cardinality(tab'[t].toStore) \in Nat
    <3>1. tab'[t].toStore = tab[t].toStore \ {tab[t].file}
      BY <1>4, InsertRowsOf
    <3>2. IsFiniteSet(tab'[t].toStore)
      BY <3>1, FilesFinite, FS_RemoveElement
    <3> QED BY <1>4, <3>2, InsertRowsOf, FS_CardinalityType
  <2>2. SaveOpen(t, j)'
    BY <2>1 DEF SaveOpen, Saving
  <2>3. Space(RowsOf(j)', tab'[t])
    BY <2>2, RoomStep DEF Room, Space
  <2>4. Right(tab'[t], rows', journal')
    BY OwnRight
  <2>5. \A r \in tab'[t].toDrop : rows'[r] = Deleted
    BY <2>1, <2>4 DEF Right, Shows, Drops, Storing
  <2>6. RowsOf(j)' \ tab'[t].toDrop = RowsOf(j)'
    BY <2>5 DEF RowsOf, Present
  <2>7. Cardinality(RowsOf(j)') \in Nat
    BY FiniteStep, FS_CardinalityType DEF Limits
  <2> QED BY <2>1, <2>3, <2>6, <2>7, ConstantAssumption DEF Space
<1> QED BY <1>2, <1>3, <1>4, RowsOfStep

LEMMA LimitsStep == IInv /\ AllRight /\ Limits /\ [Next]_vars => Limits'
<1> SUFFICES ASSUME IInv, AllRight, Limits, [Next]_vars PROVE Limits'
  OBVIOUS
<1> USE DEF IInv
<1>1. ASSUME NEW t \in Tabs, TabAction(t) PROVE Limits'
  <2>1. Born' /\ Begun' /\ Alone' /\ Room' /\ LimitUnlessStale'
    BY <1>1, BornStep, BegunStep, AloneStep, RoomStep, LimitStep DEF Limits
  <2>2. Finite'
    BY <1>1, FiniteStep DEF Limits, Finite
  <2> QED BY <2>1, <2>2 DEF Limits
<1>2. ASSUME NEW j \in Journals, SoftDelete(j) PROVE Limits'
  <2>1. /\ rows' = rows /\ tab' = tab /\ stale' = stale
        /\ \A i \in Journals : journal[i] # "none" => journal'[i] # "none"
    BY <1>2 DEF SoftDelete, TypeOK
  <2>2. \A r \in Rows : Present(r) => rows[r].journal \in Journals
    BY DEF TypeOK, Present, AttachmentRow
  <2> QED BY <2>1, <2>2 DEF Limits, Born, Finite, Begun, Alone, Room, LimitUnlessStale,
       RowsOf, Present, SaveOpen, At, Space
<1>3. CASE ServerStops
  <2>1. /\ rows' = rows /\ stale' = stale /\ journal' = journal
        /\ \A t \in Tabs : tab'[t] = tab[t] \/ tab'[t] = Restored(tab[t])
    BY <1>3 DEF ServerStops, database
  <2>2. \A t \in Tabs : /\ Restored(tab[t]).pc = "editing"
                        /\ Restored(tab[t]).seen = tab[t].seen
    BY DEF Restored, Closed
  <2>3. \A t \in Tabs, j \in Journals : SaveOpen(t, j)' => tab'[t] = tab[t] /\ SaveOpen(t, j)
    BY <2>1, <2>2 DEF SaveOpen, Saving
  <2>4. Born' /\ Finite' /\ LimitUnlessStale'
    BY <2>1 DEF Limits, Born, Finite, LimitUnlessStale, RowsOf, Present
  <2>5. Begun'
    BY <2>1, <2>2 DEF Limits, Begun, At
  <2>6. Alone'
    BY <2>1, <2>3 DEF Limits, Alone
  <2>7. Room'
    BY <2>1, <2>3 DEF Limits, Room, RowsOf, Present, Space
  <2> QED BY <2>4, <2>5, <2>6, <2>7 DEF Limits
<1>4. CASE UNCHANGED vars
  BY <1>4 DEF vars, Limits, Born, Finite, Begun, Alone, Room, LimitUnlessStale, RowsOf,
     Present, SaveOpen, At, Space
<1> QED BY <1>1, <1>2, <1>3, <1>4, NextCases

LEMMA InitLimits == Init => Limits
<1> SUFFICES ASSUME Init PROVE Limits
  OBVIOUS
<1>1. \A t \in Tabs : tab[t] = Closed
  BY DEF Init
<1>2. \A t \in Tabs : tab[t].pc = "closed" /\ tab[t].seen = {}
  BY <1>1 DEF Closed
<1>3. \A j \in Journals : RowsOf(j) = {}
  BY DEF Init, RowsOf, Present
<1>4. Born /\ Finite /\ LimitUnlessStale
  BY <1>3, FS_EmptySet, ConstantAssumption DEF Init, Born, Present, Finite, LimitUnlessStale
<1>5. Begun /\ Alone /\ Room
  BY <1>2, FS_EmptySet DEF Begun, Alone, Room, At, SaveOpen, Saving
<1> QED BY <1>4, <1>5 DEF Limits

(* MAX_IMAGES in JournalFormPage bounds a journal's attachments for good,    *)
(* where every save of it came from a form that showed all and ran alone.    *)
THEOREM LimitCorrect == Spec => []LimitUnlessStale
<1>1. Limits => LimitUnlessStale
  BY DEF Limits
<1> QED BY <1>1, InitInv, IInvStep, InitRight, RightStep, InitLimits, LimitsStep, PTL DEF Spec
==============================================================================
