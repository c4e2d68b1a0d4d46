----------------------------- MODULE JournalSave -----------------------------
(***************************************************************************)
(* Saving a journal with images.  A browser tab shows the entry form; its   *)
(* save is one request, which writes the journal row, deletes the           *)
(* attachments the user removed, and then for each new image uploads the    *)
(* object, uploads a thumbnail and inserts the attachment row.  Database    *)
(* and object store share no transaction: any step may fail, the server may *)
(* stop and the answer may be lost, and two tabs may save the same journal. *)
(***************************************************************************)
EXTENDS Naturals, FiniteSets

CONSTANTS Tabs,        \* open entry forms
          Journals,    \* journal ids the IDENTITY column can hand out
          Rows,        \* attachment ids, likewise
          Files,       \* images; a file stands for its bytes and checksum
          Name,        \* [Files -> file names]
          Decodable,   \* the images GenerateThumbnail can decode
          MaxImages,   \* images per journal: 5 in the form and in the handler
          Seconds,     \* Unix times the saves run at
          NoJournal, NoRow, NoFile, NoTime,
          Unused, Deleted  \* what an attachment id without a row is

Names == {Name[f] : f \in Files}
Keys  == Journals \X Seconds \X Names

AttachmentRow == [journal : Journals, file : Files, key : Keys, thumb : BOOLEAN]

ASSUME ConstantAssumption ==
  /\ Decodable \subseteq Files /\ IsFiniteSet(Files)
  /\ MaxImages \in Nat
  /\ NoJournal \notin Journals /\ NoFile \notin Files /\ NoRow \notin Rows
  /\ {Unused, Deleted} \cap AttachmentRow = {} /\ Unused # Deleted

VARIABLES
  journal,  \* [Journals -> {"none", "live", "deleted"}]
  rows,     \* [Rows -> AttachmentRow \cup {Unused, Deleted}]
  store,    \* image objects: [Keys -> Files \cup {NoFile}]
  thumbs,   \* thumbnail objects, under the same keys in thumbs/
  tab,      \* [Tabs -> Form]
  stale     \* history: journals saved from a form that did not show exactly
            \* their images, or while another save of them was running

vars == <<journal, rows, store, thumbs, tab, stale>>

Saving == {"insertJournal", "updateJournal", "drop", "deleteRow", "file",
           "upload", "thumb", "insertRow"}

Form ==
  [pc      : Saving \cup {"closed", "editing", "ok"},
   entry   : Journals \cup {NoJournal},  \* the page's journal, none if new
   journal : Journals \cup {NoJournal},  \* the journal being saved
   seen    : SUBSET Rows,             \* existingAttachments when it was loaded
   files   : SUBSET Files,            \* images sent with the save
   drop    : SUBSET Rows,             \* deletedAttachmentIds sent with it
   toDrop  : SUBSET Rows,
   toStore : SUBSET Files,            \* what the two loops have left
   row     : Rows \cup {NoRow},
   file    : Files \cup {NoFile},     \* the iteration under way
   at      : Seconds \cup {NoTime},    \* its timestamp
   made    : SUBSET Rows,             \* history: rows this save inserted
   late    : BOOLEAN]                 \* history: journal deleted on arrival

Closed == [pc |-> "closed", entry |-> NoJournal, journal |-> NoJournal, seen |-> {}, files |-> {},
           drop |-> {}, toDrop |-> {}, toStore |-> {}, row |-> NoRow,
           file |-> NoFile, at |-> NoTime, made |-> {}, late |-> FALSE]

Present(r) == rows[r] \notin {Unused, Deleted}
RowsOf(j)  == {r \in Rows : Present(r) /\ rows[r].journal = j}

At(t, pc)     == tab[t].pc = pc
Become(t, f)  == tab' = [tab EXCEPT ![t] = f]
Goto(t, pc)   == Become(t, [tab[t] EXCEPT !.pc = pc])

(* variant: the object key has the time and not the file name                *)
KeyOfNoName(f) == <<f.journal, f.at, CHOOSE n \in Names : TRUE>>

KeyOf(f)      == <<f.journal, f.at, Name[f.file]>>
database      == <<journal, rows>>
objects       == <<store, thumbs>>

------------------------------------------------------------------------------
(* The form.                                                                 *)

OpenNew(t) ==
  /\ At(t, "closed")
  /\ Become(t, [Closed EXCEPT !.pc = "editing"])
  /\ UNCHANGED <<database, objects, stale>>

(* The entry must load; a failure to load its attachments is only logged,    *)
(* and the form then shows none.                                             *)
OpenEdit(t) ==
  /\ At(t, "closed")
  /\ \E j \in Journals : \E seen \in {RowsOf(j), {}} :
       /\ journal[j] = "live"
       /\ Become(t, [Closed EXCEPT !.pc = "editing", !.entry = j, !.seen = seen])
  /\ UNCHANGED <<database, objects, stale>>

(* variant: the form counts only the new images                              *)
FitsNewOnly(f, files, drop) == Cardinality(files) <= MaxImages

(* Images are only refused while they are added.                             *)
Fits(f, files, drop) ==
  files # {} => Cardinality(f.seen \ drop) + Cardinality(files) <= MaxImages

SaveOpen(t, j) == tab[t].journal = j /\ tab[t].pc \in Saving

Submit(t) ==
  LET j == tab[t].entry IN
  /\ At(t, "editing")
  /\ \E files \in SUBSET Files, drop \in SUBSET tab[t].seen :
       /\ tab[t].drop \subseteq drop
       /\ Fits(tab[t], files, drop)
       /\ Become(t, [tab[t] EXCEPT
            !.pc = IF j = NoJournal THEN "insertJournal" ELSE "updateJournal",
            !.journal = j, !.files = files, !.toStore = files,
            !.drop = drop, !.toDrop = drop,
            !.late = j # NoJournal /\ journal[j] = "deleted"])
  /\ stale' = IF j # NoJournal
                 /\ (tab[t].seen # RowsOf(j) \/ \E u \in Tabs \ {t} : SaveOpen(u, j))
              THEN stale \cup {j} ELSE stale
  /\ UNCHANGED <<database, objects>>

(* The form after a failure: as it was, and the user may save again.  It     *)
(* knows nothing of what the failed save did, a removed image cannot be      *)
(* brought back, new ones can be added or left out.                          *)
Restored(f) == [Closed EXCEPT !.pc = "editing", !.entry = f.entry,
                              !.seen = f.seen, !.drop = f.drop]

(* After a success the page leaves the form, unless the answer is lost.      *)
Settle(t) ==
  /\ At(t, "ok")
  /\ Become(t, Closed) \/ Become(t, Restored(tab[t]))
  /\ UNCHANGED <<database, objects, stale>>

GiveUp(t) ==
  /\ At(t, "editing")
  /\ Become(t, Closed)
  /\ UNCHANGED <<database, objects, stale>>

------------------------------------------------------------------------------
(* The save, statement by statement.                                         *)

(* variant: the id of the new journal is not taken over from the answer      *)
InsertJournalIdLost(t) ==
  /\ At(t, "insertJournal")
  /\ \E j \in Journals :
       /\ journal[j] = "none"
       /\ journal' = [journal EXCEPT ![j] = "live"]
       /\ Goto(t, "file")
  /\ UNCHANGED <<rows, objects, stale>>

InsertJournal(t) ==
  /\ At(t, "insertJournal")
  /\ \E j \in Journals :
       /\ journal[j] = "none"
       /\ journal' = [journal EXCEPT ![j] = "live"]
       /\ Become(t, [tab[t] EXCEPT !.pc = "file", !.journal = j])
  /\ UNCHANGED <<rows, objects, stale>>

(* variant: the UPDATE lacks deleted_at IS NULL                              *)
UpdateJournalDeletedToo(t) ==
  /\ At(t, "updateJournal")
  /\ Goto(t, "drop")
  /\ UNCHANGED <<database, objects, stale>>

UpdateJournal(t) ==
  /\ At(t, "updateJournal")
  /\ IF journal[tab[t].journal] = "live" THEN Goto(t, "drop") ELSE Become(t, Restored(tab[t]))
  /\ UNCHANGED <<database, objects, stale>>

CheckOwner(t) ==
  /\ At(t, "drop")
  /\ \E r \in tab[t].toDrop :
       IF journal[tab[t].journal] = "live"
       THEN Become(t, [tab[t] EXCEPT !.row = r, !.pc = "deleteRow"])
       ELSE Become(t, Restored(tab[t]))
  /\ UNCHANGED <<database, objects, stale>>

DeleteRow(t) ==
  /\ At(t, "deleteRow")
  /\ rows' = [rows EXCEPT ![tab[t].row] =
                IF tab[t].row \in RowsOf(tab[t].journal) THEN Deleted ELSE @]
  /\ Become(t, [tab[t] EXCEPT !.pc = "drop", !.toDrop = @ \ {tab[t].row}, !.row = NoRow])
  /\ UNCHANGED <<journal, objects, stale>>

FinishDrops(t) ==
  /\ At(t, "drop")
  /\ tab[t].toDrop = {}
  /\ Goto(t, "file")
  /\ UNCHANGED <<database, objects, stale>>

(* Reads the image and the wall clock, which need not move between images.   *)
StartFile(t) ==
  /\ At(t, "file")
  /\ \E f \in tab[t].toStore, second \in Seconds :
       Become(t, [tab[t] EXCEPT !.pc = "upload", !.file = f, !.at = second])
  /\ UNCHANGED <<database, objects, stale>>

AfterUpload(t) == IF tab[t].file \in Decodable THEN "thumb" ELSE "insertRow"

(* variant: an upload error is logged and the save goes on                   *)
UploadErrorDropped(t) ==
  /\ At(t, "upload")
  /\ store' \in {store, [store EXCEPT ![KeyOf(tab[t])] = tab[t].file]}
  /\ Goto(t, AfterUpload(t))
  /\ UNCHANGED <<database, thumbs, stale>>

Upload(t) ==
  /\ At(t, "upload")
  /\ store' = [store EXCEPT ![KeyOf(tab[t])] = tab[t].file]
  /\ Goto(t, AfterUpload(t))
  /\ UNCHANGED <<database, thumbs, stale>>

UploadThumbnail(t) ==
  /\ At(t, "thumb")
  /\ thumbs' = [thumbs EXCEPT ![KeyOf(tab[t])] = tab[t].file]
  /\ Goto(t, "insertRow")
  /\ UNCHANGED <<database, store, stale>>

NewRow(f) == [journal |-> f.journal, file |-> f.file, key |-> KeyOf(f),
              thumb |-> f.file \in Decodable]

NextFile(f, made) == [f EXCEPT !.pc = "file", !.toStore = @ \ {f.file},
                               !.file = NoFile, !.at = NoTime, !.made = @ \cup made]

(* variant: an error of the INSERT is logged and the save goes on            *)
InsertRowErrorDropped(t) ==
  /\ At(t, "insertRow")
  /\ \/ \E r \in Rows :
          /\ rows[r] = Unused
          /\ rows' = [rows EXCEPT ![r] = NewRow(tab[t])]
          /\ Become(t, NextFile(tab[t], {r}))
     \/ Become(t, NextFile(tab[t], {})) /\ UNCHANGED rows
  /\ UNCHANGED <<journal, objects, stale>>

InsertRow(t) ==
  /\ At(t, "insertRow")
  /\ \E r \in Rows :
       /\ rows[r] = Unused
       /\ rows' = [rows EXCEPT ![r] = NewRow(tab[t])]
       /\ Become(t, NextFile(tab[t], {r}))
  /\ UNCHANGED <<journal, objects, stale>>

FinishSave(t) ==
  /\ At(t, "file")
  /\ tab[t].toStore = {}
  /\ Goto(t, "ok")
  /\ UNCHANGED <<database, objects, stale>>

(* Any step may fail, and ends the request there; an upload that failed may  *)
(* still have reached the store.                                             *)
Fail(t) ==
  /\ tab[t].pc \in Saving
  /\ Become(t, Restored(tab[t]))
  /\ \/ UNCHANGED objects
     \/ /\ At(t, "upload")
        /\ store' = [store EXCEPT ![KeyOf(tab[t])] = tab[t].file]
        /\ UNCHANGED thumbs
     \/ /\ At(t, "thumb")
        /\ thumbs' = [thumbs EXCEPT ![KeyOf(tab[t])] = tab[t].file]
        /\ UNCHANGED store
  /\ UNCHANGED <<database, stale>>

------------------------------------------------------------------------------
SoftDelete(j) ==
  /\ journal[j] = "live"
  /\ journal' = [journal EXCEPT ![j] = "deleted"]
  /\ UNCHANGED <<rows, objects, tab, stale>>

(* The process stops; every running save is a network error to its tab.      *)
ServerStops ==
  /\ \E t \in Tabs : tab[t].pc \in Saving
  /\ tab' = [t \in Tabs |-> IF tab[t].pc \in Saving
                            THEN Restored(tab[t]) ELSE tab[t]]
  /\ UNCHANGED <<database, objects, stale>>

Init ==
  /\ journal = [j \in Journals |-> "none"]
  /\ rows = [r \in Rows |-> Unused]
  /\ store = [k \in Keys |-> NoFile]
  /\ thumbs = [k \in Keys |-> NoFile]
  /\ tab = [t \in Tabs |-> Closed]
  /\ stale = {}

FormSteps(t) == OpenNew(t) \/ OpenEdit(t) \/ Submit(t) \/ Settle(t) \/ GiveUp(t)
RowSteps(t)  == InsertJournal(t) \/ UpdateJournal(t) \/ CheckOwner(t) \/ DeleteRow(t)
                \/ FinishDrops(t)
FileSteps(t) == StartFile(t) \/ Upload(t) \/ UploadThumbnail(t) \/ InsertRow(t)
                \/ FinishSave(t)

Next ==
  \/ \E t \in Tabs : FormSteps(t) \/ RowSteps(t) \/ FileSteps(t) \/ Fail(t)
  \/ \E j \in Journals : SoftDelete(j)
  \/ ServerStops

Spec == Init /\ [][Next]_vars

------------------------------------------------------------------------------
(* The types of the variables; an attachment row always names a journal the  *)
(* database handed out, and an object key made for it.                       *)
TypeOK ==
  /\ journal \in [Journals -> {"none", "live", "deleted"}]
  /\ rows \in [Rows -> AttachmentRow \cup {Unused, Deleted}]
  /\ store \in [Keys -> Files \cup {NoFile}]
  /\ thumbs \in [Keys -> Files \cup {NoFile}]
  /\ tab \in [Tabs -> Form]
  /\ stale \subseteq Journals

(* A visible attachment can be shown: the object its row points at is in the *)
(* store, and its thumbnail too when the row names one, whatever failed.     *)
RowsHaveObjects ==
  \A r \in Rows : Present(r) =>
    /\ store[rows[r].key] # NoFile
    /\ rows[r].thumb => thumbs[rows[r].key] # NoFile

(* An answer of success means all of the save happened: each image sent got  *)
(* a row of its own in the saved journal, and each removed row is gone.      *)
AnswerComplete ==
  \A t \in Tabs : At(t, "ok") =>
    /\ Cardinality(tab[t].made) = Cardinality(tab[t].files)
    /\ \A r \in tab[t].made : Present(r) =>
         rows[r].journal = tab[t].journal /\ rows[r].file \in tab[t].files
    /\ \A r, s \in tab[t].made : Present(r) /\ Present(s) /\ r # s =>
         rows[r].file # rows[s].file
    /\ \A r \in tab[t].drop : ~Present(r)

(* A save that reaches the server after its journal was deleted (an edit     *)
(* form left open) changes no row and no object, however long it runs.       *)
LateSavesChangeNothing ==
  [][\A t \in Tabs : tab[t].late /\ tab[t].pc \in Saving /\ tab'[t] # tab[t]
       => UNCHANGED <<rows, objects>>]_vars

(* The form's count of images bounds those of the journal as long as each    *)
(* save came from a form that showed all images and ran alone.               *)
LimitUnlessStale ==
  \A j \in Journals \ stale : Cardinality(RowsOf(j)) <= MaxImages

(* The object a row points at is the row's own image, the one its checksum   *)
(* was computed from, unless another image has the same file name.           *)
OwnObject ==
  \A r \in Rows : Present(r) =>
    \/ store[rows[r].key] = rows[r].file
    \/ \E f \in Files \ {rows[r].file} : Name[f] = Name[rows[r].file]

------------------------------------------------------------------------------
(* What the checksum stored with a row is for: it is the checksum of the     *)
(* object under the row's key.  False: two images of one name saved in the   *)
(* same second share a key, and the second upload replaces the first.        *)
ChecksumMatches ==
  \A r \in Rows : Present(r) => store[rows[r].key] = rows[r].file
==============================================================================
