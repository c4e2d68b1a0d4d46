------------------------------- MODULE NoteTable -------------------------------
(***************************************************************************)
(* The private notes of one manager about the members of the team, as the    *)
(* server keeps them (handler/calibration.go, calibration_notes): one note   *)
(* per member and review cycle.  The unique index does not hold for notes    *)
(* without a cycle, which pile up, and the query that should return all      *)
(* notes when no cycle is asked for compares with cycle 0 and returns none.  *)
(***************************************************************************)
CONSTANTS
  Members,   \* the members of the team
  Cycles,    \* the review cycles (KPI periods)
  Words,     \* what can be written about a member
  Blank,     \* the empty text, and no note
  NoCycle    \* the note is of no cycle

(* A text remembers whom it was written about.                               *)
Texts == [of : Members, word : Words] \cup {Blank}

Table == [kept  : [Members \X Cycles -> Texts],
          loose : SUBSET (Members \X Texts)]

EmptyTable == [kept |-> [p \in Members \X Cycles |-> Blank], loose |-> {}]

(* UpsertCalibrationNote: binding refuses an empty note.                     *)
Refused(text) == text = Blank

Upsert(table, m, cycle, text) ==
  IF cycle = NoCycle THEN [table EXCEPT !.loose = @ \cup {<<m, text>>}]
  ELSE [table EXCEPT !.kept[<<m, cycle>>] = text]

(* GetCalibrationNotes, as the map the pages make of it.                     *)
NotesOf(table, cycle) ==
  [m \in Members |-> IF cycle = NoCycle THEN Blank ELSE table.kept[<<m, cycle>>]]

(* Whether a note is stored, read or not.                                    *)
Stored(table, m, cycle, text) ==
  IF cycle = NoCycle THEN <<m, text>> \in table.loose ELSE table.kept[<<m, cycle>>] = text
==============================================================================
