------------------------------- MODULE TeamDesk -------------------------------
(***************************************************************************)
(* The team page (frontend/src/pages/TeamCalibrationPage.jsx) and the drawer *)
(* of one member on it (components/ui/TeamMemberDrawer.jsx), where a note    *)
(* is typed.  The page loads its period's overview and notes; while an       *)
(* overview loads the drawer is gone, and with it a save still waiting.  The *)
(* drawer saves after a pause and on leaving the box, and skips what it      *)
(* believes to be saved; the page does not learn of it.                      *)
(***************************************************************************)
EXTENDS NoteTable, Naturals

CONSTANTS
  None,       \* no member, no timer, nothing typed, not read yet
  MaxPicks,   \* bound: periods picked
  MaxMoves    \* bound: times the drawer is mounted and texts typed, together

VARIABLE team   \* the page, its drawer and the server's table, see Team

Periods == Cycles \cup {"unset", "quarter", "all"}
Saves   == [of : Members, cycle : Cycles \cup {NoCycle}, text : Texts]
Reads   == [cycle : Cycles \cup {NoCycle}, found : [Members -> Texts] \cup {None}]

TeamState ==
  [period  : Periods,                        \* periodType and selectedKPIId
   listed  : BOOLEAN,                        \* the KPI periods have been asked for
   picks   : 0..MaxPicks,
   loads   : 0..(MaxPicks + 2),              \* overviews under way
   loading : BOOLEAN,
   failed  : BOOLEAN,                        \* error
   got     : BOOLEAN,                        \* overview # null
   reads   : SUBSET Reads,                   \* notes under way
   notes   : [Members -> Texts],             \* notesMap
   picked  : Members \cup {None},            \* selectedMember
   mounts  : 0..MaxMoves,                   \* the drawer mounted last
   box     : Texts,                          \* noteText
   saved   : Texts,                          \* lastSavedRef
   focused : BOOLEAN,                        \* the cursor is in the box
   timer   : Saves \cup {None},              \* saveTimeoutRef
   calls   : SUBSET [save : Saves, mount : 1..MaxMoves],
   count   : 0..MaxMoves,
   typed   : [Members -> Saves \cup {None}], \* history: typed last about each
   stale   : BOOLEAN,                        \* history: see Fresh
   amiss   : SUBSET Members,                 \* history: see DrawerKept
   table   : Table]                          \* the server

(* Texts are compared as strings, whomever they were written about.          *)
Same(s, t) == s = t \/ (s # Blank /\ t # Blank /\ s.word = t.word)

(* effectiveKPIId.                                                           *)
CycleOf(t) == IF t.period \in Cycles THEN t.period ELSE NoCycle

Moves == team.mounts + team.count

(* The drawer is on the page.                                                *)
Visible(t) == t.picked # None /\ t.got /\ ~t.loading /\ ~t.failed

(* Whether the drawer starts from the note the server would return.          *)
Fresh(t) ==
  /\ \A c \in t.calls : c.save.of # t.picked
  /\ Same(t.notes[t.picked], NotesOf(t.table, CycleOf(t))[t.picked])

(* Something was typed about the member that is still to be stored.          *)
Unsaved(t) ==
  \/ t.timer # None /\ t.timer.of = t.picked
  \/ \E c \in t.calls : c.save.of = t.picked

(* The page as it renders t after team: the drawer appears, with the note    *)
(* the page knows; goes, with its timer; or takes up another initial note,   *)
(* whatever is in the box, and only if that note differs.                    *)
Rendered(t) ==
  IF ~Visible(t)
  THEN [t EXCEPT !.box = Blank, !.saved = Blank, !.focused = FALSE, !.timer = None, !.stale = FALSE,
          !.amiss = IF team.timer = None THEN @ ELSE @ \cup {team.timer.of}]
  ELSE IF ~Visible(team)
  THEN [t EXCEPT !.mounts = @ + 1, !.box = t.notes[t.picked], !.saved = t.notes[t.picked],
          !.stale = ~Fresh(t)]
  ELSE IF Same(t.notes[t.picked], team.notes[team.picked]) THEN t
  ELSE [t EXCEPT !.box = t.notes[t.picked], !.saved = t.notes[t.picked], !.stale = ~Fresh(t),
          !.amiss = IF Unsaved(t) THEN @ \cup {t.picked} ELSE @]

CanMount(t) == Visible(t) /\ ~Visible(team) => Moves < MaxMoves

Renders(t) == CanMount(t) /\ team' = Rendered(t)

------------------------------------------------------------------------------
(* The notes of a cycle are asked for; of no cycle there is nothing to read. *)
Asked(cycle) ==
  [cycle |-> cycle,
   found |-> IF cycle = NoCycle THEN [m \in Members |-> Blank] ELSE None]

(* The effects of another period: the overview is loaded, and the notes if   *)
(* the cycle is another one.                                                 *)
Changed(period) ==
  LET now == [team EXCEPT !.period = period, !.loads = @ + 1, !.loading = TRUE, !.failed = FALSE]
  IN  IF CycleOf(now) = CycleOf(team) THEN now
      ELSE [now EXCEPT !.reads = @ \cup {Asked(CycleOf(now))}]

(* The KPI periods arrive: the active one is chosen, whatever was before; if *)
(* there are none, or on failure, the quarter.                               *)
PeriodsArrive ==
  /\ ~team.listed
  /\ \/ \E p \in Cycles \cup {"quarter"} : Renders([Changed(p) EXCEPT !.listed = TRUE])
     \/ team.period = "quarter" /\ team' = [team EXCEPT !.listed = TRUE]

(* The select of the toolbar; there are no cycles to choose before the list. *)
PickPeriod ==
  /\ team.got /\ ~team.loading /\ ~team.failed /\ ~team.focused /\ team.picks < MaxPicks
  /\ \E p \in {"quarter", "all"} \cup (IF team.listed THEN Cycles ELSE {}) :
       /\ p # team.period
       /\ Renders([Changed(p) EXCEPT !.picks = @ + 1])

(* An overview answers; that of an earlier period ends the loading as well,  *)
(* and a success does not take back an error shown before.                   *)
OverviewAnswers ==
  /\ team.loads > 0
  /\ \/ Renders([team EXCEPT !.loads = @ - 1, !.loading = FALSE, !.got = TRUE])
     \/ Renders([team EXCEPT !.loads = @ - 1, !.loading = FALSE, !.failed = TRUE])

(* The server reads the notes; the answer arrives, possibly after later ones.*)
NotesRead ==
  \E r \in team.reads :
    /\ r.found = None
    /\ team' = [team EXCEPT !.reads = (@ \ {r})
                  \cup {[r EXCEPT !.found = NotesOf(team.table, r.cycle)]}]

NotesAnswer ==
  \E r \in team.reads :
    LET done == [team EXCEPT !.reads = @ \ {r}]
    IN  \/ r.found # None /\ Renders([done EXCEPT !.notes = r.found])
        \/ team' = done

------------------------------------------------------------------------------
(* A card or a row is clicked; with the keyboard one is reached under an     *)
(* open drawer, which then keeps its box unless the notes differ.            *)
PickMember ==
  /\ team.got /\ ~team.loading /\ ~team.failed /\ ~team.focused
  /\ \E m \in Members \ {team.picked} :
       Renders([team EXCEPT !.picked = m,
                  !.amiss = IF team.picked = None THEN @ ELSE @ \cup {m}])

(* saveNote, up to its request.  What it believes to be saved it skips.      *)
SaveNote(s, t) ==
  LET other == {c \in t.calls : c.save.of = s.of /\ ~Same(c.save.text, s.text)}
      safe  == IF other = {} THEN t ELSE [t EXCEPT !.amiss = @ \cup {s.of}]
  IN  IF Same(s.text, t.saved) THEN safe
      ELSE [safe EXCEPT !.calls = @ \cup {[save |-> s, mount |-> t.mounts]}]

(* handleNoteChange.                                                         *)
Type ==
  /\ Visible(team) /\ Moves < MaxMoves
  /\ \E t \in [of : {team.picked}, word : Words] \cup {Blank} :
       LET s == [of |-> team.picked, cycle |-> CycleOf(team), text |-> t]
       IN  /\ ~Same(t, team.box)
           /\ team' = [team EXCEPT !.box = t, !.focused = TRUE, !.timer = s, !.count = @ + 1,
                         !.typed[team.picked] = s,
                         !.amiss = IF team.stale THEN @ \cup {team.picked} ELSE @]

TimerFires ==
  /\ team.timer # None
  /\ team' = SaveNote(team.timer, [team EXCEPT !.timer = None])

(* variant: leaving the box only stops the timer                             *)
BlurredOnly == [team EXCEPT !.timer = None, !.focused = FALSE]

(* handleNoteBlur: what is in the box is saved at once.                      *)
Blurred ==
  SaveNote([of |-> team.picked, cycle |-> CycleOf(team), text |-> team.box],
           [team EXCEPT !.timer = None, !.focused = FALSE])

Blur == Visible(team) /\ team' = Blurred

(* The save answers: stored, refused or lost, or stored and the answer lost. *)
SaveAnswers ==
  \E c \in team.calls :
    LET done == [team EXCEPT !.calls = @ \ {c}]
        put  == Upsert(team.table, c.save.of, c.save.cycle, c.save.text)
    IN  \/ /\ ~Refused(c.save.text)
           /\ team' = IF Visible(team) /\ c.mount = team.mounts
                      THEN [done EXCEPT !.table = put, !.saved = c.save.text]
                      ELSE [done EXCEPT !.table = put]
        \/ team' = [done EXCEPT !.amiss = @ \cup {c.save.of}]
        \/ /\ ~Refused(c.save.text)
           /\ team' = [done EXCEPT !.table = put, !.amiss = @ \cup {c.save.of}]

(* Escape closes at once, the cross and the overlay after the box was left.  *)
CloseDrawer == Visible(team) /\ Renders([team EXCEPT !.picked = None])

------------------------------------------------------------------------------
TeamMounted ==
  [period |-> "unset", listed |-> FALSE, picks |-> 0, loads |-> 1, loading |-> TRUE,
   failed |-> FALSE, got |-> FALSE,
   reads |-> {Asked(NoCycle)},
   notes |-> [m \in Members |-> Blank], picked |-> None, mounts |-> 0, box |-> Blank,
   saved |-> Blank, focused |-> FALSE, timer |-> None, calls |-> {}, count |-> 0,
   typed |-> [m \in Members |-> None], stale |-> FALSE, amiss |-> {},
   table |-> EmptyTable]

TeamInit == team = TeamMounted

TeamNext ==
  \/ PeriodsArrive \/ PickPeriod \/ OverviewAnswers \/ NotesRead \/ NotesAnswer
  \/ PickMember \/ Type \/ TimerFires \/ Blur \/ SaveAnswers \/ CloseDrawer

TeamSpec == TeamInit /\ [][TeamNext]_team

------------------------------------------------------------------------------
(* When no save waits or is under way, what was typed last about a member is *)
(* stored, under that member and the cycle it was typed for, whatever        *)
(* happened to the period, the notes and the drawer since; unless a save of  *)
(* that member failed, a waiting one went with its drawer or its box was     *)
(* refilled, two different texts were to be saved at the same time, the      *)
(* drawer stood on a note the server did not hold, or it was passed on       *)
(* to the member without being closed.                                       *)
DrawerKept ==
  team.timer = None /\ team.calls = {} =>
    \A m \in Members \ team.amiss :
      team.typed[m] # None =>
        LET s == team.typed[m]
        IN  s.text # Blank => Stored(team.table, m, s.cycle, s.text)
==============================================================================
