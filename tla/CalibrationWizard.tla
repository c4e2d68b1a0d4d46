--------------------------- MODULE CalibrationWizard ---------------------------
(***************************************************************************)
(* Calibration mode (frontend/src/pages/CalibrationModePage.jsx): one member *)
(* after the other, a note about each, and a summary to export.  A note is   *)
(* saved a second after the last keystroke, by one timer for all members     *)
(* which leaving the page does not clear; answers come in any order.         *)
(***************************************************************************)
EXTENDS NoteTable, Naturals, Sequences

CONSTANTS
  Team,       \* the members in the order of the steps
  None,       \* no timer, nothing typed
  MaxTyped,   \* bound: texts typed
  MaxVisits   \* bound: times the page is opened

VARIABLE wizard   \* the page and the server's table, see Wizard

Saves == [of : Members, cycle : Cycles \cup {NoCycle}, text : Texts]

Wizard == [open   : BOOLEAN,
           visits : 0..MaxVisits,
           cycle  : Cycles \cup {NoCycle},       \* kpiId of the address
           loaded : {"loading", "members", "nobody"},
           step   : 1..(Len(Team) + 1),          \* currentStep + 1
           box    : Texts,                       \* noteText
           notes  : [Members -> Texts],          \* notesMap
           trends : SUBSET Members,              \* trendMap
           timer  : Saves \cup {None},           \* saveTimeoutRef
           strays : SUBSET Saves,                \* timers of pages left
           calls  : SUBSET [save : Saves, visit : 1..MaxVisits],
           typed  : [Members -> Texts \cup {None}],  \* history: typed last
           count  : 0..MaxTyped,
           dropped: SUBSET Members,              \* history: timer lost to another
           amiss  : SUBSET Members,              \* history: see NoteKept
           table  : Table]                       \* the server

OnSummary == wizard.step = Len(Team) + 1
OnMember  == wizard.open /\ wizard.loaded = "members" /\ ~OnSummary
Shown     == Team[wizard.step]

(* The effect after every change of step, notes or trends: the box shows the *)
(* note as it was saved last, whatever stood there.                          *)
Synced(w) ==
  IF w.step > Len(Team) THEN w ELSE [w EXCEPT !.box = w.notes[Team[w.step]]]

------------------------------------------------------------------------------
(* The page is opened for a cycle, or from a period that is none.            *)
Open ==
  /\ ~wizard.open /\ wizard.visits < MaxVisits
  /\ \E c \in Cycles \cup {NoCycle} :
       wizard' = [wizard EXCEPT !.open = TRUE, !.visits = @ + 1, !.cycle = c,
                    !.loaded = "loading", !.step = 1, !.box = Blank, !.trends = {},
                    !.notes = [m \in Members |-> Blank],
                    !.typed = [m \in Members |-> None], !.dropped = {},
                    !.amiss = {s.of : s \in wizard.strays} \cup {c2.save.of : c2 \in wizard.calls}]

(* Team and notes arrive together, or the page says that there is nobody.    *)
LoadAnswers ==
  /\ wizard.open /\ wizard.loaded = "loading"
  /\ \/ wizard' = Synced([wizard EXCEPT !.loaded = "members",
                            !.notes = NotesOf(wizard.table, wizard.cycle)])
     \/ wizard' = [wizard EXCEPT !.loaded = "nobody"]

(* The trend of the member shown arrives.                                    *)
TrendArrives ==
  /\ OnMember
  /\ \E m \in Members \ wizard.trends :
       /\ m \in {Team[i] : i \in 1..wizard.step}
       /\ wizard' = Synced([wizard EXCEPT !.trends = @ \cup {m}])

TimerOf(w) == IF w.timer = None THEN {} ELSE {w.timer.of}

(* handleNoteChange: the timer starts anew, for the member shown now.        *)
Type ==
  /\ OnMember /\ wizard.count < MaxTyped
  /\ \E t \in [of : {Shown}, word : Words] \cup {Blank} :
       /\ t # wizard.box
       /\ wizard' = [wizard EXCEPT !.box = t, !.count = @ + 1, !.typed[Shown] = t,
                       !.timer = [of |-> Shown, cycle |-> wizard.cycle, text |-> t],
                       !.dropped = (@ \cup TimerOf(wizard)) \ {Shown}]

(* variant: the member is looked up when the timer fires                     *)
DueForShown(s) == IF OnMember THEN [s EXCEPT !.of = Shown] ELSE s

(* What the timer saves was fixed when it was set.                           *)
Due(s) == s

(* Two saves of one member under way may reach the server in either order.   *)
Started(s, visit) ==
  [wizard EXCEPT !.calls = @ \cup {[save |-> Due(s), visit |-> visit]},
     !.amiss = IF \E c \in wizard.calls : c.save.of = s.of THEN @ \cup {s.of} ELSE @]

TimerFires ==
  \/ /\ wizard.open /\ wizard.timer # None
     /\ wizard' = [Started(wizard.timer, wizard.visits) EXCEPT !.timer = None]
  \/ \E s \in wizard.strays :
       \E v \in 1..MaxVisits :
         /\ v < wizard.visits \/ (~wizard.open /\ v = wizard.visits)
         /\ wizard' = [Started(s, v) EXCEPT !.strays = @ \ {s}]

(* The note is stored and, if the page is still there, shown as saved; or it *)
(* is refused, as an empty one always is, or the answer is lost.             *)
SaveAnswers ==
  \E c \in wizard.calls :
    LET done == [wizard EXCEPT !.calls = @ \ {c}]
        put  == Upsert(wizard.table, c.save.of, c.save.cycle, c.save.text)
    IN  \/ /\ ~Refused(c.save.text)
           /\ wizard' = IF wizard.open /\ c.visit = wizard.visits /\ wizard.loaded = "members"
                        THEN Synced([done EXCEPT !.table = put,
                                       !.notes[c.save.of] = c.save.text])
                        ELSE [done EXCEPT !.table = put]
        \/ wizard' = [done EXCEPT !.amiss = @ \cup {c.save.of}]
        \/ /\ ~Refused(c.save.text)
           /\ wizard' = [done EXCEPT !.table = put, !.amiss = @ \cup {c.save.of}]

Step ==
  /\ wizard.open /\ wizard.loaded = "members"
  /\ \E s \in {wizard.step - 1, wizard.step + 1} \cap (1..(Len(Team) + 1)) :
       wizard' = Synced([wizard EXCEPT !.step = s])

(* variant: the pending timer is cleared with the page                       *)
LeftTidy == [wizard EXCEPT !.open = FALSE, !.timer = None]

(* The page goes, its timer stays.                                           *)
Left == [wizard EXCEPT !.open = FALSE, !.timer = None,
           !.strays = IF wizard.timer = None THEN @ ELSE @ \cup {wizard.timer}]

Close == wizard.open /\ wizard' = Left

(* What the summary exports: the notes as the page knows them.               *)
Exported == wizard.notes

WizardMounted ==
  [open |-> FALSE, visits |-> 0, cycle |-> NoCycle, loaded |-> "loading", step |-> 1,
   box |-> Blank, notes |-> [m \in Members |-> Blank], trends |-> {},
   timer |-> None, strays |-> {}, calls |-> {},
   typed |-> [m \in Members |-> None], count |-> 0, dropped |-> {}, amiss |-> {},
   table |-> EmptyTable]

WizardInit == wizard = WizardMounted

WizardNext ==
  \/ Open \/ LoadAnswers \/ TrendArrives \/ Type \/ TimerFires \/ SaveAnswers
  \/ Step \/ Close

WizardSpec == WizardInit /\ [][WizardNext]_wizard

------------------------------------------------------------------------------
WizardQuiet == wizard.timer = None /\ wizard.strays = {} /\ wizard.calls = {}

(* A note is only ever shown and stored as a note about the member it was    *)
(* written about, however steps, timers and answers interleave.              *)
OwnNote ==
  /\ OnMember /\ wizard.box # Blank => wizard.box.of = Shown
  /\ \A p \in DOMAIN wizard.table.kept :
       wizard.table.kept[p] # Blank => wizard.table.kept[p].of = p[1]
  /\ \A p \in wizard.table.loose : p[2].of = p[1]

(* When no timer runs and no save is under way, the text typed last about a  *)
(* member is stored, even if the page was left before its timer ran out;     *)
(* unless the timer was lost to another member, two saves of the member were *)
(* under way together, or one failed.                                        *)
NoteKept ==
  WizardQuiet =>
    \A m \in Members \ (wizard.dropped \cup wizard.amiss) :
      wizard.typed[m] # None => Stored(wizard.table, m, wizard.cycle, wizard.typed[m])

(* The summary step says: "Your private calibration notes are saved and      *)
(* ready to be exported".  Nothing failed and nothing is pending.            *)
SummaryTruthful ==
  wizard.open /\ wizard.loaded = "members" /\ OnSummary /\ WizardQuiet =>
    \A m \in Members \ wizard.amiss :
      wizard.typed[m] # None =>
        /\ Stored(wizard.table, m, wizard.cycle, wizard.typed[m])
        /\ Exported[m] = wizard.typed[m]
==============================================================================
