------------------------------ MODULE NoteProofs ------------------------------
(***************************************************************************)
(* What becomes of the notes a manager types about the members of the team,  *)
(* in calibration mode and in the drawer of the team page, for any team,     *)
(* cycles, texts and bounds; and, with the invariants of all pages, that     *)
(* every page keeps its shape.                                               *)
(***************************************************************************)
EXTENDS PageProofs

------------------------------------------------------------------------------
(* Calibration mode.  Of a member with whom nothing went amiss, one timer    *)
(* left over or one save at most is under way; and the text typed last is    *)
(* where it waits for its timer, or else in a timer left over, or else in    *)
(* the save under way, or else stored.                                       *)
StraysOf(w, m) == {s \in w.strays : s.of = m}
CallsOf(w, m)  == {c \in w.calls : c.save.of = m}

Single(w, m) ==
  /\ w.open => StraysOf(w, m) = {}
  /\ \A s, t \in StraysOf(w, m) : s = t
  /\ \A c, d \in CallsOf(w, m) : c = d

Last(w, m) == [of |-> m, cycle |-> w.cycle, text |-> w.typed[m]]

Tracked(w, m) ==
  \/ w.timer # None /\ w.timer = Last(w, m)
  \/ /\ m \notin Wizard!TimerOf(w)
     /\ \/ StraysOf(w, m) = {Last(w, m)}
        \/ /\ StraysOf(w, m) = {}
           /\ \/ \E c \in CallsOf(w, m) : c.save = Last(w, m)
              \/ CallsOf(w, m) = {} /\ Wizard!Stored(w.table, m, w.cycle, w.typed[m])

NoteSafe(w, m) ==
  m \notin w.amiss =>
    Single(w, m) /\ (m \in w.dropped \/ w.typed[m] = None \/ Tracked(w, m))

NoteInv(w) ==
  WizardInv(w) /\ (~w.open => w.timer = None) /\ \A m \in Members : NoteSafe(w, m)

(* Steps that do not touch what is being saved.                              *)
LEMMA SavingUntouched ==
  ASSUME NoteInv(wizard), WizardInv(wizard'),
         wizard'.open = wizard.open, wizard'.cycle = wizard.cycle,
         wizard'.timer = wizard.timer, wizard'.strays = wizard.strays,
         wizard'.calls = wizard.calls, wizard'.typed = wizard.typed,
         wizard'.dropped = wizard.dropped, wizard'.amiss = wizard.amiss,
         wizard'.table = wizard.table
  PROVE  NoteInv(wizard')
<1>1. ASSUME NEW m \in Members PROVE NoteSafe(wizard', m)
  <2>1. /\ StraysOf(wizard', m) = StraysOf(wizard, m) /\ CallsOf(wizard', m) = CallsOf(wizard, m)
        /\ Last(wizard', m) = Last(wizard, m)
        /\ Wizard!TimerOf(wizard') = Wizard!TimerOf(wizard)
    BY DEF StraysOf, CallsOf, Last, Wizard!TimerOf
  <2>2. NoteSafe(wizard, m)
    BY DEF NoteInv
  <2> QED
    BY <2>1, <2>2 DEF NoteSafe, Single, Tracked
<1> QED
  BY <1>1 DEF NoteInv

LEMMA SyncedSame ==
  ASSUME NEW w \in WizardShape
  PROVE  LET v == Wizard!Synced(w) IN
         /\ v.open = w.open /\ v.cycle = w.cycle /\ v.timer = w.timer /\ v.strays = w.strays
         /\ v.calls = w.calls /\ v.typed = w.typed /\ v.dropped = w.dropped
         /\ v.amiss = w.amiss /\ v.table = w.table
BY DEF Wizard!Synced, WizardShape

LEMMA ShowingKeepsNotes ==
  ASSUME NoteInv(wizard),
         Wizard!LoadAnswers \/ Wizard!TrendArrives \/ Wizard!Step
  PROVE  NoteInv(wizard')
<1>1. wizard \in WizardShape /\ WizardInv(wizard')
  BY WizardNextKeeps DEF NoteInv, WizardInv, Wizard!WizardNext
<1>2. PICK w \in WizardShape :
        /\ w.open = wizard.open /\ w.cycle = wizard.cycle /\ w.timer = wizard.timer
        /\ w.strays = wizard.strays /\ w.calls = wizard.calls /\ w.typed = wizard.typed
        /\ w.dropped = wizard.dropped /\ w.amiss = wizard.amiss /\ w.table = wizard.table
        /\ wizard' = w \/ wizard' = Wizard!Synced(w)
  <2>1. CASE wizard' = [wizard EXCEPT !.loaded = "nobody"]
    BY <1>1, <2>1 DEF WizardShape
  <2>2. CASE wizard' = Wizard!Synced([wizard EXCEPT !.loaded = "members",
                                        !.notes = Wizard!NotesOf(wizard.table, wizard.cycle)])
    <3> DEFINE n == Wizard!NotesOf(wizard.table, wizard.cycle)
               w == [wizard EXCEPT !.loaded = "members", !.notes = n]
    <3>1. n \in [Members -> Wizard!Texts]
      <4>1. /\ wizard.table.kept \in [Members \X Kpis -> Wizard!Texts]
            /\ wizard.cycle \in Kpis \cup {Unset}
        BY <1>1 DEF WizardShape, Wizard!Table
      <4>2. Blank \in Wizard!Texts
        BY DEF Wizard!Texts
      <4> QED
        BY <4>1, <4>2 DEF Wizard!NotesOf
    <3> HIDE DEF n
    <3>2. /\ w \in WizardShape
          /\ w.open = wizard.open /\ w.cycle = wizard.cycle /\ w.timer = wizard.timer
          /\ w.strays = wizard.strays /\ w.calls = wizard.calls /\ w.typed = wizard.typed
          /\ w.dropped = wizard.dropped /\ w.amiss = wizard.amiss /\ w.table = wizard.table
      BY <1>1, <3>1 DEF WizardShape
    <3> HIDE DEF w
    <3> QED
      BY <2>2, <3>2 DEF w, n
  <2>3. ASSUME NEW m \in Members,
               wizard' = Wizard!Synced([wizard EXCEPT !.trends = @ \cup {m}])
        PROVE  \E w \in WizardShape :
                 /\ w.open = wizard.open /\ w.cycle = wizard.cycle /\ w.timer = wizard.timer
                 /\ w.strays = wizard.strays /\ w.calls = wizard.calls /\ w.typed = wizard.typed
                 /\ w.dropped = wizard.dropped /\ w.amiss = wizard.amiss /\ w.table = wizard.table
                 /\ wizard' = w \/ wizard' = Wizard!Synced(w)
    <3> DEFINE w == [wizard EXCEPT !.trends = @ \cup {m}]
    <3>1. /\ w \in WizardShape
          /\ w.open = wizard.open /\ w.cycle = wizard.cycle /\ w.timer = wizard.timer
          /\ w.strays = wizard.strays /\ w.calls = wizard.calls /\ w.typed = wizard.typed
          /\ w.dropped = wizard.dropped /\ w.amiss = wizard.amiss /\ w.table = wizard.table
      BY <1>1 DEF WizardShape
    <3> HIDE DEF w
    <3> QED
      BY <2>3, <3>1 DEF w
  <2>4. ASSUME NEW k \in 1..(Len(Team) + 1),
               wizard' = Wizard!Synced([wizard EXCEPT !.step = k])
        PROVE  \E w \in WizardShape :
                 /\ w.open = wizard.open /\ w.cycle = wizard.cycle /\ w.timer = wizard.timer
                 /\ w.strays = wizard.strays /\ w.calls = wizard.calls /\ w.typed = wizard.typed
                 /\ w.dropped = wizard.dropped /\ w.amiss = wizard.amiss /\ w.table = wizard.table
                 /\ wizard' = w \/ wizard' = Wizard!Synced(w)
    <3> DEFINE w == [wizard EXCEPT !.step = k]
    <3>1. /\ w \in WizardShape
          /\ w.open = wizard.open /\ w.cycle = wizard.cycle /\ w.timer = wizard.timer
          /\ w.strays = wizard.strays /\ w.calls = wizard.calls /\ w.typed = wizard.typed
          /\ w.dropped = wizard.dropped /\ w.amiss = wizard.amiss /\ w.table = wizard.table
      BY <1>1 DEF WizardShape
    <3> HIDE DEF w
    <3> QED
      BY <2>4, <3>1 DEF w
  <2> QED
    BY <2>1, <2>2, <2>3, <2>4 DEF Wizard!LoadAnswers, Wizard!TrendArrives, Wizard!Step
<1>3. /\ wizard'.open = wizard.open /\ wizard'.cycle = wizard.cycle
      /\ wizard'.timer = wizard.timer /\ wizard'.strays = wizard.strays
      /\ wizard'.calls = wizard.calls /\ wizard'.typed = wizard.typed
      /\ wizard'.dropped = wizard.dropped /\ wizard'.amiss = wizard.amiss
      /\ wizard'.table = wizard.table
  BY <1>2, SyncedSame
<1> QED
  BY <1>1, <1>3, SavingUntouched

LEMMA OpenKeepsNotes ==
  ASSUME NoteInv(wizard), Wizard!Open
  PROVE  NoteInv(wizard')
<1>1. wizard \in WizardShape /\ WizardInv(wizard') /\ wizard.timer = None
  BY WizardNextKeeps DEF NoteInv, WizardInv, Wizard!WizardNext, Wizard!Open
<1> DEFINE a == {s.of : s \in wizard.strays} \cup {c.save.of : c \in wizard.calls}
           y == [m \in Members |-> None]
<1>2. /\ wizard'.open = TRUE /\ wizard'.timer = wizard.timer
      /\ wizard'.strays = wizard.strays /\ wizard'.calls = wizard.calls
      /\ wizard'.typed = y /\ wizard'.amiss = a
  <2>1. PICK k \in Kpis \cup {Unset} :
          wizard' = [wizard EXCEPT !.open = TRUE, !.visits = @ + 1, !.cycle = k,
                       !.loaded = "loading", !.step = 1, !.box = Blank, !.trends = {},
                       !.notes = [m \in Members |-> Blank],
                       !.typed = y, !.dropped = {}, !.amiss = a]
    BY DEF Wizard!Open
  <2> HIDE DEF y, a
  <2> QED
    BY <1>1, <2>1 DEF WizardShape
<1>3. ASSUME NEW m \in Members PROVE NoteSafe(wizard', m)
  <2>1. y[m] = None
    OBVIOUS
  <2>2. m \notin a => StraysOf(wizard', m) = {} /\ CallsOf(wizard', m) = {}
    BY <1>2 DEF StraysOf, CallsOf
  <2> HIDE DEF y, a
  <2> QED
    BY <1>2, <2>1, <2>2 DEF NoteSafe, Single
<1> QED
  BY <1>1, <1>2, <1>3 DEF NoteInv

LEMMA TypeKeepsNotes ==
  ASSUME NoteInv(wizard), Wizard!Type
  PROVE  NoteInv(wizard')
<1> DEFINE o == Team[wizard.step]
<1>1. wizard \in WizardShape /\ WizardInv(wizard') /\ wizard.open
  BY WizardNextKeeps DEF NoteInv, WizardInv, Wizard!WizardNext, Wizard!Type, Wizard!OnMember
<1>2. o \in Members
  <2>1. wizard.step # Len(Team) + 1
    BY DEF Wizard!Type, Wizard!OnMember, Wizard!OnSummary
  <2>2. wizard.step \in 1..Len(Team)
    BY <1>1, <2>1, TeamAssumption DEF WizardShape
  <2> QED
    BY <2>2, TeamAssumption
<1>3. PICK t \in [of : {o}, word : Words] \cup {Blank} :
        wizard' = [wizard EXCEPT !.box = t, !.count = @ + 1, !.typed[o] = t,
                     !.timer = [of |-> o, cycle |-> wizard.cycle, text |-> t],
                     !.dropped = (@ \cup Wizard!TimerOf(wizard)) \ {o}]
  BY DEF Wizard!Type, Wizard!Shown
<1> DEFINE r == [of |-> o, cycle |-> wizard.cycle, text |-> t]
           y == [wizard.typed EXCEPT ![o] = t]
           d == (wizard.dropped \cup Wizard!TimerOf(wizard)) \ {o}
<1>4. /\ wizard'.open = wizard.open /\ wizard'.cycle = wizard.cycle /\ wizard'.timer = r
      /\ wizard'.strays = wizard.strays /\ wizard'.calls = wizard.calls
      /\ wizard'.typed = y /\ wizard'.dropped = d /\ wizard'.amiss = wizard.amiss
      /\ wizard'.table = wizard.table
  BY <1>1, <1>3 DEF WizardShape
<1>5. /\ r.of = o /\ r # None
      /\ y \in [Members -> Wizard!Texts \cup {None}] /\ y[o] = t
      /\ \A m \in Members \ {o} : y[m] = wizard.typed[m]
  <2>1. t \in Wizard!Texts /\ t \in [of : Members, word : Words] \cup {Blank}
    BY <1>2, <1>3 DEF Wizard!Texts
  <2>2. r \in [of : Members, cycle : Kpis \cup {Unset},
               text : [of : Members, word : Words] \cup {Blank}]
    BY <1>1, <1>2, <2>1 DEF WizardShape
  <2>3. r # None
    <3> HIDE DEF r
    <3> QED
      BY <2>2, NoneAssumption
  <2>4. wizard.typed \in [Members -> Wizard!Texts \cup {None}]
    BY <1>1 DEF WizardShape
  <2> QED
    BY <1>2, <2>1, <2>3, <2>4
<1>6. Last(wizard', o) = r
  <2> HIDE DEF y
  <2> QED
    BY <1>4, <1>5 DEF Last
<1> HIDE DEF r, y
<1>7. ASSUME NEW m \in Members PROVE NoteSafe(wizard', m)
  <2>1. NoteSafe(wizard, m)
    BY DEF NoteInv
  <2>2. StraysOf(wizard', m) = StraysOf(wizard, m) /\ CallsOf(wizard', m) = CallsOf(wizard, m)
    BY <1>4 DEF StraysOf, CallsOf
  <2>3. Single(wizard, m) => Single(wizard', m)
    BY <1>4, <2>2 DEF Single
  <2>4. CASE m = o
    BY <1>4, <1>5, <1>6, <2>1, <2>3, <2>4 DEF NoteSafe, Tracked
  <2>5. CASE m # o
    <3>1. Last(wizard', m) = Last(wizard, m) /\ wizard'.typed[m] = wizard.typed[m]
      BY <1>4, <1>5, <2>5 DEF Last
    <3>2. m \notin Wizard!TimerOf(wizard')
      BY <1>4, <1>5, <2>5 DEF Wizard!TimerOf
    <3>3. m \notin wizard'.dropped => m \notin wizard.dropped /\ m \notin Wizard!TimerOf(wizard)
      BY <1>4, <2>5
    <3>4. m \notin Wizard!TimerOf(wizard) => wizard.timer = None \/ wizard.timer # Last(wizard, m)
      BY DEF Wizard!TimerOf, Last
    <3> QED
      BY <1>4, <2>1, <2>2, <2>3, <3>1, <3>2, <3>3, <3>4 DEF NoteSafe, Tracked
  <2> QED
    BY <2>4, <2>5
<1> QED
  BY <1>1, <1>4, <1>7 DEF NoteInv

LEMMA CloseKeepsNotes ==
  ASSUME NoteInv(wizard), Wizard!Close
  PROVE  NoteInv(wizard')
<1>1. wizard \in WizardShape /\ WizardInv(wizard') /\ wizard.open
  BY WizardNextKeeps DEF NoteInv, WizardInv, Wizard!WizardNext, Wizard!Close
<1> DEFINE t == IF wizard.timer = None THEN wizard.strays ELSE wizard.strays \cup {wizard.timer}
<1>2. /\ wizard'.open = FALSE /\ wizard'.cycle = wizard.cycle /\ wizard'.timer = None
      /\ wizard'.strays = t /\ wizard'.calls = wizard.calls
      /\ wizard'.typed = wizard.typed /\ wizard'.dropped = wizard.dropped
      /\ wizard'.amiss = wizard.amiss /\ wizard'.table = wizard.table
  <2>1. wizard' = [wizard EXCEPT !.open = FALSE, !.timer = None, !.strays = t]
    BY <1>1 DEF Wizard!Close, Wizard!Left, WizardShape
  <2> HIDE DEF t
  <2> QED
    BY <1>1, <2>1 DEF WizardShape
<1>3. ASSUME NEW m \in Members PROVE NoteSafe(wizard', m)
  <2>1. NoteSafe(wizard, m)
    BY DEF NoteInv
  <2>2. /\ CallsOf(wizard', m) = CallsOf(wizard, m) /\ Last(wizard', m) = Last(wizard, m)
        /\ Wizard!TimerOf(wizard') = {}
    BY <1>2 DEF CallsOf, Last, Wizard!TimerOf
  <2>3. SUFFICES ASSUME m \notin wizard.amiss PROVE NoteSafe(wizard', m)
    BY <1>2 DEF NoteSafe
  <2>4. StraysOf(wizard, m) = {} /\ Single(wizard, m)
    BY <1>1, <2>1, <2>3 DEF NoteSafe, Single
  <2>5. CASE m \in Wizard!TimerOf(wizard)
    <3>1. wizard.timer # None /\ wizard.timer.of = m
      BY <2>5 DEF Wizard!TimerOf
    <3>2. StraysOf(wizard', m) = {wizard.timer}
      BY <1>2, <2>4, <3>1 DEF StraysOf
    <3>3. Single(wizard', m)
      BY <1>2, <2>2, <2>4, <3>2 DEF Single
    <3> QED
      BY <1>2, <2>1, <2>2, <2>3, <2>5, <3>2, <3>3 DEF NoteSafe, Tracked
  <2>6. CASE m \notin Wizard!TimerOf(wizard)
    <3>1. StraysOf(wizard', m) = {}
      BY <1>2, <2>4, <2>6 DEF StraysOf, Wizard!TimerOf
    <3>2. Single(wizard', m)
      BY <1>2, <2>2, <2>4, <3>1 DEF Single
    <3>3. wizard.timer = None \/ wizard.timer # Last(wizard, m)
      BY <2>6 DEF Wizard!TimerOf, Last
    <3> QED
      BY <1>2, <2>1, <2>2, <2>3, <2>4, <2>6, <3>1, <3>2, <3>3 DEF NoteSafe, Tracked
  <2> QED
    BY <2>5, <2>6
<1> QED
  BY <1>1, <1>2, <1>3 DEF NoteInv

(* A save sets out, from the page's timer or from one left over.             *)
LEMMA TimerFiresKeepsNotes ==
  ASSUME NoteInv(wizard), Wizard!TimerFires
  PROVE  NoteInv(wizard')
<1>1. wizard \in WizardShape /\ WizardInv(wizard')
  BY WizardNextKeeps DEF NoteInv, WizardInv, Wizard!WizardNext
<1> DEFINE A(s) == IF \E c \in wizard.calls : c.save.of = s.of
                   THEN wizard.amiss \cup {s.of} ELSE wizard.amiss
<1>2. PICK s \in Save, v \in Nat, t \in {wizard.timer, None}, r \in SUBSET wizard.strays :
        /\ wizard' = [wizard EXCEPT !.calls = wizard.calls \cup {[save |-> s, visit |-> v]},
                        !.amiss = A(s), !.timer = t, !.strays = r]
        /\ \/ /\ wizard.open /\ wizard.timer = s /\ wizard.timer # None
              /\ t = None /\ r = wizard.strays
           \/ s \in wizard.strays /\ t = wizard.timer /\ r = wizard.strays \ {s}
  <2>1. CASE /\ wizard.open /\ wizard.timer # None
             /\ wizard' = [Wizard!Started(wizard.timer, wizard.visits) EXCEPT !.timer = None]
    <3>1. wizard.timer \in Save /\ wizard.visits \in Nat
      BY <1>1, <2>1 DEF WizardShape
    <3>2. wizard' = [wizard EXCEPT
                       !.calls = wizard.calls \cup {[save |-> wizard.timer, visit |-> wizard.visits]},
                       !.amiss = A(wizard.timer), !.timer = None, !.strays = wizard.strays]
      BY <1>1, <2>1 DEF Wizard!Started, Wizard!Due, WizardShape
    <3> HIDE DEF A
    <3> QED
      BY <2>1, <3>1, <3>2
  <2>2. ASSUME NEW s \in wizard.strays, NEW v \in 1..MaxOpened,
               wizard' = [Wizard!Started(s, v) EXCEPT !.strays = @ \ {s}]
        PROVE  /\ s \in Save /\ v \in Nat
               /\ wizard' = [wizard EXCEPT !.calls = wizard.calls \cup {[save |-> s, visit |-> v]},
                               !.amiss = A(s), !.timer = wizard.timer,
                               !.strays = wizard.strays \ {s}]
    <3>1. s \in Save /\ v \in Nat
      BY <1>1 DEF WizardShape
    <3>2. wizard' = [wizard EXCEPT !.calls = wizard.calls \cup {[save |-> s, visit |-> v]},
                       !.amiss = A(s), !.timer = wizard.timer, !.strays = wizard.strays \ {s}]
      BY <1>1, <2>2 DEF Wizard!Started, Wizard!Due, WizardShape
    <3> QED
      BY <3>1, <3>2
  <2>3. CASE \E s \in wizard.strays, v \in 1..MaxOpened :
               wizard' = [Wizard!Started(s, v) EXCEPT !.strays = @ \ {s}]
    <3>1. PICK s \in wizard.strays, v \in 1..MaxOpened :
                 wizard' = [Wizard!Started(s, v) EXCEPT !.strays = @ \ {s}]
      BY <2>3
    <3>2. /\ s \in Save /\ v \in Nat
          /\ wizard' = [wizard EXCEPT !.calls = wizard.calls \cup {[save |-> s, visit |-> v]},
                               !.amiss = A(s), !.timer = wizard.timer,
                               !.strays = wizard.strays \ {s}]
      BY <2>2, <3>1
    <3>3. wizard.strays \ {s} \in SUBSET wizard.strays
      OBVIOUS
    <3> HIDE DEF A
    <3> QED
      BY <3>2, <3>3
  <2> HIDE DEF A
  <2> QED
    BY <2>1, <2>3 DEF Wizard!TimerFires
<1> DEFINE c == [save |-> s, visit |-> v]
           k == wizard.calls \cup {c}
           a == A(s)
<1>3. /\ c.save = s
      /\ wizard'.open = wizard.open /\ wizard'.cycle = wizard.cycle /\ wizard'.timer = t
      /\ wizard'.strays = r /\ wizard'.calls = k
      /\ wizard'.typed = wizard.typed /\ wizard'.dropped = wizard.dropped
      /\ wizard'.amiss = a /\ wizard'.table = wizard.table
  <2>1. wizard' = [wizard EXCEPT !.calls = k, !.amiss = a, !.timer = t, !.strays = r]
    BY <1>2
  <2> HIDE DEF k, a
  <2> QED
    BY <1>1, <2>1 DEF WizardShape
<1>4. ASSUME NEW m \in Members PROVE NoteSafe(wizard', m)
  <2>1. NoteSafe(wizard, m)
    BY DEF NoteInv
  <2>2. m \notin a => m \notin wizard.amiss
    OBVIOUS
  <2>3. SUFFICES ASSUME m \notin a PROVE NoteSafe(wizard', m)
    BY <1>3 DEF NoteSafe
  <2>4. Single(wizard, m) /\ (m \in wizard.dropped \/ wizard.typed[m] = None \/ Tracked(wizard, m))
    BY <2>1, <2>2, <2>3 DEF NoteSafe
  <2>5. Last(wizard', m) = Last(wizard, m) /\ wizard'.typed[m] = wizard.typed[m]
    BY <1>3 DEF Last
  <2>6. CASE s.of = m
    <3>1. CallsOf(wizard, m) = {}
      BY <2>3, <2>6 DEF CallsOf
    <3>2. CallsOf(wizard', m) = {c}
      <4> HIDE DEF c
      <4> QED
        BY <1>3, <2>6, <3>1 DEF CallsOf
    <3>3. StraysOf(wizard', m) = {} /\ m \notin Wizard!TimerOf(wizard')
      <4>1. CASE wizard.open /\ wizard.timer = s /\ t = None /\ r = wizard.strays
        BY <1>3, <2>4, <4>1 DEF Single, StraysOf, Wizard!TimerOf
      <4>2. CASE s \in wizard.strays /\ t = wizard.timer /\ r = wizard.strays \ {s}
        <5>1. s \in StraysOf(wizard, m)
          BY <2>6, <4>2 DEF StraysOf
        <5>2. ~wizard.open /\ wizard.timer = None
          BY <1>1, <2>4, <5>1 DEF Single, NoteInv, WizardShape
        <5>3. StraysOf(wizard', m) = {}
          BY <1>3, <2>4, <4>2, <5>1 DEF Single, StraysOf
        <5> QED
          BY <1>3, <4>2, <5>2, <5>3 DEF Wizard!TimerOf
      <4> QED
        BY <1>2, <4>1, <4>2
    <3>4. Single(wizard', m)
      BY <3>2, <3>3 DEF Single
    <3>5. Tracked(wizard, m) => s = Last(wizard, m)
      <4>1. CASE wizard.open /\ wizard.timer = s /\ wizard.timer # None
        BY <2>6, <4>1 DEF Tracked, Wizard!TimerOf
      <4>2. CASE s \in wizard.strays
        <5>1. s \in StraysOf(wizard, m)
          BY <2>6, <4>2 DEF StraysOf
        <5>2. ~wizard.open /\ wizard.timer = None
          BY <1>1, <2>4, <5>1 DEF Single, NoteInv, WizardShape
        <5> QED
          BY <5>1, <5>2 DEF Tracked
      <4> QED
        BY <1>2, <4>1, <4>2
    <3>6. Tracked(wizard, m) => Tracked(wizard', m)
      BY <1>3, <2>5, <3>2, <3>3, <3>5 DEF Tracked
    <3> QED
      BY <1>3, <2>4, <2>5, <3>4, <3>6 DEF NoteSafe
  <2>7. CASE s.of # m
    <3>1. CallsOf(wizard', m) = CallsOf(wizard, m)
      <4> HIDE DEF c
      <4> QED
        BY <1>3, <2>7 DEF CallsOf
    <3>2. StraysOf(wizard', m) = StraysOf(wizard, m)
      BY <1>2, <1>3, <2>7 DEF StraysOf
    <3>3. /\ m \in Wizard!TimerOf(wizard') <=> m \in Wizard!TimerOf(wizard)
          /\ wizard.timer # None /\ wizard.timer = Last(wizard, m) => wizard'.timer = wizard.timer
      BY <1>2, <1>3, <2>7 DEF Wizard!TimerOf, Last
    <3>4. Single(wizard', m)
      BY <1>3, <2>4, <3>1, <3>2 DEF Single
    <3>5. Tracked(wizard, m) => Tracked(wizard', m)
      BY <1>3, <2>5, <3>1, <3>2, <3>3 DEF Tracked
    <3> QED
      BY <1>3, <2>4, <2>5, <3>4, <3>5 DEF NoteSafe
  <2> QED
    BY <2>6, <2>7
<1>5. ~wizard'.open => wizard'.timer = None
  BY <1>2, <1>3 DEF NoteInv
<1> QED
  BY <1>1, <1>4, <1>5 DEF NoteInv

(* What is stored stays when a note about another member is, and a note      *)
(* stored is.                                                                *)
LEMMA UpsertStores ==
  ASSUME NEW table \in Wizard!Table, NEW s \in Save
  PROVE  LET u == Wizard!Upsert(table, s.of, s.cycle, s.text) IN
         /\ Wizard!Stored(u, s.of, s.cycle, s.text)
         /\ \A m \in Members \ {s.of}, k \in Kpis \cup {Unset} : \A x :
              Wizard!Stored(table, m, k, x) => Wizard!Stored(u, m, k, x)
<1> DEFINE u == Wizard!Upsert(table, s.of, s.cycle, s.text)
<1>1. s.of \in Members /\ s.cycle \in Kpis \cup {Unset}
  BY DEF Save
<1>2. table.kept \in [Members \X Kpis -> Wizard!Texts]
  BY DEF Wizard!Table
<1>3. CASE s.cycle = Unset
  <2> DEFINE l == table.loose \cup {<<s.of, s.text>>}
  <2>1. u = [table EXCEPT !.loose = l]
    BY <1>3 DEF Wizard!Upsert, Wizard!Table
  <2>2. u.kept = table.kept /\ u.loose = l
    <3> HIDE DEF l, u
    <3> QED
      BY <2>1 DEF Wizard!Table
  <2> HIDE DEF u
  <2> QED
    BY <1>3, <2>2 DEF Wizard!Stored, u
<1>4. CASE s.cycle # Unset
  <2> DEFINE q == <<s.of, s.cycle>>
             k == [table.kept EXCEPT ![q] = s.text]
  <2>1. u = [table EXCEPT !.kept = k]
    BY <1>4 DEF Wizard!Upsert, Wizard!Table
  <2>2. /\ k[q] = s.text
        /\ \A p \in Members \X Kpis : p # q => k[p] = table.kept[p]
    BY <1>1, <1>2, <1>4
  <2>3. \A m \in Members \ {s.of}, i \in Kpis : k[<<m, i>>] = table.kept[<<m, i>>]
    BY <2>2
  <2>4. u.kept = k /\ u.loose = table.loose
    <3> HIDE DEF k, u
    <3> QED
      BY <2>1 DEF Wizard!Table
  <2> HIDE DEF u, k
  <2> QED
    BY <1>4, <2>2, <2>3, <2>4 DEF Wizard!Stored, u
<1> QED
  BY <1>3, <1>4

LEMMA SaveAnswersKeepsNotes ==
  ASSUME NoteInv(wizard), Wizard!SaveAnswers
  PROVE  NoteInv(wizard')
<1>1. wizard \in WizardShape /\ WizardInv(wizard')
  BY WizardNextKeeps DEF NoteInv, WizardInv, Wizard!WizardNext
<1>2. PICK c \in wizard.calls :
        \/ /\ ~Wizard!Refused(c.save.text)
           /\ wizard' = IF wizard.open /\ c.visit = wizard.visits /\ wizard.loaded = "members"
                        THEN Wizard!Synced([[wizard EXCEPT !.calls = @ \ {c}] EXCEPT
                               !.table = Wizard!Upsert(wizard.table, c.save.of, c.save.cycle, c.save.text),
                               !.notes[c.save.of] = c.save.text])
                        ELSE [[wizard EXCEPT !.calls = @ \ {c}] EXCEPT
                               !.table = Wizard!Upsert(wizard.table, c.save.of, c.save.cycle, c.save.text)]
        \/ wizard' = [[wizard EXCEPT !.calls = @ \ {c}] EXCEPT !.amiss = @ \cup {c.save.of}]
        \/ /\ ~Wizard!Refused(c.save.text)
           /\ wizard' = [[wizard EXCEPT !.calls = @ \ {c}] EXCEPT
                  !.table = Wizard!Upsert(wizard.table, c.save.of, c.save.cycle, c.save.text),
                  !.amiss = @ \cup {c.save.of}]
  BY DEF Wizard!SaveAnswers
<1> DEFINE o == c.save.of
           k == wizard.calls \ {c}
           u == Wizard!Upsert(wizard.table, c.save.of, c.save.cycle, c.save.text)
           n == [wizard.notes EXCEPT ![o] = c.save.text]
           w == [wizard EXCEPT !.calls = k, !.table = u, !.notes = n]
<1>3. PICK s \in Save, table \in Wizard!Table : s = c.save /\ table = wizard.table
  BY <1>1 DEF WizardShape
<1>4. /\ Wizard!Stored(u, o, s.cycle, s.text)
      /\ \A m \in Members \ {o}, j \in Kpis \cup {Unset} : \A x :
           Wizard!Stored(wizard.table, m, j, x) => Wizard!Stored(u, m, j, x)
  BY <1>3, UpsertStores
<1>5. ~Wizard!Refused(s.text) => u \in Wizard!Table
  <2>1. TableOwn(table) /\ About(s.text, s.of)
    BY <1>1, <1>3 DEF NoteInv, WizardInv, SavesOwn
  <2> QED
    BY <1>3, <2>1, UpsertOwn
<1>6. o \in Members /\ n \in [Members -> Wizard!Texts] /\ k \in SUBSET [save : Save, visit : Nat]
  BY <1>1, <1>3 DEF WizardShape, Save
<1>7. /\ wizard'.open = wizard.open /\ wizard'.cycle = wizard.cycle
      /\ wizard'.timer = wizard.timer /\ wizard'.strays = wizard.strays /\ wizard'.calls = k
      /\ wizard'.typed = wizard.typed /\ wizard'.dropped = wizard.dropped
      /\ \/ wizard'.amiss = wizard.amiss /\ wizard'.table = u
         \/ wizard'.amiss = wizard.amiss \cup {o} /\ wizard'.table \in {u, wizard.table}
  <2>1. CASE \/ wizard' = [[wizard EXCEPT !.calls = @ \ {c}] EXCEPT !.amiss = @ \cup {o}]
             \/ wizard' = [[wizard EXCEPT !.calls = @ \ {c}] EXCEPT !.table = u,
                             !.amiss = @ \cup {o}]
             \/ wizard' = [[wizard EXCEPT !.calls = @ \ {c}] EXCEPT !.table = u]
    <3> DEFINE a == wizard.amiss \cup {o}
    <3>1. \/ wizard' = [wizard EXCEPT !.calls = k, !.amiss = a]
          \/ wizard' = [wizard EXCEPT !.calls = k, !.table = u, !.amiss = a]
          \/ wizard' = [wizard EXCEPT !.calls = k, !.table = u]
      <4> HIDE DEF u
      <4> QED
        BY <1>1, <2>1 DEF WizardShape
    <3> HIDE DEF u, k, a
    <3>2. /\ wizard'.open = wizard.open /\ wizard'.cycle = wizard.cycle
          /\ wizard'.timer = wizard.timer /\ wizard'.strays = wizard.strays
          /\ wizard'.typed = wizard.typed /\ wizard'.dropped = wizard.dropped
          /\ wizard'.calls = k
      BY <1>1, <3>1, ZenonT(60) DEF WizardShape
    <3>3. \/ wizard'.amiss = wizard.amiss /\ wizard'.table = u
          \/ wizard'.amiss = a /\ wizard'.table \in {u, wizard.table}
      BY <1>1, <3>1, ZenonT(60) DEF WizardShape
    <3> QED
      BY <3>2, <3>3 DEF a
  <2>2. CASE /\ ~Wizard!Refused(c.save.text)
             /\ wizard' = Wizard!Synced([[wizard EXCEPT !.calls = @ \ {c}] EXCEPT
                               !.table = u, !.notes[c.save.of] = c.save.text])
    <3>1. [[wizard EXCEPT !.calls = @ \ {c}] EXCEPT !.table = u, !.notes[c.save.of] = c.save.text]
            = w
      <4> HIDE DEF u
      <4> QED
        BY <1>1 DEF WizardShape
    <3>2. /\ w \in WizardShape
          /\ w.open = wizard.open /\ w.cycle = wizard.cycle
          /\ w.timer = wizard.timer /\ w.strays = wizard.strays /\ w.calls = k
          /\ w.typed = wizard.typed /\ w.dropped = wizard.dropped
          /\ w.amiss = wizard.amiss /\ w.table = u
      <4> HIDE DEF u, k, n
      <4> QED
        BY <1>1, <1>3, <1>5, <1>6, <2>2 DEF WizardShape
    <3>3. wizard' = Wizard!Synced(w)
      <4> HIDE DEF w
      <4> QED
        BY <2>2, <3>1
    <3> HIDE DEF w, u, k
    <3>4. PICK v \in WizardShape : v = w
      BY <3>2
    <3> QED
      BY <3>2, <3>3, <3>4, SyncedSame
  <2> HIDE DEF u, k
  <2> QED
    BY <1>2, <2>1, <2>2 DEF u
<1> HIDE DEF u, n, w
<1>8. ASSUME NEW m \in Members PROVE NoteSafe(wizard', m)
  <2>1. NoteSafe(wizard, m)
    BY DEF NoteInv
  <2>2. /\ Last(wizard', m) = Last(wizard, m) /\ StraysOf(wizard', m) = StraysOf(wizard, m)
        /\ Wizard!TimerOf(wizard') = Wizard!TimerOf(wizard)
    BY <1>7 DEF Last, StraysOf, Wizard!TimerOf
  <2>3. SUFFICES ASSUME m \notin wizard'.amiss PROVE NoteSafe(wizard', m)
    BY DEF NoteSafe
  <2>4. /\ m \notin wizard.amiss /\ Single(wizard, m)
        /\ m \in wizard.dropped \/ wizard.typed[m] = None \/ Tracked(wizard, m)
    BY <1>7, <2>1, <2>3 DEF NoteSafe
  <2>5. CallsOf(wizard', m) = CallsOf(wizard, m) \ {c}
    BY <1>7 DEF CallsOf
  <2>6. Single(wizard', m)
    BY <1>7, <2>2, <2>4, <2>5 DEF Single
  <2>7. CASE o = m
    <3>1. wizard'.table = u /\ c \in CallsOf(wizard, m)
      BY <1>7, <2>3, <2>7 DEF CallsOf
    <3>2. CallsOf(wizard, m) = {c}
      BY <2>4, <3>1 DEF Single
    <3>3. s = Last(wizard, m) =>
            Wizard!Stored(wizard'.table, m, wizard'.cycle, wizard'.typed[m])
      <4> SUFFICES ASSUME s = Last(wizard, m)
                   PROVE  Wizard!Stored(u, m, wizard.cycle, wizard.typed[m])
        BY <1>7, <3>1
      <4>1. s.cycle = wizard.cycle /\ s.text = wizard.typed[m]
        BY DEF Last
      <4> QED
        BY <1>4, <2>7, <4>1
    <3>4. Tracked(wizard, m) => Tracked(wizard', m)
      BY <1>3, <1>7, <2>2, <2>5, <3>2, <3>3 DEF Tracked
    <3> QED
      BY <1>7, <2>4, <2>6, <3>4 DEF NoteSafe
  <2>8. CASE o # m
    <3>1. CallsOf(wizard', m) = CallsOf(wizard, m)
      BY <2>5, <2>8 DEF CallsOf
    <3>2. Wizard!Stored(wizard.table, m, wizard.cycle, wizard.typed[m]) =>
            Wizard!Stored(wizard'.table, m, wizard'.cycle, wizard'.typed[m])
      <4>1. wizard.cycle \in Kpis \cup {Unset}
        BY <1>1 DEF WizardShape
      <4>2. wizard'.table = u \/ wizard'.table = wizard.table
        BY <1>7
      <4> QED
        BY <1>4, <1>7, <2>8, <4>1, <4>2
    <3>3. Tracked(wizard, m) => Tracked(wizard', m)
      BY <1>7, <2>2, <3>1, <3>2 DEF Tracked
    <3> QED
      BY <1>7, <2>4, <2>6, <3>3 DEF NoteSafe
  <2> QED
    BY <2>7, <2>8
<1> QED
  BY <1>1, <1>7, <1>8 DEF NoteInv

LEMMA NotesNextKeeps ==
  ASSUME NoteInv(wizard), Wizard!WizardNext
  PROVE  NoteInv(wizard')
BY OpenKeepsNotes, ShowingKeepsNotes, TypeKeepsNotes, TimerFiresKeepsNotes,
   SaveAnswersKeepsNotes, CloseKeepsNotes DEF Wizard!WizardNext

LEMMA NotesMountedRight == NoteInv(Wizard!WizardMounted)
<1> DEFINE w == Wizard!WizardMounted
<1>1. /\ w.open = FALSE /\ w.timer = None /\ w.strays = {} /\ w.calls = {}
      /\ w.typed = [m \in Members |-> None]
  BY DEF Wizard!WizardMounted
<1> HIDE DEF w
<1>2. ASSUME NEW m \in Members PROVE NoteSafe(w, m)
  BY <1>1 DEF NoteSafe, Single, StraysOf, CallsOf
<1> QED
  BY <1>1, <1>2, WizardMountedRight DEF NoteInv, w

LEMMA NoteInvKept ==
  ASSUME NoteInv(wizard)
  PROVE  Wizard!NoteKept
<1> SUFFICES ASSUME Wizard!WizardQuiet, NEW m \in Members \ (wizard.dropped \cup wizard.amiss),
                    wizard.typed[m] # None
             PROVE  Wizard!Stored(wizard.table, m, wizard.cycle, wizard.typed[m])
  BY DEF Wizard!NoteKept
<1>1. Tracked(wizard, m)
  BY DEF NoteInv, NoteSafe
<1>2. wizard.timer = None /\ StraysOf(wizard, m) = {} /\ CallsOf(wizard, m) = {}
  BY DEF Wizard!WizardQuiet, StraysOf, CallsOf
<1> QED
  BY <1>1, <1>2 DEF Tracked

------------------------------------------------------------------------------
(* The team page.  About a member of whom nothing went amiss, everything is  *)
(* the member's own, no two saves are under way, and what was typed last is  *)
(* waiting, under way, or stored.  An open drawer believes to be saved what  *)
(* the server holds, or it is stale and nothing was typed in it.             *)
CallsAbout(t, m) == {c \in t.calls : c.save.of = m}
CallsHere(t)     == {c \in t.calls : c.mount = t.mounts}

Believed(t) ==
  \/ Desk!Stored(t.table, t.picked, Desk!CycleOf(t), t.saved)
  \/ Desk!CycleOf(t) = Unset /\ t.saved = Blank

TimerRight(t) ==
  t.timer # None =>
    /\ Desk!Visible(t) /\ t.focused
    /\ t.timer.of = t.picked /\ t.timer.cycle = Desk!CycleOf(t)
    /\ t.timer = t.typed[t.picked]
    /\ t.picked \notin t.amiss => t.box = t.timer.text /\ ~t.stale

(* What the drawer knows of the member it shows.                             *)
DrawerRight(t) ==
  /\ About(t.box, t.picked) /\ About(t.saved, t.picked)
  /\ CallsHere(t) \subseteq CallsAbout(t, t.picked)
  /\ t.stale => CallsHere(t) = {}
  /\ ~t.stale =>
       /\ Believed(t) /\ CallsAbout(t, t.picked) \subseteq CallsHere(t)
       /\ \A c \in CallsAbout(t, t.picked) : c.save.cycle = Desk!CycleOf(t)
  /\ t.timer = None =>
       /\ \A c \in CallsHere(t) : c.save.text = t.box
       /\ Desk!Same(t.box, t.saved) \/ CallsHere(t) # {}

ShownRight(t) ==
  Desk!Visible(t) => t.mounts >= 1 /\ (t.picked \notin t.amiss => DrawerRight(t))

OwnTyped(t, m) == t.typed[m] # None => t.typed[m].of = m /\ About(t.typed[m].text, m)

ReadOwn(t, m) ==
  /\ About(t.notes[m], m)
  /\ \A r \in t.reads : r.found # None => About(r.found[m], m)

(* What was typed last about m has a place, or there was nothing to keep.    *)
Kept(t, m) ==
  \/ t.typed[m] = None \/ t.typed[m].text = Blank
  \/ t.timer = t.typed[m]
  \/ \E c \in CallsAbout(t, m) : c.save = t.typed[m]
  \/ Desk!Stored(t.table, m, t.typed[m].cycle, t.typed[m].text)

SavedOwn(t, m) ==
  /\ \A k \in Kpis : About(t.table.kept[<<m, k>>], m)
  /\ \A c \in CallsAbout(t, m) : About(c.save.text, m)
  /\ \A c, d \in CallsAbout(t, m) : c = d
  /\ t.timer = None \/ t.timer.of # m => \A c \in CallsAbout(t, m) : c.save = t.typed[m]
  /\ Kept(t, m)

MemberRight(t, m) ==
  /\ OwnTyped(t, m)
  /\ m \notin t.amiss => ReadOwn(t, m) /\ SavedOwn(t, m)

TeamShape(t) ==
  /\ t \in Desk!TeamState
  /\ t.mounts + t.count <= MaxMoves
  /\ t.loads <= 1 + t.picks + (IF t.listed THEN 1 ELSE 0)
  /\ \A c \in t.calls : c.mount <= t.mounts

TeamInv(t) ==
  /\ TeamShape(t) /\ TimerRight(t) /\ ShownRight(t)
  /\ \A m \in Members : MemberRight(t, m)

(* The page before it is rendered: the drawer is as it was, and shows the    *)
(* same member or one that is passed on to it.                               *)
Beside(t) ==
  /\ TeamShape(t)
  /\ t.calls = team.calls /\ t.timer = team.timer /\ t.typed = team.typed
  /\ t.table = team.table /\ t.mounts = team.mounts /\ t.count = team.count
  /\ t.box = team.box /\ t.saved = team.saved /\ t.focused = team.focused
  /\ t.stale = team.stale /\ team.amiss \subseteq t.amiss
  /\ \A m \in Members \ t.amiss : ReadOwn(t, m)
  /\ Desk!Visible(t) /\ Desk!Visible(team) =>
       /\ Desk!CycleOf(t) = Desk!CycleOf(team)
       /\ t.picked # team.picked => t.picked \in t.amiss /\ team.timer = None

(* Nothing but what is loaded changes for the members.                       *)
LEMMA BesideSaves ==
  ASSUME TeamInv(team), NEW t, Beside(t), NEW m \in Members
  PROVE  MemberRight(t, m)
<1>1. MemberRight(team, m)
  BY DEF TeamInv
<1>2. CallsAbout(t, m) = CallsAbout(team, m)
  BY DEF CallsAbout, Beside
<1>3. OwnTyped(t, m)
  BY <1>1 DEF MemberRight, OwnTyped, Beside
<1>4. m \notin t.amiss => m \notin team.amiss /\ ReadOwn(t, m)
  BY DEF Beside
<1>5. SavedOwn(team, m) => SavedOwn(t, m)
  BY <1>2 DEF SavedOwn, Kept, Beside
<1> QED
  BY <1>1, <1>3, <1>4, <1>5 DEF MemberRight

(* An open drawer stays as it is.                                            *)
LEMMA DrawerStays ==
  ASSUME TeamInv(team), NEW t, Beside(t), Desk!Visible(t), Desk!Visible(team)
  PROVE  TeamInv(t)
<1>1. /\ CallsHere(t) = CallsHere(team) /\ Desk!CycleOf(t) = Desk!CycleOf(team)
      /\ t.mounts = team.mounts
  BY DEF CallsHere, Beside
<1>2. CASE t.picked = team.picked
  <2>1. CallsAbout(t, t.picked) = CallsAbout(team, team.picked)
    BY <1>2 DEF CallsAbout, Beside
  <2>2. Believed(team) => Believed(t)
    BY <1>1, <1>2 DEF Believed, Beside
  <2>3. DrawerRight(team) => DrawerRight(t)
    BY <1>1, <1>2, <2>1, <2>2 DEF DrawerRight, Beside
  <2>4. ShownRight(t)
    BY <1>1, <1>2, <2>3 DEF TeamInv, ShownRight, Beside
  <2>5. TimerRight(t)
    BY <1>1, <1>2 DEF TeamInv, TimerRight, Beside
  <2> QED
    BY <2>4, <2>5, BesideSaves DEF TeamInv, Beside
<1>3. CASE t.picked # team.picked
  <2>1. t.picked \in t.amiss /\ t.timer = None
    BY <1>3 DEF Beside
  <2>2. ShownRight(t) /\ TimerRight(t)
    BY <1>1, <2>1 DEF TeamInv, ShownRight, TimerRight
  <2> QED
    BY <2>2, BesideSaves DEF TeamInv, Beside
<1> QED
  BY <1>2, <1>3

(* A page without a drawer has none to be right about.                       *)
LEMMA NoDrawerStays ==
  ASSUME TeamInv(team), NEW t, Beside(t), ~Desk!Visible(t), ~Desk!Visible(team)
  PROVE  TeamInv(t)
BY BesideSaves DEF TeamInv, TimerRight, ShownRight, Beside

(* The drawer goes, and with it a save that was waiting.                     *)
LEMMA DrawerGoes ==
  ASSUME TeamInv(team), NEW t, Beside(t), ~Desk!Visible(t)
  PROVE  TeamInv(Desk!Rendered(t))
<1> DEFINE a == IF team.timer = None THEN t.amiss ELSE t.amiss \cup {team.timer.of}
           u == [t EXCEPT !.box = Blank, !.saved = Blank, !.focused = FALSE, !.timer = None,
                   !.stale = FALSE, !.amiss = a]
<1>1. t \in Desk!TeamState /\ TeamShape(t)
  BY DEF Beside, TeamShape
<1>2. a \in SUBSET Members /\ t.amiss \subseteq a
  <2>1. team.timer \in Desk!Saves \cup {None}
    BY DEF TeamInv, TeamShape, Desk!TeamState
  <2>2. team.timer # None => team.timer.of \in Members
    BY <2>1 DEF Desk!Saves
  <2> QED
    BY <1>1, <2>2 DEF Desk!TeamState
<1>3. Desk!Rendered(t) = u
  BY DEF Desk!Rendered
<1> HIDE DEF a
<1>4. /\ u \in Desk!TeamState
      /\ u.period = t.period /\ u.listed = t.listed /\ u.picks = t.picks /\ u.loads = t.loads
      /\ u.loading = t.loading /\ u.failed = t.failed /\ u.got = t.got /\ u.reads = t.reads
      /\ u.notes = t.notes /\ u.picked = t.picked /\ u.mounts = t.mounts /\ u.timer = None
      /\ u.calls = t.calls /\ u.count = t.count /\ u.typed = t.typed /\ u.amiss = a
      /\ u.table = t.table
  <2>1. Blank \in Desk!Texts
    BY DEF Desk!Texts
  <2> QED
    BY <1>1, <1>2, <2>1 DEF Desk!TeamState
<1> HIDE DEF u
<1>5. TeamShape(u)
  BY <1>1, <1>4 DEF TeamShape
<1>6. TimerRight(u) /\ ShownRight(u)
  BY <1>4 DEF TimerRight, ShownRight, Desk!Visible
<1>7. ASSUME NEW m \in Members PROVE MemberRight(u, m)
  <2>1. MemberRight(t, m)
    BY BesideSaves
  <2>2. CallsAbout(u, m) = CallsAbout(t, m)
    BY <1>4 DEF CallsAbout
  <2>3. OwnTyped(u, m) /\ (ReadOwn(t, m) => ReadOwn(u, m))
    BY <1>4, <2>1 DEF MemberRight, OwnTyped, ReadOwn
  <2>4. m \notin a => m \notin t.amiss /\ (t.timer # None => t.timer.of # m)
    BY <1>2 DEF a, Beside
  <2>5. m \notin a /\ SavedOwn(t, m) => SavedOwn(u, m)
    <3>1. m \notin a /\ Kept(t, m) => Kept(u, m)
      BY <1>4, <2>1, <2>2, <2>4 DEF Kept, MemberRight, OwnTyped
    <3> QED
      BY <1>4, <2>2, <2>4, <3>1 DEF SavedOwn
  <2> QED
    BY <1>4, <2>1, <2>3, <2>4, <2>5 DEF MemberRight
<1> QED
  BY <1>3, <1>5, <1>6, <1>7 DEF TeamInv

(* What the page believes of a note the server would return now.             *)
LEMMA FreshBelieved ==
  ASSUME NEW t, t \in Desk!TeamState, t.picked \in Members, Desk!Fresh(t),
         t.picked \notin t.amiss, MemberRight(t, t.picked)
  PROVE  /\ CallsAbout(t, t.picked) = {}
         /\ \/ Desk!Stored(t.table, t.picked, Desk!CycleOf(t), t.notes[t.picked])
            \/ Desk!CycleOf(t) = Unset /\ t.notes[t.picked] = Blank
<1> DEFINE p == t.picked
           k == Desk!CycleOf(t)
           n == t.notes[p]
<1>1. CallsAbout(t, p) = {}
  BY DEF Desk!Fresh, CallsAbout
<1>2. Desk!Same(n, Desk!NotesOf(t.table, k)[p])
  BY DEF Desk!Fresh
<1>3. CASE k = Unset
  <2>1. Desk!NotesOf(t.table, k)[p] = Blank
    BY <1>3 DEF Desk!NotesOf
  <2> QED
    BY <1>1, <1>2, <1>3, <2>1 DEF Desk!Same
<1>4. CASE k # Unset
  <2>1. k \in Kpis
    BY <1>4 DEF Desk!CycleOf
  <2>2. Desk!NotesOf(t.table, k)[p] = t.table.kept[<<p, k>>]
    BY <1>4 DEF Desk!NotesOf
  <2>3. PICK x \in Desk!Texts, y \in Desk!Texts : x = n /\ y = t.table.kept[<<p, k>>]
    <3>1. t.notes \in [Members -> Desk!Texts] /\ t.table.kept \in [Members \X Kpis -> Desk!Texts]
      BY DEF Desk!TeamState, Desk!Table
    <3> QED
      BY <2>1, <3>1
  <2>4. About(x, p) /\ About(y, p)
    BY <2>1, <2>3 DEF MemberRight, ReadOwn, SavedOwn
  <2>5. x = y
    <3>1. Desk!Same(x, y)
      BY <1>2, <2>2, <2>3
    <3> QED
      BY <2>3, <2>4, <3>1 DEF Desk!Same, Desk!Texts, About
  <2> QED
    BY <1>1, <1>4, <2>3, <2>5 DEF Desk!Stored
<1> QED
  BY <1>3, <1>4

(* What a drawer holds that has just taken up the note the page knows: n is  *)
(* the number of its mount, and no save of the member is this drawer's.      *)
LEMMA TakenUp ==
  ASSUME NEW t, t \in Desk!TeamState, t.picked \in Members,
         MemberRight(t, t.picked), t.picked \notin t.amiss,
         NEW u, u.picked = t.picked, u.calls = t.calls, u.table = t.table,
         Desk!CycleOf(u) = Desk!CycleOf(t),
         u.box = t.notes[t.picked], u.saved = t.notes[t.picked], u.stale = ~Desk!Fresh(t),
         CallsHere(u) = {}
  PROVE  DrawerRight(u)
<1>1. CallsAbout(u, u.picked) = CallsAbout(t, t.picked)
  BY DEF CallsAbout
<1>2. About(t.notes[t.picked], t.picked)
  BY DEF MemberRight, ReadOwn
<1>3. ~u.stale => CallsAbout(u, u.picked) = {} /\ Believed(u)
  BY <1>1, FreshBelieved DEF Believed
<1>4. Desk!Same(u.box, u.saved)
  BY DEF Desk!Same
<1> QED
  BY <1>1, <1>2, <1>3, <1>4 DEF DrawerRight

(* The drawer appears.                                                       *)
LEMMA DrawerAppears ==
  ASSUME TeamInv(team), NEW t, Beside(t), Desk!Visible(t), ~Desk!Visible(team),
         Desk!Moves < MaxMoves
  PROVE  TeamInv(Desk!Rendered(t))
<1> DEFINE p == t.picked
           n == t.mounts + 1
           f == ~Desk!Fresh(t)
           u == [t EXCEPT !.mounts = n, !.box = t.notes[p], !.saved = t.notes[p], !.stale = f]
<1>1. t \in Desk!TeamState /\ TeamShape(t) /\ p \in Members /\ t.timer = None
  BY DEF Beside, TeamShape, Desk!TeamState, Desk!Visible, TeamInv, TimerRight
<1>2. t.mounts \in Nat /\ t.count \in Nat /\ MaxMoves \in Nat
  BY <1>1, BoundsAssumption DEF Desk!TeamState
<1>3. n \in 1..MaxMoves /\ n + t.count <= MaxMoves /\ n > t.mounts
  BY <1>2 DEF Beside, Desk!Moves
<1>4. Desk!Rendered(t) = u
  BY DEF Desk!Rendered
<1>5. t.notes[p] \in Desk!Texts /\ f \in BOOLEAN
  BY <1>1 DEF Desk!TeamState
<1> HIDE DEF n, f
<1>6. /\ u \in Desk!TeamState
      /\ u.period = t.period /\ u.listed = t.listed /\ u.picks = t.picks /\ u.loads = t.loads
      /\ u.reads = t.reads /\ u.notes = t.notes /\ u.picked = p /\ u.mounts = n
      /\ u.box = t.notes[p] /\ u.saved = t.notes[p] /\ u.timer = t.timer /\ u.calls = t.calls
      /\ u.count = t.count /\ u.typed = t.typed /\ u.stale = f /\ u.amiss = t.amiss
      /\ u.table = t.table
  <2>1. n \in 0..MaxMoves
    BY <1>3
  <2>2. u \in Desk!TeamState
    <3> DEFINE v == [t EXCEPT !.mounts = n, !.stale = f]
               w == [v EXCEPT !.box = t.notes[p], !.saved = t.notes[p]]
    <3>1. v \in Desk!TeamState
      <4>1. t \in Desk!TeamState /\ f \in BOOLEAN
        BY <1>1, <1>5
      <4> QED
        BY <2>1, <4>1, ZenonT(60) DEF Desk!TeamState
    <3>2. u = w
      BY <1>1 DEF Desk!TeamState
    <3> HIDE DEF u, v
    <3>3. w \in Desk!TeamState
      BY <1>5, <3>1, ZenonT(60) DEF Desk!TeamState
    <3> QED
      BY <3>2, <3>3
  <2>3. /\ u.period = t.period /\ u.listed = t.listed /\ u.picks = t.picks /\ u.loads = t.loads
        /\ u.reads = t.reads /\ u.notes = t.notes /\ u.picked = p /\ u.mounts = n
        /\ u.box = t.notes[p] /\ u.saved = t.notes[p]
    BY <1>1 DEF Desk!TeamState
  <2>4. /\ u.timer = t.timer /\ u.calls = t.calls /\ u.count = t.count /\ u.typed = t.typed
        /\ u.stale = f /\ u.amiss = t.amiss /\ u.table = t.table
    BY <1>1 DEF Desk!TeamState
  <2> HIDE DEF u
  <2> QED
    BY <2>2, <2>3, <2>4
<1> HIDE DEF u
<1>7. \A c \in u.calls : c.mount \in Nat /\ c.mount <= t.mounts
  BY <1>1, <1>6 DEF TeamShape, Desk!TeamState
<1>8. TeamShape(u)
  BY <1>1, <1>2, <1>3, <1>6, <1>7 DEF TeamShape
<1>9. ASSUME NEW m \in Members PROVE MemberRight(u, m)
  <2>1. MemberRight(t, m)
    BY BesideSaves
  <2> QED
    BY <1>6, <2>1 DEF MemberRight, OwnTyped, ReadOwn, SavedOwn, Kept, CallsAbout
<1>10. TimerRight(u)
  BY <1>1, <1>6 DEF TimerRight
<1>11. ShownRight(u)
  <2>1. CallsHere(u) = {}
    BY <1>2, <1>3, <1>6, <1>7 DEF CallsHere
  <2>2. Desk!CycleOf(u) = Desk!CycleOf(t)
    BY <1>6 DEF Desk!CycleOf
  <2>3. p \notin t.amiss => DrawerRight(u)
    <3>1. MemberRight(t, p)
      BY <1>1, BesideSaves
    <3> QED
      BY <1>1, <1>6, <2>1, <2>2, <3>1, TakenUp DEF f
  <2> QED
    BY <1>3, <1>6, <2>3 DEF ShownRight
<1> QED
  BY <1>4, <1>8, <1>9, <1>10, <1>11 DEF TeamInv

(* The drawer takes up another initial note.                                 *)
LEMMA DrawerRefilled ==
  ASSUME TeamInv(team), NEW t, Beside(t), Desk!Visible(t), Desk!Visible(team),
         ~Desk!Same(t.notes[t.picked], team.notes[team.picked])
  PROVE  TeamInv(Desk!Rendered(t))
<1> DEFINE p == t.picked
           f == ~Desk!Fresh(t)
           a == IF Desk!Unsaved(t) THEN t.amiss \cup {p} ELSE t.amiss
           u == [t EXCEPT !.box = t.notes[p], !.saved = t.notes[p], !.stale = f, !.amiss = a]
<1>1. t \in Desk!TeamState /\ TeamShape(t) /\ p \in Members /\ TeamInv(t)
  BY DrawerStays DEF Beside, TeamShape, Desk!TeamState, Desk!Visible
<1>2. Desk!Rendered(t) = u
  BY DEF Desk!Rendered
<1>3. t.notes[p] \in Desk!Texts /\ f \in BOOLEAN /\ a \in SUBSET Members /\ t.amiss \subseteq a
  BY <1>1 DEF Desk!TeamState
<1> HIDE DEF f, a
<1>4. /\ u \in Desk!TeamState
      /\ u.period = t.period /\ u.listed = t.listed /\ u.picks = t.picks /\ u.loads = t.loads
      /\ u.loading = t.loading /\ u.failed = t.failed /\ u.got = t.got /\ u.focused = t.focused
      /\ u.reads = t.reads /\ u.notes = t.notes /\ u.picked = p /\ u.mounts = t.mounts
      /\ u.box = t.notes[p] /\ u.saved = t.notes[p] /\ u.timer = t.timer /\ u.calls = t.calls
      /\ u.count = t.count /\ u.typed = t.typed /\ u.stale = f /\ u.amiss = a
      /\ u.table = t.table
  <2>1. u \in Desk!TeamState
    BY <1>1, <1>3, ZenonT(60) DEF Desk!TeamState
  <2>2. /\ u.period = t.period /\ u.listed = t.listed /\ u.picks = t.picks
        /\ u.loads = t.loads /\ u.loading = t.loading /\ u.failed = t.failed
        /\ u.got = t.got /\ u.focused = t.focused /\ u.reads = t.reads
        /\ u.notes = t.notes /\ u.picked = p
    BY <1>1 DEF Desk!TeamState
  <2>3. /\ u.mounts = t.mounts /\ u.box = t.notes[p] /\ u.saved = t.notes[p]
        /\ u.timer = t.timer /\ u.calls = t.calls /\ u.count = t.count
        /\ u.typed = t.typed /\ u.stale = f /\ u.amiss = a /\ u.table = t.table
    BY <1>1 DEF Desk!TeamState
  <2> HIDE DEF u
  <2> QED
    BY <2>1, <2>2, <2>3
<1> HIDE DEF u
<1>5. TeamShape(u)
  BY <1>1, <1>4 DEF TeamShape
<1>6. ASSUME NEW m \in Members PROVE MemberRight(u, m)
  <2>1. MemberRight(t, m)
    BY BesideSaves
  <2>2. m \notin u.amiss => m \notin t.amiss
    BY <1>3, <1>4
  <2> QED
    BY <1>4, <2>1, <2>2 DEF MemberRight, OwnTyped, ReadOwn, SavedOwn, Kept, CallsAbout
<1>7. Desk!Visible(u) /\ Desk!CycleOf(u) = Desk!CycleOf(t)
  BY <1>4 DEF Desk!Visible, Desk!CycleOf
<1>8. p \notin a => p \notin t.amiss /\ t.timer = None /\ CallsAbout(t, p) = {}
  <2>1. t.timer # None => t.timer.of = p
    BY <1>1 DEF TeamInv, TimerRight
  <2> QED
    BY <1>3, <2>1 DEF a, Desk!Unsaved, CallsAbout
<1>9. TimerRight(u)
  BY <1>1, <1>4, <1>7, <1>8 DEF TeamInv, TimerRight
<1>10. ShownRight(u)
  <2>1. t.mounts >= 1 /\ (p \notin a => DrawerRight(t))
    BY <1>1, <1>8 DEF TeamInv, ShownRight
  <2>2. p \notin a => CallsHere(u) = {}
    BY <1>4, <1>8, <2>1 DEF DrawerRight, CallsHere
  <2>3. p \notin a => DrawerRight(u)
    <3>1. MemberRight(t, p)
      BY <1>1, BesideSaves
    <3> QED
      BY <1>1, <1>4, <1>7, <1>8, <2>2, <3>1, TakenUp DEF f
  <2> QED
    BY <1>4, <2>1, <2>3 DEF ShownRight
<1> QED
  BY <1>2, <1>5, <1>6, <1>9, <1>10 DEF TeamInv

LEMMA RenderedKeeps ==
  ASSUME TeamInv(team), NEW t, Beside(t), Desk!CanMount(t)
  PROVE  TeamInv(Desk!Rendered(t))
<1>1. CASE ~Desk!Visible(t)
  BY <1>1, DrawerGoes
<1>2. CASE Desk!Visible(t) /\ ~Desk!Visible(team)
  BY <1>2, DrawerAppears DEF Desk!CanMount
<1>3. CASE Desk!Visible(t) /\ Desk!Visible(team)
  <2>1. CASE Desk!Same(t.notes[t.picked], team.notes[team.picked])
    <3>1. Desk!Rendered(t) = t
      BY <1>3, <2>1 DEF Desk!Rendered
    <3> QED
      BY <1>3, <3>1, DrawerStays
  <2> QED
    BY <1>3, <2>1, DrawerRefilled
<1> QED
  BY <1>1, <1>2, <1>3

(* Another period leaves the list of cycles and the count of picks alone.    *)
LEMMA ChangedKeeps ==
  ASSUME team \in Desk!TeamState, NEW p
  PROVE  /\ \A b : [Desk!Changed(p) EXCEPT !.listed = b]
                     = [Desk!Changed(p) EXCEPT !.listed = b, !.picks = team.picks]
         /\ [Desk!Changed(p) EXCEPT !.picks = @ + 1]
              = [Desk!Changed(p) EXCEPT !.listed = team.listed, !.picks = team.picks + 1]
<1> DEFINE l == team.loads + 1
           now == [team EXCEPT !.period = p, !.loads = l, !.loading = TRUE, !.failed = FALSE]
           t == Desk!Changed(p)
           D == {"period", "listed", "picks", "loads", "loading", "failed", "got", "reads",
                 "notes", "picked", "mounts", "box", "saved", "focused", "timer", "calls",
                 "count", "typed", "stale", "amiss", "table"}
<1>1. team = [x \in D |-> team[x]]
  BY DEF Desk!TeamState
<1> HIDE DEF l
<1>2. /\ now = [x \in D |-> now[x]]
      /\ now.picks = team.picks /\ now.listed = team.listed
  BY <1>1
<1> HIDE DEF now, D
<1>3. \/ t = now
      \/ t = [now EXCEPT !.reads = now.reads \cup {Desk!Asked(Desk!CycleOf(now))}]
  BY DEF Desk!Changed, now, l
<1> HIDE DEF t
<1>4. t = [x \in D |-> t[x]] /\ t.picks = team.picks /\ t.listed = team.listed
  BY <1>2, <1>3 DEF D
<1>5. \A b : [t EXCEPT !.listed = b] = [t EXCEPT !.listed = b, !.picks = team.picks]
  BY <1>4 DEF D
<1>6. [t EXCEPT !.picks = @ + 1]
        = [t EXCEPT !.listed = team.listed, !.picks = team.picks + 1]
  BY <1>4 DEF D
<1> QED
  BY <1>5, <1>6 DEF t

(* Another period: its overview and its notes are asked for.                 *)
LEMMA ChangedBeside ==
  ASSUME TeamInv(team), NEW p \in Desk!Periods, NEW b \in BOOLEAN, NEW i \in 0..MaxPicks,
         team.loads <= i + (IF b THEN 1 ELSE 0),
         NEW t, t = [Desk!Changed(p) EXCEPT !.listed = b, !.picks = i]
  PROVE  Beside(t)
<1> DEFINE c == IF p \in Kpis THEN p ELSE Unset
           q == Desk!Asked(c)
           rd == IF c = Desk!CycleOf(team) THEN team.reads ELSE team.reads \cup {q}
           l == team.loads + 1
           now == [team EXCEPT !.period = p, !.loads = l, !.loading = TRUE, !.failed = FALSE]
           u == [team EXCEPT !.period = p, !.loads = l, !.loading = TRUE, !.failed = FALSE,
                   !.reads = rd, !.listed = b, !.picks = i]
<1>1. team \in Desk!TeamState /\ TeamShape(team)
  BY DEF TeamInv, TeamShape
<1>2. team.loads \in Nat /\ MaxPicks \in Nat /\ i \in Nat /\ i <= MaxPicks
  BY <1>1, BoundsAssumption DEF Desk!TeamState
<1>3. l \in 0..(MaxPicks + 2) /\ l <= 1 + i + (IF b THEN 1 ELSE 0)
  BY <1>2
<1>4. q \in Desk!Reads /\ (q.found # None => \A m \in Members : About(q.found[m], m))
  <2>1. [m \in Members |-> Blank] \in [Members -> Desk!Texts]
    BY DEF Desk!Texts
  <2>2. c \in Kpis \cup {Unset}
    OBVIOUS
  <2> HIDE DEF c
  <2> QED
    BY <2>1, <2>2 DEF Desk!Asked, Desk!Reads, About
<1>5. Desk!CycleOf(now) = c
  BY <1>1 DEF Desk!CycleOf, Desk!TeamState
<1>6. t = u
  <2>1. Desk!Changed(p) = IF c = Desk!CycleOf(team) THEN now
                          ELSE [now EXCEPT !.reads = now.reads \cup {q}]
    BY <1>5 DEF Desk!Changed
  <2> HIDE DEF c, q, l
  <2>2. CASE c = Desk!CycleOf(team)
    <3>1. t = [now EXCEPT !.listed = b, !.picks = i]
      BY <2>1, <2>2
    <3>2. rd = team.reads
      BY <2>2
    <3> HIDE DEF rd
    <3> QED
      BY <1>1, <3>1, <3>2 DEF Desk!TeamState
  <2>3. CASE c # Desk!CycleOf(team)
    <3>1. rd = team.reads \cup {q} /\ now.reads = team.reads
      BY <1>1, <2>3 DEF Desk!TeamState
    <3>2. t = [[now EXCEPT !.reads = rd] EXCEPT !.listed = b, !.picks = i]
      BY <2>1, <2>3, <3>1
    <3> HIDE DEF rd
    <3> QED
      BY <1>1, <3>2 DEF Desk!TeamState
  <2> QED
    BY <2>2, <2>3
<1> HIDE DEF l, c, q
<1>7. /\ rd \in SUBSET Desk!Reads
      /\ \A r \in rd : r \in team.reads \/ r = q
  BY <1>1, <1>4 DEF Desk!TeamState
<1> HIDE DEF rd
<1>8. /\ u \in Desk!TeamState
      /\ u.period = p /\ u.listed = b /\ u.picks = i /\ u.loads = l /\ u.loading = TRUE
      /\ u.reads = rd /\ u.notes = team.notes /\ u.picked = team.picked
      /\ u.mounts = team.mounts /\ u.box = team.box /\ u.saved = team.saved
      /\ u.focused = team.focused /\ u.timer = team.timer /\ u.calls = team.calls
      /\ u.count = team.count /\ u.typed = team.typed /\ u.stale = team.stale
      /\ u.amiss = team.amiss /\ u.table = team.table
  <2>1. u \in Desk!TeamState
    BY <1>1, <1>3, <1>7 DEF Desk!TeamState
  <2>2. /\ u.period = p /\ u.listed = b /\ u.picks = i /\ u.loads = l /\ u.loading = TRUE
        /\ u.reads = rd /\ u.notes = team.notes /\ u.picked = team.picked
        /\ u.mounts = team.mounts /\ u.box = team.box
    BY <1>1 DEF Desk!TeamState
  <2>3. /\ u.saved = team.saved /\ u.focused = team.focused /\ u.timer = team.timer
        /\ u.calls = team.calls /\ u.count = team.count /\ u.typed = team.typed
        /\ u.stale = team.stale /\ u.amiss = team.amiss /\ u.table = team.table
    BY <1>1 DEF Desk!TeamState
  <2> HIDE DEF u
  <2> QED
    BY <2>1, <2>2, <2>3
<1> HIDE DEF u
<1>9. TeamShape(u)
  BY <1>1, <1>3, <1>8 DEF TeamShape
<1>10. ASSUME NEW m \in Members \ u.amiss PROVE ReadOwn(u, m)
  <2>1. ReadOwn(team, m)
    BY <1>8 DEF TeamInv, MemberRight
  <2> QED
    BY <1>4, <1>7, <1>8, <2>1 DEF ReadOwn
<1>11. ~Desk!Visible(u)
  BY <1>8 DEF Desk!Visible
<1> QED
  BY <1>6, <1>8, <1>9, <1>10, <1>11 DEF Beside

LEMMA PeriodsArriveKeeps ==
  ASSUME TeamInv(team), Desk!PeriodsArrive
  PROVE  TeamInv(team')
<1>1. team \in Desk!TeamState /\ TeamShape(team) /\ team.listed = FALSE
  BY DEF TeamInv, TeamShape, Desk!PeriodsArrive, Desk!TeamState
<1>2. team.loads \in Nat /\ team.picks \in 0..MaxPicks /\ team.loads <= 1 + team.picks
  BY <1>1 DEF TeamShape, Desk!TeamState
<1>3. ASSUME NEW p \in Kpis \cup {"quarter"},
             Desk!Renders([Desk!Changed(p) EXCEPT !.listed = TRUE])
      PROVE  TeamInv(team')
  <2> DEFINE t == [Desk!Changed(p) EXCEPT !.listed = TRUE]
  <2>1. t = [Desk!Changed(p) EXCEPT !.listed = TRUE, !.picks = team.picks]
    BY <1>1, ChangedKeeps
  <2>2. p \in Desk!Periods /\ team.loads <= team.picks + 1
    BY <1>2 DEF Desk!Periods
  <2> HIDE DEF t
  <2>3. Beside(t)
    BY <1>2, <2>1, <2>2, ChangedBeside
  <2> QED
    BY <1>3, <2>3, RenderedKeeps DEF Desk!Renders, t
<1>4. CASE team' = [team EXCEPT !.listed = TRUE]
  <2> DEFINE t == [team EXCEPT !.listed = TRUE]
  <2>1. /\ t \in Desk!TeamState
        /\ t.period = team.period /\ t.picks = team.picks /\ t.loads = team.loads
        /\ t.loading = team.loading /\ t.failed = team.failed /\ t.got = team.got
        /\ t.reads = team.reads /\ t.notes = team.notes /\ t.picked = team.picked
        /\ t.mounts = team.mounts /\ t.box = team.box /\ t.saved = team.saved
        /\ t.focused = team.focused /\ t.timer = team.timer /\ t.calls = team.calls
        /\ t.count = team.count /\ t.typed = team.typed /\ t.stale = team.stale
        /\ t.amiss = team.amiss /\ t.table = team.table /\ t.listed = TRUE
    BY <1>1 DEF Desk!TeamState
  <2> HIDE DEF t
  <2>2. TeamShape(t)
    BY <1>1, <1>2, <2>1 DEF TeamShape
  <2>3. Desk!Visible(t) = Desk!Visible(team) /\ Desk!CycleOf(t) = Desk!CycleOf(team)
    BY <2>1 DEF Desk!Visible, Desk!CycleOf
  <2>4. \A m \in Members \ t.amiss : ReadOwn(t, m)
    BY <2>1 DEF TeamInv, MemberRight, ReadOwn
  <2>5. Beside(t)
    BY <2>1, <2>2, <2>3, <2>4 DEF Beside
  <2> QED
    BY <1>4, <2>3, <2>5, DrawerStays, NoDrawerStays DEF t
<1> QED
  BY <1>3, <1>4 DEF Desk!PeriodsArrive

LEMMA PickPeriodKeeps ==
  ASSUME TeamInv(team), Desk!PickPeriod
  PROVE  TeamInv(team')
<1>1. team \in Desk!TeamState /\ TeamShape(team)
  BY DEF TeamInv, TeamShape
<1>2. PICK p \in Desk!Periods : Desk!Renders([Desk!Changed(p) EXCEPT !.picks = @ + 1])
  BY DEF Desk!PickPeriod, Desk!Periods
<1> DEFINE t == [Desk!Changed(p) EXCEPT !.picks = @ + 1]
           i == team.picks + 1
<1>3. /\ team.loads \in Nat /\ i \in 0..MaxPicks /\ team.listed \in BOOLEAN
      /\ team.loads <= i + (IF team.listed THEN 1 ELSE 0)
  BY <1>1, BoundsAssumption DEF Desk!PickPeriod, TeamShape, Desk!TeamState
<1>4. t = [Desk!Changed(p) EXCEPT !.listed = team.listed, !.picks = i]
  BY <1>1, ChangedKeeps
<1> HIDE DEF t, i
<1>5. Beside(t)
  BY <1>3, <1>4, ChangedBeside
<1> QED
  BY <1>2, <1>5, RenderedKeeps DEF Desk!Renders, t

(* The page of the same period, with its drawer as it was.                   *)
SamePeriod(t) ==
  /\ t \in Desk!TeamState
  /\ t.period = team.period /\ t.listed = team.listed /\ t.picks = team.picks
  /\ t.loads <= team.loads
  /\ t.calls = team.calls /\ t.timer = team.timer /\ t.typed = team.typed
  /\ t.table = team.table /\ t.mounts = team.mounts /\ t.count = team.count
  /\ t.box = team.box /\ t.saved = team.saved /\ t.focused = team.focused
  /\ t.stale = team.stale

LEMMA SameBeside ==
  ASSUME TeamInv(team), NEW t, SamePeriod(t), team.amiss \subseteq t.amiss,
         \A m \in Members \ t.amiss : ReadOwn(t, m),
         t.picked # team.picked =>
           \/ t.picked \in t.amiss /\ team.timer = None
           \/ ~Desk!Visible(team)
           \/ ~Desk!Visible(t)
  PROVE  Beside(t)
<1>1. TeamShape(t)
  <2>1. /\ TeamShape(team) /\ team.loads \in Int /\ t.loads \in Int
        /\ team.picks \in Int
    BY DEF TeamInv, TeamShape, Desk!TeamState, SamePeriod
  <2> QED
    BY <2>1 DEF TeamShape, SamePeriod
<1>2. Desk!CycleOf(t) = Desk!CycleOf(team)
  BY DEF Desk!CycleOf, SamePeriod
<1> QED
  BY <1>1, <1>2 DEF Beside, SamePeriod

LEMMA OverviewAnswersKeeps ==
  ASSUME TeamInv(team), Desk!OverviewAnswers
  PROVE  TeamInv(team')
<1>1. team \in Desk!TeamState
  BY DEF TeamInv, TeamShape
<1>2. PICK b \in BOOLEAN, e \in BOOLEAN :
        Desk!Renders([team EXCEPT !.loads = team.loads - 1, !.loading = FALSE,
                        !.got = b, !.failed = e])
  <2>1. CASE Desk!Renders([team EXCEPT !.loads = @ - 1, !.loading = FALSE, !.got = TRUE])
    <3>1. [team EXCEPT !.loads = @ - 1, !.loading = FALSE, !.got = TRUE]
            = [team EXCEPT !.loads = team.loads - 1, !.loading = FALSE, !.got = TRUE,
                 !.failed = team.failed]
      BY <1>1 DEF Desk!TeamState
    <3>2. team.failed \in BOOLEAN
      BY <1>1 DEF Desk!TeamState
    <3> QED
      BY <2>1, <3>1, <3>2
  <2>2. CASE Desk!Renders([team EXCEPT !.loads = @ - 1, !.loading = FALSE, !.failed = TRUE])
    <3>1. [team EXCEPT !.loads = @ - 1, !.loading = FALSE, !.failed = TRUE]
            = [team EXCEPT !.loads = team.loads - 1, !.loading = FALSE, !.got = team.got,
                 !.failed = TRUE]
      BY <1>1 DEF Desk!TeamState
    <3>2. team.got \in BOOLEAN
      BY <1>1 DEF Desk!TeamState
    <3> QED
      BY <2>2, <3>1, <3>2
  <2> QED
    BY <2>1, <2>2 DEF Desk!OverviewAnswers
<1> DEFINE l == team.loads - 1
           t == [team EXCEPT !.loads = l, !.loading = FALSE, !.got = b, !.failed = e]
<1>3. l \in 0..(MaxPicks + 2) /\ l <= team.loads
  BY <1>1, BoundsAssumption DEF Desk!OverviewAnswers, Desk!TeamState
<1> HIDE DEF l
<1>4. /\ SamePeriod(t) /\ t.reads = team.reads /\ t.notes = team.notes
      /\ t.picked = team.picked /\ t.amiss = team.amiss
  <2>1. t \in Desk!TeamState
    BY <1>1, <1>3 DEF Desk!TeamState
  <2>2. /\ t.period = team.period /\ t.listed = team.listed /\ t.picks = team.picks
        /\ t.loads = l /\ t.calls = team.calls /\ t.timer = team.timer
        /\ t.typed = team.typed /\ t.table = team.table /\ t.mounts = team.mounts
        /\ t.count = team.count
    BY <1>1 DEF Desk!TeamState
  <2>3. /\ t.box = team.box /\ t.saved = team.saved /\ t.focused = team.focused
        /\ t.stale = team.stale /\ t.reads = team.reads /\ t.notes = team.notes
        /\ t.picked = team.picked /\ t.amiss = team.amiss
    BY <1>1 DEF Desk!TeamState
  <2> HIDE DEF t
  <2> QED
    BY <1>3, <2>1, <2>2, <2>3 DEF SamePeriod
<1> HIDE DEF t
<1>5. Beside(t)
  <2>1. \A m \in Members \ t.amiss : ReadOwn(t, m)
    BY <1>4 DEF TeamInv, MemberRight, ReadOwn
  <2> QED
    BY <1>4, <2>1, SameBeside
<1> QED
  BY <1>2, <1>5, RenderedKeeps DEF Desk!Renders, t, l

(* Notes that were read, or no longer wait to be, change nothing else.       *)
LEMMA ReadsKeep ==
  ASSUME TeamInv(team), NEW rd \in SUBSET Desk!Reads,
         \A r \in rd : r \notin team.reads /\ r.found # None =>
           \A m \in Members \ team.amiss : About(r.found[m], m),
         team' = [team EXCEPT !.reads = rd]
  PROVE  TeamInv(team')
<1> DEFINE t == [team EXCEPT !.reads = rd]
<1>1. team \in Desk!TeamState
  BY DEF TeamInv, TeamShape
<1>2. /\ SamePeriod(t) /\ t.reads = rd /\ t.notes = team.notes /\ t.picked = team.picked
      /\ t.amiss = team.amiss
      /\ t.loading = team.loading /\ t.failed = team.failed /\ t.got = team.got
  <2>1. team.loads \in Int
    BY <1>1 DEF Desk!TeamState
  <2> QED
    BY <1>1, <2>1 DEF Desk!TeamState, SamePeriod
<1> HIDE DEF t
<1>3. \A m \in Members \ t.amiss : ReadOwn(t, m)
  BY <1>2 DEF TeamInv, MemberRight, ReadOwn
<1>4. Beside(t) /\ Desk!Visible(t) = Desk!Visible(team)
  BY <1>2, <1>3, SameBeside DEF Desk!Visible
<1> QED
  BY <1>4, DrawerStays, NoDrawerStays DEF t

LEMMA NotesReadKeeps ==
  ASSUME TeamInv(team), Desk!NotesRead
  PROVE  TeamInv(team')
<1>1. team \in Desk!TeamState
  BY DEF TeamInv, TeamShape
<1>2. PICK r \in team.reads :
        /\ r.found = None
        /\ team' = [team EXCEPT !.reads = (team.reads \ {r})
                      \cup {[r EXCEPT !.found = Desk!NotesOf(team.table, r.cycle)]}]
  BY DEF Desk!NotesRead
<1> DEFINE n == Desk!NotesOf(team.table, r.cycle)
           q == [r EXCEPT !.found = n]
           rd == (team.reads \ {r}) \cup {q}
<1>3. r \in Desk!Reads /\ team.reads \subseteq Desk!Reads
  BY <1>1 DEF Desk!TeamState
<1>4. r.cycle \in Kpis \cup {Unset} /\ team.table.kept \in [Members \X Kpis -> Desk!Texts]
  BY <1>1, <1>3 DEF Desk!Reads, Desk!TeamState, Desk!Table
<1>5. n \in [Members -> Desk!Texts]
  BY <1>4 DEF Desk!NotesOf, Desk!Texts
<1>6. \A m \in Members \ team.amiss : About(n[m], m)
  <2> TAKE m \in Members \ team.amiss
  <2>1. \A k \in Kpis : About(team.table.kept[<<m, k>>], m)
    BY DEF TeamInv, MemberRight, SavedOwn
  <2> QED
    BY <1>4, <2>1 DEF Desk!NotesOf, About
<1> HIDE DEF n
<1>7. q \in Desk!Reads /\ q.found = n
  BY <1>3, <1>5 DEF Desk!Reads
<1> HIDE DEF q
<1>8. rd \in SUBSET Desk!Reads /\ \A x \in rd : x \in team.reads \/ x = q
  BY <1>3, <1>7
<1>9. team' = [team EXCEPT !.reads = rd]
  BY <1>2 DEF q, n
<1> HIDE DEF rd
<1> QED
  BY <1>6, <1>7, <1>8, <1>9, ReadsKeep

LEMMA NotesAnswerKeeps ==
  ASSUME TeamInv(team), Desk!NotesAnswer
  PROVE  TeamInv(team')
<1>1. team \in Desk!TeamState
  BY DEF TeamInv, TeamShape
<1>2. PICK r \in team.reads :
        \/ /\ r.found # None
           /\ Desk!Renders([[team EXCEPT !.reads = @ \ {r}] EXCEPT !.notes = r.found])
        \/ team' = [team EXCEPT !.reads = @ \ {r}]
  BY DEF Desk!NotesAnswer
<1> DEFINE rd == team.reads \ {r}
<1>3. rd \in SUBSET Desk!Reads /\ rd \subseteq team.reads /\ r \in Desk!Reads
  BY <1>1 DEF Desk!TeamState
<1>4. CASE team' = [team EXCEPT !.reads = rd]
  <2> HIDE DEF rd
  <2> QED
    BY <1>3, <1>4, ReadsKeep
<1>5. CASE /\ r.found # None
           /\ Desk!Renders([[team EXCEPT !.reads = rd] EXCEPT !.notes = r.found])
  <2> DEFINE n == r.found
             t == [team EXCEPT !.reads = rd, !.notes = n]
  <2>1. n \in [Members -> Desk!Texts]
    BY <1>3, <1>5 DEF Desk!Reads
  <2>2. \A m \in Members \ team.amiss : About(n[m], m)
    BY <1>2, <1>5 DEF TeamInv, MemberRight, ReadOwn
  <2> HIDE DEF n, rd
  <2>3. [[team EXCEPT !.reads = rd] EXCEPT !.notes = n] = t
    BY <1>1 DEF Desk!TeamState
  <2>4. /\ SamePeriod(t) /\ t.reads = rd /\ t.notes = n /\ t.picked = team.picked
        /\ t.amiss = team.amiss
    <3>1. team.loads \in Int
      BY <1>1 DEF Desk!TeamState
    <3>2. t \in Desk!TeamState
      BY <1>1, <1>3, <2>1 DEF Desk!TeamState
    <3> QED
      BY <1>1, <3>1, <3>2 DEF Desk!TeamState, SamePeriod
  <2> HIDE DEF t
  <2>5. \A m \in Members \ t.amiss : ReadOwn(t, m)
    BY <1>3, <2>2, <2>4 DEF TeamInv, MemberRight, ReadOwn
  <2>6. Beside(t)
    BY <2>4, <2>5, SameBeside
  <2> QED
    BY <1>5, <2>3, <2>6, RenderedKeeps DEF Desk!Renders, n
<1> QED
  BY <1>2, <1>4, <1>5

LEMMA PickMemberKeeps ==
  ASSUME TeamInv(team), Desk!PickMember
  PROVE  TeamInv(team')
<1>1. team \in Desk!TeamState
  BY DEF TeamInv, TeamShape
<1>2. PICK m \in Members :
        Desk!Renders([team EXCEPT !.picked = m,
                        !.amiss = IF team.picked = None THEN team.amiss ELSE team.amiss \cup {m}])
  BY DEF Desk!PickMember
<1> DEFINE a == IF team.picked = None THEN team.amiss ELSE team.amiss \cup {m}
           t == [team EXCEPT !.picked = m, !.amiss = a]
<1>3. a \in SUBSET Members /\ team.amiss \subseteq a /\ (team.picked # None => m \in a)
  BY <1>1 DEF Desk!TeamState
<1>4. team.timer = None
  BY DEF TeamInv, TimerRight, Desk!PickMember
<1> HIDE DEF a
<1>5. /\ SamePeriod(t) /\ t.reads = team.reads /\ t.notes = team.notes /\ t.picked = m
      /\ t.amiss = a
  <2>1. team.loads \in Int
    BY <1>1 DEF Desk!TeamState
  <2>2. t \in Desk!TeamState
    BY <1>1, <1>3 DEF Desk!TeamState
  <2> QED
    BY <1>1, <2>1, <2>2 DEF Desk!TeamState, SamePeriod
<1> HIDE DEF t
<1>6. \A i \in Members \ t.amiss : ReadOwn(t, i)
  BY <1>3, <1>5 DEF TeamInv, MemberRight, ReadOwn
<1>7. Beside(t)
  BY <1>3, <1>4, <1>5, <1>6, SameBeside DEF Desk!Visible
<1> QED
  BY <1>2, <1>7, RenderedKeeps DEF Desk!Renders, t, a

LEMMA CloseDrawerKeeps ==
  ASSUME TeamInv(team), Desk!CloseDrawer
  PROVE  TeamInv(team')
<1> DEFINE t == [team EXCEPT !.picked = None]
<1>1. team \in Desk!TeamState
  BY DEF TeamInv, TeamShape
<1>2. /\ SamePeriod(t) /\ t.reads = team.reads /\ t.notes = team.notes /\ t.picked = None
      /\ t.amiss = team.amiss
  <2>1. team.loads \in Int
    BY <1>1 DEF Desk!TeamState
  <2> QED
    BY <1>1, <2>1 DEF Desk!TeamState, SamePeriod
<1> HIDE DEF t
<1>3. Beside(t)
  <2>1. \A m \in Members \ t.amiss : ReadOwn(t, m)
    BY <1>2 DEF TeamInv, MemberRight, ReadOwn
  <2> QED
    BY <1>2, <2>1, SameBeside DEF Desk!Visible
<1> QED
  BY <1>3, RenderedKeeps DEF Desk!CloseDrawer, Desk!Renders, t

(* A save waits for the member on the page only.                             *)
LEMMA TimerOfPicked ==
  ASSUME TeamInv(team), NEW m \in Members, m # team.picked
  PROVE  /\ team.timer # None => team.timer.of # m
         /\ Kept(team, m) => \/ team.typed[m] = None \/ team.typed[m].text = Blank
                             \/ \E c \in CallsAbout(team, m) : c.save = team.typed[m]
                             \/ Desk!Stored(team.table, m, team.typed[m].cycle, team.typed[m].text)
<1>1. team.timer # None => team.timer.of # m
  BY DEF TeamInv, TimerRight
<1>2. team.typed[m] # None => team.typed[m].of = m
  BY DEF TeamInv, MemberRight, OwnTyped
<1> QED
  BY <1>1, <1>2 DEF Kept

LEMMA TeamTypeKeeps ==
  ASSUME TeamInv(team), Desk!Type
  PROVE  TeamInv(team')
<1> DEFINE p == team.picked
           k == Desk!CycleOf(team)
<1>1. team \in Desk!TeamState /\ TeamShape(team) /\ Desk!Visible(team) /\ p \in Members
  BY DEF TeamInv, TeamShape, Desk!TeamState, Desk!Visible, Desk!Type
<1>2. PICK x \in [of : {p}, word : Words] \cup {Blank} :
        team' = [team EXCEPT !.box = x, !.focused = TRUE,
                   !.timer = [of |-> p, cycle |-> k, text |-> x], !.count = @ + 1,
                   !.typed[p] = [of |-> p, cycle |-> k, text |-> x],
                   !.amiss = IF team.stale THEN @ \cup {p} ELSE @]
  BY Zenon DEF Desk!Type
<1> DEFINE s == [of |-> p, cycle |-> k, text |-> x]
           y == [team.typed EXCEPT ![p] = s]
           a == IF team.stale THEN team.amiss \cup {p} ELSE team.amiss
           n == team.count + 1
           u == [team EXCEPT !.box = x, !.focused = TRUE, !.count = n, !.timer = s,
                   !.typed = y, !.amiss = a]
<1>3. team' = u
  BY <1>1, <1>2 DEF Desk!TeamState
<1>4. k \in Kpis \cup {Unset} /\ x \in Desk!Texts /\ About(x, p)
  BY <1>1 DEF Desk!CycleOf, Desk!Texts, About
<1>5. s \in Desk!Saves /\ s # None /\ s.of = p /\ s.cycle = k /\ s.text = x
  <2>1. s \in Desk!Saves /\ s.of = p /\ s.cycle = k /\ s.text = x
    BY <1>1, <1>4 DEF Desk!Saves
  <2> HIDE DEF s
  <2> QED
    BY <2>1, NoneAssumption DEF Desk!Saves, Desk!Texts
<1> HIDE DEF s, k
<1>6. /\ y \in [Members -> Desk!Saves \cup {None}] /\ y[p] = s
      /\ \A m \in Members \ {p} : y[m] = team.typed[m]
  BY <1>1, <1>5 DEF Desk!TeamState
<1>7. a \in SUBSET Members /\ team.amiss \subseteq a /\ (p \notin a => ~team.stale)
  BY <1>1 DEF Desk!TeamState
<1>8. n \in 0..MaxMoves /\ team.mounts + n <= MaxMoves
  BY <1>1, BoundsAssumption DEF TeamShape, Desk!TeamState, Desk!Type, Desk!Moves
<1> HIDE DEF y, a, n
<1>9. u \in Desk!TeamState
  <2>1. s \in Desk!Saves \cup {None}
    BY <1>5
  <2> QED
    BY <1>1, <1>4, <1>6, <1>7, <1>8, <2>1 DEF Desk!TeamState
<1>10. /\ u.period = team.period /\ u.listed = team.listed /\ u.picks = team.picks
       /\ u.loads = team.loads /\ u.loading = team.loading /\ u.failed = team.failed
       /\ u.got = team.got /\ u.reads = team.reads /\ u.notes = team.notes /\ u.picked = p
       /\ u.mounts = team.mounts /\ u.box = x /\ u.saved = team.saved /\ u.focused = TRUE
       /\ u.timer = s /\ u.calls = team.calls /\ u.count = n /\ u.typed = y
       /\ u.stale = team.stale /\ u.amiss = a /\ u.table = team.table
  BY <1>1 DEF Desk!TeamState
<1> HIDE DEF u
<1>11. TeamShape(u)
  BY <1>1, <1>8, <1>9, <1>10 DEF TeamShape
<1>12. Desk!Visible(u) /\ Desk!CycleOf(u) = k
  BY <1>1, <1>10 DEF Desk!Visible, Desk!CycleOf, k
<1>13. TimerRight(u)
  BY <1>5, <1>6, <1>7, <1>10, <1>12 DEF TimerRight
<1>14. ShownRight(u)
  <2>1. team.mounts >= 1 /\ (p \notin a => DrawerRight(team))
    BY <1>1, <1>7 DEF TeamInv, ShownRight
  <2>2. /\ CallsHere(u) = CallsHere(team) /\ CallsAbout(u, p) = CallsAbout(team, p)
        /\ Believed(team) => Believed(u)
    BY <1>10, <1>12 DEF CallsHere, CallsAbout, Believed, k
  <2>3. DrawerRight(team) => DrawerRight(u)
    BY <1>4, <1>5, <1>10, <1>12, <2>2 DEF DrawerRight, k
  <2> QED
    BY <1>10, <2>1, <2>3 DEF ShownRight
<1>15. ASSUME NEW m \in Members PROVE MemberRight(u, m)
  <2>1. MemberRight(team, m)
    BY DEF TeamInv
  <2>2. CallsAbout(u, m) = CallsAbout(team, m)
    BY <1>10 DEF CallsAbout
  <2>3. m \notin a => ReadOwn(u, m)
    BY <1>7, <1>10, <2>1 DEF MemberRight, ReadOwn
  <2>4. CASE m = p
    BY <1>4, <1>5, <1>6, <1>7, <1>10, <2>1, <2>2, <2>3, <2>4
       DEF MemberRight, OwnTyped, SavedOwn, Kept
  <2>5. CASE m # p
    <3>1. m \notin a => SavedOwn(u, m)
      BY <1>6, <1>7, <1>10, <2>1, <2>2, <2>5, TimerOfPicked DEF MemberRight, SavedOwn, Kept
    <3> QED
      BY <1>6, <1>10, <2>1, <2>3, <2>5, <3>1 DEF MemberRight, OwnTyped
  <2> QED
    BY <2>4, <2>5
<1> QED
  BY <1>3, <1>11, <1>13, <1>14, <1>15 DEF TeamInv

(* Texts about one member that read the same are the same.                   *)
LEMMA OwnSame ==
  ASSUME NEW m, NEW x \in Desk!Texts, NEW y \in Desk!Texts, About(x, m), About(y, m),
         Desk!Same(x, y)
  PROVE  x = y
BY DEF Desk!Same, Desk!Texts, About

(* The drawer saves what is in its box, after a pause or on leaving it.      *)
LEMMA SaveNoteKeeps ==
  ASSUME TeamInv(team), Desk!Visible(team), NEW s \in Desk!Saves, NEW f \in BOOLEAN,
         s.of = team.picked, s.cycle = Desk!CycleOf(team),
         team.picked \notin team.amiss => s.text = team.box
  PROVE  TeamInv(Desk!SaveNote(s, [team EXCEPT !.timer = None, !.focused = f]))
<1> DEFINE p == team.picked
           k == Desk!CycleOf(team)
           c0 == [save |-> s, mount |-> team.mounts]
           other == {c \in team.calls : c.save.of = s.of /\ ~Desk!Same(c.save.text, s.text)}
           a == IF other = {} THEN team.amiss ELSE team.amiss \cup {p}
           skip == Desk!Same(s.text, team.saved)
           e == IF skip THEN team.calls ELSE team.calls \cup {c0}
           t == [team EXCEPT !.timer = None, !.focused = f]
           u == [team EXCEPT !.timer = None, !.focused = f, !.amiss = a, !.calls = e]
<1>1. team \in Desk!TeamState /\ TeamShape(team) /\ p \in Members
  BY DEF TeamInv, TeamShape, Desk!TeamState, Desk!Visible
<1>2. team.mounts \in 1..MaxMoves
  <2>1. team.mounts >= 1
    BY DEF TeamInv, ShownRight
  <2> QED
    BY <1>1, <2>1, BoundsAssumption DEF Desk!TeamState
<1>3. Desk!SaveNote(s, t) = u
  <2>1. t.calls = team.calls /\ t.saved = team.saved /\ t.mounts = team.mounts
        /\ t.amiss = team.amiss
    BY <1>1 DEF Desk!TeamState
  <2>2. Desk!SaveNote(s, t)
          = IF skip THEN (IF other = {} THEN t ELSE [t EXCEPT !.amiss = @ \cup {s.of}])
            ELSE [(IF other = {} THEN t ELSE [t EXCEPT !.amiss = @ \cup {s.of}])
                    EXCEPT !.calls = @ \cup {c0}]
    BY <2>1 DEF Desk!SaveNote
  <2> HIDE DEF skip, other, c0
  <2> QED
    BY <1>1, <2>2, ZenonT(60) DEF Desk!TeamState
<1>4. a \in SUBSET Members /\ team.amiss \subseteq a /\ (p \notin a => other = {})
  BY <1>1 DEF Desk!TeamState
<1>5. /\ c0 \in [save : Desk!Saves, mount : 1..MaxMoves]
      /\ c0.save = s /\ c0.mount = team.mounts
  BY <1>2
<1> HIDE DEF c0
<1>6. /\ e \in SUBSET [save : Desk!Saves, mount : 1..MaxMoves]
      /\ team.calls \subseteq e /\ \A c \in e : c \in team.calls \/ (c = c0 /\ ~skip)
      /\ ~skip => c0 \in e
  BY <1>1, <1>5 DEF Desk!TeamState
<1> HIDE DEF a, e
<1>7. u \in Desk!TeamState
  BY <1>1, <1>4, <1>6 DEF Desk!TeamState
<1>8. /\ u.period = team.period /\ u.listed = team.listed /\ u.picks = team.picks
      /\ u.loads = team.loads /\ u.loading = team.loading /\ u.failed = team.failed
      /\ u.got = team.got /\ u.reads = team.reads /\ u.notes = team.notes /\ u.picked = p
      /\ u.mounts = team.mounts /\ u.box = team.box /\ u.saved = team.saved
      /\ u.timer = None /\ u.calls = e /\ u.count = team.count /\ u.typed = team.typed
      /\ u.stale = team.stale /\ u.amiss = a /\ u.table = team.table
  BY <1>1 DEF Desk!TeamState
<1> HIDE DEF u
<1>9. TeamShape(u)
  BY <1>1, <1>5, <1>6, <1>7, <1>8, <1>2 DEF TeamShape
<1>10. Desk!Visible(u) /\ Desk!CycleOf(u) = k
  BY <1>8 DEF Desk!Visible, Desk!CycleOf
<1>11. TimerRight(u)
  BY <1>8 DEF TimerRight
\* What is known of the member when nothing goes amiss here.
<1>12. ASSUME p \notin a
       PROVE  /\ p \notin team.amiss /\ DrawerRight(team) /\ SavedOwn(team, p)
              /\ s.text = team.box /\ About(s.text, p)
              /\ skip => s.text = team.saved
              /\ ~team.stale => \A c \in CallsAbout(team, p) : c = c0
              /\ team.stale => skip /\ team.timer = None
              /\ team.timer # None => team.timer = s /\ team.typed[p] = s
              /\ ~skip /\ team.timer = None => c0 \in team.calls
  <2>1. p \notin team.amiss /\ other = {}
    BY <1>4, <1>12
  <2>2. DrawerRight(team) /\ SavedOwn(team, p)
    BY <1>1, <2>1 DEF TeamInv, ShownRight, MemberRight
  <2>3. s.text = team.box /\ About(s.text, p) /\ About(team.saved, p)
    BY <2>1, <2>2 DEF DrawerRight
  <2>4. s.text \in Desk!Texts /\ team.saved \in Desk!Texts
    BY <1>1 DEF Desk!Saves, Desk!TeamState
  <2>5. skip => s.text = team.saved
    BY <2>3, <2>4, OwnSame
  <2>6. ASSUME NEW c \in CallsAbout(team, p), ~team.stale PROVE c = c0
    <3>1. c.mount = team.mounts /\ c.save.cycle = k /\ c.save.of = p /\ About(c.save.text, p)
      BY <2>2, <2>6 DEF DrawerRight, SavedOwn, CallsHere, CallsAbout
    <3>2. Desk!Same(c.save.text, s.text)
      BY <2>1, <2>6 DEF CallsAbout
    <3>3. c \in [save : Desk!Saves, mount : 1..MaxMoves]
      BY <1>1 DEF Desk!TeamState, CallsAbout
    <3>4. c.save \in Desk!Saves /\ c.save.text \in Desk!Texts
      BY <3>3 DEF Desk!Saves
    <3>5. c.save.text = s.text
      BY <2>3, <2>4, <3>1, <3>2, <3>4, OwnSame
    <3>6. c.save = s
      BY <3>1, <3>4, <3>5 DEF Desk!Saves
    <3> QED
      BY <1>5, <3>1, <3>3, <3>6
  <2>7. team.timer # None => team.timer = s /\ team.typed[p] = s /\ ~team.stale
    <3> SUFFICES ASSUME team.timer # None
                 PROVE  team.timer = s /\ team.typed[p] = s /\ ~team.stale
      OBVIOUS
    <3>1. /\ team.timer.of = p /\ team.timer.cycle = k /\ team.timer = team.typed[p]
          /\ team.timer.text = team.box /\ ~team.stale
      BY <2>1 DEF TeamInv, TimerRight
    <3>2. team.timer \in Desk!Saves
      BY <1>1 DEF Desk!TeamState
    <3> QED
      BY <2>3, <3>1, <3>2 DEF Desk!Saves
  <2>8. team.stale => skip
    BY <2>2, <2>3, <2>7 DEF DrawerRight
  <2>9. ~skip /\ team.timer = None => c0 \in team.calls
    <3> SUFFICES ASSUME ~skip, team.timer = None PROVE c0 \in team.calls
      OBVIOUS
    <3>1. PICK c \in CallsHere(team) : TRUE
      BY <2>2, <2>3 DEF DrawerRight
    <3>2. c \in CallsAbout(team, p) /\ c \in team.calls
      BY <2>2 DEF DrawerRight, CallsHere
    <3> QED
      BY <2>6, <2>8, <3>2
  <2> HIDE DEF skip
  <2> QED
    BY <2>1, <2>2, <2>3, <2>5, <2>6, <2>7, <2>8, <2>9
<1> HIDE DEF skip, other
<1>13. p \notin a =>
         /\ team.stale => e = team.calls
         /\ ~team.stale => \A c \in CallsAbout(u, p) : c = c0
         /\ CallsHere(u) \subseteq CallsAbout(u, p)
         /\ \A c \in CallsAbout(u, p) : c \in CallsAbout(team, p) \/ (c = c0 /\ ~skip)
  <2> SUFFICES ASSUME p \notin a
               PROVE  /\ team.stale => e = team.calls
                      /\ ~team.stale => \A c \in CallsAbout(u, p) : c = c0
                      /\ CallsHere(u) \subseteq CallsAbout(u, p)
                      /\ \A c \in CallsAbout(u, p) : c \in CallsAbout(team, p) \/ (c = c0 /\ ~skip)
    OBVIOUS
  <2>1. team.stale => e = team.calls
    BY <1>6, <1>12
  <2>2. \A c \in CallsAbout(u, p) : c \in CallsAbout(team, p) \/ (c = c0 /\ ~skip)
    BY <1>6, <1>8 DEF CallsAbout
  <2>3. CallsHere(u) \subseteq CallsAbout(u, p)
    BY <1>5, <1>6, <1>8, <1>12 DEF CallsAbout, CallsHere, DrawerRight
  <2> QED
    BY <1>12, <2>1, <2>2, <2>3
<1>14. ShownRight(u)
  <2>1. team.mounts >= 1
    BY <1>2
  <2>2. ASSUME p \notin a PROVE DrawerRight(u)
    <3>1. About(u.box, p) /\ About(u.saved, p)
      BY <1>8, <1>12, <2>2 DEF DrawerRight
    <3>2. team.stale => CallsHere(u) = {}
      BY <1>8, <1>12, <1>13, <2>2 DEF DrawerRight, CallsHere
    <3>3. ~team.stale => Believed(u)
      BY <1>8, <1>10, <1>12, <2>2 DEF DrawerRight, Believed
    <3>4. ~team.stale => /\ CallsAbout(u, p) \subseteq CallsHere(u)
                         /\ \A c \in CallsAbout(u, p) : c.save.cycle = k /\ c.save.text = team.box
      BY <1>5, <1>8, <1>12, <1>13, <2>2 DEF CallsHere, CallsAbout
    <3>5. Desk!Same(u.box, u.saved) \/ CallsHere(u) # {}
      <4>1. CASE skip
        BY <1>8, <1>12, <2>2, <4>1 DEF Desk!Same
      <4>2. CASE ~skip
        BY <1>5, <1>6, <1>8, <4>2 DEF CallsHere
      <4> QED
        BY <4>1, <4>2
    <3>6. \A c \in CallsHere(u) : c.save.text = u.box
      BY <1>8, <1>13, <2>2, <3>2, <3>4
    <3> QED
      BY <1>8, <1>10, <1>13, <2>2, <3>1, <3>2, <3>3, <3>4, <3>5, <3>6 DEF DrawerRight
  <2> QED
    BY <1>8, <2>1, <2>2 DEF ShownRight
<1>15. ASSUME NEW m \in Members PROVE MemberRight(u, m)
  <2>1. MemberRight(team, m)
    BY DEF TeamInv
  <2>2. OwnTyped(u, m) /\ (m \notin a => ReadOwn(u, m))
    BY <1>4, <1>8, <2>1 DEF MemberRight, OwnTyped, ReadOwn
  <2>3. SUFFICES ASSUME m \notin a PROVE SavedOwn(u, m)
    BY <1>8, <2>2 DEF MemberRight
  <2>4. SavedOwn(team, m)
    BY <1>4, <2>1, <2>3 DEF MemberRight
  <2>5. CASE m # p
    <3>1. CallsAbout(u, m) = CallsAbout(team, m)
      BY <1>5, <1>6, <1>8, <2>5 DEF CallsAbout
    <3> QED
      BY <1>8, <2>4, <2>5, <3>1, TimerOfPicked DEF SavedOwn, Kept
  <2>6. CASE m = p
    <3>1. \A c \in CallsAbout(u, p) : c \in CallsAbout(team, p) \/ (c = c0 /\ ~skip)
      BY <1>13, <2>3, <2>6
    <3>2. /\ \A c \in CallsAbout(u, p) : About(c.save.text, p)
          /\ \A c, d \in CallsAbout(u, p) : c = d
      <4>1. CASE team.stale
        BY <1>8, <1>13, <2>3, <2>4, <2>6, <4>1 DEF SavedOwn, CallsAbout
      <4>2. CASE ~team.stale
        BY <1>5, <1>12, <1>13, <2>3, <2>6, <4>2
      <4> QED
        BY <4>1, <4>2
    <3>3. CASE team.timer = None
      <4>1. e = team.calls
        BY <1>6, <1>12, <2>3, <2>6, <3>3
      <4> QED
        BY <1>8, <2>4, <2>6, <3>3, <4>1 DEF SavedOwn, Kept, CallsAbout
    <3>4. CASE team.timer # None
      <4>1. /\ ~team.stale /\ team.typed[p] = s /\ \A c \in CallsAbout(u, p) : c = c0
        BY <1>12, <1>13, <2>3, <2>6, <3>4
      <4>2. CASE skip
        <5>1. s.text = team.saved /\ Believed(team)
          BY <1>12, <2>3, <2>6, <4>1, <4>2 DEF DrawerRight
        <5>2. Kept(u, p)
          BY <1>8, <4>1, <5>1 DEF Believed, Kept
        <5> QED
          BY <1>5, <1>8, <2>4, <2>6, <3>2, <4>1, <5>2 DEF SavedOwn
      <4>3. CASE ~skip
        <5>1. c0 \in CallsAbout(u, p)
          BY <1>5, <1>6, <1>8, <4>3 DEF CallsAbout
        <5> QED
          BY <1>5, <1>8, <2>4, <2>6, <3>2, <4>1, <5>1 DEF SavedOwn, Kept
      <4> QED
        BY <4>2, <4>3
    <3> QED
      BY <3>3, <3>4
  <2> QED
    BY <2>5, <2>6
<1> QED
  BY <1>3, <1>9, <1>11, <1>14, <1>15 DEF TeamInv

LEMMA TeamTimerKeeps ==
  ASSUME TeamInv(team), Desk!TimerFires
  PROVE  TeamInv(team')
<1>1. team \in Desk!TeamState /\ team.timer # None
  BY DEF TeamInv, TeamShape, Desk!TimerFires
<1>2. team.timer \in Desk!Saves /\ team.focused \in BOOLEAN
  BY <1>1 DEF Desk!TeamState
<1>3. /\ Desk!Visible(team) /\ team.timer.of = team.picked
      /\ team.timer.cycle = Desk!CycleOf(team)
      /\ team.picked \notin team.amiss => team.timer.text = team.box
  BY <1>1 DEF TeamInv, TimerRight
<1>4. [team EXCEPT !.timer = None] = [team EXCEPT !.timer = None, !.focused = team.focused]
  BY <1>1 DEF Desk!TeamState
<1>5. team' = Desk!SaveNote(team.timer, [team EXCEPT !.timer = None])
  BY DEF Desk!TimerFires
<1> QED
  BY <1>2, <1>3, <1>4, <1>5, SaveNoteKeeps

LEMMA BlurKeeps ==
  ASSUME TeamInv(team), Desk!Blur
  PROVE  TeamInv(team')
<1> DEFINE s == [of |-> team.picked, cycle |-> Desk!CycleOf(team), text |-> team.box]
<1>1. team \in Desk!TeamState /\ Desk!Visible(team)
  BY DEF TeamInv, TeamShape, Desk!Blur
<1>2. s \in Desk!Saves /\ s.of = team.picked /\ s.cycle = Desk!CycleOf(team) /\ s.text = team.box
  <2>1. team.picked \in Members /\ team.box \in Desk!Texts
    BY <1>1 DEF Desk!TeamState, Desk!Visible
  <2>2. Desk!CycleOf(team) \in Kpis \cup {Unset}
    BY DEF Desk!CycleOf
  <2> QED
    BY <2>1, <2>2 DEF Desk!Saves
<1> HIDE DEF s
<1>3. team' = Desk!SaveNote(s, [team EXCEPT !.timer = None, !.focused = FALSE])
  BY DEF Desk!Blur, Desk!Blurred, s
<1> QED
  BY <1>1, <1>2, <1>3, SaveNoteKeeps

(* The same store of the notes under both pages.                             *)
LEMMA PutStores ==
  ASSUME NEW table \in Desk!Table, NEW s \in Desk!Saves
  PROVE  LET u == Desk!Upsert(table, s.of, s.cycle, s.text) IN
         /\ u \in Desk!Table
         /\ Desk!Stored(u, s.of, s.cycle, s.text)
         /\ \A m \in Members, k \in Kpis : u.kept[<<m, k>>] \in {s.text, table.kept[<<m, k>>]}
         /\ \A m \in Members \ {s.of}, k \in Kpis : u.kept[<<m, k>>] = table.kept[<<m, k>>]
         /\ \A m \in Members \ {s.of}, k \in Kpis \cup {Unset} : \A x :
              Desk!Stored(table, m, k, x) => Desk!Stored(u, m, k, x)
<1> DEFINE u == Desk!Upsert(table, s.of, s.cycle, s.text)
<1>1. s.of \in Members /\ s.cycle \in Kpis \cup {Unset} /\ s.text \in Desk!Texts
  BY DEF Desk!Saves
<1>2. /\ table.kept \in [Members \X Kpis -> Desk!Texts]
      /\ table.loose \in SUBSET (Members \X Desk!Texts)
  BY DEF Desk!Table
<1>3. CASE s.cycle = Unset
  <2> DEFINE l == table.loose \cup {<<s.of, s.text>>}
  <2>1. u = [table EXCEPT !.loose = l]
    BY <1>3 DEF Desk!Upsert, Desk!Table
  <2>2. l \in SUBSET (Members \X Desk!Texts)
    BY <1>1, <1>2
  <2>3. u \in Desk!Table /\ u.kept = table.kept /\ u.loose = l
    <3> HIDE DEF l, u
    <3> QED
      BY <1>2, <2>1, <2>2 DEF Desk!Table
  <2> HIDE DEF u
  <2> QED
    BY <1>3, <2>3 DEF Desk!Stored, u
<1>4. CASE s.cycle # Unset
  <2> DEFINE q == <<s.of, s.cycle>>
             k == [table.kept EXCEPT ![q] = s.text]
  <2>1. u = [table EXCEPT !.kept = k]
    BY <1>4 DEF Desk!Upsert, Desk!Table
  <2>2. /\ k \in [Members \X Kpis -> Desk!Texts] /\ k[q] = s.text
        /\ \A p \in Members \X Kpis : p # q => k[p] = table.kept[p]
    BY <1>1, <1>2, <1>4
  <2>3. /\ \A m \in Members, i \in Kpis : k[<<m, i>>] \in {s.text, table.kept[<<m, i>>]}
        /\ \A m \in Members \ {s.of}, i \in Kpis : k[<<m, i>>] = table.kept[<<m, i>>]
    BY <2>2
  <2>4. u \in Desk!Table /\ u.kept = k /\ u.loose = table.loose
    <3> HIDE DEF k, u
    <3> QED
      BY <1>2, <2>1, <2>2 DEF Desk!Table
  <2> HIDE DEF u, k
  <2> QED
    BY <1>4, <2>2, <2>3, <2>4 DEF Desk!Stored, u
<1> QED
  BY <1>3, <1>4

LEMMA TeamSaveAnswersKeeps ==
  ASSUME TeamInv(team), Desk!SaveAnswers
  PROVE  TeamInv(team')
<1>1. team \in Desk!TeamState /\ TeamShape(team)
  BY DEF TeamInv, TeamShape
<1>2. PICK c \in team.calls :
        LET done == [team EXCEPT !.calls = @ \ {c}]
            put  == Desk!Upsert(team.table, c.save.of, c.save.cycle, c.save.text)
        IN  \/ team' = IF Desk!Visible(team) /\ c.mount = team.mounts
                       THEN [done EXCEPT !.table = put, !.saved = c.save.text]
                       ELSE [done EXCEPT !.table = put]
            \/ team' = [done EXCEPT !.amiss = @ \cup {c.save.of}]
            \/ team' = [done EXCEPT !.table = put, !.amiss = @ \cup {c.save.of}]
  BY DEF Desk!SaveAnswers
<1> DEFINE s == c.save
           o == s.of
           p == team.picked
           k == Desk!CycleOf(team)
           e == team.calls \ {c}
           put == Desk!Upsert(team.table, o, s.cycle, s.text)
           here == Desk!Visible(team) /\ c.mount = team.mounts
           w == IF here THEN s.text ELSE team.saved
           R(z, v, a) ==
             \/ z = put /\ v = w /\ a = team.amiss
             \/ z \in {team.table, put} /\ v = team.saved /\ a = team.amiss \cup {o}
<1>3. s \in Desk!Saves /\ o \in Members /\ s.text \in Desk!Texts /\ team.table \in Desk!Table
  BY <1>1 DEF Desk!TeamState, Desk!Saves
<1>4. /\ put \in Desk!Table
      /\ Desk!Stored(put, o, s.cycle, s.text)
      /\ \A m \in Members, i \in Kpis : put.kept[<<m, i>>] \in {s.text, team.table.kept[<<m, i>>]}
      /\ \A m \in Members \ {o}, i \in Kpis : put.kept[<<m, i>>] = team.table.kept[<<m, i>>]
      /\ \A m \in Members \ {o}, i \in Kpis \cup {Unset} : \A x :
           Desk!Stored(team.table, m, i, x) => Desk!Stored(put, m, i, x)
  BY <1>3, PutStores
<1> HIDE DEF put
<1>5. PICK z \in Desk!Table, v \in Desk!Texts, a \in SUBSET Members :
        /\ R(z, v, a)
        /\ team' = [team EXCEPT !.calls = e, !.table = z, !.saved = v, !.amiss = a]
  <2>1. /\ team.saved \in Desk!Texts /\ w \in Desk!Texts /\ team.amiss \in SUBSET Members
        /\ team.amiss \cup {o} \in SUBSET Members
    BY <1>1, <1>3 DEF Desk!TeamState
  <2> DEFINE done == [team EXCEPT !.calls = e]
  <2>2. CASE team' = IF here THEN [done EXCEPT !.table = put, !.saved = s.text]
                     ELSE [done EXCEPT !.table = put]
    <3>1. team' = [team EXCEPT !.calls = e, !.table = put, !.saved = w, !.amiss = team.amiss]
      <4> HIDE DEF here, e, s
      <4> QED
        BY <1>1, <2>2 DEF Desk!TeamState
    <3> HIDE DEF w, e
    <3> QED
      BY <1>4, <2>1, <3>1
  <2>3. CASE team' = [done EXCEPT !.amiss = team.amiss \cup {o}]
    <3>1. team' = [team EXCEPT !.calls = e, !.table = team.table, !.saved = team.saved,
                     !.amiss = team.amiss \cup {o}]
      <4> HIDE DEF e, o
      <4> QED
        BY <1>1, <2>3 DEF Desk!TeamState
    <3> HIDE DEF w, e, o
    <3> QED
      BY <1>3, <2>1, <3>1
  <2>4. CASE team' = [done EXCEPT !.table = put, !.amiss = team.amiss \cup {o}]
    <3>1. team' = [team EXCEPT !.calls = e, !.table = put, !.saved = team.saved,
                     !.amiss = team.amiss \cup {o}]
      <4> HIDE DEF e, o
      <4> QED
        BY <1>1, <2>4 DEF Desk!TeamState
    <3> HIDE DEF w, e, o
    <3> QED
      BY <1>4, <2>1, <3>1
  <2>5. [team EXCEPT !.calls = @ \ {c}] = done /\ done.amiss = team.amiss
    BY <1>1 DEF Desk!TeamState
  <2> HIDE DEF done, R, w, e
  <2> QED
    BY <1>2, <2>2, <2>3, <2>4, <2>5 DEF put, here
<1> DEFINE u == [team EXCEPT !.calls = e, !.table = z, !.saved = v, !.amiss = a]
<1>6. team.amiss \subseteq a /\ (o \notin a => z = put /\ v = w) /\ z \in {team.table, put}
      /\ v \in {w, team.saved}
  BY <1>5
<1>7. e \in SUBSET [save : Desk!Saves, mount : 1..MaxMoves]
  BY <1>1 DEF Desk!TeamState
<1> HIDE DEF R, e
<1>8. u \in Desk!TeamState
  BY <1>1, <1>5, <1>7 DEF Desk!TeamState
<1>9. /\ u.period = team.period /\ u.listed = team.listed /\ u.picks = team.picks
      /\ u.loads = team.loads /\ u.loading = team.loading /\ u.failed = team.failed
      /\ u.got = team.got /\ u.reads = team.reads /\ u.notes = team.notes /\ u.picked = p
      /\ u.mounts = team.mounts /\ u.box = team.box /\ u.saved = v /\ u.focused = team.focused
      /\ u.timer = team.timer /\ u.calls = e /\ u.count = team.count /\ u.typed = team.typed
      /\ u.stale = team.stale /\ u.amiss = a /\ u.table = z
  BY <1>1 DEF Desk!TeamState
<1>10. team' = u
  BY <1>5
<1> HIDE DEF u
<1>11. TeamShape(u)
  BY <1>1, <1>8, <1>9 DEF TeamShape, e
<1>12. Desk!Visible(u) = Desk!Visible(team) /\ Desk!CycleOf(u) = k
  BY <1>9 DEF Desk!Visible, Desk!CycleOf
<1>13. TimerRight(u)
  BY <1>6, <1>9, <1>12 DEF TeamInv, TimerRight
<1>14. ASSUME NEW m \in Members
       PROVE  CallsAbout(u, m) = CallsAbout(team, m) \ {c}
  BY <1>9 DEF CallsAbout, e
<1>15. CallsHere(u) = CallsHere(team) \ {c}
  BY <1>9 DEF CallsHere, e
<1>16. ASSUME NEW m \in Members PROVE MemberRight(u, m)
  <2>1. MemberRight(team, m)
    BY DEF TeamInv
  <2>2. OwnTyped(u, m) /\ (m \notin a => ReadOwn(u, m))
    BY <1>6, <1>9, <2>1 DEF MemberRight, OwnTyped, ReadOwn
  <2>3. SUFFICES ASSUME m \notin a PROVE SavedOwn(u, m)
    BY <1>9, <2>2 DEF MemberRight
  <2>4. SavedOwn(team, m) /\ OwnTyped(team, m)
    BY <1>6, <2>1, <2>3 DEF MemberRight
  <2>5. CASE m # o
    <3>1. CallsAbout(u, m) = CallsAbout(team, m)
      BY <1>14, <2>5 DEF CallsAbout
    <3>2. \A i \in Kpis : z.kept[<<m, i>>] = team.table.kept[<<m, i>>]
      BY <1>4, <1>6, <2>5
    <3>3. Kept(team, m) => Kept(u, m)
      <4>1. team.typed[m] # None => team.typed[m].cycle \in Kpis \cup {Unset}
        BY <1>1 DEF Desk!TeamState, Desk!Saves
      <4>2. \A i \in Kpis \cup {Unset} : \A x :
              Desk!Stored(team.table, m, i, x) => Desk!Stored(z, m, i, x)
        BY <1>4, <1>6, <2>5
      <4> QED
        BY <1>9, <3>1, <4>1, <4>2 DEF Kept
    <3> QED
      BY <1>9, <2>4, <3>1, <3>2, <3>3 DEF SavedOwn
  <2>6. CASE m = o
    <3>1. z = put /\ c \in CallsAbout(team, m)
      BY <1>6, <2>3, <2>6 DEF CallsAbout
    <3>2. CallsAbout(team, m) = {c} /\ About(s.text, m)
      BY <2>4, <3>1 DEF SavedOwn
    <3>3. CallsAbout(u, m) = {}
      BY <1>14, <3>2
    <3>4. \A i \in Kpis : About(z.kept[<<m, i>>], m)
      BY <1>4, <2>4, <3>1, <3>2 DEF SavedOwn
    <3>5. s = team.typed[m] => Desk!Stored(z, m, team.typed[m].cycle, team.typed[m].text)
      BY <1>4, <2>6, <3>1
    <3>6. \/ team.timer = team.typed[m] /\ team.typed[m] # None
          \/ s = team.typed[m] \/ team.typed[m] = None \/ team.typed[m].text = Blank
      <4>1. CASE team.timer = None \/ team.timer.of # m
        BY <2>4, <3>1, <4>1 DEF SavedOwn
      <4>2. CASE team.timer # None /\ team.timer.of = m
        BY <4>2 DEF TeamInv, TimerRight
      <4> QED
        BY <4>1, <4>2
    <3>7. Kept(u, m)
      BY <1>9, <3>5, <3>6 DEF Kept
    <3> QED
      BY <3>3, <1>9, <3>4, <3>7 DEF SavedOwn
  <2> QED
    BY <2>5, <2>6
<1>17. ShownRight(u)
  <2> SUFFICES ASSUME Desk!Visible(team), p \notin a PROVE DrawerRight(u)
    BY <1>6, <1>9, <1>12 DEF TeamInv, ShownRight
  <2>1. p \in Members /\ DrawerRight(team) /\ SavedOwn(team, p)
    BY <1>1, <1>6 DEF TeamInv, ShownRight, MemberRight, Desk!TeamState, Desk!Visible
  <2>2. CallsAbout(u, p) = CallsAbout(team, p) \ {c}
    BY <1>14, <2>1
  <2>3. CASE c \notin CallsAbout(team, p)
    <3>1. c \notin CallsHere(team) /\ o # p
      BY <2>1, <2>3 DEF DrawerRight, CallsAbout
    <3>2. v = team.saved
      BY <1>6, <3>1 DEF CallsHere
    <3>3. CallsAbout(u, p) = CallsAbout(team, p) /\ CallsHere(u) = CallsHere(team)
      BY <1>15, <2>2, <2>3, <3>1
    <3>4. Believed(team) => Believed(u)
      <4>1. k \in Kpis \cup {Unset}
        BY DEF Desk!CycleOf
      <4> HIDE DEF k
      <4>2. Desk!Stored(team.table, p, k, team.saved) => Desk!Stored(z, p, k, team.saved)
        BY <1>4, <1>6, <2>1, <3>1, <4>1
      <4> QED
        BY <1>9, <1>12, <3>2, <4>2 DEF Believed, k
    <3> QED
      BY <1>9, <1>12, <2>1, <3>2, <3>3, <3>4 DEF DrawerRight
  <2>4. CASE c \in CallsAbout(team, p)
    <3>1. o = p /\ z = put /\ v = w /\ About(s.text, p)
      BY <1>6, <2>1, <2>4 DEF CallsAbout, SavedOwn
    <3>2. CASE team.stale
      <4>1. CallsHere(team) = {} /\ CallsHere(u) = {}
        BY <1>15, <2>1, <3>2 DEF DrawerRight
      <4>2. v = team.saved
        BY <3>1, <4>1 DEF CallsHere
      <4> QED
        BY <1>9, <2>1, <3>2, <4>1, <4>2 DEF DrawerRight
    <3>3. CASE ~team.stale
      <4>1. c \in CallsHere(team) /\ s.cycle = k
        BY <2>1, <2>4, <3>3 DEF DrawerRight
      <4>2. v = s.text
        BY <3>1, <4>1 DEF CallsHere
      <4>3. Believed(u)
        BY <1>4, <1>9, <1>12, <3>1, <4>1, <4>2 DEF Believed
      <4>4. team.timer = None => s.text = team.box
        BY <2>1, <4>1 DEF DrawerRight
      <4> QED
        BY <1>9, <1>12, <1>15, <2>1, <2>2, <3>1, <3>3, <4>2, <4>3, <4>4
           DEF DrawerRight, Desk!Same
    <3> QED
      BY <3>2, <3>3
  <2> QED
    BY <2>3, <2>4
<1> QED
  BY <1>10, <1>11, <1>13, <1>16, <1>17 DEF TeamInv

LEMMA TeamNextKeeps ==
  ASSUME TeamInv(team), Desk!TeamNext
  PROVE  TeamInv(team')
BY PeriodsArriveKeeps, PickPeriodKeeps, OverviewAnswersKeeps, NotesReadKeeps, NotesAnswerKeeps,
   PickMemberKeeps, TeamTypeKeeps, TeamTimerKeeps, BlurKeeps, TeamSaveAnswersKeeps,
   CloseDrawerKeeps DEF Desk!TeamNext

LEMMA TeamMountedRight == TeamInv(Desk!TeamMounted)
<1> DEFINE q == Desk!Asked(Unset)
           b == [m \in Members |-> Blank]
           y == [m \in Members |-> None]
           t == Desk!TeamMounted
<1>1. q \in Desk!Reads /\ q.found = b
  BY DEF Desk!Asked, Desk!Reads, Desk!Texts
<1>2. b \in [Members -> Desk!Texts] /\ \A m \in Members : b[m] = Blank
  BY DEF Desk!Texts
<1>3. y \in [Members -> Desk!Saves \cup {None}] /\ \A m \in Members : y[m] = None
  OBVIOUS
<1>4. Desk!EmptyTable \in Desk!Table /\ Desk!EmptyTable.kept = [i \in Members \X Kpis |-> Blank]
  BY DEF Desk!EmptyTable, Desk!Table, Desk!Texts
<1>5. /\ 0 \in 0..MaxPicks /\ 1 \in 0..(MaxPicks + 2) /\ 0 \in 0..MaxMoves
      /\ Blank \in Desk!Texts /\ "unset" \in Desk!Periods
  BY BoundsAssumption DEF Desk!Texts, Desk!Periods
<1> HIDE DEF q, b, y
<1>6. t = [period |-> "unset", listed |-> FALSE, picks |-> 0, loads |-> 1, loading |-> TRUE,
           failed |-> FALSE, got |-> FALSE, reads |-> {q}, notes |-> b, picked |-> None,
           mounts |-> 0, box |-> Blank, saved |-> Blank, focused |-> FALSE, timer |-> None,
           calls |-> {}, count |-> 0, typed |-> y, stale |-> FALSE, amiss |-> {},
           table |-> Desk!EmptyTable]
  BY DEF Desk!TeamMounted, q, b, y
<1> HIDE DEF t
<1>7. t \in Desk!TeamState
  BY <1>1, <1>2, <1>3, <1>4, <1>5, <1>6 DEF Desk!TeamState
<1>8. /\ t.listed = FALSE /\ t.picks = 0 /\ t.loads = 1 /\ t.got = FALSE /\ t.reads = {q}
      /\ t.notes = b /\ t.mounts = 0 /\ t.timer = None /\ t.calls = {} /\ t.count = 0
      /\ t.typed = y /\ t.table = Desk!EmptyTable
  BY <1>6
<1>9. TeamShape(t)
  BY <1>7, <1>8, BoundsAssumption DEF TeamShape
<1>10. TimerRight(t) /\ ShownRight(t)
  BY <1>8 DEF TimerRight, ShownRight, Desk!Visible
<1>11. ASSUME NEW m \in Members PROVE MemberRight(t, m)
  <2>1. CallsAbout(t, m) = {} /\ t.typed[m] = None
    BY <1>3, <1>8 DEF CallsAbout
  <2>2. ReadOwn(t, m)
    BY <1>1, <1>2, <1>8 DEF ReadOwn, About
  <2>3. \A k \in Kpis : About(t.table.kept[<<m, k>>], m)
    BY <1>4, <1>8 DEF About
  <2> QED
    BY <2>1, <2>2, <2>3 DEF MemberRight, OwnTyped, SavedOwn, Kept
<1> QED
  BY <1>9, <1>10, <1>11 DEF TeamInv, t

LEMMA TeamInvKept ==
  ASSUME TeamInv(team)
  PROVE  Desk!DrawerKept
<1> SUFFICES ASSUME team.timer = None, team.calls = {}, NEW m \in Members \ team.amiss,
                    team.typed[m] # None, team.typed[m].text # Blank
             PROVE  Desk!Stored(team.table, m, team.typed[m].cycle, team.typed[m].text)
  BY DEF Desk!DrawerKept
<1>1. Kept(team, m)
  BY DEF TeamInv, MemberRight, SavedOwn
<1>2. CallsAbout(team, m) = {}
  BY DEF CallsAbout
<1> QED
  BY <1>1, <1>2 DEF Kept

------------------------------------------------------------------------------
(* Both pages under their router.                                            *)
OnNotes == screen = "calibrate" => NoteInv(wizard)
OnTeam  == screen = "team" => TeamInv(team)

LEMMA OnNotesAlways == Spec => []OnNotes
<1>1. Init => OnNotes
  BY DEF Init, OnNotes
<1>2. OnNotes /\ [Next]_vars => OnNotes'
  <2>1. Mounts("calibrate") => wizard' = Wizard!WizardMounted
    BY DEF Mounts
  <2> QED
    BY <2>1, Framed, NotesNextKeeps, NotesMountedRight DEF OnNotes
<1> QED
  BY <1>1, <1>2, PTL DEF Spec

LEMMA OnTeamAlways == Spec => []OnTeam
<1>1. Init => OnTeam
  BY DEF Init, OnTeam
<1>2. OnTeam /\ [Next]_vars => OnTeam'
  <2>1. Mounts("team") => team' = Desk!TeamMounted
    BY DEF Mounts
  <2> QED
    BY <2>1, OtherPages, TeamNextKeeps, TeamMountedRight DEF OnTeam
<1> QED
  BY <1>1, <1>2, PTL DEF Spec

(* CalibrationModePage: at rest, the text typed last about a member is       *)
(* stored, whatever pages were left and came back to while it was saved.     *)
THEOREM NoteCorrect == Spec => []NoteKept
<1>1. OnNotes => NoteKept
  BY NoteInvKept DEF OnNotes, NoteKept
<1> QED
  BY <1>1, OnNotesAlways, PTL

(* TeamMemberDrawer: at rest, the text typed last about a member is stored,  *)
(* however the drawer was closed, reloaded and refilled meanwhile.           *)
THEOREM DrawerCorrect == Spec => []DrawerKept
<1>1. OnTeam => DrawerKept
  BY TeamInvKept DEF OnTeam, DrawerKept
<1> QED
  BY <1>1, OnTeamAlways, PTL

------------------------------------------------------------------------------
(* The review page, within its bounds: what it loads has dates, and at most  *)
(* one of configuration, request and error is there.                         *)
OneDialog(d) ==
  /\ d.asked # None => d.draft = None /\ d.error = None
  /\ d.draft # None => d.error = None

DeskTyped(d) == d \in Review!Desk /\ OneDialog(d)

LEMMA RemountedTyped ==
  ASSUME NEW d, DeskTyped(d)
  PROVE  DeskTyped(Review!Remounted(d))
<1>1. CASE d.draft = None
  BY <1>1 DEF Review!Remounted
<1>2. CASE d.draft # None
  <2> DEFINE e == [d EXCEPT !.draft = d.period]
  <2>1. e \in Review!Desk
    BY DEF DeskTyped, Review!Desk
  <2>2. e.asked = d.asked /\ e.error = d.error
    BY DEF DeskTyped, Review!Desk
  <2>3. Review!Remounted(d) = e
    BY <1>2 DEF Review!Remounted
  <2> HIDE DEF e
  <2> QED
    BY <1>2, <2>1, <2>2, <2>3 DEF DeskTyped, OneDialog
<1> QED
  BY <1>1, <1>2

LEMMA ReloadedTyped ==
  ASSUME NEW d, DeskTyped(d), d.newest < MaxLoads
  PROVE  DeskTyped(Review!Reloaded(d))
<1>1. CASE d.period = Blank
  BY <1>1, RemountedTyped DEF Review!Reloaded
<1>2. CASE d.period # Blank
  <2> DEFINE l == [n |-> d.newest + 1, dates |-> Review!Dates(d.period)]
             e == [d EXCEPT !.newest = d.newest + 1, !.loading = TRUE, !.amiss = {},
                     !.loads = d.loads \cup {l}]
  <2>1. d.period \in Review!Periods /\ d.newest \in 0..MaxLoads /\ d.loads \in SUBSET Review!Data
    BY DEF DeskTyped, Review!Desk
  <2>2. MaxLoads \in Nat
    BY BoundsAssumption
  <2>3. d.newest + 1 \in 1..MaxLoads /\ d.newest + 1 \in 0..MaxLoads
    BY <2>1, <2>2
  <2>4. Review!Dates(d.period) \in Review!Periods \ {Unset, Blank}
    BY <1>2, <2>1, DatesAssumption DEF Review!Dates, Review!Periods, Review!Others
  <2>5. l \in Review!Data
    BY <2>3, <2>4 DEF Review!Data
  <2> HIDE DEF l
  <2>6. e \in Review!Desk
    <3>1. d.loads \cup {l} \in SUBSET Review!Data
      BY <2>1, <2>5
    <3> QED
      BY <2>3, <3>1 DEF DeskTyped, Review!Desk
  <2>7. e.asked = d.asked /\ e.error = d.error /\ e.draft = d.draft
    BY DEF DeskTyped, Review!Desk
  <2>8. Review!Reloaded(d) = Review!Remounted(e)
    BY <1>2 DEF Review!Reloaded, l
  <2> HIDE DEF e
  <2>9. DeskTyped(e)
    BY <2>6, <2>7 DEF DeskTyped, OneDialog
  <2> QED
    BY <2>8, <2>9, RemountedTyped
<1> QED
  BY <1>1, <1>2

LEMMA DatesListed ==
  Review!Others \cup Review!Listed \subseteq Review!Periods
BY DEF Review!Listed, Review!Periods

LEMMA MovedTyped ==
  ASSUME NEW x \in Review!Summary \cup {None}
  PROVE  /\ Review!Moved(x) \in Review!Summary \cup {None}
         /\ Review!Moved(x) # None => x # None
<1>1. x # None => [x EXCEPT !.moved = TRUE] \in Review!Summary
  BY DEF Review!Summary
<1> QED
  BY <1>1 DEF Review!Moved

LEMMA ShiftedTyped ==
  ASSUME NEW d, DeskTyped(d), NEW p \in Review!Periods
  PROVE  DeskTyped(Review!Shifted(d, p)) /\ Review!Shifted(d, p).newest = d.newest
<1>1. d \in Review!Desk /\ OneDialog(d)
  BY DEF DeskTyped
<1>2. CASE p = d.period
  BY <1>2 DEF Review!Shifted
<1>3. CASE p # d.period
  <2> DEFINE a == Review!Moved(d.asked)
             s == Review!Moved(d.summary)
             e == [d EXCEPT !.period = p, !.asked = a, !.summary = s]
  <2>1. /\ a \in Review!Summary \cup {None} /\ (a # None => d.asked # None)
        /\ s \in Review!Summary \cup {None}
    BY <1>1, MovedTyped DEF Review!Desk
  <2>2. Review!Shifted(d, p) = e
    BY <1>1, <1>3 DEF Review!Shifted, Review!Desk
  <2> HIDE DEF a, s
  <2>3. e \in Review!Desk
    <3> DEFINE lists == {"waiting", "none", "some"}
               sums == Review!Summary \cup {None}
               others == Review!Periods \cup {None}
               causes == Review!Errors \cup {None}
               data == Review!Data \cup {None}
    <3>1. Review!Desk = [period : Review!Periods, listed : lists, loads : SUBSET Review!Data,
             newest : 0..MaxLoads, loading : BOOLEAN, entries : data, wins : data,
             draft : others, asked : sums, asks : 0..MaxAsks, last : others,
             summary : sums, error : causes, exporting : BOOLEAN,
             amiss : SUBSET Review!Mishaps]
      BY DEF Review!Desk
    <3>2. a \in sums /\ s \in sums
      BY <2>1
    <3> HIDE DEF lists, sums, others, causes, data
    <3> QED
      BY <1>1, <3>1, <3>2
  <2>4. /\ e.asked = a /\ e.error = d.error /\ e.draft = d.draft
        /\ e.newest = d.newest
    BY <1>1 DEF Review!Desk
  <2> HIDE DEF e
  <2> QED
    BY <1>1, <2>1, <2>2, <2>3, <2>4 DEF DeskTyped, OneDialog
<1> QED
  BY <1>2, <1>3

(* The cycles arrive, or a period is chosen.                                 *)
LEMMA PeriodsTyped ==
  ASSUME DeskTyped(desk), Review!ListPeriods \/ Review!SelectPeriod
  PROVE  DeskTyped(desk')
<1>1. desk \in Review!Desk /\ OneDialog(desk)
  BY DEF DeskTyped
<1> DEFINE L(l) == [desk EXCEPT !.listed = l]
<1>2. ASSUME NEW l \in {"none", "some"}
      PROVE  DeskTyped(L(l)) /\ L(l).newest = desk.newest
  <2> DEFINE e == L(l)
  <2>1. /\ e \in Review!Desk
        /\ e.asked = desk.asked /\ e.error = desk.error /\ e.draft = desk.draft
        /\ e.newest = desk.newest
    BY <1>1 DEF Review!Desk
  <2> HIDE DEF e
  <2>2. DeskTyped(e) /\ e.newest = desk.newest
    BY <1>1, <2>1 DEF DeskTyped, OneDialog
  <2> QED
    BY <2>2 DEF e
<1> DEFINE none == L("none")
           some == L("some")
<1>3. /\ DeskTyped(none) /\ none.newest = desk.newest
      /\ DeskTyped(some) /\ some.newest = desk.newest
  BY <1>2
<1> HIDE DEF none, some
<1>4. CASE Review!ListPeriods
  <2>0. desk.newest < MaxLoads
    BY <1>4 DEF Review!ListPeriods, Review!CanLoad
  <2>1. ASSUME NEW k \in Kpis,
               desk' = Review!Reloaded(
                         Review!Shifted(some, IF desk.period = Unset THEN k ELSE desk.period))
        PROVE  DeskTyped(desk')
    <3> DEFINE p == IF desk.period = Unset THEN k ELSE desk.period
               d == Review!Shifted(some, p)
    <3>1. p \in Review!Periods
      BY <1>1 DEF Review!Desk, Review!Periods
    <3> HIDE DEF p
    <3>2. DeskTyped(d) /\ d.newest < MaxLoads
      BY <1>3, <2>0, <3>1, ShiftedTyped
    <3>3. desk' = Review!Reloaded(d)
      BY <2>1 DEF p
    <3> HIDE DEF d
    <3> QED
      BY <3>2, <3>3, ReloadedTyped
  <2>2. CASE desk' = Review!Reloaded(none)
    BY <1>3, <2>0, <2>2, ReloadedTyped
  <2>3. CASE desk' = Review!Remounted(none)
    BY <1>3, <2>3, RemountedTyped
  <2> QED
    BY <1>4, <2>1, <2>2, <2>3 DEF Review!ListPeriods, none, some
<1>5. CASE Review!SelectPeriod
  <2>1. PICK p \in Review!Others \cup Review!Listed : desk' = Review!Chosen(p)
    BY <1>5 DEF Review!SelectPeriod
  <2> DEFINE e == Review!Shifted(desk, p)
             d == [e EXCEPT !.summary = None]
  <2>2. DeskTyped(e) /\ e.newest = desk.newest
    BY ShiftedTyped, DatesListed
  <2>3. desk' = Review!Reloaded(d)
    BY <2>1 DEF Review!Chosen
  <2> HIDE DEF e
  <2>4. /\ d \in Review!Desk
        /\ d.asked = e.asked /\ d.error = e.error /\ d.draft = e.draft
        /\ d.newest = desk.newest
    BY <2>2 DEF DeskTyped, Review!Desk
  <2> HIDE DEF d
  <2>5. DeskTyped(d)
    BY <2>2, <2>4 DEF DeskTyped, OneDialog
  <2> QED
    BY <1>5, <2>3, <2>4, <2>5, ReloadedTyped DEF Review!SelectPeriod, Review!CanLoad
<1> QED
  BY <1>4, <1>5

(* An answer to a load, and one to a request for a summary.                  *)
LEMMA AnswersTyped ==
  ASSUME DeskTyped(desk), Review!LoadAnswers \/ Review!AskAnswers
  PROVE  DeskTyped(desk')
<1>1. desk \in Review!Desk /\ OneDialog(desk)
  BY DEF DeskTyped
<1>2. CASE Review!LoadAnswers
  <2>1. PICK l \in desk.loads, gotEntries \in BOOLEAN, gotWins \in BOOLEAN :
          desk' = Review!Remounted(Review!Loaded([desk EXCEPT
                    !.entries = IF gotEntries THEN l ELSE @,
                    !.wins    = IF gotWins THEN l ELSE @,
                    !.amiss   = @ \cup {h \in {"entries"} : Review!Astray(l, gotEntries)}
                                  \cup {h \in {"wins"} : Review!Astray(l, gotWins)}],
                  l, gotEntries))
    BY <1>2 DEF Review!LoadAnswers
  <2> DEFINE en == IF gotEntries THEN l ELSE desk.entries
             wi == IF gotWins THEN l ELSE desk.wins
             rest == desk.loads \ {l}
             am == desk.amiss \cup {h \in {"entries"} : Review!Astray(l, gotEntries)}
                              \cup {h \in {"wins"} : Review!Astray(l, gotWins)}
                              \cup {h \in {"loading"} : desk.loads # {l}}
             d == [desk EXCEPT !.entries = en, !.wins = wi, !.loads = rest, !.loading = FALSE,
                               !.amiss = am]
  <2>2. l \in Review!Data /\ rest \in SUBSET Review!Data
    BY <1>1 DEF Review!Desk
  <2>3. en \in Review!Data \cup {None} /\ wi \in Review!Data \cup {None}
    BY <1>1, <2>2 DEF Review!Desk
  <2>4. am \in SUBSET Review!Mishaps
    BY <1>1 DEF Review!Desk, Review!Mishaps
  <2>5. desk' = Review!Remounted(d)
    BY <1>1, <2>1 DEF Review!Loaded, Review!Desk
  <2> HIDE DEF en, wi, rest, am
  <2>6. d \in Review!Desk
    BY <1>1, <2>2, <2>3, <2>4 DEF Review!Desk
  <2>7. d.asked = desk.asked /\ d.error = desk.error /\ d.draft = desk.draft
    BY <1>1 DEF Review!Desk
  <2> HIDE DEF d
  <2>8. DeskTyped(d)
    BY <1>1, <2>6, <2>7 DEF DeskTyped, OneDialog
  <2> QED
    BY <2>5, <2>8, RemountedTyped
<1>3. CASE Review!AskAnswers
  <2>1. desk.asked \in Review!Summary /\ desk.draft = None
    BY <1>1, <1>3 DEF Review!AskAnswers, OneDialog, Review!Desk
  <2>2. PICK s \in Review!Summary \cup {None}, e \in Review!Errors \cup {None} :
          desk' = [desk EXCEPT !.summary = s, !.error = e, !.asked = None]
    <3>1. desk.summary \in Review!Summary \cup {None} /\ desk.error \in Review!Errors \cup {None}
      BY <1>1 DEF Review!Desk
    <3>2. CASE desk' = [desk EXCEPT !.summary = desk.asked, !.asked = None]
      <4>1. desk' = [desk EXCEPT !.summary = desk.asked, !.error = desk.error, !.asked = None]
        BY <1>1, <3>2 DEF Review!Desk
      <4> QED
        BY <2>1, <3>1, <4>1
    <3>3. ASSUME NEW e \in Review!Errors, desk' = [desk EXCEPT !.error = e, !.asked = None]
          PROVE  desk' = [desk EXCEPT !.summary = desk.summary, !.error = e, !.asked = None]
      BY <1>1, <3>3 DEF Review!Desk
    <3> QED
      BY <1>3, <3>1, <3>2, <3>3 DEF Review!AskAnswers
  <2>3. desk' \in Review!Desk
    BY <1>1, <2>2 DEF Review!Desk
  <2>4. desk'.asked = None /\ desk'.draft = None
    BY <1>1, <2>1, <2>2 DEF Review!Desk
  <2> QED
    BY <2>3, <2>4 DEF DeskTyped, OneDialog
<1> QED
  BY <1>2, <1>3

(* A request for a summary is sent.                                          *)
LEMMA AskTyped ==
  ASSUME DeskTyped(desk), NEW p \in Review!Periods, Review!Ask(p)
  PROVE  DeskTyped(desk')
<1>1. desk \in Review!Desk
  BY DEF DeskTyped
<1> DEFINE a == Review!Request(p)
           s == Review!Shifted(desk, p)
           k == s.asks + 1
           d == [s EXCEPT !.draft = None, !.error = None, !.last = p, !.asked = a, !.asks = k]
<1>2. a \in Review!Summary
  BY <1>1 DEF Review!Desk, Review!Summary, Review!Request, Review!Early
<1>3. s \in Review!Desk /\ s.newest = desk.newest /\ s.asks = desk.asks
  <2>1. s \in Review!Desk /\ s.newest = desk.newest
    BY ShiftedTyped DEF DeskTyped
  <2>2. s.asks = desk.asks
    BY <1>1 DEF Review!Shifted, Review!Desk
  <2> QED
    BY <2>1, <2>2
<1>4. k \in 0..MaxAsks
  <2>1. desk.asks \in 0..MaxAsks /\ MaxAsks \in Nat /\ desk.asks < MaxAsks
    BY <1>1, BoundsAssumption DEF Review!Desk, Review!Ask
  <2> QED
    BY <1>3, <2>1
<1>5. desk' = IF p = desk.period THEN d ELSE Review!Reloaded(d)
  <2>1. d = [s EXCEPT !.draft = None, !.error = None, !.last = p,
                      !.asked = Review!Request(p), !.asks = @ + 1]
    BY <1>3 DEF Review!Desk
  <2> QED
    BY <2>1 DEF Review!Ask, Review!Generated
<1> HIDE DEF a, k, s
<1>6. d \in Review!Desk
  BY <1>2, <1>3, <1>4 DEF Review!Desk
<1>7. d.draft = None /\ d.error = None /\ d.newest = desk.newest
  BY <1>3 DEF Review!Desk
<1> HIDE DEF d
<1>8. DeskTyped(d)
  BY <1>6, <1>7 DEF DeskTyped, OneDialog
<1>9. p # desk.period => d.newest < MaxLoads
  BY <1>7 DEF Review!Ask, Review!CanLoad
<1> QED
  BY <1>5, <1>8, <1>9, ReloadedTyped

(* The dialogs open and close.                                               *)
LEMMA AsideTyped ==
  ASSUME DeskTyped(desk), Aside
  PROVE  DeskTyped(desk')
<1>1. desk \in Review!Desk /\ OneDialog(desk)
  BY DEF DeskTyped
<1>2. /\ desk.draft \in Review!Periods \cup {None} /\ desk.error \in Review!Errors \cup {None}
      /\ desk.exporting \in BOOLEAN /\ desk.period \in Review!Periods
  BY <1>1 DEF Review!Desk
<1> DEFINE D(dr, er, ex) == [desk EXCEPT !.draft = dr, !.error = er, !.exporting = ex]
<1>3. ASSUME NEW dr \in Review!Periods \cup {None}, NEW er \in Review!Errors \cup {None},
             NEW ex \in BOOLEAN,
             desk.asked # None => dr = None /\ er = None, dr # None => er = None
      PROVE  DeskTyped(D(dr, er, ex))
  <2> DEFINE d == D(dr, er, ex)
  <2>1. d \in Review!Desk
    BY <1>1, ZenonT(60) DEF Review!Desk
  <2>2. d.draft = dr /\ d.error = er /\ d.asked = desk.asked
    BY <1>1 DEF Review!Desk
  <2> HIDE DEF d
  <2>3. DeskTyped(d)
    BY <1>3, <2>1, <2>2 DEF DeskTyped, OneDialog
  <2> QED
    BY <2>3 DEF d
<1>4. CASE Review!OpenConfig
  <2>1. desk' = D(desk.period, desk.error, desk.exporting)
    BY <1>1, <1>4 DEF Review!OpenConfig, Review!Desk
  <2>2. desk.asked = None /\ desk.error = None
    BY <1>4 DEF Review!OpenConfig, Review!Covered
  <2> HIDE DEF D
  <2> QED
    BY <1>2, <1>3, <2>1, <2>2
<1>5. CASE Review!EditDraft
  <2>1. PICK p \in Review!Others \cup Review!Listed : desk' = [desk EXCEPT !.draft = p]
    BY <1>5 DEF Review!EditDraft
  <2>2. p \in Review!Periods
    BY DatesListed
  <2>3. desk' = D(p, desk.error, desk.exporting)
    BY <1>1, <2>1 DEF Review!Desk
  <2>4. desk.asked = None /\ desk.error = None
    BY <1>1, <1>5 DEF Review!EditDraft, OneDialog
  <2> HIDE DEF D
  <2> QED
    BY <1>2, <1>3, <2>2, <2>3, <2>4
<1>6. CASE Review!CloseConfig
  <2>1. desk' = D(None, desk.error, desk.exporting)
    BY <1>1, <1>6 DEF Review!CloseConfig, Review!Desk
  <2> HIDE DEF D
  <2> QED
    BY <1>1, <1>2, <1>3, <2>1 DEF OneDialog
<1>7. CASE Review!ConfigFromError
  <2>1. desk' = D(desk.period, None, desk.exporting)
    BY <1>1, <1>7 DEF Review!ConfigFromError, Review!Desk
  <2>2. desk.error # None
    BY <1>7, NoneAssumption DEF Review!ConfigFromError
  <2>3. desk.asked = None
    BY <1>1, <2>2 DEF OneDialog
  <2> HIDE DEF D
  <2> QED
    BY <1>2, <1>3, <2>1, <2>3
<1>8. CASE Review!CloseError
  <2>1. desk' = D(desk.draft, None, desk.exporting)
    BY <1>1, <1>8 DEF Review!CloseError, Review!Desk
  <2> HIDE DEF D
  <2> QED
    BY <1>1, <1>2, <1>3, <2>1 DEF OneDialog
<1>9. CASE Review!OpenExport \/ Review!CloseExport
  <2>1. PICK ex \in BOOLEAN : desk' = D(desk.draft, desk.error, ex)
    BY <1>1, <1>9 DEF Review!OpenExport, Review!CloseExport, Review!Desk
  <2> HIDE DEF D
  <2> QED
    BY <1>1, <1>2, <1>3, <2>1 DEF OneDialog
<1> QED
  BY <1>4, <1>5, <1>6, <1>7, <1>8, <1>9 DEF Aside

LEMMA ReviewTyped ==
  ASSUME DeskInv(desk), DeskTyped(desk), Review!ReviewNext
  PROVE  DeskTyped(desk')
<1>1. CASE Review!Generate
  <2>1. desk.draft \in Review!Periods /\ Review!Ask(desk.draft)
    BY <1>1 DEF Review!Generate, DeskTyped, Review!Desk
  <2> QED
    BY <2>1, AskTyped
<1>2. CASE Review!Retry
  <2>1. desk.last \in Review!Periods /\ Review!Ask(desk.last)
    BY <1>2 DEF Review!Retry, DeskInv, Sound, Remembered
  <2> QED
    BY <2>1, AskTyped
<1> QED
  BY <1>1, <1>2, PeriodsTyped, AnswersTyped, AsideTyped DEF Review!ReviewNext, Aside

LEMMA ReviewMountedTyped == DeskTyped(Review!ReviewMounted)
<1> DEFINE d == Review!ReviewMounted
           l == [n |-> 1, dates |-> Custom]
<1>1. 1 \in 1..MaxLoads /\ 1 \in 0..MaxLoads /\ 0 \in 0..MaxAsks
  BY BoundsAssumption
<1>2. Custom \in Review!Periods \ {Unset, Blank} /\ Unset \in Review!Periods
  BY DatesAssumption DEF Review!Periods, Review!Others
<1>3. l \in Review!Data
  BY <1>1, <1>2 DEF Review!Data
<1> HIDE DEF l
<1>4. {l} \in SUBSET Review!Data
  BY <1>3
<1>5. d = [period |-> Unset, listed |-> "waiting", loads |-> {l}, newest |-> 1,
           loading |-> TRUE, entries |-> None, wins |-> None, draft |-> None,
           asked |-> None, asks |-> 0, last |-> None, summary |-> None, error |-> None,
           exporting |-> FALSE, amiss |-> {}]
  BY DEF Review!ReviewMounted, l
<1> HIDE DEF d
<1>6. d \in Review!Desk
  BY <1>1, <1>2, <1>4, <1>5 DEF Review!Desk
<1>7. d.draft = None /\ d.error = None
  BY <1>5
<1>8. DeskTyped(d)
  BY <1>6, <1>7 DEF DeskTyped, OneDialog
<1> QED
  BY <1>8 DEF d
------------------------------------------------------------------------------
(* The search page, within its bound: searches are numbered from one.        *)
FindBound(f) == f.newest <= MaxSearches /\ \A s \in Held(f) : 1 <= s.n

(* Whatever else the page does starts no search.                             *)
NoSearch(f, g) ==
  /\ g.newest = f.newest /\ g.asked = f.asked
  /\ g.journals \in {f.journals, None} /\ g.wins \in {f.wins, None}

LEMMA FilteringSearchesNot ==
  ASSUME find \in FindShape,
         \/ Search!Type \/ Search!ToggleTag \/ Search!Choose \/ Search!PickCardTag
         \/ Search!ToggleCritical \/ Search!RemovePill \/ Search!ResetFilters
  PROVE  NoSearch(find, find')
<1>1. ASSUME NEW by, NEW t, find' = [find EXCEPT !.by = by, !.timer = t]
      PROVE  NoSearch(find, find')
  BY <1>1 DEF NoSearch, FindShape
<1>2. ASSUME NEW by, find' = Search!Filtered(by)
      PROVE  NoSearch(find, find')
  <2> DEFINE t == IF by = find.by THEN find.timer
                  ELSE IF by = Search!NoFilters THEN "clear" ELSE "search"
  <2>1. find' = [find EXCEPT !.by = by, !.timer = t]
    BY <1>2 DEF Search!Filtered
  <2> HIDE DEF t
  <2> QED
    BY <1>1, <2>1
<1>3. ASSUME NEW by, NEW s, find' = [Search!Filtered(by) EXCEPT !.scope = s]
      PROVE  NoSearch(find, find')
  BY <1>3 DEF NoSearch, FindShape, Search!Filtered
<1>4. CASE Search!Type \/ Search!ToggleTag \/ Search!Choose \/ Search!PickCardTag
  BY <1>2, <1>4 DEF Search!Type, Search!ToggleTag, Search!Choose, Search!PickCardTag
<1>5. CASE Search!ToggleCritical
  BY <1>3, <1>5 DEF Search!ToggleCritical
<1>6. CASE Search!RemovePill
  <2>1. CASE find' = [Search!Filtered([find.by EXCEPT !.importance = None])
                        EXCEPT !.scope = IF @ = "achievements" THEN "all" ELSE @]
    BY <2>1, <1>3
  <2> QED
    BY <1>2, <1>6, <2>1 DEF Search!RemovePill
<1>7. CASE Search!ResetFilters
  BY <1>7 DEF Search!ResetFilters, Search!Reset, NoSearch, FindShape, Search!Filtered
<1> QED
  BY <1>4, <1>5, <1>6, <1>7

LEMMA SearchBound ==
  ASSUME FindInv(find), FindBound(find), Search!SearchNext
  PROVE  FindBound(find')
<1>1. find \in FindShape
  BY DEF FindInv
<1>2. NoSearch(find, find') => FindBound(find')
  BY DEF NoSearch, FindBound, Held
<1>3. CASE \/ Search!ListTags \/ Search!ChooseScope \/ Search!OpenCard \/ Search!CloseDrawer
           \/ /\ find.timer = "clear"
              /\ find' = [find EXCEPT !.timer = None, !.searched = FALSE,
                            !.journals = None, !.wins = None]
  <2>1. NoSearch(find, find')
    BY <1>1, <1>3 DEF NoSearch, FindShape, Search!ListTags, Search!ChooseScope,
       Search!OpenCard, Search!CloseDrawer
  <2> QED
    BY <1>2, <2>1
<1>4. CASE find.newest < MaxSearches /\ find' = Search!Started
  <2> DEFINE s == [n |-> find.newest + 1, by |-> find.by]
  <2>1. find.newest \in Nat /\ MaxSearches \in Nat /\ find.newest < MaxSearches
    BY <1>1, <1>4, BoundsAssumption DEF FindShape
  <2>2. s.n = find.newest + 1
    OBVIOUS
  <2>3. /\ find'.newest = find.newest + 1 /\ find'.asked = find.asked \cup {s}
        /\ find'.journals = find.journals /\ find'.wins = find.wins
    BY <1>1, <1>4 DEF Search!Started, FindShape
  <2> HIDE DEF s
  <2>4. Held(find') = Held(find) \cup {s}
    BY <2>3 DEF Held
  <2> QED
    BY <2>1, <2>2, <2>3, <2>4 DEF FindBound
<1>5. CASE Search!SearchAnswers
  <2>1. PICK s \in find.asked, gotJournals \in BOOLEAN, gotWins \in BOOLEAN :
          find' = Search!Answered(s, gotJournals, gotWins)
    BY <1>5 DEF Search!SearchAnswers
  <2>2. /\ find'.newest = find.newest /\ find'.asked \subseteq find.asked
        /\ find'.journals \in {s, None} /\ find'.wins \in {s, None}
    BY <1>1, <2>1 DEF Search!Answered, FindShape
  <2>3. Held(find') \subseteq Held(find)
    BY <2>2 DEF Held
  <2> QED
    BY <2>2, <2>3 DEF FindBound
<1>6. CASE Search!TimerFires
  BY <1>3, <1>4, <1>6 DEF Search!TimerFires
<1> QED
  BY <1>1, <1>2, <1>3, <1>5, <1>6, FilteringSearchesNot DEF Search!SearchNext

LEMMA SearchTyped ==
  ASSUME NEW f, FindInv(f), FindBound(f)
  PROVE  f \in Search!Find
<1>1. f \in FindShape /\ MaxSearches \in Nat
  BY BoundsAssumption DEF FindInv
<1>2. f.newest \in 0..MaxSearches
  BY <1>1 DEF FindShape, FindBound
<1>3. Held(f) \subseteq Search!Searches
  <2> SUFFICES ASSUME NEW s \in Held(f) PROVE s \in Search!Searches
    OBVIOUS
  <2>1. s \in Search1
    BY <1>1 DEF Held, FindShape
  <2>2. 1 <= s.n /\ s.n <= f.newest
    BY DEF FindInv, FindBound
  <2>3. s.n \in Nat /\ f.newest \in Nat /\ f.newest <= MaxSearches /\ s.by \in Search!Criteria
    BY <1>1, <2>1 DEF Search1, FindShape, FindBound
  <2>4. s.n \in 1..MaxSearches
    BY <1>1, <2>2, <2>3
  <2>5. s = [n |-> s.n, by |-> s.by]
    BY <2>1 DEF Search1
  <2> QED
    BY <2>3, <2>4, <2>5 DEF Search!Searches
<1>4. /\ f.asked \in SUBSET Search!Searches
      /\ f.journals \in Search!Searches \cup {None} /\ f.wins \in Search!Searches \cup {None}
  BY <1>3 DEF Held
<1> QED
  BY <1>1, <1>2, <1>4 DEF FindShape, Search!Find

LEMMA SearchMountedBound == FindBound(Search!SearchMounted)
<1>1. MaxSearches \in Nat
  BY BoundsAssumption
<1> QED
  BY <1>1 DEF FindBound, Held, Search!SearchMounted

------------------------------------------------------------------------------
(* Calibration mode, within its bounds: an open page is one of the visits    *)
(* counted, and so is that of every request.                                 *)
WizardBound(w) ==
  /\ w.visits <= MaxOpened /\ w.count <= MaxTyped
  /\ w.open => w.visits >= 1
  /\ \A c \in w.calls : c.visit \in 1..MaxOpened

(* Steps that neither open the page nor type nor send.                       *)
Unsent(v, w) ==
  /\ w.visits = v.visits /\ w.count = v.count /\ w.calls \subseteq v.calls
  /\ w.open => v.open

LEMMA WizardBounded ==
  ASSUME WizardInv(wizard), WizardBound(wizard), Wizard!WizardNext
  PROVE  WizardBound(wizard')
<1>1. wizard \in WizardShape /\ MaxOpened \in Nat /\ MaxTyped \in Nat
  BY BoundsAssumption DEF WizardInv
<1>2. wizard.visits \in Nat /\ wizard.count \in Nat /\ wizard.open \in BOOLEAN
  BY <1>1 DEF WizardShape
<1>3. Unsent(wizard, wizard') => WizardBound(wizard')
  BY <1>2 DEF Unsent, WizardBound
<1>4. CASE Wizard!Open
  <2>1. /\ wizard'.visits = wizard.visits + 1 /\ wizard'.count = wizard.count
        /\ wizard'.calls = wizard.calls
    BY <1>1, <1>4 DEF Wizard!Open, WizardShape
  <2>2. wizard.visits < MaxOpened
    BY <1>4 DEF Wizard!Open
  <2> QED
    BY <1>1, <1>2, <2>1, <2>2 DEF WizardBound
<1>5. CASE Wizard!Type
  <2>1. /\ wizard'.visits = wizard.visits /\ wizard'.count = wizard.count + 1
        /\ wizard'.calls = wizard.calls /\ wizard'.open = wizard.open
    BY <1>1, <1>5 DEF Wizard!Type, WizardShape
  <2>2. wizard.count < MaxTyped
    BY <1>5 DEF Wizard!Type
  <2> QED
    BY <1>1, <1>2, <2>1, <2>2 DEF WizardBound
<1>6. CASE Wizard!TimerFires
  <2>2. CASE /\ wizard.open
             /\ wizard' = [Wizard!Started(wizard.timer, wizard.visits) EXCEPT !.timer = None]
    <3>1. wizard.visits \in 1..MaxOpened
      BY <1>1, <1>2, <2>2 DEF WizardBound
    <3>2. /\ wizard'.visits = wizard.visits /\ wizard'.count = wizard.count
          /\ wizard'.open = wizard.open
          /\ wizard'.calls = wizard.calls
               \cup {[save |-> Wizard!Due(wizard.timer), visit |-> wizard.visits]}
      BY <1>1, <2>2 DEF Wizard!Started, WizardShape
    <3> QED
      BY <3>1, <3>2 DEF WizardBound
  <2>3. ASSUME NEW s \in wizard.strays, NEW v \in 1..MaxOpened,
               wizard' = [Wizard!Started(s, v) EXCEPT !.strays = @ \ {s}]
        PROVE  WizardBound(wizard')
    <3>1. /\ wizard'.visits = wizard.visits /\ wizard'.count = wizard.count
          /\ wizard'.open = wizard.open
          /\ wizard'.calls = wizard.calls \cup {[save |-> Wizard!Due(s), visit |-> v]}
      BY <1>1, <2>3 DEF Wizard!Started, WizardShape
    <3> QED
      BY <3>1 DEF WizardBound
  <2> QED
    BY <1>6, <2>2, <2>3 DEF Wizard!TimerFires
<1>7. CASE Wizard!LoadAnswers
  <2>1. Unsent(wizard, wizard')
    BY <1>1, <1>7 DEF Wizard!LoadAnswers, Unsent, Wizard!Synced, WizardShape
  <2> QED
    BY <1>3, <2>1
<1>8. CASE Wizard!TrendArrives \/ Wizard!Step
  <2>1. ASSUME NEW m, wizard' = Wizard!Synced([wizard EXCEPT !.trends = @ \cup {m}])
        PROVE  Unsent(wizard, wizard')
    BY <1>1, <2>1 DEF Unsent, Wizard!Synced, WizardShape
  <2>2. ASSUME NEW s, wizard' = Wizard!Synced([wizard EXCEPT !.step = s])
        PROVE  Unsent(wizard, wizard')
    BY <1>1, <2>2 DEF Unsent, Wizard!Synced, WizardShape
  <2>3. Unsent(wizard, wizard')
    BY <1>8, <2>1, <2>2 DEF Wizard!TrendArrives, Wizard!Step
  <2> QED
    BY <1>3, <2>3
<1>9. CASE Wizard!SaveAnswers
  <2>1. PICK c \in wizard.calls :
          LET done == [wizard EXCEPT !.calls = @ \ {c}]
              put  == Wizard!Upsert(wizard.table, c.save.of, c.save.cycle, c.save.text)
          IN  \/ wizard' = Wizard!Synced([done EXCEPT !.table = put,
                                           !.notes[c.save.of] = c.save.text])
              \/ wizard' = [done EXCEPT !.table = put]
              \/ wizard' = [done EXCEPT !.amiss = @ \cup {c.save.of}]
              \/ wizard' = [done EXCEPT !.table = put, !.amiss = @ \cup {c.save.of}]
    BY <1>9 DEF Wizard!SaveAnswers
  <2> DEFINE put == Wizard!Upsert(wizard.table, c.save.of, c.save.cycle, c.save.text)
             rest == wizard.calls \ {c}
             kept == [wizard.notes EXCEPT ![c.save.of] = c.save.text]
             late == wizard.amiss \cup {c.save.of}
             w == [wizard EXCEPT !.calls = rest, !.table = put, !.notes = kept]
  <2>2. \/ wizard' = Wizard!Synced(w)
        \/ wizard' = [wizard EXCEPT !.calls = rest, !.table = put]
        \/ wizard' = [wizard EXCEPT !.calls = rest, !.amiss = late]
        \/ wizard' = [wizard EXCEPT !.calls = rest, !.table = put, !.amiss = late]
    BY <1>1, <2>1 DEF WizardShape
  <2>3. rest \subseteq wizard.calls
    OBVIOUS
  <2> HIDE DEF put, rest, kept, late
  <2>4. /\ Unsent(wizard, w)
        /\ \A b : Unsent(wizard, [w EXCEPT !.box = b])
    BY <1>1, <2>3 DEF Unsent, WizardShape
  <2>5. /\ Unsent(wizard, [wizard EXCEPT !.calls = rest, !.table = put])
        /\ Unsent(wizard, [wizard EXCEPT !.calls = rest, !.amiss = late])
        /\ Unsent(wizard, [wizard EXCEPT !.calls = rest, !.table = put, !.amiss = late])
    BY <1>1, <2>3 DEF Unsent, WizardShape
  <2> HIDE DEF w
  <2>6. Unsent(wizard, Wizard!Synced(w))
    BY <2>4 DEF Wizard!Synced
  <2>7. Unsent(wizard, wizard')
    BY <2>2, <2>5, <2>6
  <2> QED
    BY <1>3, <2>7
<1>10. CASE Wizard!Close
  <2>1. Unsent(wizard, wizard')
    BY <1>1, <1>10 DEF Wizard!Close, Wizard!Left, Unsent, WizardShape
  <2> QED
    BY <1>3, <2>1
<1> QED
  BY <1>4, <1>5, <1>6, <1>7, <1>8, <1>9, <1>10 DEF Wizard!WizardNext

LEMMA WizardTyped ==
  ASSUME NEW w, WizardInv(w), WizardBound(w)
  PROVE  w \in Wizard!Wizard
<1>1. w \in WizardShape /\ MaxOpened \in Nat /\ MaxTyped \in Nat
  BY BoundsAssumption DEF WizardInv
<1>2. w.visits \in 0..MaxOpened /\ w.count \in 0..MaxTyped
  BY <1>1 DEF WizardShape, WizardBound
<1>3. Save = Wizard!Saves
  BY DEF Save, Wizard!Saves
<1>4. w.calls \in SUBSET [save : Wizard!Saves, visit : 1..MaxOpened]
  <2> SUFFICES ASSUME NEW c \in w.calls PROVE c \in [save : Wizard!Saves, visit : 1..MaxOpened]
    OBVIOUS
  <2>1. c \in [save : Save, visit : Nat]
    BY <1>1 DEF WizardShape
  <2>2. c.visit \in 1..MaxOpened
    BY DEF WizardBound
  <2> QED
    BY <1>3, <2>1, <2>2
<1> QED
  BY <1>1, <1>2, <1>3, <1>4 DEF WizardShape, Wizard!Wizard

LEMMA WizardMountedBound == WizardBound(Wizard!WizardMounted)
<1>1. MaxOpened \in Nat /\ MaxTyped \in Nat
  BY BoundsAssumption
<1> QED
  BY <1>1 DEF WizardBound, Wizard!WizardMounted

------------------------------------------------------------------------------
(* The router: who is where, and nothing is kept of a page that is gone.     *)
Away(s) ==
  /\ s # "review" => desk = None
  /\ s # "foundation" => journals = None
  /\ s # "pack" => pack = None
  /\ s # "calendar" => calendar = None
  /\ s # "search" => find = None
  /\ s # "journals" => list = None
  /\ s # "entry" => view = None
  /\ s # "achievements" => shelf = None
  /\ s # "calibrate" => wizard = None
  /\ s # "team" => team = None

Routed == screen \in Screens /\ role \in Roles \cup {None} /\ Away(screen)

LEMMA StepRouted == Routed /\ [Next]_vars => Routed'
<1> SUFFICES ASSUME Routed, [Next]_vars PROVE Routed'
  OBVIOUS
<1>1. CASE UNCHANGED vars
  BY <1>1 DEF Routed, Away, vars, parts
<1>2. CASE Next
  <2>1. screen' \in Screens /\ role' \in Roles \cup {None} /\ OthersGone(screen')
    <3>1. CASE SignIn \/ Leave \/ SignOut
      BY <3>1 DEF SignIn, Leave, SignOut, Routed, Screens
    <3>2. CASE Visit
      BY <3>2 DEF Visit, Mounts, Routed, Screens
    <3>3. CASE \E s \in Pages : On(s)
      BY <3>3 DEF On, Routed
    <3> QED
      BY <1>2, <3>1, <3>2, <3>3 DEF Next, Pages
  <2>2. OthersGone(screen') => Away(screen)'
    BY DEF OthersGone, Away
  <2> QED
    BY <2>1, <2>2 DEF Routed
<1> QED
  BY <1>1, <1>2

LEMMA RoutedAlways == Spec => []Routed
<1>1. Init => Routed
  BY DEF Init, Routed, Away, Screens
<1> QED
  BY <1>1, StepRouted, PTL DEF Spec

(* The pages of AppProofs, within their bounds.                              *)
Bounded ==
  /\ screen = "review" => DeskTyped(desk)
  /\ screen = "search" => FindBound(find)
  /\ screen = "calibrate" => WizardBound(wizard)

LEMMA StepBounded == PagesInv /\ Bounded /\ [Next]_vars => Bounded'
<1> SUFFICES ASSUME PagesInv, Bounded, [Next]_vars PROVE Bounded'
  OBVIOUS
<1>1. (screen = "review" => DeskTyped(desk))'
  <2>1. Mounts("review") => desk' = Review!ReviewMounted
    BY DEF Mounts
  <2> QED
    BY <2>1, Framed, ReviewTyped, ReviewMountedTyped DEF PagesInv, OnReview, Bounded
<1>2. (screen = "search" => FindBound(find))'
  <2>1. Mounts("search") => find' = Search!SearchMounted
    BY DEF Mounts
  <2> QED
    BY <2>1, Framed, SearchBound, SearchMountedBound DEF PagesInv, OnSearch, Bounded
<1>3. (screen = "calibrate" => WizardBound(wizard))'
  <2>1. Mounts("calibrate") => wizard' = Wizard!WizardMounted
    BY DEF Mounts
  <2> QED
    BY <2>1, Framed, WizardBounded, WizardMountedBound DEF PagesInv, OnCalibrate, Bounded
<1> QED
  BY <1>1, <1>2, <1>3 DEF Bounded

LEMMA BoundedAlways == Spec => []Bounded
<1>1. Init => Bounded
  BY DEF Init, Bounded
<1> QED
  BY <1>1, StepBounded, Inductive, PTL DEF Spec

(* App.jsx: the page on the screen keeps its shape, none other holds any     *)
(* state, and only managers are on the team's pages.                         *)
THEOREM ShapeCorrect == Spec => []AppTypeOK
<1> DEFINE M == screen \in Managed => role \in {"manager", "admin"}
           Seen == /\ OnJournals /\ OnEntry /\ OnPack /\ OnShelf /\ OnCalendar /\ OnWork /\ OnTeam
<1>1. ASSUME PagesInv, Bounded, Seen, Routed, M
      PROVE  AppTypeOK
  <2>1. screen = "review" => Review!ReviewTypeOK
    BY <1>1 DEF Bounded, DeskTyped, OneDialog, Review!ReviewTypeOK
  <2>2. screen = "search" => find \in Search!Find
    BY <1>1, SearchTyped DEF PagesInv, OnSearch, Bounded
  <2>3. screen = "calibrate" => wizard \in Wizard!Wizard
    BY <1>1, WizardTyped DEF PagesInv, OnCalibrate, Bounded
  <2>4. /\ screen = "foundation" => journals \in Seq(Written)
        /\ screen = "pack" => pack \in Packed!Pack
        /\ screen = "calendar" => calendar \in Calendar!Calendar
        /\ screen = "journals" => list \in Archive!List
        /\ screen = "entry" => view \in Detail!View
        /\ screen = "achievements" => shelf \in Shelf!Shelf
        /\ screen = "team" => team \in Desk!TeamState
    BY <1>1 DEF OnJournals, OnEntry, OnPack, OnShelf, OnCalendar, OnWork, OnTeam,
       ListInv, ViewInv, PackInv, ShelfInv, CalendarInv, TeamInv, TeamShape
  <2> QED
    BY <1>1, <2>1, <2>2, <2>3, <2>4 DEF AppTypeOK, Routed, Away
<1> HIDE DEF M, Seen
<1>2. Spec => []M
  BY ManagersOnly DEF M
<1>3. OnJournals /\ OnEntry /\ OnPack /\ OnShelf /\ OnCalendar /\ OnWork /\ OnTeam => Seen
  BY DEF Seen
<1> QED
  BY <1>1, <1>2, <1>3, Inductive, BoundedAlways, RoutedAlways, OnJournalsAlways, OnEntryAlways,
     OnPackAlways, OnShelfAlways, OnCalendarAlways, OnWorkAlways, OnTeamAlways, PTL
=============================================================================
