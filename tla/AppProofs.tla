------------------------------- MODULE AppProofs -------------------------------
(***************************************************************************)
(* What the review page, the search page and calibration mode keep for any  *)
(* cycles, words, tags, members and bounds, however often they are left and *)
(* opened again.  Each page has an invariant of its own; it holds whenever  *)
(* the page is mounted, every step of the page keeps it, and every other    *)
(* step of the router leads away from the page (Framed).                    *)
(***************************************************************************)
EXTENDS App, TLAPS

------------------------------------------------------------------------------
(* The review page.  Loads are numbered as they are started; the one started *)
(* last is for the period on the page, and so is what came of it unless it   *)
(* was lost or overtaken.                                                    *)
Load  == [n : Nat, dates : Review!Periods]
Asked == [label : Review!Periods, of : Load \cup {None}, wins : Load \cup {None},
          early : BOOLEAN, moved : BOOLEAN]

DeskShape ==
  [period : Review!Periods, listed : {"waiting", "none", "some"},
   loads : SUBSET Load, newest : Nat, loading : BOOLEAN,
   entries : Load \cup {None}, wins : Load \cup {None},
   draft : Review!Periods \cup {None}, asked : Asked \cup {None},
   asks : Nat, last : Review!Periods \cup {None}, summary : Asked \cup {None},
   error : Review!Errors \cup {None}, exporting : BOOLEAN, amiss : SUBSET Review!Mishaps]

Numbered(d) == \A l \in d.loads : l.n <= d.newest

(* The data x are there and of the period p.                                 *)
IsOf(x, p) == x # None /\ x.dates = Review!Dates(p)

AllAnswered(d) == \A l \in d.loads : l.n # d.newest

LatestFits(d) ==
  d.period # Blank =>
    /\ \A l \in d.loads : l.n = d.newest => IsOf(l, d.period)
    /\ AllAnswered(d) /\ "entries" \notin d.amiss => IsOf(d.entries, d.period)
    /\ AllAnswered(d) /\ "wins" \notin d.amiss => IsOf(d.wins, d.period)

Honest(d) ==
  /\ d.loading => d.loads # {}
  /\ d.loads # {} /\ "loading" \notin d.amiss => d.loading

(* A summary, or a request for one, on the page of the period p.             *)
Fits(s, p) ==
  s # None /\ ~s.moved =>
    /\ s.label = p
    /\ ~s.early => IsOf(s.of, p) /\ IsOf(s.wins, p)

Labelled(d) == Fits(d.summary, d.period) /\ Fits(d.asked, d.period)

Remembered(d) == d.asked # None \/ d.error # None => d.last \in Review!Periods

(* Everything but what a change of period must renew.                        *)
Sound(d) == d \in DeskShape /\ Numbered(d) /\ Honest(d) /\ Labelled(d) /\ Remembered(d)

DeskInv(d) == Sound(d) /\ LatestFits(d)

(* The invariant depends on nothing else.                                    *)
LEMMA SameFields ==
  ASSUME NEW d, NEW e, DeskInv(d), e \in DeskShape,
         e.period = d.period, e.loads = d.loads, e.newest = d.newest,
         e.loading = d.loading, e.entries = d.entries, e.wins = d.wins,
         e.asked = d.asked, e.last = d.last, e.error \in {d.error, None},
         e.summary = d.summary, e.amiss = d.amiss
  PROVE  DeskInv(e)
<1>1. Numbered(e) /\ Honest(e)
  BY DEF DeskInv, Sound, Numbered, Honest
<1>2. Labelled(e) /\ Remembered(e)
  BY DEF DeskInv, Sound, Labelled, Remembered
<1>3. AllAnswered(e) = AllAnswered(d)
  BY DEF AllAnswered
<1>4. LatestFits(e)
  BY <1>3 DEF DeskInv, LatestFits
<1> QED
  BY <1>1, <1>2, <1>4 DEF DeskInv, Sound

LEMMA RemountedKeeps ==
  ASSUME NEW d, DeskInv(d)
  PROVE  DeskInv(Review!Remounted(d))
<1>1. d \in DeskShape
  BY DEF DeskInv, Sound
<1>2. CASE d.draft = None
  BY <1>2 DEF Review!Remounted
<1>3. CASE d.draft # None
  <2> DEFINE e == [d EXCEPT !.draft = d.period]
  <2>1. /\ e \in DeskShape
        /\ e.period = d.period /\ e.loads = d.loads /\ e.newest = d.newest
        /\ e.loading = d.loading /\ e.entries = d.entries /\ e.wins = d.wins
        /\ e.asked = d.asked /\ e.last = d.last /\ e.error = d.error
        /\ e.summary = d.summary /\ e.amiss = d.amiss
    BY <1>1 DEF DeskShape
  <2> HIDE DEF e
  <2>2. DeskInv(e)
    BY <2>1, SameFields
  <2> QED
    BY <1>3, <2>2 DEF Review!Remounted, e
<1> QED
  BY <1>2, <1>3

LEMMA NoLoad == \A l \in Load : l # None
BY NoneAssumption DEF Load, Review!Periods, Review!Others

LEMMA DatesType ==
  ASSUME NEW p \in Review!Periods
  PROVE  Review!Dates(p) \in Review!Periods
BY DEF Review!Dates, Review!Periods, Review!Others

(* The effect that follows a change of period makes the page right again.    *)
LEMMA ReloadedKeeps ==
  ASSUME NEW d, Sound(d)
  PROVE  DeskInv(Review!Reloaded(d))
<1>1. d \in DeskShape
  BY DEF Sound
<1>2. CASE d.period = Blank
  <2>1. DeskInv(d)
    BY <1>2 DEF DeskInv, LatestFits
  <2> QED
    BY <1>2, <2>1, RemountedKeeps DEF Review!Reloaded
<1>3. CASE d.period # Blank
  <2> DEFINE l == [n |-> d.newest + 1, dates |-> Review!Dates(d.period)]
             e == [d EXCEPT !.newest = d.newest + 1, !.loading = TRUE, !.amiss = {},
                     !.loads = d.loads \cup {l}]
  <2>0. /\ l \in Load /\ l.n = d.newest + 1 /\ l.dates = Review!Dates(d.period)
        /\ l # None
    <3>1. l.n = d.newest + 1 /\ l.dates = Review!Dates(d.period)
      OBVIOUS
    <3>2. l \in Load
      BY <1>1, DatesType DEF DeskShape, Load
    <3> QED
      BY <3>1, <3>2, NoLoad
  <2> HIDE DEF l
  <2>1. e \in DeskShape
    <3>1. d.loads \cup {l} \in SUBSET Load
      BY <1>1, <2>0 DEF DeskShape
    <3>2. d.newest + 1 \in Nat
      BY <1>1 DEF DeskShape
    <3> QED
      BY <1>1, <3>1, <3>2 DEF DeskShape
  <2>2. /\ e.period = d.period /\ e.loads = d.loads \cup {l} /\ e.newest = d.newest + 1
        /\ e.loading = TRUE /\ e.entries = d.entries /\ e.wins = d.wins
        /\ e.asked = d.asked /\ e.last = d.last /\ e.error = d.error
        /\ e.summary = d.summary /\ e.amiss = {}
    BY <1>1 DEF DeskShape
  <2> HIDE DEF e
  <2>3. d.newest \in Nat /\ \A k \in d.loads : k.n \in Nat
    BY <1>1 DEF DeskShape, Load
  <2>4. Numbered(e)
    BY <2>0, <2>2, <2>3 DEF Numbered, Sound
  <2>5. LatestFits(e)
    <3>1. ~AllAnswered(e)
      BY <2>0, <2>2 DEF AllAnswered
    <3>2. \A k \in e.loads : k.n = e.newest => k = l
      BY <2>0, <2>2, <2>3 DEF Numbered, Sound
    <3> QED
      BY <2>0, <2>2, <3>1, <3>2 DEF LatestFits, IsOf
  <2>6. Honest(e) /\ Labelled(e) /\ Remembered(e)
    BY <2>2 DEF Honest, Labelled, Remembered, Sound
  <2>7. DeskInv(e)
    BY <2>1, <2>4, <2>5, <2>6 DEF DeskInv, Sound
  <2>8. Review!Reloaded(d) = Review!Remounted(e)
    BY <1>3 DEF Review!Reloaded, e, l
  <2> QED
    BY <2>7, <2>8, RemountedKeeps
<1> QED
  BY <1>2, <1>3

LEMMA ChosenPeriod ==
  ASSUME desk \in DeskShape, NEW p \in Review!Others \cup Review!Listed
  PROVE  p \in Review!Periods
BY DEF Review!Listed, Review!Periods

(* A period that changes excuses what was asked for another.                 *)
LEMMA MovedFits ==
  ASSUME NEW x \in Asked \cup {None}, NEW p
  PROVE  Review!Moved(x) \in Asked \cup {None} /\ Fits(Review!Moved(x), p)
<1>1. CASE x = None
  BY <1>1 DEF Review!Moved, Fits
<1>2. CASE x # None
  <2> DEFINE y == [x EXCEPT !.moved = TRUE]
  <2>1. y \in Asked /\ y.moved
    BY <1>2 DEF Asked
  <2> QED
    BY <1>2, <2>1 DEF Review!Moved, Fits
<1> QED
  BY <1>1, <1>2

LEMMA ShiftedKeeps ==
  ASSUME NEW d, Sound(d), NEW p \in Review!Periods
  PROVE  LET e == Review!Shifted(d, p)
         IN  /\ Sound(e)
             /\ e.period = p /\ e.loads = d.loads /\ e.newest = d.newest
             /\ e.loading = d.loading /\ e.entries = d.entries /\ e.wins = d.wins
             /\ e.asks = d.asks /\ e.amiss = d.amiss
<1>1. d \in DeskShape
  BY DEF Sound
<1>2. CASE p = d.period
  BY <1>2 DEF Review!Shifted
<1>3. CASE p # d.period
  <2> DEFINE a == Review!Moved(d.asked)
             s == Review!Moved(d.summary)
             e == [d EXCEPT !.period = p, !.asked = a, !.summary = s]
  <2>1. /\ a \in Asked \cup {None} /\ Fits(a, p)
        /\ s \in Asked \cup {None} /\ Fits(s, p)
    BY <1>1, MovedFits DEF DeskShape
  <2>2. a # None => d.asked # None
    BY DEF Review!Moved
  <2>3. Review!Shifted(d, p) = e
    BY <1>1, <1>3 DEF Review!Shifted, DeskShape
  <2> HIDE DEF a, s
  <2>4. e \in DeskShape
    BY <1>1, <2>1 DEF DeskShape
  <2>5. /\ e.period = p /\ e.loads = d.loads /\ e.newest = d.newest
        /\ e.loading = d.loading /\ e.entries = d.entries /\ e.wins = d.wins
        /\ e.asks = d.asks /\ e.amiss = d.amiss
    BY <1>1 DEF DeskShape
  <2>6. e.asked = a /\ e.summary = s /\ e.last = d.last /\ e.error = d.error
    BY <1>1 DEF DeskShape
  <2> HIDE DEF e
  <2>7. Numbered(e) /\ Honest(e)
    BY <2>5 DEF Sound, Numbered, Honest
  <2>8. Labelled(e) /\ Remembered(e)
    BY <2>1, <2>2, <2>5, <2>6 DEF Sound, Labelled, Remembered
  <2> QED
    BY <2>3, <2>4, <2>5, <2>7, <2>8 DEF Sound
<1> QED
  BY <1>2, <1>3

LEMMA ListPeriodsKeeps ==
  ASSUME DeskInv(desk), Review!ListPeriods
  PROVE  DeskInv(desk')
<1>1. Sound(desk) /\ desk \in DeskShape
  BY DEF DeskInv, Sound
<1>2. ASSUME NEW l \in {"some", "none"}
      PROVE  DeskInv([desk EXCEPT !.listed = l])
  <2> DEFINE e == [desk EXCEPT !.listed = l]
  <2>1. /\ e \in DeskShape
        /\ e.period = desk.period /\ e.loads = desk.loads /\ e.newest = desk.newest
        /\ e.loading = desk.loading /\ e.entries = desk.entries /\ e.wins = desk.wins
        /\ e.asked = desk.asked /\ e.last = desk.last /\ e.error = desk.error
        /\ e.summary = desk.summary /\ e.amiss = desk.amiss
    BY <1>1 DEF DeskShape
  <2> HIDE DEF e
  <2> QED
    BY <2>1, SameFields DEF e
<1> DEFINE some == [desk EXCEPT !.listed = "some"]
           none == [desk EXCEPT !.listed = "none"]
<1>3. DeskInv(some) /\ DeskInv(none)
  BY <1>2
<1> HIDE DEF some, none
<1>4. ASSUME NEW k \in Kpis,
             desk' = Review!Reloaded(
                       Review!Shifted(some, IF desk.period = Unset THEN k ELSE desk.period))
      PROVE  DeskInv(desk')
  <2> DEFINE p == IF desk.period = Unset THEN k ELSE desk.period
             d == Review!Shifted(some, p)
  <2>1. p \in Review!Periods
    BY <1>1 DEF DeskShape, Review!Periods
  <2> HIDE DEF p
  <2>2. Sound(d)
    BY <1>3, <2>1, ShiftedKeeps DEF DeskInv
  <2>3. desk' = Review!Reloaded(d)
    BY <1>4 DEF p
  <2> HIDE DEF d
  <2> QED
    BY <2>2, <2>3, ReloadedKeeps
<1>5. DeskInv(Review!Reloaded(none)) /\ DeskInv(Review!Remounted(none))
  BY <1>3, ReloadedKeeps, RemountedKeeps DEF DeskInv
<1> QED
  BY <1>4, <1>5 DEF Review!ListPeriods, some, none

LEMMA LoadAnswersKeeps ==
  ASSUME DeskInv(desk), Review!LoadAnswers
  PROVE  DeskInv(desk')
<1>1. desk \in DeskShape
  BY DEF DeskInv, Sound
<1> DEFINE A(l, gotEntries, gotWins) ==
             desk.amiss \cup {h \in {"entries"} : Review!Astray(l, gotEntries)}
                        \cup {h \in {"wins"} : Review!Astray(l, gotWins)}
           D(l, gotEntries, gotWins) ==
             Review!Loaded([desk EXCEPT
                  !.entries = IF gotEntries THEN l ELSE @,
                  !.wins    = IF gotWins THEN l ELSE @,
                  !.amiss   = @ \cup {h \in {"entries"} : Review!Astray(l, gotEntries)}
                                \cup {h \in {"wins"} : Review!Astray(l, gotWins)}],
               l, gotEntries)
<1>2. PICK l \in desk.loads, gotEntries \in BOOLEAN, gotWins \in BOOLEAN :
        desk' = Review!Remounted(D(l, gotEntries, gotWins))
  BY DEF Review!LoadAnswers
<1> DEFINE e == IF gotEntries THEN l ELSE desk.entries
           w == IF gotWins THEN l ELSE desk.wins
           r == desk.loads \ {l}
           a == A(l, gotEntries, gotWins) \cup {h \in {"loading"} : desk.loads # {l}}
           d == [desk EXCEPT !.entries = e, !.wins = w, !.loads = r, !.loading = FALSE,
                             !.amiss = a]
<1>3. D(l, gotEntries, gotWins) = d
  BY <1>1 DEF DeskShape, Review!Loaded
<1>4. /\ e \in Load \cup {None} /\ w \in Load \cup {None} /\ r \in SUBSET Load
      /\ a \in SUBSET Review!Mishaps
  BY <1>1 DEF DeskShape, Review!Mishaps
<1>5. l # None /\ (l.n = desk.newest /\ desk.period # Blank => IsOf(l, desk.period))
  BY <1>1, NoLoad DEF DeskInv, LatestFits, DeskShape
<1>6. ("entries" \notin a /\ desk.period # Blank /\ \A x \in r : x.n # desk.newest)
        => IsOf(e, desk.period)
  <2> SUFFICES ASSUME "entries" \notin a, desk.period # Blank,
                      \A x \in r : x.n # desk.newest
               PROVE  IsOf(e, desk.period)
    OBVIOUS
  <2>1. ~Review!Astray(l, gotEntries) /\ "entries" \notin desk.amiss
    OBVIOUS
  <2>2. CASE l.n = desk.newest
    BY <1>5, <2>1, <2>2 DEF Review!Astray
  <2>3. CASE l.n # desk.newest
    <3>1. AllAnswered(desk) /\ Review!Answered
      BY <2>3 DEF AllAnswered, Review!Answered
    <3>2. ~gotEntries
      BY <2>1, <2>3, <3>1 DEF Review!Astray
    <3> QED
      BY <2>1, <3>1, <3>2 DEF DeskInv, LatestFits
  <2> QED
    BY <2>2, <2>3
<1>7. ("wins" \notin a /\ desk.period # Blank /\ \A x \in r : x.n # desk.newest)
        => IsOf(w, desk.period)
  <2> SUFFICES ASSUME "wins" \notin a, desk.period # Blank,
                      \A x \in r : x.n # desk.newest
               PROVE  IsOf(w, desk.period)
    OBVIOUS
  <2>1. ~Review!Astray(l, gotWins) /\ "wins" \notin desk.amiss
    OBVIOUS
  <2>2. CASE l.n = desk.newest
    BY <1>5, <2>1, <2>2 DEF Review!Astray
  <2>3. CASE l.n # desk.newest
    <3>1. AllAnswered(desk) /\ Review!Answered
      BY <2>3 DEF AllAnswered, Review!Answered
    <3>2. ~gotWins
      BY <2>1, <2>3, <3>1 DEF Review!Astray
    <3> QED
      BY <2>1, <3>1, <3>2 DEF DeskInv, LatestFits
  <2> QED
    BY <2>2, <2>3
<1>8. r # {} => "loading" \in a
  OBVIOUS
<1> HIDE DEF A, D, e, w, a
<1>9. d \in DeskShape
  <2> HIDE DEF r
  <2> QED
    BY <1>1, <1>4 DEF DeskShape
<1>10. /\ d.period = desk.period /\ d.loads = desk.loads \ {l} /\ d.newest = desk.newest
       /\ d.loading = FALSE /\ d.entries = e /\ d.wins = w
       /\ d.asked = desk.asked /\ d.last = desk.last /\ d.error = desk.error
       /\ d.summary = desk.summary /\ d.amiss = a
  BY <1>1 DEF DeskShape
<1> HIDE DEF d
<1>11. Numbered(d) /\ Honest(d)
  BY <1>8, <1>10 DEF DeskInv, Sound, Numbered, Honest
<1>12. Labelled(d) /\ Remembered(d)
  BY <1>10 DEF DeskInv, Sound, Labelled, Remembered
<1>13. LatestFits(d)
  BY <1>6, <1>7, <1>10 DEF DeskInv, LatestFits, AllAnswered
<1>14. DeskInv(d)
  BY <1>9, <1>11, <1>12, <1>13 DEF DeskInv, Sound
<1> QED
  BY <1>2, <1>3, <1>14, RemountedKeeps

LEMMA SelectPeriodKeeps ==
  ASSUME DeskInv(desk), Review!SelectPeriod
  PROVE  DeskInv(desk')
<1>1. desk \in DeskShape /\ Sound(desk)
  BY DEF DeskInv, Sound
<1>2. PICK p \in Review!Others \cup Review!Listed : desk' = Review!Chosen(p)
  BY DEF Review!SelectPeriod
<1> DEFINE e == Review!Shifted(desk, p)
           d == [e EXCEPT !.summary = None]
<1>3. Sound(e)
  BY <1>1, ChosenPeriod, ShiftedKeeps
<1>4. desk' = Review!Reloaded(d)
  BY <1>2 DEF Review!Chosen
<1> HIDE DEF e
<1>5. /\ d \in DeskShape
      /\ d.period = e.period /\ d.loads = e.loads /\ d.newest = e.newest
      /\ d.loading = e.loading /\ d.asked = e.asked /\ d.last = e.last
      /\ d.error = e.error /\ d.summary = None /\ d.amiss = e.amiss
  BY <1>3 DEF Sound, DeskShape
<1> HIDE DEF d
<1>6. Numbered(d) /\ Honest(d)
  BY <1>3, <1>5 DEF Sound, Numbered, Honest
<1>7. Labelled(d) /\ Remembered(d)
  BY <1>3, <1>5 DEF Sound, Labelled, Fits, Remembered
<1> QED
  BY <1>4, <1>5, <1>6, <1>7, ReloadedKeeps DEF Sound

(* What is asked for at rest is of the period that names it.                 *)
LEMMA RequestFits ==
  ASSUME DeskInv(desk), NEW p \in Review!Periods
  PROVE  Review!Request(p) \in Asked /\ Fits(Review!Request(p), p)
<1> DEFINE a == Review!Request(p)
<1>1. /\ a \in Asked
      /\ a.label = p /\ a.of = desk.entries /\ a.wins = desk.wins /\ a.early = Review!Early(p)
  BY DEF Review!Request, Review!Early, Asked, DeskInv, Sound, DeskShape
<1>2. ~Review!Early(p) => IsOf(desk.entries, p) /\ IsOf(desk.wins, p)
  BY DEF Review!Early, Review!Answered, DeskInv, LatestFits, AllAnswered
<1> HIDE DEF a
<1> QED
  BY <1>1, <1>2 DEF Fits, a

(* handleGenerateSynthesis, from the dialog or from the error.               *)
LEMMA AskKeeps ==
  ASSUME DeskInv(desk), NEW p \in Review!Periods, Review!Ask(p)
  PROVE  DeskInv(desk')
<1>1. desk \in DeskShape /\ Sound(desk)
  BY DEF DeskInv, Sound
<1> DEFINE a == Review!Request(p)
           s == Review!Shifted(desk, p)
           n == s.asks + 1
           d == [s EXCEPT !.draft = None, !.error = None, !.last = p, !.asked = a, !.asks = n]
<1>2. a \in Asked /\ Fits(a, p)
  BY RequestFits
<1>3. /\ Sound(s) /\ s \in DeskShape
      /\ s.period = p /\ s.loads = desk.loads /\ s.newest = desk.newest
      /\ s.loading = desk.loading /\ s.entries = desk.entries /\ s.wins = desk.wins
      /\ s.amiss = desk.amiss
  BY <1>1, ShiftedKeeps DEF Sound
<1>4. desk' = IF p = desk.period THEN d ELSE Review!Reloaded(d)
  <2>1. d = [s EXCEPT !.draft = None, !.error = None, !.last = p,
                      !.asked = Review!Request(p), !.asks = @ + 1]
    BY <1>3 DEF DeskShape
  <2> QED
    BY <2>1 DEF Review!Ask, Review!Generated
<1>5. n \in Nat
  BY <1>3 DEF DeskShape
<1> HIDE DEF a, s, n
<1>6. d \in DeskShape
  <2>1. a \in Asked \cup {None} /\ p \in Review!Periods \cup {None}
    BY <1>2
  <2> DEFINE g == [s EXCEPT !.draft = None, !.error = None]
             h == [g EXCEPT !.last = p, !.asked = a, !.asks = n]
  <2>2. g \in DeskShape
    BY <1>3, ZenonT(60) DEF DeskShape
  <2>3. d = h
    BY <1>3 DEF DeskShape
  <2> HIDE DEF g, d
  <2>4. h \in DeskShape
    BY <1>5, <2>1, <2>2, ZenonT(60) DEF DeskShape
  <2> QED
    BY <2>3, <2>4
<1>7. /\ d.period = p /\ d.loads = desk.loads /\ d.newest = desk.newest
      /\ d.loading = desk.loading /\ d.entries = desk.entries /\ d.wins = desk.wins
      /\ d.asked = a /\ d.last = p /\ d.summary = s.summary /\ d.amiss = desk.amiss
  BY <1>3 DEF DeskShape
<1> HIDE DEF d
<1>8. Sound(d)
  <2>1. Numbered(d) /\ Honest(d)
    BY <1>1, <1>7 DEF Sound, Numbered, Honest
  <2>2. Labelled(d) /\ Remembered(d)
    BY <1>2, <1>3, <1>7 DEF Sound, Labelled, Remembered
  <2> QED
    BY <1>6, <2>1, <2>2 DEF Sound
<1>9. CASE p = desk.period
  <2>1. LatestFits(d)
    BY <1>7, <1>9 DEF DeskInv, LatestFits, AllAnswered
  <2> QED
    BY <1>4, <1>8, <1>9, <2>1 DEF DeskInv
<1>10. CASE p # desk.period
  BY <1>4, <1>8, <1>10, ReloadedKeeps
<1> QED
  BY <1>9, <1>10

LEMMA AskAnswersKeeps ==
  ASSUME DeskInv(desk), Review!AskAnswers
  PROVE  DeskInv(desk')
<1>1. desk \in DeskShape /\ desk.asked # None
  BY DEF DeskInv, Sound, Review!AskAnswers
<1>2. PICK s \in {desk.asked, desk.summary}, e \in Review!Errors \cup {None} :
        desk' = [desk EXCEPT !.summary = s, !.error = e, !.asked = None]
  <2>1. CASE desk' = [desk EXCEPT !.summary = desk.asked, !.asked = None]
    <3>1. desk' = [desk EXCEPT !.summary = desk.asked, !.error = desk.error, !.asked = None]
      BY <1>1, <2>1 DEF DeskShape
    <3> QED
      BY <1>1, <3>1 DEF DeskShape
  <2>2. ASSUME NEW e \in Review!Errors, desk' = [desk EXCEPT !.error = e, !.asked = None]
        PROVE  desk' = [desk EXCEPT !.summary = desk.summary, !.error = e, !.asked = None]
    BY <1>1, <2>2 DEF DeskShape
  <2> QED
    BY <2>1, <2>2 DEF Review!AskAnswers
<1>3. /\ desk' \in DeskShape
      /\ desk'.period = desk.period /\ desk'.loads = desk.loads
      /\ desk'.newest = desk.newest /\ desk'.loading = desk.loading
      /\ desk'.entries = desk.entries /\ desk'.wins = desk.wins
      /\ desk'.asked = None /\ desk'.last = desk.last /\ desk'.summary = s
      /\ desk'.amiss = desk.amiss
  BY <1>1, <1>2 DEF DeskShape
<1>4. Numbered(desk') /\ Honest(desk')
  BY <1>3 DEF DeskInv, Sound, Numbered, Honest
<1>5. Labelled(desk') /\ Remembered(desk')
  <2>1. desk.last \in Review!Periods
    BY <1>1 DEF DeskInv, Sound, Remembered
  <2>2. Fits(s, desk.period) /\ Fits(None, desk.period)
    BY DEF DeskInv, Sound, Labelled, Fits
  <2> QED
    BY <1>3, <2>1, <2>2 DEF Labelled, Remembered
<1>6. LatestFits(desk')
  BY <1>3 DEF DeskInv, LatestFits, AllAnswered
<1> QED
  BY <1>3, <1>4, <1>5, <1>6 DEF DeskInv, Sound

(* The dialogs open and close; nothing that is loaded or asked changes.      *)
Aside ==
  \/ Review!OpenConfig \/ Review!EditDraft \/ Review!CloseConfig
  \/ Review!ConfigFromError \/ Review!CloseError
  \/ Review!OpenExport \/ Review!CloseExport

LEMMA AsideKeeps ==
  ASSUME DeskInv(desk), Aside
  PROVE  DeskInv(desk')
<1>1. desk \in DeskShape
  BY DEF DeskInv, Sound
<1>2. PICK draft \in Review!Periods \cup {None}, error \in {desk.error, None},
           exporting \in BOOLEAN :
        desk' = [desk EXCEPT !.draft = draft, !.error = error, !.exporting = exporting]
  <2>0. /\ desk.draft \in Review!Periods \cup {None} /\ desk.error \in Review!Errors \cup {None}
        /\ desk.exporting \in BOOLEAN /\ desk.period \in Review!Periods
    BY <1>1 DEF DeskShape
  <2>1. CASE Review!OpenConfig
    <3>1. desk' = [desk EXCEPT !.draft = desk.period, !.error = desk.error,
                     !.exporting = desk.exporting]
      BY <1>1, <2>1 DEF Review!OpenConfig, DeskShape
    <3> QED
      BY <2>0, <3>1
  <2>2. CASE Review!EditDraft
    <3>1. PICK p \in Review!Others \cup Review!Listed : desk' = [desk EXCEPT !.draft = p]
      BY <2>2 DEF Review!EditDraft
    <3>2. p \in Review!Periods
      BY <1>1, ChosenPeriod
    <3>3. desk' = [desk EXCEPT !.draft = p, !.error = desk.error, !.exporting = desk.exporting]
      BY <1>1, <3>1 DEF DeskShape
    <3> QED
      BY <2>0, <3>2, <3>3
  <2>3. CASE Review!CloseConfig
    <3>1. desk' = [desk EXCEPT !.draft = None, !.error = desk.error,
                     !.exporting = desk.exporting]
      BY <1>1, <2>3 DEF Review!CloseConfig, DeskShape
    <3> QED
      BY <2>0, <3>1
  <2>4. CASE Review!ConfigFromError
    <3>1. desk' = [desk EXCEPT !.draft = desk.period, !.error = None,
                     !.exporting = desk.exporting]
      BY <1>1, <2>4 DEF Review!ConfigFromError, DeskShape
    <3> QED
      BY <2>0, <3>1
  <2>5. CASE Review!CloseError
    <3>1. desk' = [desk EXCEPT !.draft = desk.draft, !.error = None,
                     !.exporting = desk.exporting]
      BY <1>1, <2>5 DEF Review!CloseError, DeskShape
    <3> QED
      BY <2>0, <3>1
  <2>6. CASE Review!OpenExport
    <3>1. desk' = [desk EXCEPT !.draft = desk.draft, !.error = desk.error, !.exporting = TRUE]
      BY <1>1, <2>6 DEF Review!OpenExport, DeskShape
    <3> QED
      BY <2>0, <3>1
  <2>7. CASE Review!CloseExport
    <3>1. desk' = [desk EXCEPT !.draft = desk.draft, !.error = desk.error, !.exporting = FALSE]
      BY <1>1, <2>7 DEF Review!CloseExport, DeskShape
    <3> QED
      BY <2>0, <3>1
  <2> QED
    BY <2>1, <2>2, <2>3, <2>4, <2>5, <2>6, <2>7 DEF Aside
<1>3. /\ desk' \in DeskShape
      /\ desk'.period = desk.period /\ desk'.loads = desk.loads
      /\ desk'.newest = desk.newest /\ desk'.loading = desk.loading
      /\ desk'.entries = desk.entries /\ desk'.wins = desk.wins
      /\ desk'.asked = desk.asked /\ desk'.last = desk.last /\ desk'.error \in {desk.error, None}
         /\ desk'.summary = desk.summary /\ desk'.amiss = desk.amiss
  <2>1. error \in Review!Errors \cup {None}
    BY <1>1 DEF DeskShape
  <2> QED
    BY <1>1, <1>2, <2>1 DEF DeskShape
<1> QED
  BY <1>3, SameFields

LEMMA ReviewNextKeeps ==
  ASSUME DeskInv(desk), Review!ReviewNext
  PROVE  DeskInv(desk')
<1>1. desk \in DeskShape
  BY DEF DeskInv, Sound
<1>2. CASE Review!Generate
  <2>1. desk.draft \in Review!Periods /\ Review!Ask(desk.draft)
    BY <1>1, <1>2 DEF Review!Generate, DeskShape
  <2> QED
    BY <2>1, AskKeeps
<1>3. CASE Review!Retry
  <2>1. desk.last \in Review!Periods /\ Review!Ask(desk.last)
    BY <1>3 DEF Review!Retry, DeskInv, Sound, Remembered
  <2> QED
    BY <2>1, AskKeeps
<1> QED
  BY <1>2, <1>3, ListPeriodsKeeps, LoadAnswersKeeps, SelectPeriodKeeps, AskAnswersKeeps,
     AsideKeeps DEF Review!ReviewNext, Aside

LEMMA ReviewMountedRight == DeskInv(Review!ReviewMounted)
<1> DEFINE d == Review!ReviewMounted
           l == [n |-> 1, dates |-> Custom]
<1>1. l \in Load /\ l.n = 1 /\ l.dates = Custom /\ l # None
  BY NoLoad DEF Load, Review!Periods, Review!Others
<1>2. /\ d.period = Unset /\ d.loads = {l} /\ d.newest = 1 /\ d.loading = TRUE
      /\ d.entries = None /\ d.wins = None /\ d.asked = None /\ d.last = None
      /\ d.error = None /\ d.summary = None /\ d.amiss = {}
  BY DEF Review!ReviewMounted
<1>3. d \in DeskShape
  BY <1>1 DEF Review!ReviewMounted, DeskShape, Review!Periods
<1> HIDE DEF d, l
<1>4. Numbered(d) /\ Honest(d) /\ Labelled(d) /\ Remembered(d)
  BY <1>1, <1>2 DEF Numbered, Honest, Labelled, Fits, Remembered
<1>5. LatestFits(d)
  BY <1>1, <1>2 DEF LatestFits, AllAnswered, IsOf, Review!Dates
<1> QED
  BY <1>3, <1>4, <1>5 DEF DeskInv, Sound, d

------------------------------------------------------------------------------
(* The search page: no search under way or on the page is younger than the   *)
(* last one started, and while no timer runs those of the last one are by    *)
(* the filters shown.                                                        *)
Search1 == [n : Nat, by : Search!Criteria]

FindShape ==
  [by : Search!Criteria, scope : Search!Scopes, tags : SUBSET Tags,
   timer : {"clear", "search", None}, newest : Nat, asked : SUBSET Search1,
   loading : BOOLEAN, searched : BOOLEAN,
   journals : Search1 \cup {None}, wins : Search1 \cup {None},
   item : {"journal", "achievement", None}]

Held(f) == f.asked \cup ({f.journals, f.wins} \ {None})

FindInv(f) ==
  /\ f \in FindShape
  /\ \A s \in Held(f) : s.n <= f.newest
  /\ f.timer = None /\ f.searched => \A s \in Held(f) : s.n = f.newest => s.by = f.by
  /\ f.timer = "search" => f.by # Search!NoFilters
  /\ f.timer = None /\ f.by = Search!NoFilters => ~f.searched

LEMMA FilteredKeeps ==
  ASSUME FindInv(find), NEW by \in Search!Criteria
  PROVE  FindInv(Search!Filtered(by))
<1> DEFINE t == IF by = find.by THEN find.timer
                ELSE IF by = Search!NoFilters THEN "clear" ELSE "search"
           f == Search!Filtered(by)
<1>1. find \in FindShape
  BY DEF FindInv
<1>2. t \in {"clear", "search", None}
  BY <1>1 DEF FindShape
<1>3. f = [find EXCEPT !.by = by, !.timer = t]
  BY DEF Search!Filtered
<1> HIDE DEF f, t
<1>4. /\ f \in FindShape
      /\ f.by = by /\ f.timer = t /\ f.newest = find.newest /\ f.asked = find.asked
      /\ f.searched = find.searched /\ f.journals = find.journals /\ f.wins = find.wins
  BY <1>1, <1>2, <1>3 DEF FindShape
<1>5. Held(f) = Held(find)
  BY <1>4 DEF Held
<1> QED
  BY <1>4, <1>5, NoneAssumption DEF FindInv, f, t

(* What a click changes besides the filters.                                 *)
LEMMA PlainKeeps ==
  ASSUME NEW f, FindInv(f), NEW g, g \in FindShape,
         g.by = f.by, g.timer = f.timer, g.newest = f.newest, g.asked = f.asked,
         g.searched = f.searched, g.journals = f.journals, g.wins = f.wins
  PROVE  FindInv(g)
BY DEF FindInv, Held

LEMMA ScopeKeeps ==
  ASSUME NEW f, FindInv(f), NEW s \in Search!Scopes
  PROVE  FindInv([f EXCEPT !.scope = s])
<1>1. f \in FindShape
  BY DEF FindInv
<1> DEFINE g == [f EXCEPT !.scope = s]
<1>2. /\ g \in FindShape
      /\ g.by = f.by /\ g.timer = f.timer /\ g.newest = f.newest /\ g.asked = f.asked
      /\ g.searched = f.searched /\ g.journals = f.journals /\ g.wins = f.wins
  BY <1>1 DEF FindShape
<1> HIDE DEF g
<1>3. FindInv(g)
  BY <1>2, PlainKeeps
<1> QED
  BY <1>3 DEF g

LEMMA CriteriaType ==
  ASSUME FindInv(find)
  PROVE  /\ \A w \in Words \cup {None} : [find.by EXCEPT !.words = w] \in Search!Criteria
         /\ \A t \in Tags \cup {None} : [find.by EXCEPT !.tag = t] \in Search!Criteria
         /\ \A i \in {"critical", "high", None} :
              [find.by EXCEPT !.importance = i] \in Search!Criteria
         /\ Search!NoFilters \in Search!Criteria
         /\ find.tags \subseteq Tags
<1>1. find.by \in Search!Criteria /\ find.tags \subseteq Tags
  BY DEF FindInv, FindShape
<1> QED
  BY <1>1 DEF Search!Criteria, Search!NoFilters

LEMMA FiltersKeep ==
  ASSUME FindInv(find),
         Search!Type \/ Search!ToggleTag \/ Search!Choose \/ Search!PickCardTag
  PROVE  FindInv(find')
<1>1. PICK by \in Search!Criteria : find' = Search!Filtered(by)
  <2>1. CASE Search!Type
    BY <2>1, CriteriaType DEF Search!Type
  <2>2. CASE Search!ToggleTag
    <3>1. PICK t \in find.tags :
            find' = Search!Filtered([find.by EXCEPT !.tag = IF @ = t THEN None ELSE t])
      BY <2>2 DEF Search!ToggleTag
    <3>2. (IF find.by.tag = t THEN None ELSE t) \in Tags \cup {None}
      BY CriteriaType
    <3> QED
      BY <3>1, <3>2, CriteriaType
  <2>3. CASE Search!Choose
    <3>1. CASE \E t \in find.tags \cup {None} : find' = Search!Filtered([find.by EXCEPT !.tag = t])
      BY <3>1, CriteriaType
    <3>2. CASE \E i \in {"critical", "high", None} :
                 find' = Search!Filtered([find.by EXCEPT !.importance = i])
      BY <3>2, CriteriaType
    <3> QED
      BY <2>3, <3>1, <3>2 DEF Search!Choose
  <2>4. CASE Search!PickCardTag
    BY <2>4, CriteriaType DEF Search!PickCardTag
  <2> QED
    BY <2>1, <2>2, <2>3, <2>4
<1> QED
  BY <1>1, FilteredKeeps

LEMMA ToggleCriticalKeeps ==
  ASSUME FindInv(find), Search!ToggleCritical
  PROVE  FindInv(find')
<1>1. \A i \in {"critical", "high", None} :
        FindInv(Search!Filtered([find.by EXCEPT !.importance = i]))
  BY CriteriaType, FilteredKeeps
<1>2. {"all", "achievements"} \subseteq Search!Scopes
  BY DEF Search!Scopes
<1> QED
  BY <1>1, <1>2, ScopeKeeps DEF Search!ToggleCritical

LEMMA RemovePillKeeps ==
  ASSUME FindInv(find), Search!RemovePill
  PROVE  FindInv(find')
<1>1. CASE find' = Search!Filtered([find.by EXCEPT !.words = None])
  BY <1>1, CriteriaType, FilteredKeeps
<1>2. CASE find' = Search!Filtered([find.by EXCEPT !.tag = None])
  BY <1>2, CriteriaType, FilteredKeeps
<1> DEFINE f == Search!Filtered([find.by EXCEPT !.importance = None])
<1>3. CASE find' = [f EXCEPT !.scope = IF @ = "achievements" THEN "all" ELSE @]
  <2>1. FindInv(f)
    BY CriteriaType, FilteredKeeps
  <2> HIDE DEF f
  <2>2. (IF f.scope = "achievements" THEN "all" ELSE f.scope) \in Search!Scopes
    BY <2>1 DEF FindInv, FindShape, Search!Scopes
  <2> QED
    BY <1>3, <2>1, <2>2, ScopeKeeps
<1> QED
  BY <1>1, <1>2, <1>3 DEF Search!RemovePill

LEMMA ResetKeeps ==
  ASSUME FindInv(find), Search!ResetFilters
  PROVE  FindInv(find')
<1> DEFINE f == Search!Filtered(Search!NoFilters)
<1>1. FindInv(f) /\ f \in FindShape
  BY CriteriaType, FilteredKeeps DEF FindInv
<1>2. f.timer = "clear"
  <2>1. find \in FindShape /\ find.by # Search!NoFilters
    BY DEF FindInv, Search!ResetFilters, Search!HasFilters
  <2> QED
    BY <2>1 DEF Search!Filtered, FindShape
<1>3. find' = [f EXCEPT !.scope = "all", !.searched = FALSE, !.journals = None, !.wins = None]
  BY DEF Search!ResetFilters, Search!Reset
<1> HIDE DEF f
<1>4. /\ find' \in FindShape
      /\ find'.by = f.by /\ find'.timer = f.timer /\ find'.newest = f.newest
      /\ find'.asked = f.asked /\ find'.searched = FALSE
      /\ find'.journals = None /\ find'.wins = None
  BY <1>1, <1>3 DEF FindShape, Search!Scopes
<1> QED
  BY <1>1, <1>2, <1>4, NoneAssumption DEF FindInv, Held

LEMMA TimerKeeps ==
  ASSUME FindInv(find), Search!TimerFires
  PROVE  FindInv(find')
<1>1. find \in FindShape
  BY DEF FindInv
<1>2. CASE find.timer = "search" /\ find' = Search!Started
  <2> DEFINE s == [n |-> find.newest + 1, by |-> find.by]
  <2>1. s \in Search1 /\ s.n = find.newest + 1 /\ s.by = find.by /\ find.newest + 1 \in Nat
    BY <1>1 DEF FindShape, Search1
  <2>2. find' = [find EXCEPT !.timer = None, !.newest = find.newest + 1, !.loading = TRUE,
                   !.searched = TRUE, !.asked = find.asked \cup {s}]
    BY <1>1, <1>2 DEF Search!Started, FindShape
  <2> HIDE DEF s
  <2>3. find.asked \cup {s} \in SUBSET Search1
    BY <1>1, <2>1 DEF FindShape
  <2>4. /\ find' \in FindShape
        /\ find'.by = find.by /\ find'.timer = None /\ find'.newest = find.newest + 1
        /\ find'.asked = find.asked \cup {s}
        /\ find'.journals = find.journals /\ find'.wins = find.wins
    BY <1>1, <2>1, <2>2, <2>3 DEF FindShape
  <2>5. Held(find') = Held(find) \cup {s}
    BY <2>4 DEF Held
  <2>6. \A k \in Held(find) : k.n \in Nat /\ k.n <= find.newest
    BY <1>1 DEF Held, FindInv, FindShape, Search1
  <2>7. find.newest \in Nat /\ find.by # Search!NoFilters
    BY <1>1, <1>2 DEF FindInv, FindShape
  <2>8. \A k \in Held(find') : k.n <= find'.newest
    BY <2>1, <2>4, <2>5, <2>6, <2>7
  <2>9. \A k \in Held(find') : k.n = find'.newest => k.by = find'.by
    BY <2>1, <2>4, <2>5, <2>6, <2>7
  <2> QED
    BY <2>4, <2>7, <2>8, <2>9, NoneAssumption DEF FindInv
<1>3. CASE find' = [find EXCEPT !.timer = None, !.searched = FALSE,
                      !.journals = None, !.wins = None]
  <2>1. /\ find' \in FindShape
        /\ find'.by = find.by /\ find'.timer = None /\ find'.newest = find.newest
        /\ find'.asked = find.asked /\ find'.searched = FALSE
        /\ find'.journals = None /\ find'.wins = None
    BY <1>1, <1>3 DEF FindShape
  <2> QED
    BY <2>1, NoneAssumption DEF FindInv, Held
<1> QED
  BY <1>2, <1>3 DEF Search!TimerFires

LEMMA SearchAnswersKeeps ==
  ASSUME FindInv(find), Search!SearchAnswers
  PROVE  FindInv(find')
<1>1. find \in FindShape
  BY DEF FindInv
<1>2. PICK s \in find.asked, gotJournals \in BOOLEAN, gotWins \in BOOLEAN :
        find' = Search!Answered(s, gotJournals, gotWins)
  BY DEF Search!SearchAnswers
<1> DEFINE j == IF gotJournals THEN s ELSE None
           w == IF gotWins THEN s ELSE None
           r == find.asked \ {s}
<1>3. find' = [find EXCEPT !.asked = r, !.loading = FALSE, !.journals = j, !.wins = w]
  BY <1>1, <1>2 DEF Search!Answered, FindShape
<1>4. r \in SUBSET Search1 /\ j \in Search1 \cup {None} /\ w \in Search1 \cup {None}
  BY <1>1 DEF FindShape
<1>5. r \cup ({j, w} \ {None}) \subseteq Held(find)
  BY DEF Held
<1> HIDE DEF j, w, r
<1>6. /\ find' \in FindShape
      /\ find'.by = find.by /\ find'.timer = find.timer /\ find'.newest = find.newest
      /\ find'.searched = find.searched
      /\ find'.asked = r /\ find'.journals = j /\ find'.wins = w
  BY <1>1, <1>3, <1>4 DEF FindShape
<1>7. Held(find') \subseteq Held(find)
  BY <1>5, <1>6 DEF Held
<1> QED
  BY <1>6, <1>7 DEF FindInv

LEMMA SearchNextKeeps ==
  ASSUME FindInv(find), Search!SearchNext
  PROVE  FindInv(find')
<1>1. find \in FindShape
  BY DEF FindInv
<1>2. CASE Search!ListTags
  <2>1. /\ find' \in FindShape
        /\ find'.by = find.by /\ find'.timer = find.timer /\ find'.newest = find.newest
        /\ find'.asked = find.asked /\ find'.searched = find.searched
        /\ find'.journals = find.journals /\ find'.wins = find.wins
    BY <1>1, <1>2 DEF Search!ListTags, FindShape
  <2> QED
    BY <2>1, PlainKeeps
<1>3. CASE Search!ChooseScope
  BY <1>3, ScopeKeeps DEF Search!ChooseScope
<1>4. CASE Search!OpenCard \/ Search!CloseDrawer
  <2>1. PICK k \in {"journal", "achievement", None} : find' = [find EXCEPT !.item = k]
    <3>1. Search!Results \subseteq {"journal", "achievement"}
      BY DEF Search!Results, Search!Listed, Search!Found
    <3> QED
      BY <1>4, <3>1 DEF Search!OpenCard, Search!CloseDrawer
  <2>2. /\ find' \in FindShape
        /\ find'.by = find.by /\ find'.timer = find.timer /\ find'.newest = find.newest
        /\ find'.asked = find.asked /\ find'.searched = find.searched
        /\ find'.journals = find.journals /\ find'.wins = find.wins
    BY <1>1, <2>1 DEF FindShape
  <2> QED
    BY <2>2, PlainKeeps
<1> QED
  BY <1>2, <1>3, <1>4, FiltersKeep, ToggleCriticalKeeps, RemovePillKeeps, ResetKeeps,
     TimerKeeps, SearchAnswersKeeps DEF Search!SearchNext

LEMMA SearchMountedRight == FindInv(Search!SearchMounted)
<1> DEFINE f == Search!SearchMounted
<1>1. /\ f.timer = "clear" /\ f.asked = {} /\ f.journals = None /\ f.wins = None
      /\ f.newest = 0
  BY DEF Search!SearchMounted
<1>2. f \in FindShape
  BY DEF Search!SearchMounted, FindShape, Search!Criteria, Search!NoFilters, Search!Scopes
<1> HIDE DEF f
<1>3. FindInv(f)
  BY <1>1, <1>2, NoneAssumption DEF FindInv, Held
<1> QED
  BY <1>3 DEF f

------------------------------------------------------------------------------
(* Calibration mode: a text is about the member it is kept under, wherever   *)
(* it is: in the box, in the notes read, waiting for a timer, on its way.    *)
About(t, m) == t = Blank \/ t.of = m

Save == [of : Members, cycle : Kpis \cup {Unset}, text : Wizard!Texts]

WizardShape ==
  [open : BOOLEAN, visits : Nat, cycle : Kpis \cup {Unset},
   loaded : {"loading", "members", "nobody"}, step : 1..(Len(Team) + 1),
   box : Wizard!Texts, notes : [Members -> Wizard!Texts], trends : SUBSET Members,
   timer : Save \cup {None}, strays : SUBSET Save,
   calls : SUBSET [save : Save, visit : Nat],
   typed : [Members -> Wizard!Texts \cup {None}], count : Nat,
   dropped : SUBSET Members, amiss : SUBSET Members, table : Wizard!Table]

NotesOwn(w) == \A m \in Members : About(w.notes[m], m)

TableOwn(table) ==
  /\ \A p \in Members \X Kpis : About(table.kept[p], p[1])
  /\ \A p \in table.loose : p[2].of = p[1]

SavesOwn(w) ==
  /\ w.timer # None => About(w.timer.text, w.timer.of)
  /\ \A s \in w.strays : About(s.text, s.of)
  /\ \A c \in w.calls : About(c.save.text, c.save.of)

BoxOwn(w) ==
  w.open /\ w.loaded = "members" /\ w.step <= Len(Team) => About(w.box, Team[w.step])

WizardInv(w) ==
  w \in WizardShape /\ NotesOwn(w) /\ TableOwn(w.table) /\ SavesOwn(w) /\ BoxOwn(w)

(* The effect that copies the note of the member shown into the box.         *)
LEMMA SyncedKeeps ==
  ASSUME NEW w, w \in WizardShape, NotesOwn(w), TableOwn(w.table), SavesOwn(w)
  PROVE  WizardInv(Wizard!Synced(w))
<1>1. CASE w.step > Len(Team)
  <2>1. w.step \in Nat /\ Len(Team) \in Nat
    BY TeamAssumption DEF WizardShape
  <2>2. BoxOwn(w)
    BY <1>1, <2>1 DEF BoxOwn
  <2> QED
    BY <1>1, <2>2 DEF Wizard!Synced, WizardInv
<1>2. CASE ~(w.step > Len(Team))
  <2> DEFINE v == Wizard!Synced(w)
             m == Team[w.step]
  <2>1. w.step \in 1..Len(Team) /\ m \in Members
    BY <1>2, TeamAssumption DEF WizardShape
  <2>2. w.notes[m] \in Wizard!Texts /\ About(w.notes[m], m)
    BY <2>1 DEF WizardShape, NotesOwn
  <2>3. v = [w EXCEPT !.box = w.notes[m]]
    BY <1>2 DEF Wizard!Synced
  <2>4. /\ v \in WizardShape
        /\ v.step = w.step /\ v.box = w.notes[m] /\ v.notes = w.notes
        /\ v.timer = w.timer /\ v.strays = w.strays /\ v.calls = w.calls
        /\ v.table = w.table
    BY <2>2, <2>3 DEF WizardShape
  <2> HIDE DEF v
  <2>5. NotesOwn(v) /\ SavesOwn(v) /\ TableOwn(v.table)
    BY <2>4 DEF NotesOwn, SavesOwn
  <2>6. BoxOwn(v)
    BY <2>2, <2>4 DEF BoxOwn
  <2> QED
    BY <2>4, <2>5, <2>6 DEF WizardInv, v
<1> QED
  BY <1>1, <1>2

LEMMA OpenKeeps ==
  ASSUME WizardInv(wizard), Wizard!Open
  PROVE  WizardInv(wizard')
<1>1. wizard \in WizardShape
  BY DEF WizardInv
<1>2. PICK c \in Kpis \cup {Unset} :
        wizard' = [wizard EXCEPT !.open = TRUE, !.visits = @ + 1, !.cycle = c,
                     !.loaded = "loading", !.step = 1, !.box = Blank, !.trends = {},
                     !.notes = [m \in Members |-> Blank],
                     !.typed = [m \in Members |-> None], !.dropped = {},
                     !.amiss = {s.of : s \in wizard.strays}
                                 \cup {c2.save.of : c2 \in wizard.calls}]
  BY DEF Wizard!Open
<1> DEFINE n == [m \in Members |-> Blank]
           t == [m \in Members |-> None]
           a == {s.of : s \in wizard.strays} \cup {c2.save.of : c2 \in wizard.calls}
<1>3. /\ n \in [Members -> Wizard!Texts] /\ Blank \in Wizard!Texts
      /\ t \in [Members -> Wizard!Texts \cup {None}]
      /\ a \in SUBSET Members /\ wizard.visits + 1 \in Nat
      /\ 1 \in 1..(Len(Team) + 1)
  <2>1. a \in SUBSET Members
    BY <1>1 DEF WizardShape, Save
  <2>2. 1 \in 1..(Len(Team) + 1)
    BY TeamAssumption
  <2> QED
    BY <1>1, <2>1, <2>2 DEF WizardShape, Wizard!Texts
<1>4. wizard' = [wizard EXCEPT !.open = TRUE, !.visits = wizard.visits + 1, !.cycle = c,
                   !.loaded = "loading", !.step = 1, !.box = Blank, !.trends = {},
                   !.notes = n, !.typed = t, !.dropped = {}, !.amiss = a]
  BY <1>1, <1>2 DEF WizardShape
<1>5. \A m \in Members : n[m] = Blank
  OBVIOUS
<1> HIDE DEF n, t, a
<1>6. /\ wizard' \in WizardShape
      /\ wizard'.loaded = "loading" /\ wizard'.notes = n
      /\ wizard'.timer = wizard.timer /\ wizard'.strays = wizard.strays
      /\ wizard'.calls = wizard.calls /\ wizard'.table = wizard.table
  BY <1>1, <1>3, <1>4 DEF WizardShape
<1> QED
  BY <1>5, <1>6 DEF WizardInv, NotesOwn, SavesOwn, BoxOwn, About

LEMMA LoadKeeps ==
  ASSUME WizardInv(wizard), Wizard!LoadAnswers
  PROVE  WizardInv(wizard')
<1>1. wizard \in WizardShape
  BY DEF WizardInv
<1> DEFINE n == Wizard!NotesOf(wizard.table, wizard.cycle)
           w == [wizard EXCEPT !.loaded = "members", !.notes = n]
<1>2. CASE wizard' = Wizard!Synced(w)
  <2>1. /\ wizard.cycle \in Kpis \cup {Unset} /\ wizard.table \in Wizard!Table
        /\ TableOwn(wizard.table)
    BY <1>1 DEF WizardShape, WizardInv
  <2>2. ASSUME NEW m \in Members
        PROVE  n[m] \in Wizard!Texts /\ About(n[m], m)
    <3>1. CASE wizard.cycle = Unset
      BY <3>1 DEF Wizard!NotesOf, Wizard!Texts, About
    <3>2. CASE wizard.cycle # Unset
      <4> DEFINE q == <<m, wizard.cycle>>
      <4>1. q \in Members \X Kpis /\ q[1] = m
        BY <2>1, <3>2
      <4>2. n[m] = wizard.table.kept[q]
        BY <3>2 DEF Wizard!NotesOf
      <4>3. wizard.table.kept \in [Members \X Kpis -> Wizard!Texts]
        BY <2>1 DEF Wizard!Table
      <4> HIDE DEF q, n
      <4> QED
        BY <2>1, <4>1, <4>2, <4>3 DEF TableOwn
    <3> QED
      BY <3>1, <3>2
  <2>3. n \in [Members -> Wizard!Texts]
    BY <2>2 DEF Wizard!NotesOf
  <2> HIDE DEF n
  <2>4. /\ w \in WizardShape /\ w.notes = n
        /\ w.timer = wizard.timer /\ w.strays = wizard.strays
        /\ w.calls = wizard.calls /\ w.table = wizard.table
    BY <1>1, <2>3 DEF WizardShape
  <2> HIDE DEF w
  <2>5. NotesOwn(w) /\ SavesOwn(w) /\ TableOwn(w.table)
    BY <2>2, <2>4 DEF WizardInv, NotesOwn, SavesOwn
  <2> QED
    BY <1>2, <2>4, <2>5, SyncedKeeps
<1>3. CASE wizard' = [wizard EXCEPT !.loaded = "nobody"]
  <2>1. /\ wizard' \in WizardShape
        /\ wizard'.loaded = "nobody" /\ wizard'.notes = wizard.notes
        /\ wizard'.timer = wizard.timer /\ wizard'.strays = wizard.strays
        /\ wizard'.calls = wizard.calls /\ wizard'.table = wizard.table
    BY <1>1, <1>3 DEF WizardShape
  <2> QED
    BY <2>1 DEF WizardInv, NotesOwn, SavesOwn, BoxOwn
<1> QED
  BY <1>2, <1>3 DEF Wizard!LoadAnswers

(* What is put into the box by the effect, after a trend or a step.          *)
LEMMA TurnKeeps ==
  ASSUME WizardInv(wizard), Wizard!TrendArrives \/ Wizard!Step
  PROVE  WizardInv(wizard')
<1>1. wizard \in WizardShape
  BY DEF WizardInv
<1>2. PICK trends \in SUBSET Members, step \in 1..(Len(Team) + 1) :
        wizard' = Wizard!Synced([wizard EXCEPT !.trends = trends, !.step = step])
  <2>1. wizard.trends \in SUBSET Members /\ wizard.step \in 1..(Len(Team) + 1)
    BY <1>1 DEF WizardShape
  <2>2. CASE Wizard!TrendArrives
    <3>1. PICK m \in Members :
            wizard' = Wizard!Synced([wizard EXCEPT !.trends = @ \cup {m}])
      BY <2>2 DEF Wizard!TrendArrives
    <3>2. [wizard EXCEPT !.trends = @ \cup {m}]
            = [wizard EXCEPT !.trends = wizard.trends \cup {m}, !.step = wizard.step]
      BY <1>1 DEF WizardShape
    <3> QED
      BY <2>1, <3>1, <3>2
  <2>3. CASE Wizard!Step
    <3>1. PICK k \in 1..(Len(Team) + 1) :
            wizard' = Wizard!Synced([wizard EXCEPT !.step = k])
      BY <2>3 DEF Wizard!Step
    <3>2. [wizard EXCEPT !.step = k]
            = [wizard EXCEPT !.trends = wizard.trends, !.step = k]
      BY <1>1 DEF WizardShape
    <3> QED
      BY <2>1, <3>1, <3>2
  <2> QED
    BY <2>2, <2>3
<1> DEFINE w == [wizard EXCEPT !.trends = trends, !.step = step]
<1>3. /\ w \in WizardShape /\ w.notes = wizard.notes
      /\ w.timer = wizard.timer /\ w.strays = wizard.strays
      /\ w.calls = wizard.calls /\ w.table = wizard.table
  BY <1>1 DEF WizardShape
<1>4. wizard' = Wizard!Synced(w)
  BY <1>2
<1> HIDE DEF w
<1>5. NotesOwn(w) /\ SavesOwn(w) /\ TableOwn(w.table)
  BY <1>3 DEF WizardInv, NotesOwn, SavesOwn
<1> QED
  BY <1>3, <1>4, <1>5, SyncedKeeps

LEMMA TypeKeeps ==
  ASSUME WizardInv(wizard), Wizard!Type
  PROVE  WizardInv(wizard')
<1> DEFINE m == Team[wizard.step]
<1>1. wizard \in WizardShape /\ wizard.step <= Len(Team) /\ m \in Members
  <2>1. wizard \in WizardShape /\ wizard.step # Len(Team) + 1
    BY DEF WizardInv, Wizard!Type, Wizard!OnMember, Wizard!OnSummary
  <2>2. wizard.step \in 1..Len(Team)
    BY <2>1, TeamAssumption DEF WizardShape
  <2> QED
    BY <2>1, <2>2, TeamAssumption
<1>2. PICK t \in [of : {m}, word : Words] \cup {Blank} :
        wizard' = [wizard EXCEPT !.box = t, !.count = @ + 1, !.typed[m] = t,
                     !.timer = [of |-> m, cycle |-> wizard.cycle, text |-> t],
                     !.dropped = (@ \cup Wizard!TimerOf(wizard)) \ {m}]
  BY DEF Wizard!Type, Wizard!Shown
<1> DEFINE s == [of |-> m, cycle |-> wizard.cycle, text |-> t]
           y == [wizard.typed EXCEPT ![m] = t]
           d == (wizard.dropped \cup Wizard!TimerOf(wizard)) \ {m}
<1>3. t \in Wizard!Texts /\ About(t, m)
  BY <1>1, <1>2 DEF Wizard!Texts, About
<1>4. /\ s \in Save /\ s.of = m /\ s.text = t
      /\ y \in [Members -> Wizard!Texts \cup {None}]
      /\ d \in SUBSET Members /\ wizard.count + 1 \in Nat
  BY <1>1, <1>3 DEF Save, WizardShape, Wizard!TimerOf
<1>5. wizard' = [wizard EXCEPT !.box = t, !.count = wizard.count + 1, !.typed = y,
                   !.timer = s, !.dropped = d]
  BY <1>1, <1>2 DEF WizardShape
<1> HIDE DEF s, y, d
<1>6. /\ wizard' \in WizardShape
      /\ wizard'.box = t /\ wizard'.step = wizard.step /\ wizard'.notes = wizard.notes
      /\ wizard'.timer = s /\ wizard'.strays = wizard.strays
      /\ wizard'.calls = wizard.calls /\ wizard'.table = wizard.table
  BY <1>1, <1>3, <1>4, <1>5 DEF WizardShape
<1> QED
  BY <1>3, <1>4, <1>6 DEF WizardInv, NotesOwn, SavesOwn, BoxOwn

(* A timer runs out: its save is on its way.                                 *)
LEMMA TimerFiresKeeps ==
  ASSUME WizardInv(wizard), Wizard!TimerFires
  PROVE  WizardInv(wizard')
<1>1. wizard \in WizardShape
  BY DEF WizardInv
<1>2. PICK s \in Save, v \in Nat, timer \in {wizard.timer, None}, strays \in SUBSET wizard.strays :
        /\ About(s.text, s.of)
        /\ \E a \in SUBSET Members :
             wizard' = [wizard EXCEPT !.calls = wizard.calls \cup {[save |-> s, visit |-> v]},
                          !.amiss = a, !.timer = timer, !.strays = strays]
  <2> DEFINE A(s) == IF \E c \in wizard.calls : c.save.of = s.of
                     THEN wizard.amiss \cup {s.of} ELSE wizard.amiss
  <2>1. \A s \in Save : A(s) \in SUBSET Members
    BY <1>1 DEF WizardShape, Save
  <2>2. wizard.visits \in Nat
    BY <1>1 DEF WizardShape
  <2>3. CASE /\ wizard.timer # None
             /\ wizard' = [Wizard!Started(wizard.timer, wizard.visits) EXCEPT !.timer = None]
    <3>1. wizard.timer \in Save /\ About(wizard.timer.text, wizard.timer.of)
      BY <1>1, <2>3 DEF WizardShape, WizardInv, SavesOwn
    <3>2. wizard' = [wizard EXCEPT
                       !.calls = wizard.calls \cup {[save |-> wizard.timer, visit |-> wizard.visits]},
                       !.amiss = A(wizard.timer), !.timer = None, !.strays = wizard.strays]
      BY <1>1, <2>3 DEF Wizard!Started, Wizard!Due, WizardShape
    <3> HIDE DEF A
    <3> QED
      BY <2>1, <2>2, <3>1, <3>2
  <2>4. ASSUME NEW s \in wizard.strays, NEW v \in 1..MaxOpened,
               wizard' = [Wizard!Started(s, v) EXCEPT !.strays = @ \ {s}]
        PROVE  \E u \in Save, k \in Nat, timer \in {wizard.timer, None},
                  strays \in SUBSET wizard.strays :
                 /\ About(u.text, u.of)
                 /\ \E a \in SUBSET Members :
                      wizard' = [wizard EXCEPT
                                   !.calls = wizard.calls \cup {[save |-> u, visit |-> k]},
                                   !.amiss = a, !.timer = timer, !.strays = strays]
    <3>1. s \in Save /\ About(s.text, s.of) /\ v \in Nat
      BY <1>1 DEF WizardShape, WizardInv, SavesOwn
    <3>2. wizard' = [wizard EXCEPT
                       !.calls = wizard.calls \cup {[save |-> s, visit |-> v]},
                       !.amiss = A(s), !.timer = wizard.timer, !.strays = wizard.strays \ {s}]
      BY <1>1, <2>4 DEF Wizard!Started, Wizard!Due, WizardShape
    <3> HIDE DEF A
    <3> QED
      BY <2>1, <3>1, <3>2
  <2> QED
    BY <2>3, <2>4 DEF Wizard!TimerFires
<1>3. PICK a \in SUBSET Members :
        wizard' = [wizard EXCEPT !.calls = wizard.calls \cup {[save |-> s, visit |-> v]},
                     !.amiss = a, !.timer = timer, !.strays = strays]
  BY <1>2
<1> DEFINE c == [save |-> s, visit |-> v]
           r == wizard.calls \cup {c}
<1>4. /\ r \in SUBSET [save : Save, visit : Nat] /\ c.save = s
      /\ timer \in Save \cup {None} /\ strays \in SUBSET Save
  BY <1>1 DEF WizardShape
<1>5. wizard' = [wizard EXCEPT !.calls = r, !.amiss = a, !.timer = timer, !.strays = strays]
  BY <1>3
<1>6. /\ wizard' \in WizardShape
      /\ wizard'.open = wizard.open /\ wizard'.loaded = wizard.loaded
      /\ wizard'.box = wizard.box /\ wizard'.step = wizard.step
      /\ wizard'.notes = wizard.notes /\ wizard'.table = wizard.table
      /\ wizard'.timer = timer /\ wizard'.strays = strays /\ wizard'.calls = r
  <2> HIDE DEF r
  <2> QED
    BY <1>1, <1>4, <1>5 DEF WizardShape
<1>7. SavesOwn(wizard')
  <2>1. \A k \in r : About(k.save.text, k.save.of)
    BY <1>2, <1>4 DEF WizardInv, SavesOwn
  <2> HIDE DEF r
  <2> QED
    BY <1>6, <2>1 DEF WizardInv, SavesOwn
<1> QED
  BY <1>6, <1>7 DEF WizardInv, NotesOwn, BoxOwn

(* The server stores a note under the member it is about.                    *)
LEMMA UpsertOwn ==
  ASSUME NEW table \in Wizard!Table, TableOwn(table), NEW s \in Save,
         About(s.text, s.of), ~Wizard!Refused(s.text)
  PROVE  /\ Wizard!Upsert(table, s.of, s.cycle, s.text) \in Wizard!Table
         /\ TableOwn(Wizard!Upsert(table, s.of, s.cycle, s.text))
<1> DEFINE u == Wizard!Upsert(table, s.of, s.cycle, s.text)
<1>1. /\ s.of \in Members /\ s.cycle \in Kpis \cup {Unset} /\ s.text \in Wizard!Texts
      /\ s.text.of = s.of
  BY DEF Save, About, Wizard!Refused
<1>2. /\ table.kept \in [Members \X Kpis -> Wizard!Texts]
      /\ table.loose \in SUBSET (Members \X Wizard!Texts)
  BY DEF Wizard!Table
<1>3. CASE s.cycle = Unset
  <2> DEFINE q == <<s.of, s.text>>
  <2>1. q \in Members \X Wizard!Texts /\ q[2].of = q[1]
    BY <1>1
  <2>2. u = [table EXCEPT !.loose = table.loose \cup {q}]
    BY <1>3 DEF Wizard!Upsert
  <2> HIDE DEF q
  <2>3. u \in Wizard!Table /\ u.kept = table.kept /\ u.loose = table.loose \cup {q}
    BY <1>2, <2>1, <2>2 DEF Wizard!Table
  <2> QED
    BY <2>1, <2>3 DEF TableOwn
<1>4. CASE s.cycle # Unset
  <2> DEFINE q == <<s.of, s.cycle>>
             k == [table.kept EXCEPT ![q] = s.text]
  <2>1. q \in Members \X Kpis /\ q[1] = s.of
    BY <1>1, <1>4
  <2>2. u = [table EXCEPT !.kept = k]
    BY <1>4 DEF Wizard!Upsert
  <2> HIDE DEF q
  <2>3. /\ k \in [Members \X Kpis -> Wizard!Texts]
        /\ \A p \in Members \X Kpis : k[p] = IF p = q THEN s.text ELSE table.kept[p]
    BY <1>1, <1>2, <2>1
  <2> HIDE DEF k
  <2>4. u \in Wizard!Table /\ u.kept = k /\ u.loose = table.loose
    BY <1>2, <2>2, <2>3 DEF Wizard!Table
  <2> QED
    BY <1>1, <2>1, <2>3, <2>4 DEF TableOwn, About
<1> QED
  BY <1>1, <1>3, <1>4

LEMMA SaveAnswersKeeps ==
  ASSUME WizardInv(wizard), Wizard!SaveAnswers
  PROVE  WizardInv(wizard')
<1>1. wizard \in WizardShape
  BY DEF WizardInv
<1>2. PICK c \in wizard.calls :
        \/ /\ ~Wizard!Refused(c.save.text)
           /\ wizard' = IF wizard.open /\ c.visit = wizard.visits /\ wizard.loaded = "members"
                        THEN Wizard!Synced([[wizard EXCEPT !.calls = @ \ {c}] EXCEPT
                               !.table = Wizard!Upsert(wizard.table, c.save.of, c.save.cycle, c.save.text),
                               !.notes[c.save.of] = c.save.text])
                        ELSE [[wizard EXCEPT !.calls = @ \ {c}] EXCEPT
                               !.table = Wizard!Upsert(wizard.table, c.save.of, c.save.cycle, c.save.text)]
        \/ wizard' = [[wizard EXCEPT !.calls = @ \ {c}] EXCEPT !.amiss = @ \cup {c.save.of}]
        \/ /\ ~Wizard!Refused(c.save.text)
           /\ wizard' = [[wizard EXCEPT !.calls = @ \ {c}] EXCEPT
                  !.table = Wizard!Upsert(wizard.table, c.save.of, c.save.cycle, c.save.text),
                  !.amiss = @ \cup {c.save.of}]
  BY DEF Wizard!SaveAnswers
<1> DEFINE s == c.save
           m == c.save.of
           r == wizard.calls \ {c}
           u == Wizard!Upsert(wizard.table, c.save.of, c.save.cycle, c.save.text)
           a == wizard.amiss \cup {m}
           n == [wizard.notes EXCEPT ![m] = s.text]
<1>3. /\ s \in Save /\ About(s.text, s.of) /\ m \in Members /\ s.text \in Wizard!Texts
      /\ r \in SUBSET [save : Save, visit : Nat] /\ r \subseteq wizard.calls
      /\ a \in SUBSET Members
      /\ wizard.table \in Wizard!Table /\ TableOwn(wizard.table)
  BY <1>1 DEF WizardShape, WizardInv, SavesOwn, Save
<1>4. ~Wizard!Refused(s.text) => u \in Wizard!Table /\ TableOwn(u)
  BY <1>3, UpsertOwn
<1>5. /\ n \in [Members -> Wizard!Texts]
      /\ \A k \in Members : About(n[k], k)
  <2>1. wizard.notes \in [Members -> Wizard!Texts] /\ NotesOwn(wizard)
    BY <1>1 DEF WizardShape, WizardInv
  <2> QED
    BY <1>3, <2>1 DEF NotesOwn
<1>6. CASE wizard' = [wizard EXCEPT !.calls = r, !.amiss = a]
  <2> HIDE DEF r, a
  <2>1. /\ wizard' \in WizardShape
        /\ wizard'.open = wizard.open /\ wizard'.loaded = wizard.loaded
        /\ wizard'.box = wizard.box /\ wizard'.step = wizard.step
        /\ wizard'.notes = wizard.notes /\ wizard'.table = wizard.table
        /\ wizard'.timer = wizard.timer /\ wizard'.strays = wizard.strays
        /\ wizard'.calls = r
    BY <1>1, <1>3, <1>6 DEF WizardShape
  <2> QED
    BY <1>3, <2>1 DEF WizardInv, NotesOwn, SavesOwn, BoxOwn
<1>7. ASSUME ~Wizard!Refused(s.text), NEW b \in {wizard.amiss, a},
             wizard' = [wizard EXCEPT !.calls = r, !.table = u, !.amiss = b]
      PROVE  WizardInv(wizard')
  <2>1. b \in SUBSET Members
    BY <1>1, <1>3 DEF WizardShape
  <2> HIDE DEF r, a, u
  <2>2. /\ wizard' \in WizardShape
        /\ wizard'.open = wizard.open /\ wizard'.loaded = wizard.loaded
        /\ wizard'.box = wizard.box /\ wizard'.step = wizard.step
        /\ wizard'.notes = wizard.notes /\ wizard'.table = u
        /\ wizard'.timer = wizard.timer /\ wizard'.strays = wizard.strays
        /\ wizard'.calls = r
    BY <1>1, <1>3, <1>4, <1>7, <2>1 DEF WizardShape
  <2> QED
    BY <1>3, <1>4, <1>7, <2>2 DEF WizardInv, NotesOwn, SavesOwn, BoxOwn
<1>8. ASSUME ~Wizard!Refused(s.text),
             wizard' = Wizard!Synced([wizard EXCEPT !.calls = r, !.table = u, !.notes = n])
      PROVE  WizardInv(wizard')
  <2> DEFINE w == [wizard EXCEPT !.calls = r, !.table = u, !.notes = n]
  <2>1. /\ w \in WizardShape /\ w.notes = n /\ w.table = u
        /\ w.timer = wizard.timer /\ w.strays = wizard.strays /\ w.calls = r
    <3> HIDE DEF r, u, n
    <3> QED
      BY <1>1, <1>3, <1>4, <1>5, <1>8 DEF WizardShape
  <2> HIDE DEF w, r, u, n
  <2>2. NotesOwn(w) /\ SavesOwn(w) /\ TableOwn(w.table)
    BY <1>3, <1>4, <1>5, <1>8, <2>1 DEF WizardInv, NotesOwn, SavesOwn
  <2> QED
    BY <1>8, <2>1, <2>2, SyncedKeeps DEF w
<1>9. /\ [[wizard EXCEPT !.calls = @ \ {c}] EXCEPT !.amiss = @ \cup {c.save.of}]
           = [wizard EXCEPT !.calls = r, !.amiss = a]
      /\ [[wizard EXCEPT !.calls = @ \ {c}] EXCEPT !.table = u]
           = [wizard EXCEPT !.calls = r, !.table = u, !.amiss = wizard.amiss]
      /\ [[wizard EXCEPT !.calls = @ \ {c}] EXCEPT !.table = u, !.amiss = @ \cup {c.save.of}]
           = [wizard EXCEPT !.calls = r, !.table = u, !.amiss = a]
      /\ [[wizard EXCEPT !.calls = @ \ {c}] EXCEPT !.table = u, !.notes[c.save.of] = c.save.text]
           = [wizard EXCEPT !.calls = r, !.table = u, !.notes = n]
  <2> HIDE DEF u
  <2> QED
    BY <1>1 DEF WizardShape
<1> QED
  BY <1>2, <1>6, <1>7, <1>8, <1>9

LEMMA CloseKeeps ==
  ASSUME WizardInv(wizard), Wizard!Close
  PROVE  WizardInv(wizard')
<1>1. wizard \in WizardShape
  BY DEF WizardInv
<1> DEFINE t == IF wizard.timer = None THEN wizard.strays
                ELSE wizard.strays \cup {wizard.timer}
<1>2. wizard' = [wizard EXCEPT !.open = FALSE, !.timer = None, !.strays = t]
  BY <1>1 DEF Wizard!Close, Wizard!Left, WizardShape
<1>3. t \in SUBSET Save /\ \A s \in t : About(s.text, s.of)
  BY <1>1 DEF WizardShape, WizardInv, SavesOwn
<1> HIDE DEF t
<1>4. /\ wizard' \in WizardShape
      /\ wizard'.open = FALSE /\ wizard'.timer = None /\ wizard'.strays = t
      /\ wizard'.notes = wizard.notes /\ wizard'.table = wizard.table
      /\ wizard'.calls = wizard.calls
  BY <1>1, <1>2, <1>3 DEF WizardShape
<1> QED
  BY <1>3, <1>4 DEF WizardInv, NotesOwn, SavesOwn, BoxOwn

LEMMA WizardNextKeeps ==
  ASSUME WizardInv(wizard), Wizard!WizardNext
  PROVE  WizardInv(wizard')
BY OpenKeeps, LoadKeeps, TurnKeeps, TypeKeeps, TimerFiresKeeps, SaveAnswersKeeps, CloseKeeps
   DEF Wizard!WizardNext

LEMMA WizardMountedRight == WizardInv(Wizard!WizardMounted)
<1> DEFINE w == Wizard!WizardMounted
<1>1. /\ w.open = FALSE /\ w.timer = None /\ w.strays = {} /\ w.calls = {}
      /\ w.notes = [m \in Members |-> Blank] /\ w.table = Wizard!EmptyTable
  BY DEF Wizard!WizardMounted
<1>2. w \in WizardShape
  <2>1. 1 \in 1..(Len(Team) + 1)
    BY TeamAssumption
  <2>2. Wizard!EmptyTable \in Wizard!Table
    BY DEF Wizard!EmptyTable, Wizard!Table, Wizard!Texts
  <2> HIDE DEF Wizard!EmptyTable
  <2> QED
    BY <2>1, <2>2 DEF Wizard!WizardMounted, WizardShape, Wizard!Texts
<1> HIDE DEF w
<1>3. NotesOwn(w) /\ SavesOwn(w) /\ BoxOwn(w)
  BY <1>1 DEF NotesOwn, SavesOwn, BoxOwn, About
<1>4. TableOwn(w.table)
  BY <1>1 DEF Wizard!EmptyTable, TableOwn, About
<1> QED
  BY <1>2, <1>3, <1>4 DEF WizardInv, w

------------------------------------------------------------------------------
(* A step of the router either mounts the page it leads to, or is a step of  *)
(* that page, or leaves everything as it was.                                *)
LEMMA Framed ==
  ASSUME [Next]_vars
  PROVE  /\ screen' = "review" =>
              \/ Mounts("review")
              \/ screen = "review" /\ (Review!ReviewNext \/ UNCHANGED desk)
         /\ screen' = "search" =>
              \/ Mounts("search")
              \/ screen = "search" /\ (Search!SearchNext \/ UNCHANGED find)
         /\ screen' = "calibrate" =>
              \/ Mounts("calibrate")
              \/ screen = "calibrate" /\ (Wizard!WizardNext \/ UNCHANGED wizard)
<1>1. CASE SignIn \/ Leave \/ SignOut
  BY <1>1 DEF SignIn, Leave, SignOut
<1>2. CASE Visit
  BY <1>2 DEF Visit
<1>3. CASE UNCHANGED vars
  BY <1>3 DEF vars, parts
<1>4. CASE \/ On("review") /\ Review!ReviewNext
           \/ On("search") /\ Search!SearchNext
           \/ On("calibrate") /\ Wizard!WizardNext
  BY <1>4 DEF On
<1>5. CASE \E s \in {"foundation", "pack", "calendar", "journals", "entry", "achievements",
                    "team"} : On(s)
  BY <1>5 DEF On
<1> QED
  BY <1>1, <1>2, <1>3, <1>4, <1>5 DEF Next

OnReview    == screen = "review" => DeskInv(desk)
OnSearch    == screen = "search" => FindInv(find)
OnCalibrate == screen = "calibrate" => WizardInv(wizard)

PagesInv == OnReview /\ OnSearch /\ OnCalibrate

LEMMA NextKeeps == PagesInv /\ [Next]_vars => PagesInv'
<1> SUFFICES ASSUME PagesInv, [Next]_vars PROVE PagesInv'
  OBVIOUS
<1>1. OnReview'
  <2>1. Mounts("review") => desk' = Review!ReviewMounted
    BY DEF Mounts
  <2> QED
    BY <2>1, Framed, ReviewNextKeeps, ReviewMountedRight DEF PagesInv, OnReview
<1>2. OnSearch'
  <2>1. Mounts("search") => find' = Search!SearchMounted
    BY DEF Mounts
  <2> QED
    BY <2>1, Framed, SearchNextKeeps, SearchMountedRight DEF PagesInv, OnSearch
<1>3. OnCalibrate'
  <2>1. Mounts("calibrate") => wizard' = Wizard!WizardMounted
    BY DEF Mounts
  <2> QED
    BY <2>1, Framed, WizardNextKeeps, WizardMountedRight DEF PagesInv, OnCalibrate
<1> QED
  BY <1>1, <1>2, <1>3 DEF PagesInv

LEMMA Inductive == Spec => []PagesInv
<1>1. Init => PagesInv
  BY DEF Init, PagesInv, OnReview, OnSearch, OnCalibrate
<1> QED
  BY <1>1, NextKeeps, PTL DEF Spec

------------------------------------------------------------------------------
(* ReviewPage: once the load started last is answered, entries and           *)
(* achievements are of the period named, unless that half of it failed or an *)
(* older load was answered after it; however many loads overlap.             *)
THEOREM EntriesCorrect == Spec => []EntriesCurrent
<1>1. ASSUME PagesInv, screen = "review" PROVE Review!EntriesCurrent
  <2>1. LatestFits(desk)
    BY <1>1 DEF PagesInv, OnReview, DeskInv
  <2>2. Review!Answered = AllAnswered(desk)
    BY DEF Review!Answered, AllAnswered
  <2> QED
    BY <2>1, <2>2 DEF LatestFits, IsOf, Review!EntriesCurrent
<1>2. PagesInv => EntriesCurrent
  BY <1>1 DEF EntriesCurrent
<1> QED
  BY <1>2, Inductive, PTL

(* ReviewPage: the summary exported has the name of the period, and was made *)
(* of the period's entries and achievements, unless the period moved since   *)
(* it was asked for, or it was asked for before the page was at rest on it.  *)
THEOREM SummaryCorrect == Spec => []SummaryFits
<1>1. ASSUME PagesInv, screen = "review" PROVE Review!SummaryFits
  <2>1. Fits(desk.summary, desk.period)
    BY <1>1 DEF PagesInv, OnReview, DeskInv, Sound, Labelled
  <2> QED
    BY <2>1 DEF Fits, IsOf, Review!SummaryFits
<1>2. PagesInv => SummaryFits
  BY <1>1 DEF SummaryFits
<1> QED
  BY <1>2, Inductive, PTL

(* ReviewPage: no spinner without a load, however loads overlap or fail, and *)
(* no load without one until another load is answered.                       *)
THEOREM SpinnerCorrect == Spec => []SpinnerHonest
<1>1. PagesInv => SpinnerHonest
  BY DEF PagesInv, OnReview, DeskInv, Sound, Honest, SpinnerHonest, Review!SpinnerHonest
<1> QED
  BY <1>1, Inductive, PTL

(* SearchPage: results of the newest search are of the filters shown.        *)
THEOREM ResultsCorrect == Spec => []ResultsCurrent
<1>1. PagesInv => ResultsCurrent
  <2> SUFFICES ASSUME OnSearch, screen = "search", find.timer = None, Search!Results # {}
               PROVE  \A s \in {find.journals, find.wins} \ {None} :
                        s.n = find.newest => s.by = find.by
    BY DEF PagesInv, ResultsCurrent, Search!ResultsCurrent
  <2>1. find.searched
    BY DEF Search!Results
  <2> QED
    BY <2>1 DEF OnSearch, FindInv, Held
<1> QED
  BY <1>1, Inductive, PTL

(* SearchPage: without filters and timer no results, whatever comes in late. *)
THEOREM CleanCorrect == Spec => []CleanSlate
<1>1. PagesInv => CleanSlate
  BY DEF PagesInv, OnSearch, FindInv, CleanSlate, Search!CleanSlate, Search!HasFilters,
         Search!Results
<1> QED
  BY <1>1, Inductive, PTL

(* CalibrationModePage: a note is shown and stored as one about its member.  *)
THEOREM OwnNoteCorrect == Spec => []OwnNote
<1>1. PagesInv => OwnNote
  <2> SUFFICES ASSUME WizardInv(wizard) PROVE Wizard!OwnNote
    BY DEF PagesInv, OnCalibrate, OwnNote
  <2>1. wizard \in WizardShape /\ TableOwn(wizard.table) /\ BoxOwn(wizard)
    BY DEF WizardInv
  <2>2. wizard.table.kept \in [Members \X Kpis -> Wizard!Texts]
    BY <2>1 DEF WizardShape, Wizard!Table
  <2>3. Wizard!OnMember => wizard.step <= Len(Team)
    BY <2>1, TeamAssumption DEF Wizard!OnMember, Wizard!OnSummary, WizardShape
  <2> QED
    BY <2>1, <2>2, <2>3 DEF Wizard!OwnNote, Wizard!OnMember, Wizard!Shown, TableOwn, BoxOwn, About
<1> QED
  BY <1>1, Inductive, PTL

(* ManagerRoute: only managers and admins are ever on the team's pages.      *)
THEOREM ManagersOnly ==
  Spec => [](screen \in Managed => role \in {"manager", "admin"})
<1> DEFINE M == screen \in Managed => role \in {"manager", "admin"}
<1>1. Init => M
  BY DEF Init, Managed
<1>2. M /\ [Next]_vars => M'
  <2> SUFFICES ASSUME M, [Next]_vars PROVE M'
    OBVIOUS
  <2>1. CASE SignIn \/ Leave \/ SignOut
    BY <2>1 DEF SignIn, Leave, SignOut, Managed
  <2>2. CASE Visit
    BY <2>2 DEF Visit, Allowed
  <2>3. CASE UNCHANGED <<screen, role>>
    BY <2>3
  <2> QED
    BY <2>1, <2>2, <2>3 DEF Next, On, vars
<1> QED
  BY <1>1, <1>2, PTL DEF Spec
==============================================================================
