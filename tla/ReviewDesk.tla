------------------------------ MODULE ReviewDesk ------------------------------
(***************************************************************************)
(* The review page (frontend/src/pages/ReviewPage.jsx): a period is chosen,  *)
(* its entries and achievements are loaded, a summary of them is asked of    *)
(* the AI, and all of it can be exported.  Loads are answered in any order   *)
(* and either half of one may fail; a summary takes as long as it takes, and *)
(* the page goes on meanwhile.                                               *)
(***************************************************************************)
EXTENDS Naturals

CONSTANTS
  Kpis,      \* the KPI cycles the server lists
  Quarters,  \* the quarters, and All Time
  Custom,    \* the custom range the page starts with, the last 30 days
  Blank,     \* a custom range with an empty date
  Unset,     \* "KPI cycle" is chosen and no cycle is known yet
  None,      \* nothing loaded, no summary, no request
  MaxLoads,  \* bound: loads started
  MaxAsks    \* bound: summaries asked for

Others  == Quarters \cup {Custom, Blank}
Periods == Kpis \cup Others \cup {Unset}

VARIABLE desk   \* the page, see Desk

(* Data on the page remember the load they came from and its dates.          *)
Data == [n : 1..MaxLoads, dates : Periods \ {Unset, Blank}]

(* A summary and the request for one: the label sent with them, and the      *)
(* entries and achievements that were sent.  Two histories, see SummaryFits. *)
Summary == [label : Periods, of : Data \cup {None}, wins : Data \cup {None},
            early : BOOLEAN, moved : BOOLEAN]

(* What can have gone amiss since the load started last, see EntriesCurrent. *)
Mishaps == {"entries", "wins", "loading"}

(* What diagnoseError makes of an error: a connection that broke, or one of  *)
(* the kinds for which another configuration may help.                       *)
Errors == {"connection", "other"}

Desk == [period   : Periods,                  \* periodType with its selection
         listed   : {"waiting", "none", "some"},  \* the KPI cycles of the server
         loads    : SUBSET Data,              \* loads under way
         newest   : 0..MaxLoads,              \* loads started
         loading  : BOOLEAN,
         entries  : Data \cup {None},         \* journals
         wins     : Data \cup {None},         \* achievements
         draft    : Periods \cup {None},      \* choice in the open configuration
         asked    : Summary \cup {None},      \* isSynthesizing, and for what
         asks     : 0..MaxAsks,
         last     : Periods \cup {None},      \* lastSynthesisConfigRef
         summary  : Summary \cup {None},      \* aiSynthesis
         error    : Errors \cup {None},       \* aiError
         exporting: BOOLEAN,
         amiss    : SUBSET Mishaps]           \* history

(* While a load is under way the page is gone, unless a summary is being     *)
(* written; its dialogs come back with it.                                   *)
Visible == ~desk.loading \/ desk.asked # None

Covered == desk.draft # None \/ desk.error # None \/ desk.exporting
Filled  == desk.entries # None \/ desk.wins # None

(* getEffectiveDates: without a cycle the dates are the custom ones.         *)
Dates(p) == IF p = Unset THEN Custom ELSE p

(* The configuration is a component defined inside the page: whenever the    *)
(* page renders again it is mounted anew, with the page's period.            *)
Remounted(d) == IF d.draft = None THEN d ELSE [d EXCEPT !.draft = d.period]

(* variant: the effect does not depend on the chosen KPI cycle               *)
ReloadedNotKpi(d) ==
  IF d.period \in {Blank} \cup Kpis THEN Remounted(d)
  ELSE Remounted([d EXCEPT !.newest = d.newest + 1, !.loading = TRUE, !.amiss = {},
                    !.loads = d.loads \cup {[n |-> d.newest + 1, dates |-> Dates(d.period)]}])

(* The effect that follows every change of period: a load starts, unless a   *)
(* date is missing.                                                          *)
Reloaded(d) ==
  IF d.period = Blank THEN Remounted(d)
  ELSE Remounted([d EXCEPT !.newest = d.newest + 1, !.loading = TRUE, !.amiss = {},
                    !.loads = d.loads \cup {[n |-> d.newest + 1, dates |-> Dates(d.period)]}])

(* The cycles a select offers.                                              *)
Listed == IF desk.listed = "some" THEN Kpis ELSE {}

CanLoad == desk.newest < MaxLoads

(* The load started last is answered.                                        *)
Answered == \A l \in desk.loads : l.n # desk.newest

(* The period changes, under a summary and a request for one.                *)
Moved(s) == IF s = None THEN None ELSE [s EXCEPT !.moved = TRUE]
Shifted(d, p) ==
  IF p = d.period THEN d
  ELSE [d EXCEPT !.period = p, !.asked = Moved(@), !.summary = Moved(@)]

------------------------------------------------------------------------------
(* The KPI cycles arrive, perhaps none; the active one is chosen if the page *)
(* waited for one, and the list itself starts a load.  Or the request fails. *)
ListPeriods ==
  /\ desk.listed = "waiting" /\ CanLoad
  /\ \/ \E k \in Kpis :
          desk' = Reloaded(Shifted([desk EXCEPT !.listed = "some"],
                                   IF desk.period = Unset THEN k ELSE desk.period))
     \/ desk' = Reloaded([desk EXCEPT !.listed = "none"])
     \/ desk' = Remounted([desk EXCEPT !.listed = "none"])

(* Half of the load l is lost if it fails in the newest, and puts old data   *)
(* in the place of new if it comes with a load overtaken by the newest.      *)
Astray(l, got) == IF l.n = desk.newest THEN ~got ELSE got /\ Answered

(* variant: the flag is cleared only by a load that succeeds                 *)
LoadedIfOk(d, l, ok) == [d EXCEPT !.loads = @ \ {l}, !.loading = IF ok THEN FALSE ELSE @]

(* A load is over, however it went, and with it the page's claim to load.    *)
Loaded(d, l, ok) ==
  [d EXCEPT !.loads = @ \ {l}, !.loading = FALSE,
            !.amiss = @ \cup {h \in {"loading"} : d.loads # {l}}]

(* Both requests of a load have settled; what failed leaves the old data.    *)
LoadAnswers ==
  \E l \in desk.loads, gotEntries, gotWins \in BOOLEAN :
    desk' = Remounted(Loaded([desk EXCEPT
                !.entries = IF gotEntries THEN l ELSE @,
                !.wins    = IF gotWins THEN l ELSE @,
                !.amiss   = @ \cup {h \in {"entries"} : Astray(l, gotEntries)}
                              \cup {h \in {"wins"} : Astray(l, gotWins)}], l, gotEntries))

(* variant: the old summary stays                                            *)
ChosenKeepsSummary(p) ==
  Reloaded([desk EXCEPT !.period = p, !.asked = Moved(@)])

(* A period chosen in the toolbar drops the summary of the one before.       *)
Chosen(p) ==
  Reloaded([Shifted(desk, p) EXCEPT !.summary = None])

SelectPeriod ==
  /\ Visible /\ ~Covered /\ CanLoad
  /\ \E p \in Others \cup Listed :
       p # desk.period /\ desk' = Chosen(p)

------------------------------------------------------------------------------
(* The configuration of a summary: opened, changed, given up.                *)
OpenConfig ==
  /\ ~Covered /\ desk.asked = None /\ ~desk.loading /\ Filled
  /\ desk' = [desk EXCEPT !.draft = desk.period]

EditDraft ==
  /\ Visible /\ desk.draft # None
  /\ \E p \in Others \cup Listed :
       p # desk.draft /\ desk' = [desk EXCEPT !.draft = p]

CloseConfig ==
  /\ Visible /\ desk.draft # None
  /\ desk' = [desk EXCEPT !.draft = None]

(* handleGenerateSynthesis: the page moves to the period p, and what it      *)
(* holds at this moment is sent, with p as the label: if p is another period *)
(* or the page has not come to rest on p, that may not be what belongs to p. *)
Early(p) == p # desk.period \/ p = Blank \/ ~Answered \/ desk.amiss \cap {"entries", "wins"} # {}

Request(p) == [label |-> p, of |-> desk.entries, wins |-> desk.wins,
               early |-> Early(p), moved |-> FALSE]

Generated(p) ==
  LET d == [Shifted(desk, p) EXCEPT !.draft = None, !.error = None, !.last = p,
                                    !.asked = Request(p), !.asks = @ + 1]
  IN  IF p = desk.period THEN d ELSE Reloaded(d)

Ask(p) ==
  /\ Visible /\ desk.asks < MaxAsks
  /\ p = desk.period \/ CanLoad
  /\ desk' = Generated(p)

Generate == desk.draft # None /\ Ask(desk.draft)

(* The AI error modal says what went wrong; a connection error offers no     *)
(* other configuration, only another try of the same.                        *)
Retry == desk.error # None /\ Ask(desk.last)

ConfigFromError ==
  /\ Visible /\ desk.error = "other"
  /\ desk' = [desk EXCEPT !.error = None, !.draft = desk.period]

CloseError ==
  /\ Visible /\ desk.error # None
  /\ desk' = [desk EXCEPT !.error = None]

(* The answer of the AI, or the error of any step on the way.                *)
AskAnswers ==
  /\ desk.asked # None
  /\ \/ desk' = [desk EXCEPT !.summary = desk.asked, !.asked = None]
     \/ \E e \in Errors : desk' = [desk EXCEPT !.error = e, !.asked = None]

------------------------------------------------------------------------------
(* The export dialog shows the page's period, entries and summary.           *)
OpenExport ==
  /\ ~Covered /\ ~desk.loading /\ Filled
  /\ desk' = [desk EXCEPT !.exporting = TRUE]

CloseExport ==
  /\ Visible /\ desk.exporting
  /\ desk' = [desk EXCEPT !.exporting = FALSE]

(* Mounted with no cycle known: the first load is of the custom range.       *)
ReviewMounted ==
  [period |-> Unset, listed |-> "waiting",
   loads |-> {[n |-> 1, dates |-> Custom]}, newest |-> 1, loading |-> TRUE,
   entries |-> None, wins |-> None,
   draft |-> None, asked |-> None, asks |-> 0, last |-> None,
   summary |-> None, error |-> None, exporting |-> FALSE, amiss |-> {}]

ReviewInit == desk = ReviewMounted

ReviewNext ==
  \/ ListPeriods \/ LoadAnswers \/ SelectPeriod
  \/ OpenConfig \/ EditDraft \/ CloseConfig \/ Generate
  \/ AskAnswers \/ Retry \/ ConfigFromError \/ CloseError
  \/ OpenExport \/ CloseExport

ReviewSpec == ReviewInit /\ [][ReviewNext]_desk

------------------------------------------------------------------------------
(* The page keeps its shape, and no second summary can be asked for while    *)
(* one is under way.                                                         *)
ReviewTypeOK ==
  /\ desk \in Desk
  /\ desk.asked # None => desk.draft = None /\ desk.error = None
  /\ desk.draft # None => desk.error = None

(* When the load started last has been answered, the page shows entries and  *)
(* achievements of the period it names, however the cycles' list, the        *)
(* toolbar and the configuration took turns changing it and in whatever      *)
(* order older loads are answered; unless that half of that load failed, or  *)
(* a load overtaken by it was answered after it (the effect of               *)
(* ReviewPage.jsx, what it depends on, and that it cancels nothing).         *)
EntriesCurrent ==
  Answered /\ desk.period # Blank =>
    /\ "entries" \notin desk.amiss =>
         desk.entries # None /\ desk.entries.dates = Dates(desk.period)
    /\ "wins" \notin desk.amiss =>
         desk.wins # None /\ desk.wins.dates = Dates(desk.period)

(* The summary on the page, which the export prints under the page's period, *)
(* is named after that period, unless the period changed since it was asked  *)
(* for (moved); and it was made of that period's entries and achievements,   *)
(* unless it was asked for early: for another period than the page was on,   *)
(* or with a date missing, or before the newest load was answered, or after  *)
(* half of that load had failed or been overtaken.                           *)
SummaryFits ==
  desk.summary # None /\ ~desk.summary.moved =>
    /\ desk.summary.label = desk.period
    /\ ~desk.summary.early =>
         /\ desk.summary.of # None /\ desk.summary.of.dates = Dates(desk.period)
         /\ desk.summary.wins # None /\ desk.summary.wins.dates = Dates(desk.period)

(* The page never claims to load when no load is under way: a spinner that   *)
(* stays would disable the summary and the export for good.  And while one   *)
(* is under way it says so, unless another was answered since the newest     *)
(* began.                                                                    *)
SpinnerHonest ==
  /\ desk.loading => desk.loads # {}
  /\ desk.loads # {} /\ "loading" \notin desk.amiss => desk.loading
==============================================================================
