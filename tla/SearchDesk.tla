------------------------------ MODULE SearchDesk ------------------------------
(***************************************************************************)
(* The search page (frontend/src/pages/SearchPage.jsx).  Whatever changes a  *)
(* filter starts a timer anew; the timer starts a search of entries and      *)
(* achievements; searches are answered in any order and are never called     *)
(* back.  Results open in a drawer, which locks the page's scrolling.        *)
(***************************************************************************)
EXTENDS Naturals

CONSTANTS
  Words,       \* what the keyword, the category and the dates can be set to
  Tags,        \* the tags of the server
  None,        \* a filter that is not set; nothing shown, open or waiting
  MaxSearches  \* bound: searches started

VARIABLE find   \* the page, see Find

Criteria  == [words : Words \cup {None}, tag : Tags \cup {None},
              importance : {"critical", "high", None}]
NoFilters == [words |-> None, tag |-> None, importance |-> None]

Scopes   == {"all", "journals", "achievements", "foundation"}
Searches == [n : 1..MaxSearches, by : Criteria]

Find == [by       : Criteria,
         scope    : Scopes,
         tags     : SUBSET Tags,                  \* allTags
         timer    : {"clear", "search", None},    \* of the debounce
         newest   : 0..MaxSearches,               \* searches started
         asked    : SUBSET Searches,              \* searches under way
         loading  : BOOLEAN,
         searched : BOOLEAN,
         journals : Searches \cup {None},         \* the search they come from
         wins     : Searches \cup {None},         \* achievements, likewise
         item     : {"journal", "achievement", None}]  \* selectedItem

HasFilters(f) == f.by # NoFilters

------------------------------------------------------------------------------
(* variant: the effect does not depend on the tag                            *)
FilteredButTag(by) ==
  [find EXCEPT !.by = by,
     !.timer = IF [by EXCEPT !.tag = None] = [find.by EXCEPT !.tag = None] THEN find.timer
               ELSE IF by = NoFilters THEN "clear" ELSE "search"]

(* A filter changes: the effect drops the timer and starts another.          *)
Filtered(by) ==
  [find EXCEPT !.by = by,
     !.timer = IF by = find.by THEN find.timer
               ELSE IF by = NoFilters THEN "clear" ELSE "search"]

(* resetFilters: the page is cleared at once, the timer follows.             *)
Reset == [Filtered(NoFilters) EXCEPT !.scope = "all", !.searched = FALSE,
            !.journals = None, !.wins = None]

(* The tags and cycles, once; without them there are no chips to click.      *)
ListTags ==
  /\ find.tags = {}
  /\ find' = [find EXCEPT !.tags = Tags]

(* The search box, its clear button, the category and the dates.             *)
Type ==
  /\ find.item = None
  /\ \E w \in Words \cup {None} : find' = Filtered([find.by EXCEPT !.words = w])

(* The chips: a tag or a cycle is set, or taken back by a second click.      *)
ToggleTag ==
  /\ find.item = None
  /\ \E t \in find.tags :
       find' = Filtered([find.by EXCEPT !.tag = IF @ = t THEN None ELSE t])

(* handleQuickImpact.                                                        *)
ToggleCritical ==
  /\ find.item = None
  /\ IF find.scope = "achievements" /\ find.by.importance = "critical"
     THEN find' = [Filtered([find.by EXCEPT !.importance = None]) EXCEPT !.scope = "all"]
     ELSE find' = [Filtered([find.by EXCEPT !.importance = "critical"])
                     EXCEPT !.scope = "achievements"]

(* The selects of the toolbar; they leave the scope alone.                   *)
Choose ==
  /\ find.item = None
  /\ \/ \E t \in find.tags \cup {None} : find' = Filtered([find.by EXCEPT !.tag = t])
     \/ \E i \in {"critical", "high", None} :
          find' = Filtered([find.by EXCEPT !.importance = i])

(* The pill of a filter takes it back; that of the importance also leaves    *)
(* the scope of the achievements.                                            *)
RemovePill ==
  /\ find.item = None
  /\ \/ find.by.words # None /\ find' = Filtered([find.by EXCEPT !.words = None])
     \/ find.by.tag # None /\ find' = Filtered([find.by EXCEPT !.tag = None])
     \/ /\ find.by.importance # None
        /\ find' = [Filtered([find.by EXCEPT !.importance = None])
                      EXCEPT !.scope = IF @ = "achievements" THEN "all" ELSE @]

(* Clear filters, Clear all, and Escape while no drawer is open.             *)
ResetFilters ==
  /\ find.item = None /\ HasFilters(find)
  /\ find' = Reset

ChooseScope ==
  /\ find.item = None /\ find.searched
  /\ \E s \in Scopes : find' = [find EXCEPT !.scope = s]

------------------------------------------------------------------------------
(* performSearch, up to its requests.                                        *)
Started ==
  [find EXCEPT !.timer = None, !.newest = @ + 1, !.loading = TRUE, !.searched = TRUE,
     !.asked = @ \cup {[n |-> find.newest + 1, by |-> find.by]}]

(* The timer runs out.                                                       *)
TimerFires ==
  \/ /\ find.timer = "search" /\ find.newest < MaxSearches
     /\ find' = Started
  \/ /\ find.timer = "clear"
     /\ find' = [find EXCEPT !.timer = None, !.searched = FALSE,
                   !.journals = None, !.wins = None]

(* variant: the page counts as searched when the answer is there             *)
AnsweredAndSearched(s, gotJournals, gotWins) ==
  [find EXCEPT !.asked = @ \ {s}, !.loading = FALSE, !.searched = TRUE,
     !.journals = IF gotJournals THEN s ELSE None,
     !.wins     = IF gotWins THEN s ELSE None]

(* Both requests of a search have settled: the half that failed shows as no  *)
(* results.                                                                  *)
Answered(s, gotJournals, gotWins) ==
  [find EXCEPT !.asked = @ \ {s}, !.loading = FALSE,
     !.journals = IF gotJournals THEN s ELSE None,
     !.wins     = IF gotWins THEN s ELSE None]

SearchAnswers ==
  \E s \in find.asked, gotJournals, gotWins \in BOOLEAN :
    find' = Answered(s, gotJournals, gotWins)

------------------------------------------------------------------------------
(* What the page lists: entries and achievements of the scope.               *)
Listed ==
  (IF find.scope \in {"all", "journals", "foundation"} THEN {"journal"} ELSE {})
    \cup (IF find.scope \in {"all", "achievements"} THEN {"achievement"} ELSE {})

Found == (IF find.journals # None THEN {"journal"} ELSE {})
           \cup (IF find.wins # None THEN {"achievement"} ELSE {})

Results == IF find.searched /\ ~find.loading THEN Listed \cap Found ELSE {}

(* A card opens its drawer; a tag on the card of an entry filters by it.     *)
OpenCard ==
  /\ find.item = None
  /\ \E k \in Results : find' = [find EXCEPT !.item = k]

PickCardTag ==
  /\ find.item = None /\ "journal" \in Results
  /\ \E t \in Tags : find' = Filtered([find.by EXCEPT !.tag = t])

(* Escape, the cross, the overlay, the button.                               *)
CloseDrawer ==
  /\ find.item # None
  /\ find' = [find EXCEPT !.item = None]

SearchMounted ==
  [by |-> NoFilters, scope |-> "all", tags |-> {}, timer |-> "clear",
   newest |-> 0, asked |-> {}, loading |-> FALSE, searched |-> FALSE,
   journals |-> None, wins |-> None, item |-> None]

SearchInit == find = SearchMounted

SearchNext ==
  \/ ListTags \/ Type \/ ToggleTag \/ ToggleCritical \/ Choose \/ RemovePill
  \/ ResetFilters \/ ChooseScope \/ TimerFires \/ SearchAnswers
  \/ OpenCard \/ PickCardTag \/ CloseDrawer

------------------------------------------------------------------------------
(* Once the search started last is on the page and no timer runs, what is    *)
(* listed was searched for by the filters the page shows, whichever chip,    *)
(* pill, card or key changed them (the effect of SearchPage.jsx).            *)
ResultsCurrent ==
  find.timer = None /\ Results # {} =>
    \A s \in {find.journals, find.wins} \ {None} : s.n = find.newest => s.by = find.by

(* Without filters nothing is listed once the timer has run, not even when   *)
(* the answer to a search that was given up comes in afterwards.             *)
CleanSlate == find.timer = None /\ ~HasFilters(find) => Results = {}
==============================================================================
