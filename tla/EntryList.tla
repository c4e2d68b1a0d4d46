------------------------------- MODULE EntryList -------------------------------
(***************************************************************************)
(* The journal page (frontend/src/pages/JournalListPage.jsx): the entries    *)
(* that match the filters are loaded, and then, for each of them, its tags,  *)
(* achievements and attachments, all put on the page at once when the last   *)
(* of them is there.  Nothing is called back when the filters change again.  *)
(***************************************************************************)
EXTENDS Naturals, FiniteSets

CONSTANTS
  Rows,      \* the entries of the archive, numbered as they were written
  Filters,   \* the categories and ranges of dates, each the set of rows it lets through
  Limit,     \* the most a load returns
  None,      \* nothing loaded
  MaxLists   \* bound: loads of the list started

VARIABLE list   \* the page, see List

(* An empty filter lets everything through.                                  *)
Choices == Filters \cup {Rows}
Loads   == [n : 1..MaxLists, by : Choices]

List == [by      : Choices,               \* category, dateFrom, dateTo
         mode    : {"gallery", "list"},   \* viewMode
         newest  : 0..MaxLists,           \* loads started
         asked   : SUBSET Loads,          \* loads of the list under way
         loading : BOOLEAN,
         entries : Loads \cup {None},     \* journals: the load they come from
         details : Loads \cup {None},     \* enrichment: of which list
         fetching: SUBSET Loads,          \* lists whose details are under way
         amiss   : BOOLEAN]               \* history: see ListSettles

(* The server answers with the newest.                                       *)
Newest(by) == {j \in by : Cardinality({k \in by : k > j}) < Limit}

Shown == IF list.entries = None THEN {} ELSE Newest(list.entries.by)

Detailed == IF list.details = None THEN {} ELSE Newest(list.details.by)

(* What the card or the row of an entry has to show: its own fields, and     *)
(* the tags, the star and the thumbnail once the details are there.          *)
Card(j) == IF j \in Detailed THEN {"fields", "tags", "achievements", "attachments"}
           ELSE {"fields"}

(* The strip above the list counts what is listed.                           *)
Strip == Cardinality(Shown)

(* The empty state offers to write a first entry only if nothing is filtered.*)
Screen == CASE list.loading -> "loading"
            [] ~list.loading /\ Shown = {} /\ list.by = Rows -> "write your first entry"
            [] ~list.loading /\ Shown = {} /\ list.by # Rows -> "adjust your filters"
            [] OTHER -> list.mode

------------------------------------------------------------------------------
(* A load starts when the page is mounted and whenever a filter changes.     *)
Asking(l, by) ==
  [l EXCEPT !.by = by, !.newest = @ + 1, !.loading = TRUE,
     !.asked = @ \cup {[n |-> l.newest + 1, by |-> by]},
     !.amiss = @ \/ l.asked # {} \/ l.fetching # {}]

(* The pills, the dates, Clear.                                              *)
Filter ==
  /\ list.newest < MaxLists
  /\ \E by \in Choices \ {list.by} : list' = Asking(list, by)

SwitchView ==
  \E m \in {"gallery", "list"} \ {list.mode} : list' = [list EXCEPT !.mode = m]

(* variant: the details are fetched for the first list only                  *)
ListedOnce(l) ==
  [list EXCEPT !.asked = @ \ {l}, !.loading = FALSE, !.entries = l,
     !.fetching = IF l.by = {} \/ list.details # None THEN @ ELSE @ \cup {l}]

(* A list arrives; unless it is empty its details are fetched.               *)
ListedNow(l) ==
  [list EXCEPT !.asked = @ \ {l}, !.loading = FALSE, !.entries = l,
     !.fetching = IF l.by = {} THEN @ ELSE @ \cup {l}]

(* A load that fails leaves the old list under the new filters.              *)
ListAnswers ==
  \E l \in list.asked :
    \/ list' = ListedNow(l)
    \/ list' = [list EXCEPT !.asked = @ \ {l}, !.loading = FALSE, !.amiss = TRUE]

(* loadEnrichment: what could not be had of an entry counts as none.         *)
DetailsArrive ==
  \E l \in list.fetching :
    list' = [list EXCEPT !.fetching = @ \ {l}, !.details = l]

ListMounted ==
  Asking([by |-> Rows, mode |-> "gallery", newest |-> 0, asked |-> {},
          loading |-> TRUE, entries |-> None, details |-> None,
          fetching |-> {}, amiss |-> FALSE], Rows)

ListInit == list = ListMounted

ListNext == Filter \/ SwitchView \/ ListAnswers \/ DetailsArrive

------------------------------------------------------------------------------
(* When everything asked for has come, the page lists the newest of what its *)
(* filters let through, and no card of it lacks its details, unless a load   *)
(* failed or a filter changed while another answer was still to come (the    *)
(* two effects of JournalListPage.jsx).                                      *)
ListSettles ==
  ~list.amiss /\ list.asked = {} /\ list.fetching = {} =>
    /\ Shown = Newest(list.by)
    /\ Strip <= Limit
    /\ \A j \in Shown : "tags" \in Card(j)
    /\ Screen # "loading"
==============================================================================
