--------------------------- MODULE ActivityCalendar ---------------------------
(***************************************************************************)
(* The calendar of a period (components/ui/ActivityCalendar.jsx): a grid of  *)
(* whole weeks, a cell coloured for every day with entries, a badge with     *)
(* their number, and a drawer for the day clicked.  The review page hands    *)
(* over the bounds of the period as instants of the browser, the dashboard   *)
(* as plain dates, which are read as midnight in Greenwich and then cut to   *)
(* the day of the browser; the dates of entries are compared as written.     *)
(***************************************************************************)
EXTENDS Integers, FiniteSets

CONSTANTS
  Days,     \* the days entries are written on; day 0 is a Monday
  Ranges,   \* the periods shown, each <<first day, last day>>
  Most,     \* bound: entries of a day
  None      \* no day is selected

VARIABLE calendar   \* the component, see Calendar

(* Where the browser is; a time of day is early or late for Greenwich.       *)
Zones == {"west", "greenwich", "east"}
Stamps == Days \X {"date", "early", "late"}   \* achieved_date, or created_at

(* What is known of a day when its cell is made.                             *)
Cell == [day : Int, count : 0..Most, wins : Nat]

Calendar == [zone     : Zones,
             bounds   : {"instants", "dates"},  \* startDate and endDate, or kpiPeriod
             range    : Ranges,              \* the first and the last day meant
             entries  : [Days -> 0..Most],   \* journals
             wins     : SUBSET Stamps,       \* achievements
             lens     : {"volume", "category"},
             selected : Cell \cup {None}]    \* selectedDay

------------------------------------------------------------------------------
(* In the west, midnight in Greenwich is still the day before.               *)
Early == calendar.bounds = "dates" /\ calendar.zone = "west"

LocalDay(d) == IF Early THEN d - 1 ELSE d

(* startNorm, endNorm: the first and the last day, whole.                    *)
First == LocalDay(calendar.range[1])
Last  == LocalDay(calendar.range[2])

(* The day an achievement is filed under: its date, or the local day of the  *)
(* instant at which it was made.                                             *)
WinDay(w) ==
  CASE w[2] = "early" /\ calendar.zone = "west" -> w[1] - 1
    [] w[2] = "late" /\ calendar.zone = "east"  -> w[1] + 1
    [] OTHER -> w[1]

(* Monday is 0, as in (getDay() + 6) % 7.                                    *)
WeekDay(d) == d % 7

(* From the Monday on or before the first day to the Sunday on or after the  *)
(* last one.                                                                 *)
Grid == (First - WeekDay(First)) .. (Last + 6 - WeekDay(Last))

(* variant: the last day counts from its midnight only                       *)
InRangeOpen(d) == First <= d /\ d < Last

InRange(d) == First <= d /\ d <= Last

CountOf(d) == IF d \in Days THEN calendar.entries[d] ELSE 0

(* A cell: out of the range it is empty whatever the day has.                *)
CellOf(d) ==
  [day   |-> d,
   count |-> IF InRange(d) THEN CountOf(d) ELSE 0,
   wins  |-> IF InRange(d) THEN Cardinality({w \in calendar.wins : WinDay(w) = d}) ELSE 0]

Cells == {CellOf(d) : d \in Grid}

(* The levels l1 to l4 of the cells, and the marker of achievements.         *)
Level(c)  == IF c.count > 4 THEN 4 ELSE c.count
Coloured  == {c.day : c \in {x \in Cells : Level(x) > 0}}
Marked    == {c.day : c \in {x \in Cells : x.wins > 0}}

(* The badge counts all days with entries and all achievements, in range or  *)
(* not.                                                                      *)
ActiveDays == {d \in Days : calendar.entries[d] > 0}
Badge      == [days |-> Cardinality(ActiveDays), wins |-> Cardinality(calendar.wins)]

------------------------------------------------------------------------------
(* Entries or achievements arrive, or another period is chosen.  What was    *)
(* selected stays as it was.                                                 *)
Supply ==
  \/ \E d \in Days, n \in 0..Most : calendar' = [calendar EXCEPT !.entries[d] = n]
  \/ \E w \in Stamps :
       calendar' = [calendar EXCEPT !.wins = IF @ = {} THEN {w} ELSE @ \ {w}]
  \/ \E r \in Ranges : calendar' = [calendar EXCEPT !.range = r]

(* handleCellClick: a second click takes the selection back.                 *)
ClickCell ==
  \E c \in Cells :
    /\ InRange(c.day)
    /\ calendar' = [calendar EXCEPT
         !.selected = IF @ # None /\ calendar.selected.day = c.day THEN None ELSE c]

SwitchLens ==
  \E l \in {"volume", "category"} \ {calendar.lens} :
    calendar' = [calendar EXCEPT !.lens = l]

(* The drawer of the selected day says what the cell knew when it was        *)
(* clicked: achievements first, then entries, or that there is nothing.      *)
Drawer ==
  IF calendar.selected = None THEN {}
  ELSE (IF calendar.selected.wins > 0 THEN {"achievements"} ELSE {})
         \cup (IF calendar.selected.count > 0 THEN {"entries"} ELSE {})
         \cup (IF calendar.selected.count + calendar.selected.wins = 0 THEN {"nothing"} ELSE {})

ClosePeek ==
  /\ Drawer # {}
  /\ calendar' = [calendar EXCEPT !.selected = None]

CalendarMounted ==
  {[zone |-> z, bounds |-> b, range |-> r, entries |-> [d \in Days |-> 0], wins |-> {},
    lens |-> "volume", selected |-> None] :
     z \in Zones, b \in {"instants", "dates"}, r \in Ranges}

CalendarInit == calendar \in CalendarMounted

CalendarNext == Supply \/ ClickCell \/ SwitchLens \/ ClosePeek

------------------------------------------------------------------------------
(* The grid is made of whole weeks, and colours every day of the period that *)
(* has entries, so that its cells add up to the badge when all entries are   *)
(* of the period; given plain dates in the west it stands a day early and    *)
(* never shows the last day, though the badge counts it (startNorm and       *)
(* endNorm against the keys of the maps).                                    *)
CalendarComplete ==
  /\ Cardinality(Grid) % 7 = 0
  /\ LET period == calendar.range[1] .. calendar.range[2]
         shown  == IF Early THEN period \ {calendar.range[2]} ELSE period
     IN  /\ ActiveDays \cap shown \subseteq Coloured
         /\ ActiveDays \subseteq period =>
              Badge.days - Cardinality(Coloured)
                = Cardinality(ActiveDays \ shown)
         /\ \A w \in calendar.wins :
              w[2] = "date" /\ w[1] \in shown => w[1] \in Marked
==============================================================================
