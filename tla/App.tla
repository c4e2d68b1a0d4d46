--------------------------------- MODULE App ---------------------------------
(***************************************************************************)
(* The browser's pages under their router (frontend/src/App.jsx): the route  *)
(* guards, and one page at a time on the screen, mounted afresh when it is   *)
(* entered and gone with its state when it is left.  The parts of the        *)
(* review page that hold a state of their own (its calendar, its export, its *)
(* foundation card) are taken one at a time as well.                         *)
(***************************************************************************)
EXTENDS Integers, Sequences, FiniteSets

CONSTANTS
  None,                                   \* nothing; the state of what is not mounted
  Roles,                                  \* the roles that sign in
  Visits,                                 \* bound: <<role, page>>, who tries which page
  Kpis, Quarters, Custom, Blank, Unset, MaxLoads, MaxAsks,  \* ReviewDesk
  Written, MaxWritten,                    \* FoundationWork
  SheetLimit, MaxEntries, MaxPrints,      \* ReviewPack
  Days, Ranges, Most,                     \* ActivityCalendar
  Words, Tags, MaxSearches,               \* SearchDesk
  Rows, Filters, Limit, MaxLists,         \* EntryList
  Entries, Wins, Made, Pictures, MaxVisits, MaxCalls,       \* EntryView
  MaxShelfLoads,                          \* AchievementDesk
  Members, Team, MaxTyped, MaxOpened,     \* CalibrationWizard
  MaxPicks, MaxMoves                      \* TeamDesk

VARIABLES
  screen,    \* the page, or the part of the review page, on the screen
  role,      \* of the user signed in, or None
  desk, journals, pack, calendar, find, list, view, shelf, wizard, team

parts == <<desk, journals, pack, calendar, find, list, view, shelf, wizard, team>>
vars  == <<screen, role, parts>>

ASSUME RolesAssumption   == Roles \subseteq {"employee", "manager", "admin"}
ASSUME VisitsAssumption  == Visits \subseteq Roles \X STRING
ASSUME FiltersAssumption ==
  Rows \subseteq Nat /\ IsFiniteSet(Rows) /\ Filters \subseteq SUBSET Rows /\ Limit \in Nat
ASSUME SheetAssumption   == SheetLimit \in Nat
ASSUME DaysAssumption    == Days \subseteq Int /\ Ranges \subseteq Days \X Days
ASSUME DatesAssumption   == Custom \notin {Unset, Blank}
ASSUME NoneAssumption ==
  /\ None \notin {"clear", "search", "connection", "other"}
  /\ None \notin [n : Nat, dates : Kpis \cup Quarters \cup {Custom, Blank, Unset}]
  /\ None \notin [n : Nat, by : SUBSET Rows]
  /\ None \notin [win : Wins, all : SUBSET Entries, todo : SUBSET Entries]
  /\ None \notin [of : Members, cycle : Kpis \cup {Unset},
                   text : [of : Members, word : Words] \cup {Blank}]
ASSUME BoundsAssumption ==
  {MaxLoads, MaxAsks, MaxWritten, MaxEntries, MaxPrints, Most, MaxSearches, MaxLists, MaxVisits,
   MaxCalls, MaxShelfLoads, MaxTyped, MaxOpened, MaxPicks, MaxMoves} \subseteq Nat \ {0}
ASSUME TeamAssumption    == Team \in Seq(Members)
ASSUME EntriesAssumption == Pictures \in [Entries -> Nat] /\ Made \subseteq Wins

Review     == INSTANCE ReviewDesk
Foundation == INSTANCE FoundationWork WITH Entries <- Written, MaxEntries <- MaxWritten
Packed     == INSTANCE ReviewPack
Calendar   == INSTANCE ActivityCalendar
Search     == INSTANCE SearchDesk
Archive    == INSTANCE EntryList
Detail     == INSTANCE EntryView WITH Ids <- Entries
Shelf      == INSTANCE AchievementDesk WITH MaxLoads <- MaxShelfLoads
Wizard     == INSTANCE CalibrationWizard WITH Cycles <- Kpis, NoCycle <- Unset, MaxVisits <- MaxOpened
Desk       == INSTANCE TeamDesk WITH Cycles <- Kpis, NoCycle <- Unset

Pages   == {"review", "foundation", "pack", "calendar", "search", "journals", "entry",
            "achievements", "calibrate", "team"}
Screens == Pages \cup {"login", "dashboard"}

Managed == {"calibrate", "team"}

(* variant: the route is only protected, not the managers'                   *)
AllowedToAll(s) == role # None

(* ProtectedRoute and ManagerRoute.                                          *)
Allowed(s) == role # None /\ (s \in Managed => role \in {"manager", "admin"})

(* What is not on the screen s holds no state.                               *)
OthersGone(s) ==
  /\ IF s = "review"       THEN TRUE ELSE desk' = None
  /\ IF s = "foundation"   THEN TRUE ELSE journals' = None
  /\ IF s = "pack"         THEN TRUE ELSE pack' = None
  /\ IF s = "calendar"     THEN TRUE ELSE calendar' = None
  /\ IF s = "search"       THEN TRUE ELSE find' = None
  /\ IF s = "journals"     THEN TRUE ELSE list' = None
  /\ IF s = "entry"        THEN TRUE ELSE view' = None
  /\ IF s = "achievements" THEN TRUE ELSE shelf' = None
  /\ IF s = "calibrate"    THEN TRUE ELSE wizard' = None
  /\ IF s = "team"         THEN TRUE ELSE team' = None

(* A page is mounted: it starts anew.                                        *)
Mounts(s) ==
  /\ OthersGone(s)
  /\ IF s = "review"       THEN desk' = Review!ReviewMounted           ELSE TRUE
  /\ IF s = "foundation"   THEN journals' = <<>>                       ELSE TRUE
  /\ IF s = "pack"         THEN pack' \in Packed!PackMounted           ELSE TRUE
  /\ IF s = "calendar"     THEN calendar' \in Calendar!CalendarMounted ELSE TRUE
  /\ IF s = "search"       THEN find' = Search!SearchMounted           ELSE TRUE
  /\ IF s = "journals"     THEN list' = Archive!ListMounted            ELSE TRUE
  /\ IF s = "entry"        THEN view' \in Detail!ViewMounted           ELSE TRUE
  /\ IF s = "achievements" THEN shelf' \in Shelf!ShelfMounted          ELSE TRUE
  /\ IF s = "calibrate"    THEN wizard' = Wizard!WizardMounted         ELSE TRUE
  /\ IF s = "team"         THEN team' = Desk!TeamMounted               ELSE TRUE

------------------------------------------------------------------------------
Init == /\ screen = "login" /\ role = None
        /\ desk = None /\ journals = None /\ pack = None /\ calendar = None /\ find = None
        /\ list = None /\ view = None /\ shelf = None /\ wizard = None /\ team = None

(* GuestRoute: who is signed in is taken to the dashboard.                   *)
SignIn ==
  /\ screen = "login"
  /\ \E r \in Roles : role' = r
  /\ screen' = "dashboard" /\ OthersGone("dashboard")

(* A link or an address; what is not allowed leads to the dashboard.         *)
Visit ==
  /\ screen = "dashboard"
  /\ \E s \in Pages :
       <<role, s>> \in Visits /\ Allowed(s) /\ screen' = s /\ Mounts(s)
  /\ UNCHANGED role

Leave ==
  /\ screen \in Pages
  /\ screen' = "dashboard" /\ OthersGone("dashboard") /\ UNCHANGED role

(* Signing out, here or by a session that ended: ProtectedRoute unmounts     *)
(* whatever was on the screen.                                               *)
SignOut ==
  /\ screen # "login"
  /\ screen' = "login" /\ role' = None /\ OthersGone("login")

On(s) == screen = s /\ UNCHANGED <<screen, role>> /\ OthersGone(s)

Next ==
  \/ SignIn \/ Visit \/ Leave \/ SignOut
  \/ On("review")       /\ Review!ReviewNext
  \/ On("foundation")   /\ Foundation!FoundationNext
  \/ On("pack")         /\ Packed!PackNext
  \/ On("calendar")     /\ Calendar!CalendarNext
  \/ On("search")       /\ Search!SearchNext
  \/ On("journals")     /\ Archive!ListNext
  \/ On("entry")        /\ Detail!ViewNext
  \/ On("achievements") /\ Shelf!ShelfNext
  \/ On("calibrate")    /\ Wizard!WizardNext
  \/ On("team")         /\ Desk!TeamNext

Spec == Init /\ [][Next]_vars

------------------------------------------------------------------------------
(* The page on the screen keeps its shape, no other holds any state, and     *)
(* only a manager is ever on the team's pages (App.jsx:26, ManagerRoute).    *)
AppTypeOK ==
  /\ screen \in Screens /\ role \in Roles \cup {None}
  /\ screen \in Managed => role \in {"manager", "admin"}
  /\ IF screen = "review"       THEN Review!ReviewTypeOK               ELSE desk = None
  /\ IF screen = "foundation"   THEN journals \in Seq(Written)         ELSE journals = None
  /\ IF screen = "pack"         THEN pack \in Packed!Pack              ELSE pack = None
  /\ IF screen = "calendar"     THEN calendar \in Calendar!Calendar    ELSE calendar = None
  /\ IF screen = "search"       THEN find \in Search!Find              ELSE find = None
  /\ IF screen = "journals"     THEN list \in Archive!List             ELSE list = None
  /\ IF screen = "entry"        THEN view \in Detail!View              ELSE view = None
  /\ IF screen = "achievements" THEN shelf \in Shelf!Shelf             ELSE shelf = None
  /\ IF screen = "calibrate"    THEN wizard \in Wizard!Wizard          ELSE wizard = None
  /\ IF screen = "team"         THEN team \in Desk!TeamState           ELSE team = None

(* ReviewPage: the entries and achievements on the page are of the period    *)
(* it names, whatever order its loads are answered in, see ReviewDesk.       *)
EntriesCurrent == screen = "review" => Review!EntriesCurrent

(* ReviewPage: the summary exported is named after the page's period and     *)
(* made of that period's entries and achievements, see ReviewDesk.           *)
SummaryFits == screen = "review" => Review!SummaryFits

(* ReviewPage: the spinner stands for a load under way, see ReviewDesk.      *)
SpinnerHonest == screen = "review" => Review!SpinnerHonest

(* foundationWorkUtils: each foundation entry under one pillar.              *)
PillarsPartition == screen = "foundation" => Foundation!PillarsPartition

(* The three shares of foundation work in order, see FoundationWork.         *)
SharesOrdered == screen = "foundation" => Foundation!SharesOrdered

(* ReviewPackModal: what it offers, copies, downloads and prints agree.      *)
SectionsAgree == screen = "pack" => Packed!SectionsAgree

(* ReviewPackModal: the theme is given back after printing, see ReviewPack.  *)
PaperRestored == screen = "pack" => Packed!PaperRestored

(* ActivityCalendar: every entry of the period has its cell.                 *)
CalendarComplete == screen = "calendar" => Calendar!CalendarComplete

(* SearchPage: the results are those of the filters shown, see SearchDesk.   *)
ResultsCurrent == screen = "search" => Search!ResultsCurrent

(* SearchPage: without filters no results, see SearchDesk.                   *)
CleanSlate == screen = "search" => Search!CleanSlate

(* JournalListPage: list and details settle on the filters, see EntryList.   *)
ListSettles == screen = "journals" => Archive!ListSettles

(* JournalDetailPage: page and server agree at rest, see EntryView.          *)
ViewSettles == screen = "entry" => Detail!ViewSettles

(* AchievementsPage: what was picked is linked when the dialog says so; a    *)
(* page that is left makes no promise, see AchievementDesk.                  *)
EvidenceLinked ==
  [][screen = "achievements" /\ screen' = "achievements" => Shelf!LinkedWhenDone]_vars

(* CalibrationModePage: notes stay with their member, see CalibrationWizard. *)
OwnNote == screen = "calibrate" => Wizard!OwnNote

(* CalibrationModePage: what was typed is kept, see CalibrationWizard.       *)
NoteKept == screen = "calibrate" => Wizard!NoteKept

(* TeamMemberDrawer: what was typed is kept, see TeamDesk.                   *)
DrawerKept == screen = "team" => Desk!DrawerKept
==============================================================================
