SPECIFICATION Spec
CONSTANTS
  None = None
  Roles = {"employee","manager"}
  Visits <- MCVisits
  Kpis = {k1}
  Quarters = {q1}
  Custom = Custom
  Blank = Blank
  Unset = Unset
  MaxLoads = 3
  MaxAsks = 2
  Written <- MCWritten
  MaxWritten = 4
  SheetLimit = 1
  MaxEntries = 2
  MaxPrints = 2
  Days <- MCDays
  Ranges <- MCRanges
  Most = 1
  Words = {a}
  Tags = {t1}
  MaxSearches = 2
  Rows <- MCRows
  Filters <- MCFilters
  Limit = 2
  MaxLists = 3
  e1 = e1
  e2 = e2
  m1 = m1
  m2 = m2
  Entries = {e1,e2}
  Wins = {w1,w2}
  Made = {w1}
  Pictures <- MCPictures
  MaxVisits = 2
  MaxCalls = 2
  MaxShelfLoads = 2
  Members = {m1,m2}
  Team <- MCTeam
  MaxTyped = 3
  MaxOpened = 2
  MaxPicks = 1
  MaxMoves = 3
INVARIANTS
  AppTypeOK
  
  
  SpinnerHonest
  PillarsPartition
  SharesOrdered
  SectionsAgree
  PaperRestored
  CalendarComplete
  ResultsCurrent
  CleanSlate
  ListSettles
  ViewSettles
  OwnNote
  NoteKept
  DrawerKept
PROPERTIES
  EvidenceLinked
