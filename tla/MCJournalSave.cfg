SPECIFICATION Spec
CONSTANTS
  Tabs = {t1, t2}
  Journals = {j1}
  Rows = {r1, r2}
  Files = {f1, f2}
  Name <- DistinctName
  Decodable = {f1}
  MaxImages = 1
  Seconds = {s1}
  NoJournal = NoJournal
  NoRow = NoRow
  NoFile = NoFile
  NoTime = NoTime
  Unused = Unused
  Deleted = Deleted
SYMMETRY Symmetry
CHECK_DEADLOCK FALSE
INVARIANTS TypeOK RowsHaveObjects LimitUnlessStale
PROPERTY LateSavesChangeNothing
