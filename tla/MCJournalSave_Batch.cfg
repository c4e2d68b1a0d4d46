SPECIFICATION Spec
CONSTANTS
  Tabs = {t1}
  Journals = {j1, j2}
  Rows = {r1, r2, r3}
  Files = {f1, f2}
  Name <- DistinctName
  Decodable = {f1}
  MaxImages = 2
  Seconds = {s1}
  NoJournal = NoJournal
  NoRow = NoRow
  NoFile = NoFile
  NoTime = NoTime
  Unused = Unused
  Deleted = Deleted
SYMMETRY Symmetry
CHECK_DEADLOCK FALSE
INVARIANTS AnswerComplete OwnObject
