CONSTANTS
  Achs = {a1}
  Journals = {j1, j2}
  Clients = {c1, c2}
  NoAch = NoAch
  NoJournal = NoJournal
  NoClient = NoClient
SPECIFICATION Spec
SYMMETRY Symmetry
INVARIANTS TypeOK LinksHaveBothEnds AnswersHold
PROPERTIES LateLinksRefused LedgerSpec
\* every id handed out and every request done: nothing is left to do
CHECK_DEADLOCK FALSE
