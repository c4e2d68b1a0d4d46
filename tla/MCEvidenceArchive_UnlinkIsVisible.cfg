CONSTANTS
  Achs = {a1}
  Journals = {j1, j2}
  Clients = {c1, c2}
  NoAch = NoAch
  NoJournal = NoJournal
  NoClient = NoClient
SPECIFICATION Spec
SYMMETRY Symmetry
INVARIANT UnlinkIsVisible
CHECK_DEADLOCK FALSE
