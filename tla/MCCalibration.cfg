SPECIFICATION WizardSpec
CONSTANTS
  m1 = m1
  m2 = m2
  Members = {m1, m2}
  Team <- MCTeam
  Cycles = {k1}
  Words = {a}
  Blank = Blank
  NoCycle = NoCycle
  None = None
  MaxTyped = 3
  MaxVisits = 1
INVARIANT SummaryTruthful
CHECK_DEADLOCK FALSE
