SPECIFICATION Spec
CONSTANTS
  t1 = t1
  t2 = t2
  n1 = n1
  n2 = n2
  c1 = c1
  c2 = c2
  i1 = i1
  i2 = i2
  m1 = m1
  m2 = m2
  e1 = e1
  e2 = e2
  Terminal = {t1, t2}
  Name = {n1, n2}
  Commit = {c1, c2}
  Increment = {i1, i2}
  Text = {m1, m2}
  Evidence = {e1, e2}
  Start <- MCStart
  Earlier = {n1}
  None = None
  Torn = Torn
  MaxCommands = 2
  MaxChanges = 1
  MaxArtifacts = 2
  MaxRecords = 1
  MaxFaults = 1
INVARIANTS
  CoverageInvariant
  ReuseIsEarned
  LedgerSurvives
  ReportedReceiptsStay
SYMMETRY MCSymmetry
CHECK_DEADLOCK FALSE
