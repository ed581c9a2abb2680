CONSTANTS
  c1 = c1  c2 = c2  v1 = v1  v2 = v2  crit = crit  minor = minor
  Clerk = {c1, c2}
  Version = {v1, v2}
  Criterion = {crit, minor}
  Critical = {crit}
  Reviews <- MCReviews
  Resolutions <- MCResolutions
  MaxCommands = 3
  MaxEdits = 1
SYMMETRY MCSymmetry
CHECK_DEADLOCK FALSE
SPECIFICATION SpecEither
INVARIANTS
  ReviewInvariant
  ReportStands
PROPERTIES
  ReviewIsFinal
