CONSTANTS
  index = index  planA = planA  planB = planB  code = code
  root = root  docs = docs
  Nothing = Nothing
  NoPlan = NoPlan
  Path = {index, planA, planB, code}
  IndexPath = index
  Plans = {planA, planB}
  Restaged = {code}
  Directory = {root, docs}
  Rank <- MCRank
  Parent <- MCParent
  Above <- MCAbove
  Base <- MCBase
  History <- MCHistory
SPECIFICATION Spec
CHECK_DEADLOCK FALSE
INVARIANTS
  CollectorInvariant
  EmittedIsASnapshot
  BoundToListedPlan
