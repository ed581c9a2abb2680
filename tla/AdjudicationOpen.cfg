SPECIFICATION AdjudicationSpec
CONSTANTS
  luna = luna
  luna2 = luna2
  terra = terra
  t1 = t1
  t2 = t2
  None = None
  Torn = Torn
  Terminal = {t1, t2}
  Scheduled = {luna, luna2, terra}
  ConditionOf <- MCConditionOf
  Reference <- MCReference
  Assertion <- MCAssertion
  Kind <- MCKind
  Position <- MCPosition
  Critical = {"must", "vital"}
  Collections <- MCCollections
  Judgments <- MCJudgments
  Decisions <- MCDecisions
  Percent = 50
  Enough = 7
  MaxSteps = 6
  MaxFaults = 1
SYMMETRY Symmetry
INVARIANTS
  NoCriticalDisagreementRemains
CHECK_DEADLOCK FALSE
