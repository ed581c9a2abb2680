CONSTANTS
  r1 = r1  r2 = r2  r3 = r3
  frozen = frozen  edited = edited
  NoRunner = NoRunner
  NoVersion = NoVersion
  Runner = {r1, r2, r3}
  Version = {frozen, edited}
  Frozen = frozen
SPECIFICATION Spec
SYMMETRY MCSymmetry
CHECK_DEADLOCK FALSE
INVARIANTS
  FilesAgree
  DecisionIsMeasured
PROPERTIES
  FilesAreFinal
  ImplementsBudget
