CONSTANTS
  t1 = t1  t2 = t2  v1 = v1  v2 = v2
  NoTerminal = NoTerminal
  NoVersion = NoVersion
  Kind = {"e2-baseline", "e2-deep"}
  Terminal = {t1, t2}
  Version = {v1, v2}
  MaxCommands = 4
SPECIFICATION MCFairSpec
INVARIANTS
  
  EvidenceAgrees
  GatesHold
PROPERTIES
  ImplementsBudget
  EveryCommandEnds
CHECK_DEADLOCK FALSE
