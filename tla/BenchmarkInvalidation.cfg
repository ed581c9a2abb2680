CONSTANTS
  r1 = r1  r2 = r2
  NoRunner = NoRunner
  Runner = {r1, r2}
  SampleCount = 3
SPECIFICATION Spec
PROPERTIES
  InvalidationSticks
CHECK_DEADLOCK FALSE
