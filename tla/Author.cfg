SPECIFICATION MCFairSpec
CONSTANTS
  claim = claim
  other = other
  contract = contract
  evidence = evidence
  family = family
  gap = gap
  r1 = r1
  harm = harm
  None = None
  NoText = NoText
  Id = {claim, other, contract, evidence, family, gap}
  Context <- MCContext
  Candidate <- MCCandidate
  Historical <- MCHistorical
  Polls = 3
  MaxChanges = 1
  MaxEdits = 1
INVARIANTS
  RunInvariant
  ObservationIsTrue
  BlueprintIsOfThePacket
  RefusedWithCause
  ReadyIsEarned
PROPERTIES
  RunEnds
CHECK_DEADLOCK FALSE
