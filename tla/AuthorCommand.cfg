CONSTANTS
  p1 = p1  p2 = p2
  c1 = c1  c2 = c2  unsafe = unsafe
  o1 = o1  o2 = o2
  NoOne = NoOne
  Process = {p1, p2}
  Campaign <- MCCampaign
  PathSafeCampaign <- MCPathSafeCampaign
  Output = {o1, o2}
SPECIFICATION FairSpec
INVARIANTS
  CommandIsSafe
  LeftoverHasACause
PROPERTIES
  FilesAreOwned
  EveryCommandEnds
  ImplementsBudget
CHECK_DEADLOCK FALSE
