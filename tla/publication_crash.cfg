CONSTANTS
  p1 = p1
  p2 = p2
  None = None
  Proc = {p1, p2}
  Crashable = {p1, p2}
  Unlistable = {}
SPECIFICATION FairSpec
INVARIANTS
  SuccessIsPublished
  FailureLeavesNothing
PROPERTIES
  PublishedVersionStable
  ImplementsSerialized
  EveryRunEnds
  CrashNeverWedges
CHECK_DEADLOCK FALSE
