CONSTANTS
  p1 = p1
  p2 = p2
  r1 = r1
  None = None
  Proc = {p1, p2}
  Crashable = {}
  Unlistable = {}
  Reader = {r1}
SPECIFICATION ReadersSpec
INVARIANT SuccessEmitsOwnRun
CHECK_DEADLOCK FALSE
