CONSTANTS
  p1 = p1
  p2 = p2
  p3 = p3
  None = None
  Proc = {p1,p2,p3}
  Crashable = {p1}
  Unlistable = {}
SPECIFICATION Spec
INVARIANT LockGuardsDirectory
CHECK_DEADLOCK FALSE
