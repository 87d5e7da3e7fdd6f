CONSTANTS
  p1 = p1
  p2 = p2
  p3 = p3
  None = None
  Proc = {p1, p2, p3}
  Crashable = {p1}
  Unlistable = {p1}
SYMMETRY Symmetry
CONSTRAINT Undisturbed
SPECIFICATION Spec
INVARIANTS
  TypeOK
  ExclusiveUnlessMisreclaimed
  EmitsOnlyVerified
PROPERTIES
  PublishesOnlyVerified
CHECK_DEADLOCK FALSE
