CONSTANTS
  Check <- MCCheck
  Effect <- MCEffect
  Consumer <- MCConsumer
  Binding <- MCBinding
  Incoming <- MCIncoming
  MaxResults = 4
  Nothing = Nothing
SPECIFICATION Spec
INVARIANTS
  MatchesDefinition
  PromotableIsEarned
  DispositionOrderFree
CHECK_DEADLOCK FALSE
