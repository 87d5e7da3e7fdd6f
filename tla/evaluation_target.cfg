SPECIFICATION Spec
CONSTANTS
  Check <- MCCheck
  Effect <- MCEffect
  Consumer <- MCConsumer
  Binding <- MCBinding
  Plan <- MCPlan
  Phase <- MCPhase
  Validator <- MCValidator
  IntegrityHalts <- MCHalts
  Command <- MCCommand
  Commands <- MCCommands
  Bounded = TRUE
  RefLimits = {5, 6}
  CeilingBinds = TRUE
  Planted = {"candidate", "referenced", "unreferenced"}
  Removable = FALSE
INVARIANTS
  PromotionProven
  EveryCheckAnswered
  WorktreesRemoved
  LossExplained
  HaltIsFinal
PROPERTIES
  EvaluationReturns

