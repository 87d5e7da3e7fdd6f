SPECIFICATION Spec
CONSTANTS
  Check <- MCTargetCheck
  Effect <- MCEffect
  Consumer <- MCConsumer
  Binding <- MCBinding
  Plan <- MCTargetPlan
  Phase <- MCPhase
  Validator <- MCValidator
  IntegrityHalts <- MCHalts
  Command <- MCCommand
  Commands <- MCCommands
  Bounded = FALSE
  RefLimits = {6}
  CeilingBinds = FALSE
  Planted = {}
  Removable = TRUE
INVARIANTS RejectionNamed
