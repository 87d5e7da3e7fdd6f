SPECIFICATION Spec
CONSTANTS
  Target = "target"
  Descendant <- MCDescendant
  MaxTasks = 3
  MaxRounds = 2
INVARIANTS
  PassedIsWhole
  ReportIsLast
  LimitNeverMasked
  SurvivesOnlyUnremoved
PROPERTIES
  CommandReturns
