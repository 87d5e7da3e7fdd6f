CONSTANTS
  Proc <- MCProc
  Crashable <- MCCrashable
  None = None
SPECIFICATION Spec
INVARIANTS
  LaunchesCertified
  AbsentOnlyUnderLock
  NothingLeftBehind
PROPERTIES
  ImplementsSerialized
  EveryLauncherEnds
CHECK_DEADLOCK FALSE
