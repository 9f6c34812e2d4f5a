SPECIFICATION Spec
CONSTANTS
  MaxAttempts = 3
  DueDates = {0, 122100}
  PreferredHours = {11, 24}
  Steps = {86400}
  Horizon = 180000
INVARIANTS
  TypeOK
  ScheduledOutsideWindows
  ClaimsDoNotOverlap
  RelayHasTime
CHECK_DEADLOCK FALSE
