CONSTANTS
  Detach = TRUE
  Interrupts = TRUE
  MaxSessions = 2
SPECIFICATION Spec
CHECK_DEADLOCK FALSE
INVARIANTS TypeOK WaitsForTree ForegroundCrashKept ForegroundExitRemoved
PROPERTIES FirstSessionSpared StopsInTime
