CONSTANTS
  Detach = TRUE
  Interrupts = FALSE
  MaxSessions = 2
SPECIFICATION Spec
CHECK_DEADLOCK FALSE
PROPERTY StopsOnlyEnded
