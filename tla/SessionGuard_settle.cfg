CONSTANTS
  Csg = {c1, c2}
  Hook = {h1}
  Session = {s1}
  NoSession = NoSession
  NoProc = NoProc
  MaxRuns = 3
  Leftover = 1
  Commands = {"run", "resume", "delete"}
  KillOnClose = FALSE
  LoneKill = TRUE
  Faults = FALSE
SPECIFICATION Spec
CHECK_DEADLOCK FALSE
PROPERTY AllSettle
