CONSTANTS
  Csg = {c1, c2}
  Hook = {h1}
  Session = {s1}
  NoSession = NoSession
  NoProc = NoProc
  MaxRuns = 2
  Leftover = 0
  Commands = {"run", "list"}
  KillOnClose = TRUE
  LoneKill = FALSE
  Faults = FALSE
SPECIFICATION Spec
SYMMETRY Symmetry
CHECK_DEADLOCK FALSE
PROPERTY CleanersKeepBound
