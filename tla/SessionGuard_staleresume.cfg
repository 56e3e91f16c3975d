CONSTANTS
  Csg = {c1, c2, c3}
  Hook = {}
  Session = {s1}
  NoSession = NoSession
  NoProc = NoProc
  MaxRuns = 4
  Leftover = 1
  Commands = {"resume"}
  KillOnClose = TRUE
  LoneKill = FALSE
  Faults = FALSE
SPECIFICATION Spec
SYMMETRY Symmetry
CHECK_DEADLOCK FALSE
INVARIANT OneResumePerSession
