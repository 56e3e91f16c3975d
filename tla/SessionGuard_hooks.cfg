CONSTANTS
  Csg = {c1, c2}
  Hook = {h1, h2}
  Session = {s1, s2}
  NoSession = NoSession
  NoProc = NoProc
  MaxRuns = 3
  Leftover = 1
  Commands = {"run", "list", "resume"}
  KillOnClose = TRUE
  LoneKill = FALSE
  Faults = FALSE
SPECIFICATION Spec
SYMMETRY Symmetry
CHECK_DEADLOCK FALSE
INVARIANTS ActiveTracked NewestOnly
PROPERTY RecordKept
