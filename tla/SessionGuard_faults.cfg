CONSTANTS
  Csg = {c1, c2}
  Hook = {h1}
  Session = {s1}
  NoSession = NoSession
  NoProc = NoProc
  MaxRuns = 3
  Leftover = 1
  Commands = {"run", "list", "resume", "delete"}
  KillOnClose = FALSE
  LoneKill = FALSE
  Faults = TRUE
SPECIFICATION Spec
SYMMETRY Symmetry
CHECK_DEADLOCK FALSE
INVARIANTS CrashedIsDead ActiveTracked ClaimExclusive
PROPERTIES ImplementsRegistry RecordKept
