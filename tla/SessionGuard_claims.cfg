CONSTANTS
  Csg = {c1, c2, c3}
  Hook = {}
  Session = {s1}
  NoSession = NoSession
  NoProc = NoProc
  MaxRuns = 3
  Leftover = 1
  Commands = {"resume", "delete"}
  KillOnClose = TRUE
  LoneKill = FALSE
  Faults = FALSE
SPECIFICATION Spec
SYMMETRY Symmetry
CHECK_DEADLOCK FALSE
INVARIANTS TypeOK ClaimExclusive ClaimOnDisk
PROPERTY ImplementsRegistry
