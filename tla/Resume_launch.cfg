SPECIFICATION Spec
CONSTANTS
  d1 = d1 d2 = d2
  Place <- MCPlace
  Name <- MCName
  Entry = {"csg"}
  Batch <- MCBatch
  Path <- MCPath
  Line <- MCLine
  SessionID = {s1, s2}
  NoFile = NoFile
  NoSession = NoSession
  Platform = {"linux", "windows"}
  Pid = {p1, p2}
  MaxTick = 1
  MaxBoot = 1
  MaxChanges = 2
SYMMETRY Symmetry
INVARIANTS TypeOK NeverItself AskedIsKept RunningIsOurs PreboundAsWritten
PROPERTIES SameProgram DeadOnly
CHECK_DEADLOCK FALSE
