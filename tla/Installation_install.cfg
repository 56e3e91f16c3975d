CONSTANTS
  Event = {start}
  UserHandler = {u1}
  Dir = {d1}
  Version = {v1, v2}
  Foreign = Foreign
  Absent = Absent
  Broken = Broken
  MaxEdits = 2
  MaxFaults = 1
SPECIFICATION Spec
SYMMETRY Symmetry
CHECK_DEADLOCK FALSE
INVARIANTS TypeOK GuardRunsOnce FailsForAReason NothingLeft Reinstallable
PROPERTIES RestoredAsBefore ForeignKept OthersKept
