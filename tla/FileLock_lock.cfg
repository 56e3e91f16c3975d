CONSTANTS
  Proc = {p1, p2}
  NoProc = NoProc
  MaxAttempts = 3
  Ageing = "orphan"
SPECIFICATION Spec
CHECK_DEADLOCK FALSE
INVARIANTS TypeOK MutualExclusion OneClaimant
PROPERTIES RemovedForGood ImplementsAtomicRecord AllAnswered
