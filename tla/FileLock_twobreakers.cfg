CONSTANTS
  Proc = {p1, p2, p3}
  NoProc = NoProc
  MaxAttempts = 3
  Ageing = "orphan"
SPECIFICATION Spec
CHECK_DEADLOCK FALSE
INVARIANT OneClaimant
