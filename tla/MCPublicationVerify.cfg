SPECIFICATION ReliableSpec
CHECK_DEADLOCK FALSE
CONSTANTS
  Writers = {w1, w2}
  Verifiers = {v}
  Origin = origin
  None = None
INVARIANTS
  VerifyReportsPublished
