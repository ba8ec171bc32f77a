SPECIFICATION Spec
CHECK_DEADLOCK FALSE
CONSTANTS
  Writers = {w1, w2}
  Verifiers = {}
  Origin = origin
  None = None
INVARIANTS
  CleanWhenIdle
