SPECIFICATION ReliableSpec
CHECK_DEADLOCK FALSE
CONSTANTS
  Writers = {w1, w2, w3}
  Verifiers = {v}
  Origin = origin
  None = None
INVARIANTS
  CleanWhenIdle
PROPERTIES
  VerifyComplainsForACause
  EveryProcessEnds
