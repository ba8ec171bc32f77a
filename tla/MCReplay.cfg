SPECIFICATION Spec
CONSTANTS
  Sources <- MCSources
  Candidates <- MCCandidates
  Drivers = {"controller", "direct"}
  PackLength = 4
  DirectOrders = 2
  MaxEdits = 1
  MaxRewrites = 1
INVARIANTS
  VaultStaysOpen
  AnswerIsDurable
  AcceptedHistoryIsThePack
  ReportedCrashesWereInjected
  OneRuntime
PROPERTIES
  LogSpec
  RehearsalEnds
CHECK_DEADLOCK FALSE
