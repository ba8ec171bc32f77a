SPECIFICATION FairSpec
CONSTANTS
  Runners = {"qualified", "plain"}
  MaxInvocations = 2
INVARIANTS
  OneCallPerRoot
  QualifiedIsClean
  CarrierChangeDominates
PROPERTY ReportEventually
CHECK_DEADLOCK FALSE
