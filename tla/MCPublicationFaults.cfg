SPECIFICATION Spec
CHECK_DEADLOCK FALSE
SYMMETRY Symmetry
CONSTANTS
  Writers = {w1, w2, w3}
  Verifiers = {}
  Origin = origin
  None = None
INVARIANTS
  MutualExclusion
  SelectedIsWhole
PROPERTIES
  AppliesCommandsAtomically
