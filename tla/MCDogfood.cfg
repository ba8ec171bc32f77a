SPECIFICATION DogfoodSpec
CONSTANTS
  Artifacts = {"x", "y"}
  ArtifactHorizon <- OneEach
  MaxCaptured = 6
INVARIANTS
  ViewsAreAsOf
CHECK_DEADLOCK FALSE
