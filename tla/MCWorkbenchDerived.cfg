SPECIFICATION DerivedSpec
SYMMETRY Symmetry
CONSTANTS
  None = None
  h1 = h1
  h2 = h2
  s1 = s1
  s2 = s2
  s3 = s3
  x = x
  y = y
  Names = {h1, h2}
  Paths <- MCPaths
  Contents <- MCContents
  Identities = {1, 2, 3}
  SourceAliases = {s1, s2}
  AssertionAliases = {"a"}
  QuestionAliases = {"q"}
  Serials <- MCSerials
  InitialHosts <- MCOneHost
  MaxRecords = 7
  MaxFiles = 12
  MaxActions = 2
INVARIANTS
  GateNeverFires
PROPERTIES
  CloseRegeneratesDossiers
