SPECIFICATION HostSpec
SYMMETRY Symmetry
CONSTANTS
  None = None
  h1 = h1
  h2 = h2
  s1 = s1
  s2 = s2
  s3 = s3
  x = x
  y = y
  Names = {h1, h2}
  Paths <- MCPaths
  Contents <- MCContents
  Identities = {1, 2, 3, 4}
  SourceAliases = {s1, s2}
  AssertionAliases = {}
  QuestionAliases = {}
  Serials <- MCSerials
  InitialHosts <- MCOneHost
  MaxRecords = 8
  MaxFiles = 13
  MaxActions = 2
PROPERTIES
  PublishedSourcesAreLive
