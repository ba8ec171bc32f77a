SPECIFICATION CommandSpec
SYMMETRY Symmetry
CONSTANTS
  None = None
  h1 = h1
  h2 = h2
  s1 = s1
  s2 = s2
  s3 = s3
  x = x
  y = y
  Names = {h1, h2}
  Paths <- MCPaths
  Contents <- MCContents
  Identities = {1, 2, 3}
  SourceAliases = {s1, s2, s3}
  AssertionAliases = {"a"}
  QuestionAliases = {"q"}
  Serials <- MCSerials
  InitialHosts <- MCInitialHosts
  MaxRecords = 14
  MaxFiles = 19
  MaxActions = 4
INVARIANTS
  EscapeIsOpen
PROPERTIES
  JournalIsAdditive
  AsOfIsolation
  ClosePublishesWholeDraft
