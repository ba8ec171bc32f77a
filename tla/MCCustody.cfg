SPECIFICATION CustodySpec
CONSTANTS
  CaptureClients = {"c1", "c2"}
  SourcePaths = {"p", "q"}
  PresentAt <- Present
  Spans = {"s"}
  Revisions = {"r1", "r2"}
  Questions = {"q"}
  MaximumRecords = 8
  MaxCommands <- Commands
  MaxAbandoned = 1
  PackFiles = {"a", "b"}
  Contents = {1, 2}
  MaxChanges = 3
  MaxCalls = 1
  Reviewers = {"r1", "r2"}
  Anchors = {"x", "y"}
  InputFiles = {"f", "g"}
  Digests = {1, 2}
  MaxOwnerActs = 2
  MaxTampers = 3
  MaxStarts = 2
  LastHorizon = 2
  Dispositions = {"answer", "abstain"}
  LineCounts <- Lines
  MaxLine = 2
  ReaderProcesses = {"p1", "p2"}
  WorkRoots = {"w1", "w2"}
  MaxVersions = 3
  BundleSources = {"p"}
  Policies = {"P"}
  Profiles <- TwoHorizons
  OutputRoots = {"o1", "o2"}
  MaxEvents = 6
  Artifacts = {"x", "y"}
  ArtifactHorizon <- OneEach
  MaxCaptured = 6
  FixtureFiles = {"a"}
  Strays = {"s"}
  MaxEffects = 3
  Initializers = {"i1", "i2"}
  RootCommands = {"k1", "k2"}
  Nobody = "nobody"
  Owner = "owner"
  MaxMade = 1
INVARIANTS
  DamageIsConfined
  ClosedViewsAreFrozen
  RebuildReproduces
  LockDescribesOneState
  OneCallPerAnchor
  RecordIsOfOneReview
  ReleaseIsEarned
  CallsAreAccounted
  AnswerIsOnDisk
  FairContract
  TraceIsReadOncePerRoot
  PublishedViewsStand
  BuiltBundleVerifies
  OrderedViewsAreAsOf
  ReportIsTrue
  OneWholeWorkspace
CHECK_DEADLOCK FALSE
