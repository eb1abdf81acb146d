SPECIFICATION MCSpec
SYMMETRY MCSymmetry
CONSTANTS
  v1 = v1
  v2 = v2
  Vectors = {v1, v2}
  StaticCapacity = 2
  Reverts = {0, 3}
  SvValues = {1, 2}
  SvMaxSize = 4
  EmptyRanges = FALSE
  LtLevels = {"info", "debug"}
  LtEnabled = {"info"}
  LtMaxText = 3
  LtBits = 3
  LtBases = {2, 4}
  LtPads <- MCPads
  PrintfBuffer = 3
  LtEdges = {}
  PodVectors = {v1, v2}
  Widths = {1, 2}
  PodBytes = {0, 1}
  PodMaxBytes = 4
  FillsUp = TRUE
  FlatMaps = {v1, v2}
  FmKeys = {1, 2, 3}
  FmValues = {1, 2}
  FmInit = 3
  Objects = {v1, v2}
  ExValues = {1, 2}
  Throwing = {"emplace T, void"}
  Generators = {v1, v2}
  Frames = {"f1", "f2"}
  Bodies <- MCBodies
  CoFrames = {"c1", "c2", "c3"}
  CoSteps = 3
  CoRoots = 2
  CoQueue = 1
  MixesAwaits = FALSE
  LogScopes = {"scope1", "scope2"}
  LogThreads = {"thread1", "thread2"}
  LogSinks <- MCLogSinks
  LevelsEarly = FALSE
  Libraries = {"broken", "foreign", "failing", "fine"}
  LibraryKind <- MCLibraryKind
  PluginDirs <- MCPluginDirs
  MissingDirs = {"missing"}
  PmLoads = 3
  PmMaxDirs = 2
  OutSize = 2
  InSize = 2
  Replies = {0, 1, 3}
INVARIANTS PodLikeStdVector
