SPECIFICATION MCSpec
CONSTANTS
  ControlDepth = 2
  NodeLimit = 3
  Activations = 6
  Definitions <- MCDefinitions
  Operations = {"p", "q"}
  Contents = {1, 2}
  RegistryLimit = 2
  MaxRuns = 2
  MaxBuilds = 2
  Ids = {"a", "b", "c"}
  Unknown = "?"
  MaxEdges = 3
  Processes = {"small", "slim", "narrow", "full", "large"}
  StoredRuns = {"r", "q"}
  Records = {"n"}
  Receipts = {"k"}
  Bodies <- MCBodies
  Fits <- MCFits
  MaxCrashes = 2
INVARIANTS
  VerdictsAreExact
  RevisionsAreKept
  DelaysAreExact
  ProgramIsFollowed
  MigratesOnce
CHECK_DEADLOCK FALSE
