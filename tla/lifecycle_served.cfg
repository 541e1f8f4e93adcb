SPECIFICATION FairSpec
CONSTANTS
  Starters = {"s"}
  Owned = {"e"}
  ActiveRuns = 1
  CallLimit = 1
  Before = {}
  MaxBoots = 1
  MaxSleeps = 1
PROPERTIES
  RunsAreServed
  ShutdownReleases
CHECK_DEADLOCK FALSE
