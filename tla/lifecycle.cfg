SPECIFICATION Spec
CONSTANTS
  Starters = {"s"}
  Owned = {"e"}
  ActiveRuns = 1
  CallLimit = 1
  Before = {"accepted", "waiting", "cancelling"}
  MaxBoots = 2
  MaxSleeps = 1
INVARIANTS
  OneExecutor
PROPERTIES
  ShutdownIsHonest
CHECK_DEADLOCK FALSE
