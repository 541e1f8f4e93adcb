SPECIFICATION Spec
CONSTANTS
  Groups = {"g"}
  Calls = {"a", "b"}
  Signals = {}
  Root = "g"
  Children <- MCPair
  Concurrency <- MCFlatTwo
  FailFast = {"g"}
  Slots = 2
  Shared = FALSE
INVARIANTS
  StoppedTrackingIsVisible
