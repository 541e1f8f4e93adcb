SPECIFICATION FairSpec
CONSTANTS
  Groups = {"g", "h"}
  Calls = {"a", "b"}
  Signals = {"s"}
  Root = "g"
  Children <- MCNested
  Concurrency <- MCNarrow
  FailFast = {"h"}
  Slots = 3
  Shared = TRUE
INVARIANTS
  GroupsAgree
PROPERTIES
  NothingStartsAfterStop
  AlwaysSettles
