SPECIFICATION Spec
CONSTANTS
  Runs = {r1, r2}
  Owners = {o1, o2}
  Keys = {k1}
  Requests = {q1}
  Paths = {"a"}
  Inside <- MCInside
  Records <- MCRecords
  Capacity = 1
  ReceiptCount = 1
  TerminalRuns = 1
  Retention = 1
  TTL = 1
  MaxRevision = 2
  MaxTime = 1
SYMMETRY Swap
INVARIANTS
  HeadIsProjection
  NothingLost
PROPERTIES
  OneRunPerReceipt
  MeetsContract
CHECK_DEADLOCK FALSE
