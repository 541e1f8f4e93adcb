SPECIFICATION Spec
CONSTANTS
  Runs = {r1}
  Owners = {o1, o2}
  Keys = {k1}
  Requests = {q1}
  Paths = {"a"}
  Inside <- MCInside
  Records <- MCRecords
  Capacity = 1
  ReceiptCount = 1
  TerminalRuns = 0
  Retention = 1
  TTL = 1
  MaxRevision = 2
  MaxTime = 1
  Processes = {p1, p2}
  QueueCapacity = 1
SYMMETRY Swap
INVARIANTS
  RowsReadable
  OneWriter
PROPERTIES
  MeetsContract
CHECK_DEADLOCK FALSE
