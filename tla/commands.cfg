SPECIFICATION MCSpec
CONSTANTS
  Reservations = {"w1", "w2"}
  Senders = {sam, tim}
  Messages <- MCMessages
  Correlation <- MCCorrelation
  MaxRevision = 5
  Actors = {ann, bob}
  CommandIds = {c1, c2}
  Resolutions = {"applied", "retry", "failed", "inconclusive", "stop"}
  AuditLimit = 2
  MaxAttempts = 2
  MaxLate = 1
  MaxCrashes = 1
  Shared = c1
INVARIANTS
  AppliedOnce
  
PROPERTIES
  AcceptedOnce
  ResolvesWhatWasObserved
SYMMETRY Swap
CHECK_DEADLOCK FALSE
