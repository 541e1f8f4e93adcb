SPECIFICATION WaitsFairSpec
CONSTANTS
  N = 2
  Effect <- MCWriteRead
  Repetition <- MCUnsafeSafe
  MaxAttempts <- MCOneOne
  Permits = 1
INVARIANTS
  WaitingIsWakeable
  RecoveryIsEarned
PROPERTIES
  WaitsAccepted
  SettlesOrSleeps
