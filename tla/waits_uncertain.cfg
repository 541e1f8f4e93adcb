SPECIFICATION WaitsSpec
CONSTANTS
  N = 2
  Effect <- MCWriteRead
  Repetition <- MCKeyedSafe
  MaxAttempts <- MCTwoOne
  Permits = 1
PROPERTIES
  UncertainBypassesHandlers
