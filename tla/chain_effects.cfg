SPECIFICATION FairSpec
CONSTANTS
  N = 2
  Effect <- MCWrites
  Repetition <- MCUnsafeKeyed
  MaxAttempts <- MCTwoAttempts
  Permits = 2
INVARIANTS
  TypeOK
  UnsafeAtMostOnce
  NotAppliedIsTrue
  NoHiddenEffect
  HeadAgrees
  RunningIsOwned
PROPERTIES
  ResultsAreFinal
  NothingNewAfterStop
  AlwaysSettles
