SPECIFICATION Spec
CONSTANTS
  Ids = {x, y}
  Runs = {r}
  MaxArtifacts = 2
  MaxBytes = 2
  Grace = 1
  MaxTime = 1
  MaxChunks = 2
  MaxClaims = 2
SYMMETRY Swap
INVARIANTS
  ReferencesHold
  StagingIsSound
PROPERTIES
  PublishedIsKept
  NothingWrittenAfterStop
