SPECIFICATION FairSpec
CONSTANTS
  u = u
  a = a
  d = d
  Uploads = {u}
  Adds = {a}
  Deletes = {d}
  Workers = {k1}
  ChunkCount <- MCChunkCount
  MaxAttempts = 2
  Scenarios <- MCScenarios
  NoRow = NoRow
CHECK_DEADLOCK FALSE
INVARIANTS
  TypeOK
  ReadyIsCurrent
  UploadSettled
  NoOrphanObject
PROPERTIES
  IndexingEnds
  OnlyClearEmpties
