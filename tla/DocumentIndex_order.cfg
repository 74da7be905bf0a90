SPECIFICATION Spec
CONSTANTS
  u = u
  a = a
  d = d
  Uploads = {}
  Adds = {a}
  Deletes = {}
  Workers = {k1}
  ChunkCount <- MCChunkCount
  MaxAttempts = 2
  Scenarios <- Calm
  NoRow = NoRow
CHECK_DEADLOCK FALSE
INVARIANT StatusSettled
