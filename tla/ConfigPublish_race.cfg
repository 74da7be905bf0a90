SPECIFICATION FairSpec
CONSTANTS
  A = A
  B = B
  C = C
  u1 = u1
  u2 = u2
  d1 = d1
  p1 = p1
  Instances = {A, B, C}
  Updates = {u1, u2}
  Drafts = {d1}
  Rollbacks = {p1}
  Home <- RollbacksAtB
  Restarting = {A, C}
  Scenarios <- MCScenarios
CHECK_DEADLOCK FALSE
INVARIANTS
  OnePublished
  ListenersConverge
  SerialConverged
  NoChangeLost
PROPERTY PublishEnds
