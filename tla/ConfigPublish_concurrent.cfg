SPECIFICATION Spec
CONSTANTS
  A = A
  B = B
  C = C
  u1 = u1
  u2 = u2
  d1 = d1
  p1 = p1
  Instances = {A}
  Updates = {u1, u2}
  Drafts = {}
  Rollbacks = {}
  Home <- RollbacksAtB
  Restarting = {}
  Scenarios <- TwoUpdates
CHECK_DEADLOCK FALSE
INVARIANT Converged
