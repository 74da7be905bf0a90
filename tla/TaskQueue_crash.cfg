SPECIFICATION Spec
CONSTANTS
  Tasks = {t1}
  Workers = {w1, w2}
  MaxAttempts = 2
  Delayed = {w1, w2}
  CrashBudget = 1
  StallBudget = 1
  NoMessage = NoMessage
SYMMETRY Symmetry
INVARIANTS
  IInv
  NoLostTask
  DeadOnlyAfterMaxFailures
  JobRowTruthful
  ExclusiveEntries
PROPERTY AckedOnlyWhenSafe
