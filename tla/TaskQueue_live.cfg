SPECIFICATION FairSpec
CONSTANTS
  Tasks = {t1}
  Workers = {w1, w2}
  MaxAttempts = 2
  Delayed = {w1}
  CrashBudget = 1
  StallBudget = 0
  NoMessage = NoMessage
PROPERTIES
  EventuallySettled
  DeliverySpec
