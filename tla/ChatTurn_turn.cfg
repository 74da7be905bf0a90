SPECIFICATION FairSpec
CONSTANTS
  p = p
  u = u
  v = v
  w = w
  Chats = {c}
  Updates = {u, v, w}
  Initial = p
  Workflow <- Workflows
  Replies <- Asked
  MaxRounds = 3
  Errors = 1
CHECK_DEADLOCK FALSE
INVARIANTS
  Grounded
  RunsTruthful
  DeliveredIsStored
  TicketsMatch
  ClientOpen
PROPERTY ChatsEnd
