CONSTANTS
  u1 = u1
  u2 = u2
  Users = {u1, u2}
  Tasks <- ThreeTasks
  Owner <- OwnerOfThree
  NoTask = NoTask
  NoUser = NoUser
  MaxQueue = 2
  Limit = 2
  MaxTries = 2
  MaxCancels = 2
  MaxFaults = 1
  MaxBotRestarts = 1
  MaxServerRestarts = 1
  MaxDays = 1
SPECIFICATION Spec
ACTION_CONSTRAINT CalmNights
INVARIANTS QueueKept ChargesMatch
PROPERTIES ServedAtMostOnce
CHECK_DEADLOCK FALSE
