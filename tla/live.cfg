CONSTANTS
  Clients = {c1, c2}
  Jobs = {j1}
  NoJob = NoJob
  NoFile = NoFile
  Limits <- CancelsAndCrash
  user = user
  Users = {user}
  Tasks <- TwoTasks
  Owner <- OwnerOfTwo
  NoTask = NoTask
  NoUser = NoUser
  MaxQueue = 2
  Limit = 1
  MaxTries = 2
  MaxCancels = 2
  MaxFaults = 1
  MaxBotRestarts = 1
  MaxServerRestarts = 0
  MaxDays = 1
SPECIFICATION LiveSpec
PROPERTIES EveryJobSettles EveryTaskSettled
CHECK_DEADLOCK FALSE
