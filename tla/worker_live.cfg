SPECIFICATION HungSpec
CONSTANTS
  Tasks = {t1, t2}
  Concurrency = 2
  MaxRuns = 1
  StopInHandler = FALSE
  Resolved = Resolved
  t1 = t1
  t2 = t2
PROPERTIES StopReturns KillReturns AcksDelivered SlotFreed
CHECK_DEADLOCK FALSE
