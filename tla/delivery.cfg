CONSTANTS
  Tasks = {t1, t2, t3, t4}
  Concurrency = 2
  MaxRuns = 1
  StopInHandler = FALSE
  Resolved = Resolved
  Jobs = {j1, j2}
  Prefetch = 1
  MaxFaults = 2
SPECIFICATION DeliverySpec
INVARIANTS HandledNotRequeued
PROPERTIES ImplementsLifeCycle EveryJobSettled
CHECK_DEADLOCK FALSE
