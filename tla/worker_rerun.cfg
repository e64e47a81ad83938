SPECIFICATION Spec
CONSTANTS
  Tasks = {t1, t2, t3}
  Concurrency = 1
  MaxRuns = 2
  StopInHandler = TRUE
  Resolved = Resolved
  t1 = t1
  t2 = t2
  t3 = t3
INVARIANTS ConcurrencyBound NoStrandedAck AckAtMostOnce
SYMMETRY TaskSymmetry
CHECK_DEADLOCK FALSE
