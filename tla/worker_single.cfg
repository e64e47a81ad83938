SPECIFICATION Spec
CONSTANTS
  Tasks = {t1, t2, t3}
  Concurrency = 2
  MaxRuns = 1
  StopInHandler = FALSE
  Resolved = Resolved
  t1 = t1
  t2 = t2
  t3 = t3
INVARIANTS TypeOK HandlersBounded SingleFlush NoAckLost StreamHeldUntilDrained
PROPERTIES ImplementsContract
SYMMETRY TaskSymmetry
CHECK_DEADLOCK FALSE
