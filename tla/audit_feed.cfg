CONSTANTS
  Jobs = {e1, e2, e3}
  Instants = {19, 20, 25, 199}
  Scale = 10
  Threshold = 20
  Short = {25}
  Precise = 199
  MillisOf <- MCMillisOf
  Year10000 = 200
  PageSize = 2
  MaxFaults = 1
SYMMETRY JobSymmetry
SPECIFICATION Spec
INVARIANTS FeedSteady StoredAsSent
CHECK_DEADLOCK FALSE
