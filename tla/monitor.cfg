CONSTANTS
  Urls <- MCUrls
  FormUrls <- MCFormUrls
  Sitemaps = {"site"}
  BadUrls <- MCBadUrls
  Bodies <- MCBodies
  Workers = {w1, w2}
  Requests = {form}
  BatchSize = 1
  MaxChecks = 3
  MaxJobs = 2
  MaxFaults = 1
SYMMETRY Symmetry
SPECIFICATION Spec
INVARIANTS StatusTold FailureCount ChildrenFollow
CHECK_DEADLOCK FALSE
