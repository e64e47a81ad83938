SPECIFICATION Spec
CONSTANTS
  Unset = Unset
  Index <- MCIndex
  Programs <- MCPrograms
  Transform <- MCTransform
  MaxJobs = 4
INVARIANTS DuplicatesAgree BatchesKeepAll ReachesItsFunction
CHECK_DEADLOCK FALSE
