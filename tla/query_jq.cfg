SPECIFICATION Spec
CONSTANTS
  MaxJobs = 4
  MaxChanges = 2
  MaxErrors = 3
  Queues = {"a", "b"}
  MAX_PAGE_SIZE = 2
  Unset = Unset
  Calls <- JqCalls
  Payload <- MCPayload
CHECK_DEADLOCK FALSE
PROPERTIES OnlyMatching
