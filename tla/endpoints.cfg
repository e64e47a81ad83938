SPECIFICATION Spec
CONSTANTS
  Unset = Unset
  Clients = {c1, c2}
  Ids = {"1", "2", "3", "4"}
  Keys = {"x", "y"}
  Programs <- MCPrograms
  Filters <- MCFilters
  Policies <- MCPolicies
  Patches <- MCPatches
  JobPatches <- MCJobPatches
  BindingSets <- MCBindingSets
  Entries <- MCEntries
  Schedules <- MCSchedules
  InitialTree <- MCInitialTree
  MaxCalls = 2
INVARIANT OutcomeTold
PROPERTY AsMeant
CHECK_DEADLOCK FALSE
