SPECIFICATION Spec
CONSTANTS
  Methods <- MCMethods
  Layouts <- MCLayouts
  ChunkSize = 2
  Limits = {2}
  MaxFailures = 2
  MaxCalls = 2
INVARIANT EveryListingComplete
CHECK_DEADLOCK FALSE
