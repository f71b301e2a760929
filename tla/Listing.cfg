SPECIFICATION Spec
CONSTANTS
  Methods <- MCMethods
  Layouts <- MCLayouts
  ChunkSize = 2
  Limits = {2}
  MaxFailures = 2
  MaxCalls = 2
INVARIANTS TypeOK NilErrorMeansAll ErrorMeansPrefix
PROPERTIES ListingEnds
CHECK_DEADLOCK FALSE
