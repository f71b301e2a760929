\* Both consumers, every trail of MCTrails, with and without a limit; up to two
\* failures of LookupEvents, and a cancellation at any point.
SPECIFICATION FairSpec
CONSTANTS
  NoLimit = NoLimit
  Trails <- MCTrails
  Limits <- MCLimits
  Consumers <- MCConsumers
  MaxPageErrors = 2
INVARIANTS
  TypeOK
  InOrderBarSkipped
  NilErrorMeansReadAll
PROPERTIES
  ReadReturns
  FetchEnds
\* The run ends with both goroutines; a range loop beside a blocked sender
\* stops for good.
CHECK_DEADLOCK FALSE
