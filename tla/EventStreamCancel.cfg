\* Does a cancelled fetch end.
SPECIFICATION FairSpec
CONSTANTS
  NoLimit = NoLimit
  Trails <- MCTrails
  Limits <- MCLimits
  Consumers <- MCConsumers
  MaxPageErrors = 2
PROPERTIES
  CancelStopsFetch
CHECK_DEADLOCK FALSE
