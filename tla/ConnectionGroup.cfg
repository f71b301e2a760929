\* Three callers, any operations, on a group that is absent, enabled, disabled
\* or the default; two responses may be lost and any call may fail.
SPECIFICATION GroupSpec
CONSTANTS
  c1 = c1
  c2 = c2
  c3 = c3
  Gone = Gone
  Callers <- MCCallers
  GroupRequests <- MCRequests
  MaxLost = 2
INVARIANTS
  GroupTypeOK
  NilMeansGroupGone
  StaleMeansChanged
\* The run ends when every operation has returned.
CHECK_DEADLOCK FALSE
