\* Three callers, any operations, on a tenant that is absent, enabled or
\* disabled; one response may be lost and any call may fail.
SPECIFICATION TenantFairSpec
CONSTANTS
  d1 = d1
  d2 = d2
  c1 = c1
  c2 = c2
  c3 = c3
  Gone = Gone
  Callers <- MCCallers
  Domains <- MCDomains
  TenantRequests <- MCRequests
  MaxLost = 1
INVARIANTS
  TenantTypeOK
  NilMeansGone
  ReturnsWhatWasAsked
PROPERTIES
  ReplacesWhatItRead
  RetriedDeleteEnds
\* The run ends when every operation has returned.
CHECK_DEADLOCK FALSE
