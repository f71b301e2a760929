\* Two goroutines at the credentials map, one of them writing.
SPECIFICATION Spec
CONSTANTS
  a1 = a1
  a2 = a2
  r1 = r1
  r2 = r2
  c1 = c1
  c2 = c2
  c3 = c3
  NoProc = NoProc
  NoRegion = NoRegion
  Accounts <- MCAccounts
  Regions <- MCRegions
  Callers <- MCCallers
  Procs <- MCProcs
  LocalAccount = a1
  Asks <- MCAsks
INVARIANTS
  NoConcurrentMapAccess
CHECK_DEADLOCK FALSE
