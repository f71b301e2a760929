\* The requests of MCAsks, with roles for any of the accounts; every
\* call of STS may fail either way, and a remembered failure may outlive its
\* ttl at any time.
SPECIFICATION FairSpec
CONSTANTS
  a1 = a1
  a2 = a2
  r1 = r1
  r2 = r2
  c1 = c1
  c2 = c2
  c3 = c3
  NoProc = NoProc
  NoRegion = NoRegion
  Accounts <- MCAccounts
  Regions <- MCRegions
  Callers <- MCCallers
  Procs <- MCProcs
  LocalAccount = a1
  Asks <- MCAsks
INVARIANTS
  TypeOK
  CachedClientServed
  MatrixComplete
  AccountScoped
PROPERTIES
  RequestsEnd
\* The run ends when both requests have ended.
CHECK_DEADLOCK FALSE
