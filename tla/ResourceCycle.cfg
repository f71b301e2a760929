\* Seven pools of gateways, two calls of Serve, up to three lists of types each;
\* up to one resource of a type in a pair.
SPECIFICATION Spec
CONSTANTS
  a1 = a1
  a2 = a2
  us = us
  eu = eu
  r3 = r3
  r4 = r4
  Accounts <- MCAccounts
  Regions <- MCRegions
  UsEast1 = us
  EuCentral1 = eu
  GatewayLists <- MCGatewayLists
  Watched <- MCWatched
  Asks <- MCAsks
  MaxFound = 1
  MaxServes = 2
INVARIANTS
  TypeOK
  GlobalOnce
  ServeAccount
  GaugeShowsPool
\* The run ends after the last Serve.
CHECK_DEADLOCK FALSE
