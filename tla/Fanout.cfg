\* Two proxies of up to two resources over a bus of two: the bus overflows when
\* the reader lags, and either proxy may hang, fail, or answer late.
SPECIFICATION FairSpec
CONSTANTS
  p1 = p1
  p2 = p2
  Proxies <- MCProxies
  MaxFound = 2
  ResourceBusSize = 2
INVARIANTS
  TypeOK
  NoSendOnClosed
  ReportNeverBlocks
  DiscardsOnlyBeyondBus
PROPERTIES
  ImplementsContract
  ReadTerminates
  AbandonedCallExits
\* The run ends when every goroutine has exited and both calls returned.
CHECK_DEADLOCK FALSE
