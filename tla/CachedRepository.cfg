SPECIFICATION Spec
CONSTANTS
  c1 = c1
  c2 = c2
  here = here
  there = there
  none = none
  product = product
  deep = deep
  deeper = deeper
  cut = cut
  None = None
  Callers <- MCCallers
  Calls <- MCCalls
  Handlers <- MCHandlers
  NoArgs = none
  Rendering <- MCRendering
  MaxFetch = 2
SYMMETRY Symmetry
INVARIANTS
  TypeOK
  OwnAnswer
  NoPartialHit
  TtlNotExtended
  CacheFailureHarmless
