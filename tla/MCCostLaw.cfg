\* Three units over two stages in every order; every call of them is answered.
CONSTANTS
  a = a  b = b  c = c
  rag = rag  synthesize = synthesize
  Units = {a, b, c}
  Stages = {rag, synthesize}
  Calls <- MCCalls
  CacheWrite <- MCCacheWrite
  MaxInput <- MCMaxInput
  MaxOutput <- MCMaxOutput
  Usages <- MCUsages

SPECIFICATION CostSpec
INVARIANTS
  AttributionIsExact
  BeginningIsCovered
  OvershootIsBounded
CHECK_DEADLOCK FALSE
