\* Two dispatchers, one of which may die once and be opened again while the
\* other works, or recovers what the dead one left behind; a request of a clean
\* prefix and one of its branch; compilation c2 exceeds the envelope.  Seven
\* revisions: a retry (intent, NO_REQUEST) and a whole life after it (5).
CONSTANTS
  r1 = r1  r2 = r2  r3 = r3
  prefix = prefix  branch = branch  other = other
  c1 = c1  c2 = c2
  Requests = {r1, r2}
  Compiled = {c1, c2}
  Oversize = {c2}
  Costs = {3}
  MaxRevision = 7
  Dispatchers = {d1, d2}
  Parents = {prefix, branch}
  ParentOf <- MCParentOf
  PrefixOf <- MCPrefixOf
  MaxCrashes = 1
  NoCompiled = NoCompiled
  NoCost = NoCost
  UnknownCost = UnknownCost
  NoParent = NoParent
  NoRequest = NoRequest
  NoOwner = NoOwner

SPECIFICATION DispatchSpec
INVARIANTS
  AtMostOneExposed
  NeverResent
  OversizeIsFinal
  EvidenceOnDisk
  BilledAsAnswered
  PairObserves
PROPERTIES
  ImplementsExposure
  QuietAfterTerminal
CHECK_DEADLOCK FALSE
