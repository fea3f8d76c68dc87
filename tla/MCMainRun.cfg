\* A prefix of two calls, its branch and a unit of the next seed, at two KRW a
\* request, under a tranche ceiling of seven and an authorization ceiling of six:
\* an answer costs two or three KRW, or nobody knows what until the operator
\* does; two processes may end, so three can work.
CONSTANTS
  r1 = r1  r2 = r2  r3 = r3  r4 = r4
  prefix = prefix  branch = branch  other = other
  c1 = c1  c2 = c2
  Requests = {r1, r2, r3, r4}
  Compiled = {c1, c2}
  Oversize = {c2}
  Costs = {2, 3}
  MaxRevision = 7
  Runner = run
  Dispatchers = {run}
  Parents = {prefix, branch, other}
  ParentOf <- MCParentOf
  PrefixOf <- MCPrefixOf
  Order <- MCOrder
  SeedOf <- MCSeedOf
  CallsOf <- MCCallsOf
  Projected <- MCProjectedLow
  TrancheCeiling = 7
  AuthorizationCeiling = 6
  MaxUnits = 5
  MaxCrashes = 2
  NoCompiled = NoCompiled
  NoCost = NoCost
  UnknownCost = UnknownCost
  NoParent = NoParent
  NoRequest = NoRequest
  NoOwner = NoOwner

SPECIFICATION MainFairSpec
INVARIANTS
  RowsAreEvidenced
  CountsAddUp
  CeilingsHold
  SelectsOnTheTruth
PROPERTIES
  NeverRedone
  TranchesInOrder
  SessionEnds
CHECK_DEADLOCK FALSE
