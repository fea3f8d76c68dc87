\* Two sessions, each of which may die anywhere and be started again, and one
\* operator.  A unit is projected at two KRW and costs two or three, or nothing
\* if it fails.  Ten rows leave room for a retry of the prefix and of its
\* branch, or for a pause.
CONSTANTS
  prefix = prefix  branch = branch  single = single
  Units = {prefix, branch, single}
  Order <- MCOrder
  PrefixOf <- MCPrefixOf
  Projected <- MCProjected
  TrancheCeiling = 5
  Costs = {2, 3}
  Runners = {s1, s2}
  Operators = {op}
  MaxEvents = 10
  NoUnit = NoUnit
  NoCost = NoCost
  NoVerdict = NoVerdict

SPECIFICATION RunnerSpec
INVARIANTS
  PrefixFirst
  DispatchedOnce
  LedgerIntact
  RunnerCeilingHolds
CHECK_DEADLOCK FALSE
