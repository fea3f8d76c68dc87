\* Two operators who reconcile the same interrupted unit.
CONSTANTS
  prefix = prefix  branch = branch  single = single
  Units = {prefix, branch, single}
  Order <- MCOrder
  PrefixOf <- MCPrefixOf
  Projected <- MCProjected
  TrancheCeiling = 5
  Costs = {3}
  Runners = {s1, s2}
  Operators = {op, op2}
  MaxEvents = 10
  NoUnit = NoUnit
  NoCost = NoCost
  NoVerdict = NoVerdict

SPECIFICATION RunnerSpec
INVARIANT LedgerIntact
CHECK_DEADLOCK FALSE
