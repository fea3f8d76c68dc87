SPECIFICATION StageSpec
CONSTANTS
  solve = solve  chained = chained  other = other  bct = bct
  next = next  wide = wide
  Slots = {solve, chained, other}
  Order <- MCOrder
  StageOf <- MCStageOf
  Predecessor <- MCPredecessor
  Dynamic = {chained}
  Oversize = {}
  CallCap <- MCCallCap
  MoneyCap <- MCMoneyCap
  TotalMoneyCap = 6
  Reservation = 2
  Costs = {1}
  Verdicts <- MCVerdicts
  Estimable = Estimable  NotEstimable = NotEstimable  Review = Review
  Unclean = Unclean
  NoSlot = NoSlot  NoStage = NoStage  NoVerdict = NoVerdict
  NoManifest = NoManifest
  MaxActive = 2
  MaxFaults = 0
  MaxStarts = 1
INVARIANT AccountedIsSealed
CHECK_DEADLOCK FALSE
