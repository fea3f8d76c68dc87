SPECIFICATION FairStageSpec
CONSTANTS
  solve = solve  chained = chained  other = other  bct = bct
  next = next  wide = wide
  Slots = {solve, chained, other, bct, next, wide}
  Order <- MCOrder
  StageOf <- MCStageOf
  Predecessor <- MCPredecessor
  Dynamic = {chained}
  Oversize = {wide}
  CallCap <- MCCallCap
  MoneyCap <- MCMoneyCap
  TotalMoneyCap = 6
  Reservation = 2
  Costs = {1}
  Verdicts <- MCVerdicts
  Estimable = Estimable  NotEstimable = NotEstimable  Review = Review
  Unclean = Unclean
  NoSlot = NoSlot  NoStage = NoStage  NoVerdict = NoVerdict
  NoManifest = NoManifest
  MaxActive = 2
  MaxFaults = 2
  MaxStarts = 3
INVARIANTS ReceiptsAreTrue SealCoversCalls CleanRunSeals
PROPERTIES ImplementsBudget QuietAfterSeal StageEnds
CHECK_DEADLOCK FALSE
