SPECIFICATION Spec
CONSTANTS
  Baselines = {"dc_rs", "reflexion_style", "bot_style", "fh_bounded"}
  Horizon = 3
  Capacities = {2, 9}
  Window = 3
  MaxAttempts = 2
  RetrieveK = 3
INVARIANTS
  EvidenceStands
  DurationsAreTotals
  ContaminationLivesInMemory
CHECK_DEADLOCK FALSE
