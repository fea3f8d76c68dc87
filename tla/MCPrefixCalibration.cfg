\* Two trajectories of two positions: every baseline four times, nine calls in
\* the longest course of a position; a call is repeated once, and three attempts
\* stay without an answer.
CONSTANTS
  Trajectories = 2
  Positions = 2
  Retries = 1
  AttemptCost = 1
  MaxLost = 3

SPECIFICATION CalibrationSpec
INVARIANTS
  BillsAreReserved
  NeverStarved
CHECK_DEADLOCK FALSE
