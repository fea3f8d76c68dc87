\* Two stage processes, two deaths (one may be a reboot), one backward step of
\* the clock, a call a stage at most.
SPECIFICATION AttemptSpec
CONSTANTS
  Processes = {p1, p2}
  MaxCalls = 1
  MaxDeaths = 2
  MaxSteps = 1
  MaxTime = 1
  Nothing = Nothing  Script = Script  Free = Free
SYMMETRY MCSymmetry
INVARIANTS ReportIsTrue SealedIsPublishable
CHECK_DEADLOCK FALSE
