\* Four tasks and a memory of three: the prefix outgrows it (no checkpoint after
\* that is mature), and an arm's two trials push the root out of the contaminated
\* memory and hide older entries from a prompt of two.
SPECIFICATION ArmsSpec
CONSTANTS
  Tasks = 4
  Horizon = 2
  Capacity = 3
  Window = 2
  MaxAttempts = 2
INVARIANTS NoContractError FilterIsExact
PROPERTIES ArmsImplementMemory
CHECK_DEADLOCK FALSE
