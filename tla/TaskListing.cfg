SPECIFICATION LSpec
CONSTANTS
  MaxTasks = 3
  Limit = 1
CHECK_DEADLOCK FALSE
INVARIANTS MissesExplained RepeatsExplained ListInv
