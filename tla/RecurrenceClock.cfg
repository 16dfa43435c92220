SPECIFICATION RSpec
CONSTANTS
  Period = 5
  Slots = {2, 3, 9, 10, 11, 17, 30}
  Grace = 2
  MaxRun = 8
  FirstLag = 3
  MaxOffset = 3
  Horizon = 40
CHECK_DEADLOCK FALSE
INVARIANTS ClockInv ChainSurvives NoDrift EndsWhenExhausted
PROPERTIES NothingSkipped
