SPECIFICATION PFairSpec
CONSTANTS
  t1 = t1
  r1 = r1
  r2 = r2
  Tasks = {t1}
  Requests = {r1, r2}
  Nobody = Nobody
  Cap = 2
  PoolSize = 2
  ExecPoolSize = 1
  MaxInFlight = 1
  TimeOuts = {"http", "pool"}
CHECK_DEADLOCK FALSE
INVARIANTS NothingLeaks ConnInv NoCircle
PROPERTIES EveryoneEnds SchedulerDrains
