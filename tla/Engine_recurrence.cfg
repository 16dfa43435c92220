SPECIFICATION Spec
CONSTANTS
  t1 = t1
  t2 = t2
  t3 = t3
  c1 = c1
  c2 = c2
  Tasks = {t1, t2, t3}
  NoTask = NoTask
  Clients = {c1}
  RetryCaps = {1}
  PollMaxAttempts = 1
  Faults = {"jobstore", "misfire", "early"}
SYMMETRY Symmetry
CHECK_DEADLOCK FALSE
INVARIANTS FollowUpsSound RecurrenceContinues
