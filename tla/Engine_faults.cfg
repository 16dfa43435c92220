SPECIFICATION Spec
CONSTANTS
  t1 = t1
  t2 = t2
  t3 = t3
  c1 = c1
  c2 = c2
  Tasks = {t1, t2}
  NoTask = NoTask
  Clients = {c1}
  RetryCaps = {0, 2}
  PollMaxAttempts = 2
  Faults = {"crash", "db", "jobstore", "misfire", "early", "cron"}
SYMMETRY Symmetry
CHECK_DEADLOCK FALSE
INVARIANTS IInv SingleDriver AttemptsBounded
PROPERTIES ClosedStaysClosed ProgressFollowsTable ImplementsLifecycle
