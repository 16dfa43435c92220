SPECIFICATION SFairSpec
CONSTANTS
  t1 = t1
  t2 = t2
  c1 = c1
  e1 = e1
  e2 = e2
  e3 = e3
  e4 = e4
  syncOk = syncOk
  syncBad = syncBad
  asyncOk = asyncOk
  asyncBad = asyncBad
  gone = gone
  Tasks = {t1}
  NoTask = NoTask
  Clients = {c1}
  RetryCaps = {1, 2}
  PollMaxAttempts = 2
  Faults = {"crash", "db", "jobstore", "misfire", "early", "cron"}
  Execs = {e1, e2}
  Endpoints = {syncOk, syncBad, asyncOk, asyncBad}
  Names = {syncOk, syncBad, asyncOk, asyncBad, gone}
  AsyncEndpoints = {asyncOk, asyncBad}
  FailEndpoints = {syncBad, asyncBad}
  MaxInFlight = 1
  NoEndpoint = NoEndpoint
  WorkerFaults = {"crash", "db", "early"}
  NoExec = NoExec
  NetFaults = {"lost", "timeout"}
CHECK_DEADLOCK FALSE
INVARIANTS SInv SuccessMeansDone EffectAtMostOnce FailedMeansNotDone ExecutionsBounded
PROPERTIES ImplementsEngine
