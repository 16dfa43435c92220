SPECIFICATION EFairSpec
CONSTANTS
  e1 = e1
  e2 = e2
  e3 = e3
  syncOk = syncOk
  syncBad = syncBad
  asyncOk = asyncOk
  asyncBad = asyncBad
  gone = gone
  Execs = {e1, e2, e3}
  Endpoints = {syncOk, syncBad, asyncOk, asyncBad}
  Names = {syncOk, syncBad, asyncOk, asyncBad, gone}
  AsyncEndpoints = {asyncOk, asyncBad}
  FailEndpoints = {syncBad, asyncBad}
  MaxInFlight = 2
  NoEndpoint = NoEndpoint
  WorkerFaults = {"crash", "db", "early"}
CHECK_DEADLOCK FALSE
INVARIANTS EInv
PROPERTIES ImplementsExecution CompletionsBounded AcceptedFinishes
