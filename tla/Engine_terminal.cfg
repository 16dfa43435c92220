SPECIFICATION Spec
CONSTANTS
  t1 = t1
  t2 = t2
  t3 = t3
  c1 = c1
  c2 = c2
  Tasks = {t1}
  NoTask = NoTask
  Clients = {c1}
  RetryCaps = {2}
  PollMaxAttempts = 2
  Faults = {}
CHECK_DEADLOCK FALSE
PROPERTIES TerminalIsFinal
