\* The engine's thread cycles while a request rebuilds the backlog: stops, a restart, and
\* an enqueue that trusts a queue worker which is leaving.
SPECIFICATION FairSpec
CONSTANTS
  Objectives = {o1, o2}
  Tests = o1
  Observability = o2
  Lacks = {}
  Repositories = {{o2}}
  Advices = {{}}
  Engine = Engine
  Requests = {q1}
  RunOnceRequests = {}
  MaxFaults = 0
  LostWakeups = TRUE
  MaxQueue = 3
  MaxCrashes = 1
INVARIANTS EnqueuedOnce EnabledIsAttended
PROPERTY EverythingIsQueued
CHECK_DEADLOCK FALSE
