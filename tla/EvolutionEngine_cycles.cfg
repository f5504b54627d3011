\* A request runs cycles of its own beside the engine's thread, and one read meets a file
\* half written or one write raises. Both objectives are always lacking, so they are alike.
\* (The engine is not stopped here: stop and restarts are the other run's.)
SPECIFICATION Spec
CONSTANTS
  Objectives = {o1, o2}
  Tests = o1
  Observability = o2
  Lacks = {o1, o2}
  Repositories = {{}}
  Advices = {{}}
  Engine = Engine
  Requests = {q1}
  RunOnceRequests = {q1}
  MaxFaults = 1
  LostWakeups = FALSE
  MaxQueue = 3
  MaxCrashes = 0
CONSTRAINT NotStopped
SYMMETRY Symmetry
INVARIANTS ActiveBounded BacklogIsSound
CHECK_DEADLOCK FALSE
