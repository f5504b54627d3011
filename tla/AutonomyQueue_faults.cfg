\* Two handlers, a crash and a failed write: the safety properties, the task queue, and that
\* whatever a looping worker can see is served, before the faults, between them and after.
SPECIFICATION FairSpec
CONSTANTS
  Callers = {c1, c2}
  Workers = {w1, w2}
  Objectives = {o1, o2}
  NoOne = NoOne
  MaxItems = 2
  MaxCrashes = 1
  MaxDumpFailures = 1
INVARIANTS IInv OneWorker AtMostOneRun ItemsAreAccountedFor
PROPERTIES ImplementsTaskQueue SeenIsServed
CHECK_DEADLOCK FALSE
