\* A submission committed while the scheduler thread is leaving its loop.
SPECIFICATION Spec
CONSTANTS
  Job = {j1, j2}
  Shape <- MCOneShape
  WorkerBytes <- MCOneUnit
  CacheBytes <- MCOneUnit
  ScratchBytes <- MCOneUnit
  PausableShape <- MCOneShape
  Config <- MCSingleConfig
  DefaultConfig <- MCSingle
  Ops = {"submit"}
  Returns = {"succeeded"}
  Faults = {}
  MaxStaged = 1
INVARIANTS QueuedIsServed
CHECK_DEADLOCK FALSE
