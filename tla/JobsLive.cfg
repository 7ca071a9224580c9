\* Two jobs under fair scheduling, with uncooperative workers and failing starts.
SPECIFICATION FairSpec
CONSTANTS
  Job = {j1, j2}
  Shape <- MCOneShape
  WorkerBytes <- MCOneUnit
  CacheBytes <- MCOneUnit
  ScratchBytes <- MCOneUnit
  PausableShape <- MCOneShape
  Config <- MCSingleConfig
  DefaultConfig <- MCSingle
  Ops = {"submit", "pause", "cancel"}
  Returns = {"numerical_failure"}
  Faults = {"touch"}
  MaxStaged = 1
PROPERTIES CancelEnds QueueDrains
CHECK_DEADLOCK FALSE
