\* A statement that cancels and resumes one paused, unstarted job.
SPECIFICATION Spec
CONSTANTS
  Job = {j1, j2}
  Shape <- MCOneShape
  WorkerBytes <- MCOneUnit
  CacheBytes <- MCOneUnit
  ScratchBytes <- MCOneUnit
  PausableShape <- MCOneShape
  Config <- MCSingleConfig
  DefaultConfig <- MCSingle
  Ops = {"submit", "pause", "resume", "cancel"}
  Returns = {"succeeded"}
  Faults = {}
  MaxStaged = 2
PROPERTIES TerminalFinal
CHECK_DEADLOCK FALSE
