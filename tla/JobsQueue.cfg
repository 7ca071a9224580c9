\* Admission and scheduling of small and large jobs under two limit settings.
SPECIFICATION Spec
CONSTANTS
  Job = {j1, j2, j3}
  Shape <- MCShape
  WorkerBytes <- MCWorkerBytes
  CacheBytes <- MCCacheBytes
  ScratchBytes <- MCScratchBytes
  PausableShape <- MCOneShape
  Config <- MCConfig
  DefaultConfig <- MCDefault
  Ops = {"configure", "submit", "pause", "resume", "release"}
  Returns = {"succeeded"}
  Faults = {"start", "thread"}
  MaxStaged = 1
SYMMETRY JobSymmetry
INVARIANTS SlotsBounded LimitsKept
PROPERTIES NoOvertaking
CHECK_DEADLOCK FALSE
