\* One-operation statements on two jobs: the pause, resume and cancel protocol.
SPECIFICATION Spec
CONSTANTS
  Job = {j1, j2}
  Shape <- MCOneShape
  WorkerBytes <- MCOneUnit
  CacheBytes <- MCOneUnit
  ScratchBytes <- MCOneUnit
  PausableShape <- MCOneShape
  Config <- MCSingleConfig
  DefaultConfig <- MCSingle
  Ops = {"submit", "pause", "resume", "restart", "cancel", "release", "shutdown"}
  Returns = {"succeeded"}
  Faults = {"rss", "crash", "snapshot"}
  MaxStaged = 1
SYMMETRY JobSymmetry
INVARIANTS TypeOK PauseHandshake WorkersOwned ResultHonest
PROPERTIES ImplementsLifecycle
CHECK_DEADLOCK FALSE
