SPECIFICATION Spec
CONSTANTS
  o1 = o1
  o2 = o2
  b1 = b1
  Object = {o1, o2}
  Blob = {b1}
  None = None
  BlobsOf <- MCBlobsOf
  Limits <- MCLimits
  IndexBytes = 1
  IntentBytes = 1
  FailureBytes = 1
  OutcomeBytes = 2
  Reserve = 2
  Users = {"native"}
  Powers = {}
  Faults = {"interrupt"}
  MaxGeneration = 3
  MaxPrepared = 2
INVARIANT PayloadsKept
CHECK_DEADLOCK FALSE
