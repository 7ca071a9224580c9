\* Two updates, undo and a reopening, without pins, cleanup and restore.
SPECIFICATION Spec
CONSTANTS
    c1 = c1 n1 = n1 k1 = k1 k2 = k2 u1 = u1 u2 = u2 None = None
    e1 = e1 e2 = e2
    CoordinatorJob = {j1} CoordinatorFaults = {"publish", "lost", "crash"}
    MaxCache = 1 MaxRequests = 3 MaxSends = 3
    Part = {"ancestry"}
    AncestryCtx = {c1} AncestryName = {n1} AncestrySetting = {k1}
    Certified = {k1} Policies <- SomePolicies
    AncestryUpdate = {u1, u2}
    AncestryGroups = {}
    AncestryObjects = 5 AncestryBytes = 20 AncestryMinted = 5
    AncestryStates = 6 AncestryGeneration = 7
    Faults = {}
    MaxCommands = 0
INVARIANT ResumesDurableMemory
CHECK_DEADLOCK FALSE
