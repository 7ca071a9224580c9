\* Work in memory first, an experiment afterwards.
SPECIFICATION Spec
CONSTANTS
    c1 = c1 n1 = n1 k1 = k1 k2 = k2 u1 = u1 u2 = u2 None = None
    e1 = e1 e2 = e2
    CoordinatorJob = {j1} CoordinatorFaults = {"publish", "lost", "crash"}
    MaxCache = 1 MaxRequests = 3 MaxSends = 3
    Part = {"recorder"}
    AncestryCtx = {c1} AncestryName = {n1} AncestrySetting = {k1}
    Certified = {k1} Policies <- SomePolicies
    AncestryUpdate = {u1}
    AncestryGroups = {}
    AncestryObjects = 4 AncestryBytes = 10 AncestryMinted = 4
    AncestryStates = 5 AncestryGeneration = 5
    Faults = {"append", "commit"}
    MaxCommands = 3
INVARIANT PlansRebuild
CHECK_DEADLOCK FALSE
