\* Each part of the frontend on a small instance; the bounds are met, so behaviours stop.
SPECIFICATION Spec
CONSTANTS
    c1 = c1 n1 = n1 k1 = k1 k2 = k2 u1 = u1 u2 = u2 None = None
    e1 = e1 e2 = e2
    CoordinatorJob = {j1} CoordinatorFaults = {"publish", "lost", "crash"}
    MaxCache = 1 MaxRequests = 3 MaxSends = 3
    Part = {"session", "ancestry", "recorder", "coordinator", "statements", "input"}
    AncestryCtx = {c1} AncestryName = {n1} AncestrySetting = {k1}
    Certified = {k1} Policies <- SomePolicies
    AncestryUpdate = {u1}
    AncestryGroups = {"pins", "cleanup", "restore"}
    AncestryObjects = 4 AncestryBytes = 10 AncestryMinted = 4
    AncestryStates = 5 AncestryGeneration = 5
    Faults = {"append", "commit", "crash", "interrupt"}
    MaxCommands = 3
INVARIANTS
    RetentionSafe ResumesOwnMemory
    RedoIsTheWayBack ActiveAvailable
    SessionIsCommitted JournalReadable JobsFollowOutcome
    ToldIsDurable NothingTwice 
PROPERTIES CommitsWhatItRead ReopenGivesBack
CHECK_DEADLOCK FALSE
