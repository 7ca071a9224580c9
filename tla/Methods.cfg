\* Each numerical part on a small instance; the bounds are met, so behaviours stop.
SPECIFICATION Spec
CONSTANTS
    Point = {1, 2, 3} None = None Vanished = Vanished
    Clip <- Onto
    Schedules = {"none", "constant", "adaptive", "decay", "warmup", "cosine"}
    Horizon = 2 Floor <- Least Ceiling = 1
    Backtracks = 1 History = 1
    Method <- SomeMethods Systems <- SomeSystems Guards <- SomeGuards Retries = 2
    Values <- SomeValues PopulationSize = 2 MinSigma <- LeastSigma SampleTolerance = 1
    Target = 0 Patience = 2 Budgets = {0, 3} MaxChunks = 2
    ShootingCandidate = {1, 2, 3} Shootings <- SomeShootings SolveIterations = 2 SolveChunks = 2
    Place = {0, 1, 2, 3, 4} Goal = 3 MinStep = 1 MaxStep = 4 FirstSteps = {1, 2, 8} Steps = 3
    CampaignPoint = {1, 2} Param = {1, 2} Fingerprint <- SomeFingerprint
    Objectives <- SomeObjectives MaxStages = 3
    RepairCandidate = {1, 2, 3, 4} Flawed <- SomeFlawed Iterations = {0, 2, 3} Trials = 2
    Tolerance = 0 MaxRows = 2
    CacheSize = 2 EvaluatorCandidates <- SomeCandidates EvaluatorSystems <- SomeEvaluators
    MaxEvaluatorCalls <- SomeCalls
    Part = {"engine", "population", "roots", "branches", "seeds", "campaigns",
            "transactions", "evaluator", "grids", "layouts", "repairs"}
INVARIANTS
    MemoryFollowsPath StopHonest BestOfVisited
    ResultOfItsCandidate StraightPath RefinementKeepsBest CandidatesKeepTheirSystem
    PlainExecutesAlike EvaluatorsHonest TransformsCompose ObjectsKeepTheirValues
CHECK_DEADLOCK FALSE
