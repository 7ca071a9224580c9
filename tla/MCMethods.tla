----------------------------- MODULE MCMethods -----------------------------
(***************************************************************************)
(* The numerical parts, each on its own small instance.  A behaviour is    *)
(* one of the chosen part; the variables of the others keep a constant     *)
(* value.                                                                  *)
(***************************************************************************)
EXTENDS Methods

CONSTANTS
    Part,                                                       \* the parts to explore
    Method, Systems, Guards, Retries,                           \* Engine
    Values, PopulationSize, MinSigma, SampleTolerance,          \* Population
    Target, Patience, Budgets, MaxChunks,                       \* Engine and Population
    ShootingCandidate, Shootings, SolveIterations, SolveChunks, \* Roots
    Place, Goal, MinStep, MaxStep, FirstSteps, Steps,           \* Branches
    CampaignPoint, Param, Fingerprint, Objectives, MaxStages,   \* Campaigns
    RepairCandidate, Flawed, Iterations, Trials, Tolerance, MaxRows,   \* Repairs
    CacheSize, EvaluatorCandidates, EvaluatorSystems, MaxEvaluatorCalls \* Evaluator

VARIABLES
    part,
    value, residual, run, log,          \* Engine; value also of Population and Campaigns
    search,                             \* Population
    shooting, solve,                    \* Roots
    branch,                             \* Branches
    problem, sweep,                     \* Seeds
    factory, camp,                      \* Campaigns
    system, request, reply, echo,       \* Transactions; system also of Evaluator
    stores, count, asked, served, used, calls, last,    \* Evaluator
    items,                              \* Guesses, over Grids
    memory, arrays, objects, poked, writes,             \* Layouts
    flaw, repair                        \* Repairs

rest == <<part, value>>
engineVars == <<residual, run, log>>
rootVars == <<shooting, solve>>
seedVars == <<problem, sweep>>
campaignVars == <<factory, camp>>
methodVars == <<rest, engineVars, search, rootVars, branch, seedVars, campaignVars>>
transactionVars == <<request, reply, echo>>
evaluatorVars == <<stores, count, asked, served, used, calls, last>>
layoutVars == <<memory, arrays, objects, poked, writes>>
repairVars == <<flaw, repair>>
valueVars == <<items, layoutVars, repairVars>>
callVars == <<system, transactionVars, evaluatorVars, valueVars>>
vars == <<methodVars, callVars>>

\* Point 3 lies outside the bounds and is projected onto point 2.
Onto == [p \in {1, 2, 3} |-> IF p = 3 THEN 2 ELSE p]
Least == -3
LeastSigma == -2

---------------------------------------------------------------------------
\* Norms are natural numbers with 0 for a root, or None where a candidate does not evaluate.
RootsSound ==
  /\ None \notin Int /\ SolveIterations \in Nat
  /\ \A s \in Shootings :
       /\ s.norm \in [ShootingCandidate -> Nat \cup {None}]
       /\ s.jacobian \in [ShootingCandidate -> BOOLEAN]
       /\ s.measured \in [ShootingCandidate -> BOOLEAN]
       /\ s.cost \in [ShootingCandidate -> Int]

\* Norms are numbers, or None where the residual raises; a history keeps a row.
RepairsSound ==
  /\ None \notin Int /\ Tolerance \in Int /\ Iterations \subseteq Nat
  /\ MaxRows \in Nat \ {0} /\ Trials \in Nat \ {0}
  /\ \A f \in Flawed : f.norm \in [RepairCandidate -> Int \cup {None}]

BranchReasons ==
  {"seed_verification_failed", "target_reached", "minimum_step_reached", "verification_failed",
   "target_landing_failed", "stage_gate_failed", "completed", "max_steps"}

\* Places are integers; steps are positive, and so are their limits.
BranchesSound ==
  /\ Place \subseteq Int /\ Goal \in Int /\ Steps \in Nat /\ None \notin BranchReasons
  /\ MinStep \in Nat \ {0} /\ MaxStep \in Nat \ {0} /\ FirstSteps \subseteq Nat \ {0}

\* There is a system; fingerprints tell systems apart; an objective is a number or None.
CampaignsSound ==
  /\ Param # {} /\ None \notin Int \cup Param
  /\ \A s, t \in Param : Fingerprint[s] = Fingerprint[t] => s = t
  /\ \A v \in Objectives : \A s \in Param : \A p \in CampaignPoint : v[s][p] \in Int \cup {None}

\* An objective is a number or None; a sample is accepted within a tolerance of the best.
PopulationReasons == {"target", "stall", "maxiter", "no_usable_candidates"}
PopulationSound ==
  /\ None \notin Int \cup PopulationReasons /\ SampleTolerance \in Nat
  /\ \A v \in Values : v \in [Point -> Int \cup {None}]

---------------------------------------------------------------------------
\* The engine, with its theorems, and the evaluators as its instance V.
E == INSTANCE EngineProofs

SomeMethods ==
    {"adam", "adaptive", "restart momentum", "nesterov", "nonlinear_cg", "lbfgs", "newton_cg",
     "proximal_gradient", "armijo", "backtracking", "fixed search", "trust_region",
     "projected_gradient"}
SomeSystems ==
    [value : {<<2, 1, 1>>, <<None, 2, 1>>, <<0, 2, 2>>, <<2, 2, None>>}, residual : {<<0, 0, 0>>}]
    \cup [value : {<<1, 2, 1>>, <<2, 1, 1>>}, residual : {<<1, 0, 0>>}]
SomeGuards == {[improve |-> "J", mode |-> "min", tolerance |-> 0, require |-> [residual |-> 0]]}

P == INSTANCE Population WITH Tolerance <- SampleTolerance

SomeValues == [Point -> 0..2] \cup {<<None, 2, 1>>, <<1, None, 2>>, <<2, None, None>>}

R == INSTANCE Roots WITH
        Candidate <- ShootingCandidate, MaxIter <- SolveIterations, MaxChunks <- SolveChunks

SomeShootings ==
    [norm : {<<0, 0, 1>>, <<0, 1, 2>>, <<0, None, 1>>},
     jacobian : {<<TRUE, TRUE, TRUE>>, <<TRUE, FALSE, TRUE>>},
     measured : {<<TRUE, TRUE, TRUE>>, <<TRUE, FALSE, TRUE>>},
     gradient : {<<TRUE, TRUE, TRUE>>, <<FALSE, TRUE, TRUE>>},
     cost : {<<1, 0, 0>>, <<0, 1, 2>>},
     check : {<<a, b, "passes">> : a \in {"passes", "fails", "dependent"}, b \in {"passes", "raises"}}]

B == INSTANCE Branches WITH
        Target <- Goal, Kinds <- {"arclength", "natural", "staged"}

\* A solve that qualifies ends at a root, from which it qualifies again.
Solves ==
    {t \in [to : {<<1, 2, 3, 4>>, <<1, 2, 1, 2>>, <<1, 2, 2, 3>>},
            qualified : {<<TRUE, TRUE, TRUE, TRUE>>, <<TRUE, TRUE, FALSE, TRUE>>,
                         <<TRUE, FALSE, FALSE, FALSE>>, <<FALSE, FALSE, FALSE, FALSE>>},
            metric : {<<2, 1, 3, 1>>, <<1, 2, 3, 4>>, <<3, 2, 1, 1>>}] :
        \A s \in 1..4 : t.qualified[s] => t.to[t.to[s]] = t.to[s] /\ t.qualified[t.to[s]]}

\* In the second relation 1 and 3 are equivalent to 2 but not to one another.
S == INSTANCE Seeds WITH
        Seed <- 1..4, Solving <- Solves, Same <- {{}, {<<1, 2>>, <<2, 3>>}, {<<2, 4>>}},
        MaxSeeds <- 3, Elites <- 2, Perturbations <- 1

C == INSTANCE Campaigns WITH Point <- CampaignPoint

SomeFingerprint == <<1, 2>>
SomeObjectives == {<<<<1, 2>>, <<2, 1>>>>, <<<<1, 1>>, <<None, 1>>>>}

Data == INSTANCE MCTransactions
T == INSTANCE Transactions WITH Systems <- Data!SomeSystems, Requests <- Data!SomeRequests

Numbers(layout, numbers, options) == [layout |-> layout, numbers |-> numbers, options |-> options]

SomeCandidates ==
    {Numbers(1, 1, "empty"), Numbers(2, 1, "empty"), Numbers(1, 2, "empty"), Numbers(1, 1, "coarse")}
SomeEvaluators ==
    {[family |-> "olgs", combined |-> FALSE, more |-> FALSE, default |-> None],
     [family |-> "olss", combined |-> FALSE, more |-> TRUE, default |-> None],
     [family |-> "olss", combined |-> TRUE, more |-> FALSE, default |-> "coarse"]}
SomeCalls == [olgs |-> 5, olss |-> 3]

\* Grids on [0, 4], [4, 8] and around them, and pairs of signals that meet at 4.
ControlGrid(times, start, stop, placement) ==
    [times |-> times, start |-> start, stop |-> stop, placement |-> placement]
Early == ControlGrid(<<0, 2, 4>>, 0, 4, "nodes")
Late == ControlGrid(<<4, 6, 8>>, 4, 8, "nodes")
EarlyCells == ControlGrid(<<0, 2>>, 0, 4, "left_cells")
LateCells == ControlGrid(<<4, 6>>, 4, 8, "left_cells")
EarlyCenters == ControlGrid(<<1, 3>>, 0, 4, "cell_centers")
LateCenters == ControlGrid(<<6, 10>>, 4, 12, "cell_centers")
Signal(first, second, dt, scales, grid) ==
    [keys |-> <<"1", "2">>, u |-> [k \in {"1", "2"} |-> IF k = "1" THEN first ELSE second],
     dt |-> dt, scales |-> scales, grid |-> grid, made |-> None, of |-> <<>>]

G == INSTANCE Guesses WITH
        Targets <- {Early, Late, EarlyCells, LateCells, EarlyCenters, LateCenters,
                    ControlGrid(<<0, 4>>, 0, 8, "left_cells"), ControlGrid(<<0, 1, 4>>, 0, 4, "nodes"),
                    ControlGrid(<<0, 2, 4, 6, 8>>, 0, 8, "nodes")},
        Inputs <- {<<Signal(<<64, 128, 0>>, <<0, 64, -64>>, 2, "own", None),
                     Signal(<<0, 64, 192>>, <<64, 0, 64>>, None, "own", Late)>>,
                   <<Signal(<<64, 128>>, <<0, 64>>, None, "ones", EarlyCells),
                     Signal(<<0, 192>>, <<64, 0>>, 2, "ones", None)>>,
                   <<Signal(<<64, 128>>, <<0, 64>>, None, "ones", EarlyCenters),
                     Signal(<<0, 192>>, <<64, 0>>, 4, "own", LateCenters)>>},
        Bound <- 100, MaxItems <- 4,
        Amplitudes <- {64}, Waves <- {[i \in 1..8 |-> IF i % 2 = 1 THEN 1 ELSE -1]}

\* Two arrays of four numbers, one of them transposed; layouts that differ in the
\* order of names, in type, in shape, and two that are not valid.
Declared(keys, control_dim, dtype, dt, scales) ==
    [keys |-> keys, control_dim |-> control_dim, dtype |-> dtype, dt |-> dt, scales |-> scales]
Blocks(names, shapes, scales) == [names |-> names, shapes |-> shapes, scales |-> scales]
Real(n) == <<n, 0>>

L == INSTANCE Layouts WITH
        ControlLayouts <- {Declared(<<"a", "b">>, 2, "float", None, None),
                           Declared(<<"b", "a">>, 2, "float", 2, [a |-> 3, b |-> 1]),
                           Declared(<<"a", "b">>, 2, "complex", None, None),
                           Declared(<<"a", "a">>, 2, "float", None, None)},
        ShootingLayouts <- {Blocks(<<"x", "y", "z">>, [x |-> <<2>>, y |-> <<1>>, z |-> <<>>], <<1, 1, 2>>),
                            Blocks(<<"y", "x", "z">>, [x |-> <<2>>, y |-> <<>>, z |-> <<>>], <<1, 1, 1>>),
                            Blocks(<<"values">>, [values |-> <<2, 2>>], <<1>>),
                            Blocks(<<"x">>, [x |-> <<0>>], <<1>>)},
        Given <- <<[shape |-> <<2, 2>>, dtype |-> "float", order |-> <<1, 3, 2, 4>>,
                    numbers |-> <<Real(1), Real(2), Real(3), Real(4)>>],
                   [shape |-> <<2, 2>>, dtype |-> "complex", order |-> <<1, 2, 3, 4>>,
                    numbers |-> <<Real(1), <<2, 1>>, Real(3), Real(4)>>]>>,
        Pokes <- {Real(None)}, Levels <- {[a |-> Real(1), b |-> Real(2)]},
        MaxArrays <- 3, MaxObjects <- 2, MaxWrites <- 1

X == INSTANCE Repairs WITH Candidate <- RepairCandidate, Backtracks <- Trials

SomeFlawed ==
    [norm : {<<3, 2, 1, 0>>, <<3, 1, None, 1>>, <<2, None, None, 0>>},
     jacobian : {<<TRUE, TRUE, TRUE, TRUE>>, <<TRUE, FALSE, TRUE, TRUE>>},
     analytical : BOOLEAN, bounded : BOOLEAN]

\* What the proofs take of the constants.
ASSUME MethodsAssumption ==
    /\ E!EngineSound /\ E!EvaluatorSound
    /\ PopulationSound /\ RootsSound /\ RepairsSound /\ BranchesSound /\ CampaignsSound

---------------------------------------------------------------------------
Init ==
    /\ part \in Part
    /\ part \notin {"engine", "population", "campaigns"} => value = None
    /\ IF part = "engine" THEN E!Init ELSE residual = None /\ run = None /\ log = None
    /\ IF part = "population" THEN P!Init ELSE search = None
    /\ IF part = "roots" THEN R!Init ELSE shooting = None /\ solve = None
    /\ IF part = "branches" THEN B!Init ELSE branch = None
    /\ IF part = "seeds" THEN S!Init ELSE problem = None /\ sweep = None
    /\ IF part = "campaigns" THEN C!Init ELSE factory = None /\ camp = None
    /\ part \notin {"transactions", "evaluator"} => system = None
    /\ IF part = "transactions" THEN T!Init ELSE request = None /\ reply = None /\ echo = None
    /\ IF part = "evaluator" THEN E!V!Init
       ELSE /\ stores = None /\ count = None /\ asked = None /\ served = None /\ used = None
            /\ calls = None /\ last = None
    /\ IF part = "grids" THEN G!Init ELSE items = None
    /\ IF part = "layouts" THEN L!Init
       ELSE memory = None /\ arrays = None /\ objects = None /\ poked = None /\ writes = None
    /\ IF part = "repairs" THEN X!Init ELSE flaw = None /\ repair = None

EngineStep ==
    part = "engine" /\ E!Next
    /\ UNCHANGED <<part, search, rootVars, branch, seedVars, campaignVars, callVars>>
PopulationStep ==
    part = "population" /\ P!Next
    /\ UNCHANGED <<part, engineVars, rootVars, branch, seedVars, campaignVars, callVars>>
RootsStep ==
    part = "roots" /\ R!Next
    /\ UNCHANGED <<rest, engineVars, search, branch, seedVars, campaignVars, callVars>>
BranchesStep ==
    part = "branches" /\ B!Next
    /\ UNCHANGED <<rest, engineVars, search, rootVars, seedVars, campaignVars, callVars>>
SeedsStep ==
    part = "seeds" /\ S!Next
    /\ UNCHANGED <<rest, engineVars, search, rootVars, branch, campaignVars, callVars>>
CampaignsStep ==
    part = "campaigns" /\ C!Next
    /\ UNCHANGED <<part, engineVars, search, rootVars, branch, seedVars, callVars>>

TransactionsStep ==
    part = "transactions" /\ T!Next /\ UNCHANGED <<methodVars, evaluatorVars, valueVars>>
EvaluatorStep ==
    part = "evaluator" /\ E!V!Next /\ UNCHANGED <<methodVars, transactionVars, valueVars>>
GridsStep ==
    part = "grids" /\ G!NextGuess
    /\ UNCHANGED <<methodVars, system, transactionVars, evaluatorVars, layoutVars, repairVars>>
LayoutsStep ==
    part = "layouts" /\ L!Next
    /\ UNCHANGED <<methodVars, system, transactionVars, evaluatorVars, items, repairVars>>
RepairsStep ==
    part = "repairs" /\ X!Next
    /\ UNCHANGED <<methodVars, system, transactionVars, evaluatorVars, items, layoutVars>>

Next ==
    \/ EngineStep \/ PopulationStep \/ RootsStep \/ BranchesStep \/ SeedsStep \/ CampaignsStep
    \/ TransactionsStep \/ EvaluatorStep \/ GridsStep \/ LayoutsStep \/ RepairsStep

Spec == Init /\ [][Next]_vars

---------------------------------------------------------------------------
\* Method memory describes the path the run took (Engine).
MemoryFollowsPath == part = "engine" => E!MemoryFollowsPath
\* A reported stop is what happened (Engine).
StopHonest == part = "engine" => E!StopHonest
\* The best point is the best one visited, over continued chunks (Engine); that
\* of a CMA-ES chunk is as good as every sample of it (Population).  A guarded
\* chunk moves to points its guard lets through only.
BestOfVisited ==
    /\ part = "engine" => E!BestOfVisited /\ E!GuardHolds
    /\ part = "population" => P!BestOfSamples
\* A shooting result speaks of the candidate it returns (Roots), as does that of
\* a residual repair (Repairs).
ResultOfItsCandidate ==
    /\ part = "roots" => R!ResultOfItsCandidate
    /\ part = "repairs" => X!RepairHonest
\* Path and attempts of a continuation tell one story (Branches).
StraightPath == part = "branches" => B!StraightPath
\* Unique roots are not equivalent, and refinement loses none (Seeds).
RefinementKeepsBest == part = "seeds" => S!RefinementKeepsBest
\* Candidates are made and validated under one system (Campaigns).
CandidatesKeepTheirSystem == part = "campaigns" => C!CandidatesKeepTheirSystem

\* A request executes after JSON as it did before (Transactions).
PlainExecutesAlike == part = "transactions" => T!PlainExecutesAlike
\* Stored answers are about the candidate asked about, and the counters are the
\* work done (Evaluator).
EvaluatorsHonest == part = "evaluator" => E!V!AnswersTheCandidate /\ E!V!StoresAndCounters
\* Transformed signals are valid inputs, joined ones are their segments (Grids),
\* and guesses stay in the band of their amplitude (Guesses).
TransformsCompose == part = "grids" => G!ResultsAreInputs /\ G!JoinsAreTheirSegments /\ G!GuessesStayInBand
\* Controls and variables hold what they were made of or set to, but for writes
\* through memory declared to be shared (Layouts).
ObjectsKeepTheirValues == part = "layouts" => L!ObjectsKeepTheirValues
=============================================================================
