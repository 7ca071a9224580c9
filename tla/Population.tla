----------------------------- MODULE Population -----------------------------
(***************************************************************************)
(* CMA-ES (optimizers/cma_es.py): sampled generations around a mean, in    *)
(* chunks that may continue from the state of the last result.             *)
(*                                                                         *)
(* Objectives are a table; the distribution is a mean point and a radius,  *)
(* counted in shrinkings from the configured one; a draw of the random     *)
(* generator is any point.                                                 *)
(***************************************************************************)
EXTENDS Integers, Sequences

CONSTANTS
    Point, None, Clip,
    Values,         \* objective tables; None is an evaluation that fails
    PopulationSize,
    MinSigma,       \* min_sigma, in shrinkings
    Tolerance,      \* accept_tolerance
    Target, Patience,
    Budgets,        \* the values of maxiter
    MaxChunks

VARIABLES
    value,          \* the system: the objective of each point
    search          \* the state of the chunk in progress, or of the last result
pvars == <<value, search>>

Init == value \in Values /\ search = [phase |-> "idle"]

Finite(points) == {p \in points : value[p] # None}

\* A chunk from controls, from the state of a CMA-ES result or from a warm start
\* out of it: the memory is the distribution and the generator, never the best.
\* A start that does not evaluate raises.
StartChunk ==
    /\ search.phase \in {"idle", "stopped"}
    /\ \E source \in {"controls", "state", "warmstart"}, maxiter \in Budgets :
        LET carried == source # "controls" IN
        /\ carried => search.phase = "stopped" /\ search.chunks < MaxChunks
        /\ \E p \in Finite({Clip[q] : q \in IF carried THEN {search.at} ELSE Point}) :
            search' = [phase |-> "loop", at |-> p, best |-> p, bar |-> value[p], stall |-> 0,
                       iteration |-> 0, maxiter |-> maxiter,
                       global |-> IF source = "state" THEN search.global ELSE 0,
                       mean |-> IF carried /\ search.generation > 0 THEN search.mean ELSE p,
                       sigma |-> IF carried /\ search.generation > 0 THEN search.sigma ELSE 0,
                       generation |-> IF carried THEN search.generation ELSE 0,
                       usable |-> FALSE, seen |-> {p}, reason |-> None,
                       requested |-> value[p] <= Target,
                       chunks |-> IF carried THEN search.chunks + 1 ELSE 1]
    /\ UNCHANGED value

---------------------------------------------------------------------------
(* Generations *)

Shrunk(sigma) == IF sigma > MinSigma THEN sigma - 1 ELSE MinSigma

\* The samples of a generation: the mean and draws, projected onto the bounds.
Samples == {Clip[search.mean]} \cup {Clip[p] : p \in Point}
Generations ==
    {g \in [1..PopulationSize -> Samples] : g[1] = Clip[search.mean]}

Drawn == [search EXCEPT !.iteration = @ + 1, !.global = @ + 1, !.generation = @ + 1]

\* A generation is accepted when its best sample is not worse than the current
\* point: the sample becomes current, the elites move the distribution.
Accepts(best) == value[best] <= value[search.at] + Tolerance

Moved(next, best, mean, sigma) ==
    [next EXCEPT !.at = best, !.mean = mean, !.sigma = sigma,
                 !.best = IF value[best] < value[@] THEN best ELSE @]

\* check_metrics after the generation.
Judge(next) ==
    LET better == value[next.at] < next.bar
        state == [next EXCEPT !.bar = IF better THEN value[next.at] ELSE @,
                              !.stall = IF better THEN 0 ELSE @ + 1] IN
    IF value[next.at] <= Target THEN [next EXCEPT !.phase = "stopped", !.reason = "target"]
    ELSE IF state.stall >= Patience THEN [state EXCEPT !.phase = "stopped", !.reason = "stall"]
    ELSE state

\* advance_population: samples that fail to evaluate are left out of the ranking,
\* a generation without a usable sample only shrinks the distribution.
Generate ==
    /\ search.phase = "loop" /\ search.iteration < search.maxiter /\ ~search.requested
    /\ \E g \in Generations :
        LET ranked == Finite({g[i] : i \in 1..PopulationSize})
            next == [Drawn EXCEPT !.usable = @ \/ ranked # {}, !.seen = @ \cup ranked]
            rejected == [next EXCEPT !.sigma = Shrunk(@)]
        IN  IF ranked = {} THEN search' = Judge(rejected)
            ELSE \E best \in {p \in ranked : \A q \in ranked : value[p] <= value[q]} :
                    IF Accepts(best)
                    THEN \E mean \in {p \in Point : Clip[p] = p}, sigma \in {search.sigma, Shrunk(search.sigma)} :
                            search' = Judge(Moved(next, best, mean, sigma))
                    ELSE search' = Judge(rejected)
    /\ UNCHANGED value

\* The budget is spent, or the start already met the target: the latter is
\* reported by the first visit of the loop, which a budget of zero never makes.
Exhausted ==
    /\ search.phase = "loop" /\ (search.iteration >= search.maxiter \/ search.requested)
    /\ search' = [search EXCEPT !.phase = "stopped",
                    !.reason = IF search.iteration < search.maxiter THEN "target"
                               ELSE IF search.usable \/ search.maxiter = 0 THEN "maxiter"
                               ELSE "no_usable_candidates"]
    /\ UNCHANGED value

Next == StartChunk \/ Generate \/ Exhausted

Spec == Init /\ [][Next]_pvars

---------------------------------------------------------------------------
\* The best point of a chunk is at least as good as every sample the chunk ever
\* evaluated, although only accepted generations may advance it
\* (cma_es.py: "best-so-far controls advance only through accepted generations"),
\* and a chunk that calls its candidates unusable has evaluated none but its start.
BestOfSamples ==
    search.phase # "idle" =>
        /\ \A p \in search.seen : value[search.best] <= value[p]
        /\ search.reason = "no_usable_candidates" => search.seen = {search.at}
=============================================================================
