------------------------------ MODULE Methods ------------------------------
(***************************************************************************)
(* The step and accept functions of the optimizers, for every method that  *)
(* goes through the shared chunk engine (optimizers/, schedules/).         *)
(*                                                                         *)
(* A control vector is a point; its objective, in descent convention, and  *)
(* its constraint residual are looked up in tables.  A step size is the    *)
(* number of halvings from the configured one (0), so it may be negative;  *)
(* Vanished is the step size zero.  Floating-point update rules become a   *)
(* choice of the candidate.  A method memory keeps, in "trail", the points *)
(* whose gradients entered it, in order; the pair histories of L-BFGS keep *)
(* the pairs of points they were taken between.                            *)
(***************************************************************************)
EXTENDS Integers, Sequences, SequencesExt

CONSTANTS
    Point,          \* control vectors
    None, Vanished, \* no value; the step size zero
    Schedules,      \* the step-size schedules first-order methods may be given
    Horizon,        \* total_steps, warmup_steps of a schedule
    Floor, Ceiling, \* min_step and max_step (max_radius), as halvings
    Backtracks,     \* max_backtracks of a line search
    History,        \* history_size of L-BFGS
    Clip            \* the projection of each point onto the declared bounds

ASSUME ClipAssumption == Clip \in [Point -> Point] /\ \A p \in Point : Clip[Clip[p]] = Clip[p]

FirstOrder == {"adam", "momentum", "restart momentum", "nesterov", "adaptive"}

Larger(a, b) == IF a > b THEN a ELSE b
Smaller(a, b) == IF a < b THEN a ELSE b
Clamped(s) == Smaller(Larger(s, Floor), Ceiling)

Inside == {p \in Point : Clip[p] = p}

\* A memory no step has written yet.
NoMemory == [accepts |-> 0, trail |-> <<>>]
Accepting(memory, trail) == [memory EXCEPT !.accepts = @ + 1, !.trail = trail]
Rejecting(memory, trail) == [memory EXCEPT !.trail = trail]

\* state.step_size or config.initial_step_size
StepSize(run) == IF run.size = None THEN 0 ELSE run.size

---------------------------------------------------------------------------
(* Schedules *)

\* The step size a schedule gives for attempt number index.
Scheduled(schedule, size, accepted, index) ==
    CASE schedule = "none" -> size
      [] schedule = "constant" -> 0
      [] schedule = "adaptive" -> Clamped(IF accepted THEN size + 1 ELSE size - 1)
      [] schedule = "decay" -> Larger(Floor, - (IF accepted THEN index ELSE index - 1))
      [] schedule = "warmup" -> IF accepted THEN Smaller(index, Horizon) - Horizon ELSE size
      [] schedule = "cosine" ->
            IF ~accepted THEN size ELSE IF index >= Horizon THEN Vanished ELSE - index

\* next_scheduled_step accepts positive step sizes only.
Branches(run) == [b \in BOOLEAN |-> Scheduled(run.schedule, StepSize(run), b, run.global + 1)]

---------------------------------------------------------------------------
(* Proposals.  to: the candidate; onAccept, onReject: the step sizes the    *)
(* branches retain; gain, loss: their memories; stop: a stop the method     *)
(* asks for; fact: what its accept function needs to know.                  *)

Proposal(p, up, down, gain, loss, stop, fact) ==
    [to |-> p, onAccept |-> up, onReject |-> down, gain |-> gain, loss |-> loss,
     stop |-> stop, fact |-> fact]

\* First-order methods: the accumulators advance by the gradient on acceptance.
Smoothed(run, kept) ==
    LET next == Branches(run) IN
    IF Vanished \in {next[TRUE], next[FALSE]} THEN {}
    ELSE {Proposal(p, next[TRUE], next[FALSE],
                   Accepting(run.memory, Append(run.memory.trail, run.at)),
                   Rejecting(run.memory, kept), None, TRUE) : p \in Point}

AdamSteps(run) == Smoothed(run, run.memory.trail)
AdaptiveSteps(run) == Smoothed(run, run.memory.trail)

\* A rejection restarts the velocity of one variant.
MomentumSteps(run) ==
    Smoothed(run, IF run.method = "restart momentum" THEN <<>> ELSE run.memory.trail)

\* Nonlinear conjugate gradients: a rejection or a direction that does not
\* descend restarts the conjugacy at the current gradient.
ConjugateStep(run, p, restarted) ==
    Proposal(p, StepSize(run), StepSize(run) - 1,
             Accepting(run.memory, Append(IF restarted THEN <<>> ELSE run.memory.trail, run.at)),
             Rejecting(run.memory, <<run.at>>), None, TRUE)
ConjugateSteps(run) == {ConjugateStep(run, p, restarted) : p \in Point, restarted \in BOOLEAN}

\* L-BFGS: the pair from the current point to the candidate joins the history
\* when its curvature is positive, and the history keeps the newest pairs.
Trimmed(pairs) ==
    IF Len(pairs) <= History THEN pairs
    ELSE SubSeq(pairs, Len(pairs) - History + 1, Len(pairs))

Paired(run, p) == Trimmed(Append(run.memory.trail, <<run.at, p>>))
PairStep(run, p, gained, lost) ==
    Proposal(p, StepSize(run), StepSize(run) - 1,
             Accepting(run.memory, gained), Rejecting(run.memory, lost), None, TRUE)

PairsOfTrials(run) == {PairStep(run, p, Paired(run, p), Paired(run, p)) : p \in Point}
PairSteps(run) == {PairStep(run, p, Paired(run, p), run.memory.trail) : p \in Point}
                  \cup {PairStep(run, p, run.memory.trail, run.memory.trail) : p \in Point}

\* Newton-CG: an accepted step goes back to the full step.
NewtonSteps(run) ==
    {Proposal(p, 0, StepSize(run) - 1, run.memory, run.memory, None, TRUE) : p \in Point}

\* Proximal gradient: a short mapping step ends the run where it is.
ProximalSteps(run) ==
    {Proposal(p, StepSize(run), StepSize(run) - 1, run.memory, run.memory, None, TRUE) : p \in Point}
    \cup {Proposal(run.at, StepSize(run), StepSize(run), run.memory, run.memory,
                   "proximal_mapping_converged", TRUE)}

\* Line search: the k-th candidate tried is the first that does not get worse
\* (armijo: that gets better); the fixed variants leave the trial to the engine.
Passes(value, run, p) ==
    /\ value[p] # None
    /\ IF run.method = "armijo" THEN value[p] < value[run.at] ELSE value[p] <= value[run.at]

TakenStep(run, size, p) ==
    Proposal(p, Clamped(size), Clamped(size - 1),
             Accepting(run.memory, <<>>), Rejecting(run.memory, <<>>), None, TRUE)
GivenUp(run, size) ==
    Proposal(run.at, None, Clamped(size), run.memory, Rejecting(run.memory, <<>>), None, FALSE)

FixedSteps(run, base) == {GivenUp(run, base)} \cup {TakenStep(run, base, p) : p \in Point}
BacktrackedSteps(value, run, base) ==
    {GivenUp(run, base), GivenUp(run, base - Backtracks)}
    \cup {TakenStep(run, base - k, p) :
              k \in 0..(Backtracks - 1), p \in {q \in Point : Passes(value, run, q)}}

SearchSteps(value, run) ==
    IF run.method = "fixed search" THEN FixedSteps(run, Clamped(StepSize(run)))
    ELSE BacktrackedSteps(value, run, Clamped(StepSize(run)))

\* Trust region: the step carries whether it hit the boundary and whether the
\* model predicts a reduction.
RegionSteps(run) ==
    {Proposal(p, StepSize(run), StepSize(run), run.memory, run.memory, None,
              [predicted |-> predicted, boundary |-> boundary]) :
        p \in Point, predicted \in BOOLEAN, boundary \in BOOLEAN}

\* The points a feasibility restoration from p may end at: it only ever takes
\* smaller residuals, inside the bounds.
Restored(residual, p) == {p} \cup {q \in Inside : residual[q] < residual[p]}

\* Projected gradient: restoration while infeasible, then projected steps that
\* are restored as well.
ProjectedSteps(residual, run) ==
    LET Phase(name, p) == [phase |-> name, before |-> residual[run.at], after |-> residual[p]] IN
    IF residual[run.at] > 0
    THEN {Proposal(p, StepSize(run), StepSize(run) - 1, run.memory, run.memory,
                   IF p = run.at THEN "restoration_failed" ELSE None, Phase("restoration", p)) :
            p \in Restored(residual, run.at)}
    ELSE {Proposal(p, StepSize(run), StepSize(run) - 1, run.memory, run.memory, None,
                   Phase("feasible", p)) :
            p \in UNION {Restored(residual, q) : q \in Inside}}
         \cup {Proposal(run.at, StepSize(run), StepSize(run), run.memory, run.memory,
                        "projected_kkt_converged", Phase("feasible", run.at))}

\* The proposals the step function of a method can return; none if it raises.
Proposals(value, residual, run) ==
    CASE run.method = "adam" -> AdamSteps(run)
      [] run.method = "adaptive" -> AdaptiveSteps(run)
      [] run.method \in {"momentum", "restart momentum", "nesterov"} -> MomentumSteps(run)
      [] run.method = "nonlinear_cg" -> ConjugateSteps(run)
      [] run.method = "lbfgs" -> PairSteps(run)
      [] run.method = "newton_cg" -> NewtonSteps(run)
      [] run.method = "proximal_gradient" -> ProximalSteps(run)
      [] run.method \in {"armijo", "backtracking", "fixed search"} -> SearchSteps(value, run)
      [] run.method = "trust_region" -> RegionSteps(run)
      [] run.method = "projected_gradient" -> ProjectedSteps(residual, run)

\* Whether the step function can raise on its own: a candidate, lookahead,
\* Hessian or prox call that fails, or a scheduled step that is not positive.
CanRaise(run) ==
    \/ run.method \in {"lbfgs", "nesterov", "newton_cg", "proximal_gradient", "trust_region",
                       "projected_gradient"}
    \/ run.method \in FirstOrder /\ Vanished \in {Branches(run)[b] : b \in BOOLEAN}

---------------------------------------------------------------------------
(* Acceptance *)

Verdict(accepted, size) == [accepted |-> accepted, size |-> size]

NotWorse(value, run, p) == value[p] <= value[run.at]

\* The ratio of actual to predicted reduction decides both acceptance and the
\* next radius, which replaces the step size whether or not the step is taken.
RegionVerdicts(value, run, prop, at) ==
    LET radius == StepSize(run)
        Ratios == IF value[at] < value[run.at] THEN {"reject", "poor", "fair", "good"} ELSE {"reject"}
        Radius(ratio) ==
            IF ~prop.fact.predicted \/ ratio \in {"reject", "poor"} THEN radius - 2
            ELSE IF ratio = "good" /\ prop.fact.boundary THEN Smaller(Ceiling, radius + 1) ELSE radius
    IN  {Verdict(prop.fact.predicted /\ ratio # "reject", Radius(ratio)) : ratio \in Ratios}

\* A search that gave up is not accepted, whatever its trial is worth.
SearchVerdicts(value, run, prop, at) == {Verdict(prop.fact /\ Passes(value, run, at), None)}

\* Restoration goes by the residual, a feasible step by both.
ProjectedVerdicts(value, run, prop, at) ==
    {Verdict(IF prop.fact.phase = "restoration" THEN prop.fact.after < prop.fact.before
             ELSE prop.fact.after = 0 /\ NotWorse(value, run, at), None)}

---------------------------------------------------------------------------
(* Metric guards (core/guards.py): improve one metric within a tolerance,   *)
(* and keep every required one at or below its threshold.                   *)

\* The methods of the instance that take an accept function of the caller.
Guarded == FirstOrder \cup {"armijo", "backtracking", "fixed search"}

Metric(value, residual, p) == [J |-> value[p], residual |-> residual[p]]

MetricGuard(guard, before, after) ==
    /\ IF guard.mode = "min" THEN after[guard.improve] <= before[guard.improve] + guard.tolerance
       ELSE after[guard.improve] >= before[guard.improve] - guard.tolerance
    /\ \A m \in DOMAIN guard.require : after[m] <= guard.require[m] + guard.tolerance

\* A guard replaces the accept function of the method; that of a line search
\* still refuses a search that gave up first.
GuardVerdicts(value, residual, run, prop, at) ==
    LET passes == MetricGuard(run.guard, Metric(value, residual, run.at), Metric(value, residual, at)) IN
    {Verdict(prop.fact /\ passes, None)}

\* The decisions the accept function of a method can return for trial point at
\* (the candidate after projection onto the bounds); size None: no opinion.
Verdicts(value, residual, run, prop, at) ==
    CASE run.guard # None -> GuardVerdicts(value, residual, run, prop, at)
      [] run.guard = None /\ run.method \in FirstOrder -> {Verdict(TRUE, None)}
      [] run.guard = None /\ run.method = "trust_region" -> RegionVerdicts(value, run, prop, at)
      [] run.guard = None /\ run.method = "projected_gradient" -> ProjectedVerdicts(value, run, prop, at)
      [] run.guard = None /\ run.method \in {"armijo", "backtracking", "fixed search"} ->
            SearchVerdicts(value, run, prop, at)
      [] OTHER -> {Verdict(NotWorse(value, run, at), None)}
=============================================================================
