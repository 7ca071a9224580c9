------------------------------- MODULE Engine -------------------------------
(***************************************************************************)
(* The chunk engine (core/engine.py run_chunk) with its stopping rules: a  *)
(* caller runs chunks of a method, each from fresh controls, from the      *)
(* state of the last result or from a warm start out of it.  One iteration *)
(* is one action per way it can go.  A keyboard interrupt leaves run_chunk *)
(* by exception, and since a chunk works on a copy of the state it is      *)
(* given, the caller is then where it was: such chunks leave no trace.     *)
(***************************************************************************)
EXTENDS Methods, FiniteSets

CONSTANTS
    Method,         \* the methods the caller uses
    Systems,        \* pairs of tables: the objective of each point, None if its
                    \* evaluation fails, and its constraint residual
    Budgets,        \* the values of maxiter
    MaxChunks,
    Guards,         \* the metric guards the caller may pass as accept function
    Target,         \* target_value
    Patience,       \* stall_patience
    Retries         \* failed_trial_retries

VARIABLES
    value, residual,    \* the system: objective and residual of each point
    run,                \* the state of the chunk in progress, or of the last result
    log                 \* the attempts of this chunk, in order
evars == <<value, residual, run, log>>

Init ==
    /\ \E system \in Systems : value = system.value /\ residual = system.residual
    /\ run = [phase |-> "idle"] /\ log = <<>>

---------------------------------------------------------------------------
(* Starting a chunk *)

First(schedule) ==
    CASE schedule = "warmup" -> - Horizon [] schedule = "adaptive" -> Clamped(0) [] OTHER -> 0

\* Methods with a default step size pass it to every chunk, continued or not.
Explicit == {"newton_cg", "proximal_gradient", "trust_region", "projected_gradient"}

\* The step size of a new chunk: explicit, else carried, else left to the method.
StartSize(method, schedule, from) ==
    IF method \in Explicit THEN 0
    ELSE IF from # None /\ from.size # None THEN from.size
    ELSE IF from = None /\ method \in FirstOrder THEN First(schedule) ELSE None

\* optimizer_name: the variants of a family share their memory.
Name(method) ==
    IF method \in {"momentum", "restart momentum", "nesterov"} THEN "momentum"
    ELSE IF method \in {"armijo", "backtracking", "fixed search"} THEN "line_search" ELSE method

\* The first stop of a chunk whose start already meets the target.
Reached(p) == value[p] <= Target

\* The best point a chunk starts with; a warm start has only its start.
BestIsStart(p, from, exact) == p
StartBest(p, from, exact) == IF exact THEN from.best ELSE p

Chunk(method, schedule, guard, p, from, exact, maxiter) ==
    LET same == from # None /\ Name(from.method) = Name(method) IN
    [phase |-> IF Reached(p) THEN "stopped" ELSE "loop",
     reason |-> IF Reached(p) THEN "target" ELSE None,
     method |-> method, schedule |-> schedule, guard |-> guard, maxiter |-> maxiter, at |-> p,
     best |-> StartBest(p, from, exact),
     iteration |-> 0, global |-> IF exact THEN from.global ELSE 0,
     size |-> StartSize(method, schedule, from),
     memory |-> IF same THEN from.memory ELSE NoMemory,
     failed |-> 0, stall |-> 0, bar |-> value[p],
     chunks |-> IF from = None THEN 1 ELSE from.chunks + 1,
     began |-> p,
     path |-> IF same THEN from.path ELSE <<>>,
     visited |-> IF exact THEN from.visited \cup {p} ELSE {p}]

\* run_chunk: from controls, state or warmstart; a start that fails to evaluate
\* raises.  A later run from controls knows nothing of this one: it is another
\* behaviour.
Start ==
    /\ \E source \in {"controls", "state", "warmstart"} :
        /\ IF source = "controls" THEN run.phase = "idle"
           ELSE run.phase = "stopped" /\ run.chunks < MaxChunks
        /\ \E method \in Method, maxiter \in Budgets,
              p \in (IF source = "controls" THEN Point ELSE {run.at}) :
            \E schedule \in (IF method \in FirstOrder THEN Schedules ELSE {"none"}),
               guard \in (IF method \in Guarded THEN {None} \cup Guards ELSE {None}) :
                LET q == Clip[p]
                    from == IF source = "controls" THEN None ELSE run IN
                /\ guard # None => schedule = "none"
                /\ value[q] # None
                /\ run' = Chunk(method, schedule, guard, q, from, source = "state", maxiter)
    /\ log' = <<>>
    /\ UNCHANGED <<value, residual>>

---------------------------------------------------------------------------
(* One iteration *)

Looping == run.phase = "loop" /\ run.iteration < run.maxiter

\* run_state after an attempt, before the stopping rules.
Charged == [run EXCEPT !.iteration = @ + 1, !.global = @ + 1]
Stopped(state, reason) == [state EXCEPT !.phase = "stopped", !.reason = reason]
Entry(kind, p) == [kind |-> kind, at |-> p]

\* The budget rule, before any work of the iteration.
Budget ==
    /\ run.phase = "loop" /\ run.iteration >= run.maxiter
    /\ run' = Stopped(run, "maxiter")
    /\ UNCHANGED <<value, residual, log>>

\* The gradient at the current point fails.
GradientFails ==
    /\ Looping
    /\ run' = Stopped(Charged, IF run.method = "proximal_gradient" THEN "smooth_gradient_failed"
                               ELSE "gradient_failed")
    /\ log' = Append(log, Entry("gradient", run.at))
    /\ UNCHANGED <<value, residual>>

\* The gradient is within gradient_tolerance: stop without charging an attempt.
Stationary ==
    /\ Looping /\ run.method \notin {"proximal_gradient", "projected_gradient"}
    /\ \E reason \in {"gradient_converged", "stationary_nonminimum"} : run' = Stopped(run, reason)
    /\ UNCHANGED <<value, residual, log>>

\* The step function raises.
StepRaises ==
    /\ Looping /\ CanRaise(run)
    /\ run' = Stopped(Charged, "proposal_failed")
    /\ log' = Append(log, Entry("raised", run.at))
    /\ UNCHANGED <<value, residual>>

\* The step size after a trial that failed: the reject branch, or the current
\* one shrunk when that is no smaller.
AfterFailure(prop) ==
    IF run.size # None /\ (prop.onReject = None \/ prop.onReject >= run.size) THEN run.size - 1
    ELSE IF prop.onReject # None THEN prop.onReject ELSE run.size

\* The trial point cannot be evaluated: the iteration counts, the reject branch
\* applies and the chunk goes on unless this happened Retries times in a row.
\* The rules on metrics are not looked at.
TrialFails ==
    /\ Looping
    /\ \E prop \in Proposals(value, residual, run) :
        /\ value[Clip[prop.to]] = None
        /\ LET next == [Charged EXCEPT !.failed = @ + 1, !.memory = prop.loss,
                                       !.size = AfterFailure(prop)] IN
           run' = IF next.failed >= Retries THEN Stopped(next, "nonfinite_trial") ELSE next
    /\ log' = Append(log, Entry("failed", run.at))
    /\ UNCHANGED <<value, residual>>

\* The bar follows every judged value, worse ones included.
RuledByLast(state, stop) ==
    LET better == value[state.at] < state.bar
        next == [state EXCEPT !.bar = value[state.at], !.stall = IF better THEN 0 ELSE @ + 1] IN
    IF Reached(state.at) THEN Stopped(state, "target")
    ELSE IF next.stall >= Patience THEN Stopped(next, "stall")
    ELSE IF stop # None THEN Stopped(next, stop) ELSE next

\* check_metrics, then the stop the proposal asks for.
Ruled(state, stop) ==
    LET better == value[state.at] < state.bar
        next == [state EXCEPT !.bar = IF better THEN value[state.at] ELSE @,
                              !.stall = IF better THEN 0 ELSE @ + 1] IN
    IF Reached(state.at) THEN Stopped(state, "target")
    ELSE IF next.stall >= Patience THEN Stopped(next, "stall")
    ELSE IF stop # None THEN Stopped(next, stop) ELSE next

\* The trial is evaluated and judged; the branch taken decides controls, best,
\* memory and step size.
Branch(prop, verdict, p) ==
    LET branch == IF verdict.accepted THEN prop.onAccept ELSE prop.onReject
        size == IF verdict.size # None THEN verdict.size ELSE IF branch # None THEN branch ELSE run.size
        next == [Charged EXCEPT !.failed = 0, !.size = size,
                                !.memory = IF verdict.accepted THEN prop.gain ELSE prop.loss] IN
    IF ~verdict.accepted THEN next
    ELSE [next EXCEPT !.at = p,
                      !.best = IF value[p] < value[run.best] THEN p ELSE @,
                      !.path = Append(@, run.at), !.visited = @ \cup {p}]

Judged ==
    /\ Looping
    /\ \E prop \in Proposals(value, residual, run) :
        LET p == Clip[prop.to] IN
        /\ value[p] # None
        /\ \E verdict \in Verdicts(value, residual, run, prop, p) :
            LET next == Branch(prop, verdict, p) IN
            /\ run' = Ruled(next, prop.stop)
            /\ log' = Append(log, Entry("judged", next.at))
    /\ UNCHANGED <<value, residual>>

Next ==
    \/ Start \/ Budget \/ GradientFails \/ Stationary \/ StepRaises \/ TrialFails \/ Judged

Spec == Init /\ [][Next]_evars

---------------------------------------------------------------------------
Active == run.phase # "idle"

\* Method memory describes the path the run took and nothing else: accumulators
\* hold the gradients of exactly the points left (of the latest of them after a
\* restart), conjugacy looks one point back, every curvature pair joins two
\* consecutive points up to the projection onto the bounds, and the accept count
\* is the number of moves.
Leads(a, b) == \E i \in 1..Len(run.path) :
                  run.path[i] = a /\ Append(run.path, run.at)[i + 1] = Clip[b]
MemoryFollowsPath ==
    Active =>
        LET trail == run.memory.trail IN
        /\ run.method \in {"adam", "adaptive"} => trail = run.path
        /\ Name(run.method) = "momentum" => IsSuffix(trail, run.path)
        /\ run.method = "nonlinear_cg" =>
              \/ trail = <<>>
              \/ Last(trail) = run.at \/ (run.path # <<>> /\ Last(trail) = Last(run.path))
        /\ run.method = "lbfgs" => \A i \in 1..Len(trail) : Leads(trail[i][1], trail[i][2])
        /\ run.method \in FirstOrder \cup {"nonlinear_cg", "lbfgs"} =>
              run.memory.accepts = Len(run.path)

\* What the stall rule compared: the start of the chunk, at position 0, and the
\* judged attempts of the log; the latest Patience of them, and those before.
Judgements == {0} \cup {i \in DOMAIN log : log[i].kind = "judged"}
JudgedValue(i) == value[IF i = 0 THEN run.began ELSE log[i].at]
Since(i) == {j \in Judgements : j > i}
Latest == {i \in Judgements : Cardinality(Since(i)) < Patience}
Earlier == Judgements \ Latest

\* A reported stop is what happened: the budget was spent, the target is met, the
\* last judged attempts did not improve on the earlier ones, the last trials all
\* failed, and a feasible optimum or a failed restoration is at such a point; and
\* no run goes on after Patience attempts without an improvement.
StopHonest ==
    Active =>
        /\ run.phase = "loop" /\ Earlier # {} =>
              \E i \in Latest : \A j \in Earlier : JudgedValue(i) < JudgedValue(j)
        /\ run.reason = "maxiter" => Len(log) = run.maxiter
        /\ run.reason = "target" => value[run.at] <= Target
        /\ run.reason = "stall" =>
              Earlier # {} /\ \A i \in Latest : \E j \in Earlier : JudgedValue(j) <= JudgedValue(i)
        /\ run.reason = "nonfinite_trial" =>
              Len(log) >= Retries /\ \A i \in (Len(log) - Retries + 1)..Len(log) : log[i].kind = "failed"
        /\ run.reason = "projected_kkt_converged" => residual[run.at] = 0
        /\ run.reason = "restoration_failed" => residual[run.at] > 0

\* The best point is the best one visited, over all chunks continued from the
\* same state (engine.py: "best-so-far is updated only from accepted finite
\* metrics").
BestOfVisited == Active => \A p \in run.visited : value[run.best] <= value[p]

\* What a guard requires holds once a chunk has moved, whatever failed or was
\* rejected since, and the guarded metric has lost at most the tolerance per move.
GuardHolds ==
    Active /\ run.guard # None /\ run.at # run.began =>
        LET before == Metric(value, residual, run.began) after == Metric(value, residual, run.at)
            drift == run.guard.tolerance * run.iteration IN
        /\ \A m \in DOMAIN run.guard.require : after[m] <= run.guard.require[m] + run.guard.tolerance
        /\ run.guard.mode = "min" => after[run.guard.improve] <= before[run.guard.improve] + drift
        /\ run.guard.mode = "max" => after[run.guard.improve] >= before[run.guard.improve] - drift
=============================================================================
