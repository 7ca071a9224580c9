----------------------------- MODULE EngineProofs -----------------------------
(***************************************************************************)
(* What a chunk of any method leaves is what its attempts were: the memory *)
(* of the method is of the path it took, the reason of a stop is what      *)
(* happened, the best point is the best one visited and a guard's demands  *)
(* hold - for every set of points and bounds, table of objectives, order   *)
(* of methods, budget, patience and guard.  And of the evaluators a chunk  *)
(* calls: every answer is about the candidate asked about, the stores hold *)
(* what was used last and the counters are the work of the hooks.          *)
(***************************************************************************)
EXTENDS Engine, FiniteSetTheorems, SequenceTheorems, TLAPS

\* Of the evaluators, an instance with names of its own.
CONSTANTS CacheSize, EvaluatorCandidates, EvaluatorSystems, MaxEvaluatorCalls
VARIABLES system, stores, count, asked, served, used, calls, last

V == INSTANCE Evaluator WITH
        Candidates <- EvaluatorCandidates, Systems <- EvaluatorSystems, MaxCalls <- MaxEvaluatorCalls

-----------------------------------------------------------------------------
(* The chunk engine                                                        *)

\* Methods by the kind of memory they keep.
Lines == {"armijo", "backtracking", "fixed search"}
Momenta == {"momentum", "restart momentum", "nesterov"}
Others == {"newton_cg", "proximal_gradient"}
Known ==
  FirstOrder \cup Lines \cup Others \cup {"nonlinear_cg", "lbfgs", "trust_region", "projected_gradient"}

Stops == {"proximal_mapping_converged", "restoration_failed", "projected_kkt_converged"}
Reasons ==
  Stops \cup {"maxiter", "target", "stall", "nonfinite_trial", "gradient_failed", "smooth_gradient_failed",
              "gradient_converged", "stationary_nonminimum", "proposal_failed"}

\* An objective is a number or None, a residual is not negative, a guard looks at one of the two
\* metrics there are with a tolerance that is not negative, and None is none of the values it
\* stands beside.
EngineSound ==
  /\ None \notin Int \cup Reasons
  /\ Method \subseteq Known /\ Budgets \subseteq Nat /\ History \in Nat
  /\ Patience \in Nat \ {0} /\ Retries \in Nat \ {0} /\ Target \in Int
  /\ \A s \in Systems : /\ s.value \in [Point -> Int \cup {None}]
                        /\ s.residual \in [Point -> Nat]
  /\ \A g \in Guards : g # None /\ g.tolerance \in Nat /\ g.improve \in {"J", "residual"}

\* The state of a chunk, and what its fields hold.
RunFields ==
  {"phase", "reason", "method", "schedule", "guard", "maxiter", "at", "best", "iteration", "global", "size",
   "memory", "failed", "stall", "bar", "chunks", "began", "path", "visited"}

Tables == value \in [Point -> Int \cup {None}] /\ residual \in [Point -> Nat]

Kinds == {"gradient", "raised", "failed", "judged"}
LogEntry == [kind : Kinds, at : Point]

Evaluated(S) == S \subseteq Point /\ \A p \in S : value[p] \in Int

Typed ==
  /\ DOMAIN run = RunFields
  /\ run.phase \in {"loop", "stopped"} /\ run.method \in Known /\ run.guard \in Guards \cup {None}
  /\ run.at \in Inside /\ run.at \in run.visited /\ run.best \in run.visited /\ run.began \in Inside
  /\ Evaluated(run.visited) /\ value[run.began] \in Int
  /\ run.maxiter \in Nat /\ run.iteration \in Nat /\ run.failed \in Nat /\ run.stall \in Nat
  /\ run.bar \in Int /\ run.path \in Seq(Point)
  /\ log \in Seq(LogEntry)
  /\ \A i \in DOMAIN log : log[i].kind = "judged" => value[log[i].at] \in Int

\* The bar is the value of the last improvement, which the stall count counts from.
Bars(m) ==
  /\ m \in Judgements /\ JudgedValue(m) = run.bar /\ Cardinality(Since(m)) = run.stall
  /\ \A j \in Judgements : run.bar <= JudgedValue(j)
  /\ \A j \in Judgements : j < m => run.bar < JudgedValue(j)

\* What was counted is what the log says, and a reason to stop is one the state shows.
Stopping ==
  /\ run.phase = "loop" => run.reason = None /\ run.iteration <= run.maxiter /\ run.stall < Patience
  /\ run.phase = "loop" \/ run.reason = "stall" => \E m \in Judgements : Bars(m)
  /\ run.reason = "stall" => run.stall >= Patience
  /\ run.iteration = Len(log) /\ run.failed <= Len(log)
  /\ run.phase = "loop" \/ run.reason = "nonfinite_trial" =>
       \A i \in (Len(log) - run.failed + 1)..Len(log) : log[i].kind = "failed"
  /\ run.reason = "nonfinite_trial" => run.failed >= Retries
  /\ run.reason = "maxiter" => run.iteration = run.maxiter
  /\ run.reason = "target" => value[run.at] <= Target
  /\ run.reason = "projected_kkt_converged" => residual[run.at] = 0
  /\ run.reason = "restoration_failed" => residual[run.at] > 0

\* The best point, as the chunk updates it.
Best == \A p \in run.visited : value[run.best] <= value[p]

\* What a guard requires of a point, and how far the guarded metric may have drifted from one
\* point to another in n attempts.
Required(guard, p) ==
  \A m \in DOMAIN guard.require : Metric(value, residual, p)[m] <= guard.require[m] + guard.tolerance
Drifted(guard, p, q, n) ==
  /\ guard.mode = "min" =>
       Metric(value, residual, q)[guard.improve] <= Metric(value, residual, p)[guard.improve] + guard.tolerance * n
  /\ guard.mode # "min" =>
       Metric(value, residual, q)[guard.improve] >= Metric(value, residual, p)[guard.improve] - guard.tolerance * n
Guarding ==
  run.guard # None =>
    /\ run.at # run.began => Required(run.guard, run.at)
    /\ Drifted(run.guard, run.began, run.at, run.iteration)
    /\ run.method \in Guarded

---------------------------------------------------------------------------
\* Projection ends inside the bounds and leaves the points there alone.
LEMMA Projected ==
  /\ Clip \in [Point -> Point] /\ Inside \subseteq Point
  /\ \A p \in Point : Clip[p] \in Inside
  /\ \A p \in Inside : Clip[p] = p
  BY ClipAssumption DEF Inside

\* What each step function proposes: a point, and a stop only where the method says so.
LEMMA ProposedBy ==
  /\ run.method = "adam" => Proposals(value, residual, run) = AdamSteps(run)
  /\ run.method = "adaptive" => Proposals(value, residual, run) = AdaptiveSteps(run)
  /\ run.method \in Momenta => Proposals(value, residual, run) = MomentumSteps(run)
  /\ run.method = "nonlinear_cg" => Proposals(value, residual, run) = ConjugateSteps(run)
  /\ run.method = "lbfgs" => Proposals(value, residual, run) = PairSteps(run)
  /\ run.method = "newton_cg" => Proposals(value, residual, run) = NewtonSteps(run)
  /\ run.method = "proximal_gradient" => Proposals(value, residual, run) = ProximalSteps(run)
  /\ run.method \in Lines => Proposals(value, residual, run) = SearchSteps(value, run)
  /\ run.method = "trust_region" => Proposals(value, residual, run) = RegionSteps(run)
  /\ run.method = "projected_gradient" => Proposals(value, residual, run) = ProjectedSteps(residual, run)
<1>1. run.method = "adam" => Proposals(value, residual, run) = AdamSteps(run)
  BY Zenon DEF Proposals
<1>2. run.method = "adaptive" => Proposals(value, residual, run) = AdaptiveSteps(run)
  BY Zenon DEF Proposals
<1>3. run.method \in Momenta => Proposals(value, residual, run) = MomentumSteps(run)
  BY Zenon DEF Proposals, Momenta
<1>4. run.method = "nonlinear_cg" => Proposals(value, residual, run) = ConjugateSteps(run)
  BY Zenon DEF Proposals
<1>5. run.method = "lbfgs" => Proposals(value, residual, run) = PairSteps(run)
  BY Zenon DEF Proposals
<1>6. run.method = "newton_cg" => Proposals(value, residual, run) = NewtonSteps(run)
  BY Zenon DEF Proposals
<1>7. run.method = "proximal_gradient" => Proposals(value, residual, run) = ProximalSteps(run)
  BY Zenon DEF Proposals
<1>8. run.method \in Lines => Proposals(value, residual, run) = SearchSteps(value, run)
  BY Zenon DEF Proposals, Lines
<1>9. run.method = "trust_region" => Proposals(value, residual, run) = RegionSteps(run)
  BY Zenon DEF Proposals
<1>10. run.method = "projected_gradient" => Proposals(value, residual, run) = ProjectedSteps(residual, run)
  BY Zenon DEF Proposals
<1> QED
  BY <1>1, <1>2, <1>3, <1>4, <1>5, <1>6, <1>7, <1>8, <1>9, <1>10

\* A proposal names a point; it asks to stop only at the current one.
Honest(prop) ==
  /\ prop.to \in Point /\ prop.stop \in Stops \cup {None}
  /\ prop.stop = "projected_kkt_converged" => prop.to = run.at /\ ~(residual[run.at] > 0)
  /\ prop.stop = "restoration_failed" => prop.to = run.at /\ residual[run.at] > 0

\* Restoration leads to points.
LEMMA RestoredPoints ==
  ASSUME Tables, NEW p \in Point
  PROVE  Restored(residual, p) \subseteq Point
  BY Projected DEF Restored

\* A proposal that asks for no stop may go anywhere.
LEMMA FreeHonest ==
  ASSUME None \notin Stops, NEW p \in Point, NEW up, NEW down, NEW gain, NEW loss, NEW fact
  PROVE  Honest(Proposal(p, up, down, gain, loss, None, fact))
  BY DEF Honest, Proposal, Stops

\* Every method proposes points, and a stop for restoration or optimality where the residual
\* justifies it.
LEMMA ProposalsHonest ==
  ASSUME EngineSound, Tables, Typed, NEW prop \in Proposals(value, residual, run)
  PROVE  Honest(prop)
<1>0. run.at \in Point /\ None \notin Stops /\ Inside \subseteq Point
  BY Projected DEF Typed, EngineSound, Reasons
<1>1. CASE run.method \in FirstOrder
  <2>1. PICK kept : prop \in Smoothed(run, kept)
    BY <1>1, ProposedBy DEF FirstOrder, Momenta, AdamSteps, AdaptiveSteps, MomentumSteps
  <2>2. PICK p \in Point : \E up, down, gain, loss : prop = Proposal(p, up, down, gain, loss, None, TRUE)
    BY <2>1, Zenon DEF Smoothed
  <2> QED
    BY <2>2, <1>0, FreeHonest, Zenon
<1>2. CASE run.method = "nonlinear_cg"
  <2>1. prop \in ConjugateSteps(run)
    BY <1>2, ProposedBy
  <2>2. PICK p \in Point, restarted \in BOOLEAN : prop = ConjugateStep(run, p, restarted)
    BY <2>1 DEF ConjugateSteps
  <2> QED
    BY <2>2, <1>0, FreeHonest, Zenon DEF ConjugateStep
<1>3. CASE run.method = "lbfgs"
  <2>1. prop \in PairSteps(run)
    BY <1>3, ProposedBy
  <2>2. PICK p \in Point : \E gained, lost : prop = PairStep(run, p, gained, lost)
    BY <2>1 DEF PairSteps
  <2> QED
    BY <2>2, <1>0, FreeHonest, Zenon DEF PairStep
<1>4. CASE run.method = "newton_cg"
  <2>1. prop \in NewtonSteps(run)
    BY <1>4, ProposedBy
  <2>2. PICK p \in Point : prop = Proposal(p, 0, StepSize(run) - 1, run.memory, run.memory, None, TRUE)
    BY <2>1 DEF NewtonSteps
  <2> QED
    BY <2>2, <1>0, FreeHonest, Zenon
<1>5. CASE run.method = "proximal_gradient"
  BY <1>5, <1>0, ProposedBy DEF ProximalSteps, Stops, Honest, Proposal
<1>6. CASE run.method \in Lines
  <2>1. prop \in SearchSteps(value, run)
    BY <1>6, ProposedBy
  <2> DEFINE base == Clamped(StepSize(run))
  <2>2. \/ \E size : prop = GivenUp(run, size)
        \/ \E p \in Point : \E size : prop = TakenStep(run, size, p)
    <3>1. CASE prop \in FixedSteps(run, base)
      BY <3>1 DEF FixedSteps
    <3>2. CASE prop \in BacktrackedSteps(value, run, base)
      BY <3>2 DEF BacktrackedSteps
    <3> QED
      BY <2>1, <3>1, <3>2 DEF SearchSteps
  <2> QED
    BY <2>2, <1>0, FreeHonest, Zenon DEF GivenUp, TakenStep
<1>7. CASE run.method = "trust_region"
  <2>1. prop \in RegionSteps(run)
    BY <1>7, ProposedBy
  <2>2. PICK p \in Point, predicted \in BOOLEAN, boundary \in BOOLEAN :
          prop = Proposal(p, StepSize(run), StepSize(run), run.memory, run.memory, None,
                          [predicted |-> predicted, boundary |-> boundary])
    BY <2>1 DEF RegionSteps
  <2>3. PICK up, down, gain, loss, fact : prop = Proposal(p, up, down, gain, loss, None, fact)
    BY <2>2, Zenon
  <2> QED
    BY <2>3, <1>0, FreeHonest, Zenon
<1>8. CASE run.method = "projected_gradient"
  <2>1. prop \in ProjectedSteps(residual, run)
    BY <1>8, ProposedBy
  <2>2. \A q \in Point : Restored(residual, q) \subseteq Point
    BY RestoredPoints
  <2>3. CASE residual[run.at] > 0
    BY <2>1, <2>2, <2>3, <1>0 DEF ProjectedSteps, Stops, Honest, Proposal
  <2>4. CASE ~(residual[run.at] > 0)
    BY <2>1, <2>2, <2>4, <1>0 DEF ProjectedSteps, Stops, Honest, Proposal
  <2> QED
    BY <2>3, <2>4
<1> QED
  BY <1>1, <1>2, <1>3, <1>4, <1>5, <1>6, <1>7, <1>8 DEF Typed, Known, Others

---------------------------------------------------------------------------
(* One attempt *)

\* The fields of a state that has taken a branch.
LEMMA Attempted ==
  ASSUME Typed, NEW prop, NEW verdict, NEW p, NEW t, t = Branch(prop, verdict, p)
  PROVE  /\ DOMAIN t = RunFields
         /\ t.phase = run.phase /\ t.reason = run.reason /\ t.method = run.method /\ t.guard = run.guard
         /\ t.maxiter = run.maxiter /\ t.began = run.began /\ t.stall = run.stall /\ t.bar = run.bar
         /\ t.iteration = run.iteration + 1 /\ t.failed = 0
         /\ verdict.accepted =>
              /\ t.at = p /\ t.path = Append(run.path, run.at) /\ t.visited = run.visited \cup {p}
              /\ t.best = IF value[p] < value[run.best] THEN p ELSE run.best
              /\ t.memory = prop.gain
         /\ ~verdict.accepted =>
              /\ t.at = run.at /\ t.path = run.path /\ t.visited = run.visited /\ t.best = run.best
              /\ t.memory = prop.loss
<1> DEFINE size == IF verdict.size # None THEN verdict.size
                   ELSE IF (IF verdict.accepted THEN prop.onAccept ELSE prop.onReject) # None
                   THEN (IF verdict.accepted THEN prop.onAccept ELSE prop.onReject) ELSE run.size
           memory == IF verdict.accepted THEN prop.gain ELSE prop.loss
           base == [Charged EXCEPT !.failed = 0, !.size = size, !.memory = memory]
<1>0. DOMAIN run = RunFields
  BY DEF Typed
<1>1. PICK b : b = base
  OBVIOUS
<1>2. /\ DOMAIN b = RunFields
      /\ b.phase = run.phase /\ b.reason = run.reason /\ b.method = run.method /\ b.guard = run.guard
      /\ b.maxiter = run.maxiter /\ b.began = run.began /\ b.stall = run.stall /\ b.bar = run.bar
      /\ b.iteration = run.iteration + 1 /\ b.failed = 0 /\ b.memory = memory
      /\ b.at = run.at /\ b.path = run.path /\ b.visited = run.visited /\ b.best = run.best
  BY <1>0, <1>1 DEF Charged, RunFields
<1>3. t = IF ~verdict.accepted THEN b
          ELSE [b EXCEPT !.at = p, !.best = IF value[p] < value[run.best] THEN p ELSE @,
                         !.path = Append(@, run.at), !.visited = @ \cup {p}]
  BY <1>1 DEF Branch
<1>4. CASE ~verdict.accepted
  BY <1>2, <1>3, <1>4
<1>5. CASE verdict.accepted
  <2>1. t = [b EXCEPT !.at = p, !.best = IF value[p] < value[run.best] THEN p ELSE @,
                      !.path = Append(@, run.at), !.visited = @ \cup {p}]
    BY <1>3, <1>5
  <2> QED
    BY <1>2, <1>5, <2>1 DEF RunFields
<1> QED
  BY <1>4, <1>5

\* Judging counts improvements, or stops; it moves nothing.
LEMMA RuledFields ==
  ASSUME NEW state, DOMAIN state = RunFields, NEW stop, NEW t, t = Ruled(state, stop)
  PROVE  /\ DOMAIN t = RunFields
         /\ t.method = state.method /\ t.guard = state.guard
         /\ t.maxiter = state.maxiter /\ t.began = state.began
         /\ t.iteration = state.iteration /\ t.failed = state.failed
         /\ t.at = state.at /\ t.path = state.path /\ t.visited = state.visited /\ t.best = state.best
         /\ t.memory = state.memory
         /\ \/ t.phase = "stopped" /\ t.reason = "target" /\ value[state.at] <= Target
               /\ t.bar = state.bar /\ t.stall = state.stall
            \/ /\ t.bar = IF value[state.at] < state.bar THEN value[state.at] ELSE state.bar
               /\ t.stall = IF value[state.at] < state.bar THEN 0 ELSE state.stall + 1
               /\ \/ t.phase = "stopped" /\ t.reason = "stall" /\ t.stall >= Patience
                  \/ t.phase = "stopped" /\ t.reason = stop /\ stop # None
                  \/ t.phase = state.phase /\ t.reason = state.reason /\ ~(t.stall >= Patience)
<1> DEFINE next == [state EXCEPT !.bar = IF value[state.at] < state.bar THEN value[state.at] ELSE @,
                                 !.stall = IF value[state.at] < state.bar THEN 0 ELSE @ + 1]
<1>1. PICK n : n = next
  OBVIOUS
<1>2. /\ DOMAIN n = RunFields
      /\ n.phase = state.phase /\ n.reason = state.reason
      /\ n.method = state.method /\ n.guard = state.guard
      /\ n.maxiter = state.maxiter /\ n.began = state.began
      /\ n.iteration = state.iteration /\ n.failed = state.failed
      /\ n.at = state.at /\ n.path = state.path /\ n.visited = state.visited /\ n.best = state.best
      /\ n.memory = state.memory
      /\ n.bar = IF value[state.at] < state.bar THEN value[state.at] ELSE state.bar
      /\ n.stall = IF value[state.at] < state.bar THEN 0 ELSE state.stall + 1
  BY <1>1 DEF RunFields
<1>3. t = IF value[state.at] <= Target THEN Stopped(state, "target")
          ELSE IF n.stall >= Patience THEN Stopped(n, "stall")
          ELSE IF stop # None THEN Stopped(n, stop) ELSE n
  BY <1>1 DEF Ruled, Reached
<1>4. CASE value[state.at] <= Target
  BY <1>3, <1>4 DEF Stopped, RunFields
<1>5. CASE ~(value[state.at] <= Target) /\ n.stall >= Patience
  <2>1. t = Stopped(n, "stall")
    BY <1>3, <1>5
  <2> QED
    BY <2>1, <1>2, <1>5 DEF Stopped, RunFields
<1>6. CASE ~(value[state.at] <= Target) /\ ~(n.stall >= Patience) /\ stop # None
  <2>1. t = Stopped(n, stop)
    BY <1>3, <1>6
  <2> QED
    BY <2>1, <1>2, <1>6 DEF Stopped, RunFields
<1>7. CASE ~(value[state.at] <= Target) /\ ~(n.stall >= Patience) /\ stop = None
  BY <1>2, <1>3, <1>7
<1> QED
  BY <1>4, <1>5, <1>6, <1>7

---------------------------------------------------------------------------
(* The attempts the stall rule compared *)

\* The judgements are finitely many, and the start is one.
LEMMA JudgementsFinite ==
  ASSUME log \in Seq(LogEntry)
  PROVE  /\ Judgements \subseteq 0..Len(log) /\ IsFiniteSet(Judgements) /\ 0 \in Judgements
         /\ \A i : IsFiniteSet(Since(i)) /\ Cardinality(Since(i)) \in Nat
<1>1. Judgements \subseteq 0..Len(log) /\ Len(log) \in Nat /\ 0 \in Judgements
  BY DEF Judgements
<1>2. IsFiniteSet(0..Len(log))
  BY <1>1, FS_Interval
<1>3. IsFiniteSet(Judgements)
  BY <1>1, <1>2, FS_Subset
<1>4. \A i : Since(i) \subseteq Judgements
  BY DEF Since
<1> QED
  BY <1>1, <1>3, <1>4, FS_Subset, FS_CardinalityType

\* An attempt that was not judged leaves the comparison alone.
LEMMA Unjudged ==
  ASSUME Typed, NEW e \in LogEntry, e.kind # "judged",
         log' = Append(log, e), value' = value, run'.began = run.began
  PROVE  /\ Judgements' = Judgements
         /\ \A i \in Judgements : JudgedValue(i)' = JudgedValue(i)
         /\ \A i : Since(i)' = Since(i)
<1>0. log \in Seq(LogEntry)
  BY DEF Typed
<1>1. /\ DOMAIN log' = 1..(Len(log) + 1) /\ DOMAIN log = 1..Len(log) /\ Len(log) \in Nat
      /\ \A i \in 1..Len(log) : log'[i] = log[i]
      /\ log'[Len(log) + 1] = e
  BY <1>0
<1>2. Judgements' = Judgements
  BY <1>1 DEF Judgements
<1>3. ASSUME NEW i \in Judgements PROVE JudgedValue(i)' = JudgedValue(i)
  BY <1>1 DEF Judgements, JudgedValue
<1> QED
  BY <1>2, <1>3 DEF Since

\* A judged one is the last of the comparison.
LEMMA JudgedLast ==
  ASSUME Typed, NEW e \in LogEntry, e.kind = "judged",
         log' = Append(log, e), value' = value, run'.began = run.began,
         NEW n, n = Len(log) + 1
  PROVE  /\ Judgements' = Judgements \cup {n}
         /\ \A i \in Judgements : i < n
         /\ \A i \in Judgements : JudgedValue(i)' = JudgedValue(i)
         /\ JudgedValue(n)' = value[e.at]
         /\ \A i \in Judgements : Since(i)' = Since(i) \cup {n} /\ n \notin Since(i)
         /\ Since(n)' = {}
<1>0. log \in Seq(LogEntry)
  BY DEF Typed
<1>1. /\ DOMAIN log' = 1..(Len(log) + 1) /\ DOMAIN log = 1..Len(log) /\ Len(log) \in Nat
      /\ \A i \in 1..Len(log) : log'[i] = log[i]
      /\ log'[Len(log) + 1] = e
  BY <1>0
<1>2. Judgements' = Judgements \cup {n}
  BY <1>1 DEF Judgements
<1>3. ASSUME NEW i \in Judgements PROVE JudgedValue(i)' = JudgedValue(i)
  BY <1>1 DEF Judgements, JudgedValue
<1>4. JudgedValue(n)' = value[e.at]
  BY <1>1 DEF JudgedValue
<1>5. n \in Nat /\ \A i \in Judgements : i \in Nat /\ i < n
  BY <1>0, <1>1, JudgementsFinite
<1>6. \A i \in Judgements : Since(i)' = Since(i) \cup {n} /\ n \notin Since(i)
  BY <1>1, <1>2, <1>5 DEF Since
<1>7. Since(n)' = {}
  BY <1>1, <1>2, <1>5 DEF Since
<1> QED
  BY <1>1, <1>2, <1>3, <1>4, <1>5, <1>6, <1>7

\* The bar after one more judged value.
LEMMA BarsFollow ==
  ASSUME Typed, NEW e \in LogEntry, e.kind = "judged", value[e.at] \in Int,
         log' = Append(log, e), value' = value, run'.began = run.began,
         NEW m, Bars(m),
         run'.bar = IF value[e.at] < run.bar THEN value[e.at] ELSE run.bar,
         run'.stall = IF value[e.at] < run.bar THEN 0 ELSE run.stall + 1
  PROVE  \E n \in Judgements' : Bars(n)'
<1>0. log \in Seq(LogEntry) /\ run.bar \in Int
  BY DEF Typed
<1>l. PICK l : l = Len(log) + 1
  OBVIOUS
<1>1. /\ Judgements' = Judgements \cup {l}
      /\ \A i \in Judgements : i < l
      /\ \A i \in Judgements : JudgedValue(i)' = JudgedValue(i)
      /\ JudgedValue(l)' = value[e.at]
      /\ \A i \in Judgements : Since(i)' = Since(i) \cup {l} /\ l \notin Since(i)
      /\ Since(l)' = {}
  BY <1>l, JudgedLast
<1>2. Judgements \subseteq 0..Len(log) /\ Len(log) \in Nat /\ l \in Nat
  BY <1>0, <1>l, JudgementsFinite
<1>3. ASSUME NEW i \in Judgements PROVE JudgedValue(i) \in Int
  BY <1>0, <1>3 DEF Typed, Judgements, JudgedValue
<1>4. CASE value[e.at] < run.bar
  <2>1. run'.bar = value[e.at] /\ run'.stall = 0
    BY <1>4
  <2>2. Cardinality(Since(l)') = 0
    BY <1>1, FS_EmptySet
  <2>3. \A j \in Judgements : run.bar <= JudgedValue(j)
    BY DEF Bars
  <2>4. \A j \in Judgements : run'.bar < JudgedValue(j)'
    BY <1>0, <1>1, <1>3, <1>4, <2>1, <2>3
  <2>5. \A j \in Judgements' : run'.bar <= JudgedValue(j)'
    BY <1>0, <1>1, <1>3, <2>1, <2>4 DEF Typed
  <2>6. \A j \in Judgements' : j < l => run'.bar < JudgedValue(j)'
    BY <1>1, <1>2, <2>4
  <2>7. l \in Judgements' /\ JudgedValue(l)' = run'.bar
    BY <1>1, <2>1
  <2>8. Bars(l)'
    BY <2>1, <2>2, <2>5, <2>6, <2>7 DEF Bars
  <2> QED
    BY <2>7, <2>8
<1>5. CASE ~(value[e.at] < run.bar)
  <2>1. run'.bar = run.bar /\ run'.stall = run.stall + 1 /\ run.bar <= value[e.at]
    BY <1>0, <1>5
  <2>2. m \in Judgements /\ JudgedValue(m) = run.bar /\ Cardinality(Since(m)) = run.stall
    BY DEF Bars
  <2>3. Cardinality(Since(m)') = run.stall + 1
    <3>1. Since(m)' = Since(m) \cup {l} /\ l \notin Since(m)
      BY <1>1, <2>2
    <3>2. IsFiniteSet(Since(m))
      BY <1>0, JudgementsFinite
    <3>3. Cardinality(Since(m) \cup {l}) = Cardinality(Since(m)) + 1
      BY <3>1, <3>2, FS_AddElement
    <3> QED
      BY <2>2, <3>1, <3>3
  <2>4. m < l /\ m \in Judgements'
    BY <1>1, <2>2
  <2>5. \A j \in Judgements' : run'.bar <= JudgedValue(j)'
    BY <1>1, <2>1 DEF Bars
  <2>6. \A j \in Judgements' : j < m => run'.bar < JudgedValue(j)'
    BY <1>1, <1>2, <2>1, <2>2, <2>4 DEF Bars
  <2>7. JudgedValue(m)' = run'.bar
    BY <1>1, <2>1, <2>2
  <2>8. Bars(m)'
    BY <2>1, <2>3, <2>4, <2>5, <2>6, <2>7 DEF Bars
  <2> QED
    BY <2>4, <2>8
<1> QED
  BY <1>4, <1>5

\* A bar that many judged attempts did not lower is a stall, and one that few did is none.
LEMMA BarsTell ==
  ASSUME EngineSound, Typed, NEW m, Bars(m)
  PROVE  /\ run.stall < Patience =>
              (Earlier # {} => \E i \in Latest : \A j \in Earlier : JudgedValue(i) < JudgedValue(j))
         /\ run.stall >= Patience =>
              Earlier # {} /\ \A i \in Latest : \E j \in Earlier : JudgedValue(j) <= JudgedValue(i)
<1>0. log \in Seq(LogEntry) /\ Patience \in Nat /\ run.bar \in Int
  BY DEF Typed, EngineSound
<1>1. m \in Judgements /\ JudgedValue(m) = run.bar /\ Cardinality(Since(m)) = run.stall
  BY DEF Bars
<1>2. /\ Judgements \subseteq 0..Len(log) /\ Len(log) \in Nat
      /\ \A i : IsFiniteSet(Since(i)) /\ Cardinality(Since(i)) \in Nat
  BY <1>0, JudgementsFinite
<1>3. CASE run.stall < Patience
  <2>1. m \in Latest
    BY <1>1, <1>3 DEF Latest
  <2>2. ASSUME NEW j \in Earlier PROVE run.bar < JudgedValue(j)
    <3>1. j \in Judgements /\ ~(Cardinality(Since(j)) < Patience)
      BY DEF Earlier, Latest
    <3>2. CASE j < m
      BY <3>1, <3>2 DEF Bars
    <3>3. CASE ~(j < m)
      <4>0. \A i \in Judgements : i \in Nat
        BY <1>2
      <4>1. Since(j) \subseteq Since(m)
        BY <1>1, <4>0, <3>1, <3>3 DEF Since
      <4>2. Cardinality(Since(j)) <= Cardinality(Since(m))
        BY <1>2, <4>1, FS_Subset
      <4> QED
        BY <1>0, <1>1, <1>2, <1>3, <3>1, <4>2
    <3> QED
      BY <3>2, <3>3
  <2> QED
    BY <1>0, <1>1, <1>3, <2>1, <2>2 DEF Typed
<1>4. CASE run.stall >= Patience
  <2>1. m \in Earlier
    BY <1>0, <1>1, <1>2, <1>4 DEF Earlier, Latest
  <2>2. \A i \in Latest : JudgedValue(m) <= JudgedValue(i)
    BY <1>1 DEF Latest, Bars
  <2> QED
    BY <1>0, <1>1, <1>2, <1>4, <2>1, <2>2
<1> QED
  BY <1>3, <1>4

---------------------------------------------------------------------------
(* Method memory *)

Tracked == FirstOrder \cup {"nonlinear_cg", "lbfgs"}

\* The trail is the end of the path.
Ends(s, t) == Len(s) <= Len(t) /\ \A i \in 1..Len(s) : s[i] = t[Len(t) - Len(s) + i]

\* A step of a path that goes on to a point, up to the projection.
LeadsAlong(path, at, a, b) ==
  \E i \in 1..Len(path) : path[i] = a /\ Append(path, at)[i + 1] = Clip[b]

\* What a method remembers of a path that ends at a point.
Recalls(method, trail, path, at) ==
  /\ method # "lbfgs" => trail \in Seq(Point)
  /\ method \in {"adam", "adaptive"} => trail = path
  /\ method \in Momenta => Ends(trail, path)
  /\ method = "nonlinear_cg" =>
       \/ trail = <<>> \/ Last(trail) = at \/ (path # <<>> /\ Last(trail) = Last(path))
  /\ method = "lbfgs" =>
       /\ trail \in Seq(Point \X Point)
       /\ \A i \in 1..Len(trail) : LeadsAlong(path, at, trail[i][1], trail[i][2])

\* A memory of so many moves and of this trail.
Kept(memory, accepted, trail) ==
  DOMAIN memory = {"accepts", "trail"} /\ memory.accepts = accepted /\ memory.trail = trail

Remembers ==
  run.method \in Tracked =>
    \E trail : Kept(run.memory, Len(run.path), trail) /\ Recalls(run.method, trail, run.path, run.at)

\* What accepting and rejecting write.
LEMMA WrittenMemory ==
  ASSUME NEW memory, NEW accepted \in Nat, NEW old, Kept(memory, accepted, old), NEW trail
  PROVE  Kept(Accepting(memory, trail), accepted + 1, trail) /\ Kept(Rejecting(memory, trail), accepted, trail)
  BY DEF Accepting, Rejecting, Kept

\* What the step functions would have a method remember.
LEMMA Remembered ==
  ASSUME NEW prop \in Proposals(value, residual, run)
  PROVE  /\ run.method \in FirstOrder =>
              /\ prop.gain = Accepting(run.memory, Append(run.memory.trail, run.at))
              /\ \/ prop.loss = Rejecting(run.memory, run.memory.trail)
                 \/ (run.method \in Momenta /\ prop.loss = Rejecting(run.memory, <<>>))
         /\ run.method = "nonlinear_cg" =>
              /\ \E t \in {<<>>, run.memory.trail} : prop.gain = Accepting(run.memory, Append(t, run.at))
              /\ prop.loss = Rejecting(run.memory, <<run.at>>)
         /\ run.method = "lbfgs" =>
              /\ \/ prop.gain = Accepting(run.memory, run.memory.trail)
                 \/ prop.gain = Accepting(run.memory, Paired(run, prop.to))
              /\ prop.loss = Rejecting(run.memory, run.memory.trail)
<1>1. ASSUME run.method \in FirstOrder
      PROVE  /\ prop.gain = Accepting(run.memory, Append(run.memory.trail, run.at))
             /\ \/ prop.loss = Rejecting(run.memory, run.memory.trail)
                \/ (run.method \in Momenta /\ prop.loss = Rejecting(run.memory, <<>>))
  <2>1. PICK kept : /\ prop \in Smoothed(run, kept)
                    /\ (kept = run.memory.trail \/ (run.method \in Momenta /\ kept = <<>>))
    <3>1. CASE run.method \in {"adam", "adaptive"}
      BY <3>1, ProposedBy DEF AdamSteps, AdaptiveSteps
    <3>2. CASE run.method \in Momenta
      <4>1. PICK kept : kept = IF run.method = "restart momentum" THEN <<>> ELSE run.memory.trail
        OBVIOUS
      <4>2. prop \in Smoothed(run, kept)
        BY <3>2, <4>1, ProposedBy DEF MomentumSteps
      <4> QED
        BY <3>2, <4>1, <4>2
    <3> QED
      BY <1>1, <3>1, <3>2 DEF FirstOrder, Momenta
  <2>2. PICK up, down, p :
          prop = Proposal(p, up, down, Accepting(run.memory, Append(run.memory.trail, run.at)),
                          Rejecting(run.memory, kept), None, TRUE)
    BY <2>1, Zenon DEF Smoothed
  <2>3. /\ prop.gain = Accepting(run.memory, Append(run.memory.trail, run.at))
        /\ prop.loss = Rejecting(run.memory, kept)
    BY <2>2, Zenon DEF Proposal
  <2> QED
    BY <2>1, <2>3
<1>2. ASSUME run.method = "nonlinear_cg"
      PROVE  /\ \E t \in {<<>>, run.memory.trail} : prop.gain = Accepting(run.memory, Append(t, run.at))
             /\ prop.loss = Rejecting(run.memory, <<run.at>>)
  <2>1. prop \in ConjugateSteps(run)
    BY <1>2, ProposedBy
  <2>2. PICK p \in Point, restarted \in BOOLEAN : prop = ConjugateStep(run, p, restarted)
    BY <2>1 DEF ConjugateSteps
  <2>3. PICK t : t = IF restarted THEN <<>> ELSE run.memory.trail
    OBVIOUS
  <2>4. /\ prop.gain = Accepting(run.memory, Append(t, run.at))
        /\ prop.loss = Rejecting(run.memory, <<run.at>>)
    BY <2>2, <2>3, Zenon DEF ConjugateStep, Proposal
  <2> QED
    BY <2>3, <2>4, Zenon
<1>3. ASSUME run.method = "lbfgs"
      PROVE  /\ \/ prop.gain = Accepting(run.memory, run.memory.trail)
                \/ prop.gain = Accepting(run.memory, Paired(run, prop.to))
             /\ prop.loss = Rejecting(run.memory, run.memory.trail)
  <2>1. prop \in PairSteps(run)
    BY <1>3, ProposedBy
  <2>2. PICK p, gained : /\ prop = PairStep(run, p, gained, run.memory.trail)
                         /\ (gained = run.memory.trail \/ gained = Paired(run, p))
    BY <2>1 DEF PairSteps
  <2>3. prop.to = p /\ prop.gain = Accepting(run.memory, gained)
        /\ prop.loss = Rejecting(run.memory, run.memory.trail)
    BY <2>2, Zenon DEF PairStep, Proposal
  <2> QED
    BY <2>2, <2>3
<1> QED
  BY <1>1, <1>2, <1>3

\* A trail that is the end of the path stays so when both advance.
LEMMA EndsGrow ==
  ASSUME NEW S, NEW s \in Seq(S), NEW t \in Seq(S), Ends(s, t), NEW x \in S
  PROVE  Ends(Append(s, x), Append(t, x))
<1>1. /\ Len(Append(s, x)) = Len(s) + 1 /\ Len(Append(t, x)) = Len(t) + 1
      /\ Len(s) \in Nat /\ Len(t) \in Nat /\ Len(s) <= Len(t)
  BY DEF Ends
<1>2. ASSUME NEW i \in 1..(Len(s) + 1)
      PROVE  Append(s, x)[i] = Append(t, x)[Len(t) - Len(s) + i]
  <2>1. CASE i = Len(s) + 1
    BY <1>1, <2>1
  <2>2. CASE i # Len(s) + 1
    <3>1. i \in 1..Len(s) /\ Len(t) - Len(s) + i \in 1..Len(t)
      BY <1>1, <2>2
    <3> QED
      BY <3>1 DEF Ends
  <2> QED
    BY <2>1, <2>2
<1>3. PICK n : n = Len(t) - Len(s)
  OBVIOUS
<1>4. Len(Append(t, x)) - Len(Append(s, x)) = n
  BY <1>1, <1>3
<1>5. \A i \in 1..Len(Append(s, x)) : Append(s, x)[i] = Append(t, x)[n + i]
  BY <1>1, <1>2, <1>3
<1>6. Len(Append(s, x)) <= Len(Append(t, x))
  BY <1>1
<1> QED
  BY <1>4, <1>5, <1>6, Zenon DEF Ends

\* A pair that led along the path leads along the longer one, and so does the newest.
LEMMA LeadsOn ==
  ASSUME NEW path \in Seq(Point), NEW at \in Point, NEW p, NEW q, q = Clip[p],
         NEW longer, longer = Append(path, at)
  PROVE  /\ LeadsAlong(longer, q, at, p)
         /\ \A b, c : LeadsAlong(path, at, b, c) => LeadsAlong(longer, q, b, c)
<1>1. PICK new : new = Append(longer, q)
  OBVIOUS
<1>2. PICK n : n = Len(path)
  OBVIOUS
<1>3. /\ n \in Nat /\ Len(longer) = n + 1 /\ Len(new) = n + 2
      /\ \A i \in 1..n : longer[i] = path[i]
      /\ longer[n + 1] = at
      /\ \A i \in 1..(n + 1) : new[i] = longer[i]
      /\ new[n + 2] = q
  BY <1>1, <1>2
<1>4. LeadsAlong(longer, q, at, p)
  <2>1. n + 1 \in 1..Len(longer) /\ longer[n + 1] = at /\ new[n + 1 + 1] = Clip[p]
    BY <1>3
  <2> QED
    BY <1>1, <2>1, Zenon DEF LeadsAlong
<1>5. ASSUME NEW b, NEW c, LeadsAlong(path, at, b, c) PROVE LeadsAlong(longer, q, b, c)
  <2>1. PICK i \in 1..Len(path) : path[i] = b /\ longer[i + 1] = Clip[c]
    BY <1>5 DEF LeadsAlong
  <2>2. i \in 1..Len(longer) /\ longer[i] = b /\ new[i + 1] = Clip[c]
    BY <1>2, <1>3, <2>1
  <2> QED
    BY <1>1, <2>2, Zenon DEF LeadsAlong
<1> QED
  BY <1>4, <1>5

\* The history of pairs keeps some of them.
LEMMA TrimmedPairs ==
  ASSUME History \in Nat, NEW S, NEW s \in Seq(S)
  PROVE  /\ Trimmed(s) \in Seq(S)
         /\ \A i \in 1..Len(Trimmed(s)) : \E j \in 1..Len(s) : Trimmed(s)[i] = s[j]
<1>1. CASE Len(s) <= History
  BY <1>1 DEF Trimmed
<1>2. CASE ~(Len(s) <= History)
  <2>1. Trimmed(s) = SubSeq(s, Len(s) - History + 1, Len(s))
    BY <1>2 DEF Trimmed
  <2>2. Len(s) \in Nat /\ Len(s) - History + 1 \in 1..(Len(s) + 1) /\ Len(s) \in Nat
    BY <1>2
  <2>3. /\ Trimmed(s) \in Seq(S) /\ Len(Trimmed(s)) = History
        /\ \A i \in 1..History : Trimmed(s)[i] = s[Len(s) - History + i]
    BY <1>2, <2>1, <2>2
  <2>4. ASSUME NEW i \in 1..History PROVE Len(s) - History + i \in 1..Len(s)
    BY <1>2, <2>2
  <2> QED
    BY <2>3, <2>4
<1> QED
  BY <1>1, <1>2

\* An attempt that is taken moves to the candidate with the memory gained.
LEMMA GainRecalled ==
  ASSUME EngineSound, Tables, Typed, Remembers, run.method \in Tracked,
         NEW prop \in Proposals(value, residual, run), NEW longer, longer = Append(run.path, run.at),
         NEW q, q = Clip[prop.to]
  PROVE  \E trail : Kept(prop.gain, Len(longer), trail) /\ Recalls(run.method, trail, longer, q)
<1>1. PICK old : Kept(run.memory, Len(run.path), old) /\ Recalls(run.method, old, run.path, run.at)
  BY DEF Remembers
<1>2. /\ run.path \in Seq(Point) /\ run.at \in Point /\ Len(run.path) \in Nat
      /\ longer \in Seq(Point) /\ Len(longer) = Len(run.path) + 1
  BY Projected DEF Typed
<1>3. old = run.memory.trail
  BY <1>1 DEF Kept
<1>4. ASSUME NEW new, prop.gain = Accepting(run.memory, new) PROVE Kept(prop.gain, Len(longer), new)
  BY <1>1, <1>2, <1>4, WrittenMemory
<1>5. CASE run.method \in FirstOrder
  <2>1. PICK new : new = Append(old, run.at)
    OBVIOUS
  <2>2. Kept(prop.gain, Len(longer), new)
    BY <1>3, <1>4, <1>5, <2>1, Remembered
  <2>3. old \in Seq(Point) /\ new \in Seq(Point)
    <3>1. old \in Seq(Point)
      BY <1>1, <1>5 DEF Recalls, FirstOrder
    <3> QED
      BY <1>2, <2>1, <3>1
  <2>4. run.method \in {"adam", "adaptive"} => new = longer
    BY <1>1, <2>1 DEF Recalls
  <2>5. run.method \in Momenta => Ends(new, longer)
    BY <1>1, <1>2, <2>1, <2>3, EndsGrow DEF Recalls
  <2> QED
    BY <1>5, <2>2, <2>3, <2>4, <2>5 DEF Recalls, FirstOrder
<1>6. CASE run.method = "nonlinear_cg"
  <2>1. PICK t \in {<<>>, old} : prop.gain = Accepting(run.memory, Append(t, run.at))
    BY <1>3, <1>6, Remembered
  <2>2. t \in Seq(Point)
    BY <1>1, <1>6, <2>1, EmptySeq DEF Recalls
  <2>3. PICK new : new = Append(t, run.at)
    OBVIOUS
  <2>4. Kept(prop.gain, Len(longer), new)
    BY <1>4, <2>1, <2>3
  <2>5. new \in Seq(Point) /\ Last(new) = run.at /\ longer # <<>> /\ Last(longer) = run.at
    BY <1>2, <2>2, <2>3 DEF Last
  <2> QED
    BY <1>6, <2>4, <2>5 DEF Recalls, Momenta
<1>7. CASE run.method = "lbfgs"
  <2>1. /\ old \in Seq(Point \X Point)
        /\ \A i \in 1..Len(old) : LeadsAlong(run.path, run.at, old[i][1], old[i][2])
    BY <1>1, <1>7 DEF Recalls
  <2>2. PICK p : p = prop.to
    OBVIOUS
  <2>3. p \in Point
    BY <2>2, ProposalsHonest DEF Honest
  <2>4. PICK a : a = run.at
    OBVIOUS
  <2>5. /\ LeadsAlong(longer, q, a, p)
        /\ \A b, c : LeadsAlong(run.path, a, b, c) => LeadsAlong(longer, q, b, c)
    <3>1. PICK path : path = run.path
      OBVIOUS
    <3>2. path \in Seq(Point) /\ a \in Point /\ q = Clip[p] /\ longer = Append(path, a)
      BY <1>2, <2>2, <2>4, <3>1
    <3>3. /\ LeadsAlong(longer, q, a, p)
          /\ \A b, c : LeadsAlong(path, a, b, c) => LeadsAlong(longer, q, b, c)
      BY <3>2, LeadsOn
    <3> QED
      BY <3>1, <3>3
  <2>6. PICK pair : pair = <<a, p>>
    OBVIOUS
  <2>7. PICK Pairs : Pairs = Point \X Point
    OBVIOUS
  <2>8. pair \in Pairs /\ pair[1] = a /\ pair[2] = p
    BY <1>2, <2>3, <2>4, <2>6, <2>7
  <2>9. PICK s : s = Append(old, pair)
    OBVIOUS
  <2>10. /\ s \in Seq(Pairs) /\ Len(s) = Len(old) + 1 /\ Len(old) \in Nat
         /\ \A i \in 1..Len(old) : s[i] = old[i]
         /\ s[Len(old) + 1] = pair
    BY <2>1, <2>7, <2>8, <2>9
  <2>11. ASSUME NEW j \in 1..Len(s) PROVE LeadsAlong(longer, q, s[j][1], s[j][2])
    <3>1. CASE j \in 1..Len(old)
      BY <2>1, <2>4, <2>5, <2>10, <3>1
    <3>2. CASE j = Len(old) + 1
      BY <2>5, <2>8, <2>10, <3>2
    <3> QED
      BY <2>10, <3>1, <3>2
  <2>12. PICK new : /\ prop.gain = Accepting(run.memory, new)
                    /\ (new = old \/ new = Trimmed(s))
    BY <1>3, <1>7, <2>2, <2>4, <2>6, <2>9, Remembered DEF Paired
  <2>13. Kept(prop.gain, Len(longer), new)
    BY <1>4, <2>12
  <2>14. /\ new \in Seq(Pairs)
         /\ \A i \in 1..Len(new) : LeadsAlong(longer, q, new[i][1], new[i][2])
    <3>1. CASE new = old
      BY <2>1, <2>4, <2>5, <2>7, <3>1
    <3>2. CASE new = Trimmed(s)
      <4>1. /\ new \in Seq(Pairs)
            /\ \A i \in 1..Len(new) : \E j \in 1..Len(s) : new[i] = s[j]
        <5>1. History \in Nat /\ s \in Seq(Pairs)
          BY <2>10 DEF EngineSound
        <5> QED
          BY <3>2, <5>1, TrimmedPairs
      <4> QED
        BY <2>11, <4>1
    <3> QED
      BY <2>12, <3>1, <3>2
  <2> QED
    BY <1>7, <2>7, <2>13, <2>14 DEF Recalls, Momenta
<1> QED
  BY <1>5, <1>6, <1>7 DEF Tracked

\* An attempt that is refused stays, with the memory lost.
LEMMA LossRecalled ==
  ASSUME EngineSound, Tables, Typed, Remembers, run.method \in Tracked,
         NEW prop \in Proposals(value, residual, run)
  PROVE  \E trail : Kept(prop.loss, Len(run.path), trail) /\ Recalls(run.method, trail, run.path, run.at)
<1>1. PICK old : Kept(run.memory, Len(run.path), old) /\ Recalls(run.method, old, run.path, run.at)
  BY DEF Remembers
<1>2. run.path \in Seq(Point) /\ run.at \in Point /\ Len(run.path) \in Nat
  BY Projected DEF Typed
<1>3. old = run.memory.trail
  BY <1>1 DEF Kept
<1>4. ASSUME NEW new, prop.loss = Rejecting(run.memory, new) PROVE Kept(prop.loss, Len(run.path), new)
  BY <1>1, <1>2, <1>4, WrittenMemory
<1>5. CASE prop.loss = Rejecting(run.memory, old)
  BY <1>1, <1>4, <1>5
<1>6. CASE run.method \in Momenta /\ prop.loss = Rejecting(run.memory, <<>>)
  <2>1. PICK new : new = <<>>
    OBVIOUS
  <2>2. Kept(prop.loss, Len(run.path), new)
    BY <1>4, <1>6, <2>1
  <2>3. new \in Seq(Point) /\ Len(new) = 0
    BY <2>1, EmptySeq
  <2>4. Ends(new, run.path)
    BY <1>2, <2>3 DEF Ends
  <2> QED
    BY <1>6, <2>2, <2>3, <2>4 DEF Recalls, Momenta
<1>7. CASE run.method = "nonlinear_cg"
  <2>1. PICK new : new = <<run.at>>
    OBVIOUS
  <2>2. Kept(prop.loss, Len(run.path), new)
    BY <1>4, <1>7, <2>1, Remembered
  <2>3. new \in Seq(Point) /\ Last(new) = run.at
    BY <1>2, <2>1 DEF Last
  <2> QED
    BY <1>7, <2>2, <2>3 DEF Recalls, Momenta
<1> QED
  BY <1>3, <1>5, <1>6, <1>7, Remembered DEF Tracked

---------------------------------------------------------------------------
(* The inductive invariant *)

\* Memory, stops, the best point and the guard are each kept only together with the types, and
\* the stall count with the bar it is counted from.
Inv ==
  /\ Tables
  /\ Active => Typed /\ Stopping /\ Best /\ Guarding /\ Remembers

\* A trail that ends the path is a suffix of it.
LEMMA EndsSuffix ==
  ASSUME NEW S, NEW s \in Seq(S), NEW t \in Seq(S), Ends(s, t)
  PROVE  IsSuffix(s, t)
<1>1. /\ Len(s) \in Nat /\ Len(t) \in Nat /\ Len(s) <= Len(t)
      /\ \A i \in 1..Len(s) : s[i] = t[Len(t) - Len(s) + i]
  BY DEF Ends
<1>2. PICK r : r = Reverse(s)
  OBVIOUS
<1>3. PICK q : q = Reverse(t)
  OBVIOUS
<1>4. /\ r \in Seq(S) /\ Len(r) = Len(s) /\ \A i \in 1..Len(s) : r[i] = s[(Len(s) - i) + 1]
      /\ q \in Seq(S) /\ Len(q) = Len(t) /\ \A i \in 1..Len(t) : q[i] = t[(Len(t) - i) + 1]
  BY <1>1, <1>2, <1>3 DEF Reverse
<1>5. ASSUME NEW i \in 1..Len(s) PROVE r[i] = q[i]
  <2>1. (Len(s) - i) + 1 \in 1..Len(s)
    BY <1>1
  <2>2. s[(Len(s) - i) + 1] = t[(Len(t) - i) + 1]
    BY <1>1, <2>1
  <2> QED
    BY <1>1, <1>4, <2>2
<1>6. IsPrefix(r, q)
  BY <1>1, <1>4, <1>5 DEF IsPrefix
<1> QED
  BY <1>2, <1>3, <1>6 DEF IsSuffix

\* The invariant says what the memory is of.
LEMMA InvRemembers ==
  ASSUME EngineSound, Inv
  PROVE  MemoryFollowsPath
<1> SUFFICES ASSUME Active, run.method \in Tracked PROVE MemoryFollowsPath
  <2>1. Active /\ run.method \notin Tracked => MemoryFollowsPath
    <3> SUFFICES ASSUME Active, run.method \notin Tracked PROVE MemoryFollowsPath
      OBVIOUS
    <3>1. run.method \in Lines \cup Others \cup {"trust_region", "projected_gradient"}
      BY DEF Inv, Typed, Known, Tracked
    <3>2. Name(run.method) # "momentum"
      BY <3>1 DEF Name, Lines, Others
    <3> QED
      BY <3>1, <3>2 DEF MemoryFollowsPath, Tracked, FirstOrder, Lines, Others
  <2> QED
    BY <2>1 DEF MemoryFollowsPath
<1>1. PICK trail : Kept(run.memory, Len(run.path), trail) /\ Recalls(run.method, trail, run.path, run.at)
  BY DEF Inv, Remembers
<1>2. trail = run.memory.trail /\ run.memory.accepts = Len(run.path) /\ run.path \in Seq(Point)
  BY <1>1 DEF Kept, Inv, Typed
<1>3. run.method \in {"adam", "adaptive"} => trail = run.path
  BY <1>1 DEF Recalls
<1>4. Name(run.method) = "momentum" => IsSuffix(trail, run.path)
  <2> SUFFICES ASSUME Name(run.method) = "momentum" PROVE IsSuffix(trail, run.path)
    OBVIOUS
  <2>1. run.method \in Momenta
    BY DEF Name, Tracked, FirstOrder, Momenta
  <2>2. trail \in Seq(Point) /\ Ends(trail, run.path)
    BY <1>1, <2>1 DEF Recalls, Momenta
  <2> QED
    BY <1>2, <2>2, EndsSuffix
<1>5. run.method = "nonlinear_cg" =>
        \/ trail = <<>>
        \/ Last(trail) = run.at \/ (run.path # <<>> /\ Last(trail) = Last(run.path))
  BY <1>1 DEF Recalls
<1>6. run.method = "lbfgs" => \A i \in 1..Len(trail) : Leads(trail[i][1], trail[i][2])
  BY <1>1 DEF Recalls, LeadsAlong, Leads
<1> QED
  BY <1>2, <1>3, <1>4, <1>5, <1>6 DEF MemoryFollowsPath

\* The invariant says why a chunk stopped, or why it goes on.
LEMMA InvStops ==
  ASSUME EngineSound, Inv
  PROVE  StopHonest
<1> SUFFICES ASSUME Active PROVE StopHonest
  BY DEF StopHonest
<1>0. Typed /\ Stopping /\ log \in Seq(LogEntry) /\ Len(log) \in Nat /\ Patience \in Nat /\ Retries \in Nat
  BY DEF Inv, Typed, EngineSound
<1>1. None \notin Reasons /\ run.phase \in {"loop", "stopped"}
  BY DEF EngineSound, Inv, Typed
<1>2. run.phase = "loop" => run.reason = None /\ run.stall < Patience
  BY <1>0 DEF Stopping
<1>3. run.phase = "loop" \/ run.reason = "stall" => \E m \in Judgements : Bars(m)
  BY <1>0 DEF Stopping
<1>4. run.phase = "loop" /\ Earlier # {} =>
        \E i \in Latest : \A j \in Earlier : JudgedValue(i) < JudgedValue(j)
  BY <1>0, <1>2, <1>3, BarsTell
<1>5. run.reason = "stall" =>
        Earlier # {} /\ \A i \in Latest : \E j \in Earlier : JudgedValue(j) <= JudgedValue(i)
  <2>1. run.reason = "stall" => run.stall >= Patience
    BY <1>0 DEF Stopping
  <2> QED
    BY <1>0, <1>3, <2>1, BarsTell
<1>6. run.reason = "nonfinite_trial" =>
        Len(log) >= Retries /\ \A i \in (Len(log) - Retries + 1)..Len(log) : log[i].kind = "failed"
  <2> SUFFICES ASSUME run.reason = "nonfinite_trial"
               PROVE  /\ Len(log) >= Retries
                      /\ \A i \in (Len(log) - Retries + 1)..Len(log) : log[i].kind = "failed"
    OBVIOUS
  <2>1. /\ run.failed >= Retries /\ run.failed <= Len(log) /\ run.failed \in Nat
        /\ \A i \in (Len(log) - run.failed + 1)..Len(log) : log[i].kind = "failed"
    BY <1>0 DEF Stopping, Typed
  <2> QED
    BY <1>0, <2>1
<1> QED
  BY <1>0, <1>4, <1>5, <1>6 DEF StopHonest, Stopping

\* The invariant says what a guard guards.
LEMMA InvGuards ==
  ASSUME EngineSound, Inv
  PROVE  GuardHolds
<1> SUFFICES ASSUME Active, run.guard # None, run.at # run.began PROVE GuardHolds
  BY DEF GuardHolds
<1>1. Required(run.guard, run.at) /\ Drifted(run.guard, run.began, run.at, run.iteration)
  BY DEF Inv, Guarding
<1> QED
  BY <1>1 DEF GuardHolds, Required, Drifted

---------------------------------------------------------------------------
(* Attempts that move nothing *)

\* What such an attempt leaves as it was.
Standing ==
  /\ DOMAIN run' = RunFields
  /\ run'.method = run.method /\ run'.guard = run.guard /\ run'.maxiter = run.maxiter
  /\ run'.at = run.at /\ run'.best = run.best /\ run'.stall = run.stall /\ run'.bar = run.bar
  /\ run'.began = run.began /\ run'.path = run.path /\ run'.visited = run.visited

\* A metric is a number wherever the objective is.
LEMMA MetricTypes ==
  ASSUME Tables, NEW p \in Point, value[p] \in Int, NEW m \in {"J", "residual"}
  PROVE  Metric(value, residual, p)[m] \in Int
  BY DEF Tables, Metric

\* The drift a guard allows grows with the attempts.
LEMMA DriftGrows ==
  ASSUME Tables, NEW guard, guard.tolerance \in Nat, guard.improve \in {"J", "residual"},
         NEW p \in Point, value[p] \in Int, NEW q \in Point, value[q] \in Int,
         NEW n \in Nat, Drifted(guard, p, q, n)
  PROVE  Drifted(guard, p, q, n + 1)
<1>1. PICK a \in Int : a = Metric(value, residual, p)[guard.improve]
  BY MetricTypes
<1>2. PICK b \in Int : b = Metric(value, residual, q)[guard.improve]
  BY MetricTypes
<1>3. PICK d \in Nat : d = guard.tolerance
  OBVIOUS
<1>4. d * (n + 1) = d * n + d /\ d * n \in Int
  BY <1>3
<1> QED
  BY <1>1, <1>2, <1>3, <1>4 DEF Drifted

\* An attempt that judged nothing keeps the types, the best point and the guard's demands.
LEMMA StandsStill ==
  ASSUME EngineSound, Inv, Active, Standing, value' = value, residual' = residual,
         run'.phase \in {"loop", "stopped"}, run'.failed \in Nat,
         \/ run'.iteration = run.iteration /\ log' = log
         \/ /\ run'.iteration = run.iteration + 1
            /\ \E e \in LogEntry : log' = Append(log, e) /\ e.kind # "judged"
  PROVE  Typed' /\ Best' /\ Guarding' /\ Tables'
<1>0. Tables /\ Typed /\ Best /\ Guarding
  BY DEF Inv
<1>1. Tables' /\ Best'
  BY <1>0 DEF Tables, Best, Standing
<1>2. Typed'
  <2>1. log' \in Seq(LogEntry) /\ \A i \in DOMAIN log' : log'[i].kind = "judged" => value[log'[i].at] \in Int
    <3>1. CASE log' = log
      BY <1>0, <3>1 DEF Typed
    <3>2. ASSUME NEW e \in LogEntry, log' = Append(log, e), e.kind # "judged"
          PROVE  log' \in Seq(LogEntry) /\ \A i \in DOMAIN log' : log'[i].kind = "judged" => value[log'[i].at] \in Int
      BY <1>0, <3>2 DEF Typed
    <3> QED
      BY <3>1, <3>2
  <2>2. run'.iteration \in Nat
    BY <1>0 DEF Typed
  <2> QED
    BY <1>0, <2>1, <2>2 DEF Typed, Standing, Evaluated
<1>3. Guarding'
  <2> SUFFICES ASSUME run.guard # None PROVE Guarding'
    BY DEF Guarding, Standing
  <2>1. run.guard.tolerance \in Nat /\ run.guard.improve \in {"J", "residual"}
    BY <1>0 DEF EngineSound, Typed
  <2>2. /\ run.began \in Point /\ run.at \in Point /\ value[run.began] \in Int /\ value[run.at] \in Int
        /\ run.iteration \in Nat
    BY <1>0, Projected DEF Typed, Evaluated
  <2>3. Drifted(run.guard, run.began, run.at, run'.iteration)
    BY <1>0, <2>1, <2>2, DriftGrows DEF Guarding
  <2> QED
    BY <1>0, <2>3 DEF Guarding, Standing, Required, Drifted
<1> QED
  BY <1>0, <1>1, <1>2, <1>3

\* What is remembered is remembered still where neither memory nor path change.
LEMMA RemembersStill ==
  ASSUME Remembers, run'.method = run.method, run'.memory = run.memory, run'.path = run.path,
         run'.at = run.at
  PROVE  Remembers'
  BY DEF Remembers

\* Bars stand where nothing was judged.
LEMMA BarsStand ==
  ASSUME run'.bar = run.bar, run'.stall = run.stall, Judgements' = Judgements,
         \A i \in Judgements : JudgedValue(i)' = JudgedValue(i), \A i : Since(i)' = Since(i),
         NEW m \in Judgements, Bars(m)
  PROVE  Bars(m)'
  BY DEF Bars

\* The budget is spent.
LEMMA BudgetKeeps ==
  ASSUME EngineSound, Inv, Budget
  PROVE  Inv'
<1>0. Active /\ Typed /\ Stopping /\ Remembers /\ None \notin Reasons
  BY DEF Inv, Budget, Active, EngineSound
<1>1. Standing /\ run'.phase = "stopped" /\ run'.reason = "maxiter" /\ run'.failed = run.failed
      /\ run'.iteration = run.iteration /\ run'.memory = run.memory
      /\ value' = value /\ residual' = residual /\ log' = log
  BY <1>0 DEF Budget, Stopped, Standing, Typed, RunFields
<1>2. Typed' /\ Best' /\ Guarding' /\ Tables'
  BY <1>0, <1>1, StandsStill DEF Typed
<1>3. Remembers'
  BY <1>0, <1>1, RemembersStill DEF Standing
<1>4. Stopping'
  <2>1. run.iteration = run.maxiter
    BY <1>0 DEF Stopping, Budget, Typed
  <2> QED
    BY <1>0, <1>1, <2>1 DEF Stopping, Standing
<1> QED
  BY <1>2, <1>3, <1>4 DEF Inv

\* The gradient at the current point ends the chunk.
LEMMA StationaryKeeps ==
  ASSUME EngineSound, Inv, Stationary
  PROVE  Inv'
<1>0. Active /\ Typed /\ Stopping /\ Remembers /\ None \notin Reasons
  BY DEF Inv, Stationary, Looping, Active, EngineSound
<1>1. PICK reason \in {"gradient_converged", "stationary_nonminimum"} : run' = Stopped(run, reason)
  BY DEF Stationary
<1>2. Standing /\ run'.phase = "stopped" /\ run'.reason = reason /\ run'.failed = run.failed
      /\ run'.iteration = run.iteration /\ run'.memory = run.memory
      /\ value' = value /\ residual' = residual /\ log' = log
  BY <1>0, <1>1 DEF Stationary, Stopped, Standing, Typed, RunFields
<1>3. Typed' /\ Best' /\ Guarding' /\ Tables'
  BY <1>0, <1>2, StandsStill DEF Typed
<1>4. Remembers'
  BY <1>0, <1>2, RemembersStill DEF Standing
<1>5. Stopping'
  BY <1>0, <1>1, <1>2 DEF Stopping, Standing
<1> QED
  BY <1>3, <1>4, <1>5 DEF Inv

\* Fields of a chunk that ends on an attempt.
LEMMA ChargedStop ==
  ASSUME Typed, NEW reason, run' = Stopped(Charged, reason)
  PROVE  /\ Standing /\ run'.phase = "stopped" /\ run'.reason = reason /\ run'.failed = run.failed
         /\ run'.iteration = run.iteration + 1 /\ run'.memory = run.memory
  BY DEF Stopped, Charged, Standing, Typed, RunFields

\* An attempt that ends the chunk before a trial.
LEMMA EndsEarly ==
  ASSUME EngineSound, Inv, Looping, value' = value, residual' = residual,
         NEW reason \in {"gradient_failed", "smooth_gradient_failed", "proposal_failed"},
         run' = Stopped(Charged, reason), NEW kind \in {"gradient", "raised"},
         log' = Append(log, Entry(kind, run.at))
  PROVE  Inv'
<1>0. Active /\ Typed /\ Stopping /\ Remembers /\ None \notin Reasons /\ run.at \in Point
  BY Projected DEF Inv, Looping, Active, EngineSound, Typed
<1>1. /\ Standing /\ run'.phase = "stopped" /\ run'.reason = reason /\ run'.failed = run.failed
      /\ run'.iteration = run.iteration + 1 /\ run'.memory = run.memory
  BY <1>0, ChargedStop
<1>2. PICK e : e = Entry(kind, run.at)
  OBVIOUS
<1>3. e \in LogEntry /\ e.kind # "judged" /\ log' = Append(log, e)
  BY <1>0, <1>2 DEF Entry, LogEntry, Kinds
<1>4. Typed' /\ Best' /\ Guarding' /\ Tables'
  BY <1>0, <1>1, <1>3, StandsStill DEF Typed
<1>5. Remembers'
  BY <1>0, <1>1, RemembersStill DEF Standing
<1>6. Stopping'
  <2>1. Len(log') = Len(log) + 1 /\ Len(log) \in Nat
    BY <1>0, <1>3 DEF Typed
  <2> QED
    BY <1>0, <1>1, <2>1 DEF Stopping, Standing, Typed
<1> QED
  BY <1>4, <1>5, <1>6 DEF Inv

\* A gradient or a step that cannot be computed ends the chunk.
LEMMA EarlyKeeps ==
  ASSUME EngineSound, Inv, GradientFails \/ StepRaises
  PROVE  Inv'
<1>1. CASE GradientFails
  BY <1>1, EndsEarly DEF GradientFails
<1>2. CASE StepRaises
  BY <1>2, EndsEarly DEF StepRaises
<1> QED
  BY <1>1, <1>2

\* A trial that does not evaluate counts; the method forgets what it forgets on a rejection.
LEMMA TrialKeeps ==
  ASSUME EngineSound, Inv, TrialFails
  PROVE  Inv'
<1>0. /\ Active /\ Tables /\ Typed /\ Stopping /\ Remembers /\ run.at \in Point
      /\ None \notin Reasons /\ run.phase = "loop" /\ run.iteration < run.maxiter
      /\ value' = value /\ residual' = residual
  BY Projected DEF Inv, TrialFails, Looping, Active, EngineSound, Typed
<1>1. PICK prop \in Proposals(value, residual, run) :
        LET next == [Charged EXCEPT !.failed = @ + 1, !.memory = prop.loss, !.size = AfterFailure(prop)] IN
        run' = IF next.failed >= Retries THEN Stopped(next, "nonfinite_trial") ELSE next
  BY DEF TrialFails
<1>2. PICK next : next = [Charged EXCEPT !.failed = @ + 1, !.memory = prop.loss, !.size = AfterFailure(prop)]
  OBVIOUS
<1>3. run' = IF next.failed >= Retries THEN Stopped(next, "nonfinite_trial") ELSE next
  BY <1>1, <1>2
<1>4. /\ DOMAIN next = RunFields /\ next.phase = "loop" /\ next.reason = run.reason
      /\ next.method = run.method /\ next.guard = run.guard /\ next.maxiter = run.maxiter
      /\ next.at = run.at /\ next.best = run.best /\ next.stall = run.stall /\ next.bar = run.bar
      /\ next.began = run.began /\ next.path = run.path /\ next.visited = run.visited
      /\ next.iteration = run.iteration + 1 /\ next.failed = run.failed + 1 /\ next.memory = prop.loss
  BY <1>0, <1>2 DEF Charged, Typed, RunFields
<1>5. /\ Standing /\ run'.iteration = run.iteration + 1 /\ run'.failed = run.failed + 1
      /\ run'.memory = prop.loss
      /\ \/ run'.phase = "loop" /\ run'.reason = run.reason
         \/ run'.phase = "stopped" /\ run'.reason = "nonfinite_trial" /\ run'.failed >= Retries
  <2>1. CASE next.failed >= Retries
    BY <1>3, <1>4, <2>1 DEF Stopped, Standing, RunFields
  <2>2. CASE ~(next.failed >= Retries)
    BY <1>3, <1>4, <2>2 DEF Standing
  <2> QED
    BY <2>1, <2>2
<1>6. PICK e : e = Entry("failed", run.at)
  OBVIOUS
<1>7. e \in LogEntry /\ e.kind = "failed" /\ log' = Append(log, e)
  BY <1>0, <1>6 DEF Entry, LogEntry, Kinds, TrialFails
<1>8. Typed' /\ Best' /\ Guarding' /\ Tables'
  BY <1>0, <1>5, <1>7, StandsStill DEF Typed
<1>9. Remembers'
  <2> SUFFICES ASSUME run.method \in Tracked PROVE Remembers'
    BY <1>5 DEF Remembers, Standing
  <2>1. PICK trail : Kept(prop.loss, Len(run.path), trail) /\ Recalls(run.method, trail, run.path, run.at)
    BY <1>0, LossRecalled
  <2> QED
    BY <1>5, <2>1 DEF Remembers, Standing
<1>10. Stopping'
  <2>1. /\ Len(log') = Len(log) + 1 /\ Len(log) \in Nat /\ log'[Len(log) + 1] = e
        /\ \A i \in 1..Len(log) : log'[i] = log[i]
    BY <1>0, <1>7 DEF Typed
  <2>2. /\ run.failed \in Nat /\ run.failed <= Len(log) /\ run.iteration = Len(log)
        /\ \A i \in (Len(log) - run.failed + 1)..Len(log) : log[i].kind = "failed"
    BY <1>0 DEF Stopping, Typed
  <2>3. \A i \in (Len(log') - run'.failed + 1)..Len(log') : log'[i].kind = "failed"
    <3>0. /\ Len(log') - run'.failed + 1 = Len(log) - run.failed + 1
          /\ Len(log) - run.failed + 1 \in Int
      BY <1>5, <2>1, <2>2
    <3> SUFFICES ASSUME NEW i \in (Len(log) - run.failed + 1)..Len(log') PROVE log'[i].kind = "failed"
      BY <3>0
    <3>1. CASE i = Len(log) + 1
      BY <1>7, <2>1, <3>1
    <3>2. CASE i # Len(log) + 1
      <4>1. i \in (Len(log) - run.failed + 1)..Len(log) /\ i \in 1..Len(log)
        BY <2>1, <2>2, <3>0, <3>2
      <4> QED
        BY <2>1, <2>2, <4>1
    <3> QED
      BY <3>1, <3>2
  <2>4. run'.phase = "loop" => \E m \in Judgements' : Bars(m)'
    <3>1. PICK m \in Judgements : Bars(m)
      BY <1>0 DEF Stopping
    <3>2. /\ Judgements' = Judgements
          /\ \A i \in Judgements : JudgedValue(i)' = JudgedValue(i)
          /\ \A i : Since(i)' = Since(i)
      BY <1>0, <1>5, <1>7, Unjudged DEF Standing
    <3>3. Bars(m)'
      BY <1>5, <3>1, <3>2, BarsStand DEF Standing
    <3> QED
      BY <3>1, <3>2, <3>3
  <2>5. run.reason = None /\ run.stall < Patience /\ run.maxiter \in Nat /\ run.iteration \in Nat
    BY <1>0 DEF Stopping, Typed
  <2>6. run'.phase = "loop" => run'.reason = None /\ run'.iteration <= run'.maxiter /\ run'.stall < Patience
    BY <1>0, <1>5, <2>5 DEF Standing
  <2>7. run'.reason \in {None, "nonfinite_trial"} /\ (run'.reason = "nonfinite_trial" => run'.failed >= Retries)
    BY <1>0, <1>5, <2>5 DEF Reasons
  <2>8. None \notin {"stall", "maxiter", "target", "projected_kkt_converged", "restoration_failed"}
    BY <1>0 DEF Reasons, Stops
  <2>9. run'.iteration = Len(log') /\ run'.failed <= Len(log')
    BY <1>5, <2>1, <2>2
  <2>10. run'.reason \notin {"stall", "maxiter", "target", "projected_kkt_converged", "restoration_failed"}
    BY <2>7, <2>8
  <2>11. run'.phase = "loop" \/ run'.reason # "stall"
    BY <2>10
  <2> QED
    BY <2>3, <2>4, <2>6, <2>7, <2>9, <2>10 DEF Stopping
<1> QED
  BY <1>8, <1>9, <1>10 DEF Inv

---------------------------------------------------------------------------
(* A judged attempt *)

\* A guarded chunk moves only to points its guard lets through.
LEMMA GuardAccepts ==
  ASSUME NEW prop, NEW p, NEW verdict \in Verdicts(value, residual, run, prop, p),
         run.guard # None, verdict.accepted
  PROVE  MetricGuard(run.guard, Metric(value, residual, run.at), Metric(value, residual, p))
<1>1. Verdicts(value, residual, run, prop, p) = GuardVerdicts(value, residual, run, prop, p)
  BY Zenon DEF Verdicts
<1>2. PICK passes : passes = (prop.fact /\ MetricGuard(run.guard, Metric(value, residual, run.at),
                                                       Metric(value, residual, p)))
  OBVIOUS
<1>3. verdict = Verdict(passes, None)
  BY <1>1, <1>2, Zenon DEF GuardVerdicts
<1>4. verdict.accepted = passes
  BY <1>3, Zenon DEF Verdict
<1> QED
  BY <1>2, <1>4, Zenon

\* What a judged attempt makes of the state: it moves to the candidate or stays, with the memory
\* of its branch, and then stops or goes on.
Goes(prop, p, moved) ==
  /\ DOMAIN run' = RunFields
  /\ run'.method = run.method /\ run'.guard = run.guard /\ run'.maxiter = run.maxiter
  /\ run'.began = run.began /\ run'.iteration = run.iteration + 1 /\ run'.failed = 0
  /\ moved => /\ run'.at = p /\ run'.path = Append(run.path, run.at)
              /\ run'.visited = run.visited \cup {p} /\ run'.memory = prop.gain
              /\ run'.best = IF value[p] < value[run.best] THEN p ELSE run.best
              /\ run.guard # None =>
                   MetricGuard(run.guard, Metric(value, residual, run.at), Metric(value, residual, p))
  /\ ~moved => /\ run'.at = run.at /\ run'.path = run.path /\ run'.visited = run.visited
               /\ run'.best = run.best /\ run'.memory = prop.loss

\* The stopping rules after a judged attempt.
Counts(prop) ==
  /\ \/ run'.phase = "stopped" /\ run'.reason = "target" /\ value[run'.at] <= Target
     \/ /\ run'.bar = IF value[run'.at] < run.bar THEN value[run'.at] ELSE run.bar
        /\ run'.stall = IF value[run'.at] < run.bar THEN 0 ELSE run.stall + 1
        /\ \/ run'.phase = "stopped" /\ run'.reason = "stall" /\ run'.stall >= Patience
           \/ run'.phase = "stopped" /\ run'.reason = prop.stop /\ prop.stop # None
           \/ run'.phase = "loop" /\ run'.reason = run.reason /\ ~(run'.stall >= Patience)
  /\ run'.bar \in {run.bar, value[run'.at]} /\ run'.stall \in {0, run.stall, run.stall + 1}

\* A judged attempt is one of these.
LEMMA JudgedFields ==
  ASSUME EngineSound, Inv, Judged
  PROVE  \E prop \in Proposals(value, residual, run), p \in Inside, moved \in BOOLEAN :
           /\ p = Clip[prop.to] /\ value[p] \in Int /\ Goes(prop, p, moved) /\ Counts(prop)
           /\ log' = Append(log, Entry("judged", run'.at))
<1>0. Active /\ Tables /\ Typed /\ run.phase = "loop"
  BY DEF Inv, Judged, Looping, Active
<1>1. PICK prop \in Proposals(value, residual, run) :
        /\ value[Clip[prop.to]] # None
        /\ \E verdict \in Verdicts(value, residual, run, prop, Clip[prop.to]) :
             /\ run' = Ruled(Branch(prop, verdict, Clip[prop.to]), prop.stop)
             /\ log' = Append(log, Entry("judged", Branch(prop, verdict, Clip[prop.to]).at))
  BY DEF Judged
<1>2. PICK p : p = Clip[prop.to]
  OBVIOUS
<1>3. p \in Inside /\ p \in Point /\ value[p] \in Int
  BY <1>0, <1>1, <1>2, Projected, ProposalsHonest DEF Honest, Tables
<1>4. PICK verdict \in Verdicts(value, residual, run, prop, p) :
        /\ run' = Ruled(Branch(prop, verdict, p), prop.stop)
        /\ log' = Append(log, Entry("judged", Branch(prop, verdict, p).at))
  BY <1>1, <1>2
<1>5. PICK b : b = Branch(prop, verdict, p)
  OBVIOUS
<1>6. /\ DOMAIN b = RunFields
      /\ b.phase = run.phase /\ b.reason = run.reason /\ b.method = run.method /\ b.guard = run.guard
      /\ b.maxiter = run.maxiter /\ b.began = run.began /\ b.stall = run.stall /\ b.bar = run.bar
      /\ b.iteration = run.iteration + 1 /\ b.failed = 0
      /\ verdict.accepted =>
           /\ b.at = p /\ b.path = Append(run.path, run.at) /\ b.visited = run.visited \cup {p}
           /\ b.best = IF value[p] < value[run.best] THEN p ELSE run.best
           /\ b.memory = prop.gain
      /\ ~verdict.accepted =>
           /\ b.at = run.at /\ b.path = run.path /\ b.visited = run.visited /\ b.best = run.best
           /\ b.memory = prop.loss
  BY <1>0, <1>5, Attempted
<1>7. PICK t : t = run'
  OBVIOUS
<1>8. t = Ruled(b, prop.stop)
  BY <1>4, <1>5, <1>7
<1>9. /\ DOMAIN t = RunFields
      /\ t.method = b.method /\ t.guard = b.guard
      /\ t.maxiter = b.maxiter /\ t.began = b.began
      /\ t.iteration = b.iteration /\ t.failed = b.failed
      /\ t.at = b.at /\ t.path = b.path /\ t.visited = b.visited /\ t.best = b.best
      /\ t.memory = b.memory
      /\ \/ t.phase = "stopped" /\ t.reason = "target" /\ value[b.at] <= Target
            /\ t.bar = b.bar /\ t.stall = b.stall
         \/ /\ t.bar = IF value[b.at] < b.bar THEN value[b.at] ELSE b.bar
            /\ t.stall = IF value[b.at] < b.bar THEN 0 ELSE b.stall + 1
            /\ \/ t.phase = "stopped" /\ t.reason = "stall" /\ t.stall >= Patience
               \/ t.phase = "stopped" /\ t.reason = prop.stop /\ prop.stop # None
               \/ t.phase = b.phase /\ t.reason = b.reason /\ ~(t.stall >= Patience)
  BY <1>6, <1>8, RuledFields
<1>10. PICK moved \in BOOLEAN : moved <=> verdict.accepted
  OBVIOUS
<1>11. moved /\ run.guard # None =>
         MetricGuard(run.guard, Metric(value, residual, run.at), Metric(value, residual, p))
  BY <1>10, GuardAccepts
<1>12. log' = Append(log, Entry("judged", t.at))
  BY <1>4, <1>5, <1>9
<1>13. /\ t.method = run.method /\ t.guard = run.guard /\ t.maxiter = run.maxiter
       /\ t.began = run.began /\ t.iteration = run.iteration + 1 /\ t.failed = 0
       /\ moved => /\ t.at = p /\ t.path = Append(run.path, run.at)
                   /\ t.visited = run.visited \cup {p} /\ t.memory = prop.gain
                   /\ t.best = IF value[p] < value[run.best] THEN p ELSE run.best
       /\ ~moved => /\ t.at = run.at /\ t.path = run.path /\ t.visited = run.visited
                    /\ t.best = run.best /\ t.memory = prop.loss
  BY <1>6, <1>9, <1>10
<1>14. /\ \/ t.phase = "stopped" /\ t.reason = "target" /\ value[t.at] <= Target
          \/ /\ t.bar = IF value[t.at] < run.bar THEN value[t.at] ELSE run.bar
             /\ t.stall = IF value[t.at] < run.bar THEN 0 ELSE run.stall + 1
             /\ \/ t.phase = "stopped" /\ t.reason = "stall" /\ t.stall >= Patience
                \/ t.phase = "stopped" /\ t.reason = prop.stop /\ prop.stop # None
                \/ t.phase = "loop" /\ t.reason = run.reason /\ ~(t.stall >= Patience)
       /\ t.bar \in {run.bar, value[t.at]} /\ t.stall \in {0, run.stall, run.stall + 1}
  BY <1>0, <1>6, <1>9
<1>15. Counts(prop)
  BY <1>7, <1>14 DEF Counts
<1>16. Goes(prop, p, moved)
  BY <1>7, <1>9, <1>11, <1>13 DEF Goes
<1> QED
  BY <1>2, <1>3, <1>7, <1>12, <1>15, <1>16

\* A judged attempt keeps the invariant: memory grows with the path, the bar with the judgements.
LEMMA JudgedKeeps ==
  ASSUME EngineSound, Inv, Judged
  PROVE  Inv'
<1>0. /\ Active /\ Tables /\ Typed /\ Stopping /\ Best /\ Guarding /\ Remembers
      /\ run.phase = "loop" /\ run.iteration < run.maxiter /\ None \notin Reasons
      /\ value' = value /\ residual' = residual
  BY DEF Inv, Judged, Looping, Active, EngineSound
<1>1. PICK prop \in Proposals(value, residual, run), p \in Inside, moved \in BOOLEAN :
        /\ p = Clip[prop.to] /\ value[p] \in Int /\ Goes(prop, p, moved) /\ Counts(prop)
        /\ log' = Append(log, Entry("judged", run'.at))
  BY JudgedFields
<1>2. p \in Point /\ run.at \in Point /\ run.best \in Point /\ run.began \in Point
  BY <1>0, Projected DEF Typed, Evaluated
<1>3. /\ run'.at \in Inside /\ run'.at \in Point /\ value[run'.at] \in Int
      /\ value[run.at] \in Int /\ value[run.best] \in Int /\ value[run.began] \in Int
  BY <1>0, <1>1, <1>2 DEF Goes, Typed, Evaluated
<1>4. PICK e : e = Entry("judged", run'.at)
  OBVIOUS
<1>5. e \in LogEntry /\ e.kind = "judged" /\ e.at = run'.at /\ log' = Append(log, e)
  BY <1>1, <1>3, <1>4 DEF Entry, LogEntry, Kinds
<1>6. Tables'
  BY <1>0 DEF Tables
<1>7. Typed'
  <2>1. log' \in Seq(LogEntry) /\ \A i \in DOMAIN log' : log'[i].kind = "judged" => value[log'[i].at] \in Int
    BY <1>0, <1>3, <1>5 DEF Typed
  <2>1a. /\ run.at \in run.visited /\ run.best \in run.visited /\ run.visited \subseteq Point
         /\ \A q \in run.visited : value[q] \in Int
         /\ run.path \in Seq(Point)
    BY <1>0 DEF Typed, Evaluated
  <2>2. /\ run'.at \in run'.visited /\ run'.best \in run'.visited
        /\ run'.visited \subseteq Point /\ \A q \in run'.visited : value[q] \in Int
    <3>1. CASE moved
      <4>1. /\ run'.at = p /\ run'.visited = run.visited \cup {p}
            /\ run'.best = p \/ run'.best = run.best
        BY <1>1, <3>1 DEF Goes
      <4> QED
        BY <1>1, <1>2, <2>1a, <4>1
    <3>2. CASE ~moved
      <4>1. run'.at = run.at /\ run'.visited = run.visited /\ run'.best = run.best
        BY <1>1, <3>2 DEF Goes
      <4> QED
        BY <2>1a, <4>1
    <3> QED
      BY <3>1, <3>2
  <2>3. run'.path \in Seq(Point)
    <3>1. CASE moved
      <4>1. run'.path = Append(run.path, run.at)
        BY <1>1, <3>1 DEF Goes
      <4> QED
        BY <1>2, <2>1a, <4>1
    <3>2. CASE ~moved
      <4>1. run'.path = run.path
        BY <1>1, <3>2 DEF Goes
      <4> QED
        BY <2>1a, <4>1
    <3> QED
      BY <3>1, <3>2
  <2>4. run'.phase \in {"loop", "stopped"} /\ run'.stall \in Nat /\ run'.bar \in Int
    <3>1. run'.phase \in {"loop", "stopped"}
      BY <1>1 DEF Counts
    <3>2. run'.bar \in {run.bar, value[run'.at]} /\ run'.stall \in {0, run.stall, run.stall + 1}
      BY <1>1 DEF Counts
    <3>3. run.bar \in Int /\ run.stall \in Nat
      BY <1>0 DEF Typed
    <3> QED
      BY <1>3, <3>1, <3>2, <3>3
  <2>5. /\ DOMAIN run' = RunFields /\ run'.method \in Known /\ run'.guard \in Guards \cup {None}
        /\ run'.maxiter \in Nat /\ run'.iteration \in Nat /\ run'.failed \in Nat
        /\ run'.began = run.began /\ run.began \in Inside
    BY <1>0, <1>1 DEF Goes, Typed
  <2> QED
    BY <1>0, <1>3, <2>1, <2>2, <2>3, <2>4, <2>5 DEF Typed, Evaluated
<1>8. Best'
  <2>1. CASE moved
    <3>1. run'.visited = run.visited \cup {p} /\ run'.best = IF value[p] < value[run.best] THEN p ELSE run.best
      BY <1>1, <2>1 DEF Goes
    <3>2. ASSUME NEW q \in run.visited PROVE value[run.best] <= value[q] /\ value[q] \in Int
      BY <1>0 DEF Best, Typed, Evaluated
    <3>3. ASSUME NEW q \in run'.visited PROVE value[run'.best] <= value[q]
      BY <1>1, <1>3, <3>1, <3>2
    <3> QED
      BY <1>0, <3>3 DEF Best
  <2>2. CASE ~moved
    BY <1>0, <1>1, <2>2 DEF Goes, Best
  <2> QED
    BY <2>1, <2>2
<1>9. Guarding'
  <2> SUFFICES ASSUME run.guard # None PROVE Guarding'
    BY <1>1 DEF Guarding, Goes
  <2>1. PICK guard : guard = run.guard
    OBVIOUS
  <2>2. /\ guard \in Guards /\ guard.tolerance \in Nat /\ guard.improve \in {"J", "residual"}
        /\ run.iteration \in Nat
    BY <1>0, <2>1 DEF EngineSound, Typed
  <2>3. /\ run.at # run.began => Required(guard, run.at)
        /\ Drifted(guard, run.began, run.at, run.iteration) /\ run.method \in Guarded
    BY <1>0, <2>1 DEF Guarding
  <2>4. Required(guard, run'.at) \/ run'.at = run.began
    <3>1. CASE moved
      BY <1>1, <2>1, <3>1 DEF Goes, MetricGuard, Required
    <3>2. CASE ~moved
      BY <1>1, <2>3, <3>2 DEF Goes
    <3> QED
      BY <3>1, <3>2
  <2>5. Drifted(guard, run.began, run'.at, run.iteration + 1)
    <3>1. CASE ~moved
      BY <1>1, <1>2, <1>3, <2>2, <2>3, <3>1, <1>0, DriftGrows DEF Goes
    <3>2. CASE moved
      <4>1. run'.at = p /\ MetricGuard(guard, Metric(value, residual, run.at), Metric(value, residual, p))
        BY <1>1, <2>1, <3>2 DEF Goes
      <4>2. PICK a \in Int : a = Metric(value, residual, run.began)[guard.improve]
        BY <1>0, <1>2, <1>3, <2>2, MetricTypes
      <4>3. PICK b \in Int : b = Metric(value, residual, run.at)[guard.improve]
        BY <1>0, <1>2, <1>3, <2>2, MetricTypes
      <4>4. PICK c \in Int : c = Metric(value, residual, p)[guard.improve]
        BY <1>0, <1>1, <1>2, <2>2, MetricTypes
      <4>5. PICK d \in Nat : d = guard.tolerance
        BY <2>2
      <4>6. d * (run.iteration + 1) = d * run.iteration + d /\ d * run.iteration \in Int
        BY <2>2, <4>5
      <4>7. /\ guard.mode = "min" => b <= a + d * run.iteration /\ c <= b + d
            /\ guard.mode # "min" => b >= a - d * run.iteration /\ c >= b - d
        BY <2>3, <4>1, <4>2, <4>3, <4>4, <4>5 DEF Drifted, MetricGuard
      <4>8. PICK k \in Int : k = d * run.iteration
        BY <4>6
      <4>9. /\ guard.mode = "min" => c <= a + (k + d)
            /\ guard.mode # "min" => c >= a - (k + d)
        BY <4>7, <4>8
      <4> QED
        BY <4>1, <4>2, <4>4, <4>5, <4>6, <4>8, <4>9 DEF Drifted
    <3> QED
      BY <3>1, <3>2
  <2>6. /\ run'.guard = guard /\ run'.began = run.began /\ run'.iteration = run.iteration + 1
        /\ run'.method = run.method
    BY <1>1, <2>1 DEF Goes
  <2> QED
    BY <1>0, <2>3, <2>4, <2>5, <2>6 DEF Guarding, Required, Drifted
<1>10. Remembers'
  <2>0. run'.method = run.method
    BY <1>1 DEF Goes
  <2> SUFFICES ASSUME run.method \in Tracked PROVE Remembers'
    BY <2>0 DEF Remembers
  <2>1. CASE moved
    <3>1. PICK longer : longer = Append(run.path, run.at)
      OBVIOUS
    <3>2. PICK trail : Kept(prop.gain, Len(longer), trail) /\ Recalls(run.method, trail, longer, p)
      BY <1>0, <1>1, <3>1, GainRecalled
    <3>3. run'.memory = prop.gain /\ run'.path = longer /\ run'.at = p
      BY <1>1, <2>1, <3>1 DEF Goes
    <3> QED
      BY <2>0, <3>2, <3>3 DEF Remembers
  <2>2. CASE ~moved
    <3>1. PICK trail : Kept(prop.loss, Len(run.path), trail) /\ Recalls(run.method, trail, run.path, run.at)
      BY <1>0, LossRecalled
    <3>2. run'.memory = prop.loss /\ run'.path = run.path /\ run'.at = run.at
      BY <1>1, <2>2 DEF Goes
    <3> QED
      BY <2>0, <3>1, <3>2 DEF Remembers
  <2> QED
    BY <2>1, <2>2
<1>11. Stopping'
  <2>1. Len(log') = Len(log) + 1 /\ Len(log) \in Nat
    BY <1>0, <1>5 DEF Typed
  <2>2. /\ run.reason = None /\ run.stall < Patience /\ run.maxiter \in Nat /\ run.iteration \in Nat
        /\ run.iteration = Len(log) /\ Patience \in Nat
    BY <1>0 DEF Stopping, Typed, EngineSound
  <2>3. run'.maxiter = run.maxiter /\ run'.began = run.began /\ run'.iteration = run.iteration + 1 /\ run'.failed = 0
    BY <1>1 DEF Goes
  <2>4. run'.phase = "loop" \/ run'.reason = "stall" => \E n \in Judgements' : Bars(n)'
    <3> SUFFICES ASSUME run'.phase = "loop" \/ run'.reason = "stall" PROVE \E n \in Judgements' : Bars(n)'
      OBVIOUS
    <3>1. run'.bar = (IF value[e.at] < run.bar THEN value[e.at] ELSE run.bar)
          /\ run'.stall = (IF value[e.at] < run.bar THEN 0 ELSE run.stall + 1)
      BY <1>1, <1>5 DEF Counts
    <3>2. PICK m \in Judgements : Bars(m)
      BY <1>0 DEF Stopping
    <3>3. value[e.at] \in Int
      BY <1>3, <1>5
    <3> QED
      BY <1>0, <1>5, <2>3, <3>1, <3>2, <3>3, BarsFollow
  <2>5. \A i \in (Len(log') - run'.failed + 1)..Len(log') : log'[i].kind = "failed"
    BY <2>1, <2>3
  <2>6. prop.stop \in Stops \cup {None}
    BY <1>0, ProposalsHonest DEF Honest
  <2>7. run'.reason \in {"target", "stall", None} \cup Stops
    BY <1>1, <2>2, <2>6 DEF Counts
  <2>8. run'.reason \notin {"maxiter", "nonfinite_trial"}
    BY <1>0, <2>7 DEF Stops, Reasons
  <2>9. run'.reason \in Stops => run'.reason = prop.stop
    BY <1>0, <1>1, <2>2 DEF Counts, Stops, Reasons
  <2>10. prop.to = run.at => run'.at = run.at
    BY <1>0, <1>1, Projected DEF Goes, Typed
  <2>11. run'.reason = "projected_kkt_converged" => residual[run'.at] = 0
    <3> SUFFICES ASSUME run'.reason = "projected_kkt_converged" PROVE residual[run'.at] = 0
      OBVIOUS
    <3>1. prop.to = run.at /\ ~(residual[run.at] > 0)
      BY <1>0, <2>9, ProposalsHonest DEF Honest, Stops
    <3>2. residual[run.at] \in Nat
      BY <1>0, <1>2 DEF Tables
    <3> QED
      BY <2>10, <3>1, <3>2
  <2>12. run'.reason = "restoration_failed" => residual[run'.at] > 0
    <3> SUFFICES ASSUME run'.reason = "restoration_failed" PROVE residual[run'.at] > 0
      OBVIOUS
    <3>1. prop.to = run.at /\ residual[run.at] > 0
      BY <1>0, <2>9, ProposalsHonest DEF Honest, Stops
    <3> QED
      BY <2>10, <3>1
  <2>13. run'.reason = "target" => value[run'.at] <= Target
    BY <1>0, <1>1, <2>2, <2>6 DEF Counts, Stops, Reasons
  <2>14. run'.reason = "stall" => run'.stall >= Patience
    BY <1>0, <1>1, <2>2, <2>6 DEF Counts, Stops, Reasons
  <2>15. run'.phase = "loop" => run'.reason = None /\ run'.iteration <= run'.maxiter /\ run'.stall < Patience
    BY <1>0, <1>1, <1>7, <2>2, <2>3 DEF Counts, Typed
  <2>16. run'.iteration = Len(log') /\ run'.failed <= Len(log')
    BY <2>1, <2>2, <2>3
  <2> QED
    BY <1>0, <2>4, <2>5, <2>8, <2>11, <2>12, <2>13, <2>14, <2>15, <2>16 DEF Stopping
<1> QED
  BY <1>6, <1>7, <1>8, <1>9, <1>10, <1>11 DEF Inv

---------------------------------------------------------------------------
(* Starting a chunk *)

\* Variants that share a name share a kind of memory.
LEMMA SharedMemory ==
  ASSUME NEW m \in Known, NEW n \in Known, Name(m) = Name(n), m \in Tracked
  PROVE  m = n \/ {m, n} \subseteq Momenta
  BY DEF Known, Name, Tracked, FirstOrder, Lines, Others, Momenta

\* What a chunk starts with.
LEMMA ChunkFields ==
  ASSUME EngineSound, Inv, Start
  PROVE  \E method \in Method, maxiter \in Budgets, guard \in Guards \cup {None}, q \in Inside,
            exact \in BOOLEAN, same \in BOOLEAN :
           /\ value[q] \in Int /\ (guard # None => method \in Guarded)
           /\ DOMAIN run' = RunFields
           /\ run'.method = method /\ run'.guard = guard /\ run'.maxiter = maxiter
           /\ run'.at = q /\ run'.began = q /\ run'.bar = value[q]
           /\ run'.iteration = 0 /\ run'.failed = 0 /\ run'.stall = 0
           /\ \/ run'.phase = "stopped" /\ run'.reason = "target" /\ value[q] <= Target
              \/ run'.phase = "loop" /\ run'.reason = None
           /\ exact => Active /\ run'.best = run.best /\ run'.visited = run.visited \cup {q} /\ q = run.at
           /\ ~exact => run'.best = q /\ run'.visited = {q}
           /\ same => /\ Active /\ q = run.at /\ Name(run.method) = Name(method)
                      /\ run'.memory = run.memory /\ run'.path = run.path
           /\ ~same => run'.memory = NoMemory /\ run'.path = <<>>
<1>1. PICK source \in {"controls", "state", "warmstart"} :
        /\ IF source = "controls" THEN run.phase = "idle"
           ELSE run.phase = "stopped" /\ run.chunks < MaxChunks
        /\ \E method \in Method, maxiter \in Budgets,
              p \in (IF source = "controls" THEN Point ELSE {run.at}) :
            \E schedule \in (IF method \in FirstOrder THEN Schedules ELSE {"none"}),
               guard \in (IF method \in Guarded THEN {None} \cup Guards ELSE {None}) :
                LET q == Clip[p]
                    from == IF source = "controls" THEN None ELSE run IN
                /\ guard # None => schedule = "none"
                /\ value[q] # None
                /\ run' = Chunk(method, schedule, guard, q, from, source = "state", maxiter)
  BY Zenon DEF Start
<1>2. PICK from : from = IF source = "controls" THEN None ELSE run
  OBVIOUS
<1>3. PICK method \in Method, maxiter \in Budgets, p \in (IF source = "controls" THEN Point ELSE {run.at}) :
        \E schedule \in (IF method \in FirstOrder THEN Schedules ELSE {"none"}),
           guard \in (IF method \in Guarded THEN {None} \cup Guards ELSE {None}) :
            /\ value[Clip[p]] # None
            /\ run' = Chunk(method, schedule, guard, Clip[p], from, source = "state", maxiter)
  BY <1>1, <1>2, Zenon
<1>4. PICK schedule \in (IF method \in FirstOrder THEN Schedules ELSE {"none"}),
           guard \in (IF method \in Guarded THEN {None} \cup Guards ELSE {None}) :
        /\ value[Clip[p]] # None
        /\ run' = Chunk(method, schedule, guard, Clip[p], from, source = "state", maxiter)
  BY <1>3, Zenon
<1>5. Active => run.at \in Inside
  BY DEF Inv, Typed
<1>6. source # "controls" => from = run /\ Active /\ p = run.at /\ p \in Inside
  BY <1>1, <1>2, <1>5 DEF Active
<1>7. p \in Point
  BY <1>6 DEF Inside
<1>8. PICK q \in Inside : q = Clip[p]
  BY <1>7, Projected
<1>9. source # "controls" => q = run.at
  BY <1>6, <1>8 DEF Inside
<1>10. value[q] \in Int
  BY <1>4, <1>8 DEF Inv, Tables, Inside
<1>11. PICK exact \in BOOLEAN : exact <=> source = "state"
  OBVIOUS
<1>12. PICK same \in BOOLEAN : same <=> from # None /\ Name(from.method) = Name(method)
  OBVIOUS
<1>13. PICK t : t = run'
  OBVIOUS
<1>14. t = Chunk(method, schedule, guard, q, from, source = "state", maxiter)
  BY <1>4, <1>8, <1>13
<1>15. /\ DOMAIN t = RunFields
       /\ t.method = method /\ t.guard = guard /\ t.maxiter = maxiter /\ t.at = q /\ t.began = q
       /\ t.bar = value[q] /\ t.iteration = 0 /\ t.failed = 0 /\ t.stall = 0
  BY <1>14 DEF Chunk, RunFields
<1>16. /\ t.phase = IF value[q] <= Target THEN "stopped" ELSE "loop"
       /\ t.reason = IF value[q] <= Target THEN "target" ELSE None
  BY <1>14 DEF Chunk, Reached
<1>17. /\ source = "state" => t.best = from.best /\ t.visited = from.visited \cup {q}
       /\ source # "state" => t.best = q /\ t.visited = {q}
  BY <1>14 DEF Chunk, StartBest
<1>18. /\ from # None /\ Name(from.method) = Name(method) => t.memory = from.memory /\ t.path = from.path
       /\ ~(from # None /\ Name(from.method) = Name(method)) => t.memory = NoMemory /\ t.path = <<>>
  BY <1>14 DEF Chunk
<1>19. guard \in Guards \cup {None} /\ (guard # None => method \in Guarded)
  OBVIOUS
<1>20. exact => Active /\ t.best = run.best /\ t.visited = run.visited \cup {q} /\ q = run.at
  BY <1>6, <1>9, <1>11, <1>17
<1>21. ~exact => t.best = q /\ t.visited = {q}
  BY <1>11, <1>17
<1>22. same => /\ Active /\ q = run.at /\ Name(run.method) = Name(method)
               /\ t.memory = run.memory /\ t.path = run.path
  BY <1>2, <1>6, <1>9, <1>12, <1>18
<1>23. ~same => t.memory = NoMemory /\ t.path = <<>>
  BY <1>12, <1>18
<1> QED
  BY <1>10, <1>13, <1>15, <1>16, <1>19, <1>20, <1>21, <1>22, <1>23

\* A chunk starts with everything in order.
LEMMA StartKeeps ==
  ASSUME EngineSound, Inv, Start
  PROVE  Inv'
<1>0. value' = value /\ residual' = residual /\ log' = <<>> /\ Tables
  BY DEF Inv, Start
<1>1. PICK method \in Method, maxiter \in Budgets, guard \in Guards \cup {None}, q \in Inside,
           exact \in BOOLEAN, same \in BOOLEAN :
           /\ value[q] \in Int /\ (guard # None => method \in Guarded)
           /\ DOMAIN run' = RunFields
           /\ run'.method = method /\ run'.guard = guard /\ run'.maxiter = maxiter
           /\ run'.at = q /\ run'.began = q /\ run'.bar = value[q]
           /\ run'.iteration = 0 /\ run'.failed = 0 /\ run'.stall = 0
           /\ \/ run'.phase = "stopped" /\ run'.reason = "target" /\ value[q] <= Target
              \/ run'.phase = "loop" /\ run'.reason = None
           /\ exact => Active /\ run'.best = run.best /\ run'.visited = run.visited \cup {q} /\ q = run.at
           /\ ~exact => run'.best = q /\ run'.visited = {q}
           /\ same => /\ Active /\ q = run.at /\ Name(run.method) = Name(method)
                      /\ run'.memory = run.memory /\ run'.path = run.path
           /\ ~same => run'.memory = NoMemory /\ run'.path = <<>>
  BY ChunkFields
<1>2. q \in Point /\ method \in Known /\ maxiter \in Nat /\ Patience \in Nat \ {0} /\ None \notin Reasons
  BY Projected DEF EngineSound
<1>3. Active => Typed /\ Best /\ Remembers
  BY DEF Inv
<1>4. Tables'
  BY <1>0 DEF Tables
<1>5. /\ run'.best \in run'.visited /\ q \in run'.visited /\ run'.visited \subseteq Point
      /\ \A r \in run'.visited : value[r] \in Int /\ value[run'.best] <= value[r]
  <2>1. CASE exact
    <3>1. /\ run.best \in run.visited /\ q \in run.visited /\ run.visited \subseteq Point
          /\ \A r \in run.visited : value[r] \in Int /\ value[run.best] <= value[r]
      BY <1>1, <1>3, <2>1 DEF Typed, Best, Evaluated
    <3> QED
      BY <1>1, <2>1, <3>1
  <2>2. CASE ~exact
    <3>1. run'.best = q /\ run'.visited = {q}
      BY <1>1, <2>2
    <3> QED
      BY <1>1, <1>2, <3>1
  <2> QED
    BY <2>1, <2>2
<1>6. run'.path \in Seq(Point)
  <2>1. CASE same
    <3>1. run.path \in Seq(Point)
      BY <1>1, <1>3, <2>1 DEF Typed
    <3> QED
      BY <1>1, <2>1, <3>1
  <2>2. CASE ~same
    <3>1. run'.path = <<>>
      BY <1>1, <2>2
    <3> QED
      BY <3>1
  <2> QED
    BY <2>1, <2>2
<1>7. Typed'
  <2>1. log' \in Seq(LogEntry) /\ DOMAIN log' = {}
    BY <1>0
  <2> QED
    BY <1>0, <1>1, <1>2, <1>5, <1>6, <2>1 DEF Typed, Evaluated
<1>8. Best'
  BY <1>0, <1>5 DEF Best
<1>9. Guarding'
  <2> SUFFICES ASSUME guard # None PROVE Guarding'
    BY <1>1 DEF Guarding
  <2>1. guard.tolerance \in Nat /\ guard.improve \in {"J", "residual"} /\ method \in Guarded
    BY <1>1 DEF EngineSound
  <2>2. PICK a \in Int : a = Metric(value, residual, q)[guard.improve]
    BY <1>0, <1>1, <1>2, <2>1, MetricTypes
  <2>3. PICK d \in Nat : d = guard.tolerance
    BY <2>1
  <2>4. Drifted(guard, q, q, 0)
    BY <2>2, <2>3 DEF Drifted
  <2> QED
    BY <1>0, <1>1, <2>1, <2>4 DEF Guarding, Drifted
<1>10. Remembers'
  <2> SUFFICES ASSUME method \in Tracked PROVE Remembers'
    BY <1>1 DEF Remembers
  <2>1. CASE same
    <3>1. Name(run.method) = Name(method) /\ run.method \in Known /\ run'.path = run.path
          /\ run'.memory = run.memory /\ run'.at = run.at /\ run'.method = method /\ Remembers
          /\ run.path \in Seq(Point)
      BY <1>1, <1>3, <2>1 DEF Typed
    <3>2. run.method = method \/ {run.method, method} \subseteq Momenta
      BY <1>2, <3>1, SharedMemory
    <3>3. run.method \in Tracked
      BY <3>2 DEF Momenta, Tracked, FirstOrder
    <3>4. PICK trail : Kept(run.memory, Len(run.path), trail) /\ Recalls(run.method, trail, run.path, run.at)
      BY <3>1, <3>3 DEF Remembers
    <3>5. Recalls(method, trail, run.path, run.at)
      BY <3>2, <3>4 DEF Recalls, Momenta
    <3> QED
      BY <3>1, <3>4, <3>5 DEF Remembers
  <2>2. CASE ~same
    <3>1. run'.memory = NoMemory /\ run'.path = <<>> /\ run'.method = method
      BY <1>1, <2>2
    <3>2. PICK none : none = <<>>
      OBVIOUS
    <3>3. Kept(NoMemory, Len(none), none)
      BY <3>2 DEF Kept, NoMemory
    <3>4. Recalls(method, none, none, run'.at)
      BY <3>2 DEF Recalls, Ends
    <3> QED
      BY <3>1, <3>2, <3>3, <3>4 DEF Remembers
  <2> QED
    BY <2>1, <2>2
<1>11. Stopping'
  <2>1. Len(log') = 0 /\ DOMAIN log' = {}
    BY <1>0
  <2>2. Judgements' = {0} /\ JudgedValue(0)' = run'.bar /\ Since(0)' = {}
    BY <1>0, <1>1, <2>1 DEF Judgements, JudgedValue, Since
  <2>3. Cardinality({}) = 0
    BY FS_EmptySet
  <2>4. Bars(0)'
    <3>1. run'.bar \in Int /\ run'.stall = 0
      BY <1>1
    <3>2. \A j \in Judgements' : JudgedValue(j)' = run'.bar /\ ~(j < 0)
      BY <2>2
    <3> QED
      BY <2>2, <2>3, <3>1, <3>2 DEF Bars
  <2>5. \E n \in Judgements' : Bars(n)'
    BY <2>2, <2>4
  <2>6. run'.reason \in {"target", None} /\ (run'.reason = "target" => value[run'.at] <= Target)
    BY <1>1, <1>2 DEF Reasons
  <2>7. run'.reason \notin Reasons \ {"target"}
    BY <1>2, <2>6 DEF Reasons
  <2>8. run'.phase = "loop" => run'.reason = None
    BY <1>1
  <2> QED
    BY <1>0, <1>1, <1>2, <2>1, <2>5, <2>6, <2>7, <2>8 DEF Stopping, Reasons, Stops
<1> QED
  BY <1>4, <1>7, <1>8, <1>9, <1>10, <1>11 DEF Inv

---------------------------------------------------------------------------
\* Every step of the engine keeps the invariant.
LEMMA EngineStep ==
  ASSUME EngineSound, Inv, Next
  PROVE  Inv'
  BY StartKeeps, BudgetKeeps, EarlyKeeps, StationaryKeeps, TrialKeeps, JudgedKeeps DEF Next

\* A step of the rest of the world keeps it as well.
LEMMA EngineStutters ==
  ASSUME Inv, UNCHANGED evars
  PROVE  Inv'
<1>1. value' = value /\ residual' = residual /\ run' = run /\ log' = log
  BY DEF evars
<1>2. Tables' /\ (Active' <=> Active)
  BY <1>1 DEF Inv, Tables, Active
<1>3. Typed => Typed'
  BY <1>1 DEF Typed, Evaluated
<1>4. Best => Best'
  BY <1>1 DEF Best
<1>5. Guarding => Guarding'
  BY <1>1 DEF Guarding, Required, Drifted
<1>6. Remembers => Remembers'
  BY <1>1 DEF Remembers
<1>7. Stopping => Stopping'
  <2>1. ASSUME NEW m \in Judgements, Bars(m)
        PROVE  m \in Judgements' /\ Bars(m)'
    <3>1. Judgements' = Judgements
      BY <1>1 DEF Judgements
    <3>2. \A i \in Judgements : JudgedValue(i)' = JudgedValue(i)
      BY <1>1 DEF JudgedValue
    <3>3. \A i : Since(i)' = Since(i)
      BY <3>1 DEF Since
    <3> QED
      BY <1>1, <2>1, <3>1, <3>2, <3>3, BarsStand
  <2> QED
    BY <1>1, <2>1 DEF Stopping
<1> QED
  BY <1>2, <1>3, <1>4, <1>5, <1>6, <1>7 DEF Inv

\* Before the first chunk nothing is claimed but the tables.
LEMMA EngineInit ==
  ASSUME EngineSound, Init
  PROVE  Inv
  BY DEF EngineSound, Init, Inv, Tables, Active

---------------------------------------------------------------------------
\* run_chunk: from any controls, in any order of chunks, methods and failures,
\* the state of the engine is what its history makes it.
THEOREM EngineInvariant ==
  ASSUME EngineSound
  PROVE  Spec => []Inv
<1>1. Init => Inv
  BY EngineInit
<1>2. Inv /\ [Next]_evars => Inv'
  BY EngineStep, EngineStutters
<1> QED
  BY <1>1, <1>2, PTL DEF Spec

\* What a method remembers is the path it took.
THEOREM MemoryFollows ==
  ASSUME EngineSound
  PROVE  Spec => []MemoryFollowsPath
<1>1. Inv => MemoryFollowsPath
  BY InvRemembers
<1> QED
  BY <1>1, EngineInvariant, PTL

\* A reported stop is what happened.
THEOREM StopsHonestly ==
  ASSUME EngineSound
  PROVE  Spec => []StopHonest
<1>1. Inv => StopHonest
  BY InvStops
<1> QED
  BY <1>1, EngineInvariant, PTL

\* The best point is the best one visited, and what a guard requires holds.
THEOREM BestAndGuard ==
  ASSUME EngineSound
  PROVE  Spec => [](BestOfVisited /\ GuardHolds)
<1>1. Inv => BestOfVisited /\ GuardHolds
  BY InvGuards DEF Inv, Best, BestOfVisited
<1> QED
  BY <1>1, EngineInvariant, PTL

-----------------------------------------------------------------------------
(* The evaluators: stores, of which only lists are known, and counters     *)

\* A list of any elements.
Listed(s) == \E S : s \in Seq(S)

\* The positions of the last uses of the keys.
Final(keys) == {i \in DOMAIN keys : \A j \in DOMAIN keys : j > i => keys[j] # keys[i]}

\* The entries are of the n keys used last, in that order; g says where each was used last.
Newest(entries, keys, n, g) ==
  /\ Len(entries) <= n
  /\ g \in [1..Len(entries) -> Final(keys)]
  /\ \A i \in 1..Len(entries) : entries[i].key = keys[g[i]]
  /\ \A i, j \in 1..Len(entries) : i < j => g[i] < g[j]
  /\ \A m \in Final(keys) : \/ \E i \in 1..Len(entries) : g[i] = m
                            \/ Len(entries) = n /\ \A i \in 1..Len(entries) : m < g[i]

\* A list without its i-th element.
LEMMA Removal ==
  ASSUME NEW S, NEW s \in Seq(S), NEW i \in 1..Len(s)
  PROVE  /\ RemoveAt(s, i) \in Seq(S) /\ Len(RemoveAt(s, i)) = Len(s) - 1
         /\ \A j \in 1..(Len(s) - 1) : RemoveAt(s, i)[j] = s[IF j < i THEN j ELSE j + 1]
<1> DEFINE a == SubSeq(s, 1, i - 1)
           b == SubSeq(s, i + 1, Len(s))
<1>1. a \in Seq(S) /\ Len(a) = i - 1 /\ \A j \in 1..(i - 1) : a[j] = s[j]
  OBVIOUS
<1>2. b \in Seq(S) /\ Len(b) = Len(s) - i /\ \A j \in 1..(Len(s) - i) : b[j] = s[i + j]
  OBVIOUS
<1> HIDE DEF a, b
<1>3. a \o b \in Seq(S) /\ Len(a \o b) = Len(s) - 1
  <2>1. a \o b \in Seq(S) /\ Len(a \o b) = Len(a) + Len(b)
    BY <1>1, <1>2, ConcatProperties
  <2> QED
    BY <1>1, <1>2, <2>1
<1>4. ASSUME NEW j \in 1..(Len(s) - 1) PROVE (a \o b)[j] = s[IF j < i THEN j ELSE j + 1]
  <2>1. CASE j < i
    BY <1>1, <1>2, <2>1
  <2>2. CASE ~(j < i)
    <3>1. (a \o b)[j] = b[j - (i - 1)]
      BY <1>1, <1>2, <2>2
    <3>2. j - (i - 1) \in 1..(Len(s) - i) /\ i + (j - (i - 1)) = j + 1
      BY <2>2
    <3> QED
      BY <1>2, <2>2, <3>1, <3>2
  <2> QED
    BY <2>1, <2>2
<1> QED
  BY <1>3, <1>4 DEF RemoveAt, a, b

\* The places behind the r-th, and how many they are.
Behind(g, r, m) == {g[q] : q \in (r + 1)..m}
LEMMA CountBehind ==
  ASSUME NEW m \in Nat, NEW F, F \subseteq Nat, NEW g \in [1..m -> F],
         \A i, j \in 1..m : i < j => g[i] < g[j], NEW r \in 0..m
  PROVE  IsFiniteSet(Behind(g, r, m)) /\ Cardinality(Behind(g, r, m)) = m - r
<1> DEFINE h == [q \in (r + 1)..m |-> g[q]]
<1>1. IsFiniteSet((r + 1)..m) /\ Cardinality((r + 1)..m) = m - r
  <2>1. r + 1 \in Int /\ m \in Int
    OBVIOUS
  <2>2. Cardinality((r + 1)..m) = IF r + 1 > m THEN 0 ELSE m - (r + 1) + 1
    BY <2>1, FS_Interval, Zenon
  <2>3. IsFiniteSet((r + 1)..m)
    BY <2>1, FS_Interval, Zenon
  <2> QED
    BY <2>2, <2>3
<1>2. \A p, q \in (r + 1)..m : p \in Nat /\ q \in Nat /\ (p < q \/ q < p \/ p = q)
  OBVIOUS
<1>3. \A p, q \in (r + 1)..m : g[p] = g[q] => p = q
  <2> TAKE p, q \in (r + 1)..m
  <2>1. p \in 1..m /\ q \in 1..m
    OBVIOUS
  <2>2. g[p] \in Nat /\ g[q] \in Nat
    BY <2>1
  <2> QED
    BY <1>2, <2>1, <2>2
<1>4. h \in Bijection((r + 1)..m, Behind(g, r, m))
  BY <1>3, Zenon DEF Bijection, Injection, Surjection, IsInjective, Behind
<1> QED
  BY <1>1, <1>4, FS_Bijection DEF ExistsBijection

\* The entries so described are those of the n keys used last.
LEMMA NewestAreRecent ==
  ASSUME NEW n \in Nat, NEW entries, Listed(entries), NEW keys, Listed(keys), NEW g,
         Newest(entries, keys, n, g)
  PROVE  [i \in DOMAIN entries |-> entries[i].key] = V!Recent(keys, n)
<1> DEFINE m == Len(entries)
           F == Final(keys)
           after(i) == V!Cardinality({j \in F : j > i})
           Held == {i \in F : after(i) < n}
<1>0. \A s : V!Cardinality(s) = Cardinality(s)
  BY Zenon DEF V!Cardinality, Cardinality
<1>1. m \in Nat /\ m <= n /\ DOMAIN entries = 1..m /\ DOMAIN keys = 1..Len(keys) /\ Len(keys) \in Nat
  BY DEF Newest, Listed
<1>2. F \subseteq 1..Len(keys) /\ F \subseteq Nat /\ IsFiniteSet(F)
  <2>1. F \subseteq 1..Len(keys) /\ F \subseteq Nat
    BY <1>1 DEF Final
  <2>2. IsFiniteSet(1..Len(keys))
    BY <1>1, FS_Interval
  <2> QED
    BY <2>1, <2>2, FS_Subset, Zenon
<1>3. g \in [1..m -> F] /\ \A i, j \in 1..m : i < j => g[i] < g[j]
  BY DEF Newest
<1>4. \A r \in 0..m : IsFiniteSet(Behind(g, r, m)) /\ Cardinality(Behind(g, r, m)) = m - r
  <2> HIDE DEF m, F
  <2> QED
    BY <1>1, <1>2, <1>3, CountBehind
<1>5. ASSUME NEW r \in 1..m PROVE after(g[r]) = m - r
  <2>1. {j \in F : j > g[r]} = Behind(g, r, m)
    <3>1. ASSUME NEW j \in F, j > g[r] PROVE \E q \in (r + 1)..m : g[q] = j
      <4>1. PICK q \in 1..m : g[q] = j
        <5>1. g[r] \in Nat /\ j \in Nat /\ ~(j < g[r])
          BY <1>2, <1>3, <3>1
        <5> QED
          BY <5>1 DEF Newest
      <4>2. ~(q < r) /\ q # r
        BY <1>2, <1>3, <3>1, <4>1
      <4>3. q \in (r + 1)..m
        BY <1>1, <4>2
      <4> QED
        BY <4>1, <4>3
    <3>2. ASSUME NEW q \in (r + 1)..m PROVE g[q] \in F /\ g[q] > g[r]
      BY <1>1, <1>2, <1>3
    <3>3. \A q \in (r + 1)..m : g[q] \in {j \in F : j > g[r]}
      BY <3>2
    <3> QED
      BY <3>1, <3>3, Zenon DEF Behind
  <2>2. r \in 0..m
    BY <1>1
  <2> QED
    BY <1>0, <1>4, <2>1, <2>2
<1>6. Held = {g[r] : r \in 1..m}
  <2>1. ASSUME NEW r \in 1..m PROVE g[r] \in Held
    BY <1>1, <1>3, <1>5
  <2>2. ASSUME NEW i \in Held PROVE \E r \in 1..m : g[r] = i
    <3>1. SUFFICES ASSUME m = n, \A r \in 1..m : i < g[r] PROVE FALSE
      BY DEF Newest
    <3>2. Behind(g, 0, m) \subseteq {j \in F : j > i}
      BY <1>2, <1>3, <3>1 DEF Behind
    <3>3. IsFiniteSet({j \in F : j > i})
      <4>1. {j \in F : j > i} \in SUBSET F
        OBVIOUS
      <4> QED
        BY <1>2, <4>1, FS_Subset, Zenon
    <3>4. Cardinality(Behind(g, 0, m)) <= Cardinality({j \in F : j > i})
      BY <3>2, <3>3, FS_Subset
    <3>5. Cardinality(Behind(g, 0, m)) = m - 0
      <4>1. 0 \in 0..m
        BY <1>1
      <4> QED
        BY <1>4, <4>1
    <3>6. after(i) \in Nat
      BY <1>0, <3>3, FS_CardinalityType
    <3> QED
      BY <1>0, <1>1, <3>1, <3>4, <3>5, <3>6
  <2> QED
    BY <2>1, <2>2
<1>7. V!Cardinality(Held) = m
  <2>1. 0 \in 0..m /\ m - 0 = m /\ 0 + 1 = 1
    BY <1>1
  <2>2. Cardinality(Behind(g, 0, m)) = m
    BY <1>4, <2>1
  <2>3. Behind(g, 0, m) = {g[r] : r \in 1..m}
    BY <2>1 DEF Behind
  <2> HIDE DEF m, Held
  <2> QED
    BY <1>0, <1>6, <2>2, <2>3
<1>8. ASSUME NEW r \in 1..m PROVE keys[CHOOSE i \in Held : after(i) = m - r] = entries[r].key
  <2>1. g[r] \in Held /\ after(g[r]) = m - r
    BY <1>5, <1>6
  <2>2. ASSUME NEW i \in Held, after(i) = m - r PROVE i = g[r]
    <3>1. PICK q \in 1..m : g[q] = i
      BY <1>6
    <3>2. m - q = m - r
      BY <1>5, <2>2, <3>1
    <3> QED
      BY <1>1, <3>1, <3>2
  <2>3. (CHOOSE i \in Held : after(i) = m - r) = g[r]
    BY <2>1, <2>2, Zenon
  <2> QED
    BY <2>3 DEF Newest
<1>9. V!Recent(keys, n) = [r \in 1..V!Cardinality(Held) |-> keys[CHOOSE i \in Held : after(i) = V!Cardinality(Held) - r]]
  BY Zenon DEF V!Recent, Final
<1> HIDE DEF Held, after, F
<1>10. V!Recent(keys, n) = [r \in 1..m |-> keys[CHOOSE i \in Held : after(i) = m - r]]
  BY <1>7, <1>9
<1> QED
  BY <1>1, <1>8, <1>10

\* The last uses of the other keys.
Besides(keys, k) == {m \in Final(keys) : keys[m] # k}

\* The entries are of the other keys, in the order of their last uses; if others were used,
\* the store was full.
Follow(rest, keys, k, full, h) ==
  /\ h \in [1..Len(rest) -> Besides(keys, k)]
  /\ \A i \in 1..Len(rest) : rest[i].key = keys[h[i]]
  /\ \A i, j \in 1..Len(rest) : i < j => h[i] < h[j]
  /\ \A m \in Besides(keys, k) : (\E i \in 1..Len(rest) : h[i] = m) \/ (full /\ \A i \in 1..Len(rest) : m < h[i])

\* The entries of the other keys are in order as well.
LEMMA OthersInOrder ==
  ASSUME NEW n \in Nat, NEW S, NEW entries \in Seq(S), NEW keys, Listed(keys), NEW k, NEW g,
         Newest(entries, keys, n, g), NEW rest, rest = V!Others(entries, k)
  PROVE  /\ rest \in Seq(S) /\ Len(rest) \in {Len(entries), Len(entries) - 1}
         /\ \A i \in 1..Len(rest) : \E j \in 1..Len(entries) : rest[i] = entries[j]
         /\ \E h : Follow(rest, keys, k, Len(entries) = n, h)
<1> DEFINE l == Len(entries)
<1>1. l \in Nat /\ DOMAIN entries = 1..l /\ DOMAIN keys = 1..Len(keys) /\ Len(keys) \in Nat
  BY DEF Listed
<1>2. CASE ~\E i \in DOMAIN entries : entries[i].key = k
  <2>1. rest = entries
    BY <1>2 DEF V!Others
  <2>2. g \in [1..l -> Besides(keys, k)]
    BY <1>1, <1>2 DEF Newest, Besides
  <2>3. /\ \A i \in 1..l : entries[i].key = keys[g[i]]
        /\ \A i, j \in 1..l : i < j => g[i] < g[j]
        /\ \A m \in Besides(keys, k) : (\E i \in 1..l : g[i] = m) \/ (l = n /\ \A i \in 1..l : m < g[i])
    BY DEF Newest, Besides
  <2>4. Follow(rest, keys, k, l = n, g)
    BY <2>1, <2>2, <2>3 DEF Follow
  <2> QED
    BY <1>1, <2>1, <2>4
<1>3. CASE \E i \in DOMAIN entries : entries[i].key = k
  <2> DEFINE p == V!PlaceOf(entries, k)
             h == [i \in 1..(l - 1) |-> IF i < p THEN g[i] ELSE g[i + 1]]
  <2>1. p \in 1..l /\ entries[p].key = k
    BY <1>1, <1>3 DEF V!PlaceOf
  <2> HIDE DEF p
  <2>2. rest = RemoveAt(entries, p)
    BY <1>3 DEF V!Others, V!RemoveAt, RemoveAt, p
  <2>3. /\ rest \in Seq(S) /\ Len(rest) = l - 1
        /\ \A i \in 1..(l - 1) : rest[i] = entries[IF i < p THEN i ELSE i + 1]
    BY <2>1, <2>2, Removal
  <2>4. \A i \in 1..(l - 1) : (IF i < p THEN i ELSE i + 1) \in 1..l /\ (IF i < p THEN i ELSE i + 1) # p
    BY <1>1, <2>1
  <2>5. g \in [1..l -> Final(keys)] /\ Final(keys) \subseteq Nat
    <3>1. Final(keys) \subseteq Nat
      BY <1>1 DEF Final
    <3> QED
      BY <3>1 DEF Newest
  <2>6. \A i \in 1..(l - 1) : h[i] = g[IF i < p THEN i ELSE i + 1]
    OBVIOUS
  <2>7. \A i \in 1..l : i # p => keys[g[i]] # k
    <3> SUFFICES ASSUME NEW i \in 1..l, i # p, keys[g[i]] = k PROVE FALSE
      OBVIOUS
    <3>1. keys[g[p]] = k /\ g[p] \in Final(keys) /\ g[i] \in Final(keys) /\ g[p] \in Nat /\ g[i] \in Nat
      BY <2>1, <2>5 DEF Newest
    <3>2. g[p] = g[i]
      BY <3>1 DEF Final
    <3>3. i < p \/ p < i
      BY <2>1
    <3> QED
      BY <2>1, <3>1, <3>2, <3>3 DEF Newest
  <2>8. h \in [1..(l - 1) -> Besides(keys, k)]
    <3>1. ASSUME NEW i \in 1..(l - 1) PROVE h[i] \in Besides(keys, k)
      BY <2>4, <2>5, <2>6, <2>7 DEF Besides
    <3> QED
      BY <3>1
  <2>9. \A i \in 1..(l - 1) : rest[i].key = keys[h[i]]
    <3> TAKE i \in 1..(l - 1)
    <3>1. PICK j : j = (IF i < p THEN i ELSE i + 1)
      OBVIOUS
    <3> QED
      BY <2>3, <2>4, <2>6, <3>1 DEF Newest
  <2>10. \A i, j \in 1..(l - 1) : i < j => h[i] < h[j]
    <3> TAKE i, j \in 1..(l - 1)
    <3>1. PICK a : a = IF i < p THEN i ELSE i + 1
      OBVIOUS
    <3>2. PICK b : b = IF j < p THEN j ELSE j + 1
      OBVIOUS
    <3>3. i < j => a < b
      BY <1>1, <2>1, <3>1, <3>2
    <3>4. a \in 1..l /\ b \in 1..l /\ h[i] = g[a] /\ h[j] = g[b]
      BY <2>4, <2>6, <3>1, <3>2
    <3> QED
      BY <3>3, <3>4 DEF Newest
  <2>11. ASSUME NEW m \in Besides(keys, k)
         PROVE  (\E i \in 1..(l - 1) : h[i] = m) \/ (l = n /\ \A i \in 1..(l - 1) : m < h[i])
    <3>1. m \in Final(keys) /\ keys[m] # k
      BY DEF Besides
    <3>2. CASE \E i \in 1..l : g[i] = m
      <4>1. PICK i \in 1..l : g[i] = m
        BY <3>2
      <4>2. i # p
        BY <2>1, <3>1, <4>1 DEF Newest
      <4>3. CASE i < p
        <5>1. i \in 1..(l - 1)
          BY <1>1, <2>1, <4>3
        <5> QED
          BY <4>1, <4>3, <5>1
      <4>4. CASE p < i
        <5>1. i - 1 \in 1..(l - 1) /\ ~(i - 1 < p) /\ (i - 1) + 1 = i
          BY <1>1, <2>1, <4>4
        <5>2. h[i - 1] = g[i]
          BY <2>6, <5>1
        <5> QED
          BY <4>1, <5>1, <5>2
      <4> QED
        BY <2>1, <4>2, <4>3, <4>4
    <3>3. CASE l = n /\ \A i \in 1..l : m < g[i]
      BY <2>4, <2>6, <3>3
    <3> QED
      BY <3>1, <3>2, <3>3 DEF Newest
  <2>12. \A i \in 1..Len(rest) : \E j \in 1..l : rest[i] = entries[j]
    BY <2>3, <2>4
  <2> HIDE DEF h
  <2>13. Follow(rest, keys, k, l = n, h)
    BY <2>3, <2>8, <2>9, <2>10, <2>11 DEF Follow
  <2> QED
    BY <1>1, <2>3, <2>12, <2>13
<1> QED
  BY <1>2, <1>3

\* What is left of a list when the first are dropped.
LEMMA WithoutFirst ==
  ASSUME NEW S, NEW s \in Seq(S), NEW a \in 1..(Len(s) + 1),
         NEW t, t = SubSeq(s, a, Len(s))
  PROVE  /\ t \in Seq(S) /\ Len(t) = Len(s) - a + 1
         /\ \A i \in 1..(Len(s) - a + 1) : t[i] = s[a + i - 1]
  OBVIOUS

\* A list after an element was appended and all but the last n were dropped.
Push(rest, x, n) ==
  LET all == Append(rest, x) IN SubSeq(all, IF Len(all) > n THEN Len(all) - n + 1 ELSE 1, Len(all))
LEMMA Pushed ==
  ASSUME NEW n \in Nat, NEW S, NEW rest \in Seq(S), Len(rest) <= n, NEW x,
         NEW kept, kept = Push(rest, x, n)
  PROVE  \E d \in {0, 1} :
           /\ kept \in Seq(S \cup {x}) /\ Len(kept) = Len(rest) + 1 - d /\ Len(kept) <= n
           /\ \A i \in 1..Len(kept) : kept[i] = IF i + d <= Len(rest) THEN rest[i + d] ELSE x
           /\ d = 1 => Len(rest) = n
<1>0. PICK all : all = Append(rest, x)
  OBVIOUS
<1>1. PICK l : l = Len(rest) /\ l \in Nat
  OBVIOUS
<1>2. /\ all \in Seq(S \cup {x}) /\ Len(all) = l + 1 /\ all[l + 1] = x
      /\ \A i \in 1..l : all[i] = rest[i]
  BY <1>0, <1>1
<1>3. PICK a : a = IF l + 1 > n THEN l + 1 - n + 1 ELSE 1
  OBVIOUS
<1>4. a \in {1, 2} /\ a \in 1..(Len(all) + 1) /\ (a = 2 => l = n) /\ l + 1 - (a - 1) <= n
  <2>1. l <= n /\ Len(all) = l + 1
    BY <1>1, <1>2
  <2>2. CASE l + 1 > n
    <3>1. l = n /\ a = 2
      BY <1>1, <1>3, <2>1, <2>2
    <3> QED
      BY <1>1, <2>1, <3>1
  <2>3. CASE ~(l + 1 > n)
    <3>1. a = 1 /\ l + 1 <= n
      BY <1>1, <1>3, <2>3
    <3> QED
      BY <1>1, <2>1, <3>1
  <2> QED
    BY <2>2, <2>3
<1>5. kept = SubSeq(all, a, Len(all))
  <2>1. kept = SubSeq(all, IF Len(all) > n THEN Len(all) - n + 1 ELSE 1, Len(all))
    BY <1>0, Zenon DEF Push
  <2>2. a = IF Len(all) > n THEN Len(all) - n + 1 ELSE 1
    <3>1. Len(all) = l + 1
      BY <1>2
    <3> QED
      BY <1>1, <1>3, <3>1
  <2> QED
    BY <2>1, <2>2, Zenon
<1>6. /\ kept \in Seq(S \cup {x}) /\ Len(kept) = Len(all) - a + 1
      /\ \A i \in 1..(Len(all) - a + 1) : kept[i] = all[a + i - 1]
  BY <1>2, <1>4, <1>5, WithoutFirst
<1>7. Len(kept) = l + 1 - (a - 1)
  BY <1>2, <1>4, <1>6
<1>8. ASSUME NEW i \in 1..Len(kept) PROVE kept[i] = IF i + (a - 1) <= l THEN rest[i + (a - 1)] ELSE x
  <2>1. i \in 1..(Len(all) - a + 1) /\ a + i - 1 = i + (a - 1) /\ i + (a - 1) \in 1..(l + 1)
    BY <1>1, <1>2, <1>4, <1>6, <1>7
  <2>2. kept[i] = all[i + (a - 1)]
    BY <1>6, <2>1
  <2>3. i + (a - 1) \in 1..l \/ (i + (a - 1) = l + 1 /\ ~(i + (a - 1) <= l))
    BY <1>1, <2>1
  <2>4. i + (a - 1) \in 1..l => i + (a - 1) <= l
    BY <1>1
  <2> QED
    BY <1>2, <2>2, <2>3, <2>4
<1>9. a - 1 \in {0, 1} /\ (a - 1 = 1 => l = n)
  BY <1>4
<1> QED
  BY <1>1, <1>4, <1>6, <1>7, <1>8, <1>9

\* Using a key makes it the last one used.
LEMMA LastUses ==
  ASSUME NEW keys, Listed(keys), NEW k, NEW now, now = Append(keys, k)
  PROVE  /\ Listed(now) /\ Len(keys) \in Nat /\ now[Len(keys) + 1] = k
         /\ Besides(keys, k) \subseteq 1..Len(keys)
         /\ \A m \in 1..Len(keys) : now[m] = keys[m]
         /\ Final(now) = Besides(keys, k) \cup {Len(keys) + 1}
<1>0. PICK N : N = Len(keys)
  OBVIOUS
<1>1. /\ N \in Nat /\ DOMAIN keys = 1..N /\ Listed(now) /\ DOMAIN now = 1..(N + 1)
      /\ now[N + 1] = k /\ \A i \in 1..N : now[i] = keys[i]
  <2>1. PICK T : keys \in Seq(T)
    BY DEF Listed
  <2>2. keys \in Seq(T \cup {k})
    BY <2>1
  <2>3. now \in Seq(T \cup {k}) /\ Len(now) = Len(keys) + 1
    BY <2>2
  <2> QED
    BY <1>0, <2>2, <2>3 DEF Listed
<1>2. Besides(keys, k) \subseteq 1..N
  BY <1>1 DEF Besides, Final
<1>3. ASSUME NEW m \in Final(now), m # N + 1 PROVE m \in Besides(keys, k)
  <2>1. m \in 1..(N + 1) /\ \A j \in 1..(N + 1) : j > m => now[j] # now[m]
    BY <1>1 DEF Final
  <2>2. m \in 1..N /\ N + 1 \in 1..(N + 1) /\ N + 1 > m /\ \A j \in 1..N : j \in 1..(N + 1)
    BY <1>1, <1>3, <2>1
  <2>3. keys[m] # k /\ \A j \in 1..N : j > m => keys[j] # keys[m]
    BY <1>1, <2>1, <2>2
  <2> QED
    BY <1>1, <2>2, <2>3 DEF Besides, Final
<1>4. ASSUME NEW m \in Besides(keys, k) PROVE m \in Final(now)
  <2>1. m \in 1..N /\ keys[m] # k /\ \A j \in 1..N : j > m => keys[j] # keys[m]
    BY <1>1 DEF Besides, Final
  <2>2. \A j \in 1..(N + 1) : j = N + 1 \/ j \in 1..N
    BY <1>1
  <2>3. m \in 1..(N + 1) /\ \A j \in 1..(N + 1) : j > m => now[j] # now[m]
    BY <1>1, <2>1, <2>2
  <2> QED
    BY <1>1, <2>3 DEF Final
<1>5. N + 1 \in Final(now)
  BY <1>1 DEF Final
<1> QED
  BY <1>0, <1>1, <1>2, <1>3, <1>4, <1>5

\* Places in order, beyond which only earlier ones are missing, and those only if full.
Ordered(c, size, B, full) ==
  /\ c \in [1..size -> B]
  /\ \A i, j \in 1..size : i < j => c[i] < c[j]
  /\ \A m \in B : (\E i \in 1..size : c[i] = m) \/ (full /\ \A i \in 1..size : m < c[i])

\* The places after the newest joined and d of the oldest were dropped.
Joining(h, l, N, d) == [i \in 1..(l + 1 - d) |-> IF i + d <= l THEN h[i + d] ELSE N + 1]

\* What joins: at most n places in B, the newest place N + 1, and d dropped if there is no room.
Joinable(n, l, N, B, full, h, d, still) ==
  /\ n \in Nat /\ l \in Nat /\ l <= n /\ N \in Nat /\ B \subseteq 1..N
  /\ full \in BOOLEAN /\ (full => l \in {n, n - 1}) /\ Ordered(h, l, B, full)
  /\ d \in {0, 1} /\ (d = 1 => l = n) /\ l + 1 - d <= n
  /\ still \in BOOLEAN /\ (still <=> (l + 1 - d = n))

\* The newest entry joins the others, which drop their oldest if there is no room.
LEMMA Joined ==
  ASSUME NEW n, NEW l, NEW N, NEW B, NEW full, NEW h, NEW d, NEW still,
         Joinable(n, l, N, B, full, h, d, still)
  PROVE  Ordered(Joining(h, l, N, d), l + 1 - d, B \cup {N + 1}, still)
<1> DEFINE c == Joining(h, l, N, d)
<1> USE DEF Joinable
<1> HIDE DEF c
<1>0. /\ h \in [1..l -> B] /\ \A i, j \in 1..l : i < j => h[i] < h[j]
      /\ \A m \in B : (\E i \in 1..l : h[i] = m) \/ (full /\ \A i \in 1..l : m < h[i])
  BY DEF Ordered
<1>1. \A i \in 1..(l + 1 - d) : i + d \in 1..(l + 1) /\ (i + d <= l => i + d \in 1..l)
  OBVIOUS
<1>2. \A i \in 1..l : h[i] \in B /\ h[i] \in Nat /\ h[i] < N + 1
  <2>1. \A b \in B : b \in Nat /\ b < N + 1
    OBVIOUS
  <2> QED
    BY <1>0, <2>1
<1>3. \A i \in 1..(l + 1 - d) : c[i] = IF i + d <= l THEN h[i + d] ELSE N + 1
  BY DEF Joining, c
<1>4. c \in [1..(l + 1 - d) -> B \cup {N + 1}]
  <2>1. \A i \in 1..(l + 1 - d) : (IF i + d <= l THEN h[i + d] ELSE N + 1) \in B \cup {N + 1}
    BY <1>1, <1>2
  <2> QED
    BY <2>1 DEF Joining, c
<1>5. ASSUME NEW i \in 1..(l + 1 - d), NEW j \in 1..(l + 1 - d), i < j PROVE c[i] < c[j]
  <2>1. i + d \in 1..l /\ i + d < j + d /\ c[i] = h[i + d] /\ i + d <= l
    BY <1>1, <1>3, <1>5
  <2>2. CASE j + d <= l
    <3>1. j + d \in 1..l /\ c[j] = h[j + d]
      BY <1>1, <1>3, <2>2
    <3> QED
      BY <1>0, <2>1, <3>1
  <2>3. CASE ~(j + d <= l)
    BY <1>2, <1>3, <2>1, <2>3
  <2> QED
    BY <2>2, <2>3
<1>6. ASSUME NEW m \in B \cup {N + 1}
      PROVE  \/ \E i \in 1..(l + 1 - d) : c[i] = m
             \/ l + 1 - d = n /\ \A i \in 1..(l + 1 - d) : m < c[i]
  <2>1. CASE m = N + 1
    <3>1. CASE l + 1 - d = 0
      BY <3>1
    <3>2. CASE l + 1 - d # 0
      <4>1. l + 1 - d \in 1..(l + 1 - d) /\ ~((l + 1 - d) + d <= l)
        BY <3>2
      <4> QED
        BY <1>3, <2>1, <4>1
    <3> QED
      BY <3>1, <3>2
  <2>2. CASE m \in B /\ \E i \in 1..l : h[i] = m
    <3>1. PICK i \in 1..l : h[i] = m
      BY <2>2
    <3>2. CASE i > d
      <4>1. i - d \in 1..(l + 1 - d) /\ (i - d) + d = i /\ i <= l
        BY <3>2
      <4> QED
        BY <1>3, <3>1, <4>1
    <3>3. CASE ~(i > d)
      <4>1. i = 1 /\ d = 1 /\ l + 1 - d = n
        BY <3>3
      <4>2. ASSUME NEW j \in 1..(l + 1 - d) PROVE m < c[j]
        <5>1. CASE j + d <= l
          <6>1. j + d \in 1..l /\ 1 < j + d /\ c[j] = h[j + d]
            BY <1>1, <1>3, <4>1, <5>1
          <6> QED
            BY <1>0, <3>1, <4>1, <6>1
        <5>2. CASE ~(j + d <= l)
          BY <1>2, <1>3, <3>1, <5>2
        <5> QED
          BY <5>1, <5>2
      <4> QED
        BY <4>1, <4>2
    <3> QED
      BY <3>2, <3>3
  <2>3. CASE m \in B /\ full /\ \A i \in 1..l : m < h[i]
    <3>1. l + 1 - d = n
      BY <2>3
    <3>2. m < N + 1
      BY <2>3
    <3>3. ASSUME NEW j \in 1..(l + 1 - d) PROVE m < c[j]
      BY <1>1, <1>3, <2>3, <3>2
    <3> QED
      BY <3>1, <3>3
  <2> QED
    BY <1>0, <2>1, <2>2, <2>3
<1> QED
  BY <1>4, <1>5, <1>6 DEF Ordered, c

\* The entries are of the keys used last; they are x and some of the others.
Recently(entries, keys, n) == \E g : Newest(entries, keys, n, g)
Among(entries, x, others) ==
  \A i \in 1..Len(entries) : entries[i] = x \/ \E j \in 1..Len(others) : entries[i] = others[j]

\* Putting an entry in a store makes its key the one used last and drops the oldest beyond n.
LEMMA NewestAfterPut ==
  ASSUME NEW n \in Nat, NEW S, NEW entries \in Seq(S), NEW keys, Listed(keys), NEW g,
         Newest(entries, keys, n, g), NEW k, NEW x, x.key = k,
         NEW kept, kept = Push(V!Others(entries, k), x, n)
  PROVE  /\ kept \in Seq(S \cup {x}) /\ Listed(Append(keys, k))
         /\ Among(kept, x, entries) /\ Recently(kept, Append(keys, k), n)
<1>0. PICK rest, now : rest = V!Others(entries, k) /\ now = Append(keys, k)
  OBVIOUS
<1>1. rest \in Seq(S) /\ Len(rest) \in {Len(entries), Len(entries) - 1}
  BY <1>0, OthersInOrder
<1>13. \A i \in 1..Len(rest) : \E j \in 1..Len(entries) : rest[i] = entries[j]
  BY <1>0, OthersInOrder
<1>2. PICK h : Follow(rest, keys, k, Len(entries) = n, h)
  BY <1>0, OthersInOrder
<1>3. PICK l, N, B, full : l = Len(rest) /\ N = Len(keys) /\ B = Besides(keys, k) /\ full = (Len(entries) = n)
  OBVIOUS
<1>4. Len(entries) \in Nat /\ Len(entries) <= n /\ l \in Nat /\ l <= n /\ (full => l \in {n, n - 1}) /\ full \in BOOLEAN
  <2>1. Len(entries) \in Nat /\ Len(entries) <= n
    BY DEF Newest
  <2>2. Len(rest) \in Nat /\ (Len(rest) = Len(entries) \/ Len(rest) = Len(entries) - 1)
    BY <1>1
  <2>3. l \in Nat /\ l <= n /\ (l = Len(entries) \/ l = Len(entries) - 1)
    BY <1>3, <2>1, <2>2
  <2>4. full \in BOOLEAN /\ (full => Len(entries) = n)
    BY <1>3, Zenon
  <2>5. Len(entries) = n => l \in {n, n - 1}
    BY <2>3
  <2> QED
    BY <2>1, <2>3, <2>4, <2>5, Zenon
<1>5. PICK d \in {0, 1} :
        /\ kept \in Seq(S \cup {x}) /\ Len(kept) = l + 1 - d /\ Len(kept) <= n
        /\ \A i \in 1..Len(kept) : kept[i] = IF i + d <= l THEN rest[i + d] ELSE x
        /\ d = 1 => l = n
  <2>1. Len(rest) <= n /\ kept = Push(rest, x, n) /\ rest \in Seq(S)
    BY <1>0, <1>1, <1>3, <1>4
  <2>2. \E d \in {0, 1} :
           /\ kept \in Seq(S \cup {x}) /\ Len(kept) = Len(rest) + 1 - d /\ Len(kept) <= n
           /\ \A i \in 1..Len(kept) : kept[i] = IF i + d <= Len(rest) THEN rest[i + d] ELSE x
           /\ d = 1 => Len(rest) = n
    BY <2>1, Pushed
  <2> QED
    BY <1>3, <2>2, Zenon
<1>6. /\ Listed(now) /\ N \in Nat /\ now[N + 1] = k /\ B \subseteq 1..N
      /\ \A m \in 1..N : now[m] = keys[m]
      /\ Final(now) = B \cup {N + 1}
  <2>4. Listed(now)
    BY <1>0, LastUses, Zenon
  <2>1. Len(keys) \in Nat /\ now[Len(keys) + 1] = k /\ Besides(keys, k) \subseteq 1..Len(keys)
    BY <1>0, LastUses
  <2>2. \A m \in 1..Len(keys) : now[m] = keys[m]
    BY <1>0, LastUses
  <2>3. Final(now) = Besides(keys, k) \cup {Len(keys) + 1}
    BY <1>0, LastUses
  <2> QED
    BY <1>3, <2>1, <2>2, <2>3, <2>4, Zenon
<1>7. PICK c : c = Joining(h, l, N, d)
  OBVIOUS
<1>8. /\ h \in [1..l -> B] /\ \A i, j \in 1..l : i < j => h[i] < h[j]
      /\ \A m \in B : (\E i \in 1..l : h[i] = m) \/ (full /\ \A i \in 1..l : m < h[i])
      /\ \A i \in 1..l : rest[i].key = keys[h[i]]
  BY <1>2, <1>3 DEF Follow
<1>14. PICK still \in BOOLEAN : still <=> (l + 1 - d = n)
  OBVIOUS
<1>9. Ordered(c, l + 1 - d, B \cup {N + 1}, still)
  <2>1. l + 1 - d <= n /\ (d = 1 => l = n)
    BY <1>5
  <2>2. Ordered(h, l, B, full)
    BY <1>8 DEF Ordered
  <2>3. B \subseteq 1..N /\ N \in Nat
    BY <1>6
  <2>4. l \in Nat /\ l <= n /\ (full => l \in {n, n - 1}) /\ full \in BOOLEAN
    BY <1>4
  <2>5. still \in BOOLEAN /\ (still <=> (l + 1 - d = n))
    BY <1>14
  <2> QED
    <3>1. Joinable(n, l, N, B, full, h, d, still)
      BY <2>1, <2>2, <2>3, <2>4, <2>5 DEF Joinable
    <3> QED
      BY <1>7, <3>1, Joined, Zenon
<1>10. ASSUME NEW i \in 1..Len(kept)
       PROVE  (i + d \in 1..l /\ kept[i] = rest[i + d] /\ c[i] = h[i + d]) \/ (kept[i] = x /\ c[i] = N + 1)
  <2>1. i \in 1..(l + 1 - d) /\ (i + d <= l => i + d \in 1..l)
    BY <1>4, <1>5
  <2>2. c[i] = IF i + d <= l THEN h[i + d] ELSE N + 1
    BY <1>7, <2>1 DEF Joining
  <2> QED
    BY <1>5, <2>1, <2>2
<1>11. Newest(kept, now, n, c)
  <2>1. \A i \in 1..Len(kept) : kept[i].key = now[c[i]]
    <3> TAKE i \in 1..Len(kept)
    <3>1. CASE i + d \in 1..l /\ kept[i] = rest[i + d] /\ c[i] = h[i + d]
      <4>1. h[i + d] \in 1..N
        BY <1>6, <1>8, <3>1
      <4> QED
        BY <1>6, <1>8, <3>1, <4>1
    <3>2. CASE kept[i] = x /\ c[i] = N + 1
      BY <1>6, <3>2
    <3> QED
      BY <1>10, <3>1, <3>2
  <2> QED
    BY <1>5, <1>6, <1>9, <1>14, <2>1 DEF Newest, Ordered
<1>12. Among(kept, x, entries)
  BY <1>3, <1>10, <1>13 DEF Among
<1> QED
  BY <1>0, <1>5, <1>6, <1>11, <1>12 DEF Recently
\* A candidate and the one a key is of.
Shaped(c) == c = [layout |-> c.layout, numbers |-> c.numbers, options |-> c.options]
Of(key) == [layout |-> key[1], numbers |-> key[2], options |-> key[3]]
About(answer, c) == answer[1] \in V!Hooks /\ answer[2] = c

\* An entry answers for the candidate of its key.
Answers(more, s, k, answer) ==
  /\ s \in {"evaluations", "value_gradients", "residuals", "jacobians"} => About(answer, Of(k))
  /\ s = "metrics" => About(answer[1], Of(k)) /\ (more => About(answer[2], Of(k)))
  /\ s = "verification" =>
        answer = [found |-> V!True("verify", Of(k[1])), independent |-> k[2], source |-> k[3]]

\* A store of the entries used last, each of which answers for its candidate.
Tidy(more, s, entries, keys) ==
  /\ Listed(entries) /\ Listed(keys) /\ Recently(entries, keys, CacheSize)
  /\ \A i \in 1..Len(entries) : Answers(more, s, entries[i].key, entries[i].answer)

\* The state of an evaluator.
Work(X, Y) == [stores : [V!Stores -> X], count : [V!Counters -> [attempt : Nat, success : Nat]],
               asked : [V!Hooks -> Nat], served : [V!Hooks -> Nat], used : [V!Stores -> Y]]
Whole(e) == \E X, Y : e \in Work(X, Y)

\* The counters are the work of the hooks.
Tallies(numbers, questions, answers) ==
  /\ numbers["evaluation"].attempt = questions["evaluate"]
  /\ numbers["evaluation"].success = answers["evaluate"] + answers["value_and_gradient"]
  /\ numbers["gradient"].attempt = questions["gradient"]
  /\ numbers["gradient"].success = answers["gradient"] + answers["value_and_gradient"]
  /\ numbers["residual"].attempt = questions["residuals"]
  /\ numbers["residual"].success = answers["residuals"] + answers["combined"]
  /\ numbers["jacobian"].attempt = questions["jacobian"]
  /\ numbers["jacobian"].success = answers["jacobian"] + answers["combined"]
  /\ numbers["verification"].attempt = questions["verify"]
  /\ numbers["verification"].success = answers["verify"]

Sound(more, e) ==
  /\ Whole(e) /\ Tallies(e.count, e.asked, e.served)
  /\ \A s \in V!Stores : Tidy(more, s, e.stores[s], e.used[s])

\* The hooks with the counters of their attempts and successes.
Counting(h, attempt, successes) ==
  \/ h = "evaluate" /\ attempt = "evaluation" /\ successes = {"evaluation"}
  \/ /\ h = "value_and_gradient" /\ attempt = "value_gradient"
     /\ successes = {"value_gradient", "evaluation", "gradient"}
  \/ h = "gradient" /\ attempt = "gradient" /\ successes = {"gradient"}
  \/ h = "residuals" /\ attempt = "residual" /\ successes = {"residual"}
  \/ h = "jacobian" /\ attempt = "jacobian" /\ successes = {"jacobian"}
  \/ h = "combined" /\ attempt = "combined" /\ successes = {"combined", "residual", "jacobian"}
  \/ h = "verify" /\ attempt = "verification" /\ successes = {"verification"}

\* A call counts an attempt, and its successes if the hook answered.
LEMMA CalledIs ==
  ASSUME NEW X, NEW Y, NEW e \in Work(X, Y), NEW h \in V!Hooks, NEW attempt \in V!Counters,
         NEW successes, NEW good, NEW f, f = V!Called(e, h, attempt, successes, good)
  PROVE  /\ f \in Work(X, Y) /\ f.stores = e.stores /\ f.used = e.used
         /\ \A g \in V!Hooks :
              /\ f.asked[g] = IF g = h THEN e.asked[g] + 1 ELSE e.asked[g]
              /\ f.served[g] = IF g = h /\ h \in good THEN e.served[g] + 1 ELSE e.served[g]
         /\ \A n \in V!Counters :
              /\ f.count[n].attempt = e.count[n].attempt + (IF n = attempt THEN 1 ELSE 0)
              /\ f.count[n].success = e.count[n].success + (IF h \in good /\ n \in successes THEN 1 ELSE 0)
<1>1. PICK tried : tried = [e EXCEPT !.asked[h] = @ + 1]
  OBVIOUS
<1>2. /\ tried \in Work(X, Y)
      /\ tried.stores = e.stores /\ tried.used = e.used /\ tried.count = e.count /\ tried.served = e.served
      /\ \A g \in V!Hooks : tried.asked[g] = IF g = h THEN e.asked[g] + 1 ELSE e.asked[g]
  BY <1>1 DEF Work
<1>3. PICK answered : answered = IF h \in good THEN [tried EXCEPT !.served[h] = @ + 1] ELSE tried
  OBVIOUS
<1>4. /\ answered \in Work(X, Y) /\ answered.stores = tried.stores /\ answered.used = tried.used
      /\ answered.count = tried.count /\ answered.asked = tried.asked
      /\ \A g \in V!Hooks : answered.served[g] = IF g = h /\ h \in good THEN tried.served[g] + 1 ELSE tried.served[g]
  <2>1. CASE h \in good
    <3>1. answered = [tried EXCEPT !.served[h] = @ + 1]
      BY <1>3, <2>1
    <3> QED
      BY <1>2, <2>1, <3>1 DEF Work
  <2>2. CASE h \notin good
    BY <1>2, <1>3, <2>2
  <2> QED
    BY <2>1, <2>2
<1>5. PICK counted :
        counted = [n \in V!Counters |->
                     [attempt |-> e.count[n].attempt + (IF n = attempt THEN 1 ELSE 0),
                      success |-> e.count[n].success + (IF h \in good /\ n \in successes THEN 1 ELSE 0)]]
  OBVIOUS
<1>6. /\ counted \in [V!Counters -> [attempt : Nat, success : Nat]]
      /\ \A n \in V!Counters :
            /\ counted[n].attempt = e.count[n].attempt + (IF n = attempt THEN 1 ELSE 0)
            /\ counted[n].success = e.count[n].success + (IF h \in good /\ n \in successes THEN 1 ELSE 0)
  <2>1. \A n \in V!Counters : e.count[n].attempt \in Nat /\ e.count[n].success \in Nat
    BY DEF Work
  <2> QED
    BY <1>5, <2>1
<1>7. f = [answered EXCEPT !.count = counted]
  BY <1>1, <1>3, <1>5, Zenon DEF V!Called
<1>8. /\ f \in Work(X, Y) /\ f.stores = answered.stores /\ f.used = answered.used
      /\ f.asked = answered.asked /\ f.served = answered.served /\ f.count = counted
  <2> HIDE <1>5
  <2> QED
    BY <1>4, <1>6, <1>7 DEF Work
<1> QED
  BY <1>2, <1>4, <1>6, <1>8

\* A call leaves a sound evaluator, and its stores as they were.
LEMMA CalledKeeps ==
  ASSUME NEW more, NEW e, Sound(more, e), NEW h, NEW attempt, NEW successes,
         Counting(h, attempt, successes), NEW good
  PROVE  Sound(more, V!Called(e, h, attempt, successes, good))
<1>1. PICK f : f = V!Called(e, h, attempt, successes, good)
  OBVIOUS
<1>2. h \in V!Hooks /\ attempt \in V!Counters /\ Tallies(e.count, e.asked, e.served)
  BY DEF Counting, V!Hooks, V!Counters, Sound
<1>3. PICK X, Y : e \in Work(X, Y)
  BY DEF Sound, Whole
<1>4. f \in Work(X, Y) /\ f.stores = e.stores /\ f.used = e.used
  BY <1>1, <1>2, <1>3, CalledIs
<1>5. /\ \A g \in V!Hooks :
           /\ f.asked[g] = IF g = h THEN e.asked[g] + 1 ELSE e.asked[g]
           /\ f.served[g] = IF g = h /\ h \in good THEN e.served[g] + 1 ELSE e.served[g]
      /\ \A n \in V!Counters :
           /\ f.count[n].attempt = e.count[n].attempt + (IF n = attempt THEN 1 ELSE 0)
           /\ f.count[n].success = e.count[n].success + (IF h \in good /\ n \in successes THEN 1 ELSE 0)
  BY <1>1, <1>2, <1>3, CalledIs
<1>6. /\ \A g \in V!Hooks : e.asked[g] \in Nat /\ e.served[g] \in Nat
      /\ \A n \in V!Counters : e.count[n].attempt \in Nat /\ e.count[n].success \in Nat
  BY <1>3 DEF Work
<1>7. Tallies(f.count, f.asked, f.served)
  BY <1>2, <1>5, <1>6 DEF Tallies, Counting, V!Hooks, V!Counters
<1>8. \A s \in V!Stores : Tidy(more, s, f.stores[s], f.used[s])
  BY <1>4 DEF Sound
<1> QED
  BY <1>1, <1>4, <1>7, <1>8 DEF Sound, Whole

\* Putting an entry fills its store and is a use of its key.
LEMMA PutIs ==
  ASSUME NEW e, Whole(e), NEW s \in V!Stores, NEW k, NEW answer, NEW f, f = V!Put(e, s, k, answer)
  PROVE  /\ Whole(f) /\ f.count = e.count /\ f.asked = e.asked /\ f.served = e.served
         /\ f.stores[s] = Push(V!Others(e.stores[s], k), [key |-> k, answer |-> answer], CacheSize)
         /\ f.used[s] = Append(e.used[s], k)
         /\ \A t \in V!Stores : t # s => f.stores[t] = e.stores[t] /\ f.used[t] = e.used[t]
<1>1. PICK X, Y : e \in Work(X, Y)
  BY DEF Whole
<1>2. PICK kept : kept = Push(V!Others(e.stores[s], k), [key |-> k, answer |-> answer], CacheSize)
  OBVIOUS
<1>3. PICK filled : filled = [e EXCEPT !.stores[s] = kept]
  OBVIOUS
<1>4. f = [filled EXCEPT !.used[s] = Append(@, k)]
  BY <1>2, <1>3, Zenon DEF V!Put, Push
<1>5. PICK keys : keys = Append(e.used[s], k)
  OBVIOUS
<1> HIDE <1>2
<1>6. /\ filled \in Work(X \cup {kept}, Y) /\ filled.count = e.count /\ filled.asked = e.asked
      /\ filled.served = e.served /\ filled.used = e.used
      /\ \A t \in V!Stores : filled.stores[t] = IF t = s THEN kept ELSE e.stores[t]
  BY <1>1, <1>3 DEF Work
<1>7. f = [filled EXCEPT !.used[s] = keys]
  BY <1>4, <1>5, <1>6
<1> HIDE <1>4, <1>5
<1>8. /\ f \in Work(X \cup {kept}, Y \cup {keys}) /\ f.count = filled.count /\ f.asked = filled.asked
      /\ f.served = filled.served /\ f.stores = filled.stores
      /\ \A t \in V!Stores : f.used[t] = IF t = s THEN keys ELSE filled.used[t]
  BY <1>6, <1>7 DEF Work
<1>9. Whole(f)
  BY <1>8, Zenon DEF Whole
<1> QED
  BY <1>2, <1>5, <1>6, <1>8, <1>9

\* Putting an entry that answers for its candidate leaves a sound evaluator.
LEMMA PutKeeps ==
  ASSUME CacheSize \in Nat, NEW more, NEW e, Sound(more, e), NEW s \in V!Stores, NEW k, NEW answer,
         Answers(more, s, k, answer)
  PROVE  Sound(more, V!Put(e, s, k, answer))
<1>1. PICK f : f = V!Put(e, s, k, answer)
  OBVIOUS
<1>2. Whole(e) /\ Tallies(e.count, e.asked, e.served)
  BY DEF Sound
<1>4. PICK kept : kept = f.stores[s]
  OBVIOUS
<1>5. PICK x : x = [key |-> k, answer |-> answer]
  OBVIOUS
<1>3. Whole(f) /\ f.count = e.count /\ f.asked = e.asked /\ f.served = e.served
  BY <1>1, <1>2, <1>5, PutIs
<1>6. kept = Push(V!Others(e.stores[s], k), x, CacheSize)
  BY <1>1, <1>2, <1>4, <1>5, PutIs
<1>7. f.used[s] = Append(e.used[s], k)
  BY <1>1, <1>2, <1>5, PutIs
<1>8. \A t \in V!Stores : t # s => f.stores[t] = e.stores[t] /\ f.used[t] = e.used[t]
  BY <1>1, <1>2, <1>5, PutIs
<1>9. PICK S, g, entries, keys :
        /\ entries = e.stores[s] /\ keys = e.used[s]
        /\ entries \in Seq(S) /\ Listed(keys) /\ Newest(entries, keys, CacheSize, g)
  BY DEF Sound, Tidy, Listed, Recently
<1>10. \A i \in 1..Len(entries) : Answers(more, s, entries[i].key, entries[i].answer)
  BY <1>9 DEF Sound, Tidy
<1>11. x.key = k /\ x.answer = answer
  BY <1>5
<1>12. kept = Push(V!Others(entries, k), x, CacheSize)
  BY <1>6, <1>9
<1>16. kept \in Seq(S \cup {x}) /\ Listed(Append(keys, k))
  BY <1>9, <1>11, <1>12, NewestAfterPut
<1>17. Among(kept, x, entries)
  BY <1>9, <1>11, <1>12, NewestAfterPut
<1>18. Recently(kept, Append(keys, k), CacheSize)
  BY <1>9, <1>11, <1>12, NewestAfterPut
<1>13. \A i \in 1..Len(kept) : Answers(more, s, kept[i].key, kept[i].answer)
  BY <1>10, <1>11, <1>17 DEF Among
<1>14. Tidy(more, s, kept, Append(keys, k))
  BY <1>13, <1>16, <1>18, Zenon DEF Tidy, Listed
<1>15. \A t \in V!Stores : Tidy(more, t, f.stores[t], f.used[t])
  <2>1. Tidy(more, s, f.stores[s], f.used[s])
    BY <1>4, <1>7, <1>9, <1>14
  <2> QED
    BY <1>8, <2>1 DEF Sound
<1> QED
  BY <1>1, <1>2, <1>3, <1>15 DEF Sound

\* What a store has of a key answers for its candidate.
LEMMA GetKept ==
  ASSUME NEW more, NEW e, Sound(more, e), NEW s \in V!Stores, NEW k, V!Has(e, s, k)
  PROVE  Answers(more, s, k, V!Get(e, s, k))
<1>1. PICK entries : entries = e.stores[s]
  OBVIOUS
<1>2. PICK p : p = V!PlaceOf(entries, k)
  OBVIOUS
<1>3. p \in DOMAIN entries /\ entries[p].key = k
  BY <1>1, <1>2, Zenon DEF V!Has, V!PlaceOf
<1>4. DOMAIN entries = 1..Len(entries)
  BY <1>1 DEF Sound, Tidy, Listed
<1>5. Answers(more, s, entries[p].key, entries[p].answer)
  BY <1>1, <1>3, <1>4 DEF Sound, Tidy
<1>6. V!Get(e, s, k) = entries[p].answer
  BY <1>1, <1>2 DEF V!Get
<1> QED
  BY <1>3, <1>5, <1>6

\* A hit leaves a sound evaluator.
LEMMA TouchKeeps ==
  ASSUME CacheSize \in Nat, NEW more, NEW e, Sound(more, e), NEW s \in V!Stores, NEW k, V!Has(e, s, k)
  PROVE  Sound(more, V!Touch(e, s, k))
  BY GetKept, PutKeeps, Zenon DEF V!Touch

\* The candidate of a key is the one it was made of.
LEMMA KeyIsOf ==
  ASSUME NEW c, Shaped(c)
  PROVE  Of(V!Key(c)) = c
BY DEF Shaped, Of, V!Key

\* What a hook says of a candidate is about it.
LEMMA TrueIsAbout ==
  ASSUME NEW h \in V!Hooks, NEW c
  PROVE  About(V!True(h, c), c)
BY DEF V!True, About

\* What a store has of a candidate is about it.
LEMMA HitIsAbout ==
  ASSUME NEW more, NEW e, Sound(more, e), NEW c, Shaped(c),
         NEW s \in {"evaluations", "value_gradients", "residuals", "jacobians"}, V!Has(e, s, V!Key(c))
  PROVE  About(V!Get(e, s, V!Key(c)), c)
<1>1. s \in V!Stores
  BY DEF V!Stores
<1>2. Answers(more, s, V!Key(c), V!Get(e, s, V!Key(c)))
  BY <1>1, GetKept
<1> QED
  BY <1>2, KeyIsOf DEF Answers

\* Putting what is about a candidate under its key leaves a sound evaluator.
LEMMA AnswerKeeps ==
  ASSUME CacheSize \in Nat, NEW more, NEW e, Sound(more, e), NEW c, Shaped(c),
         NEW s \in {"evaluations", "value_gradients", "residuals", "jacobians"},
         NEW answer, About(answer, c)
  PROVE  Sound(more, V!Put(e, s, V!Key(c), answer))
<1>1. s \in V!Stores
  BY DEF V!Stores
<1>2. Answers(more, s, V!Key(c), answer)
  BY KeyIsOf DEF Answers
<1> QED
  BY <1>1, <1>2, PutKeeps, Zenon

\* An operation with one store leaves a sound evaluator and answers for its candidate.
LEMMA StoredKeeps ==
  ASSUME CacheSize \in Nat, NEW more, NEW e, Sound(more, e), NEW c, Shaped(c),
         NEW s \in {"evaluations", "residuals", "jacobians"}, NEW h, NEW counter,
         Counting(h, counter, {counter}), NEW good,
         NEW out, out = V!Stored(e, s, V!Key(c), h, c, counter, good)
  PROVE  Sound(more, out.e) /\ (out.answer = None \/ About(out.answer, c))
<1> DEFINE after == V!Called(e, h, counter, {counter}, good)
<1>1. s \in V!Stores /\ s \in {"evaluations", "value_gradients", "residuals", "jacobians"}
  BY DEF V!Stores
<1>2. Sound(more, after)
  BY CalledKeeps, Zenon
<1> HIDE DEF after
<1>3. h \in V!Hooks
  BY DEF Counting, V!Hooks
<1>4. CASE V!Has(e, s, V!Key(c))
  <2>1. out = V!Outcome(V!Touch(e, s, V!Key(c)), V!Get(e, s, V!Key(c)))
    BY <1>4, Zenon DEF V!Stored
  <2>2. Sound(more, V!Touch(e, s, V!Key(c)))
    BY <1>1, <1>4, TouchKeeps, Zenon
  <2>3. About(V!Get(e, s, V!Key(c)), c)
    BY <1>1, <1>4, HitIsAbout, Zenon
  <2> QED
    BY <2>1, <2>2, <2>3 DEF V!Outcome
<1>5. CASE ~V!Has(e, s, V!Key(c)) /\ h \in good
  <2>1. out = V!Outcome(V!Put(after, s, V!Key(c), V!True(h, c)), V!True(h, c))
    BY <1>5, Zenon DEF V!Stored, after
  <2>2. About(V!True(h, c), c)
    BY <1>3, TrueIsAbout, Zenon
  <2>3. Sound(more, V!Put(after, s, V!Key(c), V!True(h, c)))
    BY <1>1, <1>2, <2>2, AnswerKeeps, Zenon
  <2> QED
    BY <2>1, <2>2, <2>3 DEF V!Outcome
<1>6. CASE ~V!Has(e, s, V!Key(c)) /\ h \notin good
  <2>1. out = V!Outcome(after, None)
    BY <1>6, Zenon DEF V!Stored, after
  <2> QED
    BY <1>2, <2>1 DEF V!Outcome
<1> QED
  BY <1>4, <1>5, <1>6

\* Likewise each single one.
LEMMA EvaluatedKeeps ==
  ASSUME CacheSize \in Nat, NEW more, NEW e, Sound(more, e), NEW c, Shaped(c), NEW good,
         NEW out, out = V!Evaluated(e, c, good)
  PROVE  Sound(more, out.e) /\ (out.answer = None \/ About(out.answer, c))
<1>1. Counting("evaluate", "evaluation", {"evaluation"})
  BY DEF Counting
<1>2. out = V!Stored(e, "evaluations", V!Key(c), "evaluate", c, "evaluation", good)
  BY DEF V!Evaluated
<1>3. "evaluations" \in {"evaluations", "residuals", "jacobians"}
  OBVIOUS
<1> QED
  BY <1>1, <1>2, <1>3, StoredKeeps, Zenon

\* Likewise the residuals.
LEMMA ResidualsKeep ==
  ASSUME CacheSize \in Nat, NEW more, NEW e, Sound(more, e), NEW c, Shaped(c), NEW good,
         NEW out, out = V!Residuals(e, c, good)
  PROVE  Sound(more, out.e) /\ (out.answer = None \/ About(out.answer, c))
<1>1. Counting("residuals", "residual", {"residual"})
  BY DEF Counting
<1>2. out = V!Stored(e, "residuals", V!Key(c), "residuals", c, "residual", good)
  BY DEF V!Residuals
<1>3. "residuals" \in {"evaluations", "residuals", "jacobians"}
  OBVIOUS
<1> QED
  BY <1>1, <1>2, <1>3, StoredKeeps, Zenon

\* Likewise the Jacobian.
LEMMA JacobianKeeps ==
  ASSUME CacheSize \in Nat, NEW more, NEW e, Sound(more, e), NEW c, Shaped(c), NEW good,
         NEW out, out = V!Jacobian(e, c, good)
  PROVE  Sound(more, out.e) /\ (out.answer = None \/ About(out.answer, c))
<1>1. Counting("jacobian", "jacobian", {"jacobian"})
  BY DEF Counting
<1>2. out = V!Stored(e, "jacobians", V!Key(c), "jacobian", c, "jacobian", good)
  BY DEF V!Jacobian
<1>3. "jacobians" \in {"evaluations", "residuals", "jacobians"}
  OBVIOUS
<1> QED
  BY <1>1, <1>2, <1>3, StoredKeeps, Zenon

\* Likewise the gradient, which has no store.
LEMMA GradientKeeps ==
  ASSUME NEW more, NEW e, Sound(more, e), NEW c, NEW good, NEW out, out = V!Gradient(e, c, good)
  PROVE  Sound(more, out.e) /\ (out.answer = None \/ About(out.answer, c))
<1>1. Counting("gradient", "gradient", {"gradient"})
  BY DEF Counting
<1>2. Sound(more, V!Called(e, "gradient", "gradient", {"gradient"}, good))
  BY <1>1, CalledKeeps, Zenon
<1>3. About(V!True("gradient", c), c)
  BY TrueIsAbout DEF V!Hooks
<1>4. out.e = V!Called(e, "gradient", "gradient", {"gradient"}, good)
  BY DEF V!Gradient, V!Outcome
<1>5. out.answer = IF "gradient" \in good THEN V!True("gradient", c) ELSE None
  BY DEF V!Gradient, V!Outcome
<1> QED
  BY <1>2, <1>3, <1>4, <1>5

\* Two answers about one candidate, kept in two stores, leave a sound evaluator.
LEMMA PairKeeps ==
  ASSUME CacheSize \in Nat, NEW more, NEW e, Sound(more, e), NEW c, Shaped(c),
         NEW s \in {"evaluations", "value_gradients", "residuals", "jacobians"},
         NEW t \in {"evaluations", "value_gradients", "residuals", "jacobians"},
         NEW answer, About(answer, c), NEW out,
         out = V!Outcome(V!Put(V!Put(e, s, V!Key(c), answer), t, V!Key(c), answer), <<answer, answer>>)
  PROVE  Sound(more, out.e) /\ About(out.answer[1], c) /\ About(out.answer[2], c)
<1>1. Sound(more, V!Put(e, s, V!Key(c), answer))
  BY AnswerKeeps, Zenon
<1>2. Sound(more, V!Put(V!Put(e, s, V!Key(c), answer), t, V!Key(c), answer))
  BY <1>1, AnswerKeeps, Zenon
<1>3. out.e = V!Put(V!Put(e, s, V!Key(c), answer), t, V!Key(c), answer) /\ out.answer = <<answer, answer>>
  BY DEF V!Outcome
<1> QED
  BY <1>2, <1>3

\* Two hits, of which the second is in another store, leave a sound evaluator.
LEMMA PairOfHits ==
  ASSUME CacheSize \in Nat, NEW more, NEW e, Sound(more, e), NEW c, Shaped(c),
         NEW s \in {"evaluations", "value_gradients", "residuals", "jacobians"},
         NEW t \in {"evaluations", "value_gradients", "residuals", "jacobians"}, s # t,
         V!Has(e, s, V!Key(c)), V!Has(e, t, V!Key(c))
  PROVE  Sound(more, V!Touch(V!Touch(e, s, V!Key(c)), t, V!Key(c)))
<1>1. s \in V!Stores /\ t \in V!Stores
  BY DEF V!Stores
<1>2. PICK f : f = V!Touch(e, s, V!Key(c))
  OBVIOUS
<1>3. Sound(more, f)
  BY <1>1, <1>2, TouchKeeps, Zenon
<1>4. f = V!Put(e, s, V!Key(c), V!Get(e, s, V!Key(c)))
  BY <1>2, Zenon DEF V!Touch
<1>5. PICK x : x = [key |-> V!Key(c), answer |-> V!Get(e, s, V!Key(c))]
  OBVIOUS
<1>6. f.stores[t] = e.stores[t]
  <2>1. Whole(e)
    BY DEF Sound
  <2> QED
    BY <1>1, <1>4, <1>5, <2>1, PutIs
<1>7. V!Has(f, t, V!Key(c))
  BY <1>6, Zenon DEF V!Has
<1> QED
  BY <1>1, <1>2, <1>3, <1>7, TouchKeeps, Zenon

\* Value and gradient leave a sound evaluator and are both about the candidate.
LEMMA ValueAndGradientKeep ==
  ASSUME CacheSize \in Nat, NEW more, NEW e, Sound(more, e), NEW c, Shaped(c), NEW good,
         NEW out, out = V!ValueAndGradient(e, c, good)
  PROVE  /\ Sound(more, out.e)
         /\ out.answer = None \/ (About(out.answer[1], c) /\ About(out.answer[2], c))
<1> DEFINE k == V!Key(c)
           after == V!Called(e, "value_and_gradient", "value_gradient",
                           {"value_gradient", "evaluation", "gradient"}, good)
           pair == V!True("value_and_gradient", c)
<1>0. /\ "evaluations" \in {"evaluations", "value_gradients", "residuals", "jacobians"}
      /\ "value_gradients" \in {"evaluations", "value_gradients", "residuals", "jacobians"}
      /\ "value_gradients" # "evaluations"
  OBVIOUS
<1>1. Counting("value_and_gradient", "value_gradient", {"value_gradient", "evaluation", "gradient"})
  BY DEF Counting
<1>2. Sound(more, after)
  BY <1>1, CalledKeeps, Zenon
<1>3. About(pair, c)
  BY TrueIsAbout DEF V!Hooks
<1>4. CASE V!Has(e, "value_gradients", k) /\ V!Has(e, "evaluations", k)
  <2>1. out = V!Outcome(V!Touch(V!Touch(e, "value_gradients", k), "evaluations", k),
                      <<V!Get(e, "evaluations", k), V!Get(e, "value_gradients", k)>>)
    BY <1>4, Zenon DEF V!ValueAndGradient
  <2>2. Sound(more, V!Touch(V!Touch(e, "value_gradients", k), "evaluations", k))
    BY <1>0, <1>4, PairOfHits, Zenon
  <2>3. About(V!Get(e, "evaluations", k), c) /\ About(V!Get(e, "value_gradients", k), c)
    BY <1>0, <1>4, HitIsAbout, Zenon
  <2>4. PICK a, b : a = V!Get(e, "evaluations", k) /\ b = V!Get(e, "value_gradients", k)
    OBVIOUS
  <2>5. out.e = V!Touch(V!Touch(e, "value_gradients", k), "evaluations", k) /\ out.answer = <<a, b>>
    BY <2>1, <2>4 DEF V!Outcome
  <2> QED
    BY <2>2, <2>3, <2>4, <2>5
<1>5. CASE ~(V!Has(e, "value_gradients", k) /\ V!Has(e, "evaluations", k)) /\ "value_and_gradient" \in good
  <2> HIDE DEF after, pair, k
  <2>1. out = V!Outcome(V!Put(V!Put(after, "evaluations", k, pair), "value_gradients", k, pair), <<pair, pair>>)
    BY <1>5, Zenon DEF V!ValueAndGradient, after, pair, k
  <2> QED
    BY <1>0, <1>2, <1>3, <2>1, PairKeeps, Zenon DEF k
<1>6. CASE ~(V!Has(e, "value_gradients", k) /\ V!Has(e, "evaluations", k)) /\ "value_and_gradient" \notin good
  <2> HIDE DEF after
  <2>1. out = V!Outcome(after, None)
    BY <1>6, Zenon DEF V!ValueAndGradient, after
  <2> QED
    BY <1>2, <2>1 DEF V!Outcome
<1> QED
  BY <1>4, <1>5, <1>6

\* Residuals and Jacobian leave a sound evaluator and are both about the candidate.
LEMMA ResidualsAndJacobianKeep ==
  ASSUME CacheSize \in Nat, NEW more, NEW e, Sound(more, e), NEW c, Shaped(c), NEW good,
         NEW out, out = V!ResidualsAndJacobian(e, c, good)
  PROVE  /\ Sound(more, out.e)
         /\ out.answer = None \/ (About(out.answer[1], c) /\ About(out.answer[2], c))
<1> DEFINE k == V!Key(c)
           after == V!Called(e, "combined", "combined", {"combined", "residual", "jacobian"}, good)
           both == V!True("combined", c)
           first == V!Residuals(e, c, good)
           second == V!Jacobian(first.e, c, good)
           hit == V!Has(e, "residuals", k) /\ V!Has(e, "jacobians", k)
<1>0. /\ "residuals" \in {"evaluations", "value_gradients", "residuals", "jacobians"}
      /\ "jacobians" \in {"evaluations", "value_gradients", "residuals", "jacobians"}
      /\ "residuals" # "jacobians"
  OBVIOUS
<1>1. Counting("combined", "combined", {"combined", "residual", "jacobian"})
  BY DEF Counting
<1>2. Sound(more, after)
  BY <1>1, CalledKeeps, Zenon
<1>3. About(both, c)
  BY TrueIsAbout DEF V!Hooks
<1>4. Sound(more, first.e) /\ (first.answer = None \/ About(first.answer, c))
  BY ResidualsKeep, Zenon
<1>5. Sound(more, second.e) /\ (second.answer = None \/ About(second.answer, c))
  BY <1>4, JacobianKeeps, Zenon
<1>6. CASE hit
  <2>1. out = V!Outcome(V!Touch(V!Touch(e, "residuals", k), "jacobians", k),
                      <<V!Get(e, "residuals", k), V!Get(e, "jacobians", k)>>)
    BY <1>6, Zenon DEF V!ResidualsAndJacobian
  <2>2. Sound(more, V!Touch(V!Touch(e, "residuals", k), "jacobians", k))
    BY <1>0, <1>6, PairOfHits, Zenon
  <2>3. About(V!Get(e, "residuals", k), c) /\ About(V!Get(e, "jacobians", k), c)
    BY <1>0, <1>6, HitIsAbout, Zenon
  <2>4. PICK a, b : a = V!Get(e, "residuals", k) /\ b = V!Get(e, "jacobians", k)
    OBVIOUS
  <2>5. out.e = V!Touch(V!Touch(e, "residuals", k), "jacobians", k) /\ out.answer = <<a, b>>
    BY <2>1, <2>4 DEF V!Outcome
  <2> QED
    BY <2>2, <2>3, <2>4, <2>5
<1>7. CASE ~hit /\ system.combined /\ "combined" \in good
  <2> HIDE DEF after, both, k
  <2>1. out = V!Outcome(V!Put(V!Put(after, "residuals", k, both), "jacobians", k, both), <<both, both>>)
    BY <1>7, Zenon DEF V!ResidualsAndJacobian, after, both, k
  <2> QED
    BY <1>0, <1>2, <1>3, <2>1, PairKeeps, Zenon DEF k
<1>8. CASE ~hit /\ system.combined /\ "combined" \notin good
  <2> HIDE DEF after
  <2>1. out = V!Outcome(after, None)
    BY <1>8, Zenon DEF V!ResidualsAndJacobian, after
  <2> QED
    BY <1>2, <2>1 DEF V!Outcome
<1>9. CASE ~hit /\ ~system.combined /\ first.answer = None
  <2>1. out = first
    BY <1>9, Zenon DEF V!ResidualsAndJacobian
  <2> QED
    BY <1>4, <1>9, <2>1
<1>10. CASE ~hit /\ ~system.combined /\ first.answer # None
  <2> HIDE DEF first, second, hit
  <2>1. out = V!Outcome(second.e, IF second.answer = None THEN None ELSE <<first.answer, second.answer>>)
    BY <1>10, Zenon DEF V!ResidualsAndJacobian, first, second, hit
  <2>2. out.e = second.e
    BY <2>1 DEF V!Outcome
  <2>3. out.answer = IF second.answer = None THEN None ELSE <<first.answer, second.answer>>
    BY <2>1 DEF V!Outcome
  <2> QED
    BY <1>4, <1>5, <1>10, <2>2, <2>3
<1> QED
  BY <1>6, <1>7, <1>8, <1>9, <1>10

\* Metrics leave a sound evaluator; they are about the candidate if the residuals at hand are.
LEMMA MetricsKeep ==
  ASSUME CacheSize \in Nat, NEW e, Sound(system.more, e), NEW c, Shaped(c), NEW held, About(held, c),
         NEW good, NEW out, out = V!Metrics(e, c, held, good)
  PROVE  /\ Sound(system.more, out.e)
         /\ out.answer = None \/ (About(out.answer[1], c) /\ (system.more => About(out.answer[2], c)))
<1> DEFINE k == V!Key(c)
           after == IF system.more THEN V!Called(e, "evaluate", "evaluation", {"evaluation"}, good) ELSE e
           metrics == <<held, IF system.more THEN V!True("evaluate", c) ELSE None>>
<1>1. Counting("evaluate", "evaluation", {"evaluation"}) /\ "metrics" \in V!Stores
  BY DEF Counting, V!Stores
<1>2. Sound(system.more, after)
  <2>1. Sound(system.more, V!Called(e, "evaluate", "evaluation", {"evaluation"}, good))
    BY <1>1, CalledKeeps, Zenon
  <2> QED
    BY <2>1, Zenon
<1> HIDE DEF after
<1>3. About(metrics[1], c) /\ (system.more => About(metrics[2], c))
  <2>1. About(V!True("evaluate", c), c)
    BY TrueIsAbout DEF V!Hooks
  <2> QED
    BY <2>1
<1>4. Answers(system.more, "metrics", k, metrics)
  BY <1>3, KeyIsOf DEF Answers
<1> HIDE DEF metrics
<1>5. CASE V!Has(e, "metrics", k)
  <2>1. out = V!Outcome(V!Touch(e, "metrics", k), V!Get(e, "metrics", k))
    BY <1>5, Zenon DEF V!Metrics
  <2>2. Sound(system.more, V!Touch(e, "metrics", k))
    BY <1>1, <1>5, TouchKeeps, Zenon
  <2>3. Answers(system.more, "metrics", k, V!Get(e, "metrics", k))
    BY <1>1, <1>5, GetKept, Zenon
  <2>4. out.e = V!Touch(e, "metrics", k) /\ out.answer = V!Get(e, "metrics", k)
    BY <2>1 DEF V!Outcome
  <2> QED
    BY <2>2, <2>3, <2>4, KeyIsOf DEF Answers
<1>6. CASE ~V!Has(e, "metrics", k) /\ system.more /\ "evaluate" \notin good
  <2>1. out = V!Outcome(after, None)
    BY <1>6, Zenon DEF V!Metrics, after
  <2> QED
    BY <1>2, <2>1 DEF V!Outcome
<1>7. CASE ~V!Has(e, "metrics", k) /\ ~(system.more /\ "evaluate" \notin good)
  <2>1. out = V!Outcome(V!Put(after, "metrics", k, metrics), metrics)
    BY <1>7, Zenon DEF V!Metrics, after, metrics
  <2>2. Sound(system.more, V!Put(after, "metrics", k, metrics))
    BY <1>1, <1>2, <1>4, PutKeeps, Zenon
  <2> QED
    BY <1>3, <2>1, <2>2 DEF V!Outcome
<1> QED
  BY <1>5, <1>6, <1>7

\* A shooting evaluation is about the candidate in its residuals and in its metrics.
LEMMA ShootingKeeps ==
  ASSUME CacheSize \in Nat, NEW e, Sound(system.more, e), NEW c, Shaped(c), NEW good,
         NEW out, out = V!ShootingEvaluation(e, c, good)
  PROVE  /\ Sound(system.more, out.e)
         /\ \/ out.answer = None
            \/ /\ About(out.answer[1], c) /\ About(out.answer[2][1], c)
               /\ system.more => About(out.answer[2][2], c)
<1>1. PICK r : r = V!Residuals(e, c, good)
  OBVIOUS
<1>2. PICK m : m = V!Metrics(r.e, c, r.answer, good)
  OBVIOUS
<1>3. Sound(system.more, r.e) /\ (r.answer = None \/ About(r.answer, c))
  BY <1>1, ResidualsKeep, Zenon
<1>4. CASE r.answer = None
  <2>1. out = r
    BY <1>1, <1>4, Zenon DEF V!ShootingEvaluation
  <2> QED
    BY <1>3, <1>4, <2>1
<1>5. CASE r.answer # None
  <2>1. out = V!Outcome(m.e, IF m.answer = None THEN None ELSE <<r.answer, m.answer>>)
    BY <1>1, <1>2, <1>5, Zenon DEF V!ShootingEvaluation
  <2>2. Sound(system.more, m.e) /\ (m.answer = None \/ (About(m.answer[1], c) /\ (system.more => About(m.answer[2], c))))
    BY <1>2, <1>3, <1>5, MetricsKeep, Zenon
  <2>3. out.e = m.e
    BY <2>1 DEF V!Outcome
  <2>4. out.answer = IF m.answer = None THEN None ELSE <<r.answer, m.answer>>
    BY <2>1 DEF V!Outcome
  <2> QED
    BY <1>3, <1>5, <2>2, <2>3, <2>4
<1> QED
  BY <1>4, <1>5

\* The evidence is of the candidate with the options asked for, and says so.
Evidence(answer, c, asks) ==
  \/ answer = None
  \/ /\ answer.found = V!True("verify", [c EXCEPT !.options = asks.options])
     /\ answer.independent = asks.independent /\ answer.source = asks.source

\* Verification evidence is about the candidate with the options asked for.
LEMMA VerifyKeeps ==
  ASSUME CacheSize \in Nat, NEW more, NEW e, Sound(more, e), NEW c, Shaped(c), NEW asks, NEW good,
         NEW out, out = V!Verify(e, c, asks, good)
  PROVE  Sound(more, out.e) /\ Evidence(out.answer, c, asks)
<1> USE DEF Evidence
<1>1. PICK at : at = [c EXCEPT !.options = asks.options]
  OBVIOUS
<1>2. Of(V!Key(at)) = at
  BY <1>1 DEF Shaped, Of, V!Key
<1>3. PICK a, i, o : a = V!Key(at) /\ i = asks.independent /\ o = asks.source
  OBVIOUS
<1>4. PICK k : k = <<a, i, o>>
  OBVIOUS
<1>5. PICK answer : answer = [found |-> V!True("verify", at), independent |-> i, source |-> o]
  OBVIOUS
<1>6. PICK after : after = V!Called(e, "verify", "verification", {"verification"}, good)
  OBVIOUS
<1>7. Counting("verify", "verification", {"verification"}) /\ "verification" \in V!Stores
  BY DEF Counting, V!Stores
<1>8. Sound(more, after)
  BY <1>6, <1>7, CalledKeeps, Zenon
<1>9. k[1] = a /\ k[2] = i /\ k[3] = o
  BY <1>4
<1>10. \A x : Answers(more, "verification", k, x) <=> x = answer
  BY <1>2, <1>3, <1>5, <1>9 DEF Answers
<1>11. CASE V!Has(e, "verification", k)
  <2>1. out = V!Outcome(V!Touch(e, "verification", k), V!Get(e, "verification", k))
    BY <1>1, <1>3, <1>4, <1>11, Zenon DEF V!Verify
  <2>2. Sound(more, V!Touch(e, "verification", k))
    BY <1>7, <1>11, TouchKeeps, Zenon
  <2>3. Answers(more, "verification", k, V!Get(e, "verification", k))
    BY <1>7, <1>11, GetKept, Zenon
  <2>4. out.e = V!Touch(e, "verification", k) /\ out.answer = V!Get(e, "verification", k)
    BY <2>1 DEF V!Outcome
  <2> QED
    BY <1>1, <1>3, <1>5, <1>10, <2>2, <2>3, <2>4
<1>12. CASE ~V!Has(e, "verification", k) /\ "verify" \notin good
  <2>1. out = V!Outcome(after, None)
    BY <1>1, <1>3, <1>4, <1>6, <1>12, Zenon DEF V!Verify
  <2> QED
    BY <1>8, <2>1 DEF V!Outcome
<1>13. CASE ~V!Has(e, "verification", k) /\ "verify" \in good
  <2>1. out = V!Outcome(V!Put(after, "verification", k, answer), answer)
    BY <1>1, <1>3, <1>4, <1>5, <1>6, <1>13, Zenon DEF V!Verify
  <2>2. Sound(more, V!Put(after, "verification", k, answer))
    BY <1>7, <1>8, <1>10, PutKeeps, Zenon
  <2>3. out.e = V!Put(after, "verification", k, answer) /\ out.answer = answer
    BY <2>1 DEF V!Outcome
  <2> QED
    BY <1>1, <1>3, <1>5, <2>2, <2>3
<1> QED
  BY <1>11, <1>12, <1>13

\* The candidates are records; the stores have a size.
EvaluatorSound ==
  CacheSize \in Nat /\ \A c \in EvaluatorCandidates : c = [layout |-> c.layout, numbers |-> c.numbers, options |-> c.options]

\* A call leaves the outcome it returned.
LEMMA Return ==
  ASSUME NEW call, NEW of, NEW out, Sound(system.more, out.e), V!Returned(call, of, out)
  PROVE  Sound(system.more, V!Now)' /\ system' = system /\ last' = [call |-> call, of |-> of, answer |-> out.answer]
<1>1. PICK e : e = out.e
  OBVIOUS
<1>2. V!Now' = [stores |-> e.stores, count |-> e.count, asked |-> e.asked, served |-> e.served, used |-> e.used]
  BY <1>1 DEF V!Returned, V!Now
<1>3. PICK X, Y : e \in Work(X, Y)
  BY <1>1 DEF Sound, Whole
<1>4. V!Now' = e
  BY <1>2, <1>3 DEF Work
<1>5. system' = system /\ last' = [call |-> call, of |-> of, answer |-> out.answer]
  BY DEF V!Returned
<1>6. Sound(system'.more, V!Now')
  BY <1>1, <1>4, <1>5
<1>7. Sound(system.more, V!Now)' <=> Sound(system'.more, V!Now')
  OBVIOUS
<1> QED
  BY <1>5, <1>6, <1>7

\* A call that answers nothing says nothing wrong.
LEMMA NoAnswer ==
  ASSUME last'.answer = None
  PROVE  V!AnswersTheCandidate'
BY Zenon DEF V!AnswersTheCandidate

\* A single answer has to be about the candidate.
LEMMA OneAnswer ==
  ASSUME NEW call \in {"evaluate", "gradient", "residuals", "jacobian"}, NEW of, NEW answer,
         last' = [call |-> call, of |-> of, answer |-> answer], answer = None \/ About(answer, of)
  PROVE  V!AnswersTheCandidate'
<1>1. last'.call = call /\ last'.of = of /\ last'.answer = answer
  OBVIOUS
<1>2. CASE answer = None
  BY <1>1, <1>2, NoAnswer
<1>3. CASE About(answer, of)
  BY <1>1, <1>3, Zenon DEF V!AnswersTheCandidate, About
<1> QED
  BY <1>2, <1>3

\* Both of a pair of answers have to be.
LEMMA TwoAnswers ==
  ASSUME NEW call \in {"value_and_gradient", "residuals_and_jacobian"}, NEW of, NEW answer,
         last' = [call |-> call, of |-> of, answer |-> answer],
         answer = None \/ (About(answer[1], of) /\ About(answer[2], of))
  PROVE  V!AnswersTheCandidate'
<1>1. last'.call = call /\ last'.of = of /\ last'.answer = answer
  OBVIOUS
<1>2. CASE answer = None
  BY <1>1, <1>2, NoAnswer
<1>3. CASE About(answer[1], of) /\ About(answer[2], of)
  <2>1. call \notin {"evaluate", "gradient", "residuals", "jacobian"}
    OBVIOUS
  <2> QED
    BY <1>1, <1>3, <2>1, Zenon DEF V!AnswersTheCandidate, About
<1> QED
  BY <1>2, <1>3

\* So do the residuals and the metrics of a shooting evaluation.
LEMMA ShootingAnswer ==
  ASSUME NEW of, NEW answer, last' = [call |-> "shooting_evaluation", of |-> of, answer |-> answer],
         \/ answer = None
         \/ /\ About(answer[1], of) /\ About(answer[2][1], of)
            /\ system'.more => About(answer[2][2], of)
  PROVE  V!AnswersTheCandidate'
<1>1. last'.call = "shooting_evaluation" /\ last'.of = of /\ last'.answer = answer
  OBVIOUS
<1>2. CASE answer = None
  BY <1>1, <1>2, NoAnswer
<1>3. CASE answer # None
  BY <1>1, <1>3, Zenon DEF V!AnswersTheCandidate, About
<1> QED
  BY <1>2, <1>3

\* Verification evidence called independent is of other options than those of the solve.
LEMMA VerifyAnswer ==
  ASSUME NEW c, Shaped(c), NEW explicit, NEW asks, asks = V!Request(c.options, explicit), NEW answer,
         last' = [call |-> "verify", of |-> [candidate |-> c, asks |-> asks], answer |-> answer],
         Evidence(answer, c, asks)
  PROVE  V!AnswersTheCandidate'
<1> USE DEF Evidence
<1>1. /\ last'.call = "verify" /\ last'.answer = answer
      /\ last'.of.candidate = c /\ last'.of.asks = asks
  OBVIOUS
<1>2. CASE answer = None
  BY <1>1, <1>2, NoAnswer
<1>3. CASE answer # None
  <2>1. PICK at : at = [c EXCEPT !.options = asks.options]
    OBVIOUS
  <2>2. answer.found[1] \in V!Hooks /\ answer.found[2] = at
    BY <1>3, <2>1 DEF V!True, V!Hooks
  <2>3. at.options = asks.options
    BY <2>1 DEF Shaped
  <2>4. asks.independent => asks.options # c.options
    BY DEF V!Request
  <2>5. answer.independent => answer.found[2] # c
    BY <1>3, <2>2, <2>3, <2>4
  <2> QED
    BY <1>1, <1>3, <2>1, <2>2, <2>5, Zenon DEF V!AnswersTheCandidate
<1> QED
  BY <1>2, <1>3

EvaluatorInv == Sound(system.more, V!Now) /\ V!AnswersTheCandidate

\* Calls on an OLGS system keep the invariant.
LEMMA OlgsKeeps ==
  ASSUME EvaluatorSound, EvaluatorInv, V!OlgsCall
  PROVE  EvaluatorInv'
<1>1. PICK c, good :
        /\ c \in EvaluatorCandidates
        /\ \/ V!Returned("evaluate", c, V!Evaluated(V!Now, c, good))
           \/ V!Returned("value_and_gradient", c, V!ValueAndGradient(V!Now, c, good))
           \/ V!Returned("gradient", c, V!Gradient(V!Now, c, good))
  BY Zenon DEF V!OlgsCall
<1>2. CacheSize \in Nat /\ Shaped(c) /\ Sound(system.more, V!Now)
  BY <1>1, Zenon DEF EvaluatorSound, EvaluatorInv, Shaped
<1>3. CASE V!Returned("evaluate", c, V!Evaluated(V!Now, c, good))
  <2>1. PICK out : out = V!Evaluated(V!Now, c, good)
    OBVIOUS
  <2>2. Sound(system.more, out.e) /\ (out.answer = None \/ About(out.answer, c))
    BY <1>2, <2>1, EvaluatedKeeps, Zenon
  <2>3. /\ Sound(system.more, V!Now)'
        /\ last' = [call |-> "evaluate", of |-> c, answer |-> out.answer]
    BY <1>3, <2>1, <2>2, Return, Zenon
  <2>4. V!AnswersTheCandidate'
    BY <2>2, <2>3, OneAnswer
  <2> QED
    BY <2>3, <2>4, Zenon DEF EvaluatorInv
<1>4. CASE V!Returned("value_and_gradient", c, V!ValueAndGradient(V!Now, c, good))
  <2>1. PICK out : out = V!ValueAndGradient(V!Now, c, good)
    OBVIOUS
  <2>2. Sound(system.more, out.e) /\ (out.answer = None \/ (About(out.answer[1], c) /\ About(out.answer[2], c)))
    BY <1>2, <2>1, ValueAndGradientKeep, Zenon
  <2>3. /\ Sound(system.more, V!Now)'
        /\ last' = [call |-> "value_and_gradient", of |-> c, answer |-> out.answer]
    BY <1>4, <2>1, <2>2, Return, Zenon
  <2>4. V!AnswersTheCandidate'
    BY <2>2, <2>3, TwoAnswers
  <2> QED
    BY <2>3, <2>4, Zenon DEF EvaluatorInv
<1>5. CASE V!Returned("gradient", c, V!Gradient(V!Now, c, good))
  <2>1. PICK out : out = V!Gradient(V!Now, c, good)
    OBVIOUS
  <2>2. Sound(system.more, out.e) /\ (out.answer = None \/ About(out.answer, c))
    BY <1>2, <2>1, GradientKeeps, Zenon
  <2>3. /\ Sound(system.more, V!Now)'
        /\ last' = [call |-> "gradient", of |-> c, answer |-> out.answer]
    BY <1>5, <2>1, <2>2, Return, Zenon
  <2>4. V!AnswersTheCandidate'
    BY <2>2, <2>3, OneAnswer
  <2> QED
    BY <2>3, <2>4, Zenon DEF EvaluatorInv
<1> QED
  BY <1>1, <1>3, <1>4, <1>5

\* Calls on an OLSS system keep the invariant.
LEMMA OlssKeeps ==
  ASSUME EvaluatorSound, EvaluatorInv, V!OlssCall
  PROVE  EvaluatorInv'
<1>1. PICK c, good :
        /\ c \in EvaluatorCandidates
        /\ \/ V!Returned("residuals", c, V!Residuals(V!Now, c, good))
           \/ V!Returned("jacobian", c, V!Jacobian(V!Now, c, good))
           \/ V!Returned("residuals_and_jacobian", c, V!ResidualsAndJacobian(V!Now, c, good))
           \/ V!Returned("shooting_evaluation", c, V!ShootingEvaluation(V!Now, c, good))
  BY Zenon DEF V!OlssCall
<1>2. CacheSize \in Nat /\ Shaped(c) /\ Sound(system.more, V!Now)
  BY <1>1, Zenon DEF EvaluatorSound, EvaluatorInv, Shaped
<1>3. CASE V!Returned("residuals", c, V!Residuals(V!Now, c, good))
  <2>1. PICK out : out = V!Residuals(V!Now, c, good)
    OBVIOUS
  <2>2. Sound(system.more, out.e) /\ (out.answer = None \/ About(out.answer, c))
    BY <1>2, <2>1, ResidualsKeep, Zenon
  <2>3. /\ Sound(system.more, V!Now)'
        /\ last' = [call |-> "residuals", of |-> c, answer |-> out.answer]
    BY <1>3, <2>1, <2>2, Return, Zenon
  <2>4. V!AnswersTheCandidate'
    BY <2>2, <2>3, OneAnswer
  <2> QED
    BY <2>3, <2>4, Zenon DEF EvaluatorInv
<1>4. CASE V!Returned("jacobian", c, V!Jacobian(V!Now, c, good))
  <2>1. PICK out : out = V!Jacobian(V!Now, c, good)
    OBVIOUS
  <2>2. Sound(system.more, out.e) /\ (out.answer = None \/ About(out.answer, c))
    BY <1>2, <2>1, JacobianKeeps, Zenon
  <2>3. /\ Sound(system.more, V!Now)'
        /\ last' = [call |-> "jacobian", of |-> c, answer |-> out.answer]
    BY <1>4, <2>1, <2>2, Return, Zenon
  <2>4. V!AnswersTheCandidate'
    BY <2>2, <2>3, OneAnswer
  <2> QED
    BY <2>3, <2>4, Zenon DEF EvaluatorInv
<1>5. CASE V!Returned("residuals_and_jacobian", c, V!ResidualsAndJacobian(V!Now, c, good))
  <2>1. PICK out : out = V!ResidualsAndJacobian(V!Now, c, good)
    OBVIOUS
  <2>2. Sound(system.more, out.e) /\ (out.answer = None \/ (About(out.answer[1], c) /\ About(out.answer[2], c)))
    BY <1>2, <2>1, ResidualsAndJacobianKeep, Zenon
  <2>3. /\ Sound(system.more, V!Now)'
        /\ last' = [call |-> "residuals_and_jacobian", of |-> c, answer |-> out.answer]
    BY <1>5, <2>1, <2>2, Return, Zenon
  <2>4. V!AnswersTheCandidate'
    BY <2>2, <2>3, TwoAnswers
  <2> QED
    BY <2>3, <2>4, Zenon DEF EvaluatorInv
<1>6. CASE V!Returned("shooting_evaluation", c, V!ShootingEvaluation(V!Now, c, good))
  <2>1. PICK out : out = V!ShootingEvaluation(V!Now, c, good)
    OBVIOUS
  <2>2. /\ Sound(system.more, out.e)
        /\ \/ out.answer = None
           \/ /\ About(out.answer[1], c) /\ About(out.answer[2][1], c)
              /\ system.more => About(out.answer[2][2], c)
    BY <1>2, <2>1, ShootingKeeps, Zenon
  <2>3. /\ Sound(system.more, V!Now)' /\ system' = system
        /\ last' = [call |-> "shooting_evaluation", of |-> c, answer |-> out.answer]
    BY <1>6, <2>1, <2>2, Return, Zenon
  <2>4. V!AnswersTheCandidate'
    BY <2>2, <2>3, ShootingAnswer
  <2> QED
    BY <2>3, <2>4, Zenon DEF EvaluatorInv
<1> QED
  BY <1>1, <1>3, <1>4, <1>5, <1>6

\* Verification keeps the invariant.
LEMMA VerifyCallKeeps ==
  ASSUME EvaluatorSound, EvaluatorInv, V!VerifyCall
  PROVE  EvaluatorInv'
<1>1. PICK c, explicit, good, asks :
        /\ c \in EvaluatorCandidates /\ asks = V!Request(c.options, explicit)
        /\ V!Returned("verify", [candidate |-> c, asks |-> asks], V!Verify(V!Now, c, asks, good))
  BY Zenon DEF V!VerifyCall
<1>2. CacheSize \in Nat /\ Shaped(c) /\ Sound(system.more, V!Now)
  BY <1>1, Zenon DEF EvaluatorSound, EvaluatorInv, Shaped
<1>3. PICK out : out = V!Verify(V!Now, c, asks, good)
  OBVIOUS
<1>4. Sound(system.more, out.e) /\ Evidence(out.answer, c, asks)
  BY <1>2, <1>3, VerifyKeeps, Zenon
<1>5. /\ Sound(system.more, V!Now)'
      /\ last' = [call |-> "verify", of |-> [candidate |-> c, asks |-> asks], answer |-> out.answer]
  BY <1>1, <1>3, <1>4, Return, Zenon
<1>6. V!AnswersTheCandidate'
  BY <1>1, <1>2, <1>4, <1>5, VerifyAnswer, Zenon
<1> QED
  BY <1>5, <1>6, Zenon DEF EvaluatorInv

\* An empty store is tidy.
LEMMA EmptyIsTidy ==
  ASSUME CacheSize \in Nat, NEW more, NEW s
  PROVE  Tidy(more, s, <<>>, <<>>)
<1>1. Newest(<<>>, <<>>, CacheSize, <<>>)
  BY DEF Newest, Final
<1>2. Listed(<<>>)
  BY DEF Listed
<1> QED
  BY <1>1, <1>2 DEF Tidy, Recently

\* Clearing the stores keeps the invariant.
LEMMA ClearKeeps ==
  ASSUME EvaluatorSound, EvaluatorInv, V!ClearCache
  PROVE  EvaluatorInv'
<1>1. /\ stores' = [s \in V!Stores |-> <<>>] /\ used' = [s \in V!Stores |-> <<>>]
      /\ last' = V!Nothing /\ system' = system /\ count' = count /\ asked' = asked /\ served' = served
  BY DEF V!ClearCache
<1>2. PICK X, Y : V!Now \in Work(X, Y)
  BY DEF EvaluatorInv, Sound, Whole
<1>3. V!Now' \in Work({<<>>}, {<<>>})
  BY <1>1, <1>2 DEF V!Now, Work
<1>4. Tallies(V!Now'.count, V!Now'.asked, V!Now'.served)
  BY <1>1 DEF EvaluatorInv, Sound, V!Now
<1>5. \A s \in V!Stores : Tidy(system'.more, s, V!Now'.stores[s], V!Now'.used[s])
  BY <1>1, EmptyIsTidy DEF V!Now, EvaluatorSound
<1>6. Sound(system.more, V!Now)'
  BY <1>3, <1>4, <1>5 DEF Sound, Whole
<1>7. V!AnswersTheCandidate'
  BY <1>1, NoAnswer DEF V!Nothing
<1> QED
  BY <1>6, <1>7, Zenon DEF EvaluatorInv

\* The evaluator starts in the invariant.
LEMMA EvaluatorStarts ==
  ASSUME EvaluatorSound, V!Init
  PROVE  EvaluatorInv
<1>1. /\ V!Now.stores = [s \in V!Stores |-> <<>>] /\ V!Now.used = [s \in V!Stores |-> <<>>]
      /\ V!Now.count = [n \in V!Counters |-> [attempt |-> 0, success |-> 0]]
      /\ V!Now.asked = [h \in V!Hooks |-> 0] /\ V!Now.served = [h \in V!Hooks |-> 0]
  BY DEF V!Init, V!Now
<1>2. V!Now \in Work({<<>>}, {<<>>})
  BY DEF V!Init, V!Now, Work
<1>3. Tallies(V!Now.count, V!Now.asked, V!Now.served)
  BY <1>1 DEF Tallies, V!Counters, V!Hooks
<1>4. \A s \in V!Stores : Tidy(system.more, s, V!Now.stores[s], V!Now.used[s])
  BY <1>1, EmptyIsTidy DEF EvaluatorSound
<1>5. V!AnswersTheCandidate
  <2>1. last.answer = None
    BY DEF V!Init, V!Nothing
  <2> QED
    BY <2>1, Zenon DEF V!AnswersTheCandidate
<1> QED
  BY <1>2, <1>3, <1>4, <1>5 DEF EvaluatorInv, Sound, Whole

\* Every step keeps the invariant.
LEMMA EvaluatorSteps ==
  ASSUME EvaluatorSound, EvaluatorInv, [V!Next]_(V!evars)
  PROVE  EvaluatorInv'
<1>1. CASE UNCHANGED V!evars
  BY <1>1 DEF V!evars, EvaluatorInv, V!Now, Sound, V!AnswersTheCandidate
<1> QED
  BY <1>1, OlgsKeeps, OlssKeeps, VerifyCallKeeps, ClearKeeps, Zenon DEF V!Next

\* The invariant says what a store holds and what the counters count.
LEMMA StoresAreRecent ==
  ASSUME EvaluatorSound, EvaluatorInv
  PROVE  V!StoresAndCounters
<1>1. ASSUME NEW s \in V!Stores
      PROVE  [i \in DOMAIN stores[s] |-> stores[s][i].key] = V!Recent(used[s], CacheSize)
  <2>1. Tidy(system.more, s, stores[s], used[s])
    BY DEF EvaluatorInv, Sound, V!Now
  <2>2. PICK g : Newest(stores[s], used[s], CacheSize, g)
    BY <2>1 DEF Tidy, Recently
  <2> QED
    BY <2>1, <2>2, NewestAreRecent, Zenon DEF Tidy, EvaluatorSound
<1>2. PICK X, Y : V!Now \in Work(X, Y)
  BY DEF EvaluatorInv, Sound, Whole
<1>3. Tallies(count, asked, served)
  BY DEF EvaluatorInv, Sound, V!Now
<1>4. count \in [V!Counters -> [attempt : Nat, success : Nat]]
  BY <1>2 DEF Work, V!Now
<1>5. \A n \in V!Counters : count[n] = [attempt |-> count[n].attempt, success |-> count[n].success]
  BY <1>4
<1>6. /\ count["evaluation"] = [attempt |-> asked["evaluate"], success |-> served["evaluate"] + served["value_and_gradient"]]
      /\ count["gradient"] = [attempt |-> asked["gradient"], success |-> served["gradient"] + served["value_and_gradient"]]
      /\ count["residual"] = [attempt |-> asked["residuals"], success |-> served["residuals"] + served["combined"]]
      /\ count["jacobian"] = [attempt |-> asked["jacobian"], success |-> served["jacobian"] + served["combined"]]
      /\ count["verification"] = [attempt |-> asked["verify"], success |-> served["verify"]]
  BY <1>3, <1>5 DEF Tallies, V!Counters
<1> QED
  BY <1>1, <1>6, Zenon DEF V!StoresAndCounters

\* Answers are about the candidate asked about, stores hold those used last, and the counters
\* are the work of the hooks.
THEOREM EvaluatorHonest ==
  ASSUME EvaluatorSound
  PROVE  V!Spec => [](V!AnswersTheCandidate /\ V!StoresAndCounters)
<1>1. V!Init => EvaluatorInv
  BY EvaluatorStarts
<1>2. EvaluatorInv /\ [V!Next]_(V!evars) => EvaluatorInv'
  BY EvaluatorSteps
<1>3. EvaluatorInv => V!AnswersTheCandidate /\ V!StoresAndCounters
  BY StoresAreRecent DEF EvaluatorInv
<1> QED
  BY <1>1, <1>2, <1>3, PTL DEF V!Spec
=============================================================================
