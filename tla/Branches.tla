------------------------------ MODULE Branches ------------------------------
(***************************************************************************)
(* Continuation: pseudo-arclength along a branch of roots and natural      *)
(* continuation in one parameter (shooting/continuation.py), staged        *)
(* optimizer segments behind gates (continuation.py), and the step         *)
(* controller and attempt list they share (core/coordinator.py).           *)
(*                                                                         *)
(* Places are integers: the value of the target block on a branch, or the  *)
(* continued parameter.  Step sizes are integers as well, shrink halves    *)
(* and grow doubles them.  What a corrector, a solve, a verification or a  *)
(* gate finds is a choice.                                                 *)
(***************************************************************************)
EXTENDS Integers, Sequences, SequencesExt, FiniteSets

CONSTANTS
    Place, Target, None,
    MinStep, MaxStep,   \* 0 < MinStep <= MaxStep
    FirstSteps,     \* step sizes a caller starts with, capped at MaxStep
    Steps,          \* steps, max_steps, the number of stages
    Kinds           \* the coordinators to run

VARIABLES branch    \* the continuation in progress, or its result

Abs(x) == IF x < 0 THEN -x ELSE x
Least(a, b) == IF a < b THEN a ELSE b

Landmark(p, verified) == [at |-> p, verified |-> verified]
Tried(size, accepted) == [size |-> size, accepted |-> accepted]

Fresh(kind, step, path) ==
    [kind |-> kind, phase |-> "running", step |-> Least(step, MaxStep), path |-> path, attempts |-> <<>>,
     iteration |-> 0, reason |-> None, patient |-> FALSE]

Stop(state, reason) == [state EXCEPT !.phase = "stopped", !.reason = reason]
Running(kind) == branch.phase = "running" /\ branch.kind = kind
Here == Last(branch.path).at

---------------------------------------------------------------------------
(* StepSizeController *)

Shrink(step) == step \div 2
CanShrink(step) == Shrink(step) >= MinStep
Grow(step) == Least(MaxStep, 2 * step)

\* The next place towards the target, which is never overshot.
LandingByStep(p, step) == IF p < Target THEN p + step ELSE p - step
Landing(p, step) ==
    LET far == Least(step, Abs(Target - p)) IN IF p < Target THEN p + far ELSE p - far

---------------------------------------------------------------------------
(* continue_shooting *)

\* Two distinct seeds, both to be verified; the second may be the target.
BeginArclength ==
    /\ branch.phase = "idle" /\ "arclength" \in Kinds
    /\ \E step \in FirstSteps, p, q \in Place, verified \in BOOLEAN :
        /\ p # q
        /\ LET begun == Fresh("arclength", step, <<Landmark(p, verified), Landmark(q, verified)>>) IN
           branch' = IF ~verified THEN Stop(begun, "seed_verification_failed")
                     ELSE IF q = Target THEN Stop(begun, "target_reached") ELSE begun

\* The corrector fails: the step shrinks within the same step of the budget.
CorrectorFails ==
    /\ Running("arclength") /\ branch.iteration < Steps
    /\ LET tried == [branch EXCEPT !.attempts = Append(@, Tried(branch.step, FALSE))] IN
       branch' = IF CanShrink(branch.step) THEN [tried EXCEPT !.step = Shrink(@)]
                 ELSE Stop(tried, "minimum_step_reached")

\* The corrector converges to q, which is verified; a target between the two is
\* landed on first, by a solve of its own.
Crosses(p, q) == (p - Target) * (q - Target) <= 0

Refused(reason) == Stop([branch EXCEPT !.attempts = Append(@, Tried(branch.step, FALSE))], reason)
Taken(q) == [branch EXCEPT !.attempts = Append(@, Tried(branch.step, TRUE)),
                           !.path = Append(@, Landmark(q, TRUE)), !.iteration = @ + 1]

CorrectorConverges ==
    /\ Running("arclength") /\ branch.iteration < Steps
    /\ \E q \in Place \ {Here} :
          \/ branch' = Refused("verification_failed")
          \/ /\ Crosses(Here, q)
             /\ \/ q # Target /\ branch' = Refused("target_landing_failed")
                \/ branch' = Stop(Taken(Target), "target_reached")
          \/ /\ ~Crosses(Here, q)
             /\ \E step \in {branch.step, Grow(branch.step)} : branch' = [Taken(q) EXCEPT !.step = step]

---------------------------------------------------------------------------
(* continue_parameter *)

\* The root it starts from is the caller's: the path holds what was solved since.
BeginNatural ==
    /\ branch.phase = "idle" /\ "natural" \in Kinds
    /\ \E step \in FirstSteps, p \in Place :
          branch' = Fresh("natural", step, <<Landmark(p, TRUE)>>)

Arrives ==
    /\ Running("natural") /\ branch.iteration < Steps /\ Here = Target
    /\ branch' = Stop(branch, "target_reached")

\* The stage at the next place qualifies, or the step shrinks; each attempt is a
\* step of the budget.
SolveStage ==
    /\ Running("natural") /\ branch.iteration < Steps /\ Here # Target
    /\ LET next == Landing(Here, branch.step) size == Abs(next - Here)
           tried(accepted) == [branch EXCEPT !.attempts = Append(@, Tried(size, accepted)),
                                             !.iteration = @ + 1] IN
       \/ branch' = [tried(TRUE) EXCEPT !.path = Append(@, Landmark(next, TRUE)), !.step = Grow(@)]
       \/ branch' = IF CanShrink(branch.step) THEN [tried(FALSE) EXCEPT !.step = Shrink(@)]
                    ELSE Stop(tried(FALSE), "minimum_step_reached")

---------------------------------------------------------------------------
(* continuation: stages *)

\* patient: the caller goes on after a gate that fails.
BeginStages ==
    /\ branch.phase = "idle" /\ "staged" \in Kinds
    /\ \E p \in Place, patient \in BOOLEAN :
          branch' = [Fresh("staged", MinStep, <<Landmark(p, TRUE)>>) EXCEPT !.patient = patient]

\* A stage changes the system, transfers the controls, runs its optimizer and
\* judges its gate; the next stage starts from its result whatever the gate says.
\* An exception in any of these leaves without a result.
RunStage ==
    /\ Running("staged") /\ branch.iteration < Steps
    /\ \E q \in Place, passed \in BOOLEAN :
        LET ran == [branch EXCEPT !.attempts = Append(@, Tried(MinStep, passed)),
                                  !.path = Append(@, Landmark(q, passed)), !.iteration = @ + 1] IN
        branch' = IF ~passed /\ ~branch.patient THEN Stop(ran, "stage_gate_failed") ELSE ran

---------------------------------------------------------------------------
\* The budget is spent; natural continuation looks once more where it is.
OutOfSteps ==
    /\ branch.phase = "running" /\ branch.iteration = Steps
    /\ branch' = Stop(branch, IF branch.kind # "natural" THEN "completed"
                              ELSE IF Here = Target THEN "target_reached" ELSE "max_steps")

Init == branch = [phase |-> "idle"]

Next ==
    \/ BeginArclength \/ CorrectorFails \/ CorrectorConverges
    \/ BeginNatural \/ Arrives \/ SolveStage
    \/ BeginStages \/ RunStage \/ OutOfSteps

Spec == Init /\ [][Next]_<<branch>>

---------------------------------------------------------------------------
\* The path and the attempts tell one story: every attempt that was accepted added
\* one verified point and no other did; a branch point lies on the other side of
\* the target from its predecessor only if the run ended on the target; natural
\* continuation approaches its target and never passes it; an arclength step that
\* failed is repeated smaller; a run that stopped at a gate stopped at the first
\* that failed (SHOOTING_METHODS.md:71, :79).
Accepted == {i \in DOMAIN branch.attempts : branch.attempts[i].accepted}
Seeds == IF branch.kind = "arclength" THEN 2 ELSE 1
StraightPath ==
    branch.phase # "idle" =>
        LET path == branch.path tries == branch.attempts IN
        /\ branch.kind # "staged" => Len(path) = Seeds + Cardinality(Accepted)
        /\ branch.kind = "arclength" =>
              /\ branch.reason # "seed_verification_failed" => \A i \in 1..Len(path) : path[i].verified
              /\ \A i \in 2..(Len(path) - 1) :
                    (path[i].at < Target) # (path[i + 1].at < Target) => branch.reason = "target_reached"
              /\ \A i \in 1..(Len(tries) - 1) : ~tries[i].accepted => tries[i + 1].size < tries[i].size
        /\ branch.kind = "natural" =>
              /\ \A i \in 1..(Len(path) - 1) :
                    /\ Abs(Target - path[i + 1].at) < Abs(Target - path[i].at)
                    /\ (path[i].at < Target) => path[i + 1].at <= Target
                    /\ (path[i].at > Target) => path[i + 1].at >= Target
        /\ branch.reason = "target_reached" => Here = Target
        /\ branch.reason = "stage_gate_failed" => \A i \in 1..Len(tries) : tries[i].accepted = (i < Len(tries))
=============================================================================
