------------------------------- MODULE Repairs -------------------------------
(***************************************************************************)
(* repair_newton (utils/repairs.py): Newton steps that lower the norm of a *)
(* named residual, driven by core/iteration.py and each backtracked until  *)
(* it does.                                                                *)
(*                                                                         *)
(* A system is a table over candidates: the residual norm (None raises),   *)
(* whether the Jacobian evaluates there, whether controls are bounded.     *)
(* Which candidate a trial lands on is a choice.  One of finite            *)
(* differences also evaluates neighbours, so it may fail anywhere.         *)
(***************************************************************************)
EXTENDS Integers, Sequences, SequencesExt

CONSTANTS
    Candidate, None,
    Flawed,             \* the systems
    Iterations,         \* the values of maxiter
    Backtracks,         \* max_backtracks
    Tolerance,
    MaxRows                \* rows a history keeps

VARIABLES
    flaw,               \* the system
    repair              \* the repair in progress, or its result

xvars == <<flaw, repair>>

Init == flaw \in Flawed /\ repair = [phase |-> "idle"]

Norm(c) == flaw.norm[c]

\* The options are valid, and the residual evaluates at the start.
Begin ==
    /\ repair.phase = "idle"
    /\ \E c \in Candidate, maxiter \in Iterations, fallback, line_search \in BOOLEAN :
        /\ Norm(c) # None
        /\ repair' = [phase |-> "visit", start |-> c, at |-> c, held |-> Norm(c), maxiter |-> maxiter,
                      fallback |-> fallback, attempts |-> IF line_search THEN Backtracks ELSE 1,
                      iteration |-> 0, attempted |-> 0, failed |-> 0, history |-> <<>>,
                      source |-> "uncomputed", reason |-> None]
    /\ UNCHANGED flaw

Row == [iteration |-> repair.iteration, norm |-> repair.held, accepted |-> None]
Recorded == LET h == Append(repair.history, Row) IN IF Len(h) > MaxRows THEN Tail(h) ELSE h
Marked(accepted) == [repair EXCEPT !.history[Len(repair.history)].accepted = accepted]

\* A repair whose residual is within tolerance has converged, whatever it says.
Finished(r, reason) ==
    [r EXCEPT !.phase = "done", !.reason = IF r.held <= Tolerance THEN "converged" ELSE reason]

\* Every visit leaves a row; the one after the last step only looks.
Visit ==
    /\ repair.phase = "visit"
    /\ LET visited == [repair EXCEPT !.history = Recorded] IN
       repair' = IF repair.held <= Tolerance THEN Finished(visited, "converged")
                 ELSE IF repair.iteration = repair.maxiter THEN Finished(visited, "maxiter")
                 ELSE [visited EXCEPT !.phase = "jacobian"]
    /\ UNCHANGED flaw

\* The system's own Jacobian, or differences if the caller allows them.
Jacobian ==
    /\ repair.phase = "jacobian"
    /\ IF flaw.analytical
       THEN repair' = IF flaw.jacobian[repair.at] THEN [repair EXCEPT !.phase = "step", !.source = "analytical"]
                      ELSE Finished(repair, "jacobian_failed")
       ELSE \/ /\ repair.fallback
               /\ repair' = [repair EXCEPT !.phase = "step", !.source = "finite_difference"]
            \/ repair' = Finished(repair, "jacobian_failed")
    /\ UNCHANGED flaw

Step ==
    /\ repair.phase = "step"
    /\ \/ repair' = [repair EXCEPT !.phase = "trial", !.attempted = 0, !.failed = 0]
       \/ repair' = Finished(repair, "singular_step")
    /\ UNCHANGED flaw

\* backtrack: a trial is kept if its residual evaluates to less.
Accepted(q) == Norm(q) # None /\ Norm(q) < repair.held

Moved(q) ==
    [Marked(TRUE) EXCEPT !.phase = "visit", !.at = q, !.held = Norm(q), !.iteration = @ + 1]
\* No trial was kept.
Stuck(r) ==
    Finished(r, IF r.failed = r.attempted THEN "nonfinite_trial" ELSE "line_search_failed")
Blocked == flaw.bounded /\ repair' = Finished(Marked(FALSE), "bound_stalled")

\* A trial that clipping puts back where it started ends the search; any other
\* is tried, and a smaller one is next while attempts are left.
Trial ==
    /\ repair.phase = "trial"
    /\ \/ Blocked
       \/ \E q \in Candidate :
            LET tried == [Marked(FALSE) EXCEPT !.attempted = @ + 1, !.failed = @ + IF Norm(q) = None THEN 1 ELSE 0] IN
            /\ q = repair.at => ~flaw.bounded
            /\ repair' = IF Accepted(q) THEN Moved(q)
                         ELSE IF tried.attempted < repair.attempts THEN tried ELSE Stuck(tried)
    /\ UNCHANGED flaw

Next == Begin \/ Visit \/ Jacobian \/ Step \/ Trial

Spec == Init /\ [][Next]_xvars

---------------------------------------------------------------------------
\* The result speaks of the controls it returns: the residual is theirs, below
\* that of the start once a step was kept; iterations, read off the last row that
\* history kept, counts the kept steps; and the reason is what ended the repair,
\* converged exactly if the residual is within tolerance (repairs.py:158-227).
RepairHonest ==
    repair.phase = "done" =>
        LET last == Last(repair.history) IN
        /\ repair.held = Norm(repair.at)
        /\ IF last.iteration = 0 THEN repair.at = repair.start
           ELSE repair.held + last.iteration <= Norm(repair.start)
        /\ last.norm = repair.held
        /\ (repair.reason = "converged") = (repair.held <= Tolerance)
        /\ repair.reason = "maxiter" => last.iteration = repair.maxiter
        /\ repair.reason \in {"bound_stalled", "nonfinite_trial", "line_search_failed"} => last.accepted = FALSE
        /\ last.iteration > 0 => repair.source # "uncomputed"
=============================================================================
