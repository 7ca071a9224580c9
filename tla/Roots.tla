-------------------------------- MODULE Roots --------------------------------
(***************************************************************************)
(* Shooting solves (shooting/solvers.py): the damped Newton loop with its  *)
(* independent verification, resumed from an earlier result, and the       *)
(* direct method that lowers a cost along the roots it corrects back to.   *)
(*                                                                         *)
(* A system is a table over candidates: the residual norm (0 is within     *)
(* tolerance, None fails), whether the Jacobian, the metrics and the cost  *)
(* gradient evaluate, the cost, and what verification would find.  Which   *)
(* candidate a step or a backtracked trial lands on is a choice.           *)
(***************************************************************************)
EXTENDS Integers

CONSTANTS
    Candidate, None,
    Shootings,      \* the systems
    MaxIter,        \* maxiter of a solve, and of the cost loop
    MaxChunks       \* solves resumed from one another

VARIABLES
    shooting,       \* the system
    solve           \* the solve in progress, or its result
rvars == <<shooting, solve>>

Init == shooting \in Shootings /\ solve = [phase |-> "idle"]

Norm(c) == shooting.norm[c]
Usable(c) == Norm(c) # None /\ shooting.jacobian[c]
Lower(c) == {q \in Candidate : Norm(q) # None /\ Norm(q) < Norm(c)}

---------------------------------------------------------------------------
(* The result of a solve *)

\* Verification runs for a converged root whose metrics evaluate; only a check
\* that passes on distinct options qualifies it.
Reason(c, converged, reason) ==
    IF ~converged THEN reason
    ELSE IF ~shooting.measured[c] THEN "evaluation_failed"
    ELSE IF shooting.check[c] = "passes" THEN reason
    ELSE IF shooting.check[c] = "dependent" THEN "verification_not_independent"
    ELSE "verification_failed"

Qualified(c, converged) == converged /\ shooting.measured[c] /\ shooting.check[c] = "passes"

\* The fields of the state a finished solve adds or changes.
Closed(state, converged, reason) ==
    [state EXCEPT !.phase = "done", !.converged = converged,
                  !.qualified = Qualified(state.at, converged),
                  !.reason = Reason(state.at, converged, reason)]

---------------------------------------------------------------------------
(* solve_shooting *)

\* From variables or from the variables and the history of a previous result;
\* row numbers the history, -1 before its first row.  A start that does not
\* evaluate is recorded as a failed result by the coordinators.
Begun(c, from) ==
    [phase |-> "solving", direct |-> FALSE, at |-> c, held |-> Norm(c), start |-> Norm(c),
     iteration |-> 0, row |-> IF from = None THEN -1 ELSE from.row,
     converged |-> FALSE, qualified |-> FALSE, reason |-> None, cost |-> None,
     chunks |-> IF from = None THEN 1 ELSE from.chunks + 1]

BeginSolve ==
    /\ solve.phase \in {"idle", "done"}
    /\ \E resumed \in BOOLEAN :
        /\ resumed => solve.phase = "done" /\ ~solve.direct /\ solve.chunks < MaxChunks
        /\ \E c \in (IF resumed THEN {solve.at} ELSE Candidate) :
            LET begun == Begun(c, IF resumed THEN solve ELSE None) IN
            solve' = IF Usable(c) THEN begun
                     ELSE Closed(begun, FALSE, "initial_evaluation_failed")
    /\ UNCHANGED shooting

\* The loop visits a candidate with its Jacobian: known for the start.
Visiting == solve.phase = "solving" /\ (solve.iteration > 0 => shooting.jacobian[solve.at])
Row == [solve EXCEPT !.row = @ + 1]
Unfinished == Visiting /\ solve.held > 0 /\ solve.iteration < MaxIter

JacobianFails ==
    /\ solve.phase = "solving" /\ solve.iteration > 0 /\ ~shooting.jacobian[solve.at]
    /\ solve' = Closed(solve, FALSE, "jacobian_failed")
    /\ UNCHANGED shooting

Converges ==
    /\ Visiting /\ solve.held = 0
    /\ solve' = Closed(Row, TRUE, "root_tolerance")
    /\ UNCHANGED shooting

\* The visit after the last step only looks for a root.
Spent ==
    /\ Visiting /\ solve.held > 0 /\ solve.iteration = MaxIter
    /\ solve' = Closed(Row, FALSE, "maxiter")
    /\ UNCHANGED shooting

\* No step: a singular system, a step function that raises, a step of no length.
NoStep ==
    /\ Unfinished
    /\ \E reason \in {"singular_step", "proposal_failed", "least_squares_stationary"} :
          solve' = Closed(Row, FALSE, reason)
    /\ UNCHANGED shooting

\* A backtracked trial lowers the residual norm; a step function may ask to stop.
HoldEarlier(state, q) == [state EXCEPT !.at = q, !.iteration = @ + 1]
Hold(state, q) == [state EXCEPT !.at = q, !.held = Norm(q), !.iteration = @ + 1]
Improves ==
    /\ Unfinished
    /\ \E q \in Lower(solve.at) :
          \/ solve' = Hold(Row, q)
          \/ solve' = Closed(Hold(Row, q), FALSE, "proposed")
    /\ UNCHANGED shooting

\* No trial does: all of them failed, the bounds block the step, or it is one of
\* the other ways to be stuck.
Stuck ==
    /\ Unfinished
    /\ \E reason \in {"bound_stalled", "least_squares_stationary", "line_search_failed",
                      "nonfinite_trial"} :
        /\ reason = "nonfinite_trial" => \E q \in Candidate : Norm(q) = None
        /\ solve' = Closed(Row, FALSE, reason)
    /\ UNCHANGED shooting

---------------------------------------------------------------------------
(* solve_direct_shooting: each solve inside it is one step here *)

\* What a Newton solve from c can end with; none when it raises.
Solves(c) ==
    IF ~Usable(c) THEN {}
    ELSE {[at |-> q, converged |-> Norm(q) = 0 /\ shooting.jacobian[q]] : q \in {c} \cup Lower(c)}
Corrected(c) == {r.at : r \in {s \in Solves(c) : Qualified(s.at, s.converged)}}

\* The cost, in descent convention, of the qualified candidate.
Descending(c) ==
    [Begun(c, None) EXCEPT !.phase = "descending", !.direct = TRUE, !.start = shooting.cost[c],
                           !.cost = shooting.cost[c]]

BeginDirect ==
    /\ solve.phase \in {"idle", "done"}
    /\ \E s \in UNION {Solves(c) : c \in Candidate} :
          solve' = IF Qualified(s.at, s.converged) THEN Descending(s.at)
                   ELSE [Closed([Begun(s.at, None) EXCEPT !.direct = TRUE], s.converged, "stopped")
                           EXCEPT !.reason = "initial_feasibility_failed"]
    /\ UNCHANGED shooting

\* One iteration: tangent steps of decreasing length, each corrected back to a
\* root, until one lowers the cost.
Follows == UNION {Corrected(t) : t \in Candidate}
Descend ==
    /\ solve.phase = "descending" /\ solve.iteration < MaxIter /\ shooting.gradient[solve.at]
    /\ \E q \in Follows :
        /\ shooting.cost[q] < solve.cost
        /\ solve' = [solve EXCEPT !.at = q, !.held = Norm(q), !.cost = shooting.cost[q],
                                  !.iteration = @ + 1]
    /\ UNCHANGED shooting

\* The loop ends; the candidate is solved, verified and measured once more.
EndDirect ==
    /\ solve.phase = "descending"
    /\ \E reason \in {"maxiter", "cost_stationary", "cost_line_search_failed", "cost_gradient_failed"} :
        /\ (reason = "maxiter") = (solve.iteration = MaxIter)
        /\ (reason = "cost_gradient_failed") = (solve.iteration < MaxIter /\ ~shooting.gradient[solve.at])
        /\ \E s \in Solves(solve.at) :
            LET final == [solve EXCEPT !.at = s.at, !.held = Norm(s.at), !.cost = shooting.cost[s.at]] IN
            solve' = Closed(final, s.converged,
                            IF Qualified(s.at, s.converged) THEN reason ELSE "root_tolerance")
    /\ UNCHANGED shooting

Next ==
    \/ BeginSolve \/ JacobianFails \/ Converges \/ Spent \/ NoStep \/ Improves \/ Stuck
    \/ BeginDirect \/ Descend \/ EndDirect

Spec == Init /\ [][Next]_rvars

---------------------------------------------------------------------------
\* What a result says is about the candidate it returns: the residual is that of
\* the candidate, it is no worse than the start of the chain, a qualified result
\* is a verified root, and a direct solve that began with a root ends with one
\* that costs no more, under the name of the reason its cost loop stopped for.
ResultOfItsCandidate ==
    solve.phase = "done" =>
        /\ Norm(solve.at) # None => solve.held = Norm(solve.at)
        /\ ~solve.direct /\ solve.held # None => solve.held <= solve.start
        /\ solve.qualified => Norm(solve.at) = 0 /\ shooting.check[solve.at] = "passes"
        /\ ~solve.direct => (solve.qualified = (solve.reason = "root_tolerance"))
        /\ solve.direct /\ solve.reason # "initial_feasibility_failed" =>
              solve.qualified /\ solve.cost <= solve.start
=============================================================================
