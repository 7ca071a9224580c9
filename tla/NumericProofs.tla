--------------------------- MODULE NumericProofs ---------------------------
(***************************************************************************)
(* Proofs about the parts of MCMethods that have constants of their own,   *)
(* for every value of these: shooting solves (Roots), residual repairs     *)
(* (Repairs), continuations (Branches), campaigns (Campaigns) and CMA-ES   *)
(* (Population).  What EngineProofs proves of the chunk engine and of the   *)
(* evaluators is carried over here.                                        *)
(***************************************************************************)
EXTENDS MCMethods, FiniteSetTheorems, SequenceTheorems, Sums, TLAPS

-----------------------------------------------------------------------------
(* Roots                                                                   *)

Reasons ==
  {"initial_evaluation_failed", "jacobian_failed", "root_tolerance", "maxiter", "singular_step",
   "proposal_failed", "least_squares_stationary", "proposed", "bound_stalled", "line_search_failed",
   "nonfinite_trial", "initial_feasibility_failed", "stopped", "cost_stationary",
   "cost_line_search_failed", "cost_gradient_failed", "evaluation_failed",
   "verification_not_independent", "verification_failed"}

SolveRecord ==
  [phase : {"solving", "descending", "done"}, direct : BOOLEAN, at : ShootingCandidate,
   held : Nat \cup {None}, start : Int \cup {None}, iteration : Nat, row : Int,
   converged : BOOLEAN, qualified : BOOLEAN, reason : Reasons \cup {None},
   cost : Int \cup {None}, chunks : Nat]

\* A root that verification accepts.
Verified(c) ==
  R!Norm(c) = 0 /\ shooting.jacobian[c] /\ shooting.measured[c] /\ shooting.check[c] = "passes"

\* What is held is the norm of the candidate; the Newton loop never rises above its start, and
\* the direct method only stands on verified roots, whose cost it knows.
SolveInv ==
  /\ shooting \in Shootings
  /\ \/ solve = [phase |-> "idle"]
     \/ /\ solve \in SolveRecord
        /\ solve.held = R!Norm(solve.at)
        /\ solve.phase = "solving" =>
             ~solve.direct /\ solve.held # None /\ solve.start # None /\ solve.held <= solve.start
        /\ solve.phase = "descending" =>
             /\ solve.direct /\ Verified(solve.at)
             /\ solve.cost = shooting.cost[solve.at] /\ solve.start # None
             /\ solve.cost <= solve.start
        /\ solve.phase = "done" => R!ResultOfItsCandidate

\* The tables of the system in use.
LEMMA Tables ==
  ASSUME RootsSound, shooting \in Shootings, NEW c \in ShootingCandidate
  PROVE  /\ R!Norm(c) \in Nat \cup {None} /\ shooting.jacobian[c] \in BOOLEAN
         /\ shooting.measured[c] \in BOOLEAN /\ shooting.cost[c] \in Int
  BY DEF RootsSound, R!Norm

\* A finished solve that was not converged, or that was and has a reason of its own.
LEMMA ClosedFields ==
  ASSUME RootsSound, shooting \in Shootings, NEW state \in SolveRecord,
         NEW converged \in BOOLEAN, NEW reason \in Reasons, NEW t,
         t = R!Closed(state, converged, reason)
  PROVE  /\ t \in SolveRecord /\ t.phase = "done" /\ t.direct = state.direct /\ t.at = state.at
         /\ t.held = state.held /\ t.start = state.start /\ t.cost = state.cost
         /\ t.qualified = (converged /\ shooting.measured[t.at] /\ shooting.check[t.at] = "passes")
         /\ t.reason = IF ~converged THEN reason
                       ELSE IF ~shooting.measured[t.at] THEN "evaluation_failed"
                       ELSE IF shooting.check[t.at] = "passes" THEN reason
                       ELSE IF shooting.check[t.at] = "dependent" THEN "verification_not_independent"
                       ELSE "verification_failed"
<1>1. state.at \in ShootingCandidate
  BY DEF SolveRecord
<1>2. PICK q : q = R!Qualified(state.at, converged)
  OBVIOUS
<1>3. PICK r : r = R!Reason(state.at, converged, reason)
  OBVIOUS
<1>4. q \in BOOLEAN /\ q = (converged /\ shooting.measured[state.at] /\ shooting.check[state.at] = "passes")
  BY <1>1, <1>2, Tables DEF R!Qualified
<1>5. r = IF ~converged THEN reason
          ELSE IF ~shooting.measured[state.at] THEN "evaluation_failed"
          ELSE IF shooting.check[state.at] = "passes" THEN reason
          ELSE IF shooting.check[state.at] = "dependent" THEN "verification_not_independent"
          ELSE "verification_failed"
  BY <1>3 DEF R!Reason
<1>6. r \in Reasons
  BY <1>5 DEF Reasons
<1>7. t = [state EXCEPT !.phase = "done", !.converged = converged, !.qualified = q, !.reason = r]
  BY <1>2, <1>3 DEF R!Closed
<1>8. t \in SolveRecord /\ t.phase = "done" /\ t.direct = state.direct /\ t.at = state.at
      /\ t.held = state.held /\ t.start = state.start /\ t.cost = state.cost
      /\ t.qualified = q /\ t.reason = r
  <2>1. t = [phase |-> "done", direct |-> state.direct, at |-> state.at, held |-> state.held,
             start |-> state.start, iteration |-> state.iteration, row |-> state.row,
             converged |-> converged, qualified |-> q, reason |-> r, cost |-> state.cost,
             chunks |-> state.chunks]
    BY <1>7 DEF SolveRecord
  <2> QED
    BY <1>4, <1>6, <2>1 DEF SolveRecord
<1> QED
  BY <1>4, <1>5, <1>8

\* A Newton solve that ends where it stands.
LEMMA NewtonEnds ==
  ASSUME RootsSound, SolveInv, NEW state \in SolveRecord, ~state.direct,
         state.held = R!Norm(state.at), state.held # None => state.start # None /\ state.held <= state.start,
         NEW converged \in BOOLEAN, NEW reason \in Reasons,
         converged => R!Norm(state.at) = 0 /\ reason = "root_tolerance",
         ~converged => reason # "root_tolerance",
         solve' = R!Closed(state, converged, reason), shooting' = shooting
  PROVE  SolveInv'
<1>1. shooting \in Shootings
  BY DEF SolveInv
<1>2. /\ solve' \in SolveRecord /\ solve'.phase = "done" /\ ~solve'.direct /\ solve'.at = state.at
      /\ solve'.held = state.held /\ solve'.start = state.start
      /\ solve'.qualified = (converged /\ shooting.measured[solve'.at] /\ shooting.check[solve'.at] = "passes")
      /\ solve'.reason = IF ~converged THEN reason
                       ELSE IF ~shooting.measured[solve'.at] THEN "evaluation_failed"
                       ELSE IF shooting.check[solve'.at] = "passes" THEN reason
                       ELSE IF shooting.check[solve'.at] = "dependent" THEN "verification_not_independent"
                       ELSE "verification_failed"
  BY <1>1, ClosedFields
<1>3. R!Norm(solve.at)' = R!Norm(state.at)
  BY <1>2 DEF R!Norm
<1>4. solve'.qualified = (solve'.reason = "root_tolerance")
  BY <1>2
<1>5. R!ResultOfItsCandidate'
  BY <1>2, <1>3, <1>4 DEF R!ResultOfItsCandidate
<1> QED
  BY <1>1, <1>2, <1>3, <1>5 DEF SolveInv

\* What a solve holds while its loop runs, and the row that a visit adds.
LEMMA Solving ==
  ASSUME RootsSound, SolveInv, solve.phase = "solving", NEW s \in {solve, R!Row}
  PROVE  /\ solve \in SolveRecord
         /\ s \in SolveRecord /\ ~s.direct /\ s.phase = "solving" /\ s.at = solve.at
         /\ s.held = solve.held /\ s.start = solve.start /\ s.iteration = solve.iteration
         /\ solve.held = R!Norm(solve.at)
         /\ solve.held \in Nat /\ solve.start \in Int /\ solve.held <= solve.start
<1>1. solve \in SolveRecord
  BY DEF SolveInv
<1>2. R!Row \in SolveRecord /\ R!Row.at = solve.at /\ R!Row.held = solve.held
      /\ R!Row.start = solve.start /\ R!Row.direct = solve.direct /\ R!Row.phase = solve.phase
      /\ R!Row.iteration = solve.iteration
  <2>1. R!Row = [phase |-> solve.phase, direct |-> solve.direct, at |-> solve.at, held |-> solve.held,
                 start |-> solve.start, iteration |-> solve.iteration, row |-> solve.row + 1,
                 converged |-> solve.converged, qualified |-> solve.qualified,
                 reason |-> solve.reason, cost |-> solve.cost, chunks |-> solve.chunks]
    BY <1>1 DEF R!Row, SolveRecord
  <2> QED
    BY <1>1, <2>1 DEF SolveRecord
<1>3. s \in SolveRecord /\ s.at = solve.at /\ s.held = solve.held /\ s.iteration = solve.iteration
      /\ s.start = solve.start /\ s.direct = solve.direct /\ s.phase = solve.phase
  BY <1>1, <1>2
<1>4. /\ solve.held = R!Norm(solve.at) /\ ~solve.direct /\ solve.held # None /\ solve.start # None
      /\ solve.held <= solve.start
  BY DEF SolveInv
<1>5. solve.held \in Nat /\ solve.start \in Int
  BY <1>1, <1>4 DEF SolveRecord
<1> QED
  BY <1>1, <1>3, <1>4, <1>5

\* The record a solve begins with.
LEMMA BegunFields ==
  ASSUME RootsSound, shooting \in Shootings, NEW c \in ShootingCandidate, NEW from,
         from = None \/ (from # None /\ from.row \in Int /\ from.chunks \in Nat)
  PROVE  /\ R!Begun(c, from) \in SolveRecord /\ R!Begun(c, from).phase = "solving"
         /\ ~R!Begun(c, from).direct /\ R!Begun(c, from).at = c
         /\ R!Begun(c, from).held = R!Norm(c) /\ R!Begun(c, from).start = R!Norm(c)
<1>1. R!Norm(c) \in Nat \cup {None}
  BY Tables
<1>2. PICK row : row = IF from = None THEN -1 ELSE from.row
  OBVIOUS
<1>3. PICK chunks : chunks = IF from = None THEN 1 ELSE from.chunks + 1
  OBVIOUS
<1>4. row \in Int /\ chunks \in Nat
  BY <1>2, <1>3
<1>5. R!Begun(c, from) =
        [phase |-> "solving", direct |-> FALSE, at |-> c, held |-> R!Norm(c), start |-> R!Norm(c),
         iteration |-> 0, row |-> row, converged |-> FALSE, qualified |-> FALSE,
         reason |-> None, cost |-> None, chunks |-> chunks]
  BY <1>2, <1>3 DEF R!Begun
<1> QED
  BY <1>1, <1>4, <1>5 DEF SolveRecord

\* A Newton solve begins, from variables or from an earlier result.
LEMMA BeginSolveKeeps ==
  ASSUME RootsSound, SolveInv, R!BeginSolve
  PROVE  SolveInv'
<1>1. PICK resumed \in BOOLEAN :
        /\ resumed => solve.phase = "done" /\ ~solve.direct
        /\ \E c \in (IF resumed THEN {solve.at} ELSE ShootingCandidate) :
             LET begun == R!Begun(c, IF resumed THEN solve ELSE None) IN
             solve' = IF R!Usable(c) THEN begun
                      ELSE R!Closed(begun, FALSE, "initial_evaluation_failed")
  BY DEF R!BeginSolve
<1>2. resumed => solve \in SolveRecord
  BY <1>1 DEF SolveInv
<1>3. PICK from : from = IF resumed THEN solve ELSE None
  OBVIOUS
<1>4. PICK c \in ShootingCandidate :
        solve' = IF R!Usable(c) THEN R!Begun(c, from)
                 ELSE R!Closed(R!Begun(c, from), FALSE, "initial_evaluation_failed")
  BY <1>1, <1>2, <1>3 DEF SolveRecord
<1>5. from = None \/ (from # None /\ from.row \in Int /\ from.chunks \in Nat)
  BY <1>2, <1>3 DEF SolveRecord
<1>6. shooting \in Shootings /\ shooting' = shooting
  BY DEF SolveInv, R!BeginSolve
<1>7. PICK begun : begun = R!Begun(c, from)
  OBVIOUS
<1>8. /\ begun \in SolveRecord /\ begun.phase = "solving" /\ ~begun.direct /\ begun.at = c
      /\ begun.held = R!Norm(c) /\ begun.start = R!Norm(c)
  BY <1>5, <1>6, <1>7, BegunFields
<1>9. R!Norm(c) \in Nat \cup {None}
  BY <1>6, Tables
<1>10. CASE R!Usable(c)
  <2>1. solve' = begun /\ R!Norm(c) # None
    BY <1>4, <1>7, <1>10 DEF R!Usable
  <2>2. R!Norm(solve.at)' = R!Norm(c)
    BY <1>6, <1>8, <2>1 DEF R!Norm
  <2>3. begun.held <= begun.start
    BY <1>8, <1>9, <2>1
  <2> QED
    BY <1>6, <1>8, <2>1, <2>2, <2>3 DEF SolveInv
<1>11. CASE ~R!Usable(c)
  <2>1. solve' = R!Closed(begun, FALSE, "initial_evaluation_failed")
    BY <1>4, <1>7, <1>11
  <2>2. "initial_evaluation_failed" \in Reasons
    BY DEF Reasons
  <2>3. begun.held # None => begun.start # None /\ begun.held <= begun.start
    BY <1>8, <1>9
  <2> QED
    BY <1>6, <1>8, <2>1, <2>2, <2>3, NewtonEnds
<1> QED
  BY <1>10, <1>11

\* The ways the Newton loop ends where it stands.
LEMMA LoopEnds ==
  ASSUME RootsSound, SolveInv,
         R!JacobianFails \/ R!Converges \/ R!Spent \/ R!NoStep \/ R!Stuck
  PROVE  SolveInv'
<1>1. solve.phase = "solving" /\ shooting' = shooting
  BY DEF R!JacobianFails, R!Converges, R!Spent, R!NoStep, R!Stuck, R!Visiting, R!Unfinished
<1>2. PICK s \in {solve, R!Row}, converged \in BOOLEAN, reason \in Reasons :
        /\ converged => solve.held = 0 /\ reason = "root_tolerance"
        /\ ~converged => reason # "root_tolerance"
        /\ solve' = R!Closed(s, converged, reason)
  <2>1. CASE R!JacobianFails
    BY <2>1 DEF R!JacobianFails, Reasons
  <2>2. CASE R!Converges
    BY <2>2 DEF R!Converges, Reasons
  <2>3. CASE R!Spent
    BY <2>3 DEF R!Spent, Reasons
  <2>4. CASE R!NoStep
    BY <2>4 DEF R!NoStep, Reasons
  <2>5. CASE R!Stuck
    BY <2>5 DEF R!Stuck, Reasons
  <2> QED
    BY <2>1, <2>2, <2>3, <2>4, <2>5
<1>3. /\ s \in SolveRecord /\ ~s.direct /\ s.at = solve.at /\ s.held = solve.held
      /\ s.start = solve.start /\ solve.held = R!Norm(solve.at)
      /\ solve.held \in Nat /\ solve.start \in Int /\ solve.held <= solve.start
  BY <1>1, Solving
<1>4. s.held = R!Norm(s.at) /\ (s.held # None => s.start # None /\ s.held <= s.start)
  BY <1>3 DEF RootsSound
<1>5. converged => R!Norm(s.at) = 0 /\ reason = "root_tolerance"
  BY <1>2, <1>3
<1> QED
  BY <1>1, <1>2, <1>3, <1>4, <1>5, NewtonEnds

\* The candidate a step lands on.
LEMMA HoldFields ==
  ASSUME RootsSound, SolveInv, solve.phase = "solving", NEW q \in R!Lower(solve.at), NEW h,
         h = R!Hold(R!Row, q)
  PROVE  /\ h \in SolveRecord /\ h.phase = "solving" /\ ~h.direct /\ h.at = q
         /\ h.held = R!Norm(q) /\ h.start = solve.start
         /\ h.held \in Nat /\ h.start \in Int /\ h.held <= h.start
<1>1. PICK r : r = R!Row
  OBVIOUS
<1>2. /\ r \in SolveRecord /\ ~r.direct /\ r.phase = "solving" /\ r.start = solve.start
      /\ solve.held = R!Norm(solve.at) /\ solve.held \in Nat /\ solve.start \in Int
      /\ solve.held <= solve.start
  BY <1>1, Solving
<1>3. q \in ShootingCandidate /\ R!Norm(q) # None /\ R!Norm(q) < R!Norm(solve.at)
  BY DEF R!Lower
<1>4. R!Norm(q) \in Nat
  BY <1>3, Tables DEF SolveInv
<1>5. h = [phase |-> r.phase, direct |-> r.direct, at |-> q, held |-> R!Norm(q),
           start |-> r.start, iteration |-> r.iteration + 1, row |-> r.row,
           converged |-> r.converged, qualified |-> r.qualified,
           reason |-> r.reason, cost |-> r.cost, chunks |-> r.chunks]
  BY <1>1, <1>2 DEF R!Hold, SolveRecord
<1>6. h \in SolveRecord /\ h.phase = "solving" /\ ~h.direct /\ h.at = q
      /\ h.held = R!Norm(q) /\ h.start = solve.start
  BY <1>2, <1>3, <1>4, <1>5 DEF SolveRecord
<1> QED
  BY <1>2, <1>3, <1>4, <1>6

\* A trial that lowers the norm is taken; the step function may stop the solve there.
LEMMA ImprovesKeeps ==
  ASSUME RootsSound, SolveInv, R!Improves
  PROVE  SolveInv'
<1>1. solve.phase = "solving" /\ shooting' = shooting /\ shooting \in Shootings
  BY DEF R!Improves, R!Visiting, R!Unfinished, SolveInv
<1>2. PICK q \in R!Lower(solve.at) :
        \/ solve' = R!Hold(R!Row, q)
        \/ solve' = R!Closed(R!Hold(R!Row, q), FALSE, "proposed")
  BY DEF R!Improves
<1>3. PICK h : h = R!Hold(R!Row, q)
  OBVIOUS
<1>4. /\ h \in SolveRecord /\ h.phase = "solving" /\ ~h.direct /\ h.at = q
      /\ h.held = R!Norm(q) /\ h.held \in Nat /\ h.start \in Int /\ h.held <= h.start
  BY <1>1, <1>3, HoldFields
<1>5. h.held # None /\ h.start # None
  BY <1>4 DEF RootsSound
<1>6. CASE solve' = h
  <2>1. R!Norm(solve.at)' = R!Norm(q)
    BY <1>1, <1>4, <1>6 DEF R!Norm
  <2> QED
    BY <1>1, <1>4, <1>5, <1>6, <2>1 DEF SolveInv
<1>7. CASE solve' = R!Closed(h, FALSE, "proposed")
  <2>1. "proposed" \in Reasons
    BY DEF Reasons
  <2> QED
    BY <1>1, <1>4, <1>5, <1>7, <2>1, NewtonEnds
<1> QED
  BY <1>2, <1>3, <1>6, <1>7

\* What a Newton solve ends with; from a verified root it ends there.
LEMMA SolvesEnd ==
  ASSUME RootsSound, shooting \in Shootings, NEW c \in ShootingCandidate, NEW s \in R!Solves(c)
  PROVE  /\ s.at \in ShootingCandidate /\ s.converged \in BOOLEAN
         /\ s.converged = (R!Norm(s.at) = 0 /\ shooting.jacobian[s.at])
         /\ Verified(c) => s.at = c /\ s.converged
<1>1. R!Usable(c)
  BY DEF R!Solves
<1>2. PICK q \in {c} \cup R!Lower(c) :
        s = [at |-> q, converged |-> R!Norm(q) = 0 /\ shooting.jacobian[q]]
  BY <1>1 DEF R!Solves
<1>3. q \in ShootingCandidate
  BY DEF R!Lower
<1>4. shooting.jacobian[q] \in BOOLEAN /\ R!Norm(q) \in Nat \cup {None}
  BY <1>3, Tables
<1>5. s.at = q /\ s.converged = (R!Norm(q) = 0 /\ shooting.jacobian[q])
  BY <1>2
<1>6. Verified(c) => q = c
  <2>1. ASSUME R!Norm(c) = 0, q \in R!Lower(c) PROVE FALSE
    <3>1. R!Norm(q) # None /\ R!Norm(q) < 0
      BY <2>1 DEF R!Lower
    <3> QED
      BY <1>4, <3>1
  <2> QED
    BY <2>1 DEF Verified
<1> QED
  BY <1>3, <1>4, <1>5, <1>6 DEF Verified

\* A qualified end of a Newton solve is a verified root.
LEMMA QualifiedVerified ==
  ASSUME NEW c, NEW converged, R!Qualified(c, converged),
         converged = (R!Norm(c) = 0 /\ shooting.jacobian[c])
  PROVE  Verified(c) /\ converged
  BY DEF R!Qualified, Verified

\* The direct method begins at a root that qualifies, or ends at once.
LEMMA BeginDirectKeeps ==
  ASSUME RootsSound, SolveInv, R!BeginDirect
  PROVE  SolveInv'
<1>1. shooting \in Shootings /\ shooting' = shooting
  BY DEF SolveInv, R!BeginDirect
<1>2. PICK c \in ShootingCandidate : \E s \in R!Solves(c) :
        solve' = IF R!Qualified(s.at, s.converged) THEN R!Descending(s.at)
                 ELSE [R!Closed([R!Begun(s.at, None) EXCEPT !.direct = TRUE], s.converged, "stopped")
                         EXCEPT !.reason = "initial_feasibility_failed"]
  BY DEF R!BeginDirect
<1>0. PICK s \in R!Solves(c) :
        solve' = IF R!Qualified(s.at, s.converged) THEN R!Descending(s.at)
                 ELSE [R!Closed([R!Begun(s.at, None) EXCEPT !.direct = TRUE], s.converged, "stopped")
                         EXCEPT !.reason = "initial_feasibility_failed"]
  BY <1>2
<1>3. s.at \in ShootingCandidate /\ s.converged \in BOOLEAN
      /\ s.converged = (R!Norm(s.at) = 0 /\ shooting.jacobian[s.at])
  BY <1>1, SolvesEnd
<1>4. PICK b : b = R!Begun(s.at, None)
  OBVIOUS
<1>5. b \in SolveRecord /\ b.at = s.at /\ b.held = R!Norm(s.at)
  BY <1>1, <1>3, <1>4, BegunFields
<1>6. shooting.cost[s.at] \in Int
  BY <1>1, <1>3, Tables
<1>7. CASE R!Qualified(s.at, s.converged)
  <2>1. solve' = [b EXCEPT !.phase = "descending", !.direct = TRUE, !.start = shooting.cost[s.at],
                           !.cost = shooting.cost[s.at]]
    BY <1>0, <1>4, <1>7 DEF R!Descending
  <2>2. solve' = [phase |-> "descending", direct |-> TRUE, at |-> b.at, held |-> b.held,
                  start |-> shooting.cost[s.at], iteration |-> b.iteration, row |-> b.row,
                  converged |-> b.converged, qualified |-> b.qualified, reason |-> b.reason,
                  cost |-> shooting.cost[s.at], chunks |-> b.chunks]
    BY <1>5, <2>1 DEF SolveRecord
  <2>3. solve' \in SolveRecord
    BY <1>5, <1>6, <2>2 DEF SolveRecord
  <2>4. Verified(s.at) /\ solve'.at = s.at /\ solve'.held = R!Norm(s.at)
    BY <1>3, <1>5, <1>7, <2>2, QualifiedVerified
  <2>5. Verified(solve.at)' /\ R!Norm(solve.at)' = R!Norm(s.at)
    BY <1>1, <2>4 DEF Verified, R!Norm
  <2>6. solve'.start # None /\ solve'.cost <= solve'.start
    BY <1>6, <2>2 DEF RootsSound
  <2> QED
    BY <1>1, <2>2, <2>3, <2>4, <2>5, <2>6 DEF SolveInv
<1>8. CASE ~R!Qualified(s.at, s.converged)
  <2>1. PICK d : d = [b EXCEPT !.direct = TRUE]
    OBVIOUS
  <2>2. d \in SolveRecord /\ d.at = s.at /\ d.held = R!Norm(s.at) /\ d.direct
    BY <1>5, <2>1 DEF SolveRecord
  <2>3. PICK t : t = R!Closed(d, s.converged, "stopped")
    OBVIOUS
  <2>4. t \in SolveRecord /\ t.phase = "done" /\ t.direct /\ t.at = s.at /\ t.held = R!Norm(s.at)
        /\ t.qualified = (s.converged /\ shooting.measured[t.at] /\ shooting.check[t.at] = "passes")
    <3>1. "stopped" \in Reasons
      BY DEF Reasons
    <3>2. PICK converged \in BOOLEAN : converged = s.converged
      BY <1>3
    <3>3. t = R!Closed(d, converged, "stopped")
      BY <2>3, <3>2
    <3>4. /\ t \in SolveRecord /\ t.phase = "done" /\ t.direct /\ t.at = d.at
          /\ t.held = d.held
          /\ t.qualified = (converged /\ shooting.measured[t.at] /\ shooting.check[t.at] = "passes")
      BY <1>1, <2>2, <3>1, <3>3, ClosedFields
    <3> QED
      BY <2>2, <3>2, <3>4
  <2>5. ~t.qualified
    BY <1>8, <2>4 DEF R!Qualified
  <2>6. solve' = [t EXCEPT !.reason = "initial_feasibility_failed"]
    BY <1>0, <1>4, <1>8, <2>1, <2>3
  <2>7. solve' \in SolveRecord /\ solve'.phase = "done" /\ solve'.direct /\ solve'.at = s.at
        /\ solve'.held = R!Norm(s.at) /\ ~solve'.qualified
        /\ solve'.reason = "initial_feasibility_failed"
    BY <2>4, <2>5, <2>6 DEF SolveRecord, Reasons
  <2>8. R!Norm(solve.at)' = R!Norm(s.at)
    BY <1>1, <2>7 DEF R!Norm
  <2>9. R!ResultOfItsCandidate'
    BY <2>7, <2>8 DEF R!ResultOfItsCandidate
  <2> QED
    BY <1>1, <2>7, <2>8, <2>9 DEF SolveInv
<1> QED
  BY <1>7, <1>8

\* The direct method moves to a verified root that costs less.
LEMMA DescendKeeps ==
  ASSUME RootsSound, SolveInv, R!Descend
  PROVE  SolveInv'
<1>1. shooting \in Shootings /\ shooting' = shooting /\ solve.phase = "descending"
  BY DEF SolveInv, R!Descend
<1>2. /\ solve \in SolveRecord /\ solve.direct /\ solve.cost = shooting.cost[solve.at]
      /\ solve.start # None /\ solve.cost <= solve.start
  BY <1>1 DEF SolveInv
<1>3. PICK q \in R!Follows :
        /\ shooting.cost[q] < solve.cost
        /\ solve' = [solve EXCEPT !.at = q, !.held = R!Norm(q), !.cost = shooting.cost[q],
                                  !.iteration = @ + 1]
  BY DEF R!Descend
<1>4. PICK c \in ShootingCandidate : q \in R!Corrected(c)
  BY DEF R!Follows
<1>5. PICK s \in R!Solves(c) : R!Qualified(s.at, s.converged) /\ q = s.at
  BY <1>4 DEF R!Corrected
<1>6. q \in ShootingCandidate /\ s.converged = (R!Norm(q) = 0 /\ shooting.jacobian[q])
  BY <1>1, <1>5, SolvesEnd
<1>7. Verified(q)
  BY <1>5, <1>6, QualifiedVerified
<1>8. shooting.cost[q] \in Int /\ R!Norm(q) \in Nat \cup {None}
  BY <1>1, <1>6, Tables
<1>9. solve.cost \in Int /\ solve.start \in Int
  BY <1>1, <1>2, Tables DEF SolveRecord
<1>10. solve' = [phase |-> solve.phase, direct |-> solve.direct, at |-> q, held |-> R!Norm(q),
                 start |-> solve.start, iteration |-> solve.iteration + 1, row |-> solve.row,
                 converged |-> solve.converged, qualified |-> solve.qualified,
                 reason |-> solve.reason, cost |-> shooting.cost[q], chunks |-> solve.chunks]
  BY <1>2, <1>3 DEF SolveRecord
<1>11. solve' \in SolveRecord
  BY <1>2, <1>6, <1>8, <1>10 DEF SolveRecord
<1>12. solve'.at = q /\ solve'.held = R!Norm(q) /\ solve'.phase = "descending" /\ solve'.direct
       /\ solve'.cost = shooting.cost[q] /\ solve'.start = solve.start
  BY <1>1, <1>2, <1>10
<1>13. Verified(solve.at)' /\ R!Norm(solve.at)' = R!Norm(q)
  BY <1>1, <1>7, <1>12 DEF Verified, R!Norm
<1>14. solve'.cost <= solve'.start
  BY <1>2, <1>3, <1>8, <1>9, <1>12
<1> QED
  BY <1>1, <1>2, <1>11, <1>12, <1>13, <1>14 DEF SolveInv

\* The last solve of the direct method ends on the verified root it started from.
LEMMA EndDirectKeeps ==
  ASSUME RootsSound, SolveInv, R!EndDirect
  PROVE  SolveInv'
<1>1. shooting \in Shootings /\ shooting' = shooting /\ solve.phase = "descending"
  BY DEF SolveInv, R!EndDirect
<1>2. /\ solve \in SolveRecord /\ solve.direct /\ solve.cost = shooting.cost[solve.at]
      /\ solve.cost <= solve.start /\ Verified(solve.at) /\ solve.held = R!Norm(solve.at)
      /\ solve.at \in ShootingCandidate
  BY <1>1 DEF SolveInv, SolveRecord
<1>3. PICK reason \in {"maxiter", "cost_stationary", "cost_line_search_failed", "cost_gradient_failed"} :
        \E s \in R!Solves(solve.at) :
            LET final == [solve EXCEPT !.at = s.at, !.held = R!Norm(s.at), !.cost = shooting.cost[s.at]] IN
            solve' = R!Closed(final, s.converged,
                              IF R!Qualified(s.at, s.converged) THEN reason ELSE "root_tolerance")
  BY DEF R!EndDirect
<1>4. PICK s \in R!Solves(solve.at) :
        solve' = R!Closed([solve EXCEPT !.at = s.at, !.held = R!Norm(s.at), !.cost = shooting.cost[s.at]],
                          s.converged, IF R!Qualified(s.at, s.converged) THEN reason ELSE "root_tolerance")
  BY <1>3
<1>5. s.at = solve.at /\ s.converged \in BOOLEAN /\ s.converged
  BY <1>1, <1>2, SolvesEnd
<1>6. R!Qualified(s.at, s.converged)
  BY <1>2, <1>5 DEF Verified, R!Qualified
<1>7. [solve EXCEPT !.at = s.at, !.held = R!Norm(s.at), !.cost = shooting.cost[s.at]] = solve
  BY <1>2, <1>5 DEF SolveRecord
<1>8. PICK converged \in BOOLEAN : converged = s.converged
  BY <1>5
<1>9. solve' = R!Closed(solve, converged, reason)
  BY <1>4, <1>6, <1>7, <1>8
<1>10. reason \in Reasons /\ reason # "initial_feasibility_failed"
  BY DEF Reasons
<1>11. /\ solve' \in SolveRecord /\ solve'.phase = "done" /\ solve'.direct
       /\ solve'.at = solve.at /\ solve'.held = solve.held /\ solve'.start = solve.start
       /\ solve'.cost = solve.cost
       /\ solve'.qualified = (converged /\ shooting.measured[solve'.at] /\ shooting.check[solve'.at] = "passes")
  BY <1>1, <1>2, <1>9, <1>10, ClosedFields
<1>12. solve'.qualified
  BY <1>2, <1>5, <1>8, <1>11 DEF Verified
<1>13. R!Norm(solve.at)' = R!Norm(solve.at) /\ shooting'.check = shooting.check
  BY <1>1, <1>11 DEF R!Norm
<1>14. R!ResultOfItsCandidate'
  BY <1>1, <1>2, <1>11, <1>12, <1>13 DEF R!ResultOfItsCandidate, Verified
<1> QED
  BY <1>1, <1>2, <1>11, <1>13, <1>14 DEF SolveInv

\* Every step of a shooting solve keeps the invariant.
LEMMA SolveStep ==
  ASSUME RootsSound, SolveInv, [R!Next]_(R!rvars)
  PROVE  SolveInv'
<1>1. CASE UNCHANGED R!rvars
  BY <1>1 DEF R!rvars, SolveInv, R!ResultOfItsCandidate, R!Norm, Verified
<1>2. CASE R!Next
  BY <1>2, BeginSolveKeeps, LoopEnds, ImprovesKeeps, BeginDirectKeeps, DescendKeeps,
     EndDirectKeeps DEF R!Next
<1> QED
  BY <1>1, <1>2

\* The residual, the reason and the qualification of a shooting result speak of the candidate
\* it returns (shooting/solvers.py).
LEMMA RootsHonest ==
  ASSUME RootsSound
  PROVE  R!Spec => []R!ResultOfItsCandidate
<1>1. R!Init => SolveInv
  BY DEF R!Init, SolveInv
<1>2. SolveInv /\ [R!Next]_(R!rvars) => SolveInv'
  BY SolveStep
<1>3. SolveInv => R!ResultOfItsCandidate
  BY DEF SolveInv, R!ResultOfItsCandidate
<1> QED
  BY <1>1, <1>2, <1>3, PTL DEF R!Spec

-----------------------------------------------------------------------------
(* Repairs                                                                 *)

HistoryRow == [iteration : Nat, norm : Int, accepted : BOOLEAN \cup {None}]
RepairReasons ==
  {"converged", "maxiter", "jacobian_failed", "singular_step", "bound_stalled", "nonfinite_trial",
   "line_search_failed"}
RepairRecord ==
  [phase : {"visit", "jacobian", "step", "trial", "done"}, start : RepairCandidate,
   at : RepairCandidate, held : Int, maxiter : Nat, fallback : BOOLEAN, attempts : Nat \ {0},
   iteration : Nat, attempted : Nat, failed : Nat, history : Seq(HistoryRow),
   source : {"uncomputed", "analytical", "finite_difference"},
   reason : RepairReasons \cup {None}]

\* The row of the visit in progress, and what the step that followed it found.
Looked(r) ==
  /\ r.history # <<>>
  /\ Last(r.history).iteration = r.iteration /\ Last(r.history).norm = r.held

\* Every kept step lowered the norm by one at least.
Lowered(r) ==
  /\ r.held = X!Norm(r.at) /\ X!Norm(r.start) \in Int
  /\ IF r.iteration = 0 THEN r.at = r.start ELSE r.held + r.iteration <= X!Norm(r.start)
  /\ r.iteration > 0 => r.source # "uncomputed"

RepairGood(r) ==
  /\ r \in RepairRecord /\ Lowered(r)
  /\ r.phase # "visit" => Looked(r)
  /\ r.phase \in {"jacobian", "step", "trial"} => r.held > Tolerance
  /\ r.phase \in {"step", "trial"} => r.source # "uncomputed"
  /\ r.phase = "trial" => (r.attempted > 0 => Last(r.history).accepted = FALSE)
  /\ r.phase = "done" =>
       /\ (r.reason = "converged") = (r.held <= Tolerance)
       /\ r.reason = "maxiter" => r.iteration = r.maxiter
       /\ r.reason \in {"bound_stalled", "nonfinite_trial", "line_search_failed"} =>
            Last(r.history).accepted = FALSE

RepairInv == flaw \in Flawed /\ (repair = [phase |-> "idle"] \/ RepairGood(repair))

\* The norm of a candidate.
LEMMA RepairNorm ==
  ASSUME RepairsSound, flaw \in Flawed, NEW c \in RepairCandidate
  PROVE  X!Norm(c) \in Int \cup {None}
  BY DEF RepairsSound, X!Norm

\* A repair ends with a reason that its norm does not belie.
LEMMA FinishedGood ==
  ASSUME NEW r, r \in RepairRecord, Lowered(r), Looked(r), NEW reason \in RepairReasons,
         reason = "converged" => r.held <= Tolerance,
         reason = "maxiter" => r.iteration = r.maxiter,
         reason \in {"bound_stalled", "nonfinite_trial", "line_search_failed"} =>
            Last(r.history).accepted = FALSE
  PROVE  RepairGood(X!Finished(r, reason))
<1>1. PICK t : t = X!Finished(r, reason)
  OBVIOUS
<1>2. PICK said : said = IF r.held <= Tolerance THEN "converged" ELSE reason
  OBVIOUS
<1>3. t = [r EXCEPT !.phase = "done", !.reason = said]
  BY <1>1, <1>2 DEF X!Finished
<1>4. t = [phase |-> "done", start |-> r.start, at |-> r.at, held |-> r.held, maxiter |-> r.maxiter,
           fallback |-> r.fallback, attempts |-> r.attempts, iteration |-> r.iteration,
           attempted |-> r.attempted, failed |-> r.failed, history |-> r.history,
           source |-> r.source, reason |-> said]
  BY <1>3 DEF RepairRecord
<1>5. said \in RepairReasons
  BY <1>2 DEF RepairReasons
<1>6. t \in RepairRecord
  BY <1>4, <1>5 DEF RepairRecord
<1>7. Lowered(t) /\ Looked(t)
  BY <1>4 DEF Lowered, Looked
<1>8. /\ (t.reason = "converged") = (t.held <= Tolerance)
      /\ t.reason = "maxiter" => t.iteration = t.maxiter
      /\ t.reason \in {"bound_stalled", "nonfinite_trial", "line_search_failed"} =>
            Last(t.history).accepted = FALSE
  BY <1>2, <1>4
<1>9. t.phase = "done"
  BY <1>4
<1> QED
  BY <1>1, <1>6, <1>7, <1>8, <1>9 DEF RepairGood

\* The row a visit adds is the last one, whatever history dropped.
LEMMA RecordedRow ==
  ASSUME RepairsSound, repair \in RepairRecord, NEW h, h = X!Recorded
  PROVE  /\ h \in Seq(HistoryRow) /\ h # <<>>
         /\ Last(h).iteration = repair.iteration /\ Last(h).norm = repair.held
<1>1. PICK row : row = [iteration |-> repair.iteration, norm |-> repair.held, accepted |-> None]
  OBVIOUS
<1>2. row \in HistoryRow /\ repair.history \in Seq(HistoryRow)
  BY <1>1 DEF HistoryRow, RepairRecord
<1>3. PICK g : g = Append(repair.history, row)
  OBVIOUS
<1>4. /\ g \in Seq(HistoryRow) /\ Len(g) = Len(repair.history) + 1 /\ g[Len(g)] = row
      /\ Len(repair.history) \in Nat
  BY <1>2, <1>3
<1>5. h = IF Len(g) > MaxRows THEN Tail(g) ELSE g
  BY <1>1, <1>3 DEF X!Recorded, X!Row
<1>6. CASE Len(g) > MaxRows
  <2>1. MaxRows >= 1 /\ Len(g) > 1
    BY <1>4, <1>6 DEF RepairsSound
  <2>2. h \in Seq(HistoryRow) /\ Len(h) = Len(g) - 1
    BY <1>4, <1>5, <1>6, <2>1
  <2>3. h[Len(h)] = g[Len(g)]
    BY <1>4, <1>5, <1>6, <2>1, <2>2
  <2> QED
    BY <1>1, <1>4, <2>1, <2>2, <2>3 DEF Last
<1>7. CASE ~(Len(g) > MaxRows)
  BY <1>1, <1>4, <1>5, <1>7 DEF Last
<1> QED
  BY <1>6, <1>7

\* What a trial writes into the row of its visit.
LEMMA MarkedRow ==
  ASSUME repair \in RepairRecord, Looked(repair), NEW accepted \in BOOLEAN, NEW m,
         m = X!Marked(accepted)
  PROVE  \E h \in Seq(HistoryRow) :
           /\ m = [repair EXCEPT !.history = h]
           /\ h # <<>> /\ Last(h).iteration = repair.iteration /\ Last(h).norm = repair.held
           /\ Last(h).accepted = accepted
<1>1. PICK g : g = repair.history
  OBVIOUS
<1>2. g \in Seq(HistoryRow) /\ g # <<>> /\ Last(g).iteration = repair.iteration
      /\ Last(g).norm = repair.held
  BY <1>1 DEF Looked, RepairRecord
<1>3. Len(g) \in Nat \ {0} /\ g[Len(g)] \in HistoryRow /\ Last(g) = g[Len(g)]
  BY <1>2 DEF Last
<1>4. PICK row : row = [g[Len(g)] EXCEPT !.accepted = accepted]
  OBVIOUS
<1>5. row \in HistoryRow /\ row.iteration = g[Len(g)].iteration /\ row.norm = g[Len(g)].norm
      /\ row.accepted = accepted
  <2>1. row = [iteration |-> g[Len(g)].iteration, norm |-> g[Len(g)].norm, accepted |-> accepted]
    BY <1>3, <1>4 DEF HistoryRow
  <2> QED
    BY <1>3, <2>1 DEF HistoryRow
<1>6. PICK h : h = [g EXCEPT ![Len(g)] = row]
  OBVIOUS
<1>7. h \in Seq(HistoryRow) /\ Len(h) = Len(g) /\ h[Len(g)] = row
  BY <1>2, <1>3, <1>5, <1>6
<1>8. m = [repair EXCEPT !.history = h]
  BY <1>1, <1>2, <1>4, <1>6 DEF X!Marked, RepairRecord
<1>9. h # <<>> /\ Last(h) = row
  BY <1>3, <1>7 DEF Last
<1> QED
  BY <1>2, <1>3, <1>5, <1>7, <1>8, <1>9

\* A repair begins where its residual evaluates.
LEMMA RepairBegins ==
  ASSUME RepairsSound, RepairInv, X!Begin
  PROVE  RepairInv'
<1>1. flaw \in Flawed /\ flaw' = flaw
  BY DEF RepairInv, X!Begin
<1>2. PICK c \in RepairCandidate, maxiter \in Iterations, fallback, line_search \in BOOLEAN :
        /\ X!Norm(c) # None
        /\ repair' = [phase |-> "visit", start |-> c, at |-> c, held |-> X!Norm(c), maxiter |-> maxiter,
                      fallback |-> fallback, attempts |-> IF line_search THEN Trials ELSE 1,
                      iteration |-> 0, attempted |-> 0, failed |-> 0, history |-> <<>>,
                      source |-> "uncomputed", reason |-> None]
  BY DEF X!Begin
<1>3. X!Norm(c) \in Int /\ maxiter \in Nat
  BY <1>1, <1>2, RepairNorm DEF RepairsSound
<1>4. PICK attempts : attempts = IF line_search THEN Trials ELSE 1
  OBVIOUS
<1>5. attempts \in Nat \ {0}
  BY <1>4 DEF RepairsSound
<1>6. repair' = [phase |-> "visit", start |-> c, at |-> c, held |-> X!Norm(c), maxiter |-> maxiter,
                 fallback |-> fallback, attempts |-> attempts,
                 iteration |-> 0, attempted |-> 0, failed |-> 0, history |-> <<>>,
                 source |-> "uncomputed", reason |-> None]
  BY <1>2, <1>4
<1>7. <<>> \in Seq(HistoryRow)
  OBVIOUS
<1>8. repair' \in RepairRecord
  BY <1>3, <1>5, <1>6, <1>7 DEF RepairRecord
<1>9. repair'.at = c /\ repair'.start = c /\ repair'.held = X!Norm(c) /\ repair'.iteration = 0
      /\ repair'.phase = "visit"
  BY <1>6
<1>10. X!Norm(repair.at)' = X!Norm(c) /\ X!Norm(repair.start)' = X!Norm(c)
  BY <1>1, <1>9 DEF X!Norm
<1>11. Lowered(repair)'
  BY <1>3, <1>9, <1>10 DEF Lowered
<1>12. RepairGood(repair)'
  BY <1>8, <1>9, <1>11 DEF RepairGood
<1> QED
  BY <1>1, <1>12 DEF RepairInv

\* Between two states of one system, a good repair is a good one.
LEMMA GoodAlways ==
  ASSUME RepairInv, NEW r, RepairGood(r), flaw' = flaw, repair' = r
  PROVE  RepairInv'
<1>1. flaw \in Flawed
  BY DEF RepairInv
<1>2. RepairGood(repair)'
  BY DEF RepairGood, Lowered, Looked, X!Norm
<1> QED
  BY <1>1, <1>2 DEF RepairInv

\* A visit leaves a row, and ends the repair or goes on.
LEMMA VisitKeeps ==
  ASSUME RepairsSound, RepairInv, X!Visit
  PROVE  RepairInv'
<1>1. flaw' = flaw /\ repair.phase = "visit" /\ RepairGood(repair)
  BY DEF RepairInv, X!Visit
<1>2. repair \in RepairRecord /\ Lowered(repair)
  BY <1>1 DEF RepairGood
<1>3. PICK h : h = X!Recorded
  OBVIOUS
<1>4. h \in Seq(HistoryRow) /\ h # <<>> /\ Last(h).iteration = repair.iteration
      /\ Last(h).norm = repair.held
  BY <1>2, <1>3, RecordedRow
<1>5. PICK v : v = [repair EXCEPT !.history = h]
  OBVIOUS
<1>6. repair' = IF repair.held <= Tolerance THEN X!Finished(v, "converged")
                ELSE IF repair.iteration = repair.maxiter THEN X!Finished(v, "maxiter")
                ELSE [v EXCEPT !.phase = "jacobian"]
  BY <1>3, <1>5 DEF X!Visit
<1>7. v = [phase |-> repair.phase, start |-> repair.start, at |-> repair.at, held |-> repair.held,
           maxiter |-> repair.maxiter, fallback |-> repair.fallback, attempts |-> repair.attempts,
           iteration |-> repair.iteration, attempted |-> repair.attempted,
           failed |-> repair.failed, history |-> h, source |-> repair.source,
           reason |-> repair.reason]
  BY <1>2, <1>5 DEF RepairRecord
<1>8. v \in RepairRecord /\ Lowered(v) /\ Looked(v) /\ v.held = repair.held
      /\ v.iteration = repair.iteration /\ v.maxiter = repair.maxiter
  <2>1. v \in RepairRecord
    BY <1>2, <1>4, <1>7 DEF RepairRecord
  <2>2. Lowered(v) /\ Looked(v)
    BY <1>2, <1>4, <1>7 DEF Lowered, Looked
  <2> QED
    BY <1>7, <2>1, <2>2
<1>9. CASE repair.held <= Tolerance
  <2>1. RepairGood(X!Finished(v, "converged"))
    BY <1>8, <1>9, FinishedGood DEF RepairReasons
  <2> QED
    BY <1>1, <1>6, <1>9, <2>1, GoodAlways
<1>10. CASE ~(repair.held <= Tolerance) /\ repair.iteration = repair.maxiter
  <2>1. RepairGood(X!Finished(v, "maxiter"))
    BY <1>8, <1>10, FinishedGood DEF RepairReasons
  <2> QED
    BY <1>1, <1>6, <1>10, <2>1, GoodAlways
<1>11. CASE ~(repair.held <= Tolerance) /\ repair.iteration # repair.maxiter
  <2>1. PICK j : j = [v EXCEPT !.phase = "jacobian"]
    OBVIOUS
  <2>2. j \in RepairRecord /\ j.phase = "jacobian"
    BY <1>8, <2>1 DEF RepairRecord
  <2>3. j.held = v.held /\ j.at = v.at /\ j.start = v.start /\ j.iteration = v.iteration
        /\ j.source = v.source /\ j.history = v.history
    BY <2>1
  <2>4. Lowered(j) /\ Looked(j)
    BY <1>8, <2>3 DEF Lowered, Looked
  <2>5. j.held > Tolerance
    BY <1>2, <1>8, <1>11, <2>3 DEF RepairsSound, RepairRecord
  <2>6. RepairGood(j)
    BY <2>2, <2>4, <2>5 DEF RepairGood
  <2> QED
    BY <1>1, <1>6, <1>11, <2>1, <2>6, GoodAlways
<1> QED
  BY <1>9, <1>10, <1>11

\* Before the trial a step reads the row of its visit and changes no other part of the repair
\* than where it is and where its Jacobian came from.
LEMMA GoesOn ==
  ASSUME RepairsSound, RepairGood(repair), repair.phase \in {"jacobian", "step"},
         NEW source \in {"analytical", "finite_difference"}, NEW r,
         \/ r = [repair EXCEPT !.phase = "step", !.source = source]
         \/ /\ repair.phase = "step"
            /\ r = [repair EXCEPT !.phase = "trial", !.attempted = 0, !.failed = 0]
  PROVE  RepairGood(r)
<1>1. repair \in RepairRecord /\ Lowered(repair) /\ Looked(repair) /\ repair.held > Tolerance
  BY DEF RepairGood
<1>2. CASE r = [repair EXCEPT !.phase = "step", !.source = source]
  <2>1. r = [phase |-> "step", start |-> repair.start, at |-> repair.at, held |-> repair.held,
             maxiter |-> repair.maxiter, fallback |-> repair.fallback, attempts |-> repair.attempts,
             iteration |-> repair.iteration, attempted |-> repair.attempted,
             failed |-> repair.failed, history |-> repair.history, source |-> source,
             reason |-> repair.reason]
    BY <1>1, <1>2 DEF RepairRecord
  <2>2. r \in RepairRecord
    BY <1>1, <2>1 DEF RepairRecord
  <2>3. Lowered(r) /\ Looked(r)
    BY <1>1, <2>1 DEF Lowered, Looked
  <2> QED
    BY <1>1, <2>1, <2>2, <2>3 DEF RepairGood
<1>3. CASE /\ repair.phase = "step"
           /\ r = [repair EXCEPT !.phase = "trial", !.attempted = 0, !.failed = 0]
  <2>1. r = [phase |-> "trial", start |-> repair.start, at |-> repair.at, held |-> repair.held,
             maxiter |-> repair.maxiter, fallback |-> repair.fallback, attempts |-> repair.attempts,
             iteration |-> repair.iteration, attempted |-> 0,
             failed |-> 0, history |-> repair.history, source |-> repair.source,
             reason |-> repair.reason]
    BY <1>1, <1>3 DEF RepairRecord
  <2>2. r \in RepairRecord
    BY <1>1, <2>1 DEF RepairRecord
  <2>3. Lowered(r) /\ Looked(r)
    BY <1>1, <2>1 DEF Lowered, Looked
  <2>4. r.source # "uncomputed"
    BY <1>3, <2>1 DEF RepairGood
  <2> QED
    BY <1>1, <2>1, <2>2, <2>3, <2>4 DEF RepairGood
<1> QED
  BY <1>2, <1>3

\* A Jacobian is computed or the repair ends, and so with the step.
LEMMA JacobianKeeps ==
  ASSUME RepairsSound, RepairInv, X!Jacobian \/ X!Step
  PROVE  RepairInv'
<1>1. flaw' = flaw /\ repair.phase \in {"jacobian", "step"} /\ RepairGood(repair)
  BY DEF RepairInv, X!Jacobian, X!Step
<1>2. repair \in RepairRecord /\ Lowered(repair) /\ Looked(repair)
  BY <1>1 DEF RepairGood
<1>3. \/ repair' = [repair EXCEPT !.phase = "step", !.source = "analytical"]
      \/ repair' = [repair EXCEPT !.phase = "step", !.source = "finite_difference"]
      \/ /\ repair.phase = "step"
         /\ repair' = [repair EXCEPT !.phase = "trial", !.attempted = 0, !.failed = 0]
      \/ repair' = X!Finished(repair, "jacobian_failed")
      \/ repair' = X!Finished(repair, "singular_step")
  BY DEF X!Jacobian, X!Step
<1>4. RepairGood(X!Finished(repair, "jacobian_failed")) /\ RepairGood(X!Finished(repair, "singular_step"))
  BY <1>2, FinishedGood DEF RepairReasons
<1>5. PICK r : r = repair'
  OBVIOUS
<1>6. RepairGood(r)
  BY <1>1, <1>3, <1>4, <1>5, GoesOn
<1> QED
  BY <1>1, <1>5, <1>6, GoodAlways

\* A kept step lowers the norm by one at least.
LEMMA MovedGood ==
  ASSUME RepairsSound, flaw \in Flawed, RepairGood(repair), repair.phase = "trial",
         NEW q \in RepairCandidate, X!Accepted(q)
  PROVE  RepairGood(X!Moved(q))
<1>1. repair \in RepairRecord /\ Lowered(repair) /\ Looked(repair) /\ repair.source # "uncomputed"
  BY DEF RepairGood
<1>2. X!Norm(q) \in Int /\ X!Norm(q) < repair.held
  BY RepairNorm DEF X!Accepted
<1>3. PICK m : m = X!Marked(TRUE)
  OBVIOUS
<1>4. PICK accepted \in BOOLEAN : accepted = TRUE
  OBVIOUS
<1>5. m = X!Marked(accepted)
  BY <1>3, <1>4
<1>6. PICK h \in Seq(HistoryRow) : m = [repair EXCEPT !.history = h]
  BY <1>1, <1>5, MarkedRow
<1>7. PICK r : r = X!Moved(q)
  OBVIOUS
<1>8. r = [m EXCEPT !.phase = "visit", !.at = q, !.held = X!Norm(q), !.iteration = @ + 1]
  BY <1>3, <1>7 DEF X!Moved
<1>9. r = [phase |-> "visit", start |-> repair.start, at |-> q, held |-> X!Norm(q),
           maxiter |-> repair.maxiter, fallback |-> repair.fallback, attempts |-> repair.attempts,
           iteration |-> repair.iteration + 1, attempted |-> repair.attempted,
           failed |-> repair.failed, history |-> h, source |-> repair.source,
           reason |-> repair.reason]
  BY <1>1, <1>6, <1>8 DEF RepairRecord
<1>10. r \in RepairRecord
  BY <1>1, <1>2, <1>6, <1>9 DEF RepairRecord
<1>11. Lowered(r)
  <2>1. repair.held \in Int /\ repair.iteration \in Nat
    BY <1>1 DEF RepairRecord
  <2>2. repair.held + repair.iteration <= X!Norm(repair.start) /\ X!Norm(repair.start) \in Int
    BY <1>1, <2>1 DEF Lowered
  <2>3. X!Norm(q) + (repair.iteration + 1) <= X!Norm(repair.start)
    BY <1>2, <2>1, <2>2
  <2> QED
    BY <1>1, <1>9, <2>1, <2>2, <2>3 DEF Lowered
<1>12. r.phase = "visit"
  BY <1>9
<1> QED
  BY <1>7, <1>10, <1>11, <1>12 DEF RepairGood

\* A trial that is not kept leaves its mark in the row of the visit.
LEMMA TrialFailed ==
  ASSUME RepairsSound, RepairGood(repair), repair.phase = "trial", NEW q,
         NEW accepted \in BOOLEAN, accepted = FALSE, NEW m, m = X!Marked(accepted)
  PROVE  LET t == [m EXCEPT !.attempted = @ + 1, !.failed = @ + IF X!Norm(q) = None THEN 1 ELSE 0] IN
         /\ m \in RepairRecord /\ Lowered(m) /\ Looked(m) /\ Last(m.history).accepted = FALSE
         /\ t \in RepairRecord /\ Lowered(t) /\ Looked(t) /\ Last(t.history).accepted = FALSE
         /\ RepairGood(t)
<1>1. /\ repair \in RepairRecord /\ Lowered(repair) /\ Looked(repair)
      /\ repair.source # "uncomputed" /\ repair.held > Tolerance
  BY DEF RepairGood
<1>3. PICK h \in Seq(HistoryRow) :
         /\ m = [repair EXCEPT !.history = h]
         /\ h # <<>> /\ Last(h).iteration = repair.iteration /\ Last(h).norm = repair.held
         /\ Last(h).accepted = accepted
  BY <1>1, MarkedRow
<1>4. m = [phase |-> "trial", start |-> repair.start, at |-> repair.at, held |-> repair.held,
           maxiter |-> repair.maxiter, fallback |-> repair.fallback, attempts |-> repair.attempts,
           iteration |-> repair.iteration, attempted |-> repair.attempted,
           failed |-> repair.failed, history |-> h, source |-> repair.source,
           reason |-> repair.reason]
  BY <1>1, <1>3 DEF RepairRecord
<1>5. m \in RepairRecord /\ Lowered(m) /\ Looked(m) /\ Last(m.history).accepted = FALSE
  <2>1. m \in RepairRecord
    BY <1>1, <1>3, <1>4 DEF RepairRecord
  <2>2. Lowered(m) /\ Looked(m)
    BY <1>1, <1>3, <1>4 DEF Lowered, Looked
  <2> QED
    BY <1>3, <1>4, <2>1, <2>2
<1>6. PICK more : more = IF X!Norm(q) = None THEN 1 ELSE 0
  OBVIOUS
<1>7. more \in Nat
  BY <1>6
<1>8. PICK t : t = [m EXCEPT !.attempted = @ + 1, !.failed = @ + more]
  OBVIOUS
<1>9. t = [phase |-> "trial", start |-> m.start, at |-> m.at, held |-> m.held,
           maxiter |-> m.maxiter, fallback |-> m.fallback, attempts |-> m.attempts,
           iteration |-> m.iteration, attempted |-> m.attempted + 1,
           failed |-> m.failed + more, history |-> m.history, source |-> m.source,
           reason |-> m.reason]
  <2>1. m.phase = "trial"
    BY <1>4
  <2> QED
    BY <1>5, <1>8, <2>1 DEF RepairRecord
<1>10. t \in RepairRecord /\ Lowered(t) /\ Looked(t) /\ Last(t.history).accepted = FALSE
  <2>1. m.attempted + 1 \in Nat /\ m.failed + more \in Nat
    BY <1>5, <1>7 DEF RepairRecord
  <2>4. t \in RepairRecord
    BY <1>5, <1>9, <2>1 DEF RepairRecord
  <2>2. Lowered(t) /\ Looked(t)
    BY <1>5, <1>9 DEF Lowered, Looked
  <2> QED
    BY <1>5, <1>9, <2>2, <2>4
<1>11. t.phase = "trial" /\ t.held > Tolerance /\ t.source # "uncomputed"
  BY <1>1, <1>4, <1>9
<1>12. RepairGood(t)
  BY <1>10, <1>11 DEF RepairGood
<1> QED
  BY <1>5, <1>6, <1>8, <1>10, <1>12

\* A trial is kept, or leaves its mark and the next is tried, or ends the repair.
LEMMA TrialKeeps ==
  ASSUME RepairsSound, RepairInv, X!Trial
  PROVE  RepairInv'
<1>1. flaw \in Flawed /\ flaw' = flaw /\ repair.phase = "trial" /\ RepairGood(repair)
  <2>1. flaw' = flaw /\ repair.phase = "trial"
    BY DEF X!Trial
  <2> QED
    BY <2>1 DEF RepairInv
<1>2. PICK accepted \in BOOLEAN : accepted = FALSE
  OBVIOUS
<1>3. PICK m : m = X!Marked(accepted)
  OBVIOUS
<1>4. /\ m \in RepairRecord /\ Lowered(m) /\ Looked(m) /\ Last(m.history).accepted = FALSE
  BY <1>1, <1>2, <1>3, TrialFailed
<1>5. X!Trial => \/ repair' = X!Finished(m, "bound_stalled")
                 \/ \E q \in RepairCandidate :
                      LET t == [m EXCEPT !.attempted = @ + 1,
                                         !.failed = @ + IF X!Norm(q) = None THEN 1 ELSE 0] IN
                      repair' = IF X!Accepted(q) THEN X!Moved(q)
                                ELSE IF t.attempted < repair.attempts THEN t ELSE X!Stuck(t)
  BY <1>2, <1>3 DEF X!Trial, X!Blocked
<1>6. CASE repair' = X!Finished(m, "bound_stalled")
  <2>1. RepairGood(X!Finished(m, "bound_stalled"))
    BY <1>4, FinishedGood DEF RepairReasons
  <2> QED
    BY <1>1, <1>6, <2>1, GoodAlways
<1>7. CASE \E q \in RepairCandidate :
              LET t == [m EXCEPT !.attempted = @ + 1,
                                 !.failed = @ + IF X!Norm(q) = None THEN 1 ELSE 0] IN
              repair' = IF X!Accepted(q) THEN X!Moved(q)
                        ELSE IF t.attempted < repair.attempts THEN t ELSE X!Stuck(t)
  <2>1. PICK q \in RepairCandidate :
              LET t == [m EXCEPT !.attempted = @ + 1,
                                 !.failed = @ + IF X!Norm(q) = None THEN 1 ELSE 0] IN
              repair' = IF X!Accepted(q) THEN X!Moved(q)
                        ELSE IF t.attempted < repair.attempts THEN t ELSE X!Stuck(t)
    BY <1>7
  <2>2. PICK t : t = [m EXCEPT !.attempted = @ + 1,
                               !.failed = @ + IF X!Norm(q) = None THEN 1 ELSE 0]
    OBVIOUS
  <2>3. repair' = IF X!Accepted(q) THEN X!Moved(q)
                  ELSE IF t.attempted < repair.attempts THEN t ELSE X!Stuck(t)
    BY <2>1, <2>2
  <2>4. /\ t \in RepairRecord /\ Lowered(t) /\ Looked(t) /\ Last(t.history).accepted = FALSE
        /\ RepairGood(t)
    BY <1>1, <1>2, <1>3, <2>2, TrialFailed
  <2>5. PICK said : said = IF t.failed = t.attempted THEN "nonfinite_trial" ELSE "line_search_failed"
    OBVIOUS
  <2>6. RepairGood(X!Finished(t, said)) /\ X!Stuck(t) = X!Finished(t, said)
    <3>1. said \in RepairReasons /\ said # "converged" /\ said # "maxiter"
      BY <2>5 DEF RepairReasons
    <3>2. RepairGood(X!Finished(t, said))
      BY <2>4, <3>1, FinishedGood
    <3> QED
      BY <2>5, <3>2 DEF X!Stuck
  <2>7. X!Accepted(q) => RepairGood(X!Moved(q))
    BY <1>1, MovedGood
  <2>8. PICK r : r = repair'
    OBVIOUS
  <2>9. RepairGood(r)
    BY <2>3, <2>4, <2>6, <2>7, <2>8
  <2> QED
    BY <1>1, <2>8, <2>9, GoodAlways
<1> QED
  BY <1>5, <1>6, <1>7

\* Every step of a repair keeps the invariant.
LEMMA RepairStep ==
  ASSUME RepairsSound, RepairInv, [X!Next]_(X!xvars)
  PROVE  RepairInv'
<1>1. CASE UNCHANGED X!xvars
  BY <1>1 DEF X!xvars, RepairInv, RepairGood, Lowered, Looked, X!Norm
<1>2. CASE X!Next
  BY <1>2, RepairBegins, VisitKeeps, JacobianKeeps, TrialKeeps DEF X!Next
<1> QED
  BY <1>1, <1>2

\* What a finished repair says is true of the controls it returns.
LEMMA RepairSays ==
  ASSUME RepairInv
  PROVE  X!RepairHonest
<1>1. SUFFICES ASSUME repair.phase = "done"
               PROVE  X!RepairHonest
  BY DEF X!RepairHonest
<1>2. RepairGood(repair)
  BY <1>1 DEF RepairInv
<1>3. /\ Looked(repair) /\ Lowered(repair)
      /\ (repair.reason = "converged") = (repair.held <= Tolerance)
      /\ repair.reason = "maxiter" => repair.iteration = repair.maxiter
      /\ repair.reason \in {"bound_stalled", "nonfinite_trial", "line_search_failed"} =>
            Last(repair.history).accepted = FALSE
  BY <1>1, <1>2 DEF RepairGood
<1> QED
  BY <1>1, <1>3 DEF X!RepairHonest, Looked, Lowered, X!Last, Last

\* The result of a repair speaks of the controls it returns (utils/repairs.py).
LEMMA RepairsHonest ==
  ASSUME RepairsSound
  PROVE  X!Spec => []X!RepairHonest
<1>1. X!Init => RepairInv
  BY DEF X!Init, RepairInv
<1>2. RepairInv /\ [X!Next]_(X!xvars) => RepairInv'
  BY RepairStep
<1>3. RepairInv => X!RepairHonest
  BY RepairSays
<1> QED
  BY <1>1, <1>2, <1>3, PTL DEF X!Spec

-----------------------------------------------------------------------------
(* Branches                                                                *)

Passed == [at : Int, verified : BOOLEAN]
Attempt == [size : Int, accepted : BOOLEAN]
BranchRecord ==
  [kind : {"arclength", "natural", "staged"}, phase : {"running", "stopped"}, step : Nat \ {0},
   path : Seq(Passed), attempts : Seq(Attempt), iteration : Nat,
   reason : BranchReasons \cup {None}, patient : BOOLEAN]

\* The accepted attempts; where a path ends.
Hits(attempts) == {i \in DOMAIN attempts : attempts[i].accepted}
Tip(b) == b.path[Len(b.path)].at

\* One point for every accepted attempt, after the seeds.
Counted(b) ==
  b.kind # "staged" =>
    Len(b.path) = (IF b.kind = "arclength" THEN 2 ELSE 1) + Cardinality(Hits(b.attempts))

\* All points are verified, no crossing was passed over, and what failed is retried smaller.
ArcTold(b) ==
  b.kind = "arclength" =>
    /\ b.reason # "seed_verification_failed" => \A i \in 1..Len(b.path) : b.path[i].verified
    /\ \A i \in 2..(Len(b.path) - 1) :
          (b.path[i].at < Goal) # (b.path[i + 1].at < Goal) => b.reason = "target_reached"
    /\ \A i \in 1..(Len(b.attempts) - 1) :
          ~b.attempts[i].accepted => b.attempts[i + 1].size < b.attempts[i].size
    /\ (b.phase = "running" /\ b.attempts # <<>> /\ ~b.attempts[Len(b.attempts)].accepted) =>
          b.step < b.attempts[Len(b.attempts)].size

\* The path closes in on the target and does not pass it.
Closer(p, q) ==
  /\ B!Abs(Goal - q) < B!Abs(Goal - p)
  /\ p < Goal => q <= Goal
  /\ p > Goal => q >= Goal
NaturalTold(b) ==
  b.kind = "natural" => \A i \in 1..(Len(b.path) - 1) : Closer(b.path[i].at, b.path[i + 1].at)

\* An impatient run passed every gate but perhaps the one it stopped at.
StagedTold(b) ==
  /\ (b.kind = "staged" /\ ~b.patient /\ b.phase = "running") =>
        \A i \in 1..Len(b.attempts) : b.attempts[i].accepted
  /\ b.reason = "stage_gate_failed" =>
        \A i \in 1..Len(b.attempts) : b.attempts[i].accepted = (i < Len(b.attempts))

BranchTold(b) ==
  /\ b \in BranchRecord /\ b.path # <<>>
  /\ Counted(b) /\ ArcTold(b) /\ NaturalTold(b) /\ StagedTold(b)
  /\ b.reason = "target_reached" => Tip(b) = Goal
  /\ b.phase = "running" => b.reason = None

BranchInv == branch = [phase |-> "idle"] \/ BranchTold(branch)

\* What one more attempt changes in their number.
LEMMA HitsAppend ==
  ASSUME NEW a \in Seq(Attempt), NEW x \in Attempt
  PROVE  /\ Cardinality(Hits(a)) \in Nat
         /\ Cardinality(Hits(Append(a, x))) = Cardinality(Hits(a)) + IF x.accepted THEN 1 ELSE 0
<1>1. Len(a) \in Nat /\ DOMAIN a = 1..Len(a)
  OBVIOUS
<1>2. IsFiniteSet(1..Len(a))
  BY <1>1, FS_Interval
<1>3. Hits(a) \subseteq 1..Len(a)
  BY <1>1 DEF Hits
<1>4. IsFiniteSet(Hits(a)) /\ Cardinality(Hits(a)) \in Nat
  BY <1>2, <1>3, FS_Subset, FS_CardinalityType
<1>5. PICK n : n = Len(a) + 1
  OBVIOUS
<1>6. PICK c : c = Append(a, x)
  OBVIOUS
<1>7. c \in Seq(Attempt) /\ DOMAIN c = 1..n /\ c[n] = x /\ \A i \in 1..Len(a) : c[i] = a[i]
  BY <1>1, <1>5, <1>6
<1>8. Hits(c) = Hits(a) \cup (IF x.accepted THEN {n} ELSE {})
  <2>1. \A i : i \in Hits(c) <=> i \in 1..n /\ c[i].accepted
    BY <1>7 DEF Hits
  <2>2. \A i : i \in Hits(a) <=> i \in 1..Len(a) /\ a[i].accepted
    BY <1>1 DEF Hits
  <2>3. \A i : i \in 1..n <=> i \in 1..Len(a) \/ i = n
    BY <1>1, <1>5
  <2> QED
    BY <1>7, <2>1, <2>2, <2>3
<1>9. n \notin Hits(a)
  BY <1>1, <1>3, <1>5
<1>10. CASE x.accepted
  <2>1. Hits(c) = Hits(a) \cup {n}
    BY <1>8, <1>10
  <2>2. Cardinality(Hits(a) \cup {n}) = Cardinality(Hits(a)) + 1
    BY <1>4, <1>9, FS_AddElement
  <2> QED
    BY <1>4, <1>6, <1>10, <2>1, <2>2
<1>11. CASE ~x.accepted
  BY <1>4, <1>6, <1>8, <1>11
<1> QED
  BY <1>10, <1>11

\* A run that stops where it is tells the same story, as long as the reason is true.
LEMMA StopTold ==
  ASSUME BranchesSound, NEW b, BranchTold(b), NEW reason \in BranchReasons,
         reason = "target_reached" => Tip(b) = Goal,
         b.phase = "running", reason \notin {"seed_verification_failed", "stage_gate_failed"}
  PROVE  BranchTold(B!Stop(b, reason))
<1>1. PICK t : t = B!Stop(b, reason)
  OBVIOUS
<1>2. b \in BranchRecord /\ b.path # <<>> /\ b.reason = None
  BY DEF BranchTold
<1>3. t = [kind |-> b.kind, phase |-> "stopped", step |-> b.step, path |-> b.path,
           attempts |-> b.attempts, iteration |-> b.iteration, reason |-> reason,
           patient |-> b.patient]
  BY <1>1, <1>2 DEF B!Stop, BranchRecord
<1>4. t \in BranchRecord
  BY <1>2, <1>3 DEF BranchRecord
<1>5. None # "target_reached" /\ None # "seed_verification_failed"
  BY DEF BranchesSound, BranchReasons
<1>6. Counted(t) /\ NaturalTold(t) /\ StagedTold(t)
  BY <1>3 DEF BranchTold, Counted, NaturalTold, StagedTold
<1>7. ArcTold(t)
  BY <1>2, <1>3, <1>5 DEF BranchTold, ArcTold
<1>8. t.reason = "target_reached" => Tip(t) = Goal
  BY <1>3 DEF Tip
<1>9. t.path # <<>> /\ t.phase # "running"
  BY <1>2, <1>3
<1> QED
  BY <1>1, <1>4, <1>6, <1>7, <1>8, <1>9 DEF BranchTold

\* An attempt that failed leaves the path, and what follows it is smaller.
LEMMA FailedTold ==
  ASSUME BranchesSound, NEW b, BranchTold(b), b.phase = "running", b.kind # "staged",
         NEW size \in Int, b.kind = "arclength" => size = b.step,
         NEW failed \in BOOLEAN, ~failed, NEW phase, NEW reason, NEW step \in Nat \ {0},
         NEW iteration \in Nat,
         \/ phase = "running" /\ reason = None /\ step < b.step
         \/ phase = "stopped" /\ reason \in {"minimum_step_reached", "verification_failed",
                                             "target_landing_failed"},
         NEW t, t = [kind |-> b.kind, phase |-> phase, step |-> step, path |-> b.path,
                     attempts |-> Append(b.attempts, [size |-> size, accepted |-> failed]),
                     iteration |-> iteration, reason |-> reason, patient |-> b.patient]
  PROVE  BranchTold(t)
<1>1. b \in BranchRecord /\ b.path # <<>> /\ b.reason = None
  BY DEF BranchTold
<1>2. PICK x : x = [size |-> size, accepted |-> failed]
  OBVIOUS
<1>3. x \in Attempt /\ ~x.accepted /\ x.size = size /\ b.attempts \in Seq(Attempt)
      /\ b.kind \in {"arclength", "natural"} /\ b.step \in Nat
  BY <1>1, <1>2 DEF Attempt, BranchRecord
<1>4. PICK a : a = Append(b.attempts, x)
  OBVIOUS
<1>5. /\ a \in Seq(Attempt) /\ Len(a) = Len(b.attempts) + 1 /\ a[Len(a)] = x
      /\ Len(b.attempts) \in Nat /\ \A i \in 1..Len(b.attempts) : a[i] = b.attempts[i]
  BY <1>3, <1>4
<1>6. reason \in BranchReasons \cup {None}
  BY DEF BranchReasons
<1>7. t = [kind |-> b.kind, phase |-> phase, step |-> step, path |-> b.path,
           attempts |-> a, iteration |-> iteration, reason |-> reason, patient |-> b.patient]
  BY <1>2, <1>4
<1>8. t \in BranchRecord
  BY <1>1, <1>5, <1>6, <1>7 DEF BranchRecord
<1>9. /\ None # "target_reached" /\ None # "seed_verification_failed"
      /\ None # "stage_gate_failed"
  BY DEF BranchesSound, BranchReasons
<1>10. reason \notin {"target_reached", "seed_verification_failed", "stage_gate_failed"}
  BY <1>9
<1>11. Counted(t)
  <2>1. Cardinality(Hits(a)) = Cardinality(Hits(b.attempts)) /\ Cardinality(Hits(b.attempts)) \in Nat
    BY <1>3, <1>4, HitsAppend
  <2>2. Counted(b)
    BY DEF BranchTold
  <2>3. t.kind = b.kind /\ t.path = b.path /\ t.attempts = a
    BY <1>7
  <2> QED
    BY <2>1, <2>2, <2>3 DEF Counted
<1>12. NaturalTold(t) /\ StagedTold(t)
  BY <1>7, <1>10 DEF BranchTold, NaturalTold, StagedTold
<1>13. ArcTold(t)
  <2>1. SUFFICES ASSUME b.kind = "arclength"
                 PROVE  ArcTold(t)
    BY <1>7 DEF ArcTold
  <2>2. /\ \A i \in 1..Len(b.path) : b.path[i].verified
        /\ \A i \in 2..(Len(b.path) - 1) :
              (b.path[i].at < Goal) # (b.path[i + 1].at < Goal) => b.reason = "target_reached"
        /\ \A i \in 1..(Len(b.attempts) - 1) :
              ~b.attempts[i].accepted => b.attempts[i + 1].size < b.attempts[i].size
        /\ (b.attempts # <<>> /\ ~b.attempts[Len(b.attempts)].accepted) =>
              b.step < b.attempts[Len(b.attempts)].size
    BY <1>1, <1>9, <2>1 DEF BranchTold, ArcTold
  <2>3. ASSUME NEW i \in 1..(Len(a) - 1), ~a[i].accepted
        PROVE  a[i + 1].size < a[i].size
    <3>1. CASE i = Len(b.attempts)
      <4>1. i \in 1..Len(b.attempts) /\ i + 1 = Len(a)
        BY <1>5, <2>3, <3>1
      <4>2. a[i] = b.attempts[i] /\ a[i + 1].size = b.step
        BY <1>3, <1>5, <2>1, <4>1
      <4>3. b.attempts # <<>>
        BY <1>3, <4>1
      <4> QED
        BY <2>2, <2>3, <3>1, <4>2, <4>3
    <3>2. CASE i # Len(b.attempts)
      <4>1. i \in 1..(Len(b.attempts) - 1) /\ a[i] = b.attempts[i] /\ a[i + 1] = b.attempts[i + 1]
        BY <1>5, <2>3, <3>2
      <4> QED
        BY <2>2, <2>3, <4>1
    <3> QED
      BY <3>1, <3>2
  <2>4. phase = "running" => step < a[Len(a)].size
    BY <1>3, <1>5, <2>1
  <2>5. \A i \in 2..(Len(b.path) - 1) : ~((b.path[i].at < Goal) # (b.path[i + 1].at < Goal))
    BY <1>1, <1>9, <2>2
  <2> QED
    BY <1>7, <2>2, <2>3, <2>4, <2>5 DEF ArcTold
<1>14. t.path # <<>> /\ t.reason # "target_reached" /\ (t.phase = "running" => t.reason = None)
  BY <1>1, <1>7, <1>10
<1> QED
  BY <1>8, <1>11, <1>12, <1>13, <1>14 DEF BranchTold

\* Where an attempt that is kept leads, and whether the run goes on.
Onward(b, q, phase, reason) ==
  /\ q \in Int
  /\ \/ /\ phase = "running" /\ reason = None
        /\ b.kind = "arclength" => ((Tip(b) < Goal) <=> (q < Goal))
        /\ b.kind = "natural" => Closer(Tip(b), q)
     \/ b.kind = "arclength" /\ phase = "stopped" /\ reason = "target_reached" /\ q = Goal

\* An attempt that was kept adds a verified point: for arclength one on the same side of the
\* target, or the target itself; for natural continuation one that is closer to it.
LEMMA TakenTold ==
  ASSUME BranchesSound, NEW b, BranchTold(b), b.phase = "running", b.kind # "staged",
         NEW size \in Int, b.kind = "arclength" => size = b.step,
         NEW kept \in BOOLEAN, kept, NEW step \in Nat \ {0}, NEW iteration \in Nat, NEW q,
         NEW phase, NEW reason, Onward(b, q, phase, reason),
         NEW t, t = [kind |-> b.kind, phase |-> phase, step |-> step,
                     path |-> Append(b.path, [at |-> q, verified |-> kept]),
                     attempts |-> Append(b.attempts, [size |-> size, accepted |-> kept]),
                     iteration |-> iteration, reason |-> reason, patient |-> b.patient]
  PROVE  BranchTold(t)
<1>1. b \in BranchRecord /\ b.path # <<>> /\ b.reason = None
  BY DEF BranchTold
<1>2. PICK x : x = [size |-> size, accepted |-> kept]
  OBVIOUS
<1>3. x \in Attempt /\ x.accepted /\ x.size = size /\ b.attempts \in Seq(Attempt)
      /\ b.kind \in {"arclength", "natural"} /\ b.step \in Nat /\ b.path \in Seq(Passed)
  BY <1>1, <1>2 DEF Attempt, BranchRecord
<1>4. PICK a : a = Append(b.attempts, x)
  OBVIOUS
<1>5. /\ a \in Seq(Attempt) /\ Len(a) = Len(b.attempts) + 1 /\ a[Len(a)] = x
      /\ Len(b.attempts) \in Nat /\ \A i \in 1..Len(b.attempts) : a[i] = b.attempts[i]
  BY <1>3, <1>4
<1>6. PICK y : y = [at |-> q, verified |-> kept]
  OBVIOUS
<1>7. y \in Passed /\ y.at = q /\ y.verified
  BY <1>6 DEF Passed, Onward
<1>8. PICK p : p = Append(b.path, y)
  OBVIOUS
<1>9. /\ p \in Seq(Passed) /\ Len(p) = Len(b.path) + 1 /\ p[Len(p)] = y /\ p # <<>>
      /\ Len(b.path) \in Nat \ {0} /\ \A i \in 1..Len(b.path) : p[i] = b.path[i]
  <2>1. Len(b.path) \in Nat \ {0}
    BY <1>1, <1>3
  <2>2. p \in Seq(Passed) /\ Len(p) = Len(b.path) + 1 /\ p[Len(p)] = y
    BY <1>3, <1>7, <1>8
  <2>3. \A i \in 1..Len(b.path) : p[i] = b.path[i]
    BY <1>3, <1>7, <1>8
  <2>4. p # <<>>
    BY <2>1, <2>2
  <2> QED
    BY <2>1, <2>2, <2>3, <2>4
<1>10. t = [kind |-> b.kind, phase |-> phase, step |-> step, path |-> p, attempts |-> a,
            iteration |-> iteration, reason |-> reason, patient |-> b.patient]
  BY <1>2, <1>4, <1>6, <1>8
<1>11. reason \in BranchReasons \cup {None} /\ phase \in {"running", "stopped"}
  BY DEF BranchReasons, Onward
<1>12. t \in BranchRecord
  BY <1>1, <1>5, <1>9, <1>10, <1>11 DEF BranchRecord
<1>13. /\ None # "target_reached" /\ None # "seed_verification_failed"
       /\ None # "stage_gate_failed"
  BY DEF BranchesSound, BranchReasons
<1>14. reason \notin {"seed_verification_failed", "stage_gate_failed"}
       /\ (reason = "target_reached" => q = Goal) /\ (phase = "running" => reason = None)
  BY <1>13 DEF Onward
<1>15. Counted(t)
  <2>1. Cardinality(Hits(a)) = Cardinality(Hits(b.attempts)) + 1 /\ Cardinality(Hits(b.attempts)) \in Nat
    BY <1>3, <1>4, HitsAppend
  <2>2. Counted(b)
    BY DEF BranchTold
  <2>3. t.kind = b.kind /\ t.path = p /\ t.attempts = a
    BY <1>10
  <2>4. CASE b.kind = "arclength"
    <3>1. Len(b.path) = 2 + Cardinality(Hits(b.attempts))
      BY <2>2, <2>4 DEF Counted
    <3>2. Len(p) = 2 + Cardinality(Hits(a))
      BY <1>9, <2>1, <3>1
    <3> QED
      BY <2>3, <2>4, <3>2 DEF Counted
  <2>5. CASE b.kind = "natural"
    <3>1. Len(b.path) = 1 + Cardinality(Hits(b.attempts))
      BY <2>2, <2>5 DEF Counted
    <3>2. Len(p) = 1 + Cardinality(Hits(a))
      BY <1>9, <2>1, <3>1
    <3> QED
      BY <2>3, <2>5, <3>2 DEF Counted
  <2> QED
    BY <1>3, <2>4, <2>5
<1>16. StagedTold(t)
  <2>1. t.kind # "staged" /\ t.reason # "stage_gate_failed"
    BY <1>3, <1>10, <1>14
  <2> QED
    BY <2>1 DEF StagedTold
<1>17. NaturalTold(t)
  <2>1. SUFFICES ASSUME b.kind = "natural"
                 PROVE  NaturalTold(t)
    BY <1>10 DEF NaturalTold
  <2>2. Closer(Tip(b), q) /\ \A i \in 1..(Len(b.path) - 1) : Closer(b.path[i].at, b.path[i + 1].at)
    BY <2>1 DEF BranchTold, NaturalTold, Onward
  <2>3. ASSUME NEW i \in 1..(Len(p) - 1)
        PROVE  Closer(p[i].at, p[i + 1].at)
    <3>1. CASE i = Len(b.path)
      <4>3. i \in 1..Len(b.path) /\ i + 1 = Len(p)
        BY <1>9, <3>1
      <4>1. p[i] = b.path[Len(b.path)] /\ p[i + 1] = y
        BY <1>9, <3>1, <4>3
      <4>2. p[i].at = Tip(b) /\ p[i + 1].at = q
        BY <1>7, <4>1 DEF Tip
      <4> QED
        BY <2>2, <4>2
    <3>2. CASE i # Len(b.path)
      <4>1. i \in 1..(Len(b.path) - 1) /\ p[i] = b.path[i] /\ p[i + 1] = b.path[i + 1]
        BY <1>9, <2>3, <3>2
      <4> QED
        BY <2>2, <4>1
    <3> QED
      BY <3>1, <3>2
  <2>4. t.path = p
    BY <1>10
  <2> QED
    BY <2>3, <2>4 DEF NaturalTold
<1>18. ArcTold(t)
  <2>0. t.kind = b.kind
    BY <1>10
  <2>1. SUFFICES ASSUME b.kind = "arclength"
                 PROVE  ArcTold(t)
    BY <2>0 DEF ArcTold
  <2>2. /\ \A i \in 1..Len(b.path) : b.path[i].verified
        /\ \A i \in 2..(Len(b.path) - 1) :
              (b.path[i].at < Goal) # (b.path[i + 1].at < Goal) => b.reason = "target_reached"
        /\ \A i \in 1..(Len(b.attempts) - 1) :
              ~b.attempts[i].accepted => b.attempts[i + 1].size < b.attempts[i].size
        /\ (b.attempts # <<>> /\ ~b.attempts[Len(b.attempts)].accepted) =>
              b.step < b.attempts[Len(b.attempts)].size
    BY <1>1, <1>13, <2>1 DEF BranchTold, ArcTold
  <2>3. ASSUME NEW i \in 1..(Len(a) - 1), ~a[i].accepted
        PROVE  a[i + 1].size < a[i].size
    <3>1. CASE i = Len(b.attempts)
      <4>1. i \in 1..Len(b.attempts) /\ i + 1 = Len(a)
        BY <1>5, <2>3, <3>1
      <4>2. a[i] = b.attempts[i] /\ a[i + 1].size = b.step
        BY <1>3, <1>5, <2>1, <4>1
      <4>3. b.attempts # <<>>
        BY <1>3, <4>1
      <4> QED
        BY <2>2, <2>3, <3>1, <4>2, <4>3
    <3>2. CASE i # Len(b.attempts)
      <4>1. i \in 1..(Len(b.attempts) - 1) /\ a[i] = b.attempts[i] /\ a[i + 1] = b.attempts[i + 1]
        BY <1>5, <2>3, <3>2
      <4> QED
        BY <2>2, <2>3, <4>1
    <3> QED
      BY <3>1, <3>2
  <2>4. a[Len(a)].accepted
    BY <1>3, <1>5
  <2>5. ASSUME NEW i \in 2..(Len(p) - 1), (p[i].at < Goal) # (p[i + 1].at < Goal)
        PROVE  reason = "target_reached"
    <3>1. CASE i = Len(b.path)
      <4>3. i \in 1..Len(b.path) /\ i + 1 = Len(p)
        BY <1>9, <3>1
      <4>1. p[i] = b.path[Len(b.path)] /\ p[i + 1] = y
        BY <1>9, <3>1, <4>3
      <4>2. p[i].at = Tip(b) /\ p[i + 1].at = q
        BY <1>7, <4>1 DEF Tip
      <4> QED
        BY <2>1, <2>5, <4>2 DEF Onward
    <3>2. CASE i # Len(b.path)
      <4>1. i \in 2..(Len(b.path) - 1) /\ i \in 1..Len(b.path) /\ i + 1 \in 1..Len(b.path)
        BY <1>9, <3>2
      <4>2. p[i] = b.path[i] /\ p[i + 1] = b.path[i + 1]
        BY <1>9, <4>1
      <4> QED
        BY <1>1, <1>13, <2>2, <2>5, <4>1, <4>2
    <3> QED
      BY <3>1, <3>2
  <2>6. \A i \in 1..Len(p) : p[i].verified
    <3>1. \A i \in 1..Len(p) : i \in 1..Len(b.path) \/ i = Len(p)
      BY <1>9
    <3> QED
      BY <1>7, <1>9, <2>2, <3>1
  <2>7. t.kind = "arclength" /\ t.path = p /\ t.attempts = a /\ t.reason = reason
    BY <1>10, <2>1
  <2> QED
    BY <2>3, <2>4, <2>5, <2>6, <2>7 DEF ArcTold
<1>19. t.reason = "target_reached" => Tip(t) = Goal
  BY <1>7, <1>9, <1>10, <1>14 DEF Tip
<1>20. t.path # <<>> /\ (t.phase = "running" => t.reason = None)
  BY <1>9, <1>10, <1>14
<1> QED
  BY <1>12, <1>15, <1>16, <1>17, <1>18, <1>19, <1>20 DEF BranchTold

\* A stage adds its result whatever its gate says, and the first gate that fails ends an
\* impatient run.
LEMMA StageTold ==
  ASSUME BranchesSound, NEW b, BranchTold(b), b.phase = "running", b.kind = "staged",
         NEW size \in Int, NEW passed \in BOOLEAN, NEW iteration \in Nat, NEW q \in Int,
         NEW phase, NEW reason,
         \/ phase = "running" /\ reason = None /\ (passed \/ b.patient)
         \/ phase = "stopped" /\ reason = "stage_gate_failed" /\ ~passed /\ ~b.patient,
         NEW t, t = [kind |-> b.kind, phase |-> phase, step |-> b.step,
                     path |-> Append(b.path, [at |-> q, verified |-> passed]),
                     attempts |-> Append(b.attempts, [size |-> size, accepted |-> passed]),
                     iteration |-> iteration, reason |-> reason, patient |-> b.patient]
  PROVE  BranchTold(t)
<1>1. b \in BranchRecord /\ b.path # <<>> /\ b.reason = None
  BY DEF BranchTold
<1>2. PICK x : x = [size |-> size, accepted |-> passed]
  OBVIOUS
<1>3. x \in Attempt /\ x.accepted = passed /\ b.attempts \in Seq(Attempt) /\ b.path \in Seq(Passed)
  BY <1>1, <1>2 DEF Attempt, BranchRecord
<1>4. PICK a : a = Append(b.attempts, x)
  OBVIOUS
<1>5. /\ a \in Seq(Attempt) /\ Len(a) = Len(b.attempts) + 1 /\ a[Len(a)] = x
      /\ Len(b.attempts) \in Nat /\ \A i \in 1..Len(b.attempts) : a[i] = b.attempts[i]
  BY <1>3, <1>4
<1>6. PICK y : y = [at |-> q, verified |-> passed]
  OBVIOUS
<1>7. PICK p : p = Append(b.path, y)
  OBVIOUS
<1>8. p \in Seq(Passed) /\ p # <<>>
  BY <1>3, <1>6, <1>7 DEF Passed
<1>9. t = [kind |-> b.kind, phase |-> phase, step |-> b.step, path |-> p, attempts |-> a,
           iteration |-> iteration, reason |-> reason, patient |-> b.patient]
  BY <1>2, <1>4, <1>6, <1>7
<1>10. reason \in BranchReasons \cup {None} /\ phase \in {"running", "stopped"}
  BY DEF BranchReasons
<1>11. t \in BranchRecord
  BY <1>1, <1>5, <1>8, <1>9, <1>10 DEF BranchRecord
<1>12. None # "target_reached" /\ None # "stage_gate_failed"
  BY DEF BranchesSound, BranchReasons
<1>13. Counted(t) /\ ArcTold(t) /\ NaturalTold(t)
  BY <1>9 DEF Counted, ArcTold, NaturalTold
<1>14. StagedTold(t)
  <2>1. ~b.patient => \A i \in 1..Len(b.attempts) : b.attempts[i].accepted
    BY DEF BranchTold, StagedTold
  <2>2. \A i \in 1..Len(a) : i = Len(a) \/ (i \in 1..Len(b.attempts) /\ i < Len(a))
    BY <1>5
  <2>3. (phase = "running" /\ ~b.patient) => \A i \in 1..Len(a) : a[i].accepted
    BY <1>3, <1>5, <2>1, <2>2
  <2>4. reason = "stage_gate_failed" => ~passed /\ ~b.patient
    BY <1>12
  <2>5. ASSUME reason = "stage_gate_failed", NEW i \in 1..Len(a)
        PROVE  a[i].accepted = (i < Len(a))
    <3>1. CASE i = Len(a)
      <4>1. ~(i < Len(a)) /\ ~a[i].accepted /\ a[i].accepted \in BOOLEAN
        BY <1>3, <1>5, <2>4, <2>5, <3>1
      <4> QED
        BY <4>1
    <3>2. CASE i # Len(a)
      <4>1. i \in 1..Len(b.attempts) /\ i < Len(a)
        BY <2>2, <2>5, <3>2
      <4>2. a[i] = b.attempts[i] /\ b.attempts[i] \in Attempt
        BY <1>3, <1>5, <4>1
      <4>3. a[i].accepted /\ a[i].accepted \in BOOLEAN
        BY <2>1, <2>4, <2>5, <4>1, <4>2 DEF Attempt
      <4> QED
        BY <4>1, <4>3
    <3> QED
      BY <3>1, <3>2
  <2>6. t.phase = phase /\ t.patient = b.patient /\ t.attempts = a /\ t.reason = reason
    BY <1>9
  <2> QED
    BY <2>3, <2>5, <2>6 DEF StagedTold
<1>15. t.path # <<>> /\ t.reason # "target_reached" /\ (t.phase = "running" => t.reason = None)
  BY <1>8, <1>9, <1>12
<1> QED
  BY <1>11, <1>13, <1>14, <1>15 DEF BranchTold

\* How a run begins: what its seeds make of it.
Begun(kind, path, phase, reason) ==
  \/ /\ phase = "running" /\ reason = None
     /\ kind = "arclength" => \A i \in 1..Len(path) : path[i].verified
  \/ kind = "arclength" /\ phase = "stopped" /\ reason = "seed_verification_failed"
  \/ /\ kind = "arclength" /\ phase = "stopped" /\ reason = "target_reached"
     /\ path[Len(path)].at = Goal /\ \A i \in 1..Len(path) : path[i].verified

\* A run begins with its seeds and no attempts.
LEMMA FreshTold ==
  ASSUME BranchesSound, NEW kind \in {"arclength", "natural", "staged"}, NEW step \in Nat \ {0},
         NEW path \in Seq(Passed), Len(path) = IF kind = "arclength" THEN 2 ELSE 1,
         NEW phase, NEW reason, Begun(kind, path, phase, reason), NEW patient \in BOOLEAN,
         NEW t, t = [kind |-> kind, phase |-> phase, step |-> step, path |-> path, attempts |-> <<>>,
                     iteration |-> 0, reason |-> reason, patient |-> patient]
  PROVE  BranchTold(t)
<1>1. /\ None # "target_reached" /\ None # "seed_verification_failed"
      /\ None # "stage_gate_failed"
  BY DEF BranchesSound, BranchReasons
<1>2. PICK none : none = <<>>
  OBVIOUS
<1>3. none \in Seq(Attempt) /\ Len(none) = 0 /\ DOMAIN none = {}
  BY <1>2
<1>4. t.kind = kind /\ t.phase = phase /\ t.path = path /\ t.attempts = none /\ t.reason = reason
  BY <1>2
<1>5. /\ reason \in BranchReasons \cup {None} /\ phase \in {"running", "stopped"}
      /\ reason # "stage_gate_failed" /\ (phase = "running" => reason = None)
  BY <1>1 DEF Begun, BranchReasons
<1>6. t \in BranchRecord
  BY <1>2, <1>3, <1>5 DEF BranchRecord
<1>7. Len(path) \in Nat /\ path # <<>>
  <2>1. Len(path) = 1 \/ Len(path) = 2
    OBVIOUS
  <2>2. path = none => Len(path) = 0
    BY <1>3
  <2> QED
    BY <1>2, <2>1, <2>2
<1>8. Counted(t)
  <2>1. Hits(none) = {}
    BY <1>3 DEF Hits
  <2>2. Cardinality(Hits(none)) = 0
    BY <2>1, FS_EmptySet
  <2>3. kind # "staged" => Len(path) = (IF kind = "arclength" THEN 2 ELSE 1) + 0
    OBVIOUS
  <2> QED
    BY <1>4, <2>2, <2>3 DEF Counted
<1>9. NaturalTold(t)
  <2>1. kind = "natural" => 1..(Len(path) - 1) = {}
    OBVIOUS
  <2> QED
    BY <1>4, <2>1 DEF NaturalTold
<1>10. StagedTold(t)
  <2>1. 1..Len(none) = {}
    BY <1>3
  <2> QED
    BY <1>4, <1>5, <2>1 DEF StagedTold
<1>11. ArcTold(t)
  <2>1. kind = "arclength" => 2..(Len(path) - 1) = {}
    OBVIOUS
  <2>2. 1..(Len(none) - 1) = {}
    BY <1>3
  <2>3. kind = "arclength" =>
          (reason # "seed_verification_failed" => \A i \in 1..Len(path) : path[i].verified)
    BY DEF Begun
  <2> QED
    BY <1>2, <1>4, <2>1, <2>2, <2>3 DEF ArcTold
<1>12. t.reason = "target_reached" => Tip(t) = Goal
  BY <1>1, <1>4 DEF Begun, Tip
<1> QED
  BY <1>4, <1>5, <1>6, <1>7, <1>8, <1>9, <1>10, <1>11, <1>12 DEF BranchTold

\* The step sizes of the controller.
LEMMA Sizes ==
  ASSUME BranchesSound, NEW step \in Nat \ {0}
  PROVE  /\ B!Least(step, MaxStep) \in Nat \ {0} /\ B!Grow(step) \in Nat \ {0}
         /\ B!CanShrink(step) => B!Shrink(step) \in Nat \ {0} /\ B!Shrink(step) < step
<1>1. MaxStep \in Nat \ {0} /\ MinStep \in Nat \ {0}
  BY DEF BranchesSound
<1>2. B!Least(step, MaxStep) \in Nat \ {0} /\ B!Grow(step) \in Nat \ {0}
  BY <1>1 DEF B!Least, B!Grow
<1>3. B!CanShrink(step) => B!Shrink(step) \in Nat \ {0} /\ B!Shrink(step) < step
  BY <1>1 DEF B!CanShrink, B!Shrink
<1> QED
  BY <1>2, <1>3

\* Seeds and starting points begin a run.
LEMMA BranchBegins ==
  ASSUME BranchesSound, B!BeginArclength \/ B!BeginNatural \/ B!BeginStages
  PROVE  BranchInv'
<1>1. CASE B!BeginArclength
  <2>1. PICK step \in FirstSteps, p \in Place, q \in Place, verified \in BOOLEAN :
           branch' = LET begun == B!Fresh("arclength", step, <<B!Landmark(p, verified), B!Landmark(q, verified)>>) IN
                     IF ~verified THEN B!Stop(begun, "seed_verification_failed")
                     ELSE IF q = Goal THEN B!Stop(begun, "target_reached") ELSE begun
    BY <1>1 DEF B!BeginArclength
  <2>2. PICK path : path = <<B!Landmark(p, verified), B!Landmark(q, verified)>>
    OBVIOUS
  <2>3. p \in Int /\ q \in Int /\ step \in Nat \ {0}
    BY DEF BranchesSound
  <2>4. PICK st : st = B!Least(step, MaxStep)
    OBVIOUS
  <2>5. st \in Nat \ {0}
    BY <2>3, <2>4, Sizes
  <2>6. PICK begun : begun = [kind |-> "arclength", phase |-> "running", step |-> st, path |-> path,
                              attempts |-> <<>>, iteration |-> 0, reason |-> None, patient |-> FALSE]
    OBVIOUS
  <2>7. begun = B!Fresh("arclength", step, path)
    BY <2>4, <2>6 DEF B!Fresh
  <2>8. branch' = IF ~verified THEN B!Stop(begun, "seed_verification_failed")
                  ELSE IF q = Goal THEN B!Stop(begun, "target_reached") ELSE begun
    BY <2>1, <2>2, <2>7
  <2>9. PICK phase : phase = IF ~verified \/ q = Goal THEN "stopped" ELSE "running"
    OBVIOUS
  <2>10. PICK reason : reason = IF ~verified THEN "seed_verification_failed"
                                ELSE IF q = Goal THEN "target_reached" ELSE None
    OBVIOUS
  <2>11. PICK patient \in BOOLEAN : patient = FALSE
    OBVIOUS
  <2>12. branch' = [kind |-> "arclength", phase |-> phase, step |-> st, path |-> path, attempts |-> <<>>,
                    iteration |-> 0, reason |-> reason, patient |-> patient]
    BY <2>6, <2>8, <2>9, <2>10, <2>11 DEF B!Stop
  <2>13. /\ path \in Seq(Passed) /\ Len(path) = 2
         /\ path[1].verified = verified /\ path[2].verified = verified /\ path[2].at = q
    BY <2>2, <2>3 DEF B!Landmark, Passed
  <2>14. verified => \A i \in 1..Len(path) : path[i].verified
    <3>1. \A i \in 1..Len(path) : i = 1 \/ i = 2
      BY <2>13
    <3> QED
      BY <2>13, <3>1
  <2>15. Begun("arclength", path, phase, reason)
    BY <2>9, <2>10, <2>13, <2>14 DEF Begun
  <2>16. PICK t : t = branch'
    OBVIOUS
  <2>17. BranchTold(t)
    BY <2>5, <2>12, <2>13, <2>15, <2>16, FreshTold
  <2> QED
    BY <2>16, <2>17 DEF BranchInv
<1>2. CASE B!BeginNatural \/ B!BeginStages
  <2>1. PICK yes \in BOOLEAN : yes = TRUE
    OBVIOUS
  <2>2. PICK no \in BOOLEAN : no = FALSE
    OBVIOUS
  <2>3. \/ \E step \in FirstSteps, p \in Place :
              branch' = B!Fresh("natural", step, <<B!Landmark(p, yes)>>)
        \/ \E p \in Place, patient \in BOOLEAN :
              branch' = [B!Fresh("staged", MinStep, <<B!Landmark(p, yes)>>) EXCEPT !.patient = patient]
    BY <1>2, <2>1 DEF B!BeginNatural, B!BeginStages
  <2>4. PICK step \in FirstSteps \cup {MinStep}, p \in Place, patient \in BOOLEAN,
             kind \in {"natural", "staged"} :
           branch' = [kind |-> kind, phase |-> "running", step |-> B!Least(step, MaxStep),
                      path |-> <<B!Landmark(p, yes)>>, attempts |-> <<>>, iteration |-> 0,
                      reason |-> None, patient |-> patient]
    <3>1. CASE \E step \in FirstSteps, p \in Place :
                  branch' = B!Fresh("natural", step, <<B!Landmark(p, yes)>>)
      BY <2>2, <3>1 DEF B!Fresh
    <3>2. CASE \E p \in Place, patient \in BOOLEAN :
                  branch' = [B!Fresh("staged", MinStep, <<B!Landmark(p, yes)>>) EXCEPT !.patient = patient]
      <4>1. PICK p \in Place, patient \in BOOLEAN :
              branch' = [B!Fresh("staged", MinStep, <<B!Landmark(p, yes)>>) EXCEPT !.patient = patient]
        BY <3>2
      <4>2. branch' = [kind |-> "staged", phase |-> "running", step |-> B!Least(MinStep, MaxStep),
                       path |-> <<B!Landmark(p, yes)>>, attempts |-> <<>>, iteration |-> 0,
                       reason |-> None, patient |-> patient]
        BY <4>1 DEF B!Fresh
      <4> QED
        BY <4>2
    <3> QED
      BY <2>3, <3>1, <3>2
  <2>5. PICK st : st = B!Least(step, MaxStep)
    OBVIOUS
  <2>6. p \in Int /\ st \in Nat \ {0}
    <3>1. p \in Int /\ step \in Nat \ {0}
      BY DEF BranchesSound
    <3> QED
      BY <2>5, <3>1, Sizes
  <2>7. PICK path : path = <<B!Landmark(p, yes)>>
    OBVIOUS
  <2>8. path \in Seq(Passed) /\ Len(path) = 1
    BY <2>6, <2>7 DEF B!Landmark, Passed
  <2>9. PICK t : t = branch'
    OBVIOUS
  <2>10. t = [kind |-> kind, phase |-> "running", step |-> st, path |-> path, attempts |-> <<>>,
              iteration |-> 0, reason |-> None, patient |-> patient]
    BY <2>4, <2>5, <2>7, <2>9
  <2>11. Begun(kind, path, "running", None)
    BY DEF Begun
  <2>12. BranchTold(t)
    BY <2>6, <2>8, <2>10, <2>11, FreshTold
  <2> QED
    BY <2>9, <2>12 DEF BranchInv
<1> QED
  BY <1>1, <1>2

\* A step of a run keeps its story.
LEMMA Continues ==
  ASSUME NEW t, BranchTold(t), branch' = t
  PROVE  BranchInv'
  BY DEF BranchInv

\* The corrector fails: the step shrinks, or the run stops at the smallest.
LEMMA CorrectorFailsTold ==
  ASSUME BranchesSound, BranchInv, B!CorrectorFails
  PROVE  BranchInv'
<1>1. branch.phase = "running" /\ branch.kind = "arclength" /\ BranchTold(branch)
  BY DEF B!CorrectorFails, B!Running, BranchInv
<1>2. branch \in BranchRecord /\ branch.reason = None
  BY <1>1 DEF BranchTold
<1>3. PICK failed \in BOOLEAN : failed = FALSE
  OBVIOUS
<1>4. PICK a : a = Append(branch.attempts, [size |-> branch.step, accepted |-> failed])
  OBVIOUS
<1>5. PICK tried : tried = [branch EXCEPT !.attempts = a]
  OBVIOUS
<1>6. branch' = IF B!CanShrink(branch.step) THEN [tried EXCEPT !.step = B!Shrink(@)]
                ELSE B!Stop(tried, "minimum_step_reached")
  BY <1>3, <1>4, <1>5 DEF B!CorrectorFails, B!Tried
<1>7. tried = [kind |-> branch.kind, phase |-> "running", step |-> branch.step, path |-> branch.path,
               attempts |-> a, iteration |-> branch.iteration, reason |-> None,
               patient |-> branch.patient]
  BY <1>1, <1>2, <1>5 DEF BranchRecord
<1>8. PICK step : step = IF B!CanShrink(branch.step) THEN B!Shrink(branch.step) ELSE branch.step
  OBVIOUS
<1>9. PICK phase : phase = IF B!CanShrink(branch.step) THEN "running" ELSE "stopped"
  OBVIOUS
<1>10. PICK reason : reason = IF B!CanShrink(branch.step) THEN None ELSE "minimum_step_reached"
  OBVIOUS
<1>11. PICK t : t = branch'
  OBVIOUS
<1>12. t = [kind |-> branch.kind, phase |-> phase, step |-> step, path |-> branch.path,
            attempts |-> a, iteration |-> branch.iteration, reason |-> reason,
            patient |-> branch.patient]
  BY <1>6, <1>7, <1>8, <1>9, <1>10, <1>11 DEF B!Stop
<1>13. branch.step \in Nat \ {0} /\ branch.iteration \in Nat
  BY <1>2 DEF BranchRecord
<1>14. step \in Nat \ {0}
  BY <1>8, <1>13, Sizes
<1>15. \/ phase = "running" /\ reason = None /\ step < branch.step
       \/ phase = "stopped" /\ reason \in {"minimum_step_reached", "verification_failed",
                                           "target_landing_failed"}
  BY <1>8, <1>9, <1>10, <1>13, Sizes
<1>16. PICK size \in Int : size = branch.step
  BY <1>13
<1>17. t = [kind |-> branch.kind, phase |-> phase, step |-> step, path |-> branch.path,
            attempts |-> Append(branch.attempts, [size |-> size, accepted |-> failed]),
            iteration |-> branch.iteration, reason |-> reason,
            patient |-> branch.patient]
  BY <1>4, <1>12, <1>16
<1>18. BranchTold(t)
  BY <1>1, <1>3, <1>13, <1>14, <1>15, <1>16, <1>17, FailedTold
<1> QED
  BY <1>11, <1>18, Continues

\* The corrector converges: to a point beyond the target only by landing on it.
LEMMA CorrectorConvergesTold ==
  ASSUME BranchesSound, BranchInv, B!CorrectorConverges
  PROVE  BranchInv'
<1>1. branch.phase = "running" /\ branch.kind = "arclength" /\ BranchTold(branch)
  BY DEF B!CorrectorConverges, B!Running, BranchInv
<1>2. branch \in BranchRecord /\ branch.reason = None /\ branch.path # <<>>
  BY <1>1 DEF BranchTold
<1>3. PICK q \in Place :
          \/ branch' = B!Refused("verification_failed")
          \/ branch' = B!Refused("target_landing_failed")
          \/ branch' = B!Stop(B!Taken(Goal), "target_reached")
          \/ /\ ~B!Crosses(B!Here, q)
             /\ \E step \in {branch.step, B!Grow(branch.step)} : branch' = [B!Taken(q) EXCEPT !.step = step]
  BY DEF B!CorrectorConverges
<1>4. /\ branch.step \in Nat \ {0} /\ branch.iteration \in Nat /\ branch.iteration + 1 \in Nat
      /\ branch.path \in Seq(Passed)
  BY <1>2 DEF BranchRecord
<1>5. PICK size \in Int : size = branch.step
  BY <1>4
<1>6. PICK t : t = branch'
  OBVIOUS
<1>7. CASE branch' = B!Refused("verification_failed") \/ branch' = B!Refused("target_landing_failed")
  <2>1. PICK failed \in BOOLEAN : failed = FALSE
    OBVIOUS
  <2>2. PICK a : a = Append(branch.attempts, [size |-> size, accepted |-> failed])
    OBVIOUS
  <2>3. PICK reason \in {"verification_failed", "target_landing_failed"} :
          branch' = B!Stop([branch EXCEPT !.attempts = a], reason)
    BY <1>5, <1>7, <2>1, <2>2 DEF B!Refused, B!Tried
  <2>4. t = [kind |-> branch.kind, phase |-> "stopped", step |-> branch.step, path |-> branch.path,
             attempts |-> a, iteration |-> branch.iteration, reason |-> reason,
             patient |-> branch.patient]
    BY <1>2, <1>6, <2>3 DEF B!Stop, BranchRecord
  <2>5. t = [kind |-> branch.kind, phase |-> "stopped", step |-> branch.step, path |-> branch.path,
             attempts |-> Append(branch.attempts, [size |-> size, accepted |-> failed]),
             iteration |-> branch.iteration, reason |-> reason, patient |-> branch.patient]
    BY <2>2, <2>4
  <2>6. BranchTold(t)
    BY <1>1, <1>4, <1>5, <2>1, <2>5, FailedTold
  <2> QED
    BY <1>6, <2>6, Continues
<1>8. CASE \/ branch' = B!Stop(B!Taken(Goal), "target_reached")
           \/ /\ ~B!Crosses(B!Here, q)
              /\ \E step \in {branch.step, B!Grow(branch.step)} : branch' = [B!Taken(q) EXCEPT !.step = step]
  <2>1. PICK kept \in BOOLEAN : kept = TRUE
    OBVIOUS
  <2>2. PICK a : a = Append(branch.attempts, [size |-> size, accepted |-> kept])
    OBVIOUS
  <2>3. ASSUME NEW r
        PROVE  B!Taken(r) = [kind |-> branch.kind, phase |-> "running", step |-> branch.step,
                             path |-> Append(branch.path, [at |-> r, verified |-> kept]),
                             attempts |-> a, iteration |-> branch.iteration + 1, reason |-> None,
                             patient |-> branch.patient]
    <3>1. PICK p : p = Append(branch.path, [at |-> r, verified |-> kept])
      OBVIOUS
    <3>2. B!Taken(r) = [branch EXCEPT !.attempts = a, !.path = p, !.iteration = @ + 1]
      BY <1>5, <2>1, <2>2, <3>1 DEF B!Taken, B!Tried, B!Landmark
    <3> QED
      BY <1>1, <1>2, <3>1, <3>2 DEF BranchRecord
  <2>4. CASE branch' = B!Stop(B!Taken(Goal), "target_reached")
    <3>1. PICK p : p = Append(branch.path, [at |-> Goal, verified |-> kept])
      OBVIOUS
    <3>2. B!Taken(Goal) = [kind |-> branch.kind, phase |-> "running", step |-> branch.step, path |-> p,
                           attempts |-> a, iteration |-> branch.iteration + 1, reason |-> None,
                           patient |-> branch.patient]
      BY <2>3, <3>1
    <3>3. t = [kind |-> branch.kind, phase |-> "stopped", step |-> branch.step, path |-> p,
               attempts |-> a, iteration |-> branch.iteration + 1, reason |-> "target_reached",
               patient |-> branch.patient]
      <4>1. PICK taken : taken = B!Taken(Goal)
        OBVIOUS
      <4>2. t = [taken EXCEPT !.phase = "stopped", !.reason = "target_reached"]
        BY <1>6, <2>4, <4>1 DEF B!Stop
      <4>3. taken = [kind |-> branch.kind, phase |-> "running", step |-> branch.step, path |-> p,
                     attempts |-> a, iteration |-> branch.iteration + 1, reason |-> None,
                     patient |-> branch.patient]
        BY <3>2, <4>1
      <4> QED
        BY <4>2, <4>3
    <3>4. t = [kind |-> branch.kind, phase |-> "stopped", step |-> branch.step,
               path |-> Append(branch.path, [at |-> Goal, verified |-> kept]),
               attempts |-> Append(branch.attempts, [size |-> size, accepted |-> kept]),
               iteration |-> branch.iteration + 1, reason |-> "target_reached",
               patient |-> branch.patient]
      BY <2>2, <3>1, <3>3
    <3>5. Onward(branch, Goal, "stopped", "target_reached")
      BY <1>1 DEF Onward, BranchesSound
    <3>6. BranchTold(t)
      BY <1>1, <1>4, <1>5, <2>1, <3>4, <3>5, TakenTold
    <3> QED
      BY <1>6, <3>6, Continues
  <2>5. CASE /\ ~B!Crosses(B!Here, q)
             /\ \E step \in {branch.step, B!Grow(branch.step)} : branch' = [B!Taken(q) EXCEPT !.step = step]
    <3>1. PICK step \in {branch.step, B!Grow(branch.step)} : branch' = [B!Taken(q) EXCEPT !.step = step]
      BY <2>5
    <3>2. PICK p : p = Append(branch.path, [at |-> q, verified |-> kept])
      OBVIOUS
    <3>3. B!Taken(q) = [kind |-> branch.kind, phase |-> "running", step |-> branch.step, path |-> p,
                        attempts |-> a, iteration |-> branch.iteration + 1, reason |-> None,
                        patient |-> branch.patient]
      BY <2>3, <3>2
    <3>4. t = [kind |-> branch.kind, phase |-> "running", step |-> step, path |-> p,
               attempts |-> a, iteration |-> branch.iteration + 1, reason |-> None,
               patient |-> branch.patient]
      BY <1>6, <3>1, <3>3
    <3>5. t = [kind |-> branch.kind, phase |-> "running", step |-> step,
               path |-> Append(branch.path, [at |-> q, verified |-> kept]),
               attempts |-> Append(branch.attempts, [size |-> size, accepted |-> kept]),
               iteration |-> branch.iteration + 1, reason |-> None,
               patient |-> branch.patient]
      BY <2>2, <3>2, <3>4
    <3>6. Onward(branch, q, "running", None)
      <4>1. B!Here = Tip(branch)
        BY DEF B!Here, Tip, B!Last, Last
      <4>2. Tip(branch) \in Int
        <5>1. Len(branch.path) \in 1..Len(branch.path)
          BY <1>2, <1>4
        <5>2. branch.path[Len(branch.path)] \in Passed
          BY <1>4, <5>1
        <5> QED
          BY <5>2 DEF Tip, Passed
      <4>3. q \in Int /\ Goal \in Int
        BY DEF BranchesSound
      <4>4. (Tip(branch) < Goal) <=> (q < Goal)
        BY <2>5, <4>1, <4>2, <4>3 DEF B!Crosses
      <4> QED
        BY <1>1, <4>3, <4>4 DEF Onward
    <3>7. step \in Nat \ {0}
      BY <1>4, Sizes
    <3>8. BranchTold(t)
      BY <1>1, <1>4, <1>5, <2>1, <3>5, <3>6, <3>7, TakenTold
    <3> QED
      BY <1>6, <3>8, Continues
  <2> QED
    BY <1>8, <2>4, <2>5
<1> QED
  BY <1>3, <1>7, <1>8

\* The next place is closer to the target and not beyond it.
LEMMA LandingCloser ==
  ASSUME Goal \in Int, NEW p \in Int, p # Goal, NEW step \in Nat \ {0}
  PROVE  B!Landing(p, step) \in Int /\ Closer(p, B!Landing(p, step))
<1>1. PICK far : far = B!Least(step, B!Abs(Goal - p))
  OBVIOUS
<1>2. PICK gap : gap = B!Abs(Goal - p)
  OBVIOUS
<1>3. gap \in Nat \ {0} /\ (p < Goal => gap = Goal - p) /\ (p > Goal => gap = p - Goal)
  BY <1>2 DEF B!Abs
<1>4. far \in Nat \ {0} /\ far <= gap
  BY <1>1, <1>2, <1>3 DEF B!Least
<1>5. PICK q : q = IF p < Goal THEN p + far ELSE p - far
  OBVIOUS
<1>6. q = B!Landing(p, step)
  BY <1>1, <1>5 DEF B!Landing
<1>7. q \in Int /\ (p < Goal => q <= Goal) /\ (p > Goal => q >= Goal)
  BY <1>3, <1>4, <1>5
<1>8. B!Abs(Goal - q) < B!Abs(Goal - p)
  BY <1>3, <1>4, <1>5 DEF B!Abs
<1> QED
  BY <1>6, <1>7, <1>8 DEF Closer

\* Natural continuation takes the next place, or tries again closer by.
LEMMA SolveStageTold ==
  ASSUME BranchesSound, BranchInv, B!SolveStage
  PROVE  BranchInv'
<1>1. branch.phase = "running" /\ branch.kind = "natural" /\ BranchTold(branch) /\ B!Here # Goal
  BY DEF B!SolveStage, B!Running, BranchInv
<1>2. branch \in BranchRecord /\ branch.reason = None /\ branch.path # <<>>
  BY <1>1 DEF BranchTold
<1>3. /\ branch.step \in Nat \ {0} /\ branch.iteration \in Nat /\ branch.iteration + 1 \in Nat
      /\ branch.path \in Seq(Passed)
  BY <1>2 DEF BranchRecord
<1>4. B!Here = Tip(branch) /\ Tip(branch) \in Int
  <2>1. Len(branch.path) \in 1..Len(branch.path)
    BY <1>2, <1>3
  <2>2. branch.path[Len(branch.path)] \in Passed
    BY <1>3, <2>1
  <2> QED
    BY <2>2 DEF B!Here, Tip, B!Last, Last, Passed
<1>5. PICK next : next = B!Landing(B!Here, branch.step)
  OBVIOUS
<1>6. next \in Int /\ Closer(Tip(branch), next)
  BY <1>1, <1>3, <1>4, <1>5, LandingCloser DEF BranchesSound
<1>7. PICK size : size = B!Abs(next - B!Here)
  OBVIOUS
<1>8. size \in Int
  BY <1>4, <1>6, <1>7 DEF B!Abs
<1>9. PICK kept \in BOOLEAN : kept = TRUE
  OBVIOUS
<1>10. PICK failed \in BOOLEAN : failed = FALSE
  OBVIOUS
<1>11. PICK good : good = Append(branch.attempts, [size |-> size, accepted |-> kept])
  OBVIOUS
<1>12. PICK bad : bad = Append(branch.attempts, [size |-> size, accepted |-> failed])
  OBVIOUS
<1>13. PICK p : p = Append(branch.path, [at |-> next, verified |-> kept])
  OBVIOUS
<1>14. PICK won : won = [branch EXCEPT !.attempts = good, !.iteration = @ + 1]
  OBVIOUS
<1>15. PICK lost : lost = [branch EXCEPT !.attempts = bad, !.iteration = @ + 1]
  OBVIOUS
<1>16. \/ branch' = [won EXCEPT !.path = p, !.step = B!Grow(@)]
       \/ branch' = IF B!CanShrink(branch.step) THEN [lost EXCEPT !.step = B!Shrink(@)]
                    ELSE B!Stop(lost, "minimum_step_reached")
  <2>1. won.path = branch.path
    BY <1>2, <1>14 DEF BranchRecord
  <2> QED
    BY <1>5, <1>7, <1>9, <1>10, <1>11, <1>12, <1>13, <1>14, <1>15, <2>1
       DEF B!SolveStage, B!Tried, B!Landmark
<1>17. PICK t : t = branch'
  OBVIOUS
<1>18. CASE branch' = [won EXCEPT !.path = p, !.step = B!Grow(@)]
  <2>1. PICK step : step = B!Grow(branch.step)
    OBVIOUS
  <2>2. step \in Nat \ {0}
    BY <1>3, <2>1, Sizes
  <2>3. t = [kind |-> branch.kind, phase |-> "running", step |-> step, path |-> p,
             attempts |-> good, iteration |-> branch.iteration + 1, reason |-> None,
             patient |-> branch.patient]
    BY <1>1, <1>2, <1>14, <1>17, <1>18, <2>1 DEF BranchRecord
  <2>4. t = [kind |-> branch.kind, phase |-> "running", step |-> step,
             path |-> Append(branch.path, [at |-> next, verified |-> kept]),
             attempts |-> Append(branch.attempts, [size |-> size, accepted |-> kept]),
             iteration |-> branch.iteration + 1, reason |-> None,
             patient |-> branch.patient]
    BY <1>11, <1>13, <2>3
  <2>5. Onward(branch, next, "running", None)
    BY <1>1, <1>6 DEF Onward
  <2>6. BranchTold(t)
    BY <1>1, <1>3, <1>8, <1>9, <2>2, <2>4, <2>5, TakenTold
  <2> QED
    BY <1>17, <2>6, Continues
<1>19. CASE branch' = IF B!CanShrink(branch.step) THEN [lost EXCEPT !.step = B!Shrink(@)]
                      ELSE B!Stop(lost, "minimum_step_reached")
  <2>1. PICK step : step = IF B!CanShrink(branch.step) THEN B!Shrink(branch.step) ELSE branch.step
    OBVIOUS
  <2>2. PICK phase : phase = IF B!CanShrink(branch.step) THEN "running" ELSE "stopped"
    OBVIOUS
  <2>3. PICK reason : reason = IF B!CanShrink(branch.step) THEN None ELSE "minimum_step_reached"
    OBVIOUS
  <2>4. lost = [kind |-> branch.kind, phase |-> "running", step |-> branch.step,
                path |-> branch.path, attempts |-> bad, iteration |-> branch.iteration + 1,
                reason |-> None, patient |-> branch.patient]
    BY <1>1, <1>2, <1>15 DEF BranchRecord
  <2>5. t = [kind |-> branch.kind, phase |-> phase, step |-> step, path |-> branch.path,
             attempts |-> bad, iteration |-> branch.iteration + 1, reason |-> reason,
             patient |-> branch.patient]
    BY <1>17, <1>19, <2>1, <2>2, <2>3, <2>4 DEF B!Stop
  <2>6. t = [kind |-> branch.kind, phase |-> phase, step |-> step, path |-> branch.path,
             attempts |-> Append(branch.attempts, [size |-> size, accepted |-> failed]),
             iteration |-> branch.iteration + 1, reason |-> reason, patient |-> branch.patient]
    BY <1>12, <2>5
  <2>7. step \in Nat \ {0}
    BY <1>3, <2>1, Sizes
  <2>8. \/ phase = "running" /\ reason = None /\ step < branch.step
        \/ phase = "stopped" /\ reason \in {"minimum_step_reached", "verification_failed",
                                            "target_landing_failed"}
    BY <1>3, <2>1, <2>2, <2>3, Sizes
  <2>9. BranchTold(t)
    BY <1>1, <1>3, <1>8, <1>10, <2>6, <2>7, <2>8, FailedTold
  <2> QED
    BY <1>17, <2>9, Continues
<1> QED
  BY <1>16, <1>18, <1>19

\* A stage runs and its gate is judged.
LEMMA RunStageTold ==
  ASSUME BranchesSound, BranchInv, B!RunStage
  PROVE  BranchInv'
<1>1. branch.phase = "running" /\ branch.kind = "staged" /\ BranchTold(branch)
  BY DEF B!RunStage, B!Running, BranchInv
<1>2. branch \in BranchRecord /\ branch.reason = None
  BY <1>1 DEF BranchTold
<1>3. PICK q \in Place, passed \in BOOLEAN :
        LET ran == [branch EXCEPT !.attempts = Append(@, B!Tried(MinStep, passed)),
                                  !.path = Append(@, B!Landmark(q, passed)), !.iteration = @ + 1] IN
        branch' = IF ~passed /\ ~branch.patient THEN B!Stop(ran, "stage_gate_failed") ELSE ran
  BY DEF B!RunStage
<1>4. PICK a : a = Append(branch.attempts, [size |-> MinStep, accepted |-> passed])
  OBVIOUS
<1>5. PICK p : p = Append(branch.path, [at |-> q, verified |-> passed])
  OBVIOUS
<1>6. PICK ran : ran = [branch EXCEPT !.attempts = a, !.path = p, !.iteration = @ + 1]
  OBVIOUS
<1>7. branch' = IF ~passed /\ ~branch.patient THEN B!Stop(ran, "stage_gate_failed") ELSE ran
  BY <1>3, <1>4, <1>5, <1>6 DEF B!Tried, B!Landmark
<1>8. ran = [kind |-> branch.kind, phase |-> "running", step |-> branch.step, path |-> p,
             attempts |-> a, iteration |-> branch.iteration + 1, reason |-> None,
             patient |-> branch.patient]
  BY <1>1, <1>2, <1>6 DEF BranchRecord
<1>9. PICK phase : phase = IF ~passed /\ ~branch.patient THEN "stopped" ELSE "running"
  OBVIOUS
<1>10. PICK reason : reason = IF ~passed /\ ~branch.patient THEN "stage_gate_failed" ELSE None
  OBVIOUS
<1>11. PICK t : t = branch'
  OBVIOUS
<1>12. t = [kind |-> branch.kind, phase |-> phase, step |-> branch.step, path |-> p,
            attempts |-> a, iteration |-> branch.iteration + 1, reason |-> reason,
            patient |-> branch.patient]
  BY <1>7, <1>8, <1>9, <1>10, <1>11 DEF B!Stop
<1>13. t = [kind |-> branch.kind, phase |-> phase, step |-> branch.step,
            path |-> Append(branch.path, [at |-> q, verified |-> passed]),
            attempts |-> Append(branch.attempts, [size |-> MinStep, accepted |-> passed]),
            iteration |-> branch.iteration + 1, reason |-> reason, patient |-> branch.patient]
  BY <1>4, <1>5, <1>12
<1>14. branch.iteration + 1 \in Nat
  BY <1>2 DEF BranchRecord
<1>15. q \in Int /\ MinStep \in Int
  BY DEF BranchesSound
<1>16. \/ phase = "running" /\ reason = None /\ (passed \/ branch.patient)
       \/ phase = "stopped" /\ reason = "stage_gate_failed" /\ ~passed /\ ~branch.patient
  BY <1>9, <1>10
<1>17. BranchTold(t)
  BY <1>1, <1>13, <1>14, <1>15, <1>16, StageTold
<1> QED
  BY <1>11, <1>17, Continues

\* A run ends on its target, or with its budget.
LEMMA BranchEnds ==
  ASSUME BranchesSound, BranchInv, B!Arrives \/ B!OutOfSteps
  PROVE  BranchInv'
<1>1. branch.phase = "running" /\ BranchTold(branch)
  BY DEF B!Arrives, B!OutOfSteps, B!Running, BranchInv
<1>2. PICK reason \in {"target_reached", "completed", "max_steps"} :
        branch' = B!Stop(branch, reason) /\ (reason = "target_reached" => B!Here = Goal)
  BY DEF B!Arrives, B!OutOfSteps
<1>3. reason = "target_reached" => Tip(branch) = Goal
  BY <1>2 DEF B!Here, Tip, B!Last, Last
<1>4. reason \in BranchReasons /\ reason \notin {"seed_verification_failed", "stage_gate_failed"}
  BY DEF BranchReasons
<1>5. BranchTold(B!Stop(branch, reason))
  BY <1>1, <1>3, <1>4, StopTold
<1> QED
  BY <1>2, <1>5, Continues

\* Every step of a continuation keeps the invariant.
LEMMA BranchStep ==
  ASSUME BranchesSound, BranchInv, [B!Next]_<<branch>>
  PROVE  BranchInv'
<1>1. CASE UNCHANGED branch
  BY <1>1 DEF BranchInv
<1>2. CASE B!Next
  BY <1>2, BranchBegins, CorrectorFailsTold, CorrectorConvergesTold, SolveStageTold, RunStageTold,
     BranchEnds DEF B!Next
<1> QED
  BY <1>1, <1>2

\* The invariant is more than the property.
LEMMA BranchSays ==
  ASSUME BranchesSound, BranchInv
  PROVE  B!StraightPath
<1>1. SUFFICES ASSUME branch.phase # "idle"
               PROVE  B!StraightPath
  BY DEF B!StraightPath
<1>2. BranchTold(branch)
  BY <1>1 DEF BranchInv
<1>3. B!Here = Tip(branch)
  BY DEF B!Here, Tip, B!Last, Last
<1>4. B!Cardinality(B!Accepted) = Cardinality(Hits(branch.attempts))
  BY DEF B!Cardinality, Cardinality, B!Accepted, Hits
<1>5. branch.kind # "staged" => Len(branch.path) = B!Seeds + B!Cardinality(B!Accepted)
  BY <1>2, <1>4 DEF BranchTold, Counted, B!Seeds
<1>6. branch.kind = "arclength" =>
        /\ branch.reason # "seed_verification_failed" =>
             \A i \in 1..Len(branch.path) : branch.path[i].verified
        /\ \A i \in 2..(Len(branch.path) - 1) :
              (branch.path[i].at < Goal) # (branch.path[i + 1].at < Goal) =>
                 branch.reason = "target_reached"
        /\ \A i \in 1..(Len(branch.attempts) - 1) :
              ~branch.attempts[i].accepted => branch.attempts[i + 1].size < branch.attempts[i].size
  BY <1>2 DEF BranchTold, ArcTold
<1>7. branch.kind = "natural" =>
        \A i \in 1..(Len(branch.path) - 1) :
           /\ B!Abs(Goal - branch.path[i + 1].at) < B!Abs(Goal - branch.path[i].at)
           /\ (branch.path[i].at < Goal) => branch.path[i + 1].at <= Goal
           /\ (branch.path[i].at > Goal) => branch.path[i + 1].at >= Goal
  BY <1>2 DEF BranchTold, NaturalTold, Closer
<1>8. branch.reason = "target_reached" => B!Here = Goal
  BY <1>2, <1>3 DEF BranchTold
<1>9. branch.reason = "stage_gate_failed" =>
        \A i \in 1..Len(branch.attempts) :
           branch.attempts[i].accepted = (i < Len(branch.attempts))
  BY <1>2 DEF BranchTold, StagedTold
<1> QED
  BY <1>5, <1>6, <1>7, <1>8, <1>9 DEF B!StraightPath

\* The path of a continuation is its seeds and its accepted attempts
\* (shooting/continuation.py, continuation.py).
LEMMA BranchesHonest ==
  ASSUME BranchesSound
  PROVE  B!Spec => []B!StraightPath
<1>1. B!Init => BranchInv
  BY DEF B!Init, BranchInv
<1>2. BranchInv /\ [B!Next]_<<branch>> => BranchInv'
  BY BranchStep
<1>3. BranchInv => B!StraightPath
  BY BranchSays
<1> QED
  BY <1>1, <1>2, <1>3, PTL DEF B!Spec

-----------------------------------------------------------------------------
(* Campaigns                                                               *)

CampaignModes == {"scout", "portfolio", "refine", "challenge", "continue"}
CampaignStatus == {"failed", "interrupted", "completed"}
CampaignResult ==
  [mode : CampaignModes, source : Nat, print : {Fingerprint[s] : s \in Param}, under : Param,
   at : CampaignPoint]
Checked == [stage : Nat, under : Param]
CampaignRecord ==
  [status : CampaignStatus \cup {None}, systems : SUBSET Param, results : Seq(CampaignResult),
   stages : Nat, selected : Nat, first : Nat, checked : Checked \cup {None}]

\* A candidate, and the results it was made after.
ResultGood(results, i, systems) ==
  /\ results[i].under \in systems /\ Fingerprint[results[i].under] = results[i].print
  /\ results[i].source < i
  /\ results[i].mode # "continue" =>
       results[i].under = IF results[i].source = 0 THEN C!Base ELSE results[results[i].source].under
  /\ value[results[i].under][results[i].at] # None

\* The selected candidate is as good as the others of its mode.
SelectedGood(k) ==
  k.results # <<>> =>
    /\ k.selected \in k.first..Len(k.results)
    /\ \A j \in k.first..Len(k.results) :
          value[k.results[k.selected].under][k.results[k.selected].at]
            <= value[k.results[k.selected].under][k.results[j].at]

CheckedGood(k) ==
  k.checked # None =>
    k.checked.stage \in 1..Len(k.results) /\ k.checked.under = k.results[k.checked.stage].under

CampaignGood(k) ==
  /\ k \in CampaignRecord /\ C!Base \in k.systems
  /\ \A i \in 1..Len(k.results) : ResultGood(k.results, i, k.systems)
  /\ SelectedGood(k) /\ CheckedGood(k)

CampaignInv == value \in Objectives /\ factory \in Param \cup {None} /\ CampaignGood(camp)

\* Among numbers of a finite range one is the least, the first of those that are.
LEMMA FirstLeast ==
  ASSUME NEW lo \in Nat, NEW hi \in Nat, lo <= hi, NEW f, \A j \in lo..hi : f[j] \in Int
  PROVE  \E i \in lo..hi : \A j \in lo..hi : f[i] < f[j] \/ (f[i] = f[j] /\ i <= j)
<1> DEFINE Before(i) == {j \in lo..hi : f[j] < f[i] \/ (f[j] = f[i] /\ j <= i)}
<1>1. PICK U : U = lo..hi
  OBVIOUS
<1>2. IsFiniteSet(U) /\ lo \in U
  BY <1>1, FS_Interval
<1>3. PICK F : F = {Before(i) : i \in U}
  OBVIOUS
<1>4. F \subseteq SUBSET U /\ F # {}
  BY <1>1, <1>2, <1>3
<1>5. PICK s \in F : \A t \in F : t \subseteq s => t = s
  <2>1. IsFiniteSet(U) /\ F \subseteq SUBSET U /\ F # {}
    BY <1>2, <1>4
  <2> HIDE DEF Before
  <2> QED
    BY <2>1, SmallestSet
<1>6. PICK i \in U : s = Before(i)
  BY <1>3, <1>5
<1>7. ASSUME NEW j \in U, ~(f[i] < f[j] \/ (f[i] = f[j] /\ i <= j))
      PROVE  FALSE
  <2>1. i \in Int /\ j \in Int /\ f[i] \in Int /\ f[j] \in Int
    BY <1>1
  <2>2. f[j] < f[i] \/ (f[j] = f[i] /\ j < i)
    BY <1>7, <2>1
  <2>3. i \notin Before(j) /\ i \in Before(i)
    BY <1>1, <2>1, <2>2
  <2>4. ASSUME NEW m \in Before(j)
        PROVE  m \in Before(i)
    <3>1. m \in lo..hi /\ f[m] \in Int /\ m \in Int /\ (f[m] < f[j] \/ (f[m] = f[j] /\ m <= j))
      BY <2>4
    <3>2. f[m] < f[i] \/ (f[m] = f[i] /\ m <= i)
      BY <2>1, <2>2, <3>1
    <3> QED
      BY <3>1, <3>2
  <2>5. Before(j) \in F
    BY <1>3
  <2> QED
    BY <1>5, <1>6, <2>3, <2>4, <2>5
<1> QED
  BY <1>1, <1>7

\* Base is a system; a registered system is the one of its fingerprint.
LEMMA RegisteredSystem ==
  ASSUME CampaignsSound, CampaignGood(camp), factory \in Param \cup {None}, NEW u \in camp.systems
  PROVE  /\ u \in Param /\ C!Base \in Param
         /\ C!Resolved(Fingerprint[u]) = u
         /\ \A parallel \in BOOLEAN :
              LET s == C!Worker(Fingerprint[u], parallel) IN
              (s # None /\ Fingerprint[s] = Fingerprint[u]) => s = u
<1>1. camp.systems \subseteq Param /\ C!Base \in camp.systems
  BY DEF CampaignGood, CampaignRecord
<1>2. \A s \in camp.systems : Fingerprint[s] = Fingerprint[u] => s = u
  BY <1>1 DEF CampaignsSound
<1>3. C!Resolved(Fingerprint[u]) = u
  BY <1>2 DEF C!Resolved
<1>4. ASSUME NEW parallel \in BOOLEAN, NEW s, s = C!Worker(Fingerprint[u], parallel), s # None,
             Fingerprint[s] = Fingerprint[u]
      PROVE  s = u
  <2>1. s = factory \/ s = u
    BY <1>3, <1>4 DEF C!Worker
  <2> QED
    BY <1>1, <1>4, <2>1 DEF CampaignsSound
<1> QED
  BY <1>1, <1>3, <1>4

\* What a campaign holds stays good when only its status, stages or systems change.
LEMMA OnlyMore ==
  ASSUME CampaignsSound, NEW k, CampaignGood(k), NEW status \in CampaignStatus \cup {None},
         NEW stages \in Nat, NEW systems, k.systems \subseteq systems, systems \subseteq Param,
         NEW t, t = [k EXCEPT !.status = status, !.stages = stages, !.systems = systems]
  PROVE  CampaignGood(t)
<1>1. k \in CampaignRecord
  BY DEF CampaignGood
<1>2. t = [status |-> status, systems |-> systems, results |-> k.results, stages |-> stages,
           selected |-> k.selected, first |-> k.first, checked |-> k.checked]
  BY <1>1 DEF CampaignRecord
<1>3. t \in CampaignRecord
  BY <1>1, <1>2 DEF CampaignRecord
<1>4. C!Base \in t.systems
  BY <1>2 DEF CampaignGood
<1>5. \A i \in 1..Len(t.results) : ResultGood(t.results, i, t.systems)
  BY <1>2 DEF CampaignGood, ResultGood
<1>6. SelectedGood(t) /\ CheckedGood(t)
  BY <1>2 DEF CampaignGood, SelectedGood, CheckedGood
<1> QED
  BY <1>3, <1>4, <1>5, <1>6 DEF CampaignGood

\* The type of a campaign, field by field.
LEMMA TypedCampaign ==
  ASSUME NEW status \in CampaignStatus \cup {None}, NEW systems \in SUBSET Param,
         NEW results \in Seq(CampaignResult), NEW stages \in Nat, NEW selected \in Nat,
         NEW first \in Nat, NEW checked \in Checked \cup {None}
  PROVE  [status |-> status, systems |-> systems, results |-> results, stages |-> stages,
          selected |-> selected, first |-> first, checked |-> checked] \in CampaignRecord
  BY DEF CampaignRecord

EntryRecord == [start : CampaignPoint, source : 0..Len(camp.results)]

\* A mode retains its results: each was made by the system of its source, and the best of
\* them is selected.
LEMMA RetainedGood ==
  ASSUME CampaignsSound, CampaignInv, NEW systems, camp.systems \subseteq systems,
         systems \subseteq Param, NEW s \in systems, NEW n \in Nat \ {0},
         NEW entries \in [1..n -> EntryRecord], NEW ends \in [1..n -> C!Finite(s)],
         NEW mode \in CampaignModes,
         mode # "continue" =>
           \A i \in 1..n :
             s = IF entries[i].source = 0 THEN C!Base ELSE camp.results[entries[i].source].under,
         NEW t, t = [C!Retained(mode, entries, Fingerprint[s], s, ends) EXCEPT !.systems = systems]
  PROVE  CampaignGood(t)
<1>1. camp \in CampaignRecord /\ value \in Objectives /\ s \in Param
  BY DEF CampaignInv, CampaignGood
<1>2. PICK old : old = camp.results
  OBVIOUS
<1>3. old \in Seq(CampaignResult) /\ Len(old) \in Nat
  BY <1>1, <1>2 DEF CampaignRecord
<1>4. PICK new : new = [i \in 1..n |-> C!Candidate(mode, entries[i], Fingerprint[s], s, ends[i])]
  OBVIOUS
<1>5. /\ \A i \in 1..n : new[i] = [mode |-> mode, source |-> entries[i].source,
                                   print |-> Fingerprint[s], under |-> s, at |-> ends[i]]
      /\ \A i \in 1..n : /\ ends[i] \in CampaignPoint /\ value[s][ends[i]] # None
                         /\ entries[i].source \in 0..Len(old)
  BY <1>2, <1>4 DEF C!Candidate, C!Finite, EntryRecord
<1>6. ASSUME NEW i \in 1..n
      PROVE  new[i] \in CampaignResult
  <2>1. entries[i].source \in Nat /\ ends[i] \in CampaignPoint
    BY <1>3, <1>5
  <2>2. new[i] = [mode |-> mode, source |-> entries[i].source, print |-> Fingerprint[s],
                  under |-> s, at |-> ends[i]]
    BY <1>5
  <2>3. Fingerprint[s] \in {Fingerprint[r] : r \in Param}
    BY <1>1
  <2> QED
    BY <1>1, <2>1, <2>2, <2>3 DEF CampaignResult
<1>7. new \in Seq(CampaignResult) /\ Len(new) = n
  <2>1. new \in [1..n -> CampaignResult]
    BY <1>4, <1>6
  <2>2. new \in Seq(CampaignResult)
    BY <2>1, SeqDef
  <2>3. DOMAIN new = 1..n
    BY <1>4
  <2> QED
    BY <2>2, <2>3, LenProperties
<1>8. PICK all : all = old \o new
  OBVIOUS
<1>9. /\ all \in Seq(CampaignResult) /\ Len(all) = Len(old) + n
      /\ \A i \in 1..Len(all) : all[i] = IF i <= Len(old) THEN old[i] ELSE new[i - Len(old)]
  BY <1>3, <1>7, <1>8, ConcatProperties
<1>10. PICK best : best = C!Best(all, Len(old) + 1, s)
  OBVIOUS
<1>11. DOMAIN entries = 1..n /\ Len(entries) = n
  OBVIOUS
<1>12. t = [status |-> camp.status, systems |-> systems, results |-> all,
            stages |-> camp.stages + n, selected |-> best, first |-> Len(old) + 1,
            checked |-> camp.checked]
  BY <1>1, <1>2, <1>4, <1>8, <1>10, <1>11 DEF C!Retained, CampaignRecord
<1>13. \A j \in (Len(old) + 1)..Len(all) :
          /\ j - Len(old) \in 1..n /\ all[j] = new[j - Len(old)]
  BY <1>3, <1>9
<1>14. ASSUME NEW j \in (Len(old) + 1)..Len(all)
       PROVE  all[j].under = s /\ all[j].at \in CampaignPoint /\ value[s][all[j].at] \in Int
  <2>1. PICK e \in 1..n : all[j] = new[e]
    BY <1>13
  <2>2. new[e] = [mode |-> mode, source |-> entries[e].source, print |-> Fingerprint[s],
                  under |-> s, at |-> ends[e]]
    BY <1>5
  <2>3. ends[e] \in CampaignPoint /\ value[s][ends[e]] # None
    BY <1>5
  <2>4. value[s][ends[e]] \in Int
    BY <1>1, <2>3 DEF CampaignsSound
  <2> QED
    BY <2>1, <2>2, <2>3, <2>4
<1>15. /\ best \in (Len(old) + 1)..Len(all)
       /\ \A j \in (Len(old) + 1)..Len(all) : value[s][all[best].at] <= value[s][all[j].at]
  <2>1. PICK lo : lo = Len(old) + 1
    OBVIOUS
  <2>2. PICK hi : hi = Len(all)
    OBVIOUS
  <2>3. lo \in Nat /\ hi \in Nat /\ lo <= hi
    BY <1>3, <1>9, <2>1, <2>2
  <2>4. PICK f : f = [j \in lo..hi |-> value[s][all[j].at]]
    OBVIOUS
  <2>5. \A j \in lo..hi : f[j] = value[s][all[j].at] /\ f[j] \in Int
    BY <1>14, <2>1, <2>2, <2>4
  <2>6. \E i \in lo..hi : \A j \in lo..hi : f[i] < f[j] \/ (f[i] = f[j] /\ i <= j)
    BY <2>3, <2>5, FirstLeast
  <2>7. best = CHOOSE i \in lo..hi : \A j \in lo..hi :
                 \/ value[s][all[i].at] < value[s][all[j].at]
                 \/ value[s][all[i].at] = value[s][all[j].at] /\ i <= j
    BY <1>10, <2>1, <2>2 DEF C!Best
  <2>8. \E i \in lo..hi : \A j \in lo..hi :
           \/ value[s][all[i].at] < value[s][all[j].at]
           \/ value[s][all[i].at] = value[s][all[j].at] /\ i <= j
    BY <2>5, <2>6
  <2>9. best \in lo..hi /\ \A j \in lo..hi :
           \/ value[s][all[best].at] < value[s][all[j].at]
           \/ value[s][all[best].at] = value[s][all[j].at] /\ best <= j
    BY <2>7, <2>8
  <2>10. \A j \in lo..hi : value[s][all[best].at] <= value[s][all[j].at]
    BY <1>14, <2>1, <2>2, <2>9
  <2> QED
    BY <2>1, <2>2, <2>9, <2>10
<1>16. t \in CampaignRecord
  <2>1. best \in Nat /\ Len(old) + 1 \in Nat /\ camp.stages + n \in Nat
    BY <1>1, <1>3, <1>9, <1>15 DEF CampaignRecord
  <2>2. /\ camp.status \in CampaignStatus \cup {None} /\ camp.checked \in Checked \cup {None}
        /\ systems \in SUBSET Param
    BY <1>1 DEF CampaignRecord
  <2>3. PICK ran : ran = camp.stages + n
    OBVIOUS
  <2>4. PICK first : first = Len(old) + 1
    OBVIOUS
  <2>5. t = [status |-> camp.status, systems |-> systems, results |-> all, stages |-> ran,
             selected |-> best, first |-> first, checked |-> camp.checked]
    BY <1>12, <2>3, <2>4
  <2>6. /\ all \in Seq(CampaignResult) /\ best \in Nat /\ first \in Nat /\ ran \in Nat
    BY <1>9, <2>1, <2>3, <2>4
  <2>7. PICK status \in CampaignStatus \cup {None} : status = camp.status
    BY <2>2
  <2>8. PICK checked \in Checked \cup {None} : checked = camp.checked
    BY <2>2
  <2>9. [status |-> status, systems |-> systems, results |-> all, stages |-> ran,
         selected |-> best, first |-> first, checked |-> checked] \in CampaignRecord
    BY <2>2, <2>6, TypedCampaign
  <2> QED
    BY <2>5, <2>7, <2>8, <2>9
<1>17. \A i \in 1..Len(all) : ResultGood(all, i, systems)
  <2>1. ASSUME NEW i \in 1..Len(all), i <= Len(old)
        PROVE  ResultGood(all, i, systems)
    <3>1. i \in 1..Len(old) /\ all[i] = old[i]
      BY <1>3, <1>9, <2>1
    <3>2. ResultGood(old, i, camp.systems)
      <4>1. \A m \in 1..Len(camp.results) : ResultGood(camp.results, m, camp.systems)
        BY DEF CampaignInv, CampaignGood
      <4> QED
        BY <1>2, <3>1, <4>1
    <3>3. old[i].source \in Nat /\ old[i].source < i
      <4>1. old[i] \in CampaignResult
        BY <1>3, <3>1
      <4> QED
        BY <3>2, <4>1 DEF ResultGood, CampaignResult
    <3>4. old[i].source # 0 => all[old[i].source] = old[old[i].source]
      BY <1>3, <1>9, <3>1, <3>3
    <3> QED
      BY <3>1, <3>2, <3>4 DEF ResultGood
  <2>2. ASSUME NEW i \in 1..Len(all), ~(i <= Len(old))
        PROVE  ResultGood(all, i, systems)
    <3>1. i \in (Len(old) + 1)..Len(all)
      BY <1>3, <1>9, <2>2
    <3>2. PICK e \in 1..n : e = i - Len(old)
      BY <1>13, <3>1
    <3>3. all[i] = [mode |-> mode, source |-> entries[e].source, print |-> Fingerprint[s],
                    under |-> s, at |-> ends[e]]
      BY <1>5, <1>13, <3>1, <3>2
    <3>4. /\ all[i].mode = mode /\ all[i].source = entries[e].source /\ all[i].print = Fingerprint[s]
          /\ all[i].under = s /\ all[i].at = ends[e]
      BY <3>3
    <3>5. entries[e].source \in 0..Len(old) /\ value[s][ends[e]] # None
      BY <1>5
    <3>6. entries[e].source < i
      BY <1>3, <3>1, <3>5
    <3>7. entries[e].source # 0 => all[entries[e].source] = old[entries[e].source]
      BY <1>3, <1>9, <3>5
    <3>8. mode # "continue" =>
            s = IF entries[e].source = 0 THEN C!Base ELSE all[entries[e].source].under
      BY <1>2, <3>7
    <3> QED
      BY <3>4, <3>5, <3>6, <3>8 DEF ResultGood
  <2> QED
    BY <2>1, <2>2
<1>18. SelectedGood(t)
  <2>1. t.results = all /\ t.selected = best /\ t.first = Len(old) + 1
    BY <1>12
  <2>2. all[best].under = s
    BY <1>14, <1>15
  <2> QED
    BY <1>15, <2>1, <2>2 DEF SelectedGood
<1>19. CheckedGood(t)
  <2>1. camp.checked # None => /\ camp.checked.stage \in 1..Len(old)
                               /\ camp.checked.under = old[camp.checked.stage].under
    BY <1>2 DEF CampaignInv, CampaignGood, CheckedGood
  <2>2. \A i \in 1..Len(old) : i \in 1..Len(all) /\ all[i] = old[i]
    BY <1>3, <1>9
  <2> QED
    BY <1>12, <2>1, <2>2 DEF CheckedGood
<1>20. C!Base \in t.systems
  BY <1>12 DEF CampaignInv, CampaignGood
<1> QED
  BY <1>12, <1>16, <1>17, <1>18, <1>19, <1>20 DEF CampaignGood

\* The end of a mode in the system of its sources: nothing, or its results.
LEMMA RunGood ==
  ASSUME CampaignsSound, CampaignInv, NEW u \in camp.systems, NEW n \in Nat \ {0},
         NEW entries \in [1..n -> EntryRecord], NEW mode \in CampaignModes, NEW parallel \in BOOLEAN,
         \A i \in 1..n :
           u = IF entries[i].source = 0 THEN C!Base ELSE camp.results[entries[i].source].under,
         C!Run(mode, entries, Fingerprint[u], parallel)
  PROVE  CampaignInv'
<1>1. /\ camp \in CampaignRecord /\ camp.systems \subseteq Param /\ camp.stages \in Nat
      /\ camp.status \in CampaignStatus \cup {None} /\ CampaignGood(camp)
  BY DEF CampaignInv, CampaignGood, CampaignRecord
<1>2. PICK s : s = C!Worker(Fingerprint[u], parallel)
  OBVIOUS
<1>3. DOMAIN entries = 1..n /\ Len(entries) = n
  <2>1. entries \in Seq(EntryRecord) /\ DOMAIN entries = 1..n
    BY SeqDef
  <2> QED
    BY <2>1, LenProperties
<1>4. PICK ended : ended = [camp EXCEPT !.stages = @ + n]
  OBVIOUS
<1>5. /\ value' = value /\ factory' = factory /\ s # None
      /\ \/ camp' = [ended EXCEPT !.status = "failed"]
         \/ camp' = [ended EXCEPT !.status = "interrupted"]
         \/ /\ \A i \in 1..n : C!Runs(entries[i], Fingerprint[u], s)
            /\ \E ends \in [1..n -> C!Finite(s)] :
                  camp' = C!Retained(mode, entries, Fingerprint[u], s, ends)
  BY <1>2, <1>3, <1>4 DEF C!Run
<1>6. PICK t : t = camp'
  OBVIOUS
<1>7. ASSUME NEW status \in {"failed", "interrupted"}, camp' = [ended EXCEPT !.status = status]
      PROVE  CampaignGood(t)
  <2>1. PICK stages \in Nat : stages = camp.stages + n
    BY <1>1
  <2>2. t = [camp EXCEPT !.status = status, !.stages = stages, !.systems = camp.systems]
    BY <1>1, <1>4, <1>6, <1>7, <2>1 DEF CampaignRecord
  <2>3. status \in CampaignStatus \cup {None}
    BY DEF CampaignStatus
  <2> QED
    BY <1>1, <2>2, <2>3, OnlyMore
<1>8. ASSUME \A i \in 1..n : C!Runs(entries[i], Fingerprint[u], s),
             NEW ends \in [1..n -> C!Finite(s)],
             camp' = C!Retained(mode, entries, Fingerprint[u], s, ends)
      PROVE  CampaignGood(t)
  <2>1. Fingerprint[s] = Fingerprint[u]
    <3>1. 1 \in 1..n
      OBVIOUS
    <3> QED
      BY <1>8, <3>1 DEF C!Runs
  <2>2. s = u
    <3>1. factory \in Param \cup {None}
      BY DEF CampaignInv
    <3> QED
      BY <1>1, <1>2, <1>5, <2>1, <3>1, RegisteredSystem
  <2>3. PICK r : r = C!Retained(mode, entries, Fingerprint[s], s, ends)
    OBVIOUS
  <2>4. r.systems = camp.systems /\ r = [r EXCEPT !.systems = camp.systems]
    <3>1. PICK results : results = camp.results \o
            [i \in DOMAIN entries |-> C!Candidate(mode, entries[i], Fingerprint[s], s, ends[i])]
      OBVIOUS
    <3>2. PICK best : best = C!Best(results, Len(camp.results) + 1, s)
      OBVIOUS
    <3>3. PICK first : first = Len(camp.results) + 1
      OBVIOUS
    <3>4. PICK ran : ran = camp.stages + Len(entries)
      OBVIOUS
    <3>5. r = [camp EXCEPT !.results = results, !.stages = ran, !.first = first, !.selected = best]
      BY <2>3, <3>1, <3>2, <3>3, <3>4 DEF C!Retained
    <3>6. r = [status |-> camp.status, systems |-> camp.systems, results |-> results,
               stages |-> ran, selected |-> best, first |-> first, checked |-> camp.checked]
      BY <1>1, <3>5 DEF CampaignRecord
    <3> QED
      BY <3>6
  <2>5. t = [r EXCEPT !.systems = camp.systems]
    BY <1>6, <1>8, <2>2, <2>3, <2>4
  <2>6. \A i \in 1..n :
           s = IF entries[i].source = 0 THEN C!Base ELSE camp.results[entries[i].source].under
    BY <2>2
  <2>7. t = [C!Retained(mode, entries, Fingerprint[s], s, ends) EXCEPT !.systems = camp.systems]
    BY <2>3, <2>5
  <2> QED
    BY <1>1, <2>2, <2>6, <2>7, RetainedGood
<1>9. CampaignGood(t)
  BY <1>5, <1>7, <1>8
<1> QED
  BY <1>5, <1>6, <1>9 DEF CampaignInv, CampaignGood, SelectedGood, ResultGood

\* The result a stage index names: its system is registered and its point is one.
LEMMA StageResult ==
  ASSUME CampaignsSound, CampaignInv, NEW i \in DOMAIN camp.results
  PROVE  /\ i \in 1..Len(camp.results) /\ i \in Nat \ {0}
         /\ camp.results[i].at \in CampaignPoint
         /\ camp.results[i].under \in camp.systems
         /\ camp.results[i].print = Fingerprint[camp.results[i].under]
         /\ C!Entry(camp.results[i].at, i) \in EntryRecord
         /\ \A p \in CampaignPoint : C!Entry(p, i) \in EntryRecord
         /\ \A p \in CampaignPoint : C!Entry(p, i).source = i
<1>1. PICK old : old = camp.results
  OBVIOUS
<1>2. old \in Seq(CampaignResult) /\ \A m \in 1..Len(old) : ResultGood(old, m, camp.systems)
  BY <1>1 DEF CampaignInv, CampaignGood, CampaignRecord
<1>3. i \in 1..Len(old) /\ Len(old) \in Nat
  BY <1>1, <1>2
<1>4. old[i] \in CampaignResult
  BY <1>2, <1>3
<1>5. old[i].at \in CampaignPoint /\ old[i].under \in camp.systems
      /\ old[i].print = Fingerprint[old[i].under]
  BY <1>2, <1>3, <1>4 DEF ResultGood, CampaignResult
<1>6. i \in Nat \ {0} /\ i \in 0..Len(old)
  BY <1>3
<1>7. \A p \in CampaignPoint : C!Entry(p, i) \in EntryRecord /\ C!Entry(p, i).source = i
  BY <1>1, <1>6 DEF C!Entry, EntryRecord
<1> QED
  BY <1>1, <1>3, <1>5, <1>6, <1>7

\* The modes that give every entry the system of its source.
LEMMA ScoutGood ==
  ASSUME CampaignsSound, CampaignInv, C!Scout
  PROVE  CampaignInv'
<1>1. PICK guesses \in [1..1 -> CampaignPoint] \cup [1..2 -> CampaignPoint], parallel \in BOOLEAN :
         C!Run("scout", [i \in DOMAIN guesses |-> C!Entry(guesses[i], 0)], Fingerprint[C!Base], parallel)
  BY DEF C!Scout
<1>2. PICK n \in Nat \ {0} : guesses \in [1..n -> CampaignPoint]
  BY 1 \in Nat \ {0}, 2 \in Nat \ {0}
<1>3. PICK entries : entries = [i \in 1..n |-> C!Entry(guesses[i], 0)]
  OBVIOUS
<1>4. C!Run("scout", entries, Fingerprint[C!Base], parallel)
  <2>1. DOMAIN guesses = 1..n
    BY <1>2
  <2> QED
    BY <1>1, <1>3, <2>1
<1>5. Len(camp.results) \in Nat /\ C!Base \in camp.systems
  BY DEF CampaignInv, CampaignGood, CampaignRecord
<1>6. ASSUME NEW i \in 1..n
      PROVE  entries[i] \in EntryRecord /\ entries[i].source = 0
  <2>1. entries[i] = [start |-> guesses[i], source |-> 0] /\ guesses[i] \in CampaignPoint
    BY <1>2, <1>3 DEF C!Entry
  <2>2. 0 \in 0..Len(camp.results)
    BY <1>5
  <2> QED
    BY <2>1, <2>2 DEF EntryRecord
<1>7. entries \in [1..n -> EntryRecord]
  BY <1>3, <1>6
<1>8. PICK mode \in CampaignModes : mode = "scout"
  BY DEF CampaignModes
<1> QED
  BY <1>4, <1>5, <1>6, <1>7, <1>8, RunGood

\* A mode whose entries all come from one result runs in its system.
LEMMA OneSourceGood ==
  ASSUME CampaignsSound, CampaignInv, NEW i \in DOMAIN camp.results, NEW mode \in CampaignModes,
         NEW parallel \in BOOLEAN, NEW n \in Nat \ {0}, NEW starts \in [1..n -> CampaignPoint],
         NEW entries, entries = [k \in 1..n |-> C!Entry(starts[k], i)],
         C!Run(mode, entries, camp.results[i].print, parallel)
  PROVE  CampaignInv'
<1>1. PICK u \in camp.systems : u = camp.results[i].under
  BY StageResult
<1>2. C!Run(mode, entries, Fingerprint[u], parallel)
  BY <1>1, StageResult
<1>3. ASSUME NEW k \in 1..n
      PROVE  /\ entries[k] \in EntryRecord
             /\ u = IF entries[k].source = 0 THEN C!Base ELSE camp.results[entries[k].source].under
  <2>1. entries[k] = C!Entry(starts[k], i) /\ starts[k] \in CampaignPoint
    OBVIOUS
  <2>2. entries[k] \in EntryRecord /\ entries[k].source = i /\ i # 0
    BY <2>1, StageResult
  <2> QED
    BY <1>1, <2>2
<1>4. entries \in [1..n -> EntryRecord]
  BY <1>3
<1> QED
  BY <1>2, <1>3, <1>4, RunGood

\* A refinement and a challenge take their one source.
LEMMA RefineGood ==
  ASSUME CampaignsSound, CampaignInv, C!Refine \/ C!Challenge
  PROVE  CampaignInv'
<1>1. CASE C!Refine
  <2>1. PICK no \in BOOLEAN : no = FALSE
    OBVIOUS
  <2>2. PICK i \in DOMAIN camp.results :
          C!Run("refine", <<C!Entry(camp.results[i].at, i)>>, camp.results[i].print, no)
    BY <1>1, <2>1 DEF C!Refine, C!Stages
  <2>3. PICK p \in CampaignPoint : p = camp.results[i].at
    BY StageResult
  <2>4. PICK starts : starts = [k \in 1..1 |-> p]
    OBVIOUS
  <2>5. PICK entries : entries = [k \in 1..1 |-> C!Entry(starts[k], i)]
    OBVIOUS
  <2>6. entries = <<C!Entry(camp.results[i].at, i)>>
    <3>1. PICK e : e = C!Entry(p, i)
      OBVIOUS
    <3>2. entries = [k \in 1..1 |-> e]
      BY <2>4, <2>5, <3>1
    <3>3. [k \in 1..1 |-> e] = <<e>>
      OBVIOUS
    <3> QED
      BY <2>3, <3>1, <3>2, <3>3
  <2>7. PICK mode \in CampaignModes : mode = "refine"
    BY DEF CampaignModes
  <2>8. PICK n \in Nat \ {0} : n = 1
    OBVIOUS
  <2>9. /\ starts \in [1..n -> CampaignPoint] /\ entries = [k \in 1..n |-> C!Entry(starts[k], i)]
        /\ C!Run(mode, entries, camp.results[i].print, no)
    BY <2>2, <2>4, <2>5, <2>6, <2>7, <2>8
  <2> QED
    BY <2>9, OneSourceGood
<1>2. CASE C!Challenge
  <2>1. PICK i \in DOMAIN camp.results, variant \in CampaignPoint, parallel \in BOOLEAN :
          C!Run("challenge", <<C!Entry(camp.results[i].at, i), C!Entry(variant, i)>>,
                camp.results[i].print, parallel)
    BY <1>2 DEF C!Challenge, C!Stages
  <2>2. PICK p \in CampaignPoint : p = camp.results[i].at
    BY StageResult
  <2>3. PICK starts : starts = [k \in 1..2 |-> IF k = 1 THEN p ELSE variant]
    OBVIOUS
  <2>4. PICK entries : entries = [k \in 1..2 |-> C!Entry(starts[k], i)]
    OBVIOUS
  <2>5. entries = <<C!Entry(camp.results[i].at, i), C!Entry(variant, i)>>
    <3>1. PICK e : e = C!Entry(p, i)
      OBVIOUS
    <3>2. PICK f : f = C!Entry(variant, i)
      OBVIOUS
    <3>3. entries = [k \in 1..2 |-> IF k = 1 THEN e ELSE f]
      <4>1. \A k \in 1..2 : C!Entry(starts[k], i) = IF k = 1 THEN e ELSE f
        BY <2>3, <3>1, <3>2
      <4> QED
        BY <2>4, <4>1
    <3>4. [k \in 1..2 |-> IF k = 1 THEN e ELSE f] = <<e, f>>
      OBVIOUS
    <3> QED
      BY <2>2, <3>1, <3>2, <3>3, <3>4
  <2>6. PICK mode \in CampaignModes : mode = "challenge"
    BY DEF CampaignModes
  <2>7. PICK n \in Nat \ {0} : n = 2
    OBVIOUS
  <2>8. starts \in [1..n -> CampaignPoint]
    BY <2>3, <2>7
  <2>9. /\ entries = [k \in 1..n |-> C!Entry(starts[k], i)]
        /\ C!Run(mode, entries, camp.results[i].print, parallel)
    BY <2>1, <2>4, <2>5, <2>6, <2>7
  <2> QED
    BY <2>8, <2>9, OneSourceGood
<1> QED
  BY <1>1, <1>2

\* A portfolio runs every source with every method; the sources share their system.
LEMMA PortfolioGood ==
  ASSUME CampaignsSound, CampaignInv, C!Portfolio
  PROVE  CampaignInv'
<1>1. PICK sources \in [1..1 -> C!Stages] \cup [1..2 -> C!Stages], methods \in 1..2,
           parallel \in BOOLEAN :
        /\ \A i \in DOMAIN sources : camp.results[sources[i]].print = camp.results[sources[1]].print
        /\ C!Run("portfolio",
                 [k \in 1..(Len(sources) * methods) |->
                    LET i == sources[((k - 1) \div methods) + 1] IN C!Entry(camp.results[i].at, i)],
                 camp.results[sources[1]].print, parallel)
  BY DEF C!Portfolio
<1>2. PICK m \in 1..2 : sources \in [1..m -> DOMAIN camp.results]
  BY 1 \in 1..2, 2 \in 1..2 DEF C!Stages
<1>3. Len(sources) = m /\ DOMAIN sources = 1..m /\ 1 \in 1..m
  <2>1. sources \in Seq(DOMAIN camp.results) /\ DOMAIN sources = 1..m
    BY <1>2, SeqDef
  <2> QED
    BY <2>1, LenProperties
<1>4. PICK n \in Nat \ {0} : n = m * methods
  <2>1. (m = 1 \/ m = 2) /\ (methods = 1 \/ methods = 2)
    BY <1>2
  <2> QED
    BY <2>1
<1>5. \A k \in 1..n : ((k - 1) \div methods) + 1 \in 1..m
  <2>1. (m = 1 \/ m = 2) /\ (methods = 1 \/ methods = 2)
    BY <1>2
  <2>2. CASE methods = 1
    BY <1>4, <2>1, <2>2
  <2>3. CASE methods = 2
    BY <1>4, <2>1, <2>3
  <2> QED
    BY <2>1, <2>2, <2>3
<1>6. PICK of : of = [k \in 1..n |-> sources[((k - 1) \div methods) + 1]]
  OBVIOUS
<1>7. \A k \in 1..n : /\ of[k] \in DOMAIN camp.results
                      /\ \E i \in 1..m : of[k] = sources[i]
  <2>1. ASSUME NEW k \in 1..n
        PROVE  /\ of[k] \in DOMAIN camp.results
               /\ \E i \in 1..m : of[k] = sources[i]
    <3>1. PICK i \in 1..m : i = ((k - 1) \div methods) + 1
      BY <1>5
    <3>2. of[k] = sources[i]
      BY <1>6, <3>1
    <3>3. sources[i] \in DOMAIN camp.results
      BY <1>2
    <3> QED
      BY <3>2, <3>3
  <2> QED
    BY <2>1
<1>8. PICK entries : entries = [k \in 1..n |-> C!Entry(camp.results[of[k]].at, of[k])]
  OBVIOUS
<1>9. entries = [k \in 1..(Len(sources) * methods) |->
                    LET i == sources[((k - 1) \div methods) + 1] IN C!Entry(camp.results[i].at, i)]
  BY <1>3, <1>4, <1>6, <1>8
<1>10. PICK u \in camp.systems : u = camp.results[sources[1]].under
  BY <1>2, <1>3, StageResult
<1>11. C!Run("portfolio", entries, Fingerprint[u], parallel)
  <2>1. camp.results[sources[1]].print = Fingerprint[u]
    BY <1>2, <1>3, <1>10, StageResult
  <2> QED
    BY <1>1, <1>9, <2>1
<1>12. ASSUME NEW k \in 1..n
       PROVE  /\ entries[k] \in EntryRecord
              /\ u = IF entries[k].source = 0 THEN C!Base ELSE camp.results[entries[k].source].under
  <2>1. PICK i \in 1..m : of[k] = sources[i] /\ sources[i] \in DOMAIN camp.results
    BY <1>7
  <2>2. PICK j \in DOMAIN camp.results : j = of[k]
    BY <2>1
  <2>3. camp.results[j].print = camp.results[sources[1]].print
    BY <1>1, <1>3, <2>1, <2>2
  <2>4. /\ camp.results[j].under \in camp.systems
        /\ Fingerprint[camp.results[j].under] = Fingerprint[u]
    <3>1. camp.results[j].print = Fingerprint[camp.results[j].under]
          /\ camp.results[j].under \in camp.systems
      BY <2>2, StageResult
    <3>2. camp.results[sources[1]].print = Fingerprint[u]
      BY <1>2, <1>3, <1>10, StageResult
    <3> QED
      BY <2>3, <3>1, <3>2
  <2>5. camp.systems \subseteq Param
    BY DEF CampaignInv, CampaignGood, CampaignRecord
  <2>6. camp.results[j].under = u
    BY <1>10, <2>4, <2>5 DEF CampaignsSound
  <2>7. PICK p \in CampaignPoint : p = camp.results[j].at
    BY StageResult
  <2>8. entries[k] = C!Entry(p, j)
    BY <1>8, <2>2, <2>7
  <2>9. entries[k] \in EntryRecord /\ entries[k].source = j /\ j # 0
    BY <2>2, <2>7, <2>8, StageResult
  <2> QED
    BY <2>6, <2>9
<1>13. entries \in [1..n -> EntryRecord]
  BY <1>8, <1>12
<1>14. PICK mode \in CampaignModes : mode = "portfolio"
  BY DEF CampaignModes
<1> QED
  BY <1>10, <1>11, <1>12, <1>13, <1>14, RunGood

\* A continuation registers its system, which no other of the campaign shares its
\* fingerprint with.
LEMMA ContinueGood ==
  ASSUME CampaignsSound, CampaignInv, C!ContinueParameter
  PROVE  CampaignInv'
<1>1. /\ camp \in CampaignRecord /\ camp.systems \subseteq Param /\ camp.stages \in Nat
      /\ camp.status \in CampaignStatus \cup {None} /\ CampaignGood(camp) /\ value \in Objectives
  BY DEF CampaignInv, CampaignGood, CampaignRecord
<1>2. PICK i \in DOMAIN camp.results, s \in Param :
        LET entries == <<C!Entry(camp.results[i].at, i)>>
            known == [camp EXCEPT !.systems = C!Registered(s)]
            ended == [known EXCEPT !.stages = @ + 1] IN
        /\ \/ camp.status # None /\ camp' = known
           \/ /\ camp.status = None /\ camp.stages < MaxStages
              /\ \/ camp' = [ended EXCEPT !.status = "failed"]
                 \/ camp' = [ended EXCEPT !.status = "interrupted"]
                 \/ /\ C!Runs(entries[1], Fingerprint[s], s)
                    /\ \E p \in C!Finite(s) :
                          camp' = [C!Retained("continue", entries, Fingerprint[s], s, <<p>>)
                                      EXCEPT !.systems = known.systems]
        /\ UNCHANGED <<value, factory>>
  BY DEF C!ContinueParameter, C!Stages
<1>3. PICK systems : systems = C!Registered(s)
  OBVIOUS
<1>4. camp.systems \subseteq systems /\ systems \subseteq Param /\ s \in systems
  BY <1>1, <1>3 DEF C!Registered, CampaignsSound
<1>5. PICK p0 \in CampaignPoint : p0 = camp.results[i].at
  BY StageResult
<1>6. PICK entry : entry = C!Entry(p0, i)
  OBVIOUS
<1>7. PICK known : known = [camp EXCEPT !.systems = systems]
  OBVIOUS
<1>8. known = [status |-> camp.status, systems |-> systems, results |-> camp.results,
               stages |-> camp.stages, selected |-> camp.selected, first |-> camp.first,
               checked |-> camp.checked]
  BY <1>1, <1>7 DEF CampaignRecord
<1>9. /\ value' = value /\ factory' = factory
      /\ \/ camp' = known
         \/ camp' = [[known EXCEPT !.stages = @ + 1] EXCEPT !.status = "failed"]
         \/ camp' = [[known EXCEPT !.stages = @ + 1] EXCEPT !.status = "interrupted"]
         \/ \E p \in C!Finite(s) :
               camp' = [C!Retained("continue", <<entry>>, Fingerprint[s], s, <<p>>)
                           EXCEPT !.systems = systems]
  BY <1>2, <1>3, <1>5, <1>6, <1>7, <1>8
<1>10. PICK t : t = camp'
  OBVIOUS
<1>11. CASE camp' = known
  <2>2. PICK status \in CampaignStatus \cup {None} : status = camp.status
    BY <1>1
  <2>3. PICK stages \in Nat : stages = camp.stages
    BY <1>1
  <2>4. t = [camp EXCEPT !.status = status, !.stages = stages, !.systems = systems]
    <3>1. PICK e : e = [camp EXCEPT !.status = status, !.stages = stages, !.systems = systems]
      OBVIOUS
    <3>2. e = [status |-> status, systems |-> systems, results |-> camp.results,
               stages |-> stages, selected |-> camp.selected, first |-> camp.first,
               checked |-> camp.checked]
      BY <1>1, <3>1 DEF CampaignRecord
    <3> QED
      BY <1>8, <1>10, <1>11, <2>2, <2>3, <3>1, <3>2
  <2>5. CampaignGood(t)
    BY <1>1, <1>4, <2>4, OnlyMore
  <2> QED
    BY <1>9, <1>10, <2>5 DEF CampaignInv, CampaignGood, SelectedGood, ResultGood
<1>12. CASE \/ camp' = [[known EXCEPT !.stages = @ + 1] EXCEPT !.status = "failed"]
            \/ camp' = [[known EXCEPT !.stages = @ + 1] EXCEPT !.status = "interrupted"]
  <2>1. PICK status \in {"failed", "interrupted"} :
           camp' = [[known EXCEPT !.stages = @ + 1] EXCEPT !.status = status]
    BY <1>12
  <2>2. PICK stages \in Nat : stages = camp.stages + 1
    BY <1>1
  <2>3. t = [status |-> status, systems |-> systems, results |-> camp.results,
             stages |-> stages, selected |-> camp.selected, first |-> camp.first,
             checked |-> camp.checked]
    BY <1>8, <1>10, <2>1, <2>2
  <2>4. t = [camp EXCEPT !.status = status, !.stages = stages, !.systems = systems]
    <3>1. PICK e : e = [camp EXCEPT !.status = status, !.stages = stages, !.systems = systems]
      OBVIOUS
    <3>2. e = [status |-> status, systems |-> systems, results |-> camp.results,
               stages |-> stages, selected |-> camp.selected, first |-> camp.first,
               checked |-> camp.checked]
      BY <1>1, <3>1 DEF CampaignRecord
    <3> QED
      BY <2>3, <3>1, <3>2
  <2>5. status \in CampaignStatus \cup {None}
    BY DEF CampaignStatus
  <2>6. CampaignGood(t)
    BY <1>1, <1>4, <2>4, <2>5, OnlyMore
  <2> QED
    BY <1>9, <1>10, <2>6 DEF CampaignInv, CampaignGood, SelectedGood, ResultGood
<1>13. CASE \E p \in C!Finite(s) :
               camp' = [C!Retained("continue", <<entry>>, Fingerprint[s], s, <<p>>)
                           EXCEPT !.systems = systems]
  <2>1. PICK p \in C!Finite(s) :
               camp' = [C!Retained("continue", <<entry>>, Fingerprint[s], s, <<p>>)
                           EXCEPT !.systems = systems]
    BY <1>13
  <2>2. PICK entries : entries = [k \in 1..1 |-> entry]
    OBVIOUS
  <2>3. PICK ends : ends = [k \in 1..1 |-> p]
    OBVIOUS
  <2>4. entries = <<entry>> /\ ends = <<p>>
    BY <2>2, <2>3
  <2>5. entry \in EntryRecord
    BY <1>6, StageResult
  <2>6. PICK n \in Nat \ {0} : n = 1
    OBVIOUS
  <2>7. entries \in [1..n -> EntryRecord] /\ ends \in [1..n -> C!Finite(s)]
    BY <2>2, <2>3, <2>5, <2>6
  <2>8. PICK mode \in CampaignModes : mode = "continue"
    BY DEF CampaignModes
  <2>9. t = [C!Retained(mode, entries, Fingerprint[s], s, ends) EXCEPT !.systems = systems]
    BY <1>10, <2>1, <2>4, <2>8
  <2>10. CampaignGood(t)
    BY <1>4, <2>7, <2>8, <2>9, RetainedGood
  <2> QED
    BY <1>9, <1>10, <2>10 DEF CampaignInv, CampaignGood, SelectedGood, ResultGood
<1> QED
  BY <1>9, <1>11, <1>12, <1>13

\* A validation measures a candidate under its own system; closing changes the status only.
LEMMA ValidateGood ==
  ASSUME CampaignsSound, CampaignInv, C!Validate \/ C!Close
  PROVE  CampaignInv'
<1>1. /\ camp \in CampaignRecord /\ camp.systems \subseteq Param /\ camp.stages \in Nat
      /\ camp.status \in CampaignStatus \cup {None} /\ CampaignGood(camp)
      /\ factory \in Param \cup {None}
  BY DEF CampaignInv, CampaignGood, CampaignRecord
<1>2. value' = value /\ factory' = factory
  BY DEF C!Validate, C!Close
<1>3. PICK t : t = camp'
  OBVIOUS
<1>4. CASE C!Validate
  <2>1. PICK i \in DOMAIN camp.results :
          camp' = [camp EXCEPT !.checked = [stage |-> i, under |-> C!Resolved(camp.results[i].print)]]
    BY <1>4 DEF C!Validate, C!Stages
  <2>2. PICK u \in camp.systems : u = camp.results[i].under
    BY StageResult
  <2>3. C!Resolved(camp.results[i].print) = u
    BY <1>1, <2>2, StageResult, RegisteredSystem
  <2>4. PICK checked : checked = [stage |-> i, under |-> u]
    OBVIOUS
  <2>5. t = [camp EXCEPT !.checked = checked]
    BY <1>3, <2>1, <2>3, <2>4
  <2>6. t = [status |-> camp.status, systems |-> camp.systems, results |-> camp.results,
             stages |-> camp.stages, selected |-> camp.selected, first |-> camp.first,
             checked |-> checked]
    BY <1>1, <2>5 DEF CampaignRecord
  <2>7. i \in 1..Len(camp.results) /\ i \in Nat
    BY StageResult
  <2>8. checked \in Checked
    BY <1>1, <2>2, <2>4, <2>7 DEF Checked
  <2>9. t \in CampaignRecord
    BY <1>1, <2>6, <2>8 DEF CampaignRecord
  <2>10. CheckedGood(t)
    BY <2>2, <2>4, <2>6, <2>7 DEF CheckedGood
  <2>11. C!Base \in t.systems /\ (\A m \in 1..Len(t.results) : ResultGood(t.results, m, t.systems))
         /\ SelectedGood(t)
    BY <1>1, <2>6 DEF CampaignGood, SelectedGood
  <2>12. CampaignGood(t)
    BY <2>9, <2>10, <2>11 DEF CampaignGood
  <2> QED
    BY <1>2, <1>3, <2>12 DEF CampaignInv, CampaignGood, SelectedGood, ResultGood
<1>5. CASE C!Close
  <2>1. PICK status \in CampaignStatus \cup {None} :
          status = IF camp.status = None THEN "completed" ELSE camp.status
    BY <1>1 DEF CampaignStatus
  <2>2. PICK stages \in Nat : stages = camp.stages
    BY <1>1
  <2>3. t = [camp EXCEPT !.status = status, !.stages = stages, !.systems = camp.systems]
    BY <1>1, <1>3, <1>5, <2>1, <2>2 DEF C!Close, CampaignRecord
  <2>4. CampaignGood(t)
    BY <1>1, <2>3, OnlyMore
  <2> QED
    BY <1>2, <1>3, <2>4 DEF CampaignInv, CampaignGood, SelectedGood, ResultGood
<1> QED
  BY <1>4, <1>5

\* Every step of a campaign keeps the invariant.
LEMMA CampaignStep ==
  ASSUME CampaignsSound, CampaignInv, [C!Next]_(C!cvars)
  PROVE  CampaignInv'
<1>1. CASE UNCHANGED C!cvars
  BY <1>1 DEF C!cvars, CampaignInv, CampaignGood, SelectedGood, ResultGood
<1>2. CASE C!Next
  BY <1>2, ScoutGood, PortfolioGood, RefineGood, ContinueGood, ValidateGood DEF C!Next
<1> QED
  BY <1>1, <1>2

\* A campaign begins with its base system alone.
LEMMA CampaignBegins ==
  ASSUME CampaignsSound, C!Init
  PROVE  CampaignInv
<1>1. C!Base \in Param
  BY DEF CampaignsSound, C!Base
<1>2. PICK none : none = <<>>
  OBVIOUS
<1>3. none \in Seq(CampaignResult) /\ 1..Len(none) = {}
  BY <1>2
<1>4. camp = [status |-> None, systems |-> {C!Base}, results |-> none, stages |-> 0,
              selected |-> 0, first |-> 1, checked |-> None]
  BY <1>2 DEF C!Init
<1>5. camp \in CampaignRecord
  BY <1>1, <1>3, <1>4 DEF CampaignRecord
<1>6. CampaignGood(camp)
  BY <1>2, <1>3, <1>4, <1>5 DEF CampaignGood, SelectedGood, CheckedGood
<1> QED
  BY <1>6 DEF CampaignInv, C!Init

\* The invariant is more than the property.
LEMMA CampaignSays ==
  ASSUME CampaignInv
  PROVE  C!CandidatesKeepTheirSystem
<1>1. camp.results \in Seq(CampaignResult) /\ CampaignGood(camp)
  BY DEF CampaignInv, CampaignGood, CampaignRecord
<1>2. C!Stages = 1..Len(camp.results)
  BY <1>1 DEF C!Stages
<1>3. \A i \in C!Stages : ResultGood(camp.results, i, camp.systems)
  BY <1>1, <1>2 DEF CampaignGood
<1>4. SelectedGood(camp) /\ CheckedGood(camp)
  BY <1>1 DEF CampaignGood
<1> QED
  BY <1>3, <1>4 DEF C!CandidatesKeepTheirSystem, ResultGood, SelectedGood, CheckedGood

\* Candidates are made and validated under the system they declare (campaigns/__init__.py).
LEMMA CampaignsHonest ==
  ASSUME CampaignsSound
  PROVE  C!Spec => []C!CandidatesKeepTheirSystem
<1>1. C!Init => CampaignInv
  BY CampaignBegins
<1>2. CampaignInv /\ [C!Next]_(C!cvars) => CampaignInv'
  BY CampaignStep
<1>3. CampaignInv => C!CandidatesKeepTheirSystem
  BY CampaignSays
<1> QED
  BY <1>1, <1>2, <1>3, PTL DEF C!Spec

-----------------------------------------------------------------------------
(* Population                                                              *)

SearchFields ==
  {"phase", "at", "best", "bar", "stall", "iteration", "maxiter", "global", "mean", "sigma", "generation",
   "usable", "seen", "reason", "requested", "chunks"}

\* What a chunk has seen is evaluated, none of it is better than the best, and nothing but the
\* start was seen while no candidate was usable.
Searched(s) ==
  /\ DOMAIN s = SearchFields /\ s.mean \in Point
  /\ s.at \in s.seen /\ s.best \in s.seen /\ s.seen \subseteq Point
  /\ \A p \in s.seen : value[p] \in Int /\ value[s.best] <= value[p]
  /\ s.usable \/ s.seen = {s.at}

SearchInv ==
  /\ value \in [Point -> Int \cup {None}]
  /\ search.phase # "idle" =>
       /\ Searched(search)
       /\ search.reason = "no_usable_candidates" => search.seen = {search.at}
       /\ search.phase = "loop" => search.reason # "no_usable_candidates"

\* The stopping rules leave what was found as it was.
LEMMA JudgeKeeps ==
  ASSUME PopulationSound, NEW s, Searched(s), s.reason # "no_usable_candidates", NEW t, t = P!Judge(s)
  PROVE  Searched(t) /\ t.reason # "no_usable_candidates" /\ t.phase \in {s.phase, "stopped"}
<1>1. PICK bar, stall : TRUE /\ t \in {[s EXCEPT !.phase = "stopped", !.reason = "target"],
               [[s EXCEPT !.bar = bar, !.stall = stall] EXCEPT !.phase = "stopped", !.reason = "stall"],
               [s EXCEPT !.bar = bar, !.stall = stall]}
  <2>1. PICK bar : bar = IF value[s.at] < s.bar THEN value[s.at] ELSE s.bar
    OBVIOUS
  <2>2. PICK stall : stall = IF value[s.at] < s.bar THEN 0 ELSE s.stall + 1
    OBVIOUS
  <2> QED
    BY <2>1, <2>2 DEF P!Judge
<1>2. /\ DOMAIN t = SearchFields /\ t.at = s.at /\ t.best = s.best /\ t.seen = s.seen
      /\ t.usable = s.usable /\ t.mean = s.mean /\ t.reason \in {s.reason, "target", "stall"}
      /\ t.phase \in {s.phase, "stopped"}
  BY <1>1 DEF Searched, SearchFields
<1> QED
  BY <1>2 DEF Searched

\* A chunk begins at a point that evaluates.
LEMMA SearchBegins ==
  ASSUME PopulationSound, SearchInv, P!StartChunk
  PROVE  SearchInv'
<1>1. PICK p, source, maxiter :
        /\ p \in P!Finite({Clip[q] : q \in IF source # "controls" THEN {search.at} ELSE Point})
        /\ source # "controls" => search.phase = "stopped"
        /\ search' = [phase |-> "loop", at |-> p, best |-> p, bar |-> value[p], stall |-> 0,
                       iteration |-> 0, maxiter |-> maxiter,
                       global |-> IF source = "state" THEN search.global ELSE 0,
                       mean |-> IF source # "controls" /\ search.generation > 0 THEN search.mean ELSE p,
                       sigma |-> IF source # "controls" /\ search.generation > 0 THEN search.sigma ELSE 0,
                       generation |-> IF source # "controls" THEN search.generation ELSE 0,
                       usable |-> FALSE, seen |-> {p}, reason |-> None,
                       requested |-> value[p] <= Target,
                       chunks |-> IF source # "controls" THEN search.chunks + 1 ELSE 1]
  BY Zenon DEF P!StartChunk
<1>2. source # "controls" => search.at \in Point /\ search.mean \in Point
  BY <1>1 DEF SearchInv, Searched
<1>3. p \in Point /\ value[p] \in Int
  BY <1>1, <1>2, ClipAssumption DEF P!Finite, SearchInv
<1>4. /\ DOMAIN search' = SearchFields /\ search'.at = p /\ search'.best = p /\ search'.seen = {p}
      /\ search'.reason = None /\ search'.mean \in Point
  BY <1>1, <1>2, <1>3 DEF SearchFields
<1>5. value' = value
  BY DEF P!StartChunk
<1>6. None # "no_usable_candidates"
  BY DEF PopulationSound, PopulationReasons
<1> QED
  BY <1>3, <1>4, <1>5, <1>6 DEF SearchInv, Searched

\* The end of a chunk adds nothing.
LEMMA SearchEnds ==
  ASSUME PopulationSound, SearchInv, P!Exhausted
  PROVE  SearchInv'
<1>1. search.phase = "loop" /\ value' = value /\ Searched(search)
  BY DEF P!Exhausted, SearchInv
<1>2. PICK r : r = IF search.iteration < search.maxiter THEN "target"
                   ELSE IF search.usable \/ search.maxiter = 0 THEN "maxiter" ELSE "no_usable_candidates"
  OBVIOUS
<1>2a. search' = [search EXCEPT !.phase = "stopped", !.reason = r]
  BY <1>2, Zenon DEF P!Exhausted
<1>3. /\ DOMAIN search' = SearchFields /\ search'.at = search.at /\ search'.best = search.best
      /\ search'.seen = search.seen /\ search'.usable = search.usable
      /\ search'.phase = "stopped" /\ search'.reason = r /\ search'.mean = search.mean
  BY <1>1, <1>2a DEF Searched, SearchFields
<1>4. r = "no_usable_candidates" => search.seen = {search.at}
  BY <1>1, <1>2 DEF Searched
<1> QED
  BY <1>1, <1>3, <1>4 DEF SearchInv, Searched

\* A generation: nothing it evaluates escapes the best point.
LEMMA SearchGenerates ==
  ASSUME PopulationSound, SearchInv, P!Generate
  PROVE  SearchInv'
<1>1. search.phase = "loop" /\ value' = value /\ Searched(search) /\ search.reason # "no_usable_candidates"
  BY DEF P!Generate, SearchInv
<1>2. PICK g \in P!Generations :
        LET ranked == P!Finite({g[i] : i \in 1..PopulationSize})
            next == [P!Drawn EXCEPT !.usable = @ \/ ranked # {}, !.seen = @ \cup ranked]
            rejected == [next EXCEPT !.sigma = P!Shrunk(@)]
        IN  IF ranked = {} THEN search' = P!Judge(rejected)
            ELSE \E best \in {p \in ranked : \A q \in ranked : value[p] <= value[q]} :
                    IF P!Accepts(best)
                    THEN \E mean \in {p \in Point : Clip[p] = p}, sigma \in {search.sigma, P!Shrunk(search.sigma)} :
                            search' = P!Judge(P!Moved(next, best, mean, sigma))
                    ELSE search' = P!Judge(rejected)
  BY DEF P!Generate
<1>3. PICK ranked : ranked = P!Finite({g[i] : i \in 1..PopulationSize})
  OBVIOUS
<1>4. ranked \subseteq Point /\ \A p \in ranked : value[p] \in Int
  <2>1. P!Samples \subseteq Point
    BY <1>1, ClipAssumption DEF P!Samples, Searched
  <2>2. \A i \in 1..PopulationSize : g[i] \in Point
    BY <2>1 DEF P!Generations
  <2> QED
    BY <1>3, <2>2 DEF P!Finite, SearchInv
<1>5. PICK next : next = [P!Drawn EXCEPT !.usable = @ \/ ranked # {}, !.seen = @ \cup ranked]
  OBVIOUS
<1>6. PICK rejected : rejected = [next EXCEPT !.sigma = P!Shrunk(@)]
  OBVIOUS
<1>7. IF ranked = {} THEN search' = P!Judge(rejected)
      ELSE \E best \in {p \in ranked : \A q \in ranked : value[p] <= value[q]} :
              IF P!Accepts(best)
              THEN \E mean \in {p \in Point : Clip[p] = p}, sigma \in {search.sigma, P!Shrunk(search.sigma)} :
                      search' = P!Judge(P!Moved(next, best, mean, sigma))
              ELSE search' = P!Judge(rejected)
  BY <1>2, <1>3, <1>5, <1>6, Zenon
<1>8. /\ DOMAIN next = SearchFields /\ next.at = search.at /\ next.best = search.best
      /\ next.seen = search.seen \cup ranked /\ next.usable = (search.usable \/ ranked # {})
      /\ next.mean = search.mean /\ next.reason = search.reason
      /\ DOMAIN rejected = SearchFields /\ rejected.at = search.at /\ rejected.best = search.best
      /\ rejected.seen = search.seen \cup ranked /\ rejected.usable = (search.usable \/ ranked # {})
      /\ rejected.mean = search.mean /\ rejected.reason = search.reason
  BY <1>1, <1>5, <1>6 DEF P!Drawn, Searched, SearchFields
<1>9. ASSUME NEW s, Searched(s), s.reason = search.reason, search' = P!Judge(s)
      PROVE  SearchInv'
  <2>1. Searched(search') /\ search'.reason # "no_usable_candidates"
    BY <1>1, <1>9, JudgeKeeps
  <2> QED
    BY <1>1, <2>1 DEF SearchInv, Searched
<1>10. /\ search.mean \in Point /\ search.at \in search.seen /\ search.best \in search.seen
       /\ search.seen \subseteq Point /\ value[search.at] \in Int /\ value[search.best] \in Int
       /\ value[search.best] <= value[search.at]
       /\ \A p \in search.seen : value[p] \in Int /\ value[search.best] <= value[p]
       /\ search.usable \/ search.seen = {search.at}
  BY <1>1 DEF Searched
<1>11. CASE ranked = {}
  <2>1. Searched(rejected)
    BY <1>8, <1>10, <1>11 DEF Searched
  <2> QED
    BY <1>7, <1>8, <1>9, <1>11, <2>1
<1>12. ASSUME NEW best \in ranked, \A q \in ranked : value[best] <= value[q],
              ~P!Accepts(best), search' = P!Judge(rejected)
       PROVE  SearchInv'
  <2>1. value[best] > value[search.at]
    BY <1>4, <1>10, <1>12 DEF P!Accepts, PopulationSound
  <2>2. \A q \in ranked : value[search.best] <= value[q]
    BY <1>4, <1>10, <1>12, <2>1
  <2>3. Searched(rejected)
    BY <1>4, <1>8, <1>10, <1>12, <2>2 DEF Searched
  <2> QED
    BY <1>8, <1>9, <1>12, <2>3
<1>13. ASSUME NEW best \in ranked, \A q \in ranked : value[best] <= value[q],
              NEW mean \in Point, NEW sigma, search' = P!Judge(P!Moved(next, best, mean, sigma))
       PROVE  SearchInv'
  <2>1. PICK moved : moved = P!Moved(next, best, mean, sigma)
    OBVIOUS
  <2>2. /\ DOMAIN moved = SearchFields /\ moved.at = best /\ moved.mean = mean
        /\ moved.best = (IF value[best] < value[search.best] THEN best ELSE search.best)
        /\ moved.seen = search.seen \cup ranked /\ moved.usable = next.usable
        /\ moved.reason = search.reason
    BY <1>8, <2>1 DEF P!Moved, SearchFields
  <2>3. \A q \in moved.seen : value[q] \in Int /\ value[moved.best] <= value[q]
    BY <1>4, <1>10, <1>13, <2>2
  <2>4. moved.usable
    BY <1>8, <1>13, <2>2
  <2>5. Searched(moved)
    BY <1>4, <1>10, <1>13, <2>2, <2>3, <2>4 DEF Searched
  <2> QED
    BY <1>9, <1>13, <2>1, <2>2, <2>5
<1>14. CASE ranked # {}
  <2>1. PICK best \in {p \in ranked : \A q \in ranked : value[p] <= value[q]} :
          IF P!Accepts(best)
          THEN \E mean \in {p \in Point : Clip[p] = p}, sigma \in {search.sigma, P!Shrunk(search.sigma)} :
                  search' = P!Judge(P!Moved(next, best, mean, sigma))
          ELSE search' = P!Judge(rejected)
    BY <1>7, <1>14, Zenon
  <2>2. CASE P!Accepts(best)
    <3>1. PICK mean \in Point, sigma \in {search.sigma, P!Shrunk(search.sigma)} : search' = P!Judge(P!Moved(next, best, mean, sigma))
      BY <2>1, <2>2, Zenon
    <3> QED
      BY <1>13, <2>1, <3>1
  <2>3. CASE ~P!Accepts(best)
    BY <1>12, <2>1, <2>3
  <2> QED
    BY <2>2, <2>3
<1> QED
  BY <1>11, <1>14

\* Every sample a chunk of CMA-ES evaluated is no better than the best point it returns, and it
\* calls its candidates unusable only if it has seen nothing but its start (cma_es.py).
LEMMA PopulationHonest ==
  ASSUME PopulationSound
  PROVE  P!Spec => []P!BestOfSamples
<1>1. P!Init => SearchInv
  BY DEF P!Init, SearchInv, PopulationSound
<1>2. SearchInv /\ [P!Next]_(P!pvars) => SearchInv'
  <2>1. SearchInv /\ UNCHANGED P!pvars => SearchInv'
    BY DEF SearchInv, Searched, P!pvars
  <2> QED
    BY <2>1, SearchBegins, SearchGenerates, SearchEnds DEF P!Next
<1>3. SearchInv => P!BestOfSamples
  BY DEF SearchInv, Searched, P!BestOfSamples
<1> QED
  BY <1>1, <1>2, <1>3, PTL DEF P!Spec

-----------------------------------------------------------------------------
(* The run Methods: a behaviour of one part leaves the others alone.       *)

\* The part is chosen once; a step is one of its part.
LEMMA StepOfPart ==
  /\ [Next]_vars => part' = part
  /\ part = "engine" /\ [Next]_vars => [E!Next]_(E!evars)
  /\ part = "population" /\ [Next]_vars => [P!Next]_(P!pvars)
  /\ part = "roots" /\ [Next]_vars => [R!Next]_(R!rvars)
  /\ part = "repairs" /\ [Next]_vars => [X!Next]_(X!xvars)
  /\ part = "branches" /\ [Next]_vars => [B!Next]_<<branch>>
  /\ part = "campaigns" /\ [Next]_vars => [C!Next]_(C!cvars)
  /\ part = "evaluator" /\ [Next]_vars => [E!V!Next]_(E!V!evars)
  BY DEF Next, vars, EngineStep, PopulationStep, RootsStep, BranchesStep, SeedsStep, CampaignsStep,
         TransactionsStep, EvaluatorStep, GridsStep, LayoutsStep, RepairsStep, rest, methodVars,
         engineVars, rootVars, campaignVars, callVars, valueVars, repairVars, E!evars, P!pvars,
         R!rvars, X!xvars, C!cvars, E!V!evars, evaluatorVars

\* A behaviour of the part engine is one of Engine, and the others are of another part.
LEMMA EnginePart ==
  Spec => (E!Spec \/ []~(part = "engine"))
<1> DEFINE Chosen == part = "engine"
<1>1. Init /\ Chosen => E!Init
  BY DEF Init
<1>2. Chosen /\ [Next]_vars => Chosen' /\ [E!Next]_(E!evars)
  BY StepOfPart
<1>3. ~Chosen /\ [Next]_vars => (~Chosen)'
  BY StepOfPart
<1> QED
  BY <1>1, <1>2, <1>3, PTL DEF Spec, E!Spec

\* A behaviour of the part population is one of Population, and the others are of another part.
LEMMA PopulationPart ==
  Spec => (P!Spec \/ []~(part = "population"))
<1> DEFINE Chosen == part = "population"
<1>1. Init /\ Chosen => P!Init
  BY DEF Init
<1>2. Chosen /\ [Next]_vars => Chosen' /\ [P!Next]_(P!pvars)
  BY StepOfPart
<1>3. ~Chosen /\ [Next]_vars => (~Chosen)'
  BY StepOfPart
<1> QED
  BY <1>1, <1>2, <1>3, PTL DEF Spec, P!Spec

\* A behaviour of the part roots is one of Roots, and the others are of another part.
LEMMA RootsPart ==
  Spec => (R!Spec \/ []~(part = "roots"))
<1> DEFINE Chosen == part = "roots"
<1>1. Init /\ Chosen => R!Init
  BY DEF Init
<1>2. Chosen /\ [Next]_vars => Chosen' /\ [R!Next]_(R!rvars)
  BY StepOfPart
<1>3. ~Chosen /\ [Next]_vars => (~Chosen)'
  BY StepOfPart
<1> QED
  BY <1>1, <1>2, <1>3, PTL DEF Spec, R!Spec

\* A behaviour of the part repairs is one of Repairs, and the others are of another part.
LEMMA RepairsPart ==
  Spec => (X!Spec \/ []~(part = "repairs"))
<1> DEFINE Chosen == part = "repairs"
<1>1. Init /\ Chosen => X!Init
  BY DEF Init
<1>2. Chosen /\ [Next]_vars => Chosen' /\ [X!Next]_(X!xvars)
  BY StepOfPart
<1>3. ~Chosen /\ [Next]_vars => (~Chosen)'
  BY StepOfPart
<1> QED
  BY <1>1, <1>2, <1>3, PTL DEF Spec, X!Spec

\* A behaviour of the part branches is one of Branches, and the others are of another part.
LEMMA BranchesPart ==
  Spec => (B!Spec \/ []~(part = "branches"))
<1> DEFINE Chosen == part = "branches"
<1>1. Init /\ Chosen => B!Init
  BY DEF Init
<1>2. Chosen /\ [Next]_vars => Chosen' /\ [B!Next]_<<branch>>
  BY StepOfPart
<1>3. ~Chosen /\ [Next]_vars => (~Chosen)'
  BY StepOfPart
<1> QED
  BY <1>1, <1>2, <1>3, PTL DEF Spec, B!Spec

\* A behaviour of the part campaigns is one of Campaigns, and the others are of another part.
LEMMA CampaignsPart ==
  Spec => (C!Spec \/ []~(part = "campaigns"))
<1> DEFINE Chosen == part = "campaigns"
<1>1. Init /\ Chosen => C!Init
  BY DEF Init
<1>2. Chosen /\ [Next]_vars => Chosen' /\ [C!Next]_(C!cvars)
  BY StepOfPart
<1>3. ~Chosen /\ [Next]_vars => (~Chosen)'
  BY StepOfPart
<1> QED
  BY <1>1, <1>2, <1>3, PTL DEF Spec, C!Spec

\* A behaviour of the part evaluator is one of Evaluator, and the others are of another part.
LEMMA EvaluatorPart ==
  Spec => (E!V!Spec \/ []~(part = "evaluator"))
<1> DEFINE Chosen == part = "evaluator"
<1>1. Init /\ Chosen => E!V!Init
  BY DEF Init
<1>2. Chosen /\ [Next]_vars => Chosen' /\ [E!V!Next]_(E!V!evars)
  BY StepOfPart
<1>3. ~Chosen /\ [Next]_vars => (~Chosen)'
  BY StepOfPart
<1> QED
  BY <1>1, <1>2, <1>3, PTL DEF Spec, E!V!Spec

\* A method remembers the path it took: gradients of exactly the points it left, one point back
\* for conjugacy, pairs of consecutive points, and as many acceptances as moves, whatever failed
\* or was rejected between them (core/engine.py, optimizers/).
THEOREM MethodsMemory ==
  Spec => []MemoryFollowsPath
<1>1. E!Spec => []E!MemoryFollowsPath
  BY E!MemoryFollows, MethodsAssumption, ClipAssumption
<1>2. (E!MemoryFollowsPath => MemoryFollowsPath) /\ (~(part = "engine") => MemoryFollowsPath)
  BY DEF MemoryFollowsPath
<1> QED
  BY <1>1, <1>2, EnginePart, PTL

\* A reported stop is what happened, and no run goes on without an improvement for longer than its
\* patience (core/engine.py, core/stopping.py).
THEOREM MethodsStops ==
  Spec => []StopHonest
<1>1. E!Spec => []E!StopHonest
  BY E!StopsHonestly, MethodsAssumption, ClipAssumption
<1>2. (E!StopHonest => StopHonest) /\ (~(part = "engine") => StopHonest)
  BY DEF StopHonest
<1> QED
  BY <1>1, <1>2, EnginePart, PTL

\* The best point is the best one visited, over chunks continued from the same state, what a guard
\* requires holds where a chunk has moved, and no sample of CMA-ES is better than the best point
\* (core/engine.py, core/guards.py, optimizers/cma_es.py).
THEOREM MethodsBest ==
  Spec => []BestOfVisited
<1>1. E!Spec => [](E!BestOfVisited /\ E!GuardHolds)
  BY E!BestAndGuard, MethodsAssumption, ClipAssumption
<1>2. P!Spec => []P!BestOfSamples
  BY PopulationHonest, MethodsAssumption, ClipAssumption
<1>3. /\ ~(part = "engine") /\ ~(part = "population") => BestOfVisited
      /\ (E!BestOfVisited /\ E!GuardHolds) /\ ~(part = "population") => BestOfVisited
      /\ ~(part = "engine") /\ P!BestOfSamples => BestOfVisited
      /\ (E!BestOfVisited /\ E!GuardHolds) /\ P!BestOfSamples => BestOfVisited
  BY DEF BestOfVisited
<1> QED
  BY <1>1, <1>2, <1>3, EnginePart, PopulationPart, PTL

\* The result of a shooting solve and of a residual repair speak of the candidate they return:
\* the residual is its own, the reason is what ended the run, and it qualifies only if it is
\* verified (shooting/solvers.py, utils/repairs.py).
THEOREM MethodsResults ==
  Spec => []ResultOfItsCandidate
<1>1. R!Spec => []R!ResultOfItsCandidate
  BY RootsHonest, MethodsAssumption
<1>2. X!Spec => []X!RepairHonest
  BY RepairsHonest, MethodsAssumption
<1>3. /\ ~(part = "roots") /\ ~(part = "repairs") => ResultOfItsCandidate
      /\ R!ResultOfItsCandidate /\ ~(part = "repairs") => ResultOfItsCandidate
      /\ ~(part = "roots") /\ X!RepairHonest => ResultOfItsCandidate
      /\ R!ResultOfItsCandidate /\ X!RepairHonest => ResultOfItsCandidate
  BY DEF ResultOfItsCandidate
<1> QED
  BY <1>1, <1>2, <1>3, RootsPart, RepairsPart, PTL

\* Path and attempts of a continuation tell one story: no crossing of the target is passed
\* over, what failed is retried smaller, and a run that stopped at a gate stopped at the first
\* that failed (shooting/continuation.py, continuation.py).
THEOREM MethodsBranches ==
  Spec => []StraightPath
<1>1. B!Spec => []B!StraightPath
  BY BranchesHonest, MethodsAssumption
<1>2. (B!StraightPath => StraightPath) /\ (~(part = "branches") => StraightPath)
  BY DEF StraightPath
<1> QED
  BY <1>1, <1>2, BranchesPart, PTL

\* Candidates of a campaign are made and validated under the system they declare, and the
\* selected one is the best of its mode (campaigns/__init__.py).
THEOREM MethodsCampaigns ==
  Spec => []CandidatesKeepTheirSystem
<1>1. C!Spec => []C!CandidatesKeepTheirSystem
  BY CampaignsHonest, MethodsAssumption
<1>2. /\ C!CandidatesKeepTheirSystem => CandidatesKeepTheirSystem
      /\ ~(part = "campaigns") => CandidatesKeepTheirSystem
  BY DEF CandidatesKeepTheirSystem
<1> QED
  BY <1>1, <1>2, CampaignsPart, PTL

\* Whatever calls filled the stores, and whichever of them failed, every answer is about the
\* candidate asked about, a store holds exactly the answers used last, and the counters are the
\* work of the hooks (core/evaluate.py, core/_cache.py, shooting/evaluator.py).
THEOREM MethodsEvaluators ==
  Spec => []EvaluatorsHonest
<1>1. E!V!Spec => [](E!V!AnswersTheCandidate /\ E!V!StoresAndCounters)
  BY E!EvaluatorHonest, MethodsAssumption, ClipAssumption
<1>2. /\ E!V!AnswersTheCandidate /\ E!V!StoresAndCounters => EvaluatorsHonest
      /\ ~(part = "evaluator") => EvaluatorsHonest
  BY DEF EvaluatorsHonest
<1> QED
  BY <1>1, <1>2, EvaluatorPart, PTL
=============================================================================
