-------------------------------- MODULE Seeds --------------------------------
(***************************************************************************)
(* Multistart over shooting seeds and its refinement                       *)
(* (shooting/campaigns.py): every seed is solved, qualified roots are      *)
(* deduplicated and ranked, the elite of a first sweep is perturbed and    *)
(* the whole cloud is solved again.                                        *)
(*                                                                         *)
(* What a solve from a candidate returns is a table; solving again from a  *)
(* qualified root returns it (see Roots).  Equivalence of roots is any     *)
(* reflexive, symmetric relation.                                          *)
(***************************************************************************)
EXTENDS Integers, SequencesExt

CONSTANTS
    Seed,
    Solving,        \* tables [to, qualified, metric] of solves and metrics, descent convention
    Same,           \* the equivalences of roots: sets of pairs
    MaxSeeds, Elites, Perturbations

VARIABLES
    problem,        \* the tables in use and whether roots are ranked by a metric
    sweep           \* the sweep in progress, or its result
mvars == <<problem, sweep>>

Init ==
    /\ \E table \in Solving, same \in Same, selects \in BOOLEAN :
          problem = [to |-> table.to, qualified |-> table.qualified, metric |-> table.metric,
                     same |-> same, selects |-> selects]
    /\ sweep = [phase |-> "idle"]

SameRoot(a, b) == a = b \/ <<a, b>> \in problem.same \/ <<b, a>> \in problem.same

---------------------------------------------------------------------------
(* Deduplication and ranking *)

\* A qualified root joins unless it is equivalent to one that did.
Unique(roots) ==
    FoldLeft(LAMBDA kept, root : IF \E i \in DOMAIN kept : SameRoot(root, kept[i]) THEN kept
                                 ELSE Append(kept, root), <<>>, roots)

\* By the declared metric where there is one, else in the order of the seeds.
Ranked(roots) ==
    IF ~problem.selects THEN roots
    ELSE LET Before(i, j) == \/ problem.metric[roots[i]] < problem.metric[roots[j]]
                             \/ problem.metric[roots[i]] = problem.metric[roots[j]] /\ i < j
             order == SetToSortSeq(DOMAIN roots, Before)
         IN  [i \in DOMAIN order |-> roots[order[i]]]

QualifiedOf(solved) == SelectSeq(solved, LAMBDA s : problem.qualified[s])
RootsOf(solved) == LET qualified == QualifiedOf(solved) IN [i \in DOMAIN qualified |-> problem.to[qualified[i]]]

---------------------------------------------------------------------------
(* A sweep: solved holds the seeds already solved, in input order *)

Sweep(seeds, first) ==
    [phase |-> "solving", seeds |-> seeds, solved |-> <<>>, ranked |-> <<>>, unique |-> <<>>,
     first |-> first]

Begin ==
    /\ sweep.phase = "idle"
    /\ \E n \in 1..MaxSeeds : \E seeds \in [1..n -> Seed] : sweep' = Sweep(seeds, <<>>)
    /\ UNCHANGED problem

\* One seed at a time; a start that cannot be evaluated is a result as well, an
\* error of the program ends the sweep without one.
SolveSeed ==
    /\ sweep.phase = "solving" /\ Len(sweep.solved) < Len(sweep.seeds)
    /\ \/ sweep' = [sweep EXCEPT !.solved = SubSeq(sweep.seeds, 1, Len(@) + 1)]
       \/ sweep' = [phase |-> "failed"]
    /\ UNCHANGED problem

\* Workers of their own: results are taken in input order whatever order they end in.
SolveParallel ==
    /\ sweep.phase = "solving" /\ sweep.solved = <<>>
    /\ sweep' = [sweep EXCEPT !.solved = sweep.seeds]
    /\ UNCHANGED problem

Rank ==
    /\ sweep.phase = "solving" /\ sweep.solved = sweep.seeds
    /\ LET unique == Unique(RootsOf(sweep.solved)) IN
       sweep' = [sweep EXCEPT !.phase = "ranked", !.unique = unique, !.ranked = Ranked(unique)]
    /\ UNCHANGED problem

\* The best candidates; where nothing qualified, the ends of the solves that came
\* closest to a root, which may be any of them.
AtMost(n) == IF n < Elites THEN n ELSE Elites
EliteOf ==
    LET n == Len(sweep.solved) IN
    IF sweep.ranked # <<>> THEN {SubSeq(sweep.ranked, 1, AtMost(Len(sweep.ranked)))}
    ELSE {[k \in 1..AtMost(n) |-> problem.to[sweep.solved[order[k]]]] :
              order \in {f \in [1..AtMost(n) -> 1..n] : IsInjective(f)}}

ExpandedAround(elites, cloud) == cloud \o elites
Expanded(elites, cloud) == elites \o cloud

Refine ==
    /\ sweep.phase = "ranked" /\ sweep.first = <<>>
    /\ \E elites \in EliteOf : \E cloud \in [1..(Len(elites) * Perturbations) -> Seed] :
          sweep' = Sweep(Expanded(elites, cloud), sweep.ranked)
    /\ UNCHANGED problem

Next == Begin \/ SolveSeed \/ SolveParallel \/ Rank \/ Refine

Spec == Init /\ [][Next]_mvars

---------------------------------------------------------------------------
\* No two roots reported as unique are equivalent and every qualified root is
\* equivalent to one of them, although the relation need not be transitive; and a
\* refinement ranks nothing above what the first sweep found unless it is at least
\* as good.
RefinementKeepsBest ==
    sweep.phase = "ranked" =>
        /\ \A i, j \in DOMAIN sweep.unique : i # j => ~SameRoot(sweep.unique[i], sweep.unique[j])
        /\ \A root \in ToSet(RootsOf(sweep.seeds)) : \E kept \in ToSet(sweep.unique) : SameRoot(root, kept)
        /\ problem.selects /\ sweep.first # <<>> =>
              /\ sweep.ranked # <<>>
              /\ problem.metric[Head(sweep.ranked)] <= problem.metric[Head(sweep.first)]
=============================================================================
