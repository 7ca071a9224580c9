------------------------------ MODULE Campaigns ------------------------------
(***************************************************************************)
(* Multi-stage campaigns over one system and its parameter updates         *)
(* (campaigns/__init__.py).  A mode runs its entries in this process or on *)
(* workers, each with a system of its own from the caller's factory, and   *)
(* retains every result or none.                                           *)
(*                                                                         *)
(* A system is its parameter; its fingerprint is what its specification    *)
(* declares.  An optimizer run ends at any point that evaluates.           *)
(***************************************************************************)
EXTENDS Integers, Sequences, SequencesExt

CONSTANTS
    Point, None,
    Param, Fingerprint, \* parameters and the fingerprint of each
    Objectives,     \* the objective of each point under each parameter, descent
                    \* convention; None does not evaluate
    MaxStages       \* stages of a campaign

VARIABLES
    value,          \* the objective in use
    factory,        \* the system the caller's factory makes, None without one
    camp            \* the campaign
cvars == <<value, factory, camp>>

Base == CHOOSE s \in Param : TRUE

\* systems: the registered system of each fingerprint; results: the candidates
\* in the order of their stages; checked: the last validation.
Init ==
    /\ value \in Objectives /\ factory \in Param \cup {None}
    /\ camp = [status |-> None, systems |-> {Base}, results |-> <<>>, stages |-> 0,
               selected |-> 0, first |-> 1, checked |-> None]

Stages == DOMAIN camp.results
Finite(s) == {p \in Point : value[s][p] # None}

\* The registered system of a fingerprint; a later registration replaces it.
Resolved(print) == CHOOSE s \in camp.systems : Fingerprint[s] = print
Registered(s) == {t \in camp.systems : Fingerprint[t] # Fingerprint[s]} \cup {s}

---------------------------------------------------------------------------
(* One mode *)

Entry(p, source) == [start |-> p, source |-> source]

\* The workers take what the factory makes; in this process the candidate's own
\* system runs.  A parallel mode without a factory raises with nothing changed.
Worker(print, parallel) == IF parallel THEN factory ELSE Resolved(print)

\* _execute_stage: the system must be the declared one and its start evaluate.
RunsAny(entry, print, s) == value[s][entry.start] # None
Runs(entry, print, s) == Fingerprint[s] = print /\ value[s][entry.start] # None

Candidate(mode, entry, print, s, p) ==
    [mode |-> mode, source |-> entry.source, print |-> print, under |-> s, at |-> p]

\* The best candidate of a mode; equal ones by stage.
Best(results, first, s) ==
    CHOOSE i \in first..Len(results) :
        \A j \in first..Len(results) :
            \/ value[s][results[i].at] < value[s][results[j].at]
            \/ value[s][results[i].at] = value[s][results[j].at] /\ i <= j

Retained(mode, entries, print, s, ends) ==
    LET results == camp.results \o [i \in DOMAIN entries |-> Candidate(mode, entries[i], print, s, ends[i])] IN
    [camp EXCEPT !.results = results, !.stages = @ + Len(entries), !.first = Len(camp.results) + 1,
                 !.selected = Best(results, Len(camp.results) + 1, s)]

\* _run: a stage that fails ends the campaign and takes the results of the whole
\* mode with it; so does an interrupt.
Run(mode, entries, print, parallel) ==
    LET s == Worker(print, parallel) ended == [camp EXCEPT !.stages = @ + Len(entries)] IN
    /\ camp.status = None /\ s # None /\ camp.stages + Len(entries) <= MaxStages
    /\ \/ camp' = [ended EXCEPT !.status = "failed"]
       \/ camp' = [ended EXCEPT !.status = "interrupted"]
       \/ /\ \A i \in DOMAIN entries : Runs(entries[i], print, s)
          /\ \E ends \in [DOMAIN entries -> Finite(s)] :
                camp' = Retained(mode, entries, print, s, ends)
    /\ UNCHANGED <<value, factory>>

---------------------------------------------------------------------------
(* The modes *)

Scout ==
    \E guesses \in [1..1 -> Point] \cup [1..2 -> Point], parallel \in BOOLEAN :
        Run("scout", [i \in DOMAIN guesses |-> Entry(guesses[i], 0)], Fingerprint[Base], parallel)

\* Every source with every method; the sources share their system.
Portfolio ==
    \E sources \in [1..1 -> Stages] \cup [1..2 -> Stages], methods \in 1..2,
       parallel \in BOOLEAN :
        /\ \A i \in DOMAIN sources : camp.results[sources[i]].print = camp.results[sources[1]].print
        /\ Run("portfolio",
               [k \in 1..(Len(sources) * methods) |->
                    LET i == sources[((k - 1) \div methods) + 1] IN Entry(camp.results[i].at, i)],
               camp.results[sources[1]].print, parallel)

\* Always in this process, from the warm start of the candidate.
Refine ==
    \E i \in Stages : Run("refine", <<Entry(camp.results[i].at, i)>>, camp.results[i].print, FALSE)

\* The candidate itself and perturbed variants of it.
Challenge ==
    \E i \in Stages, variant \in Point, parallel \in BOOLEAN :
        Run("challenge", <<Entry(camp.results[i].at, i), Entry(variant, i)>>, camp.results[i].print, parallel)

\* The updated system is registered before the mode runs, which is before the
\* campaign is found closed.
ContinueParameter ==
    \E i \in Stages, s \in Param :
        LET entries == <<Entry(camp.results[i].at, i)>>
            known == [camp EXCEPT !.systems = Registered(s)]
            ended == [known EXCEPT !.stages = @ + 1] IN
        /\ \/ camp.status # None /\ camp' = known
           \/ /\ camp.status = None /\ camp.stages < MaxStages
              /\ \/ camp' = [ended EXCEPT !.status = "failed"]
                 \/ camp' = [ended EXCEPT !.status = "interrupted"]
                 \/ /\ Runs(entries[1], Fingerprint[s], s)
                    /\ \E p \in Finite(s) :
                          camp' = [Retained("continue", entries, Fingerprint[s], s, <<p>>)
                                      EXCEPT !.systems = known.systems]
        /\ UNCHANGED <<value, factory>>

\* Also on a campaign that is closed.
Validate ==
    /\ \E i \in Stages :
          camp' = [camp EXCEPT !.checked = [stage |-> i, under |-> Resolved(camp.results[i].print)]]
    /\ UNCHANGED <<value, factory>>

\* The first terminal status stays.
Close ==
    /\ camp' = [camp EXCEPT !.status = IF @ = None THEN "completed" ELSE @]
    /\ UNCHANGED <<value, factory>>

Next == Scout \/ Portfolio \/ Refine \/ Challenge \/ ContinueParameter \/ Validate \/ Close

Spec == Init /\ [][Next]_cvars

---------------------------------------------------------------------------
\* Every candidate was made by the system it declares, which is the system of
\* the candidate it came from unless a continuation changed it, whatever the
\* workers' factory makes; validation measures it under that very system
\* (campaigns/__init__.py:389); and no candidate of the last mode is better than
\* the selected one.
CandidatesKeepTheirSystem ==
    /\ \A i \in Stages :
          LET c == camp.results[i] IN
          /\ Fingerprint[c.under] = c.print
          /\ c.source < i
          /\ c.mode # "continue" =>
                c.under = (IF c.source = 0 THEN Base ELSE camp.results[c.source].under)
          /\ value[c.under][c.at] # None
    /\ camp.checked # None => camp.checked.under = camp.results[camp.checked.stage].under
    /\ camp.results # <<>> =>
          /\ camp.selected \in camp.first..Len(camp.results)
          /\ \A j \in camp.first..Len(camp.results) :
                LET best == camp.results[camp.selected] IN
                value[best.under][best.at] <= value[best.under][camp.results[j].at]
=============================================================================
