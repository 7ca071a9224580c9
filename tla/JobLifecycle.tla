---------------------------- MODULE JobLifecycle ----------------------------
(***************************************************************************)
(* What optimizer/jobs promises a client, whatever its threads, files and  *)
(* processes do: every job walks one state machine, a terminal outcome is  *)
(* final, and a worker slot is held from the start of a job to its outcome *)
(* by never more jobs than the configured number of workers.               *)
(***************************************************************************)
EXTENDS Integers, FiniteSets

CONSTANT Job

VARIABLES
  status,  \* what jobs.status reports, "unborn" before the submission is applied
  live,    \* jobs that hold a worker slot
  limit    \* the configured number of workers

vars == <<status, live, limit>>

Outcomes == {"succeeded", "failed", "cancelled", "interrupted"}

\* All of S go from a status of From to one of To, and the others stay.
Move(S, From, To) ==
  /\ \A j \in S : status[j] \in From /\ status'[j] \in To
  /\ \A j \in Job \ S : status'[j] = status[j]
  /\ DOMAIN status' = Job

Init ==
  /\ status = [j \in Job |-> "unborn"] /\ live = {} /\ limit \in Nat \ {0}

\* An acknowledged submission waits, or fails at once without a scheduler.
Submit(j) == Move({j}, {"unborn"}, {"queued", "failed"}) /\ UNCHANGED <<live, limit>>

\* A start takes a slot.
Begin(j) ==
  /\ Move({j}, {"queued"}, {"running"})
  /\ Cardinality(live) < limit /\ live' = live \cup {j} /\ UNCHANGED limit

\* A job without a slot: its start fails, or it is held, put back or cancelled.
Refuse(j) == Move({j}, {"queued"}, {"failed"}) /\ UNCHANGED <<live, limit>>
Hold(j) == Move({j}, {"queued"}, {"paused"}) /\ UNCHANGED <<live, limit>>
PutBack(j) ==
  j \notin live /\ Move({j}, {"paused"}, {"queued", "failed"}) /\ UNCHANGED <<live, limit>>
Withdraw(S) ==
  /\ S # {} /\ S \cap live = {}
  /\ Move(S, {"queued", "paused"}, {"cancelled"}) /\ UNCHANGED <<live, limit>>

\* A job with a slot: asked to pause, parked at a boundary, continued.
Ask(j) == Move({j}, {"running"}, {"pausing"}) /\ UNCHANGED <<live, limit>>
Park(j) == Move({j}, {"pausing"}, {"paused"}) /\ UNCHANGED <<live, limit>>
Continue(j) == j \in live /\ Move({j}, {"paused"}, {"running"}) /\ UNCHANGED <<live, limit>>

\* Slots are given back with the outcomes, and only then.
Settle(S) ==
  /\ S # {} /\ S \subseteq live
  /\ Move(S, {"running", "pausing", "paused"}, Outcomes)
  /\ live' = live \ S /\ UNCHANGED limit

Release(j) == Move({j}, Outcomes, {"released"}) /\ UNCHANGED <<live, limit>>

\* Limits change only while no job is retained.
Relimit ==
  /\ \A j \in Job : status[j] \in {"unborn", "released"}
  /\ limit' \in Nat \ {0} /\ UNCHANGED <<status, live>>

Step ==
  \/ \E j \in Job :
       \/ Submit(j) \/ Begin(j) \/ Refuse(j) \/ Hold(j) \/ PutBack(j)
       \/ Ask(j) \/ Park(j) \/ Continue(j) \/ Release(j)
  \/ \E S \in SUBSET Job : Withdraw(S) \/ Settle(S)

\* Every step of a job changes what the client sees.
Next == (status' # status /\ Step) \/ Relimit

Spec == Init /\ [][Next]_vars
=============================================================================
