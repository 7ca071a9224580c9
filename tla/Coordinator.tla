---------------------------- MODULE Coordinator ----------------------------
(***************************************************************************)
(* The persistent coordinator: one loop that publishes what the job        *)
(* manager did, takes one request, runs it as a statement, publishes again *)
(* and answers.  The registry in the committed index survives it; the      *)
(* manager, its workers and the reply cache do not.                        *)
(*                                                                         *)
(* Jobs models the manager; here a job only has the status that a client   *)
(* and the registry see, and whether a worker holds it.                    *)
(***************************************************************************)
EXTENDS Naturals, Sequences, FiniteSets, SequencesExt, FiniteSetsExt

CONSTANTS
    Job, None,
    MaxCache,      \* replies kept
    Faults,        \* subset of {"publish", "lost", "crash"}
    MaxRequests, MaxSends       \* bounds of the exploration

Request == 1..MaxRequests
Terminal == {"succeeded", "cancelled", "interrupted"}
Operations == {"submit", "pause", "resume", "cancel", "release", "status"}

VARIABLES
    pc,         \* the loop: "down", "publish", "accept", "run", "apply", "acknowledge", "reply"
    jobs,       \* the manager's records: status, worker, cancel_requested
    registry,   \* the same as last committed
    failing,    \* publication_error
    serving,    \* the request being served
    cache,      \* identities of the requests whose replies are kept, oldest first
    sent,       \* what each request identity was used for, and how often
    told,       \* the last status of each job a client was given
    begun,      \* how often each job was given to a worker
    done,       \* requests executed and not forgotten since
    twice       \* requests executed again all the same

cvars == <<pc, jobs, registry, failing, serving, cache, sent, told, begun, done, twice>>

NewJob == [status |-> "unborn", worker |-> FALSE, cancelling |-> FALSE]
NotSent == [operation |-> None, job |-> None, times |-> 0]

Init ==
    /\ pc = "publish" /\ failing = FALSE /\ serving = None /\ cache = <<>>
    /\ jobs = [j \in Job |-> NewJob] /\ registry = jobs
    /\ sent = [r \in Request |-> NotSent]
    /\ told = [j \in Job |-> None]
    /\ begun = [j \in Job |-> 0]
    /\ done = {} /\ twice = {}

Up == pc # "down"
Goto(from, to) == pc = from /\ pc' = to

---------------------------------------------------------------------------
\* The scheduler thread, at any moment.

Sched(j, from, to, worker) ==
    /\ Up /\ jobs[j].status \in from
    /\ jobs' = [jobs EXCEPT ![j] = [status |-> to, worker |-> worker, cancelling |-> @.cancelling]]
    /\ UNCHANGED <<pc, registry, failing, serving, cache, sent, told, done, twice>>

Begin(j) == Sched(j, {"queued"}, "running", TRUE) /\ begun' = [begun EXCEPT ![j] = @ + 1]
Park(j) == Sched(j, {"pausing"}, "paused", TRUE) /\ UNCHANGED begun
Finish(j) ==
    /\ jobs[j].worker /\ UNCHANGED begun
    /\ \E outcome \in {"succeeded", "interrupted"} \cup (IF jobs[j].cancelling THEN {"cancelled"} ELSE {}) :
          Sched(j, {"running", "pausing", "paused"}, outcome, FALSE)

---------------------------------------------------------------------------
\* The client: a request identity stands for one request, sent again when no
\* answer came.

Sends == FoldSet(LAMBDA r, n : n + sent[r].times, 0, Request)

Send(r, op, j) ==
    /\ Sends < MaxSends
    /\ \A q \in 1..r-1 : sent[q] # NotSent      \* identities are used in order
    /\ sent[r] = NotSent \/ (sent[r].operation = op /\ sent[r].job = j)
    /\ sent' = [sent EXCEPT ![r] = [operation |-> op, job |-> j, times |-> @.times + 1]]
    /\ Goto("accept", "run") /\ serving' = [id |-> r, operation |-> op, job |-> j, fresh |-> TRUE,
                                            seen |-> None]
    /\ UNCHANGED <<jobs, registry, failing, cache, told, begun, done, twice>>

---------------------------------------------------------------------------
\* Publication of the manager's records through a statement of its own.

Publish ==
    /\ \/ Goto("publish", "accept") /\ registry' = jobs /\ failing' = FALSE
       \/ "publish" \in Faults /\ Goto("publish", "accept") /\ failing' = TRUE /\ UNCHANGED registry
    /\ UNCHANGED <<jobs, serving, cache, sent, told, begun, done, twice>>

NoRequest ==
    /\ Goto("accept", "publish")
    /\ UNCHANGED <<jobs, registry, failing, serving, cache, sent, told, begun, done, twice>>

\* A repeated request is answered from the cache; after a failed publication
\* every other one is refused.
Repeated ==
    /\ Goto("run", "reply") /\ serving.id \in ToSet(cache)
    /\ serving' = [serving EXCEPT !.fresh = FALSE]
    /\ UNCHANGED <<jobs, registry, failing, cache, sent, told, begun, done, twice>>

Rejected ==
    /\ Goto("run", "publish") /\ serving.id \notin ToSet(cache) /\ failing
    /\ serving' = None
    /\ UNCHANGED <<jobs, registry, failing, cache, sent, told, begun, done, twice>>

---------------------------------------------------------------------------
(***************************************************************************)
(* One request as a statement: dispatch, the registry with the status each *)
(* action is going to produce, the action, a second publication, the reply. *)
(***************************************************************************)
Allowed(op, job) ==
    \/ op = "submit" /\ job.status = "unborn"
    \/ op = "pause" /\ job.status \notin Terminal \cup {"unborn", "released"} /\ ~job.cancelling
    \/ op = "resume" /\ job.status = "paused" /\ ~job.cancelling
    \/ op = "release" /\ job.status \in Terminal
    \/ op \in {"cancel", "status"} /\ job.status \notin {"unborn", "released"}

\* durable._snapshot: the status an action is going to produce.
PredictedStatus(op, job) ==
    IF op = "submit" THEN "queued"
    ELSE IF op = "release" THEN "released"
    ELSE IF op = "cancel" /\ job.status \notin Terminal /\ ~job.worker THEN "cancelled"
    ELSE IF op = "pause" /\ job.status = "queued" THEN "paused"
    ELSE IF op = "pause" /\ job.status = "running" THEN "pausing"
    ELSE IF op = "resume" THEN (IF job.worker THEN "running" ELSE "queued")
    ELSE job.status
Predicted(op, job) ==
    [status |-> PredictedStatus(op, job), worker |-> job.worker,
     cancelling |-> IF op = "cancel" /\ job.status \notin Terminal THEN TRUE ELSE job.cancelling]

\* _Jobs.commit, on the status the job has by then
Applied(op, job) ==
    IF op = "resume" /\ job.status \in Terminal THEN job ELSE Predicted(op, job)

Run ==
    LET job == jobs[serving.job]
        op == serving.operation
    IN /\ pc = "run" /\ serving.id \notin ToSet(cache) /\ ~failing
       /\ done' = done \cup {serving.id} /\ twice' = twice \cup (done \cap {serving.id})
       /\ \/ /\ ~Allowed(op, job) \/ "publish" \in Faults     \* an error response, or no room for it
             /\ pc' = "acknowledge"
             /\ UNCHANGED <<registry, serving>>
          \/ /\ Allowed(op, job)
             /\ registry' = IF op = "status" THEN registry
                            ELSE [jobs EXCEPT ![serving.job] = Predicted(op, job)]
             /\ serving' = [serving EXCEPT !.seen = job.status]
             /\ pc' = "apply"
       /\ UNCHANGED <<jobs, failing, cache, sent, told, begun>>

Apply ==
    /\ Goto("apply", "acknowledge")
    /\ jobs' = [jobs EXCEPT ![serving.job] = Applied(serving.operation, @)]
    /\ UNCHANGED <<registry, failing, serving, cache, sent, told, begun, done, twice>>

Evicts(c) == IF Len(c) > MaxCache THEN Tail(c) ELSE c
\* The requests that may be forgotten: all but the newest MaxCache.
Forgettable(c) == {c[i] : i \in 1..Len(c) - MaxCache}

\* An error after the statement is answered but not kept.
AcknowledgeUnpublished ==
    /\ Goto("acknowledge", "reply") /\ cache' = Evicts(Append(cache, serving.id))
    /\ done' = done \ Forgettable(Append(cache, serving.id))
    /\ UNCHANGED <<jobs, registry, failing, serving, sent, told, begun, twice>>
Acknowledge ==
    \/ /\ Goto("acknowledge", "reply") /\ registry' = jobs
       /\ cache' = Evicts(Append(cache, serving.id))
       /\ done' = done \ Forgettable(Append(cache, serving.id))
       /\ UNCHANGED <<jobs, failing, serving, sent, told, begun, twice>>
    \/ /\ "publish" \in Faults /\ Goto("acknowledge", "publish") /\ serving' = None
       /\ done' = done \ {serving.id}
       /\ UNCHANGED <<jobs, registry, failing, cache, sent, told, begun, twice>>

\* The reply arrives with the status seen by the statement, or is lost.
Reply ==
    /\ Goto("reply", "publish") /\ serving' = None
    /\ told' = IF serving.fresh /\ serving.seen # None THEN [told EXCEPT ![serving.job] = serving.seen]
               ELSE told
    /\ UNCHANGED <<jobs, registry, failing, cache, sent, begun, done, twice>>

ReplyLost ==
    /\ "lost" \in Faults /\ Goto("reply", "publish") /\ serving' = None
    /\ UNCHANGED <<jobs, registry, failing, cache, sent, told, begun, done, twice>>

---------------------------------------------------------------------------
\* The process ends, its workers with it.  close and a final publication come
\* first if it was asked to, not if it was killed.

Forget == cache' = <<>> /\ done' = {} /\ serving' = None /\ failing' = FALSE

Settled == Terminal \cup {"unborn", "released"}
Closed(job) ==
    IF job.status \in Settled THEN job
    ELSE [status |-> IF job.worker THEN "interrupted" ELSE "cancelled",
          worker |-> FALSE, cancelling |-> TRUE]

Shutdown ==
    /\ Goto("accept", "down") /\ Forget
    /\ jobs' = [j \in Job |-> Closed(jobs[j])]
    /\ registry' = jobs' \/ ("publish" \in Faults /\ UNCHANGED registry)
    /\ UNCHANGED <<sent, told, begun, twice>>

Crash ==
    /\ "crash" \in Faults /\ Up /\ pc' = "down" /\ Forget
    /\ UNCHANGED <<jobs, registry, sent, told, begun, twice>>

\* durable.recover
RecoveredQueued(job) ==
    IF job.status = "running" THEN [job EXCEPT !.status = "queued", !.worker = FALSE] ELSE job
Recovered(job) ==
    IF job.status \in Settled THEN job
    ELSE [job EXCEPT !.status = "interrupted", !.worker = FALSE]

Restart ==
    /\ Goto("down", "publish")
    /\ jobs' = [j \in Job |-> Recovered(registry[j])]
    /\ registry' = jobs'
    /\ UNCHANGED <<failing, serving, cache, sent, told, begun, done, twice>>

Next ==
    \/ \E j \in Job : Begin(j) \/ Park(j) \/ Finish(j)
    \/ \E r \in Request, op \in Operations, j \in Job : Send(r, op, j)
    \/ Publish \/ NoRequest \/ Repeated \/ Rejected
    \/ Run \/ Apply \/ Acknowledge \/ Reply \/ ReplyLost
    \/ Shutdown \/ Crash \/ Restart

CoordinatorSpec == Init /\ [][Next]_cvars

---------------------------------------------------------------------------
Statuses == Terminal \cup {"unborn", "queued", "running", "pausing", "paused", "released"}
JobRecords == [status : Statuses, worker : BOOLEAN, cancelling : BOOLEAN]
Requests == [id : Request, operation : Operations, job : Job, fresh : BOOLEAN, seen : Statuses \cup {None}]
Serving == pc \in {"run", "apply", "acknowledge", "reply"}

\* Every variable the loop and the scheduler share has its type.
TypeOK ==
    /\ pc \in {"down", "publish", "accept", "run", "apply", "acknowledge", "reply"}
    /\ jobs \in [Job -> JobRecords] /\ registry \in [Job -> JobRecords]
    /\ Serving => serving \in Requests
    /\ cache \in Seq(Request)
    /\ told \in [Job -> Statuses \cup {None}]
    /\ begun \in [Job -> Nat]

\* Completion is committed before a client receives it (JOBS.md:190): no crash
\* or restart takes back a terminal status a client was given.
ToldIsDurable ==
    \A j \in Job : told[j] \in Terminal => registry[j].status \in {told[j], "released"}

\* No job is given to a worker twice, whatever the registry predicted, missed or
\* recovered before a restart (JOBS.md:184).
StartedOnce == \A j \in Job : begun[j] <= 1

\* A request sent again runs again only if the coordinator forgot it: a new
\* process, an evicted reply, or a publication that failed after it ran
\* (MCP.md:177).
DuplicatesSuppressed == twice = {}

\* Nothing happens twice: no job starts again, no remembered request runs again.
NothingTwice == StartedOnce /\ DuplicatesSuppressed
=============================================================================
