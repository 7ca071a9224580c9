-------------------------------- MODULE Jobs --------------------------------
(***************************************************************************)
(* The parallel-job manager of optimizer/jobs: one writer client stages    *)
(* runtime actions while a statement runs and applies them after the       *)
(* statement's durable outcome; a scheduler thread polls the worker        *)
(* processes and starts queued jobs; each worker process computes and      *)
(* answers pause, resume and cancel requests through marker files in its   *)
(* private directory.  The client's commit, the scheduler's pass and the   *)
(* workers interleave at the grain the code allows: the first two share    *)
(* one lock, the workers share nothing but files.                          *)
(***************************************************************************)
EXTENDS Integers, Sequences, FiniteSets, FiniteSetsExt

CONSTANTS
  Job,            \* job identities (uuid4 in the code); each is used once
  Shape,          \* kinds of submission: solver and declared reservations
  WorkerBytes,    \* per shape: declared worker memory
  CacheBytes,     \* per shape: frozen input and result kept by the manager
  ScratchBytes,   \* per shape: temporary transport directory
  PausableShape,  \* shapes whose solver supports iteration-boundary pause
  Config,         \* scheduler limits the client may configure
  DefaultConfig,  \* JobsConfig() as the service starts with
  Ops,            \* operations the client uses (bounds a run)
  Returns,        \* how a worker's solver may end (bounds a run)
  Faults,         \* environment faults that may happen (bounds a run)
  MaxStaged       \* operations in one statement (bounds a run)

\* Limits accepted by JobsConfig.__post_init__.
JobsConfig ==
  {c \in [max_workers: Nat \ {0}, memory_bytes: Nat \ {0}, coordinator_bytes: Nat \ {0},
          max_queue: Nat, max_jobs: Nat \ {0}, scratch_bytes: Nat \ {0}] :
     c.coordinator_bytes < c.memory_bytes}

ASSUME JobsAssumption ==
  /\ IsFiniteSet(Job) /\ Shape # {}
  /\ WorkerBytes \in [Shape -> Nat] /\ CacheBytes \in [Shape -> Nat]
  /\ ScratchBytes \in [Shape -> Nat] /\ PausableShape \subseteq Shape
  /\ \A c \in Config : c \in JobsConfig
  /\ DefaultConfig \in Config
  /\ Returns \subseteq {"succeeded", "numerical_failure", "failed", "interrupted", "none"}
  /\ MaxStaged \in Nat \ {0}

Terminal == {"succeeded", "failed", "cancelled", "interrupted"}
Live == {"running", "pausing", "paused"}
\* "unborn" and "released" stand for an identity no _Job object has.
Status == Terminal \cup Live \cup {"queued", "unborn", "released"}

VARIABLES
  config,    \* manager.config
  records,   \* keys of manager.records
  job,       \* the _Job objects, those of staged submissions included
  dir,       \* per job: marker files present in its transport directory
  output,    \* per job: the acceptable outcome in output.json, if any
  worker,    \* per job: where its process is, "none" when no process is alive
  thread,    \* the scheduler thread
  todo,      \* jobs the current scheduler loop has still to visit
  closed,    \* manager._closed
  staged,    \* service._job_actions, in order
  phase,     \* the statement is dispatching operations, or being committed
  step       \* progress inside the staged action now being committed

vars == <<config, records, job, dir, output, worker, thread, todo, closed, staged, phase, step>>
managerVars == <<config, records, closed>>
transportVars == <<dir, output, worker>>
threadVars == <<thread, todo>>
clientVars == <<staged, phase, step>>
-----------------------------------------------------------------------------
(* The job record.                                                         *)

Marker == {"pause", "paused", "resume", "cancel"}
Outcome == {"none", "succeeded", "numerical_failure", "failed", "cancelled", "interrupted"}
Place == {"none", "computing", "snapshot", "parked", "clear_pause", "clear_resume", "done"}

JobRecord ==
  [status: Status, shape: Shape, seq: Nat, process: BOOLEAN, cancel_requested: BOOLEAN,
   cancel_time: {"none", "pending", "expired"}, forced: BOOLEAN,
   error: {"none", "memory", "other"}, result: BOOLEAN, pause_state: BOOLEAN]

\* What dispatch appends to service._job_actions.
Action ==
  [op: {"submit", "cancel", "pause", "resume", "release"}, job: Job]
    \cup [op: {"configure"}, config: JobsConfig] \cup [op: {"shutdown"}]

NewJob(s, n) ==
  [status |-> "queued", shape |-> s, seq |-> n, process |-> FALSE, cancel_requested |-> FALSE,
   cancel_time |-> "none", forced |-> FALSE, error |-> "none", result |-> FALSE,
   pause_state |-> FALSE]

Unborn == [NewJob(CHOOSE s \in Shape : TRUE, 0) EXCEPT !.status = "unborn"]
Gone(r) == [NewJob(r.shape, r.seq) EXCEPT !.status = "released"]

Alive(j) == worker[j] # "none"
\* job.directory is set by _start and cleared by _finish.
HasDirectory(j) == job[j].process /\ job[j].status \in Live

Active == {j \in records : job[j].status \notin Terminal}
Occupied == {j \in records : job[j].status \in Live /\ job[j].process}
Queued == {j \in records : job[j].status = "queued"}
Pending == {staged[i].job : i \in {k \in DOMAIN staged : staged[k].op = "submit"}}
NextSeq == Cardinality({j \in Job : job[j].seq > 0}) + 1

Bytes(per, f, S) == MapThenSumSet(LAMBDA j : per[f[j].shape], S)

\* The manager's condition lock is held by neither the scheduler nor a resume.
LockFree == thread \notin {"polling", "starting"} /\ step \notin {"touched", "unlinked"}
-----------------------------------------------------------------------------
(* Admission, cancellation and the outcome of a finished worker.           *)

\* Slots that CPU and RAM give to running and then, oldest first, queued jobs.
Slots(f, active) ==
  LET occupied == {j \in active : f[j].status \in Live /\ f[j].process}
      Seat(j, acc) ==
        IF acc.slots < config.max_workers /\ WorkerBytes[f[j].shape] <= acc.room
        THEN [slots |-> acc.slots + 1, room |-> acc.room - WorkerBytes[f[j].shape]]
        ELSE acc
      free == [slots |-> Cardinality(occupied),
               room |-> config.memory_bytes - config.coordinator_bytes
                          - Bytes(WorkerBytes, f, occupied)]
  IN  MapThenFoldSet(Seat, free, LAMBDA j : j,
                     LAMBDA S : CHOOSE j \in S : \A k \in S : f[k].seq <= f[j].seq,
                     {j \in active : f[j].status = "queued"}).slots

\* _admit over the retained jobs S, those only staged included.
Admits(f, S) ==
  LET active == {j \in S : f[j].status \notin Terminal}
  IN  /\ Cardinality(S) <= config.max_jobs
      /\ Cardinality(active) - Slots(f, active) <= config.max_queue
      /\ Bytes(CacheBytes, f, S) <= config.coordinator_bytes
      /\ Bytes(ScratchBytes, f, active) <= config.scratch_bytes
      /\ \A j \in active : WorkerBytes[f[j].shape] <= config.memory_bytes - config.coordinator_bytes

\* Mutant of Cancelled: a started job's deadline is never armed.
CancelledUnarmed(r) ==
  IF r.status \in Terminal THEN r
  ELSE IF ~r.process THEN [r EXCEPT !.cancel_requested = TRUE, !.status = "cancelled"]
  ELSE [r EXCEPT !.cancel_requested = TRUE]

\* _cancel: at once without a process, through the worker and a deadline with one.
Cancelled(r) ==
  IF r.status \in Terminal THEN r
  ELSE IF ~r.process THEN [r EXCEPT !.cancel_requested = TRUE, !.status = "cancelled"]
  ELSE [r EXCEPT !.cancel_requested = TRUE,
                 !.cancel_time = IF @ = "none" THEN "pending" ELSE @]

\* Mutant of Finished: a killed worker's complete output is still believed.
FinishedForced(r, o) ==
  [r EXCEPT !.status = IF o = "none" THEN "interrupted"
                       ELSE IF o = "numerical_failure" THEN "failed" ELSE o,
            !.result = o \in {"succeeded", "numerical_failure"}]

\* Mutant of Finished: a missing output is not told from a completed one.
FinishedUnread(r, o) == [r EXCEPT !.status = o, !.result = o = "succeeded"]

\* _finish: the record after its worker's exit, from what output.json holds.
Finished(r, o) ==
  LET trusted == o # "none" /\ ~r.forced
      over == o = "succeeded" /\ r.error = "memory"
      reported == IF o \in {"none", "succeeded", "cancelled"} THEN r.error ELSE "other"
      status == IF ~trusted THEN "interrupted"
                ELSE IF over \/ o = "numerical_failure" THEN "failed" ELSE o
  IN  [r EXCEPT !.status = status,
                !.result = trusted /\ ~over /\ o \in {"succeeded", "numerical_failure"},
                !.error = IF reported = "none" /\ status = "interrupted" THEN "other"
                          ELSE reported]

\* _cancel touches the cancel file of the live jobs S; a failing touch is ignored.
MarkCancel(S) ==
  \E lost \in IF "touch" \in Faults THEN SUBSET S ELSE {{}} :
    dir' = [j \in Job |-> IF j \in S \ lost THEN dir[j] \cup {"cancel"} ELSE dir[j]]

\* Removing the transport directories of the finished jobs S.
ClearTransport(S) ==
  /\ dir' = [j \in Job |-> IF j \in S THEN {} ELSE dir[j]]
  /\ output' = [j \in Job |-> IF j \in S THEN "none" ELSE output[j]]
  /\ worker' = [j \in Job |-> IF j \in S THEN "none" ELSE worker[j]]
-----------------------------------------------------------------------------
(* The client dispatches the operations of one statement.                  *)

Dispatching(op) == op \in Ops /\ phase = "dispatch" /\ LockFree /\ Len(staged) < MaxStaged

DispatchConfigure(c) ==
  /\ Dispatching("configure") /\ records = {} /\ staged = <<>>
  /\ staged' = <<[op |-> "configure", config |-> c]>>
  /\ UNCHANGED <<managerVars, job, transportVars, threadVars, phase, step>>

DispatchSubmit(j, s) ==
  LET born == [job EXCEPT ![j] = NewJob(s, NextSeq)]
  IN  /\ Dispatching("submit") /\ job[j].status = "unborn"
      /\ Admits(born, records \cup Pending \cup {j})
      /\ job' = born
      /\ staged' = Append(staged, [op |-> "submit", job |-> j])
      /\ UNCHANGED <<managerVars, transportVars, threadVars, phase, step>>

\* Mutant of ResumeAcknowledged: pause does not wait for the worker to consume resume.
ResumeIgnored(j) == TRUE
ResumeAcknowledged(j) == "resume" \notin dir[j]

DispatchPause(j) ==
  /\ Dispatching("pause") /\ j \in records
  /\ ~job[j].cancel_requested /\ ResumeAcknowledged(j)
  /\ job[j].shape \in PausableShape /\ job[j].status \notin Terminal
  /\ staged' = Append(staged, [op |-> "pause", job |-> j])
  /\ UNCHANGED <<managerVars, job, transportVars, threadVars, phase, step>>

\* resume(mode="exact"): the same live worker, or a job paused before it started.
DispatchResume(j) ==
  /\ Dispatching("resume") /\ j \in records
  /\ ~job[j].cancel_requested /\ job[j].status = "paused"
  /\ job[j].process => Alive(j)
  /\ staged' = Append(staged, [op |-> "resume", job |-> j])
  /\ UNCHANGED <<managerVars, job, transportVars, threadVars, phase, step>>

\* resume(mode="physical"): a new job k from j's saved boundary; a paused parent is cancelled.
DispatchRestart(j, k) ==
  LET born == [job EXCEPT ![k] = NewJob(job[j].shape, NextSeq)]
      submit == [op |-> "submit", job |-> k]
  IN  /\ Dispatching("restart") /\ j \in records /\ job[k].status = "unborn"
      /\ job[j].status \in Terminal \cup {"paused"} /\ job[j].pause_state
      /\ Admits(born, records \cup Pending \cup {k})
      /\ job' = born
      /\ staged' = staged \o IF job[j].status = "paused"
                             THEN <<[op |-> "cancel", job |-> j], submit>>
                             ELSE <<submit>>
      /\ UNCHANGED <<managerVars, transportVars, threadVars, phase, step>>

DispatchCancel(j) ==
  /\ Dispatching("cancel") /\ j \in records
  /\ staged' = Append(staged, [op |-> "cancel", job |-> j])
  /\ UNCHANGED <<managerVars, job, transportVars, threadVars, phase, step>>

DispatchRelease(j) ==
  /\ Dispatching("release") /\ j \in records /\ job[j].status \in Terminal
  /\ staged' = Append(staged, [op |-> "release", job |-> j])
  /\ UNCHANGED <<managerVars, job, transportVars, threadVars, phase, step>>

DispatchShutdown ==
  /\ Dispatching("shutdown")
  /\ staged' = Append(staged, [op |-> "shutdown"])
  /\ UNCHANGED <<managerVars, job, transportVars, threadVars, phase, step>>

\* The statement's durable outcome is written: its actions will now be applied.
Acknowledge ==
  /\ phase = "dispatch" /\ staged # <<>>
  /\ phase' = "commit"
  /\ UNCHANGED <<managerVars, job, transportVars, threadVars, staged, step>>

\* A later operation of the statement or its publication fails: nothing is applied.
Abandon ==
  /\ phase = "dispatch" /\ staged # <<>>
  /\ staged' = <<>>
  /\ job' = [j \in Job |-> IF j \in Pending THEN Unborn ELSE job[j]]
  /\ UNCHANGED <<managerVars, transportVars, threadVars, phase, step>>
-----------------------------------------------------------------------------
(* commit(actions): staged actions applied one by one; other threads may   *)
(* take the lock between two of them.                                      *)

Committing(op) ==
  /\ phase = "commit" /\ LockFree /\ step = "none"
  /\ staged # <<>> /\ Head(staged).op = op

Advance ==
  /\ staged' = Tail(staged)
  /\ phase' = IF Len(staged) = 1 THEN "dispatch" ELSE "commit"

\* _ensure_thread: a thread that has left its loop but not yet died counts as alive.
EnsureThread ==
  /\ thread' = IF thread = "off" THEN "waiting" ELSE thread
  /\ UNCHANGED todo

\* Starting a new scheduler thread fails.
ThreadRefused == "thread" \in Faults /\ thread = "off" /\ UNCHANGED threadVars

CommitConfigure ==
  /\ Committing("configure") /\ Advance
  /\ config' = Head(staged).config /\ closed' = FALSE
  /\ UNCHANGED <<records, job, transportVars, threadVars, step>>

CommitSubmit ==
  LET j == Head(staged).job
  IN  /\ Committing("submit") /\ Advance
      /\ closed' = FALSE /\ records' = records \cup {j}
      /\ \/ EnsureThread /\ UNCHANGED job
         \/ /\ ThreadRefused
            /\ job' = [job EXCEPT ![j].status = "failed", ![j].error = "other"]
      /\ UNCHANGED <<config, transportVars, step>>

CommitCancel ==
  LET j == Head(staged).job
  IN  /\ Committing("cancel") /\ Advance
      /\ job' = IF j \in records THEN [job EXCEPT ![j] = Cancelled(@)] ELSE job
      /\ MarkCancel({j} \cap {k \in records : HasDirectory(k)})
      /\ UNCHANGED <<managerVars, output, worker, threadVars, step>>

\* Mutant of CommitPause: the status is not read again at commit.
CommitPauseStale ==
  LET j == Head(staged).job
  IN  /\ Committing("pause") /\ Advance
      /\ job' = [job EXCEPT ![j].status = IF @ = "queued" THEN "paused" ELSE "pausing"]
      /\ dir' = IF HasDirectory(j) THEN [dir EXCEPT ![j] = @ \cup {"pause"}] ELSE dir
      /\ UNCHANGED <<managerVars, output, worker, threadVars, step>>

CommitPause ==
  LET j == Head(staged).job
  IN  /\ Committing("pause") /\ Advance
      /\ \/ /\ job[j].status = "running"
            /\ dir' = [dir EXCEPT ![j] = @ \cup {"pause"}]
            /\ job' = [job EXCEPT ![j].status = "pausing"]
         \/ /\ job[j].status = "running" /\ "touch" \in Faults
            /\ job' = [job EXCEPT ![j].error = "other"]
            /\ UNCHANGED dir
         \/ /\ job[j].status # "running"
            /\ job' = [job EXCEPT ![j].status = IF @ = "queued" THEN "paused" ELSE @]
            /\ UNCHANGED dir
      /\ UNCHANGED <<managerVars, output, worker, threadVars, step>>

\* A job without a process goes back to the queue.
CommitResumeQueued ==
  LET j == Head(staged).job
  IN  /\ Committing("resume") /\ ~job[j].process /\ Advance
      /\ \/ EnsureThread /\ job' = [job EXCEPT ![j].status = "queued"]
         \/ ThreadRefused /\ job' = [job EXCEPT ![j].status = "failed", ![j].error = "other"]
      /\ UNCHANGED <<managerVars, transportVars, step>>

\* A live worker: touch resume, unlink paused.json, unlink pause, set the status,
\* all under the lock while the worker watches the same files.
ResumeTouch ==
  LET j == Head(staged).job
  IN  /\ Committing("resume") /\ HasDirectory(j)
      /\ \/ /\ dir' = [dir EXCEPT ![j] = @ \cup {"resume"}]
            /\ step' = "touched"
            /\ UNCHANGED <<job, staged, phase>>
         \/ /\ "touch" \in Faults /\ Advance
            /\ job' = [job EXCEPT ![j].error = "other"]
            /\ UNCHANGED <<dir, step>>
      /\ UNCHANGED <<managerVars, output, worker, threadVars>>

ResumeUnlinkPaused ==
  LET j == Head(staged).job
  IN  /\ step = "touched"
      /\ dir' = [dir EXCEPT ![j] = @ \ {"paused"}]
      /\ step' = "unlinked"
      /\ UNCHANGED <<managerVars, job, output, worker, threadVars, staged, phase>>

ResumeUnlinkPause ==
  LET j == Head(staged).job
  IN  /\ step = "unlinked" /\ Advance
      /\ dir' = [dir EXCEPT ![j] = @ \ {"pause"}]
      /\ job' = [job EXCEPT ![j].status = "running"]
      /\ step' = "none"
      /\ UNCHANGED <<managerVars, output, worker, threadVars>>

\* The paused worker was reaped after dispatch: job.directory is None, the path
\* expression raises, and the rest of the statement's actions are lost.
CommitResumeRaises ==
  LET j == Head(staged).job
  IN  /\ Committing("resume") /\ job[j].process /\ ~HasDirectory(j)
      /\ staged' = <<>> /\ phase' = "dispatch"
      /\ UNCHANGED <<managerVars, job, transportVars, threadVars, step>>

CommitRelease ==
  LET j == Head(staged).job
  IN  /\ Committing("release") /\ Advance
      /\ records' = records \ {j}
      /\ job' = IF j \in records THEN [job EXCEPT ![j] = Gone(@)] ELSE job
      /\ UNCHANGED <<config, closed, transportVars, threadVars, step>>

\* close(): cancel everything, wait with the lock released, then kill what is left.
CloseBegin ==
  /\ Committing("shutdown")
  /\ job' = [j \in Job |-> IF j \in records THEN Cancelled(job[j]) ELSE job[j]]
  /\ MarkCancel({j \in records : HasDirectory(j)})
  /\ step' = "closing"
  /\ UNCHANGED <<managerVars, output, worker, threadVars, staged, phase>>

CloseEnd ==
  /\ step = "closing" /\ LockFree
  /\ \A j \in Occupied : job[j].cancel_time = "expired"
  /\ job' = [j \in Job |-> IF j \in Occupied
                            THEN Finished([job[j] EXCEPT !.forced = TRUE], output[j])
                            ELSE job[j]]
  /\ ClearTransport(Occupied)
  /\ closed' = TRUE /\ step' = "none" /\ Advance
  /\ UNCHANGED <<config, records, threadVars>>
-----------------------------------------------------------------------------
(* The scheduler thread: one pass polls every live worker and then starts  *)
(* queued jobs in submission order, all under the lock.                    *)

\* Mutant of Oldest: the newest first.
Newest(j) == j \in todo /\ \A k \in todo : job[j].seq >= job[k].seq
Oldest(j) == j \in todo /\ \A k \in todo : job[j].seq <= job[k].seq

BeginPass ==
  /\ thread = "waiting" /\ LockFree
  /\ IF closed THEN thread' = "exiting" /\ UNCHANGED todo
               ELSE thread' = "polling" /\ todo' = Occupied
  /\ UNCHANGED <<managerVars, job, transportVars, clientVars>>

Reap(j) ==
  /\ thread = "polling" /\ Oldest(j) /\ ~Alive(j)
  /\ job' = [job EXCEPT ![j] = Finished(@, output[j])]
  /\ ClearTransport({j})
  /\ todo' = todo \ {j}
  /\ UNCHANGED <<managerVars, thread, clientVars>>

\* A polled record: acknowledge a boundary, sample the memory, enforce the deadline.
Inspected(r, reached, readable, over) ==
  LET acked == IF ~reached THEN r
               ELSE IF readable THEN [r EXCEPT !.status = "paused", !.pause_state = TRUE]
               ELSE Cancelled([r EXCEPT !.error = "other"])
      sampled == IF over THEN Cancelled([acked EXCEPT !.error = "memory"]) ELSE acked
  IN  [sampled EXCEPT !.forced = @ \/ sampled.cancel_time = "expired"]

Inspect(j, readable, over) ==
  LET reached == job[j].status = "pausing" /\ "paused" \in dir[j]
      seen == Inspected(job[j], reached, readable, over)
  IN  /\ thread = "polling" /\ Oldest(j) /\ Alive(j)
      /\ ~readable => reached /\ "snapshot" \in Faults
      /\ over => "rss" \in Faults
      /\ job' = [job EXCEPT ![j] = seen]
      /\ MarkCancel(IF over \/ ~readable THEN {j} ELSE {})
      /\ worker' = [worker EXCEPT ![j] = IF seen.cancel_time = "expired" THEN "none" ELSE @]
      /\ todo' = todo \ {j}
      /\ UNCHANGED <<managerVars, output, thread, clientVars>>

PollsDone ==
  /\ thread = "polling" /\ todo = {}
  /\ thread' = "starting" /\ todo' = Queued
  /\ UNCHANGED <<managerVars, job, transportVars, clientVars>>

\* Mutant of Fits: an off-by-one in the worker count.
FitsOneMore(j) ==
  /\ Cardinality(Occupied) <= config.max_workers
  /\ Bytes(WorkerBytes, job, Occupied) + config.coordinator_bytes + WorkerBytes[job[j].shape]
       <= config.memory_bytes
\* Mutant of Fits: the coordinator's own reserve is not counted.
FitsWithoutReserve(j) ==
  /\ Cardinality(Occupied) < config.max_workers
  /\ Bytes(WorkerBytes, job, Occupied) + WorkerBytes[job[j].shape] <= config.memory_bytes
\* Mutant of Fits: a worker that exactly fills the memory is refused.
FitsStrictly(j) ==
  /\ Cardinality(Occupied) < config.max_workers
  /\ Bytes(WorkerBytes, job, Occupied) + config.coordinator_bytes + WorkerBytes[job[j].shape]
       < config.memory_bytes
Fits(j) ==
  /\ Cardinality(Occupied) < config.max_workers
  /\ Bytes(WorkerBytes, job, Occupied) + config.coordinator_bytes + WorkerBytes[job[j].shape]
       <= config.memory_bytes

Start(j) ==
  /\ thread = "starting" /\ Oldest(j) /\ Fits(j)
  /\ todo' = todo \ {j}
  /\ \/ /\ job' = [job EXCEPT ![j].status = "running", ![j].process = TRUE]
        /\ worker' = [worker EXCEPT ![j] = "computing"]
     \/ /\ "start" \in Faults
        /\ job' = [job EXCEPT ![j].status = "failed", ![j].error = "other"]
        /\ UNCHANGED worker
  /\ UNCHANGED <<managerVars, dir, output, thread, clientVars>>

Skip(j) ==
  /\ thread = "starting" /\ Oldest(j) /\ ~Fits(j)
  /\ todo' = todo \ {j}
  /\ UNCHANGED <<managerVars, job, transportVars, thread, clientVars>>

\* Mutant of PassOver: the thread also leaves when every job left is paused.
PassOverPaused == \A j \in Active : job[j].status = "paused"
PassOver == Active = {}

EndPass ==
  /\ thread = "starting" /\ todo = {}
  /\ thread' = IF PassOver THEN "exiting" ELSE "waiting"
  /\ UNCHANGED <<managerVars, job, transportVars, todo, clientVars>>

ThreadDies ==
  /\ thread = "exiting" /\ thread' = "off"
  /\ UNCHANGED <<managerVars, job, transportVars, todo, clientVars>>

\* shutdown_seconds pass since the cancellation of a job that still has a worker.
Deadline(j) ==
  /\ job[j].cancel_time = "pending" /\ job[j].status \in Live
  /\ job' = [job EXCEPT ![j].cancel_time = "expired"]
  /\ UNCHANGED <<managerVars, transportVars, threadVars, clientVars>>
-----------------------------------------------------------------------------
(* A worker process.                                                       *)

WorkerUnchanged == UNCHANGED <<managerVars, job, threadVars, clientVars>>

\* Leaves its computation for the outcome o, written as output.json.
Writes(j, o) ==
  /\ output' = [output EXCEPT ![j] = o]
  /\ worker' = [worker EXCEPT ![j] = "done"]

\* The solver returns or raises; "none" is an output the manager cannot accept.
WorkerOutcome(j, o) ==
  /\ worker[j] = "computing"
  /\ Writes(j, o) /\ UNCHANGED dir /\ WorkerUnchanged

\* A project call, an iteration boundary or the wait loop notices the cancel file.
WorkerCancelled(j) ==
  /\ worker[j] \in {"computing", "parked"} /\ "cancel" \in dir[j]
  /\ Writes(j, "cancelled") /\ UNCHANGED dir /\ WorkerUnchanged

\* An iteration boundary finds the pause file; a cancel file may have appeared since
\* the boundary looked for one.
WorkerBoundary(j) ==
  /\ worker[j] = "computing" /\ "pause" \in dir[j]
  /\ worker' = [worker EXCEPT ![j] = "snapshot"]
  /\ UNCHANGED <<dir, output>> /\ WorkerUnchanged

WorkerSnapshot(j) ==
  /\ worker[j] = "snapshot"
  /\ \/ /\ dir' = [dir EXCEPT ![j] = @ \cup {"paused"}]
        /\ worker' = [worker EXCEPT ![j] = "parked"]
        /\ UNCHANGED output
     \/ "snapshot" \in Faults /\ Writes(j, "failed") /\ UNCHANGED dir
  /\ WorkerUnchanged

\* The wait loop of a parked worker ends.
Released(j) == "pause" \notin dir[j] \/ "resume" \in dir[j]

WorkerUnpark(j) ==
  /\ worker[j] = "parked" /\ Released(j)
  /\ dir' = [dir EXCEPT ![j] = @ \ {"paused"}]
  /\ worker' = [worker EXCEPT ![j] = "clear_pause"]
  /\ UNCHANGED output /\ WorkerUnchanged

WorkerClearPause(j) ==
  /\ worker[j] = "clear_pause"
  /\ dir' = [dir EXCEPT ![j] = @ \ {"pause"}]
  /\ worker' = [worker EXCEPT ![j] = "clear_resume"]
  /\ UNCHANGED output /\ WorkerUnchanged

WorkerClearResume(j) ==
  /\ worker[j] = "clear_resume"
  /\ dir' = [dir EXCEPT ![j] = @ \ {"resume"}]
  /\ worker' = [worker EXCEPT ![j] = "computing"]
  /\ UNCHANGED output /\ WorkerUnchanged

WorkerExit(j) ==
  /\ worker[j] = "done"
  /\ worker' = [worker EXCEPT ![j] = "none"]
  /\ UNCHANGED <<dir, output>> /\ WorkerUnchanged

\* The process dies without completing output.json.
WorkerCrash(j) ==
  /\ "crash" \in Faults /\ Alive(j) /\ worker[j] # "done"
  /\ worker' = [worker EXCEPT ![j] = "none"]
  /\ UNCHANGED <<dir, output>> /\ WorkerUnchanged
-----------------------------------------------------------------------------
Init ==
  /\ config = DefaultConfig /\ records = {} /\ closed = FALSE
  /\ job = [j \in Job |-> Unborn]
  /\ dir = [j \in Job |-> {}]
  /\ output = [j \in Job |-> "none"]
  /\ worker = [j \in Job |-> "none"]
  /\ thread = "off" /\ todo = {}
  /\ staged = <<>> /\ phase = "dispatch" /\ step = "none"

Dispatch ==
  \/ \E c \in Config : DispatchConfigure(c)
  \/ \E j \in Job, s \in Shape : DispatchSubmit(j, s)
  \/ \E j, k \in Job : DispatchRestart(j, k)
  \/ \E j \in Job : \/ DispatchPause(j) \/ DispatchResume(j)
                    \/ DispatchCancel(j) \/ DispatchRelease(j)
  \/ DispatchShutdown

Commit ==
  \/ CommitConfigure \/ CommitSubmit \/ CommitCancel \/ CommitPause
  \/ CommitResumeQueued \/ ResumeTouch \/ ResumeUnlinkPaused \/ ResumeUnlinkPause
  \/ CommitResumeRaises \/ CommitRelease \/ CloseBegin \/ CloseEnd

Scheduler ==
  \/ BeginPass \/ PollsDone \/ EndPass \/ ThreadDies
  \/ \E j \in Job : Reap(j) \/ Start(j) \/ Skip(j)
  \/ \E j \in Job, readable, over \in BOOLEAN : Inspect(j, readable, over)

Worker(j) ==
  \/ \E o \in Returns : WorkerOutcome(j, o)
  \/ WorkerCancelled(j) \/ WorkerBoundary(j) \/ WorkerSnapshot(j) \/ WorkerUnpark(j)
  \/ WorkerClearPause(j) \/ WorkerClearResume(j) \/ WorkerExit(j)

Next ==
  \/ Dispatch \/ Acknowledge \/ Abandon \/ Commit \/ Scheduler
  \/ \E j \in Job : Worker(j) \/ WorkerCrash(j) \/ Deadline(j)

Spec == Init /\ [][Next]_vars

\* The scheduler thread and the clock run.  The client commits what it acknowledged:
\* strongly, because the scheduler sleeps for .1 s with the lock released.  A worker
\* goes on to its next boundary, because its solver has a declared maxiter.
Fairness ==
  /\ WF_vars(Scheduler) /\ SF_vars(Commit)
  /\ \A j \in Job : WF_vars(Deadline(j)) /\ WF_vars(Worker(j))
FairSpec == Spec /\ Fairness
-----------------------------------------------------------------------------
(* Properties.                                                             *)

\* Every variable stays in its type.
TypeOK ==
  /\ config \in JobsConfig /\ records \subseteq Job /\ closed \in BOOLEAN
  /\ job \in [Job -> JobRecord]
  /\ dir \in [Job -> SUBSET Marker] /\ output \in [Job -> Outcome] /\ worker \in [Job -> Place]
  /\ thread \in {"off", "waiting", "polling", "starting", "exiting"}
  /\ todo \subseteq Job
  /\ staged \in Seq(Action)
  /\ phase \in {"dispatch", "commit"}
  /\ step \in {"none", "touched", "unlinked", "closing"}

\* The worker count limit holds however starts, pauses, resumes and closes interleave.
SlotsBounded == Cardinality(Occupied) <= config.max_workers

\* Reservations of live workers, paused ones included, fit beside the coordinator's reserve.
MemoryBounded ==
  Bytes(WorkerBytes, job, Occupied) + config.coordinator_bytes <= config.memory_bytes

\* What _admit checked at dispatch still bounds the manager whenever it is looked at.
AdmissionBounded ==
  /\ Cardinality(records) <= config.max_jobs
  /\ Cardinality(Active) <= config.max_queue + config.max_workers
  /\ Bytes(CacheBytes, job, records) <= config.coordinator_bytes
  /\ Bytes(ScratchBytes, job, Active) <= config.scratch_bytes
  /\ \A j \in Active : WorkerBytes[job[j].shape] <= config.memory_bytes - config.coordinator_bytes

\* The limits hold wherever a start, an admission or a new configuration is applied.
LimitsKept == MemoryBounded /\ AdmissionBounded

\* A job reported paused is parked at the boundary whose snapshot is retained: its
\* process waits on the pause file until it is resumed, cancelled or lost.
PausedIsParked ==
  \A j \in records :
    job[j].status = "paused" /\ job[j].process /\ step = "none" =>
      /\ job[j].pause_state
      /\ Alive(j) /\ ~job[j].cancel_requested =>
           worker[j] = "parked" /\ {"pause", "paused"} \subseteq dir[j] /\ "resume" \notin dir[j]

\* A pause request that the manager reports as pausing cannot be swallowed by the
\* worker still consuming an earlier resume.
PauseNotLost ==
  \A j \in records :
    job[j].status = "pausing" /\ Alive(j) =>
      worker[j] = "done" \/ ("pause" \in dir[j] /\ worker[j] \notin {"clear_pause", "clear_resume"})

\* No order of the marker files' steps leaves a paused job running or forgets a pause.
PauseHandshake == PausedIsParked /\ PauseNotLost

\* A live process belongs to a retained live job of an open manager, and a scheduler
\* that will not leave before reaping it: close, release and thread exit leave no orphan.
WorkersOwned ==
  \A j \in Job :
    Alive(j) => /\ j \in Occupied /\ ~closed
                /\ thread \in {"waiting", "polling", "starting"}

\* A retained result never comes from a killed worker, an over-limit success or an
\* unreadable output, whichever of kill, sampling and completion came first.
ResultHonest ==
  \A j \in records :
    /\ job[j].result => job[j].status \in {"succeeded", "failed"} /\ ~job[j].forced
    /\ job[j].status = "succeeded" => job[j].result /\ job[j].error # "memory"
    /\ job[j].forced /\ job[j].status \in Terminal => job[j].status = "interrupted"

\* The manager implements the client's view of a job's life: what it reports of the
\* records is the status, and the occupied records are the ones that hold a slot.
Reported ==
  [j \in Job |-> IF j \in records \/ job[j].status = "released" THEN job[j].status ELSE "unborn"]
Lifecycle == INSTANCE JobLifecycle
               WITH status <- Reported, live <- Occupied, limit <- config.max_workers
ImplementsLifecycle == Lifecycle!Spec

\* A terminal status is final: no pending resume, pause or late worker outcome changes it.
TerminalFinal ==
  [][\A j \in Job : job[j].status \in Terminal => job'[j].status \in {job[j].status, "released"}]_vars

\* No overtaking: when a job starts, every older queued job does not fit.
NoOvertaking ==
  [][\A j \in Job : job[j].status = "queued" /\ job'[j].status = "running" =>
       \A k \in Queued : job[k].seq < job[j].seq => ~Fits(k)]_vars

\* A cancelled job reaches a terminal status even if its worker never cooperates.
CancelEnds == \A j \in Job : job[j].cancel_requested ~> job[j].status \in Terminal \cup {"released"}

\* While the scheduler loops, a queued job is started or settled, unless a paused job
\* keeps the slot or memory it waits for.
QueueDrains ==
  \A j \in Job :
    j \in Queued /\ thread \in {"waiting", "polling", "starting"}
      ~> j \notin Queued \/ \E k \in Occupied : job[k].status = "paused"

\* Some scheduler pass will look at every queued job: no wakeup is lost.
QueuedIsServed ==
  (phase = "dispatch" /\ Queued # {}) => thread \in {"waiting", "polling", "starting"}
=============================================================================
