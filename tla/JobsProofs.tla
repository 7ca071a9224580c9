----------------------------- MODULE JobsProofs -----------------------------
(***************************************************************************)
(* Proofs about Jobs for every set of jobs, shapes, limits, operations and *)
(* faults, and for statements of any length: types, the limit of workers,  *)
(* the ownership of every worker process by a retained live job of an open *)
(* manager whose scheduler is still there to reap it, the honesty of       *)
(* results and the handshake of a pause.  Then what it promises its        *)
(* client: it implements JobLifecycle and an outcome is final, as long as  *)
(* a resume is a statement of its own; what the live workers reserve stays *)
(* within the memory, and what was admitted within the queue, the job      *)
(* count, the manager's own memory and the scratch space.                  *)
(***************************************************************************)
EXTENDS Jobs, FiniteSetTheorems, Sums, TLAPS

-----------------------------------------------------------------------------
(* Type correctness.                                                       *)

\* The two ways a fresh or a removed record is made are well typed.
LEMMA FreshType ==
  /\ \A s \in Shape, n \in Nat : NewJob(s, n) \in JobRecord
  /\ Unborn \in JobRecord
  /\ \A r \in JobRecord : Gone(r) \in JobRecord
<1>1. \A s \in Shape, n \in Nat : NewJob(s, n) \in JobRecord
  BY DEF NewJob, JobRecord, Status, Terminal, Live
<1>2. Unborn \in JobRecord
  <2>1. (CHOOSE s \in Shape : TRUE) \in Shape
    BY JobsAssumption
  <2>2. NewJob(CHOOSE s \in Shape : TRUE, 0) \in JobRecord
    BY <1>1, <2>1
  <2> QED
    BY <2>2 DEF Unborn, JobRecord, Status
<1>3. \A r \in JobRecord : Gone(r) \in JobRecord
  <2> SUFFICES ASSUME NEW r \in JobRecord PROVE Gone(r) \in JobRecord
    OBVIOUS
  <2>1. NewJob(r.shape, r.seq) \in JobRecord
    BY <1>1 DEF JobRecord
  <2> QED
    BY <2>1 DEF Gone, JobRecord, Status
<1> QED
  BY <1>1, <1>2, <1>3

\* _cancel keeps a record a record.
LEMMA CancelledType == \A r \in JobRecord : Cancelled(r) \in JobRecord
<1> SUFFICES ASSUME NEW r \in JobRecord PROVE Cancelled(r) \in JobRecord
  OBVIOUS
<1> USE DEF JobRecord, Status, Terminal, Live
<1>1. CASE r.status \in Terminal
  BY <1>1 DEF Cancelled
<1>2. CASE r.status \notin Terminal /\ ~r.process
  BY <1>2 DEF Cancelled
<1>3. CASE r.status \notin Terminal /\ r.process
  BY <1>3 DEF Cancelled
<1> QED
  BY <1>1, <1>2, <1>3

\* _finish keeps a record a record and always leaves it terminal.
LEMMA FinishedType ==
  \A r \in JobRecord, o \in Outcome :
    Finished(r, o) \in JobRecord /\ Finished(r, o).status \in Terminal
<1> SUFFICES ASSUME NEW r \in JobRecord, NEW o \in Outcome
             PROVE  Finished(r, o) \in JobRecord /\ Finished(r, o).status \in Terminal
  OBVIOUS
<1>1. Finished(r, o).status \in Terminal
  BY DEF Finished, JobRecord, Terminal, Outcome
<1>2. Finished(r, o).error \in {"none", "memory", "other"} /\ Finished(r, o).result \in BOOLEAN
  BY DEF Finished, JobRecord, Outcome
<1>3. Finished(r, o) = [r EXCEPT !.status = Finished(r, o).status,
                                 !.result = Finished(r, o).result,
                                 !.error = Finished(r, o).error]
  BY DEF Finished, JobRecord
<1> HIDE DEF Finished
<1> QED
  BY <1>1, <1>2, <1>3 DEF JobRecord, Status

\* Submission numbers are natural numbers because there are finitely many jobs.
LEMMA NextSeqType == NextSeq \in Nat
<1>1. IsFiniteSet({j \in Job : job[j].seq > 0})
  BY FS_Subset, JobsAssumption
<1> QED
  BY <1>1, FS_CardinalityType DEF NextSeq
\* What is staged stays a sequence of actions under the three ways it changes.
LEMMA StagedType ==
  ASSUME TypeOK
  PROVE  /\ staged # <<>> => Head(staged) \in Action /\ Tail(staged) \in Seq(Action)
         /\ \A a \in Action : Append(staged, a) \in Seq(Action)
         /\ \A a, b \in Action : staged \o <<a>> \in Seq(Action) /\ staged \o <<a, b>> \in Seq(Action)
BY DEF TypeOK

\* Applying one action leaves well-typed staged actions and a well-typed phase.
LEMMA AdvanceType ==
  ASSUME TypeOK, staged # <<>>, Advance
  PROVE  staged' \in Seq(Action) /\ phase' \in {"dispatch", "commit"}
BY StagedType DEF Advance

\* Touching cancel files, whichever of them fail, leaves sets of markers.
LEMMA MarkCancelType ==
  ASSUME TypeOK, NEW S, MarkCancel(S)
  PROVE  dir' \in [Job -> SUBSET Marker]
<1> PICK lost : dir' = [j \in Job |-> IF j \in S \ lost THEN dir[j] \cup {"cancel"} ELSE dir[j]]
  BY DEF MarkCancel
<1> QED
  BY DEF TypeOK, Marker

\* Removed transport directories leave well-typed ones.
LEMMA ClearTransportType ==
  ASSUME TypeOK, NEW S, ClearTransport(S)
  PROVE  dir' \in [Job -> SUBSET Marker] /\ output' \in [Job -> Outcome] /\ worker' \in [Job -> Place]
BY DEF TypeOK, ClearTransport, Outcome, Place

\* The client's steps keep the types.
LEMMA DispatchType == ASSUME TypeOK, Dispatch PROVE TypeOK'
<1> USE DEF managerVars, transportVars, threadVars
<1>a. \A o \in {"submit", "cancel", "pause", "resume", "release"}, j \in Job :
        [op |-> o, job |-> j] \in Action
  BY DEF Action
<1>1. ASSUME NEW c \in Config, DispatchConfigure(c) PROVE TypeOK'
  <2>1. [op |-> "configure", config |-> c] \in Action
    BY JobsAssumption DEF Action
  <2> QED
    BY <1>1, <2>1 DEF DispatchConfigure, TypeOK
<1>2. ASSUME NEW j \in Job, NEW s \in Shape, DispatchSubmit(j, s) PROVE TypeOK'
  <2>1. job' \in [Job -> JobRecord]
    BY <1>2, FreshType, NextSeqType DEF DispatchSubmit, TypeOK
  <2>2. staged' \in Seq(Action)
    BY <1>2, <1>a, StagedType DEF DispatchSubmit
  <2> QED
    BY <1>2, <2>1, <2>2 DEF DispatchSubmit, TypeOK
<1>3. ASSUME NEW j \in Job, NEW k \in Job, DispatchRestart(j, k) PROVE TypeOK'
  <2>1. job' \in [Job -> JobRecord]
    <3>1. job[j].shape \in Shape
      BY DEF TypeOK, JobRecord
    <3> QED
      BY <1>3, <3>1, FreshType, NextSeqType DEF DispatchRestart, TypeOK
  <2>2. staged' \in Seq(Action)
    <3>1. [op |-> "cancel", job |-> j] \in Action /\ [op |-> "submit", job |-> k] \in Action
      BY <1>a
    <3> QED
      BY <1>3, <3>1, StagedType DEF DispatchRestart
  <2> QED
    BY <1>3, <2>1, <2>2 DEF DispatchRestart, TypeOK
<1>4. ASSUME NEW j \in Job, DispatchPause(j) \/ DispatchResume(j) \/ DispatchCancel(j) \/ DispatchRelease(j)
      PROVE  TypeOK'
  <2>1. staged' \in Seq(Action)
    BY <1>4, <1>a, StagedType DEF DispatchPause, DispatchResume, DispatchCancel, DispatchRelease
  <2> QED
    BY <1>4, <2>1 DEF DispatchPause, DispatchResume, DispatchCancel, DispatchRelease, TypeOK
<1>5. CASE DispatchShutdown
  <2>1. [op |-> "shutdown"] \in Action
    BY DEF Action
  <2> QED
    BY <1>5, <2>1, StagedType DEF DispatchShutdown, TypeOK
<1> QED
  BY <1>1, <1>2, <1>3, <1>4, <1>5 DEF Dispatch

\* While an action is half applied it is still the head of what is staged; a resume
\* in progress keeps its job live and the scheduler out of its pass.
HeadInv ==
  /\ step # "none" => phase = "commit" /\ staged # <<>>
  /\ step \in {"touched", "unlinked"} =>
       /\ Head(staged).op = "resume" /\ HasDirectory(Head(staged).job)
       /\ thread \notin {"polling", "starting"}

\* A change of the scalar fields the manager writes keeps a record a record.
LEMMA FieldsType ==
  ASSUME NEW r \in JobRecord
  PROVE  /\ \A s \in Status : [r EXCEPT !.status = s] \in JobRecord
         /\ \A s \in Status, e \in {"memory", "other"} :
              [r EXCEPT !.status = s, !.error = e] \in JobRecord
         /\ \A e \in {"memory", "other"} : [r EXCEPT !.error = e] \in JobRecord
         /\ \A s \in Status, b \in BOOLEAN :
              /\ [r EXCEPT !.status = s, !.process = b] \in JobRecord
              /\ [r EXCEPT !.status = s, !.pause_state = b] \in JobRecord
         /\ \A b \in BOOLEAN : [r EXCEPT !.forced = b] \in JobRecord
         /\ [r EXCEPT !.cancel_time = "expired"] \in JobRecord
BY DEF JobRecord

\* The commit of each staged action keeps the types.
LEMMA CommitType == ASSUME TypeOK, HeadInv, Commit PROVE TypeOK'
<1> USE DEF managerVars, transportVars, threadVars, clientVars
<1>s. {"queued", "running", "pausing", "paused", "failed"} \subseteq Status
  BY DEF Status, Terminal, Live
<1>h. staged # <<>> => /\ Head(staged) \in Action /\ Tail(staged) \in Seq(Action)
                       /\ Head(staged).op \in {"submit", "cancel", "pause", "resume", "release"}
                            => Head(staged).job \in Job
                       /\ Head(staged).op = "configure" => Head(staged).config \in JobsConfig
  BY StagedType DEF Action
<1>1. CASE CommitConfigure
  BY <1>1, <1>h, AdvanceType DEF CommitConfigure, Committing, TypeOK
<1>2. CASE CommitSubmit
  <2> PICK j \in Job : j = Head(staged).job
    BY <1>2, <1>h DEF CommitSubmit, Committing
  <2>1. job' = job \/ job' = [job EXCEPT ![j] = [@ EXCEPT !.status = "failed", !.error = "other"]]
    BY <1>2 DEF CommitSubmit
  <2>a. /\ [job[j] EXCEPT !.status = "failed", !.error = "other"] \in JobRecord
    BY <1>s, FieldsType DEF TypeOK
  <2>2. job' \in [Job -> JobRecord]
    BY <2>1, <2>a DEF TypeOK
  <2>3. thread' \in {"off", "waiting", "polling", "starting", "exiting"} /\ todo' \subseteq Job
    BY <1>2 DEF CommitSubmit, EnsureThread, ThreadRefused, TypeOK
  <2> QED
    BY <1>2, <2>2, <2>3, AdvanceType DEF CommitSubmit, Committing, TypeOK
<1>3. CASE CommitCancel
  <2>1. job' \in [Job -> JobRecord]
    BY <1>3, CancelledType DEF CommitCancel, TypeOK
  <2> QED
    BY <1>3, <2>1, MarkCancelType, AdvanceType DEF CommitCancel, Committing, TypeOK
<1>4. CASE CommitPause
  <2> PICK j \in Job : j = Head(staged).job
    BY <1>4, <1>h DEF CommitPause, Committing
  <2>1. \/ job' = [job EXCEPT ![j] = [@ EXCEPT !.status = "pausing"]]
        \/ job' = [job EXCEPT ![j] = [@ EXCEPT !.error = "other"]]
        \/ job' = [job EXCEPT ![j] = [@ EXCEPT !.status = "paused"]]
        \/ job' = [job EXCEPT ![j] = [@ EXCEPT !.status = job[j].status]]
    BY <1>4 DEF CommitPause
  <2>2. job[j].status \in Status
    BY DEF TypeOK, JobRecord
  <2>a. /\ [job[j] EXCEPT !.status = "pausing"] \in JobRecord
        /\ [job[j] EXCEPT !.status = "paused"] \in JobRecord
        /\ [job[j] EXCEPT !.error = "other"] \in JobRecord
        /\ [job[j] EXCEPT !.status = job[j].status] \in JobRecord
    BY <2>2, <1>s, FieldsType DEF TypeOK
  <2>3. job' \in [Job -> JobRecord]
    BY <2>1, <2>a DEF TypeOK
  <2>4. dir' = dir \/ dir' = [dir EXCEPT ![j] = @ \cup {"pause"}]
    BY <1>4 DEF CommitPause
  <2>5. dir' \in [Job -> SUBSET Marker]
    BY <2>4 DEF TypeOK, Marker
  <2> QED
    BY <1>4, <2>3, <2>5, AdvanceType DEF CommitPause, Committing, TypeOK
<1>5. CASE CommitResumeQueued
  <2> PICK j \in Job : j = Head(staged).job
    BY <1>5, <1>h DEF CommitResumeQueued, Committing
  <2>1. \/ job' = [job EXCEPT ![j] = [@ EXCEPT !.status = "queued"]]
        \/ job' = [job EXCEPT ![j] = [@ EXCEPT !.status = "failed", !.error = "other"]]
    BY <1>5 DEF CommitResumeQueued
  <2>a. /\ [job[j] EXCEPT !.status = "queued"] \in JobRecord
        /\ [job[j] EXCEPT !.status = "failed", !.error = "other"] \in JobRecord
    BY <1>s, FieldsType DEF TypeOK
  <2>2. job' \in [Job -> JobRecord]
    BY <2>1, <2>a DEF TypeOK
  <2>3. thread' \in {"off", "waiting", "polling", "starting", "exiting"} /\ todo' \subseteq Job
    BY <1>5 DEF CommitResumeQueued, EnsureThread, ThreadRefused, TypeOK
  <2> QED
    BY <1>5, <2>2, <2>3, AdvanceType DEF CommitResumeQueued, Committing, TypeOK
<1>6. CASE ResumeTouch
  <2> PICK j \in Job : j = Head(staged).job
    BY <1>6, <1>h DEF ResumeTouch, Committing
  <2>1. job' = job \/ job' = [job EXCEPT ![j] = [@ EXCEPT !.error = "other"]]
    BY <1>6 DEF ResumeTouch
  <2>a. /\ [job[j] EXCEPT !.error = "other"] \in JobRecord
    BY <1>s, FieldsType DEF TypeOK
  <2>2. job' \in [Job -> JobRecord]
    BY <2>1, <2>a DEF TypeOK
  <2>3. dir' = dir \/ dir' = [dir EXCEPT ![j] = @ \cup {"resume"}]
    BY <1>6 DEF ResumeTouch
  <2>4. dir' \in [Job -> SUBSET Marker]
    BY <2>3 DEF TypeOK, Marker
  <2>5. staged' \in Seq(Action) /\ phase' \in {"dispatch", "commit"}
    BY <1>6, AdvanceType DEF ResumeTouch, Committing, TypeOK
  <2> QED
    BY <1>6, <2>2, <2>4, <2>5 DEF ResumeTouch, TypeOK
<1>7. CASE ResumeUnlinkPaused
  <2>1. dir' \in [Job -> SUBSET Marker]
    BY <1>7 DEF ResumeUnlinkPaused, TypeOK, Marker
  <2> QED
    BY <1>7, <2>1 DEF ResumeUnlinkPaused, TypeOK
<1>8. CASE ResumeUnlinkPause
  <2>1. dir' \in [Job -> SUBSET Marker]
    BY <1>8 DEF ResumeUnlinkPause, TypeOK, Marker
  <2>2. job' \in [Job -> JobRecord]
    BY <1>8, <1>s, FieldsType DEF ResumeUnlinkPause, TypeOK
  <2>3. staged' \in Seq(Action) /\ phase' \in {"dispatch", "commit"}
    BY <1>8, StagedType DEF ResumeUnlinkPause, Advance, TypeOK, HeadInv
  <2> QED
    BY <1>8, <2>1, <2>2, <2>3 DEF ResumeUnlinkPause, TypeOK
<1>9. CASE CommitResumeRaises
  BY <1>9 DEF CommitResumeRaises, TypeOK
<1>10. CASE CommitRelease
  <2>1. job' \in [Job -> JobRecord]
    BY <1>10, FreshType DEF CommitRelease, TypeOK
  <2> QED
    BY <1>10, <2>1, AdvanceType DEF CommitRelease, Committing, TypeOK
<1>11. CASE CloseBegin
  <2>1. job' \in [Job -> JobRecord]
    BY <1>11, CancelledType DEF CloseBegin, TypeOK
  <2> QED
    BY <1>11, <2>1, MarkCancelType DEF CloseBegin, TypeOK
<1>12. CASE CloseEnd
  <2>1. job' \in [Job -> JobRecord]
    BY <1>12, FinishedType, FieldsType DEF CloseEnd, TypeOK
  <2>2. staged' \in Seq(Action) /\ phase' \in {"dispatch", "commit"}
    BY <1>12, StagedType DEF CloseEnd, Advance, TypeOK, HeadInv
  <2> QED
    BY <1>12, <2>1, <2>2, ClearTransportType DEF CloseEnd, TypeOK
<1> QED
  BY <1>1, <1>2, <1>3, <1>4, <1>5, <1>6, <1>7, <1>8, <1>9, <1>10, <1>11, <1>12 DEF Commit

\* A polled record: the acknowledged boundary, the memory sample and the deadline.
LEMMA InspectedType ==
  ASSUME NEW r \in JobRecord, NEW reached \in BOOLEAN, NEW readable \in BOOLEAN, NEW over \in BOOLEAN
  PROVE  Inspected(r, reached, readable, over) \in JobRecord
<1> DEFINE acked == IF ~reached THEN r
                    ELSE IF readable THEN [r EXCEPT !.status = "paused", !.pause_state = TRUE]
                    ELSE Cancelled([r EXCEPT !.error = "other"])
           sampled == IF over THEN Cancelled([acked EXCEPT !.error = "memory"]) ELSE acked
           killed == sampled.forced \/ sampled.cancel_time = "expired"
<1>1. acked \in JobRecord
  BY FieldsType, CancelledType DEF Status, Terminal, Live
<1>2. Inspected(r, reached, readable, over) = [sampled EXCEPT !.forced = killed]
  BY DEF Inspected
<1> HIDE DEF acked
<1>3. sampled \in JobRecord
  BY <1>1, FieldsType, CancelledType
<1> HIDE DEF sampled
<1>4. killed \in BOOLEAN
  OBVIOUS
<1> HIDE DEF killed
<1>5. [sampled EXCEPT !.forced = killed] \in JobRecord
  BY <1>3, <1>4, FieldsType
<1> QED
  BY <1>2, <1>5

\* The scheduler's steps keep the types.
LEMMA SchedulerType == ASSUME TypeOK, Scheduler PROVE TypeOK'
<1> USE DEF managerVars, transportVars, threadVars, clientVars
<1>1. CASE BeginPass
  BY <1>1 DEF BeginPass, Occupied, TypeOK
<1>2. CASE PollsDone
  BY <1>2 DEF PollsDone, Queued, TypeOK
<1>3. CASE EndPass \/ ThreadDies
  BY <1>3 DEF EndPass, ThreadDies, TypeOK
<1>4. ASSUME NEW j \in Job, Reap(j) PROVE TypeOK'
  <2>1. job' \in [Job -> JobRecord]
    BY <1>4, FinishedType DEF Reap, TypeOK
  <2> QED
    BY <1>4, <2>1, ClearTransportType DEF Reap, TypeOK
<1>5. ASSUME NEW j \in Job, Start(j) PROVE TypeOK'
  <2>1. \/ /\ job' = [job EXCEPT ![j] = [@ EXCEPT !.status = "running", !.process = TRUE]]
           /\ worker' = [worker EXCEPT ![j] = "computing"]
        \/ /\ job' = [job EXCEPT ![j] = [@ EXCEPT !.status = "failed", !.error = "other"]]
           /\ worker' = worker
    BY <1>5 DEF Start
  <2>2. /\ [job[j] EXCEPT !.status = "running", !.process = TRUE] \in JobRecord
        /\ [job[j] EXCEPT !.status = "failed", !.error = "other"] \in JobRecord
    BY FieldsType DEF TypeOK, Status, Terminal, Live
  <2>3. job' \in [Job -> JobRecord] /\ worker' \in [Job -> Place]
    BY <2>1, <2>2 DEF TypeOK, Place
  <2> QED
    BY <1>5, <2>3 DEF Start, TypeOK
<1>6. ASSUME NEW j \in Job, Skip(j) PROVE TypeOK'
  BY <1>6 DEF Skip, TypeOK
<1>7. ASSUME NEW j \in Job, NEW readable \in BOOLEAN, NEW over \in BOOLEAN, Inspect(j, readable, over)
      PROVE  TypeOK'
  <2> DEFINE reached == job[j].status = "pausing" /\ "paused" \in dir[j]
  <2>0. reached \in BOOLEAN /\ job[j] \in JobRecord
    BY DEF TypeOK
  <2> HIDE DEF reached
  <2>1. \E r \in JobRecord : job' = [job EXCEPT ![j] = r]
    BY <1>7, <2>0, InspectedType DEF Inspect, reached
  <2>2. job' \in [Job -> JobRecord]
    BY <2>1 DEF TypeOK
  <2>3. dir' \in [Job -> SUBSET Marker]
    BY <1>7, MarkCancelType DEF Inspect
  <2>4. worker' \in [Job -> Place]
    BY <1>7 DEF Inspect, TypeOK, Place
  <2> QED
    BY <1>7, <2>2, <2>3, <2>4 DEF Inspect, TypeOK
<1> QED
  BY <1>1, <1>2, <1>3, <1>4, <1>5, <1>6, <1>7 DEF Scheduler

\* The steps of a worker process keep the types.
LEMMA WorkerType ==
  ASSUME TypeOK, NEW j \in Job, Worker(j) \/ WorkerCrash(j) \/ Deadline(j)
  PROVE  TypeOK'
<1> USE DEF managerVars, transportVars, threadVars, clientVars, WorkerUnchanged
<1>1. ASSUME NEW o \in Returns, WorkerOutcome(j, o) PROVE TypeOK'
  <2>1. o \in Outcome
    BY JobsAssumption DEF Outcome
  <2> QED
    BY <1>1, <2>1 DEF WorkerOutcome, Writes, TypeOK, Place
<1>2. CASE WorkerCancelled(j)
  BY <1>2 DEF WorkerCancelled, Writes, TypeOK, Place, Outcome
<1>3. CASE WorkerSnapshot(j)
  BY <1>3 DEF WorkerSnapshot, Writes, TypeOK, Place, Outcome, Marker
<1>4. CASE WorkerUnpark(j) \/ WorkerClearPause(j) \/ WorkerClearResume(j)
  BY <1>4 DEF WorkerUnpark, WorkerClearPause, WorkerClearResume, TypeOK, Place, Marker
<1>5. CASE WorkerBoundary(j) \/ WorkerExit(j) \/ WorkerCrash(j)
  BY <1>5 DEF WorkerBoundary, WorkerExit, WorkerCrash, TypeOK, Place
<1>6. CASE Deadline(j)
  <2>1. [job[j] EXCEPT !.cancel_time = "expired"] \in JobRecord
    BY FieldsType DEF TypeOK
  <2>2. job' = [job EXCEPT ![j] = [@ EXCEPT !.cancel_time = "expired"]]
    BY <1>6 DEF Deadline
  <2> QED
    BY <1>6, <2>1, <2>2 DEF Deadline, TypeOK
<1> QED
  BY <1>1, <1>2, <1>3, <1>4, <1>5, <1>6 DEF Worker

\* Every step keeps the types, once a half-applied resume is known to have its action.
LEMMA TypeStep == TypeOK /\ HeadInv /\ [Next]_vars => TypeOK'
<1> SUFFICES ASSUME TypeOK, HeadInv, [Next]_vars PROVE TypeOK'
  OBVIOUS
<1>1. CASE Acknowledge
  BY <1>1 DEF Acknowledge, TypeOK, managerVars, transportVars, threadVars
<1>2. CASE Abandon
  <2>1. job' \in [Job -> JobRecord]
    BY <1>2, FreshType DEF Abandon, TypeOK
  <2> QED
    BY <1>2, <2>1 DEF Abandon, TypeOK, managerVars, transportVars, threadVars
<1>3. CASE UNCHANGED vars
  BY <1>3 DEF vars, TypeOK
<1> QED
  BY <1>1, <1>2, <1>3, DispatchType, CommitType, SchedulerType, WorkerType DEF Next
-----------------------------------------------------------------------------
(* The worker limit.                                                       *)

\* The scheduler visits retained jobs, and only while it holds the lock.
TodoInv == todo \subseteq records /\ (thread \notin {"polling", "starting"} => todo = {})

\* New limits are staged alone at the front, before any job is retained.
ConfigInv ==
  \A i \in DOMAIN staged : staged[i].op = "configure" => i = 1 /\ records = {}

\* Only retained jobs that have been started have a process.
ProcessInv ==
  \A j \in Job : job[j].process => j \in records /\ job[j].status # "queued"

IndInv ==
  TypeOK /\ HeadInv /\ TodoInv /\ ConfigInv /\ ProcessInv /\ SlotsBounded

\* What Cancelled, Finished and Inspected do to the fields that seat a job.
LEMMA SeatFields ==
  ASSUME NEW r \in JobRecord
  PROVE  /\ Cancelled(r).process = r.process
         /\ Cancelled(r).status \in {r.status, "cancelled"}
         /\ \A o \in Outcome : Finished(r, o).process = r.process
         /\ \A a, b, c \in BOOLEAN :
              /\ Inspected(r, a, b, c).process = r.process
              /\ Inspected(r, a, b, c).status \in {r.status, "cancelled"} \cup (IF a THEN {"paused"} ELSE {})
<1>1. \A q \in JobRecord : Cancelled(q).process = q.process /\ Cancelled(q).status \in {q.status, "cancelled"}
  BY DEF Cancelled, JobRecord
<1>2. \A o \in Outcome : Finished(r, o).process = r.process
  BY DEF Finished, JobRecord
<1>3. ASSUME NEW a \in BOOLEAN, NEW b \in BOOLEAN, NEW c \in BOOLEAN
      PROVE  /\ Inspected(r, a, b, c).process = r.process
             /\ Inspected(r, a, b, c).status \in {r.status, "cancelled"} \cup (IF a THEN {"paused"} ELSE {})
  <2> DEFINE acked == IF ~a THEN r
                      ELSE IF b THEN [r EXCEPT !.status = "paused", !.pause_state = TRUE]
                      ELSE Cancelled([r EXCEPT !.error = "other"])
             sampled == IF c THEN Cancelled([acked EXCEPT !.error = "memory"]) ELSE acked
             killed == sampled.forced \/ sampled.cancel_time = "expired"
  <2>1. Inspected(r, a, b, c) = [sampled EXCEPT !.forced = killed]
    BY DEF Inspected
  <2>2. [r EXCEPT !.error = "other"] \in JobRecord
    BY FieldsType
  <2>3. acked \in JobRecord /\ acked.process = r.process
          /\ acked.status \in {r.status, "cancelled"} \cup (IF a THEN {"paused"} ELSE {})
    <3>1. CASE ~a
      BY <3>1
    <3>2. CASE a /\ b
      <4>1. acked = [r EXCEPT !.status = "paused", !.pause_state = TRUE]
        BY <3>2
      <4>2. [r EXCEPT !.status = "paused", !.pause_state = TRUE] \in JobRecord
        BY FieldsType DEF Status, Live
      <4> HIDE DEF acked
      <4> QED
        BY <3>2, <4>1, <4>2 DEF JobRecord
    <3>3. CASE a /\ ~b
      <4>1. acked = Cancelled([r EXCEPT !.error = "other"])
        BY <3>3
      <4>2. [r EXCEPT !.error = "other"].process = r.process /\ [r EXCEPT !.error = "other"].status = r.status
        BY DEF JobRecord
      <4> QED
        BY <3>3, <4>1, <4>2, <2>2, <1>1, CancelledType
    <3> QED
      BY <3>1, <3>2, <3>3
  <2> HIDE DEF acked
  <2>4. sampled \in JobRecord /\ sampled.process = r.process
          /\ sampled.status \in {r.status, "cancelled"} \cup (IF a THEN {"paused"} ELSE {})
    <3>1. [acked EXCEPT !.error = "memory"] \in JobRecord
      BY <2>3, FieldsType
    <3>2. [acked EXCEPT !.error = "memory"].process = acked.process
            /\ [acked EXCEPT !.error = "memory"].status = acked.status
      BY <2>3 DEF JobRecord
    <3> QED
      BY <3>1, <3>2, <2>3, <1>1, CancelledType
  <2> HIDE DEF sampled
  <2> QED
    BY <2>1, <2>4 DEF JobRecord
<1> QED
  BY <1>1, <1>2, <1>3

\* Which of the two fields that seat a job an update of its record changes.
LEMMA SeatKept ==
  ASSUME NEW r \in JobRecord
  PROVE  /\ \A s \in Status : [r EXCEPT !.status = s].process = r.process
                              /\ [r EXCEPT !.status = s].status = s
         /\ [r EXCEPT !.status = "failed", !.error = "other"].process = r.process
         /\ [r EXCEPT !.status = "failed", !.error = "other"].status = "failed"
         /\ [r EXCEPT !.error = "other"].process = r.process
         /\ [r EXCEPT !.error = "other"].status = r.status
         /\ [r EXCEPT !.forced = TRUE].process = r.process
         /\ [r EXCEPT !.forced = TRUE].status = r.status
         /\ [r EXCEPT !.cancel_time = "expired"].process = r.process
         /\ [r EXCEPT !.cancel_time = "expired"].status = r.status
         /\ [r EXCEPT !.status = "running", !.process = TRUE].process = TRUE
         /\ [r EXCEPT !.status = "running", !.process = TRUE].status = "running"
BY DEF JobRecord

\* Seats taken from what is already seated never exceed the limit.
LEMMA SeatsShrink ==
  ASSUME IndInv, Occupied' \subseteq Occupied, config' = config
  PROVE  SlotsBounded'
<1>1. IsFiniteSet(Occupied)
  BY FS_Subset, JobsAssumption DEF IndInv, TypeOK, Occupied
<1>2. Cardinality(Occupied') <= Cardinality(Occupied) /\ Cardinality(Occupied') \in Nat
        /\ Cardinality(Occupied) \in Nat
  BY <1>1, FS_Subset, FS_CardinalityType
<1>3. config.max_workers \in Nat
  BY DEF IndInv, TypeOK, JobsConfig
<1> QED
  BY <1>2, <1>3 DEF IndInv, SlotsBounded

\* A start seats one more job, and only where Fits found a free slot.
LEMMA SeatsGrow ==
  ASSUME IndInv, NEW j \in Job, Fits(j), Occupied' \subseteq Occupied \cup {j}, config' = config
  PROVE  SlotsBounded'
<1>1. IsFiniteSet(Occupied)
  BY FS_Subset, JobsAssumption DEF IndInv, TypeOK, Occupied
<1>2. IsFiniteSet(Occupied \cup {j}) /\ Cardinality(Occupied \cup {j}) <= Cardinality(Occupied) + 1
        /\ Cardinality(Occupied) \in Nat /\ Cardinality(Occupied \cup {j}) \in Nat
  BY <1>1, FS_AddElement, FS_CardinalityType
<1>3. Cardinality(Occupied') <= Cardinality(Occupied \cup {j}) /\ Cardinality(Occupied') \in Nat
  BY <1>2, FS_Subset, FS_CardinalityType
<1>4. config.max_workers \in Nat
  BY DEF IndInv, TypeOK, JobsConfig
<1> QED
  BY <1>2, <1>3, <1>4 DEF Fits, SlotsBounded

\* Steps that leave every record, the staged actions and the thread's pass alone.
LEMMA FrameStep ==
  ASSUME IndInv, TypeOK', UNCHANGED <<config, records, job, staged, phase, step, thread, todo>>
  PROVE  IndInv'
BY DEF IndInv, HeadInv, TodoInv, ConfigInv, ProcessInv, SlotsBounded, Occupied, HasDirectory

\* A dispatched operation stages actions and creates unstarted records; it seats nobody.
LEMMA DispatchStep == ASSUME IndInv, Dispatch PROVE IndInv'
<1> USE DEF managerVars, transportVars, threadVars
<1>1. TypeOK'
  BY DispatchType DEF IndInv
<1>2. phase = "dispatch" /\ phase' = phase /\ step' = step /\ step = "none"
  BY DEF Dispatch, Dispatching, DispatchConfigure, DispatchSubmit, DispatchRestart, DispatchPause,
         DispatchResume, DispatchCancel, DispatchRelease, DispatchShutdown, IndInv, HeadInv
<1>3. records' = records /\ config' = config /\ thread' = thread /\ todo' = todo
  BY DEF Dispatch, DispatchConfigure, DispatchSubmit, DispatchRestart, DispatchPause,
         DispatchResume, DispatchCancel, DispatchRelease, DispatchShutdown
<1>4. \/ job' = job
      \/ \E k \in Job, s \in Shape, n \in Nat : job' = [job EXCEPT ![k] = NewJob(s, n)]
  <2>1. ASSUME NEW j \in Job, NEW s \in Shape, DispatchSubmit(j, s)
        PROVE  \E k \in Job, t \in Shape, n \in Nat : job' = [job EXCEPT ![k] = NewJob(t, n)]
    BY <2>1, NextSeqType DEF DispatchSubmit
  <2>2. ASSUME NEW j \in Job, NEW m \in Job, DispatchRestart(j, m)
        PROVE  \E k \in Job, t \in Shape, n \in Nat : job' = [job EXCEPT ![k] = NewJob(t, n)]
    <3>1. job[j].shape \in Shape
      BY DEF IndInv, TypeOK, JobRecord
    <3> QED
      BY <2>2, <3>1, NextSeqType DEF DispatchRestart
  <2>3. ASSUME DispatchShutdown \/ (\E c \in Config : DispatchConfigure(c))
                 \/ \E j \in Job : DispatchPause(j) \/ DispatchResume(j) \/ DispatchCancel(j)
                                      \/ DispatchRelease(j)
        PROVE  job' = job
    BY <2>3 DEF DispatchConfigure, DispatchPause, DispatchResume, DispatchCancel, DispatchRelease,
                DispatchShutdown
  <2> QED
    BY <2>1, <2>2, <2>3 DEF Dispatch
<1>5. HeadInv' /\ TodoInv'
  BY <1>2, <1>3 DEF IndInv, HeadInv, TodoInv
<1>6. ConfigInv'
  <2>1. staged \in Seq(Action)
    BY DEF IndInv, TypeOK
  <2>2. ASSUME NEW c \in Config, DispatchConfigure(c) PROVE ConfigInv'
    BY <2>2 DEF DispatchConfigure, ConfigInv
  <2>3. ASSUME NEW a \in Action, a.op # "configure", staged' = Append(staged, a) PROVE ConfigInv'
    BY <1>3, <2>1, <2>3 DEF IndInv, ConfigInv
  <2>4. ASSUME NEW j \in Job, NEW m \in Job, DispatchRestart(j, m) PROVE ConfigInv'
    <3>1. [op |-> "cancel", job |-> j] \in Action /\ [op |-> "submit", job |-> m] \in Action
      BY DEF Action
    <3>2. \/ staged' = staged \o <<[op |-> "submit", job |-> m]>>
          \/ staged' = staged \o <<[op |-> "cancel", job |-> j], [op |-> "submit", job |-> m]>>
      BY <2>4 DEF DispatchRestart
    <3> QED
      <4> DEFINE a == [op |-> "cancel", job |-> j]
                 b == [op |-> "submit", job |-> m]
      <4>1. a.op # "configure" /\ b.op # "configure"
        OBVIOUS
      <4> HIDE DEF a, b
      <4>2. staged' = staged \o <<b>> \/ staged' = staged \o <<a, b>>
        BY <3>2 DEF a, b
      <4>3. \A i \in DOMAIN staged' : \/ i \in DOMAIN staged /\ staged'[i] = staged[i]
                                      \/ staged'[i] \in {a, b}
        <5>1. a \in Action /\ b \in Action
          BY <3>1 DEF a, b
        <5>2. CASE staged' = staged \o <<b>>
          BY <5>1, <5>2, <2>1
        <5>3. CASE staged' = staged \o <<a, b>>
          <6>1. <<a, b>> \in Seq(Action) /\ Len(<<a, b>>) = 2
            BY <5>1
          <6>2. \A i \in DOMAIN <<a, b>> : <<a, b>>[i] \in {a, b}
            BY <5>1
          <6> DEFINE t == <<a, b>>
          <6> HIDE DEF t
          <6>3. DOMAIN staged' = 1 .. Len(staged) + Len(t) /\ DOMAIN staged = 1 .. Len(staged)
            BY <5>3, <6>1, <2>1 DEF t
          <6>4. \A i \in DOMAIN staged' :
                  staged'[i] = IF i <= Len(staged) THEN staged[i] ELSE t[i - Len(staged)]
            BY <5>3, <6>1, <6>3, <2>1 DEF t
          <6>5. Len(staged) \in Nat /\ DOMAIN t = 1 .. 2 /\ Len(t) = 2 /\ \A i \in 1 .. 2 : t[i] \in {a, b}
            BY <6>1, <6>2, <2>1 DEF t
          <6> QED
            BY <6>3, <6>4, <6>5
        <5> QED
          BY <4>2, <5>2, <5>3
      <4> QED
        BY <4>1, <4>3, <1>3 DEF IndInv, ConfigInv
  <2>5. ASSUME NEW j \in Job, (\E s \in Shape : DispatchSubmit(j, s)) \/ DispatchPause(j)
                 \/ DispatchResume(j) \/ DispatchCancel(j) \/ DispatchRelease(j)
        PROVE  ConfigInv'
    <3>1. \E o \in {"submit", "pause", "resume", "cancel", "release"} :
            staged' = Append(staged, [op |-> o, job |-> j])
      BY <2>5 DEF DispatchSubmit, DispatchPause, DispatchResume, DispatchCancel, DispatchRelease
    <3> QED
      BY <3>1, <2>3 DEF Action
  <2>6. CASE DispatchShutdown
    BY <2>3, <2>6 DEF DispatchShutdown, Action
  <2> QED
    BY <2>2, <2>4, <2>5, <2>6 DEF Dispatch
<1>7. ProcessInv'
  BY <1>3, <1>4 DEF IndInv, ProcessInv, TypeOK, NewJob
<1>8. Occupied' \subseteq Occupied
  BY <1>3, <1>4 DEF Occupied, NewJob, Live, IndInv, TypeOK
<1> QED
  BY <1>1, <1>3, <1>5, <1>6, <1>7, <1>8, SeatsShrink DEF IndInv

\* Applying the head of what is staged keeps the staged limits in front.
LEMMA AdvanceConfig ==
  ASSUME IndInv, staged # <<>>,
         staged' = <<>> \/ staged' = Tail(staged)
           \/ (staged' = staged /\ records' \subseteq records)
  PROVE  ConfigInv'
<1>1. staged \in Seq(Action)
  BY DEF IndInv, TypeOK
<1> QED
  BY <1>1 DEF IndInv, ConfigInv

\* The committed actions seat a job only by resuming one that is still seated.
LEMMA CommitStep == ASSUME IndInv, Commit PROVE IndInv'
<1> USE DEF managerVars, transportVars, threadVars, clientVars
<1>1. TypeOK'
  BY CommitType DEF IndInv
<1>t. /\ staged # <<>> => Head(staged) \in Action
      /\ \A a \in Action : a.op \in {"submit", "cancel", "pause", "resume", "release"} => a.job \in Job
  BY StagedType DEF IndInv, Action
<1>2. CASE CommitConfigure
  <2>1. records = {} /\ Occupied' = {} /\ config'.max_workers \in Nat
    <3>1. staged \in Seq(Action) /\ staged # <<>> /\ Head(staged).op = "configure"
      BY <1>2 DEF CommitConfigure, Committing, IndInv, TypeOK
    <3>2. records = {}
      BY <3>1 DEF IndInv, ConfigInv
    <3> QED
      BY <1>1, <1>2, <3>2 DEF CommitConfigure, Occupied, TypeOK, JobsConfig
  <2>2. SlotsBounded'
    BY <2>1, FS_EmptySet DEF SlotsBounded
  <2> QED
    BY <1>1, <1>2, <2>2, AdvanceConfig
    DEF CommitConfigure, Committing, Advance, IndInv, HeadInv, TodoInv, ProcessInv
<1>3. CASE CommitSubmit
  <2> PICK j \in Job : j = Head(staged).job
    BY <1>3, <1>t DEF CommitSubmit, Committing
  <2>1. job' = job \/ job' = [job EXCEPT ![j] = [@ EXCEPT !.status = "failed", !.error = "other"]]
    BY <1>3 DEF CommitSubmit
  <2>2. records' = records \cup {j} /\ config' = config /\ staged # <<>> /\ staged' = Tail(staged)
          /\ step' = "none" /\ todo' = todo /\ thread \notin {"polling", "starting"}
          /\ thread' \notin {"polling", "starting"}
    BY <1>3 DEF CommitSubmit, Committing, Advance, LockFree, EnsureThread, ThreadRefused
  <2>a. /\ [job[j] EXCEPT !.status = "failed", !.error = "other"].process = job[j].process
        /\ [job[j] EXCEPT !.status = "failed", !.error = "other"].status = "failed"
    BY SeatKept DEF IndInv, TypeOK
  <2>3. \A k \in Job : job'[k].process = job[k].process /\ job'[k].status \in {job[k].status, "failed"}
    BY <2>1, <2>a DEF IndInv, TypeOK
  <2>4. Occupied' \subseteq Occupied
    BY <2>2, <2>3, <1>1 DEF Occupied, IndInv, ProcessInv, Live, TypeOK
  <2>5. ProcessInv'
    BY <2>2, <2>3 DEF IndInv, ProcessInv
  <2> QED
    BY <1>1, <2>2, <2>4, <2>5, AdvanceConfig, SeatsShrink DEF IndInv, HeadInv, TodoInv
<1>4. CASE CommitCancel
  <2>1. \A k \in Job : job'[k].process = job[k].process /\ job'[k].status \in {job[k].status, "cancelled"}
    BY <1>4, SeatFields DEF CommitCancel, IndInv, TypeOK
  <2>2. Occupied' \subseteq Occupied /\ ProcessInv'
    BY <1>4, <1>1, <2>1 DEF CommitCancel, Occupied, IndInv, ProcessInv, Live, TypeOK
  <2> QED
    BY <1>1, <1>4, <2>2, AdvanceConfig, SeatsShrink
    DEF CommitCancel, Committing, Advance, IndInv, HeadInv, TodoInv
<1>5. CASE CommitPause
  <2> PICK j \in Job : j = Head(staged).job
    BY <1>5, <1>t DEF CommitPause, Committing
  <2>1. \A k \in Job :
          /\ job'[k].process = job[k].process
          /\ \/ job'[k].status = job[k].status
             \/ job[k].status = "running" /\ job'[k].status = "pausing"
             \/ job[k].status = "queued" /\ job'[k].status = "paused"
    <3>1. \/ job[j].status = "running" /\ job' = [job EXCEPT ![j] = [@ EXCEPT !.status = "pausing"]]
          \/ job' = [job EXCEPT ![j] = [@ EXCEPT !.error = "other"]]
          \/ job[j].status = "queued" /\ job' = [job EXCEPT ![j] = [@ EXCEPT !.status = "paused"]]
          \/ job' = [job EXCEPT ![j] = [@ EXCEPT !.status = job[j].status]]
      BY <1>5 DEF CommitPause
    <3>2. job[j] \in JobRecord /\ {"pausing", "paused", job[j].status} \subseteq Status
      BY DEF IndInv, TypeOK, JobRecord, Status, Live
    <3>3. /\ [job[j] EXCEPT !.status = "pausing"].process = job[j].process
          /\ [job[j] EXCEPT !.status = "pausing"].status = "pausing"
          /\ [job[j] EXCEPT !.status = "paused"].process = job[j].process
          /\ [job[j] EXCEPT !.status = "paused"].status = "paused"
          /\ [job[j] EXCEPT !.status = job[j].status].process = job[j].process
          /\ [job[j] EXCEPT !.status = job[j].status].status = job[j].status
          /\ [job[j] EXCEPT !.error = "other"].process = job[j].process
          /\ [job[j] EXCEPT !.error = "other"].status = job[j].status
      BY <3>2, SeatKept
    <3> QED
      BY <3>1, <3>3 DEF IndInv, TypeOK
  <2>2. Occupied' \subseteq Occupied /\ ProcessInv'
    BY <1>5, <1>1, <2>1 DEF CommitPause, Occupied, IndInv, ProcessInv, Live, TypeOK
  <2> QED
    BY <1>1, <1>5, <2>2, AdvanceConfig, SeatsShrink
    DEF CommitPause, Committing, Advance, IndInv, HeadInv, TodoInv
<1>6. CASE CommitResumeQueued
  <2> PICK j \in Job : j = Head(staged).job
    BY <1>6, <1>t DEF CommitResumeQueued, Committing
  <2>1. ~job[j].process /\ \A k \in Job :
          /\ job'[k].process = job[k].process
          /\ k # j => job'[k].status = job[k].status
    BY <1>6 DEF CommitResumeQueued, IndInv, TypeOK, JobRecord
  <2>2. Occupied' \subseteq Occupied /\ ProcessInv'
    BY <1>6, <1>1, <2>1 DEF CommitResumeQueued, Occupied, IndInv, ProcessInv, TypeOK
  <2> QED
    BY <1>1, <1>6, <2>2, AdvanceConfig, SeatsShrink
    DEF CommitResumeQueued, Committing, Advance, LockFree, EnsureThread, ThreadRefused,
        IndInv, HeadInv, TodoInv
<1>7. CASE ResumeTouch
  <2> PICK j \in Job : j = Head(staged).job
    BY <1>7, <1>t DEF ResumeTouch, Committing
  <2>1. \A k \in Job : job'[k].process = job[k].process /\ job'[k].status = job[k].status
    <3>1. job' = job \/ job' = [job EXCEPT ![j] = [@ EXCEPT !.error = "other"]]
      BY <1>7 DEF ResumeTouch
    <3>2. /\ [job[j] EXCEPT !.error = "other"].process = job[j].process
          /\ [job[j] EXCEPT !.error = "other"].status = job[j].status
      BY SeatKept DEF IndInv, TypeOK
    <3> QED
      BY <3>1, <3>2 DEF IndInv, TypeOK
  <2>2. Occupied' \subseteq Occupied /\ ProcessInv'
    BY <1>7, <1>1, <2>1 DEF ResumeTouch, Occupied, IndInv, ProcessInv, TypeOK
  <2>3. HeadInv'
    BY <1>7, <2>1 DEF ResumeTouch, Committing, Advance, LockFree, HasDirectory, HeadInv
  <2> QED
    BY <1>1, <1>7, <2>2, <2>3, AdvanceConfig, SeatsShrink
    DEF ResumeTouch, Committing, Advance, IndInv, TodoInv
<1>8. CASE ResumeUnlinkPaused
  <2>1. Occupied' = Occupied
    BY <1>8 DEF ResumeUnlinkPaused, Occupied
  <2>2. HeadInv'
    BY <1>8 DEF ResumeUnlinkPaused, HasDirectory, IndInv, HeadInv
  <2> QED
    BY <1>1, <1>8, <2>1, <2>2, SeatsShrink
    DEF ResumeUnlinkPaused, IndInv, TodoInv, ConfigInv, ProcessInv
<1>9. CASE ResumeUnlinkPause
  <2>0. staged # <<>> /\ Head(staged).op = "resume" /\ HasDirectory(Head(staged).job)
    BY <1>9 DEF ResumeUnlinkPause, IndInv, HeadInv
  <2> PICK j \in Job : j = Head(staged).job
    BY <2>0, <1>t
  <2>1. job[j].process /\ job[j].status \in Live /\ \A k \in Job :
          /\ job'[k].process = job[k].process
          /\ job'[k].status = IF k = j THEN "running" ELSE job[k].status
    BY <1>9, <2>0 DEF ResumeUnlinkPause, HasDirectory, IndInv, TypeOK, JobRecord
  <2>2. Occupied' \subseteq Occupied /\ ProcessInv'
    BY <1>9, <1>1, <2>1 DEF ResumeUnlinkPause, Occupied, IndInv, ProcessInv, TypeOK
  <2> QED
    BY <1>1, <1>9, <2>0, <2>2, AdvanceConfig, SeatsShrink
    DEF ResumeUnlinkPause, Advance, IndInv, HeadInv, TodoInv
<1>10. CASE CommitResumeRaises
  <2>1. Occupied' = Occupied
    BY <1>10 DEF CommitResumeRaises, Occupied
  <2> QED
    BY <1>1, <1>10, <2>1, AdvanceConfig, SeatsShrink
    DEF CommitResumeRaises, Committing, IndInv, HeadInv, TodoInv, ProcessInv
<1>11. CASE CommitRelease
  <2> DEFINE h == Head(staged).job
  <2>1. \A q \in JobRecord : ~Gone(q).process
    BY DEF Gone, NewJob
  <2>2. /\ records' = records \ {h} /\ records \subseteq Job
        /\ job' = IF h \in records THEN [job EXCEPT ![h] = Gone(@)] ELSE job
    BY <1>11 DEF CommitRelease, IndInv, TypeOK
  <2> HIDE DEF h
  <2>3. /\ \A k \in Job : k # h => job'[k] = job[k]
        /\ h \in Job => ~job'[h].process
    BY <2>1, <2>2 DEF IndInv, TypeOK, ProcessInv
  <2>4. Occupied' \subseteq Occupied /\ ProcessInv'
    BY <2>2, <2>3 DEF Occupied, IndInv, ProcessInv
  <2> QED
    BY <1>1, <1>11, <2>4, AdvanceConfig, SeatsShrink
    DEF CommitRelease, Committing, Advance, LockFree, IndInv, HeadInv, TodoInv
<1>12. CASE CloseBegin
  <2>1. \A k \in Job : job'[k].process = job[k].process /\ job'[k].status \in {job[k].status, "cancelled"}
    BY <1>12, SeatFields DEF CloseBegin, IndInv, TypeOK
  <2>2. Occupied' \subseteq Occupied /\ ProcessInv'
    BY <1>12, <1>1, <2>1 DEF CloseBegin, Occupied, IndInv, ProcessInv, Live, TypeOK
  <2> QED
    BY <1>1, <1>12, <2>2, AdvanceConfig, SeatsShrink
    DEF CloseBegin, Committing, IndInv, HeadInv, TodoInv
<1>13. CASE CloseEnd
  <2>1. \A k \in Job : job'[k].process = job[k].process
          /\ (job'[k] = job[k] \/ job'[k].status \in Terminal)
    <3> SUFFICES ASSUME NEW k \in Job
                 PROVE  job'[k].process = job[k].process /\ (job'[k] = job[k] \/ job'[k].status \in Terminal)
      OBVIOUS
    <3> DEFINE q == [job[k] EXCEPT !.forced = TRUE]
    <3>1. job[k] \in JobRecord /\ output[k] \in Outcome
      BY DEF IndInv, TypeOK
    <3>2. q \in JobRecord /\ q.process = job[k].process
      BY <3>1, FieldsType, SeatKept
    <3>3. job'[k] = IF k \in Occupied THEN Finished(q, output[k]) ELSE job[k]
      BY <1>13 DEF CloseEnd
    <3> HIDE DEF q
    <3> QED
      BY <3>1, <3>2, <3>3, SeatFields, FinishedType
  <2>2. Occupied' \subseteq Occupied /\ ProcessInv'
    <3>1. records' = records /\ records \subseteq Job
      BY <1>13 DEF CloseEnd, IndInv, TypeOK
    <3>2. Terminal \cap Live = {} /\ "queued" \notin Terminal
      BY DEF Terminal, Live
    <3>3. Occupied' \subseteq Occupied
      BY <2>1, <3>1, <3>2 DEF Occupied
    <3>4. ProcessInv'
      BY <2>1, <3>1, <3>2 DEF IndInv, ProcessInv
    <3> QED
      BY <3>3, <3>4
  <2> QED
    BY <1>1, <1>13, <2>2, AdvanceConfig, SeatsShrink
    DEF CloseEnd, Advance, IndInv, HeadInv, TodoInv
<1> QED
  BY <1>2, <1>3, <1>4, <1>5, <1>6, <1>7, <1>8, <1>9, <1>10, <1>11, <1>12, <1>13 DEF Commit

\* The scheduler seats a job only where Fits says so.
LEMMA SchedulerStep == ASSUME IndInv, Scheduler PROVE IndInv'
<1> USE DEF managerVars, transportVars, threadVars, clientVars
<1>1. TypeOK'
  BY SchedulerType DEF IndInv
<1>2. CASE BeginPass \/ PollsDone \/ EndPass \/ ThreadDies
  <2>1. Occupied' = Occupied
    BY <1>2 DEF BeginPass, PollsDone, EndPass, ThreadDies, Occupied
  <2>2. HeadInv'
    BY <1>2 DEF BeginPass, PollsDone, EndPass, ThreadDies, LockFree, HasDirectory, IndInv, HeadInv
  <2>3. TodoInv'
    BY <1>2 DEF BeginPass, PollsDone, EndPass, ThreadDies, Occupied, Queued, IndInv, TodoInv
  <2>4. ConfigInv' /\ ProcessInv'
    BY <1>2 DEF BeginPass, PollsDone, EndPass, ThreadDies, IndInv, ConfigInv, ProcessInv
  <2> QED
    BY <1>1, <1>2, <2>1, <2>2, <2>3, <2>4, SeatsShrink
    DEF BeginPass, PollsDone, EndPass, ThreadDies, IndInv
<1>3. ASSUME NEW j \in Job, Reap(j) \/ Skip(j) \/ \E a, b \in BOOLEAN : Inspect(j, a, b)
      PROVE  IndInv'
  <2>1. /\ thread \in {"polling", "starting"} /\ thread' = thread /\ todo' = todo \ {j}
        /\ UNCHANGED <<managerVars, clientVars>>
    BY <1>3 DEF Reap, Skip, Inspect
  <2>2. \A k \in Job : job'[k].process = job[k].process
          /\ (\/ job'[k].status = job[k].status
              \/ job'[k].status \in Terminal
              \/ job[k].status = "pausing" /\ job'[k].status = "paused")
    <3>1. job[j] \in JobRecord /\ output[j] \in Outcome
      BY DEF IndInv, TypeOK
    <3>2. CASE Reap(j)
      BY <3>1, <3>2, SeatFields, FinishedType DEF Reap, IndInv, TypeOK
    <3>3. CASE Skip(j)
      BY <3>3 DEF Skip
    <3>4. ASSUME NEW a \in BOOLEAN, NEW b \in BOOLEAN, Inspect(j, a, b)
          PROVE  \A k \in Job : job'[k].process = job[k].process
                   /\ (\/ job'[k].status = job[k].status
                       \/ job'[k].status \in Terminal
                       \/ job[k].status = "pausing" /\ job'[k].status = "paused")
      <4> DEFINE reached == job[j].status = "pausing" /\ "paused" \in dir[j]
      <4>1. job' = [job EXCEPT ![j] = Inspected(job[j], reached, a, b)] /\ reached \in BOOLEAN
        BY <3>4 DEF Inspect
      <4>2. reached => job[j].status = "pausing"
        OBVIOUS
      <4> HIDE DEF reached
      <4>3. /\ Inspected(job[j], reached, a, b).process = job[j].process
            /\ Inspected(job[j], reached, a, b).status
                 \in {job[j].status, "cancelled"} \cup (IF reached THEN {"paused"} ELSE {})
        BY <3>1, <4>1, SeatFields
      <4> QED
        BY <4>1, <4>2, <4>3 DEF IndInv, TypeOK, Terminal
    <3> QED
      BY <1>3, <3>2, <3>3, <3>4
  <2>3. Occupied' \subseteq Occupied /\ ProcessInv'
    <3>1. records' = records /\ records \subseteq Job
      BY <2>1 DEF IndInv, TypeOK
    <3>2. Terminal \cap Live = {} /\ "queued" \notin Terminal /\ "pausing" \in Live
      BY DEF Terminal, Live
    <3>3. Occupied' \subseteq Occupied
      BY <2>2, <3>1, <3>2 DEF Occupied
    <3>4. ProcessInv'
      BY <2>2, <3>1, <3>2 DEF IndInv, ProcessInv
    <3> QED
      BY <3>3, <3>4
  <2>4. HeadInv' /\ TodoInv' /\ ConfigInv'
    BY <2>1 DEF IndInv, HeadInv, TodoInv, ConfigInv
  <2> QED
    BY <1>1, <2>1, <2>3, <2>4, SeatsShrink DEF IndInv
<1>4. ASSUME NEW j \in Job, Start(j) PROVE IndInv'
  <2>1. /\ thread = "starting" /\ j \in records /\ Fits(j) /\ thread' = thread /\ todo' = todo \ {j}
        /\ UNCHANGED <<managerVars, clientVars>>
    BY <1>4 DEF Start, Oldest, IndInv, TodoInv
  <2>2. \/ job' = [job EXCEPT ![j] = [@ EXCEPT !.status = "running", !.process = TRUE]]
        \/ job' = [job EXCEPT ![j] = [@ EXCEPT !.status = "failed", !.error = "other"]]
    BY <1>4 DEF Start
  <2>3. /\ [job[j] EXCEPT !.status = "running", !.process = TRUE].status = "running"
        /\ [job[j] EXCEPT !.status = "failed", !.error = "other"].process = job[j].process
        /\ [job[j] EXCEPT !.status = "failed", !.error = "other"].status = "failed"
    <3>1. job[j] \in JobRecord
      BY DEF IndInv, TypeOK
    <3> QED
      BY <3>1, SeatKept
  <2>4. \A k \in Job : k # j => job'[k] = job[k]
    BY <2>2 DEF IndInv, TypeOK
  <2>5. Occupied' \subseteq Occupied \cup {j}
    BY <2>1, <2>4 DEF Occupied, IndInv, TypeOK
  <2>6. ProcessInv'
    BY <2>1, <2>2, <2>3, <2>4 DEF IndInv, ProcessInv, TypeOK
  <2>7. HeadInv' /\ TodoInv' /\ ConfigInv'
    BY <2>1 DEF IndInv, HeadInv, TodoInv, ConfigInv
  <2> QED
    BY <1>1, <2>1, <2>5, <2>6, <2>7, SeatsGrow DEF IndInv
<1> QED
  BY <1>2, <1>3, <1>4 DEF Scheduler

\* Worker processes and the clock touch neither the seats nor the staged actions.
LEMMA WorkerStep ==
  ASSUME IndInv, NEW j \in Job, Worker(j) \/ WorkerCrash(j) \/ Deadline(j)
  PROVE  IndInv'
<1>1. TypeOK'
  BY WorkerType DEF IndInv
<1>2. CASE Worker(j) \/ WorkerCrash(j)
  <2>1. UNCHANGED <<config, records, job, staged, phase, step, thread, todo>>
    BY <1>2 DEF Worker, WorkerCrash, WorkerOutcome, WorkerCancelled, WorkerBoundary, WorkerSnapshot,
                WorkerUnpark, WorkerClearPause, WorkerClearResume, WorkerExit, WorkerUnchanged,
                managerVars, threadVars, clientVars
  <2> QED
    BY <1>1, <2>1, FrameStep
<1>3. CASE Deadline(j)
  <2>1. UNCHANGED <<config, records, staged, phase, step, thread, todo>>
    BY <1>3 DEF Deadline, managerVars, threadVars, clientVars
  <2>2. job' = [job EXCEPT ![j] = [@ EXCEPT !.cancel_time = "expired"]]
    BY <1>3 DEF Deadline
  <2>3. /\ [job[j] EXCEPT !.cancel_time = "expired"].process = job[j].process
        /\ [job[j] EXCEPT !.cancel_time = "expired"].status = job[j].status
    BY SeatKept DEF IndInv, TypeOK
  <2>4. \A k \in Job : job'[k].process = job[k].process /\ job'[k].status = job[k].status
    BY <2>2, <2>3 DEF IndInv, TypeOK
  <2>5. Occupied' \subseteq Occupied /\ ProcessInv'
    BY <2>1, <2>4 DEF Occupied, IndInv, TypeOK, ProcessInv
  <2>6. HeadInv'
    <3>1. staged # <<>> /\ Head(staged).op = "resume" => Head(staged).job \in Job
      BY StagedType DEF IndInv, Action
    <3> QED
      BY <2>1, <2>4, <3>1 DEF HasDirectory, IndInv, HeadInv
  <2> QED
    BY <1>1, <2>1, <2>5, <2>6, SeatsShrink DEF IndInv, TodoInv, ConfigInv
<1> QED
  BY <1>2, <1>3

\* Init establishes every conjunct of the invariant.
LEMMA InitInv == Init => IndInv
<1> SUFFICES ASSUME Init PROVE IndInv
  OBVIOUS
<1>1. TypeOK
  <2>1. job \in [Job -> JobRecord]
    BY FreshType DEF Init
  <2>2. config \in JobsConfig
    BY JobsAssumption DEF Init
  <2>3. /\ dir \in [Job -> SUBSET Marker]
        /\ output \in [Job -> Outcome]
        /\ worker \in [Job -> Place]
    BY DEF Init, Outcome, Place
  <2>4. staged \in Seq(Action)
    BY DEF Init
  <2> QED
    BY <2>1, <2>2, <2>3, <2>4 DEF Init, TypeOK
<1>2. Occupied = {} /\ ProcessInv
  BY DEF Init, Occupied, ProcessInv, Unborn, NewJob
<1>3. SlotsBounded
  BY <1>1, <1>2, FS_EmptySet DEF SlotsBounded, TypeOK, JobsConfig
<1> QED
  BY <1>1, <1>2, <1>3 DEF Init, IndInv, HeadInv, TodoInv, ConfigInv

\* Every step, taken apart by the actor that takes it, preserves the invariant.
LEMMA NextInv == IndInv /\ [Next]_vars => IndInv'
<1> SUFFICES ASSUME IndInv, [Next]_vars PROVE IndInv'
  OBVIOUS
<1>1. TypeOK'
  BY TypeStep DEF IndInv
<1>2. CASE Acknowledge
  <2>1. UNCHANGED <<config, records, job, staged, step, thread, todo>> /\ phase' = "commit"
    BY <1>2 DEF Acknowledge, managerVars, threadVars
  <2>2. Occupied' = Occupied
    BY <2>1 DEF Occupied
  <2> QED
    BY <1>1, <2>1, <2>2, SeatsShrink
    DEF IndInv, HeadInv, HasDirectory, TodoInv, ConfigInv, ProcessInv
<1>3. CASE Abandon
  <2>1. /\ UNCHANGED <<config, records, phase, step, thread, todo>> /\ staged' = <<>>
        /\ phase = "dispatch"
        /\ \A k \in Job : job'[k] \in {job[k], Unborn}
    BY <1>3 DEF Abandon, managerVars, threadVars
  <2>2. ~Unborn.process /\ Unborn.status \notin Live
    BY DEF Unborn, NewJob, Live
  <2>3. Occupied' \subseteq Occupied
    BY <2>1, <2>2 DEF Occupied, IndInv, TypeOK
  <2>4. ProcessInv'
    <3> SUFFICES ASSUME NEW k \in Job, job'[k].process
                 PROVE  k \in records' /\ job'[k].status # "queued"
      BY DEF ProcessInv
    <3>1. job'[k] = job[k]
      BY <2>1, <2>2
    <3> QED
      BY <2>1, <3>1 DEF IndInv, ProcessInv
  <2>5. HeadInv'
    <3>1. step = "none" /\ step' = "none" /\ phase' = "dispatch"
      BY <2>1 DEF IndInv, HeadInv
    <3> QED
      BY <3>1 DEF HeadInv
  <2>6. TodoInv'
    BY <2>1 DEF IndInv, TodoInv, HeadInv
  <2>7. ConfigInv'
    <3>1. DOMAIN staged' = {}
      BY <2>1
    <3> QED
      BY <2>1, <3>1 DEF ConfigInv
  <2> QED
    BY <1>1, <2>1, <2>3, <2>4, <2>5, <2>6, <2>7, SeatsShrink DEF IndInv
<1>4. CASE UNCHANGED vars
  BY <1>1, <1>4, FrameStep DEF vars
<1> QED
  BY <1>2, <1>3, <1>4, DispatchStep, CommitStep, SchedulerStep, WorkerStep DEF Next

\* The inductive invariant holds in every reachable state.
THEOREM Inductive == Spec => []IndInv
BY InitInv, NextInv, PTL DEF Spec

\* Every variable stays in its type, for every set of jobs and limits.
THEOREM TypeCorrect == Spec => []TypeOK
<1>1. IndInv => TypeOK
  BY DEF IndInv
<1> QED
  BY <1>1, Inductive, PTL

\* Whatever the client, the scheduler, the workers and the clock interleave, jobs with
\* a live process never outnumber the configured workers (_run and _start in manager.py).
THEOREM WorkerLimit == Spec => []SlotsBounded
<1>1. IndInv => SlotsBounded
  BY DEF IndInv
<1> QED
  BY <1>1, Inductive, PTL

-----------------------------------------------------------------------------
(* Ownership of the worker processes.                                      *)

\* The positions in the statement at which an operation on a job is staged.
At(op, j) == {i \in DOMAIN staged : staged[i].op = op /\ staged[i].job = j}

\* A pass belongs to an open manager, polls started jobs and then starts queued ones.
PassInv ==
  /\ thread \in {"polling", "starting"} => ~closed
  /\ thread = "polling" => \A j \in todo : job[j].process
  /\ thread = "starting" => \A j \in todo : job[j].status = "queued"

\* A submission is staged once, and its job is not retained before it is applied.
BornInv ==
  \A j \in Job :
    /\ j \in records => job[j].status # "unborn"
    /\ \A i, k \in At("submit", j) : job[j].status # "unborn" /\ j \notin records /\ i = k

\* Until the statement is committed, a job to be resumed stays paused unless it has a
\* process, which can end.
ResumeInv ==
  phase = "dispatch" =>
    \A j \in Job : At("resume", j) # {} => job[j].process \/ job[j].status = "paused"

\* A job to be released is over, and no resume of the same statement will queue it again.
ReleaseInv ==
  \A j \in Job : \A i \in At("release", j) :
    /\ job[j].status \in Terminal \cup {"released"}
    /\ \A k \in At("resume", j) : k < i /\ job[j].process

OwnInv == WorkersOwned /\ PassInv /\ BornInv /\ ResumeInv /\ ReleaseInv
-----------------------------------------------------------------------------
(* What is staged.                                                         *)

\* Staging one more operation adds at most one position, behind all the others.
LEMMA AtAppend ==
  ASSUME TypeOK, NEW a \in Action, staged' = Append(staged, a), NEW op, NEW j
  PROVE  /\ At(op, j)' = At(op, j) \cup (IF a.op = op /\ a.job = j THEN {Len(staged) + 1} ELSE {})
         /\ At(op, j) \subseteq 1 .. Len(staged) /\ Len(staged) \in Nat
<1>1. /\ staged \in Seq(Action) /\ Len(staged) \in Nat
      /\ DOMAIN staged = 1 .. Len(staged) /\ DOMAIN staged' = 1 .. Len(staged) + 1
  BY DEF TypeOK
<1>2. \A i \in 1 .. Len(staged) : staged'[i] = staged[i]
  BY <1>1
<1>3. staged'[Len(staged) + 1] = a
  BY <1>1
<1>4. 1 .. Len(staged) + 1 = (1 .. Len(staged)) \cup {Len(staged) + 1}
  BY <1>1
<1> QED
  BY <1>1, <1>2, <1>3, <1>4 DEF At

\* Applying the head moves every other operation one position forward.
LEMMA AtTail ==
  ASSUME TypeOK, staged # <<>>, staged' = Tail(staged), NEW op, NEW j, NEW i \in At(op, j)'
  PROVE  i + 1 \in At(op, j) /\ i \in Nat \ {0}
<1>1. /\ staged \in Seq(Action) /\ Len(staged) \in Nat
      /\ DOMAIN staged = 1 .. Len(staged) /\ DOMAIN staged' = 1 .. Len(staged) - 1
  BY DEF TypeOK
<1>2. i \in 1 .. Len(staged) - 1 /\ staged'[i].op = op /\ staged'[i].job = j
  BY <1>1 DEF At
<1>3. staged'[i] = staged[i + 1]
  BY <1>1, <1>2
<1> QED
  BY <1>1, <1>2, <1>3 DEF At

\* The head is staged at the first position.
LEMMA AtHead ==
  ASSUME TypeOK, staged # <<>>
  PROVE  1 \in At(Head(staged).op, Head(staged).job)
<1>1. staged \in Seq(Action) /\ Len(staged) \in Nat /\ Len(staged) > 0 /\ DOMAIN staged = 1 .. Len(staged)
  BY DEF TypeOK
<1>2. Head(staged) = staged[1]
  BY <1>1
<1> QED
  BY <1>1, <1>2 DEF At

\* An empty statement stages nothing.
LEMMA AtEmpty ==
  ASSUME staged' = <<>>, NEW op, NEW j
  PROVE  At(op, j)' = {}
BY DEF At

\* What is staged only shrinks towards the front.
Shortened == staged' = staged \/ (staged # <<>> /\ staged' = Tail(staged)) \/ staged' = <<>>

\* BornInv survives a shortened statement that retains at most the job submitted first.
LEMMA BornFrame ==
  ASSUME TypeOK, BornInv, Shortened,
         \A j \in Job : j \in records' =>
            j \in records \/ (1 \in At("submit", j) /\ staged # <<>> /\ staged' = Tail(staged)),
         \A j \in Job : job[j].status # "unborn" => job'[j].status # "unborn"
  PROVE  BornInv'
<1> SUFFICES ASSUME NEW j \in Job
             PROVE  /\ j \in records' => job'[j].status # "unborn"
                    /\ \A i, k \in At("submit", j)' :
                          job'[j].status # "unborn" /\ j \notin records' /\ i = k
  BY DEF BornInv
<1>1. j \in records' => job'[j].status # "unborn"
  BY DEF BornInv
<1>2. CASE staged' = staged
  BY <1>1, <1>2 DEF BornInv, At
<1>3. CASE staged # <<>> /\ staged' = Tail(staged)
  <2> SUFFICES ASSUME NEW i \in At("submit", j)', NEW k \in At("submit", j)'
               PROVE  job'[j].status # "unborn" /\ j \notin records' /\ i = k
    BY <1>1
  <2>1. i + 1 \in At("submit", j) /\ k + 1 \in At("submit", j) /\ i \in Nat \ {0} /\ k \in Nat \ {0}
    BY <1>3, AtTail
  <2>2. 1 \notin At("submit", j)
    <3> SUFFICES ASSUME 1 \in At("submit", j) PROVE FALSE
      OBVIOUS
    <3>1. i + 1 = 1
      BY <2>1 DEF BornInv
    <3> QED
      BY <2>1, <3>1
  <2>3. i + 1 = k + 1 /\ job[j].status # "unborn" /\ j \notin records
    BY <2>1 DEF BornInv
  <2> QED
    BY <2>1, <2>2, <2>3
<1>4. CASE staged' = <<>>
  BY <1>1, <1>4, AtEmpty
<1> QED
  BY <1>2, <1>3, <1>4 DEF Shortened

\* ReleaseInv survives a shortened statement that brings no job to be released back.
LEMMA ReleaseFrame ==
  ASSUME TypeOK, ReleaseInv, Shortened,
         \A j \in Job : At("release", j) # {} /\
            job[j].status \in Terminal \cup {"released"} => job'[j].status \in Terminal \cup {"released"},
         \A j \in Job : job[j].process =>
            job'[j].process \/ (1 \in At("release", j) /\ staged # <<>> /\ staged' = Tail(staged))
  PROVE  ReleaseInv'
<1> SUFFICES ASSUME NEW j \in Job, NEW i \in At("release", j)'
             PROVE  /\ job'[j].status \in Terminal \cup {"released"}
                    /\ \A k \in At("resume", j)' : k < i /\ job'[j].process
  BY DEF ReleaseInv
<1>1. CASE staged' = staged
  <2>1. At("release", j)' = At("release", j) /\ At("resume", j)' = At("resume", j)
    BY <1>1 DEF At
  <2>2. staged = <<>> \/ staged' # Tail(staged)
    BY <1>1 DEF TypeOK
  <2> QED
    BY <2>1, <2>2 DEF ReleaseInv
<1>2. CASE staged # <<>> /\ staged' = Tail(staged)
  <2>1. i + 1 \in At("release", j) /\ i \in Nat \ {0}
    BY <1>2, AtTail
  <2>2. job'[j].status \in Terminal \cup {"released"}
    BY <2>1 DEF ReleaseInv
  <2>3. ASSUME NEW k \in At("resume", j)'
        PROVE  k < i /\ job'[j].process
    <3>1. k + 1 \in At("resume", j) /\ k \in Nat \ {0}
      BY <1>2, <2>3, AtTail
    <3>2. k + 1 < i + 1 /\ job[j].process
      BY <2>1, <3>1 DEF ReleaseInv
    <3>3. 1 \notin At("release", j)
      <4> SUFFICES ASSUME 1 \in At("release", j) PROVE FALSE
        OBVIOUS
      <4>1. k + 1 < 1
        BY <3>1 DEF ReleaseInv
      <4> QED
        BY <3>1, <4>1
    <3> QED
      BY <2>1, <3>1, <3>2, <3>3
  <2> QED
    BY <2>2, <2>3
<1>3. CASE staged' = <<>>
  BY <1>3, AtEmpty
<1> QED
  BY <1>1, <1>2, <1>3 DEF Shortened
-----------------------------------------------------------------------------
(* What the manager does to a record.                                      *)

Over == Terminal \cup {"released"}

\* A cancellation leaves a seated job seated and a job that is over as it is.
LEMMA CancelledKeeps ==
  ASSUME NEW r \in JobRecord
  PROVE  /\ r.status \in Live /\ r.process => Cancelled(r).status = r.status
         /\ r.status \in Over => Cancelled(r).status \in Over
         /\ r.status # "unborn" => Cancelled(r).status # "unborn"
<1>1. r.status \in Live => r.status \notin Terminal
  BY DEF Live, Terminal
<1>2. r.status \in Live /\ r.process => Cancelled(r).status = r.status
  BY <1>1 DEF Cancelled, JobRecord
<1>3. r.status \in Over => Cancelled(r).status \in Over
  BY SeatFields DEF Over, Terminal
<1>4. r.status # "unborn" => Cancelled(r).status # "unborn"
  BY SeatFields
<1> QED
  BY <1>2, <1>3, <1>4

\* A recorded error changes neither of the fields that seat a job.
LEMMA ErrorKept ==
  ASSUME NEW r \in JobRecord, NEW e \in {"memory", "other"}
  PROVE  /\ [r EXCEPT !.error = e] \in JobRecord
         /\ [r EXCEPT !.error = e].process = r.process
         /\ [r EXCEPT !.error = e].status = r.status
BY DEF JobRecord

\* A poll leaves a seated job seated.
LEMMA InspectedKeeps ==
  ASSUME NEW r \in JobRecord, r.status \in Live, r.process,
         NEW a \in BOOLEAN, NEW b \in BOOLEAN, NEW c \in BOOLEAN
  PROVE  Inspected(r, a, b, c).status \in Live
<1> DEFINE acked == IF ~a THEN r
                    ELSE IF b THEN [r EXCEPT !.status = "paused", !.pause_state = TRUE]
                    ELSE Cancelled([r EXCEPT !.error = "other"])
           sampled == IF c THEN Cancelled([acked EXCEPT !.error = "memory"]) ELSE acked
           killed == sampled.forced \/ sampled.cancel_time = "expired"
<1>1. Inspected(r, a, b, c) = [sampled EXCEPT !.forced = killed]
  BY DEF Inspected
<1>2. acked \in JobRecord /\ acked.process /\ acked.status \in Live
  <2>1. CASE ~a
    BY <2>1
  <2>2. CASE a /\ b
    <3>1. acked = [r EXCEPT !.status = "paused", !.pause_state = TRUE]
      BY <2>2
    <3>2. [r EXCEPT !.status = "paused", !.pause_state = TRUE] \in JobRecord
      BY FieldsType DEF Status, Live
    <3> HIDE DEF acked
    <3> QED
      BY <3>1, <3>2 DEF JobRecord, Live
  <2>3. CASE a /\ ~b
    <3> DEFINE q == [r EXCEPT !.error = "other"]
    <3>1. acked = Cancelled(q)
      BY <2>3
    <3>2. q \in JobRecord /\ q.process /\ q.status \in Live
      BY ErrorKept
    <3> HIDE DEF acked, q
    <3> QED
      BY <3>1, <3>2, CancelledKeeps, CancelledType, SeatFields
  <2> QED
    BY <2>1, <2>2, <2>3
<1> HIDE DEF acked
<1>3. sampled \in JobRecord /\ sampled.status \in Live
  <2>1. CASE ~c
    BY <1>2, <2>1
  <2>2. CASE c
    <3> DEFINE q == [acked EXCEPT !.error = "memory"]
    <3>1. sampled = Cancelled(q)
      BY <2>2
    <3>2. q \in JobRecord /\ q.process /\ q.status \in Live
      BY <1>2, ErrorKept
    <3> HIDE DEF sampled, q
    <3> QED
      BY <3>1, <3>2, CancelledKeeps, CancelledType
  <2> QED
    BY <2>1, <2>2
<1> HIDE DEF sampled
<1> QED
  BY <1>1, <1>3 DEF JobRecord

\* A seated worker stays seated, or is dead: what a step must not break.
Seated(j) == job[j].status \in Live /\ job[j].process /\ j \in records

\* WorkersOwned survives a step that kills, keeps or never had the workers that are
\* alive, and does not close the manager or send the thread away under them.
LEMMA OwnedFrame ==
  ASSUME TypeOK, WorkersOwned,
         \A j \in Job : Alive(j)' => Alive(j) /\ Seated(j)',
         closed' => closed \/ \A j \in Job : ~Alive(j)',
         thread \in {"waiting", "polling", "starting"} =>
            thread' \in {"waiting", "polling", "starting"} \/ \A j \in Job : ~Alive(j)'
  PROVE  WorkersOwned'
BY DEF WorkersOwned, Seated, Occupied

\* The owner of a live worker, unfolded.
LEMMA OwnedFacts ==
  ASSUME WorkersOwned, NEW j \in Job, Alive(j)
  PROVE  Seated(j) /\ ~closed /\ thread \in {"waiting", "polling", "starting"}
BY DEF WorkersOwned, Seated, Occupied
-----------------------------------------------------------------------------
(* The client's steps.                                                     *)

\* What the committed actions do to the jobs: no live worker loses its seat, no job
\* to be released comes back, and only a release takes a process from a record.
CommitKeeps ==
  \A k \in Job :
    /\ job[k].status # "unborn" => job'[k].status # "unborn"
    /\ Alive(k)' => Alive(k) /\ Seated(k)'
    /\ At("release", k) # {} /\ job[k].status \in Over => job'[k].status \in Over
    /\ job[k].process => job'[k].process \/ (1 \in At("release", k) /\ staged # <<>> /\ staged' = Tail(staged))

\* Each committed action keeps every job in the way CommitKeeps says.
LEMMA CommitKeepsJobs == ASSUME IndInv, OwnInv, Commit PROVE CommitKeeps
<1> USE DEF managerVars, transportVars, threadVars, clientVars, IndInv, OwnInv
<1>t. /\ staged # <<>> => Head(staged) \in Action
      /\ \A a \in Action : a.op \in {"submit", "cancel", "pause", "resume", "release"} => a.job \in Job
  BY StagedType DEF Action
<1>j. \A k \in Job : job[k] \in JobRecord /\ (Alive(k) => Seated(k))
  BY OwnedFacts DEF TypeOK
<1>a. ASSUME UNCHANGED <<worker, records>>,
             \A k \in Job : /\ job'[k].process = job[k].process
                            /\ job[k].status # "unborn" => job'[k].status # "unborn"
                            /\ Alive(k) => job'[k].status \in Live
                            /\ At("release", k) # {} /\ job[k].status \in Over => job'[k].status \in Over
      PROVE  CommitKeeps
  BY <1>a, <1>j DEF CommitKeeps, Seated, Alive
<1>1. CASE CommitConfigure \/ ResumeUnlinkPaused \/ CommitResumeRaises
  <2>1. UNCHANGED <<worker, records, job>>
    BY <1>1 DEF CommitConfigure, ResumeUnlinkPaused, CommitResumeRaises
  <2> QED
    BY <2>1, <1>a, <1>j DEF Seated
<1>2. CASE CommitSubmit
  <2> PICK j \in Job : j = Head(staged).job
    BY <1>2, <1>t DEF CommitSubmit, Committing
  <2>1. staged # <<>> /\ Head(staged).op = "submit" /\ UNCHANGED worker /\ records' = records \cup {j}
    BY <1>2 DEF CommitSubmit, Committing
  <2>2. 1 \in At("submit", j)
    BY <2>1, AtHead
  <2>3. j \notin records /\ job[j].status # "unborn"
    BY <2>2 DEF BornInv
  <2>4. job' = job \/ job' = [job EXCEPT ![j] = [@ EXCEPT !.status = "failed", !.error = "other"]]
    BY <1>2 DEF CommitSubmit
  <2>5. /\ [job[j] EXCEPT !.status = "failed", !.error = "other"].process = job[j].process
        /\ [job[j] EXCEPT !.status = "failed", !.error = "other"].status = "failed"
    BY <1>j, SeatKept
  <2>6. \A k \in Job : /\ job'[k].process = job[k].process
                       /\ job'[k].status = job[k].status \/ (k = j /\ job'[k].status = "failed")
    BY <2>4, <2>5 DEF TypeOK
  <2>7. \A k \in Job : Alive(k) => k # j
    BY <1>j, <2>3 DEF Seated
  <2> QED
    BY <1>j, <2>1, <2>6, <2>7 DEF CommitKeeps, Seated, Alive, Over, Terminal
<1>3. CASE CommitCancel \/ CloseBegin
  <2>1. UNCHANGED <<worker, records>> /\ \A k \in Job : job'[k] = job[k] \/ job'[k] = Cancelled(job[k])
    BY <1>3 DEF CommitCancel, CloseBegin, TypeOK
  <2>2. \A k \in Job : /\ Cancelled(job[k]).process = job[k].process
                       /\ Alive(k) => Cancelled(job[k]).status \in Live
                       /\ job[k].status \in Over => Cancelled(job[k]).status \in Over
                       /\ job[k].status # "unborn" => Cancelled(job[k]).status # "unborn"
    BY <1>j, CancelledKeeps, SeatFields DEF Seated
  <2> QED
    BY <1>a, <1>j, <2>1, <2>2 DEF Seated
<1>4. CASE CommitPause
  <2> PICK j \in Job : j = Head(staged).job
    BY <1>4, <1>t DEF CommitPause, Committing
  <2>1. \/ job[j].status = "running" /\ job' = [job EXCEPT ![j] = [@ EXCEPT !.status = "pausing"]]
        \/ job' = [job EXCEPT ![j] = [@ EXCEPT !.error = "other"]]
        \/ job[j].status = "queued" /\ job' = [job EXCEPT ![j] = [@ EXCEPT !.status = "paused"]]
        \/ job' = [job EXCEPT ![j] = [@ EXCEPT !.status = job[j].status]]
    BY <1>4 DEF CommitPause
  <2>2. {"pausing", "paused", job[j].status} \subseteq Status
    BY <1>j DEF JobRecord, Status, Live
  <2>3. /\ [job[j] EXCEPT !.status = "pausing"].process = job[j].process
        /\ [job[j] EXCEPT !.status = "pausing"].status = "pausing"
        /\ [job[j] EXCEPT !.status = "paused"].process = job[j].process
        /\ [job[j] EXCEPT !.status = "paused"].status = "paused"
        /\ [job[j] EXCEPT !.status = job[j].status].process = job[j].process
        /\ [job[j] EXCEPT !.status = job[j].status].status = job[j].status
        /\ [job[j] EXCEPT !.error = "other"].process = job[j].process
        /\ [job[j] EXCEPT !.error = "other"].status = job[j].status
    BY <1>j, <2>2, SeatKept
  <2>4. \A k \in Job : /\ job'[k].process = job[k].process
                       /\ \/ job'[k].status = job[k].status
                          \/ job[k].status \in {"running", "queued"} /\ job'[k].status \in {"pausing", "paused"}
    BY <2>1, <2>3 DEF TypeOK
  <2>5. UNCHANGED <<worker, records>>
    BY <1>4 DEF CommitPause
  <2> QED
    BY <1>a, <1>j, <2>4, <2>5 DEF Seated, Live, Over, Terminal
<1>5. CASE CommitResumeQueued
  <2> PICK j \in Job : j = Head(staged).job
    BY <1>5, <1>t DEF CommitResumeQueued, Committing
  <2>1. /\ staged # <<>> /\ Head(staged).op = "resume" /\ UNCHANGED <<worker, records>>
        /\ ~job[j].process
    BY <1>5 DEF CommitResumeQueued, Committing
  <2>2. At("release", j) = {}
    <3>1. 1 \in At("resume", j)
      BY <2>1, AtHead
    <3> QED
      BY <2>1, <3>1 DEF ReleaseInv
  <2>3. \A k \in Job : /\ job'[k].process = job[k].process
                       /\ k # j => job'[k] = job[k]
                       /\ k = j => job'[k].status \in {"queued", "failed"}
    BY <1>5, <1>j DEF CommitResumeQueued, TypeOK, JobRecord
  <2> QED
    BY <1>a, <1>j, <2>1, <2>2, <2>3 DEF Seated
<1>6. CASE ResumeTouch
  <2> PICK j \in Job : j = Head(staged).job
    BY <1>6, <1>t DEF ResumeTouch, Committing
  <2>1. job' = job \/ job' = [job EXCEPT ![j] = [@ EXCEPT !.error = "other"]]
    BY <1>6 DEF ResumeTouch
  <2>2. /\ [job[j] EXCEPT !.error = "other"].process = job[j].process
        /\ [job[j] EXCEPT !.error = "other"].status = job[j].status
    BY <1>j, SeatKept
  <2>3. \A k \in Job : job'[k].process = job[k].process /\ job'[k].status = job[k].status
    BY <2>1, <2>2 DEF TypeOK
  <2>4. UNCHANGED <<worker, records>>
    BY <1>6 DEF ResumeTouch
  <2> QED
    BY <1>a, <1>j, <2>3, <2>4 DEF Seated
<1>7. CASE ResumeUnlinkPause
  <2>1. staged # <<>> /\ Head(staged).op = "resume" /\ HasDirectory(Head(staged).job)
    BY <1>7 DEF ResumeUnlinkPause, HeadInv
  <2> PICK j \in Job : j = Head(staged).job
    BY <2>1, <1>t
  <2>2. job[j].status \notin Over
    BY <2>1 DEF HasDirectory, Live, Over, Terminal
  <2>3. \A k \in Job : /\ job'[k].process = job[k].process
                       /\ job'[k].status = IF k = j THEN "running" ELSE job[k].status
    BY <1>7, <1>j DEF ResumeUnlinkPause, TypeOK, JobRecord
  <2>4. UNCHANGED <<worker, records>>
    BY <1>7 DEF ResumeUnlinkPause
  <2> QED
    BY <1>a, <1>j, <2>2, <2>3, <2>4 DEF Seated, Live
<1>8. CASE CommitRelease
  <2> PICK j \in Job : j = Head(staged).job
    BY <1>8, <1>t DEF CommitRelease, Committing
  <2>1. /\ staged # <<>> /\ Head(staged).op = "release" /\ UNCHANGED worker /\ records' = records \ {j}
        /\ staged' = Tail(staged) /\ job' = IF j \in records THEN [job EXCEPT ![j] = Gone(@)] ELSE job
    BY <1>8 DEF CommitRelease, Committing, Advance
  <2>2. 1 \in At("release", j)
    BY <2>1, AtHead
  <2>3. job[j].status \in Over
    BY <2>2 DEF ReleaseInv, Over
  <2>4. ~Alive(j)
    BY <1>j, <2>3 DEF Seated, Live, Over, Terminal
  <2>5. Gone(job[j]).status = "released"
    BY DEF Gone, NewJob
  <2>6. \A k \in Job : (k # j => job'[k] = job[k]) /\ (k = j => job'[k] = job[k] \/ job'[k].status = "released")
    BY <2>1, <2>5 DEF TypeOK
  <2> QED
    BY <1>j, <2>1, <2>2, <2>4, <2>6 DEF CommitKeeps, Seated, Alive, Over
<1>9. CASE CloseEnd
  <2>1. \A k \in Job : Alive(k)' => Alive(k) /\ k \notin Occupied
    BY <1>9 DEF CloseEnd, ClearTransport, Alive
  <2>2. \A k \in Job : ~Alive(k)'
    BY <2>1 DEF WorkersOwned
  <2>3. ASSUME NEW k \in Job
        PROVE  job'[k] = job[k] \/ (job'[k].process = job[k].process /\ job'[k].status \in Terminal)
    <3> DEFINE q == [job[k] EXCEPT !.forced = TRUE]
    <3>1. job[k] \in JobRecord /\ output[k] \in Outcome
      BY DEF TypeOK
    <3>2. q \in JobRecord /\ q.process = job[k].process
      BY <3>1, FieldsType, SeatKept
    <3>3. job'[k] = IF k \in Occupied THEN Finished(q, output[k]) ELSE job[k]
      BY <1>9 DEF CloseEnd
    <3> HIDE DEF q
    <3> QED
      BY <3>1, <3>2, <3>3, SeatFields, FinishedType
  <2>4. "unborn" \notin Terminal
    BY DEF Terminal
  <2> QED
    BY <2>2, <2>3, <2>4 DEF CommitKeeps, Over
<1> QED
  BY <1>1, <1>2, <1>3, <1>4, <1>5, <1>6, <1>7, <1>8, <1>9 DEF Commit

\* How the committed actions move through the statement, with the lock not held by
\* a pass of the scheduler.
LEMMA CommitMoves ==
  ASSUME IndInv, Commit
  PROVE  /\ Shortened /\ (phase' = "dispatch" => staged' = <<>>)
         /\ thread \notin {"polling", "starting"} /\ thread' \notin {"polling", "starting"}
         /\ thread = "waiting" => thread' = "waiting"
         /\ \A j \in Job : j \in records' =>
               j \in records \/ (1 \in At("submit", j) /\ staged # <<>> /\ staged' = Tail(staged))
<1> USE DEF managerVars, transportVars, threadVars, clientVars, IndInv
<1>1. thread \notin {"polling", "starting"} /\ staged # <<>> /\ staged \in Seq(Action) /\ phase = "commit"
  BY DEF Commit, CommitConfigure, CommitSubmit, CommitCancel, CommitPause, CommitResumeQueued,
         ResumeTouch, ResumeUnlinkPaused, ResumeUnlinkPause, CommitResumeRaises, CommitRelease,
         CloseBegin, CloseEnd, Committing, LockFree, HeadInv, TypeOK
<1>2. \/ Advance
      \/ staged' = staged /\ phase' = phase
      \/ staged' = <<>> /\ phase' = "dispatch"
  BY DEF Commit, CommitConfigure, CommitSubmit, CommitCancel, CommitPause, CommitResumeQueued,
         ResumeTouch, ResumeUnlinkPaused, ResumeUnlinkPause, CommitResumeRaises, CommitRelease,
         CloseBegin, CloseEnd
<1>3. Advance => staged' = Tail(staged) /\ (phase' = "dispatch" => staged' = <<>>)
  BY <1>1 DEF Advance
<1>4. thread' = thread \/ (thread = "off" /\ thread' = "waiting")
  BY DEF Commit, CommitConfigure, CommitSubmit, CommitCancel, CommitPause, CommitResumeQueued,
         ResumeTouch, ResumeUnlinkPaused, ResumeUnlinkPause, CommitResumeRaises, CommitRelease,
         CloseBegin, CloseEnd, EnsureThread, ThreadRefused
<1>5. \A j \in Job : j \in records' =>
         j \in records \/ (1 \in At("submit", j) /\ staged # <<>> /\ staged' = Tail(staged))
  <2>1. CASE CommitSubmit
    BY <1>1, <2>1, AtHead DEF CommitSubmit, Committing, Advance
  <2>2. CASE ~CommitSubmit
    BY <2>2 DEF Commit, CommitConfigure, CommitCancel, CommitPause, CommitResumeQueued,
         ResumeTouch, ResumeUnlinkPaused, ResumeUnlinkPause, CommitResumeRaises, CommitRelease,
         CloseBegin, CloseEnd
  <2> QED
    BY <2>1, <2>2
<1> QED
  BY <1>1, <1>2, <1>3, <1>4, <1>5 DEF Shortened

\* Only the end of a shutdown closes the manager, and leaves no worker alive.
LEMMA CommitCloses ==
  ASSUME WorkersOwned, Commit
  PROVE  closed' => closed \/ \A j \in Job : ~Alive(j)'
<1> USE DEF managerVars
<1>1. CASE CloseEnd
  <2>1. \A k \in Job : Alive(k)' => Alive(k) /\ k \notin Occupied
    BY <1>1 DEF CloseEnd, ClearTransport, Alive
  <2> QED
    BY <2>1 DEF WorkersOwned
<1>2. CASE ~CloseEnd
  BY <1>2 DEF Commit, CommitConfigure, CommitSubmit, CommitCancel, CommitPause, CommitResumeQueued,
         ResumeTouch, ResumeUnlinkPaused, ResumeUnlinkPause, CommitResumeRaises, CommitRelease,
         CloseBegin
<1> QED
  BY <1>1, <1>2

\* Committing the staged actions orphans no worker.
LEMMA CommitOwned == ASSUME IndInv, OwnInv, Commit PROVE OwnInv'
<1>1. CommitKeeps
  BY CommitKeepsJobs
<1>2. WorkersOwned'
  BY <1>1, CommitMoves, CommitCloses, OwnedFrame DEF CommitKeeps, IndInv, OwnInv
<1>3. PassInv'
  BY CommitMoves DEF PassInv
<1>4. BornInv'
  BY <1>1, CommitMoves, BornFrame DEF CommitKeeps, IndInv, OwnInv
<1>5. ResumeInv'
  BY CommitMoves, AtEmpty DEF ResumeInv
<1>6. ReleaseInv'
  BY <1>1, CommitMoves, ReleaseFrame DEF CommitKeeps, IndInv, OwnInv, Over
<1> QED
  BY <1>2, <1>3, <1>4, <1>5, <1>6 DEF OwnInv

\* Dispatch changes only jobs not yet born, under the lock.
LEMMA DispatchJobs ==
  ASSUME IndInv, OwnInv, Dispatch
  PROVE  /\ UNCHANGED <<records, closed, worker, thread, todo, phase>> /\ phase = "dispatch"
         /\ thread \notin {"polling", "starting"}
         /\ \A j \in Job : \/ job'[j] = job[j]
                           \/ job[j].status = "unborn" /\ job'[j].status = "queued" /\ j \notin records
<1> USE DEF managerVars, transportVars, threadVars, clientVars
<1>1. /\ UNCHANGED <<records, closed, worker, thread, todo, phase>> /\ phase = "dispatch"
      /\ thread \notin {"polling", "starting"}
  BY DEF Dispatch, Dispatching, LockFree, DispatchConfigure, DispatchSubmit, DispatchRestart,
         DispatchPause, DispatchResume, DispatchCancel, DispatchRelease, DispatchShutdown
<1>2. \/ job' = job
      \/ \E k \in Job, s \in Shape, n \in Nat :
            job' = [job EXCEPT ![k] = NewJob(s, n)] /\ job[k].status = "unborn"
  <2>1. ASSUME NEW j \in Job, NEW s \in Shape, DispatchSubmit(j, s)
        PROVE  \E k \in Job, t \in Shape, n \in Nat :
                  job' = [job EXCEPT ![k] = NewJob(t, n)] /\ job[k].status = "unborn"
    BY <2>1, NextSeqType DEF DispatchSubmit
  <2>2. ASSUME NEW j \in Job, NEW m \in Job, DispatchRestart(j, m)
        PROVE  \E k \in Job, t \in Shape, n \in Nat :
                  job' = [job EXCEPT ![k] = NewJob(t, n)] /\ job[k].status = "unborn"
    <3>1. job[j].shape \in Shape
      BY DEF IndInv, TypeOK, JobRecord
    <3> QED
      BY <2>2, <3>1, NextSeqType DEF DispatchRestart
  <2>3. ASSUME DispatchShutdown \/ (\E c \in Config : DispatchConfigure(c))
                 \/ \E j \in Job : DispatchPause(j) \/ DispatchResume(j) \/ DispatchCancel(j)
                                      \/ DispatchRelease(j)
        PROVE  job' = job
    BY <2>3 DEF DispatchConfigure, DispatchPause, DispatchResume, DispatchCancel, DispatchRelease,
                DispatchShutdown
  <2> QED
    BY <2>1, <2>2, <2>3 DEF Dispatch
<1>3. \A s \in Shape, n \in Nat : NewJob(s, n).status = "queued"
  BY DEF NewJob
<1> QED
  BY <1>1, <1>2, <1>3 DEF IndInv, TypeOK, OwnInv, BornInv

\* What one dispatched operation adds, at the last position n: a submission of a job
\* not yet born, a resume of a paused job, or a release of one that is over.
Staging(n) ==
  \A k \in Job :
    /\ \A op \in {"submit", "resume", "release"} :
         At(op, k)' \subseteq At(op, k) \cup {n} /\ \A i \in At(op, k) : i \in Nat /\ i < n
    /\ n \in At("submit", k)' => job[k].status = "unborn" /\ job'[k].status = "queued"
    /\ n \in At("resume", k)' => job[k].status = "paused"
    /\ n \in At("release", k)' => job[k].status \in Terminal

\* One operation staged at the end.
LEMMA StagingOne ==
  ASSUME IndInv, NEW a \in Action, staged' = Append(staged, a),
         a.op = "submit" => job[a.job].status = "unborn" /\ job'[a.job].status = "queued",
         a.op = "resume" => job[a.job].status = "paused",
         a.op = "release" => job[a.job].status \in Terminal
  PROVE  Staging(Len(staged) + 1)
<1> DEFINE n == Len(staged) + 1
<1>1. ASSUME NEW op, NEW k
      PROVE  /\ At(op, k)' = At(op, k) \cup (IF a.op = op /\ a.job = k THEN {n} ELSE {})
             /\ At(op, k) \subseteq 1 .. Len(staged) /\ Len(staged) \in Nat
  BY AtAppend DEF IndInv
<1>2. \A op \in {"submit", "resume", "release"}, k \in Job :
         n \in At(op, k)' => a.op = op /\ a.job = k
  BY <1>1
<1>3. \A op \in {"submit", "resume", "release"}, k \in Job :
         At(op, k)' \subseteq At(op, k) \cup {n} /\ \A i \in At(op, k) : i \in Nat /\ i < n
  BY <1>1
<1> QED
  BY <1>2, <1>3 DEF Staging

\* A restart of a paused job stages its cancellation and then the submission.
LEMMA StagingTwo ==
  ASSUME IndInv, NEW a \in Action, NEW b \in Action, staged' = staged \o <<a, b>>,
         a.op = "cancel", b.op = "submit",
         job[b.job].status = "unborn", job'[b.job].status = "queued"
  PROVE  Staging(Len(staged) + 2)
<1> DEFINE n == Len(staged) + 2
<1>1. staged \in Seq(Action) /\ Len(staged) \in Nat /\ DOMAIN staged = 1 .. Len(staged)
  BY DEF IndInv, TypeOK
<1>2. PICK t \in Seq(Action) : t = <<a, b>> /\ Len(t) = 2 /\ t[1] = a /\ t[2] = b
  <2>1. <<a, b>> \in Seq(Action) /\ Len(<<a, b>>) = 2 /\ <<a, b>>[1] = a /\ <<a, b>>[2] = b
    OBVIOUS
  <2> QED
    BY <2>1, Zenon
<1>3. staged' = staged \o t
  BY <1>2
<1>4. DOMAIN staged' = 1 .. n /\ \A i \in 1 .. n :
         staged'[i] = IF i <= Len(staged) THEN staged[i] ELSE t[i - Len(staged)]
  <2>1. PICK old \in Seq(Action) : old = staged
    BY <1>1
  <2>2. PICK more : more = old \o t
    OBVIOUS
  <2>3. more \in Seq(Action) /\ Len(more) = Len(old) + 2
    BY <1>2, <2>1, <2>2
  <2>4. \A i \in 1 .. Len(old) + 2 : more[i] = IF i <= Len(old) THEN old[i] ELSE t[i - Len(old)]
    BY <1>2, <2>1, <2>2
  <2>5. staged' = more
    BY <1>3, <2>1, <2>2
  <2> QED
    BY <2>1, <2>3, <2>4, <2>5
<1>5. \A i \in 1 .. n : \/ i \in 1 .. Len(staged) /\ staged'[i] = staged[i]
                        \/ i < n /\ staged'[i] = a
                        \/ i = n /\ staged'[i] = b
  BY <1>1, <1>2, <1>4
<1>6. ASSUME NEW op \in {"submit", "resume", "release"}, NEW k \in Job
      PROVE  /\ At(op, k)' \subseteq At(op, k) \cup {n} /\ \A i \in At(op, k) : i \in Nat /\ i < n
             /\ n \in At(op, k)' => op = "submit" /\ k = b.job
  <2>1. \A i \in At(op, k) : i \in Nat /\ i < n
    BY <1>1 DEF At
  <2>2. ASSUME NEW i \in At(op, k)'
        PROVE  i \in At(op, k) \/ (i = n /\ op = "submit" /\ k = b.job)
    <3>1. i \in 1 .. n /\ staged'[i].op = op /\ staged'[i].job = k
      BY <1>4 DEF At
    <3>2. staged'[i] # a
      BY <3>1
    <3> QED
      BY <1>1, <1>5, <3>1, <3>2 DEF At
  <2>3. n \notin At(op, k)
    BY <2>1
  <2> QED
    BY <2>1, <2>2, <2>3
<1> QED
  BY <1>6 DEF Staging

\* Every dispatched operation is one of the two.
LEMMA DispatchStages ==
  ASSUME IndInv, OwnInv, Dispatch
  PROVE  \E n \in Nat : Staging(n)
<1>0. Len(staged) \in Nat
  BY DEF IndInv, TypeOK
<1>a. \A o \in {"submit", "cancel", "pause", "resume", "release"}, j \in Job :
        [op |-> o, job |-> j] \in Action
  BY DEF Action
<1>b. \A s \in Shape, n \in Nat : NewJob(s, n).status = "queued"
  BY DEF NewJob
<1>1. ASSUME NEW c \in Config, DispatchConfigure(c) PROVE \E n \in Nat : Staging(n)
  <2>1. staged = <<>> /\ staged' = Append(staged, [op |-> "configure", config |-> c])
    BY <1>1 DEF DispatchConfigure
  <2>2. [op |-> "configure", config |-> c] \in Action
    BY JobsAssumption DEF Action
  <2> QED
    BY <1>0, <2>1, <2>2, StagingOne
<1>2. ASSUME NEW j \in Job, NEW s \in Shape, DispatchSubmit(j, s) PROVE \E n \in Nat : Staging(n)
  <2>1. /\ staged' = Append(staged, [op |-> "submit", job |-> j])
        /\ job[j].status = "unborn" /\ job'[j].status = "queued"
    BY <1>2, <1>b, NextSeqType DEF DispatchSubmit, IndInv, TypeOK
  <2> QED
    BY <1>0, <1>a, <2>1, StagingOne
<1>3. ASSUME NEW j \in Job, NEW k \in Job, DispatchRestart(j, k) PROVE \E n \in Nat : Staging(n)
  <2> DEFINE a == [op |-> "cancel", job |-> j]
             b == [op |-> "submit", job |-> k]
  <2>1. job[j].shape \in Shape
    BY DEF IndInv, TypeOK, JobRecord
  <2>2. job[k].status = "unborn" /\ job'[k].status = "queued"
    BY <1>3, <1>b, <2>1, NextSeqType DEF DispatchRestart, IndInv, TypeOK
  <2>3. staged' = staged \o <<b>> \/ staged' = staged \o <<a, b>>
    BY <1>3 DEF DispatchRestart
  <2>4. a \in Action /\ b \in Action /\ a.op = "cancel" /\ b.op = "submit" /\ b.job = k
    BY <1>a
  <2> HIDE DEF a, b
  <2>5. CASE staged' = staged \o <<b>>
    <3>1. staged' = Append(staged, b)
      BY <2>4, <2>5 DEF IndInv, TypeOK
    <3> QED
      BY <1>0, <2>2, <2>4, <3>1, StagingOne
  <2>6. CASE staged' = staged \o <<a, b>>
    BY <1>0, <2>2, <2>4, <2>6, StagingTwo
  <2> QED
    BY <2>3, <2>5, <2>6
<1>4. ASSUME NEW j \in Job, DispatchPause(j) \/ DispatchCancel(j) PROVE \E n \in Nat : Staging(n)
  <2>1. \E o \in {"pause", "cancel"} : staged' = Append(staged, [op |-> o, job |-> j])
    BY <1>4 DEF DispatchPause, DispatchCancel
  <2> QED
    BY <1>0, <1>a, <2>1, StagingOne
<1>5. ASSUME NEW j \in Job, DispatchResume(j) PROVE \E n \in Nat : Staging(n)
  <2>1. staged' = Append(staged, [op |-> "resume", job |-> j]) /\ job[j].status = "paused"
    BY <1>5 DEF DispatchResume
  <2> QED
    BY <1>0, <1>a, <2>1, StagingOne
<1>6. ASSUME NEW j \in Job, DispatchRelease(j) PROVE \E n \in Nat : Staging(n)
  <2>1. staged' = Append(staged, [op |-> "release", job |-> j]) /\ job[j].status \in Terminal
    BY <1>6 DEF DispatchRelease
  <2> QED
    BY <1>0, <1>a, <2>1, StagingOne
<1>7. ASSUME DispatchShutdown PROVE \E n \in Nat : Staging(n)
  <2>1. staged' = Append(staged, [op |-> "shutdown"]) /\ [op |-> "shutdown"] \in Action
    BY <1>7 DEF DispatchShutdown, Action
  <2> QED
    BY <1>0, <2>1, StagingOne
<1> QED
  BY <1>1, <1>2, <1>3, <1>4, <1>5, <1>6, <1>7 DEF Dispatch

\* Dispatching an operation orphans no worker.
LEMMA DispatchOwned == ASSUME IndInv, OwnInv, Dispatch PROVE OwnInv'
<1> USE DEF IndInv, OwnInv
<1>1. PICK n \in Nat : Staging(n)
  BY DispatchStages
<1>2. /\ UNCHANGED <<records, closed, worker, thread, todo, phase>> /\ phase = "dispatch"
      /\ thread \notin {"polling", "starting"}
      /\ \A j \in Job : \/ job'[j] = job[j]
                        \/ job[j].status = "unborn" /\ job'[j].status = "queued" /\ j \notin records
  BY DispatchJobs
<1>3. \A j \in Job : job[j].process => job'[j] = job[j]
  BY <1>2 DEF ProcessInv
<1>4. WorkersOwned'
  BY <1>2, <1>3, OwnedFacts, OwnedFrame DEF Seated, Alive
<1>5. PassInv'
  BY <1>2 DEF PassInv
<1>6. BornInv'
  <2> SUFFICES ASSUME NEW j \in Job
               PROVE  /\ j \in records' => job'[j].status # "unborn"
                      /\ \A i, k \in At("submit", j)' :
                            job'[j].status # "unborn" /\ j \notin records' /\ i = k
    BY DEF BornInv
  <2>1. j \in records => job[j].status # "unborn"
    BY DEF BornInv
  <2>2. CASE job[j].status = "unborn"
    <3>1. At("submit", j) = {}
      BY <2>2 DEF BornInv
    <3>2. At("submit", j)' \subseteq {n} /\ (n \in At("submit", j)' => job'[j].status = "queued")
      BY <1>1, <3>1 DEF Staging
    <3> QED
      BY <1>2, <2>1, <2>2, <3>2
  <2>3. CASE job[j].status # "unborn"
    <3>1. job'[j] = job[j] /\ At("submit", j)' \subseteq At("submit", j)
      BY <1>1, <1>2, <2>3 DEF Staging
    <3> QED
      BY <1>2, <2>3, <3>1 DEF BornInv
  <2> QED
    BY <2>2, <2>3
<1>7. ResumeInv'
  <2> SUFFICES ASSUME NEW j \in Job, NEW i \in At("resume", j)'
               PROVE  job'[j].process \/ job'[j].status = "paused"
    BY DEF ResumeInv
  <2>1. i \in At("resume", j) \/ job[j].status = "paused"
    BY <1>1 DEF Staging
  <2>2. job[j].process \/ job[j].status = "paused"
    BY <1>2, <2>1 DEF ResumeInv
  <2> QED
    BY <1>2, <1>3, <2>2
<1>8. ReleaseInv'
  <2> SUFFICES ASSUME NEW j \in Job, NEW i \in At("release", j)'
               PROVE  /\ job'[j].status \in Terminal \cup {"released"}
                      /\ \A k \in At("resume", j)' : k < i /\ job'[j].process
    BY DEF ReleaseInv
  <2>1. job[j].status \in Over
    BY <1>1 DEF Staging, ReleaseInv, Over
  <2>2. job'[j] = job[j] /\ job[j].status # "paused"
    BY <1>2, <2>1 DEF Over, Terminal
  <2>3. ASSUME NEW k \in At("resume", j)'
        PROVE  k < i /\ job[j].process
    <3>1. k \in At("resume", j) /\ k < n
      BY <1>1, <2>2 DEF Staging
    <3>2. job[j].process
      BY <1>2, <2>2, <3>1 DEF ResumeInv
    <3>3. CASE i = n
      BY <3>1, <3>2, <3>3
    <3>4. CASE i # n
      BY <1>1, <3>1, <3>4 DEF Staging, ReleaseInv
    <3> QED
      BY <3>3, <3>4
  <2> QED
    BY <2>1, <2>2, <2>3 DEF Over
<1> QED
  BY <1>4, <1>5, <1>6, <1>7, <1>8
-----------------------------------------------------------------------------
(* The scheduler, the workers and the clock.                               *)

\* What is staged stays true of jobs that keep their process, stay over and, while
\* they wait for a resume without a process, stay paused.
LEMMA StagedFrame ==
  ASSUME OwnInv, UNCHANGED <<staged, phase, records>>,
         \A j \in Job : /\ job[j].process => job'[j].process
                        /\ job[j].status \in Over => job'[j].status \in Over
                        /\ job[j].status # "unborn" => job'[j].status # "unborn"
                        /\ job[j].status = "paused" => job'[j].process \/ job'[j].status = "paused"
  PROVE  BornInv' /\ ResumeInv' /\ ReleaseInv'
<1>1. \A op, j : At(op, j)' = At(op, j)
  BY DEF At
<1>2. BornInv'
  BY <1>1 DEF OwnInv, BornInv
<1>3. ResumeInv'
  BY <1>1 DEF OwnInv, ResumeInv
<1>4. ReleaseInv'
  BY <1>1 DEF OwnInv, ReleaseInv, Over
<1> QED
  BY <1>2, <1>3, <1>4

\* A poll reaps a dead worker or leaves a live one seated.
LEMMA PollKeeps ==
  ASSUME IndInv, OwnInv, NEW j \in Job, Reap(j) \/ \E a, b \in BOOLEAN : Inspect(j, a, b)
  PROVE  /\ job[j].process /\ job'[j].process
         /\ \A k \in Job : k # j => job'[k] = job[k] /\ worker'[k] = worker[k]
         /\ job'[j].status \in Live \cup Terminal
         /\ Alive(j)' => Alive(j) /\ job'[j].status \in Live
         /\ job[j].status \in Over => job'[j].status \in Over
<1> USE DEF IndInv, OwnInv
<1>1. j \in todo /\ thread = "polling"
  BY DEF Reap, Inspect, Oldest
<1>2. job[j].process /\ job[j] \in JobRecord /\ output[j] \in Outcome
  BY <1>1 DEF PassInv, TypeOK
<1>3. CASE Reap(j)
  <2>1. job'[j] = Finished(job[j], output[j]) /\ \A k \in Job : k # j => job'[k] = job[k] /\ worker'[k] = worker[k]
    BY <1>3 DEF Reap, ClearTransport, TypeOK
  <2>2. ~Alive(j)'
    BY <1>3 DEF Reap, ClearTransport, Alive
  <2> QED
    BY <1>2, <2>1, <2>2, FinishedType, SeatFields DEF Over
<1>4. ASSUME NEW a \in BOOLEAN, NEW b \in BOOLEAN, Inspect(j, a, b)
      PROVE  /\ job'[j].process /\ job'[j].status \in Live
             /\ \A k \in Job : k # j => job'[k] = job[k] /\ worker'[k] = worker[k]
             /\ Alive(j) /\ job[j].status \notin Over
  <2> DEFINE reached == job[j].status = "pausing" /\ "paused" \in dir[j]
  <2>1. job' = [job EXCEPT ![j] = Inspected(job[j], reached, a, b)] /\ reached \in BOOLEAN /\ Alive(j)
    BY <1>4 DEF Inspect
  <2>2. \A k \in Job : k # j => worker'[k] = worker[k]
    BY <1>4 DEF Inspect, TypeOK
  <2> HIDE DEF reached
  <2>3. job[j].status \in Live
    BY <2>1, OwnedFacts DEF Seated
  <2>4. Inspected(job[j], reached, a, b).status \in Live /\ Inspected(job[j], reached, a, b).process
    BY <1>2, <2>1, <2>3, InspectedKeeps, SeatFields
  <2> QED
    BY <2>1, <2>2, <2>3, <2>4 DEF TypeOK, Live, Over, Terminal
<1> QED
  BY <1>2, <1>3, <1>4

\* The scheduler starts workers only for retained jobs of an open manager, and leaves
\* only when no worker is alive.
LEMMA SchedulerOwned == ASSUME IndInv, OwnInv, Scheduler PROVE OwnInv'
<1> USE DEF managerVars, transportVars, threadVars, clientVars, IndInv, OwnInv
<1>j. \A k \in Job : job[k] \in JobRecord /\ (Alive(k) => Seated(k))
  BY OwnedFacts DEF TypeOK
<1>1. CASE BeginPass \/ PollsDone \/ EndPass \/ ThreadDies
  <2>1. UNCHANGED <<job, worker, records, closed, staged, phase>>
    BY <1>1 DEF BeginPass, PollsDone, EndPass, ThreadDies
  <2>2. BornInv' /\ ResumeInv' /\ ReleaseInv'
    BY <2>1, StagedFrame
  <2>3. \/ thread' \in {"waiting", "polling", "starting"}
        \/ \A k \in Job : ~Alive(k)
    <3>1. CASE BeginPass
      BY <3>1, OwnedFacts DEF BeginPass
    <3>2. CASE PollsDone
      BY <3>2 DEF PollsDone
    <3>3. CASE EndPass
      <4>1. PassOver => \A k \in Job : ~Seated(k)
        BY DEF PassOver, Active, Seated, Live, Terminal
      <4> QED
        BY <3>3, <4>1, <1>j DEF EndPass
    <3>4. CASE ThreadDies
      BY <3>4, OwnedFacts DEF ThreadDies
    <3> QED
      BY <1>1, <3>1, <3>2, <3>3, <3>4
  <2>4. WorkersOwned'
    BY <1>j, <2>1, <2>3, OwnedFrame DEF Seated, Alive
  <2>5. PassInv'
    <3>1. CASE BeginPass
      BY <3>1 DEF BeginPass, PassInv, Occupied
    <3>2. CASE PollsDone
      BY <3>2 DEF PollsDone, PassInv, Queued
    <3>3. CASE EndPass \/ ThreadDies
      BY <3>3 DEF EndPass, ThreadDies, PassInv
    <3> QED
      BY <1>1, <3>1, <3>2, <3>3
  <2> QED
    BY <2>2, <2>4, <2>5
<1>2. ASSUME NEW j \in Job, Reap(j) \/ \E a, b \in BOOLEAN : Inspect(j, a, b)
      PROVE  OwnInv'
  <2>1. /\ UNCHANGED <<records, closed, staged, phase, thread>> /\ todo' = todo \ {j} /\ thread = "polling"
    BY <1>2 DEF Reap, Inspect
  <2>2. /\ job[j].process /\ job'[j].process
        /\ \A k \in Job : k # j => job'[k] = job[k] /\ worker'[k] = worker[k]
        /\ job'[j].status \in Live \cup Terminal
        /\ Alive(j)' => Alive(j) /\ job'[j].status \in Live
        /\ job[j].status \in Over => job'[j].status \in Over
    BY <1>2, PollKeeps
  <2>3. WorkersOwned'
    BY <1>j, <2>1, <2>2, OwnedFrame DEF Seated, Alive
  <2>4. PassInv'
    BY <2>1, <2>2 DEF PassInv, TodoInv, TypeOK
  <2>5. BornInv' /\ ResumeInv' /\ ReleaseInv'
    <3>1. "unborn" \notin Live \cup Terminal
      BY DEF Live, Terminal
    <3> QED
      BY <2>1, <2>2, <3>1, StagedFrame
  <2> QED
    BY <2>3, <2>4, <2>5
<1>3. ASSUME NEW j \in Job, Start(j)
      PROVE  OwnInv'
  <2>1. /\ UNCHANGED <<records, closed, staged, phase, thread>> /\ todo' = todo \ {j}
        /\ thread = "starting" /\ j \in records /\ job[j].status = "queued" /\ ~closed
    BY <1>3 DEF Start, Oldest, TodoInv, PassInv
  <2>2. \/ /\ job' = [job EXCEPT ![j] = [@ EXCEPT !.status = "running", !.process = TRUE]]
           /\ worker' = [worker EXCEPT ![j] = "computing"]
        \/ /\ job' = [job EXCEPT ![j] = [@ EXCEPT !.status = "failed", !.error = "other"]]
           /\ worker' = worker
    BY <1>3 DEF Start
  <2>3. /\ [job[j] EXCEPT !.status = "running", !.process = TRUE].status = "running"
        /\ [job[j] EXCEPT !.status = "running", !.process = TRUE].process
        /\ [job[j] EXCEPT !.status = "failed", !.error = "other"].process = job[j].process
        /\ [job[j] EXCEPT !.status = "failed", !.error = "other"].status = "failed"
    BY <1>j, SeatKept
  <2>4. /\ \A k \in Job : k # j => job'[k] = job[k] /\ worker'[k] = worker[k]
        /\ \/ job'[j].status = "running" /\ job'[j].process
           \/ job'[j].status = "failed" /\ job'[j].process = job[j].process /\ worker'[j] = worker[j]
    BY <2>2, <2>3 DEF TypeOK
  <2>5. ~Alive(j)
    BY <1>j, <2>1 DEF Seated, Live
  <2>6. WorkersOwned'
    BY <1>j, <2>1, <2>4, <2>5 DEF WorkersOwned, Seated, Alive, Occupied, Live
  <2>7. PassInv'
    BY <2>1, <2>4 DEF PassInv, TodoInv, TypeOK
  <2>8. BornInv' /\ ResumeInv' /\ ReleaseInv'
    <3>1. "queued" \notin Over
      BY DEF Over, Terminal
    <3> QED
      BY <2>1, <2>4, <3>1, StagedFrame
  <2> QED
    BY <2>6, <2>7, <2>8
<1>4. ASSUME NEW j \in Job, Skip(j)
      PROVE  OwnInv'
  <2>1. UNCHANGED <<job, worker, records, closed, staged, phase, thread>> /\ todo' = todo \ {j}
    BY <1>4 DEF Skip
  <2>2. WorkersOwned' /\ PassInv'
    BY <2>1 DEF WorkersOwned, PassInv, Alive, Occupied
  <2> QED
    BY <2>1, <2>2, StagedFrame
<1> QED
  BY <1>1, <1>2, <1>3, <1>4 DEF Scheduler

\* A worker's steps end it or keep it alive; the clock changes only its deadline.
LEMMA WorkerOwned ==
  ASSUME IndInv, OwnInv, NEW j \in Job, Worker(j) \/ WorkerCrash(j) \/ Deadline(j)
  PROVE  OwnInv'
<1> USE DEF managerVars, transportVars, threadVars, clientVars, IndInv, OwnInv
<1>1. UNCHANGED <<records, closed, staged, phase, thread, todo>>
  BY DEF Worker, WorkerCrash, WorkerOutcome, WorkerCancelled, WorkerBoundary, WorkerSnapshot,
         WorkerUnpark, WorkerClearPause, WorkerClearResume, WorkerExit, WorkerUnchanged, Deadline
<1>2. \A k \in Job : worker'[k] = worker[k] \/ Alive(k)
  <2>1. CASE Worker(j) \/ WorkerCrash(j)
    BY <2>1 DEF Worker, WorkerCrash, WorkerOutcome, WorkerCancelled, WorkerBoundary, WorkerSnapshot,
         WorkerUnpark, WorkerClearPause, WorkerClearResume, WorkerExit, Writes, Alive, TypeOK
  <2>2. CASE Deadline(j)
    BY <2>2 DEF Deadline
  <2> QED
    BY <2>1, <2>2
<1>3. \A k \in Job : job'[k].process = job[k].process /\ job'[k].status = job[k].status
  <2>1. CASE Worker(j) \/ WorkerCrash(j)
    BY <2>1 DEF Worker, WorkerCrash, WorkerOutcome, WorkerCancelled, WorkerBoundary, WorkerSnapshot,
         WorkerUnpark, WorkerClearPause, WorkerClearResume, WorkerExit, WorkerUnchanged
  <2>2. CASE Deadline(j)
    <3>1. job' = [job EXCEPT ![j] = [@ EXCEPT !.cancel_time = "expired"]] /\ job[j] \in JobRecord
      BY <2>2 DEF Deadline, TypeOK
    <3>2. /\ [job[j] EXCEPT !.cancel_time = "expired"].process = job[j].process
          /\ [job[j] EXCEPT !.cancel_time = "expired"].status = job[j].status
      BY <3>1, SeatKept
    <3> QED
      BY <3>1, <3>2 DEF TypeOK
  <2> QED
    BY <2>1, <2>2
<1>4. WorkersOwned'
  BY <1>1, <1>2, <1>3 DEF WorkersOwned, Alive, Occupied
<1>5. PassInv'
  BY <1>1, <1>3 DEF PassInv, TypeOK
<1>6. BornInv' /\ ResumeInv' /\ ReleaseInv'
  BY <1>1, <1>3, StagedFrame
<1> QED
  BY <1>4, <1>5, <1>6
-----------------------------------------------------------------------------
(* The theorem.                                                            *)

\* A statement that is abandoned takes back only jobs that were not retained.
LEMMA AbandonOwned == ASSUME IndInv, OwnInv, Abandon PROVE OwnInv'
<1> USE DEF managerVars, transportVars, threadVars, IndInv, OwnInv
<1>1. /\ UNCHANGED <<records, closed, worker, thread, todo>> /\ staged' = <<>>
      /\ \A k \in Job : k \notin Pending => job'[k] = job[k]
  BY DEF Abandon
<1>2. \A k \in Job : k \in records => k \notin Pending
  <2> SUFFICES ASSUME NEW k \in Job, k \in Pending PROVE k \notin records
    OBVIOUS
  <2>1. \E i \in DOMAIN staged : staged[i].op = "submit" /\ staged[i].job = k
    BY DEF Pending
  <2> QED
    BY <2>1 DEF At, BornInv
<1>3. \A k \in Job : k \in records => job'[k] = job[k]
  BY <1>1, <1>2
<1>4. WorkersOwned'
  BY <1>1, <1>3, OwnedFacts, OwnedFrame DEF Seated, Alive
<1>5. PassInv'
  BY <1>1, <1>3 DEF PassInv, TodoInv, TypeOK
<1>6. BornInv' /\ ResumeInv' /\ ReleaseInv'
  BY <1>1, <1>3, AtEmpty DEF BornInv, ResumeInv, ReleaseInv
<1> QED
  BY <1>4, <1>5, <1>6

\* OwnInv is inductive beside the invariant of JobsProofs.
LEMMA OwnStep == IndInv /\ OwnInv /\ [Next]_vars => OwnInv'
<1> SUFFICES ASSUME IndInv, OwnInv, [Next]_vars PROVE OwnInv'
  OBVIOUS
<1>1. CASE Acknowledge \/ UNCHANGED vars
  <2>1. UNCHANGED <<records, closed, job, worker, thread, todo, staged>> /\ (phase' = phase \/ phase' = "commit")
    BY <1>1 DEF Acknowledge, vars, managerVars, transportVars, threadVars
  <2>2. \A op, j : At(op, j)' = At(op, j)
    BY <2>1 DEF At
  <2> QED
    BY <2>1, <2>2
    DEF OwnInv, WorkersOwned, PassInv, BornInv, ResumeInv, ReleaseInv, Alive, Occupied
<1>2. CASE Abandon
  BY <1>2, AbandonOwned
<1> QED
  BY <1>1, <1>2, DispatchOwned, CommitOwned, SchedulerOwned, WorkerOwned DEF Next

\* No worker is alive at first.
LEMMA OwnInit == Init => OwnInv
<1> SUFFICES ASSUME Init PROVE OwnInv
  OBVIOUS
<1>1. WorkersOwned
  BY DEF Init, WorkersOwned, Alive
<1>2. \A op, j : At(op, j) = {}
  BY DEF Init, At
<1> QED
  BY <1>1, <1>2 DEF Init, OwnInv, PassInv, BornInv, ResumeInv, ReleaseInv

\* A live process belongs to a retained live job of an open manager whose scheduler has
\* not left, whatever statements, closes, releases and crashes interleave
\* (manager.py: _run, commit, close).
THEOREM NoOrphanWorkers == Spec => []WorkersOwned
<1>1. Init => IndInv /\ OwnInv
  BY InitInv, OwnInit
<1>2. IndInv /\ OwnInv /\ [Next]_vars => (IndInv /\ OwnInv)'
  BY NextInv, OwnStep
<1>3. IndInv /\ OwnInv => WorkersOwned
  BY DEF OwnInv
<1> QED
  BY <1>1, <1>2, <1>3, PTL DEF Spec

-----------------------------------------------------------------------------
(***************************************************************************)
(* What the marker files, the deferred actions and the late outcomes of    *)
(* workers cannot break: a retained result is honest whatever the length   *)
(* of a statement; a paused job is parked and a pause is not lost when a   *)
(* resume is a statement of its own.                                       *)
(***************************************************************************)

-----------------------------------------------------------------------------
(* What the manager's helpers do to the fields of a record.                *)

\* _cancel keeps everything but the request, its deadline and, without a process, the status.
LEMMA CancelledFields ==
  ASSUME NEW r \in JobRecord, NEW q, q = Cancelled(r)
  PROVE  /\ q \in JobRecord /\ q.process = r.process /\ q.result = r.result
         /\ q.forced = r.forced /\ q.error = r.error /\ q.pause_state = r.pause_state
         /\ q.shape = r.shape /\ q.seq = r.seq
         /\ q.status = IF r.status \in Terminal \/ r.process THEN r.status ELSE "cancelled"
         /\ q.cancel_requested <=> r.cancel_requested \/ r.status \notin Terminal
<1>0. q \in JobRecord
  BY CancelledType
<1>1. CASE r.status \in Terminal
  BY <1>0, <1>1 DEF Cancelled
<1>2. CASE r.status \notin Terminal /\ ~r.process
  BY <1>0, <1>2 DEF Cancelled, JobRecord
<1>3. CASE r.status \notin Terminal /\ r.process
  BY <1>0, <1>3 DEF Cancelled, JobRecord
<1> QED
  BY <1>1, <1>2, <1>3 DEF JobRecord

\* A new status, with or without an error, keeps every other field.
LEMMA StatusFields ==
  ASSUME NEW r \in JobRecord, NEW s \in Status, NEW q,
         \/ q = [r EXCEPT !.status = s]
         \/ q = [r EXCEPT !.status = s, !.error = "other"]
  PROVE  /\ q \in JobRecord /\ q.process = r.process /\ q.result = r.result
         /\ q.forced = r.forced /\ q.pause_state = r.pause_state
         /\ q.shape = r.shape /\ q.seq = r.seq
         /\ q.cancel_requested = r.cancel_requested
         /\ q.status = s /\ q.error \in {r.error, "other"}
<1>1. CASE q = [r EXCEPT !.status = s]
  BY <1>1 DEF JobRecord
<1>2. CASE q = [r EXCEPT !.status = s, !.error = "other"]
  BY <1>2 DEF JobRecord
<1> QED
  BY <1>1, <1>2

\* A recorded error keeps every other field.
LEMMA ErrorFields ==
  ASSUME NEW r \in JobRecord, NEW e \in {"memory", "other"}, NEW q, q = [r EXCEPT !.error = e]
  PROVE  /\ q \in JobRecord /\ q.process = r.process /\ q.result = r.result
         /\ q.forced = r.forced /\ q.pause_state = r.pause_state
         /\ q.shape = r.shape /\ q.seq = r.seq
         /\ q.cancel_requested = r.cancel_requested
         /\ q.status = r.status /\ q.error = e
BY DEF JobRecord

\* A poll of a seated job may park it, ask it to cancel and kill it, and nothing else.
LEMMA InspectedFields ==
  ASSUME NEW r \in JobRecord, r.status \in Live, r.process,
         NEW a \in BOOLEAN, NEW b \in BOOLEAN, NEW c \in BOOLEAN,
         NEW q, q = Inspected(r, a, b, c)
  PROVE  /\ q \in JobRecord /\ q.process = r.process /\ q.result = r.result
         /\ q.shape = r.shape /\ q.seq = r.seq
         /\ q.status = IF a /\ b THEN "paused" ELSE r.status
         /\ q.pause_state <=> r.pause_state \/ (a /\ b)
         /\ q.cancel_requested <=> r.cancel_requested \/ c \/ (a /\ ~b)
<1> DEFINE acked == IF ~a THEN r
                    ELSE IF b THEN [r EXCEPT !.status = "paused", !.pause_state = TRUE]
                    ELSE Cancelled([r EXCEPT !.error = "other"])
           sampled == IF c THEN Cancelled([acked EXCEPT !.error = "memory"]) ELSE acked
           killed == sampled.forced \/ sampled.cancel_time = "expired"
<1>0. Live \cap Terminal = {} /\ "paused" \in Live
  BY DEF Live, Terminal
<1>b. r.pause_state \in BOOLEAN /\ r.cancel_requested \in BOOLEAN
  BY DEF JobRecord
<1>1. q = [sampled EXCEPT !.forced = killed]
  BY DEF Inspected
<1>2. /\ acked \in JobRecord /\ acked.process = r.process /\ acked.result = r.result
      /\ acked.shape = r.shape /\ acked.seq = r.seq
      /\ acked.status = IF a /\ b THEN "paused" ELSE r.status
      /\ acked.pause_state <=> r.pause_state \/ (a /\ b)
      /\ acked.cancel_requested <=> r.cancel_requested \/ (a /\ ~b)
  <2>1. CASE ~a
    BY <2>1
  <2>2. CASE a /\ b
    <3>1. acked = [r EXCEPT !.status = "paused", !.pause_state = TRUE]
      BY <2>2
    <3>2. [r EXCEPT !.status = "paused", !.pause_state = TRUE] \in JobRecord
      BY FieldsType DEF Status, Live
    <3> HIDE DEF acked
    <3> QED
      BY <2>2, <3>1, <3>2 DEF JobRecord
  <2>3. CASE a /\ ~b
    <3> DEFINE p == [r EXCEPT !.error = "other"]
    <3>0. p = [r EXCEPT !.error = "other"]
      OBVIOUS
    <3>1. acked = Cancelled(p)
      BY <2>3
    <3> HIDE DEF acked, p
    <3>2. /\ p \in JobRecord /\ p.process = r.process /\ p.result = r.result
          /\ p.shape = r.shape /\ p.seq = r.seq /\ p.status = r.status
          /\ p.pause_state = r.pause_state /\ p.cancel_requested = r.cancel_requested
      BY <3>0 DEF JobRecord
    <3> QED
      BY <1>0, <1>b, <2>3, <3>1, <3>2, CancelledFields
  <2> QED
    BY <2>1, <2>2, <2>3
<1> HIDE DEF acked
<1>3. acked.status \in Live /\ acked.process
  BY <1>0, <1>2
<1>4. /\ sampled \in JobRecord /\ sampled.process = r.process /\ sampled.result = r.result
      /\ sampled.shape = r.shape /\ sampled.seq = r.seq
      /\ sampled.status = acked.status /\ sampled.pause_state = acked.pause_state
      /\ sampled.cancel_requested <=> acked.cancel_requested \/ c
  <2>1. CASE ~c
    BY <1>2, <2>1
  <2>2. CASE c
    <3> DEFINE p == [acked EXCEPT !.error = "memory"]
    <3>0. p = [acked EXCEPT !.error = "memory"]
      OBVIOUS
    <3>1. sampled = Cancelled(p)
      BY <2>2
    <3> HIDE DEF sampled, p
    <3>2. /\ p \in JobRecord /\ p.process = acked.process /\ p.result = acked.result
          /\ p.shape = acked.shape /\ p.seq = acked.seq /\ p.status = acked.status
          /\ p.pause_state = acked.pause_state /\ p.cancel_requested = acked.cancel_requested
      BY <1>2, <3>0 DEF JobRecord
    <3> QED
      BY <1>0, <1>2, <1>3, <2>2, <3>1, <3>2, CancelledFields
  <2> QED
    BY <2>1, <2>2
<1> HIDE DEF sampled
<1> QED
  BY <1>1, <1>2, <1>4 DEF JobRecord

-----------------------------------------------------------------------------
(* What each action does to the records.                                   *)

\* Only the status and the error differ.
Keeps(r, q) ==
  /\ q.process = r.process /\ q.result = r.result /\ q.forced = r.forced
  /\ q.pause_state = r.pause_state /\ q.cancel_requested = r.cancel_requested
  /\ q.shape = r.shape /\ q.seq = r.seq

\* Cancelled, field by field.
CancelsTo(r, q) ==
  /\ q.process = r.process /\ q.result = r.result /\ q.forced = r.forced
  /\ q.pause_state = r.pause_state /\ q.error = r.error /\ q.shape = r.shape /\ q.seq = r.seq
  /\ q.status = IF r.status \in Terminal \/ r.process THEN r.status ELSE "cancelled"
  /\ q.cancel_requested <=> r.cancel_requested \/ r.status \notin Terminal

\* The job of a staged operation on a job, and where it stands in the statement.
LEMMA HeadJob ==
  ASSUME TypeOK, staged # <<>>,
         Head(staged).op \in {"submit", "cancel", "pause", "resume", "release"}
  PROVE  Head(staged).job \in Job /\ 1 \in At(Head(staged).op, Head(staged).job)
BY StagedType, AtHead DEF Action

\* An applied submission is retained, or fails with its manager's thread.
LEMMA SubmitEffect ==
  ASSUME IndInv, CommitSubmit, NEW j, j = Head(staged).job
  PROVE  /\ j \in Job /\ 1 \in At("submit", j)
         /\ \A k \in Job \ {j} : job'[k] = job[k]
         /\ job'[j] = job[j] \/ (Keeps(job[j], job'[j]) /\ job'[j].status = "failed")
         /\ UNCHANGED <<config, transportVars, step>> /\ records' = records \cup {j}
<1>1. j \in Job /\ 1 \in At("submit", j) /\ job[j] \in JobRecord
  BY HeadJob DEF CommitSubmit, Committing, IndInv, TypeOK
<1>2. job' = job \/ job' = [job EXCEPT ![j] = [@ EXCEPT !.status = "failed", !.error = "other"]]
  BY DEF CommitSubmit
<1>3. \A q : q = [job[j] EXCEPT !.status = "failed", !.error = "other"]
               => Keeps(job[j], q) /\ q.status = "failed"
  BY <1>1 DEF Keeps, JobRecord
<1>4. (\A k \in Job \ {j} : job'[k] = job[k])
        /\ (job'[j] = job[j] \/ job'[j] = [job[j] EXCEPT !.status = "failed", !.error = "other"])
  BY <1>1, <1>2 DEF IndInv, TypeOK
<1> QED
  BY <1>1, <1>3, <1>4 DEF CommitSubmit

\* An applied cancellation touches its job only while that is retained.
LEMMA CancelEffect ==
  ASSUME IndInv, CommitCancel, NEW j, j = Head(staged).job
  PROVE  /\ j \in Job /\ 1 \in At("cancel", j)
         /\ \A k \in Job \ {j} : job'[k] = job[k]
         /\ IF j \in records THEN CancelsTo(job[j], job'[j]) ELSE job'[j] = job[j]
         /\ UNCHANGED <<managerVars, output, worker, threadVars, step>>
<1>1. j \in Job /\ 1 \in At("cancel", j) /\ job[j] \in JobRecord
  BY HeadJob DEF CommitCancel, Committing, IndInv, TypeOK
<1>2. CancelsTo(job[j], Cancelled(job[j]))
  BY <1>1, CancelledFields DEF CancelsTo
<1>3. job' = IF j \in records THEN [job EXCEPT ![j] = Cancelled(@)] ELSE job
  BY DEF CommitCancel
<1>4. (\A k \in Job \ {j} : job'[k] = job[k])
        /\ job'[j] = IF j \in records THEN Cancelled(job[j]) ELSE job[j]
  BY <1>1, <1>3 DEF IndInv, TypeOK
<1> QED
  BY <1>1, <1>2, <1>4 DEF CommitCancel

\* An applied pause reads the status again.
LEMMA PauseEffect ==
  ASSUME IndInv, CommitPause, NEW j, j = Head(staged).job
  PROVE  /\ j \in Job /\ 1 \in At("pause", j)
         /\ \A k \in Job \ {j} : job'[k] = job[k]
         /\ Keeps(job[j], job'[j])
         /\ \/ /\ job[j].status = "running" /\ job'[j].status = "pausing"
               /\ dir' = [dir EXCEPT ![j] = @ \cup {"pause"}] /\ job'[j].error = job[j].error
            \/ /\ job[j].status = "running" /\ job'[j].status = "running" /\ dir' = dir
            \/ /\ job[j].status = "queued" /\ job'[j].status = "paused" /\ dir' = dir
            \/ /\ job[j].status \notin {"running", "queued"} /\ job'[j] = job[j] /\ dir' = dir
         /\ UNCHANGED <<managerVars, output, worker, threadVars, step>>
<1>1. j \in Job /\ 1 \in At("pause", j) /\ job[j] \in JobRecord
  BY HeadJob DEF CommitPause, Committing, IndInv, TypeOK
<1>2. \/ /\ job[j].status = "running" /\ dir' = [dir EXCEPT ![j] = @ \cup {"pause"}]
         /\ job' = [job EXCEPT ![j] = [@ EXCEPT !.status = "pausing"]]
      \/ /\ job[j].status = "running" /\ dir' = dir
         /\ job' = [job EXCEPT ![j] = [@ EXCEPT !.error = "other"]]
      \/ /\ job[j].status = "queued" /\ dir' = dir
         /\ job' = [job EXCEPT ![j] = [@ EXCEPT !.status = "paused"]]
      \/ /\ job[j].status \notin {"running", "queued"} /\ dir' = dir
         /\ job' = [job EXCEPT ![j] = [@ EXCEPT !.status = job[j].status]]
  BY DEF CommitPause
<1>3. /\ job[j].status \in Status /\ "pausing" \in Status /\ "paused" \in Status
      /\ [job[j] EXCEPT !.status = job[j].status] = job[j]
  BY <1>1 DEF Status, Live, JobRecord
<1>4. \A s \in Status : \A q : q = [job[j] EXCEPT !.status = s]
         => Keeps(job[j], q) /\ q.status = s /\ q.error = job[j].error
  BY <1>1 DEF Keeps, JobRecord
<1>5. \A q : q = [job[j] EXCEPT !.error = "other"] => Keeps(job[j], q) /\ q.status = job[j].status
  BY <1>1, ErrorFields DEF Keeps
<1>6. Keeps(job[j], job[j])
  BY DEF Keeps
<1>7. /\ \A k \in Job \ {j} : job'[k] = job[k]
      /\ \/ /\ job[j].status = "running" /\ dir' = [dir EXCEPT ![j] = @ \cup {"pause"}]
            /\ job'[j] = [job[j] EXCEPT !.status = "pausing"]
         \/ /\ job[j].status = "running" /\ dir' = dir
            /\ job'[j] = [job[j] EXCEPT !.error = "other"]
         \/ /\ job[j].status = "queued" /\ dir' = dir
            /\ job'[j] = [job[j] EXCEPT !.status = "paused"]
         \/ /\ job[j].status \notin {"running", "queued"} /\ dir' = dir /\ job'[j] = job[j]
  BY <1>1, <1>2, <1>3 DEF IndInv, TypeOK
<1>8. /\ Keeps(job[j], job'[j])
      /\ \/ /\ job[j].status = "running" /\ job'[j].status = "pausing"
            /\ dir' = [dir EXCEPT ![j] = @ \cup {"pause"}] /\ job'[j].error = job[j].error
         \/ /\ job[j].status = "running" /\ job'[j].status = "running" /\ dir' = dir
         \/ /\ job[j].status = "queued" /\ job'[j].status = "paused" /\ dir' = dir
         \/ /\ job[j].status \notin {"running", "queued"} /\ job'[j] = job[j] /\ dir' = dir
  <2>1. CASE /\ job[j].status = "running" /\ dir' = [dir EXCEPT ![j] = @ \cup {"pause"}]
             /\ job'[j] = [job[j] EXCEPT !.status = "pausing"]
    BY <1>3, <1>4, <2>1
  <2>2. CASE /\ job[j].status = "running" /\ dir' = dir
             /\ job'[j] = [job[j] EXCEPT !.error = "other"]
    BY <1>5, <2>2
  <2>3. CASE /\ job[j].status = "queued" /\ dir' = dir
             /\ job'[j] = [job[j] EXCEPT !.status = "paused"]
    BY <1>3, <1>4, <2>3
  <2>4. CASE job[j].status \notin {"running", "queued"} /\ dir' = dir /\ job'[j] = job[j]
    BY <1>6, <2>4
  <2> QED
    BY <1>7, <2>1, <2>2, <2>3, <2>4
<1> QED
  BY <1>1, <1>7, <1>8 DEF CommitPause

\* An applied resume of a job without a process queues it again or fails it.
LEMMA QueuedEffect ==
  ASSUME IndInv, CommitResumeQueued, NEW j, j = Head(staged).job
  PROVE  /\ j \in Job /\ 1 \in At("resume", j)
         /\ \A k \in Job \ {j} : job'[k] = job[k]
         /\ Keeps(job[j], job'[j]) /\ ~job[j].process /\ job'[j].status \in {"queued", "failed"}
         /\ UNCHANGED <<managerVars, transportVars, step>>
<1>1. j \in Job /\ 1 \in At("resume", j) /\ job[j] \in JobRecord
  BY HeadJob DEF CommitResumeQueued, Committing, IndInv, TypeOK
<1>2. \/ job' = [job EXCEPT ![j] = [@ EXCEPT !.status = "queued"]]
      \/ job' = [job EXCEPT ![j] = [@ EXCEPT !.status = "failed", !.error = "other"]]
  BY DEF CommitResumeQueued
<1>3. /\ \A q : q = [job[j] EXCEPT !.status = "queued"] => Keeps(job[j], q) /\ q.status = "queued"
      /\ \A q : q = [job[j] EXCEPT !.status = "failed", !.error = "other"]
               => Keeps(job[j], q) /\ q.status = "failed"
  BY <1>1 DEF Keeps, JobRecord
<1>4. /\ \A k \in Job \ {j} : job'[k] = job[k]
      /\ \/ job'[j] = [job[j] EXCEPT !.status = "queued"]
         \/ job'[j] = [job[j] EXCEPT !.status = "failed", !.error = "other"]
  BY <1>1, <1>2 DEF IndInv, TypeOK
<1> QED
  BY <1>1, <1>3, <1>4 DEF CommitResumeQueued

\* The first step of a resume of a seated job touches its directory or records an error.
LEMMA TouchEffect ==
  ASSUME IndInv, ResumeTouch, NEW j, j = Head(staged).job
  PROVE  /\ j \in Job /\ 1 \in At("resume", j) /\ HasDirectory(j)
         /\ \A k \in Job \ {j} : job'[k] = job[k]
         /\ Keeps(job[j], job'[j]) /\ job'[j].status = job[j].status
         /\ \/ /\ dir' = [dir EXCEPT ![j] = @ \cup {"resume"}] /\ step' = "touched"
               /\ UNCHANGED <<job, staged, phase>>
            \/ Advance /\ UNCHANGED <<dir, step>>
         /\ UNCHANGED <<managerVars, output, worker, threadVars>>
<1>1. j \in Job /\ 1 \in At("resume", j) /\ job[j] \in JobRecord
  BY HeadJob DEF ResumeTouch, Committing, IndInv, TypeOK
<1>2. \/ job' = job /\ dir' = [dir EXCEPT ![j] = @ \cup {"resume"}] /\ step' = "touched"
         /\ UNCHANGED <<job, staged, phase>>
      \/ job' = [job EXCEPT ![j] = [@ EXCEPT !.error = "other"]] /\ Advance /\ UNCHANGED <<dir, step>>
  BY DEF ResumeTouch
<1>3. \A q : q = [job[j] EXCEPT !.error = "other"] => Keeps(job[j], q) /\ q.status = job[j].status
  BY <1>1, ErrorFields DEF Keeps
<1>4. Keeps(job[j], job[j])
  BY DEF Keeps
<1>5. /\ \A k \in Job \ {j} : job'[k] = job[k]
      /\ job'[j] = job[j] \/ job'[j] = [job[j] EXCEPT !.error = "other"]
  BY <1>1, <1>2 DEF IndInv, TypeOK
<1> QED
  BY <1>1, <1>2, <1>3, <1>4, <1>5 DEF ResumeTouch

\* The last step of a resume sets the seated job running.
LEMMA UnlinkEffect ==
  ASSUME IndInv, ResumeUnlinkPause, NEW j, j = Head(staged).job
  PROVE  /\ j \in Job /\ 1 \in At("resume", j) /\ HasDirectory(j)
         /\ \A k \in Job \ {j} : job'[k] = job[k]
         /\ Keeps(job[j], job'[j]) /\ job'[j].status = "running"
         /\ dir' = [dir EXCEPT ![j] = @ \ {"pause"}]
         /\ UNCHANGED <<managerVars, output, worker, threadVars>>
<1>1. j \in Job /\ 1 \in At("resume", j) /\ job[j] \in JobRecord /\ HasDirectory(j)
  BY HeadJob DEF ResumeUnlinkPause, HeadInv, IndInv, TypeOK
<1>2. job' = [job EXCEPT ![j] = [@ EXCEPT !.status = "running"]]
  BY DEF ResumeUnlinkPause
<1>3. \A q : q = [job[j] EXCEPT !.status = "running"] => Keeps(job[j], q) /\ q.status = "running"
  BY <1>1 DEF Keeps, JobRecord
<1>4. /\ \A k \in Job \ {j} : job'[k] = job[k]
      /\ job'[j] = [job[j] EXCEPT !.status = "running"]
  BY <1>1, <1>2 DEF IndInv, TypeOK
<1> QED
  BY <1>1, <1>3, <1>4 DEF ResumeUnlinkPause

\* A released record is a fresh one.
LEMMA ReleaseEffect ==
  ASSUME IndInv, CommitRelease, NEW j, j = Head(staged).job
  PROVE  /\ j \in Job /\ 1 \in At("release", j) /\ records' = records \ {j}
         /\ \A k \in Job \ {j} : job'[k] = job[k]
         /\ j \notin records => job'[j] = job[j]
         /\ j \in records => /\ job'[j].status = "released" /\ ~job'[j].process
                             /\ ~job'[j].result /\ ~job'[j].forced /\ ~job'[j].cancel_requested
         /\ UNCHANGED <<config, closed, transportVars, threadVars, step>>
<1>1. j \in Job /\ 1 \in At("release", j)
  BY HeadJob DEF CommitRelease, Committing, IndInv, TypeOK
<1>2. (\A k \in Job \ {j} : job'[k] = job[k])
        /\ job'[j] = IF j \in records THEN Gone(job[j]) ELSE job[j]
  BY <1>1 DEF CommitRelease, IndInv, TypeOK
<1>3. \A r : LET q == Gone(r)
             IN  /\ q.status = "released" /\ ~q.process
                 /\ ~q.result /\ ~q.forced /\ ~q.cancel_requested
  BY DEF Gone, NewJob
<1> QED
  BY <1>1, <1>2, <1>3 DEF CommitRelease

\* The beginning of a shutdown cancels what is retained.
LEMMA CloseBeginEffect ==
  ASSUME IndInv, CloseBegin
  PROVE  /\ \A k \in Job : IF k \in records THEN CancelsTo(job[k], job'[k]) ELSE job'[k] = job[k]
         /\ UNCHANGED <<managerVars, output, worker, threadVars, staged, phase>>
<1>1. \A k \in Job : job[k] \in JobRecord
  BY DEF IndInv, TypeOK
<1>2. \A k \in Job : CancelsTo(job[k], Cancelled(job[k]))
  BY <1>1, CancelledFields DEF CancelsTo
<1>3. \A k \in Job : job'[k] = IF k \in records THEN Cancelled(job[k]) ELSE job[k]
  BY DEF CloseBegin
<1> QED
  BY <1>2, <1>3 DEF CloseBegin

\* _finish settles the status, keeps the request and tells a trusted result from the rest.
FinishesTo(r, q) ==
  /\ q.process = r.process /\ q.forced = r.forced /\ q.pause_state = r.pause_state
  /\ q.cancel_requested = r.cancel_requested /\ q.shape = r.shape /\ q.seq = r.seq
  /\ q.status \in Terminal
  /\ q.result => q.status \in {"succeeded", "failed"} /\ ~r.forced
  /\ q.status = "succeeded" => q.result /\ q.error # "memory"
  /\ r.forced => q.status = "interrupted"

\* Whatever the output file holds, _finish does what FinishesTo says.
LEMMA FinishedFields ==
  ASSUME NEW r \in JobRecord, NEW o \in Outcome
  PROVE  FinishesTo(r, Finished(r, o))
<1> DEFINE q == Finished(r, o)
<1>1. /\ q.process = r.process /\ q.forced = r.forced /\ q.pause_state = r.pause_state
      /\ q.cancel_requested = r.cancel_requested /\ q.shape = r.shape /\ q.seq = r.seq
  BY DEF Finished, JobRecord
<1>2. q.status \in Terminal
  BY FinishedType
<1>3. /\ q.result => q.status \in {"succeeded", "failed"} /\ ~r.forced
      /\ r.forced => q.status = "interrupted"
  BY DEF Finished, JobRecord, Outcome
<1>4. q.status = "succeeded" => q.result /\ q.error # "memory"
  BY DEF Finished, JobRecord, Outcome
<1> HIDE DEF q
<1> QED
  BY <1>1, <1>2, <1>3, <1>4 DEF FinishesTo, q

\* The end of a shutdown kills every worker that is left and settles its job.
LEMMA CloseEndEffect ==
  ASSUME IndInv, CloseEnd
  PROVE  /\ \A k \in Job \ Occupied : job'[k] = job[k]
         /\ \A k \in Occupied : \E r \in JobRecord :
              /\ FinishesTo(r, job'[k]) /\ r.forced /\ r.process = job[k].process
              /\ r.cancel_requested = job[k].cancel_requested /\ r.shape = job[k].shape
         /\ ClearTransport(Occupied)
         /\ UNCHANGED <<config, records, threadVars>>
<1>1. \A k \in Job : job[k] \in JobRecord /\ output[k] \in Outcome
  BY DEF IndInv, TypeOK
<1>2. \A k \in Job : job'[k] = IF k \in Occupied
                               THEN Finished([job[k] EXCEPT !.forced = TRUE], output[k])
                               ELSE job[k]
  BY DEF CloseEnd
<1>3. ASSUME NEW k \in Job, NEW r, r = [job[k] EXCEPT !.forced = TRUE]
      PROVE  /\ r \in JobRecord /\ r.forced /\ r.process = job[k].process
             /\ r.cancel_requested = job[k].cancel_requested /\ r.shape = job[k].shape
  BY <1>1, <1>3 DEF JobRecord
<1>4. ASSUME NEW k \in Occupied
      PROVE  \E r \in JobRecord :
               /\ FinishesTo(r, job'[k]) /\ r.forced /\ r.process = job[k].process
               /\ r.cancel_requested = job[k].cancel_requested /\ r.shape = job[k].shape
  <2> DEFINE r == [job[k] EXCEPT !.forced = TRUE]
  <2>1. k \in Job
    BY DEF Occupied, IndInv, TypeOK
  <2>2. job'[k] = Finished(r, output[k])
    BY <1>2, <2>1
  <2>3. /\ r \in JobRecord /\ r.forced /\ r.process = job[k].process
        /\ r.cancel_requested = job[k].cancel_requested /\ r.shape = job[k].shape
    BY <1>3, <2>1
  <2> HIDE DEF r
  <2>4. FinishesTo(r, job'[k])
    BY <1>1, <2>1, <2>2, <2>3, FinishedFields
  <2> QED
    BY <2>3, <2>4
<1> QED
  BY <1>2, <1>4 DEF CloseEnd

\* A reaped worker's job is settled.
LEMMA ReapEffect ==
  ASSUME IndInv, NEW j \in Job, Reap(j)
  PROVE  /\ \A k \in Job \ {j} : job'[k] = job[k]
         /\ FinishesTo(job[j], job'[j])
         /\ UNCHANGED <<managerVars, clientVars, thread>>
<1>1. job[j] \in JobRecord /\ output[j] \in Outcome
  BY DEF IndInv, TypeOK
<1>2. (\A k \in Job \ {j} : job'[k] = job[k]) /\ job'[j] = Finished(job[j], output[j])
  BY DEF Reap, IndInv, TypeOK
<1> QED
  BY <1>1, <1>2, FinishedFields DEF Reap

\* A poll of a seated job, field by field.
LEMMA InspectEffect ==
  ASSUME IndInv, NEW j \in Job, NEW b \in BOOLEAN, NEW c \in BOOLEAN, Inspect(j, b, c),
         job[j].status \in Live, job[j].process
  PROVE  LET r == job[j]
             q == job'[j]
             a == r.status = "pausing" /\ "paused" \in dir[j]
         IN  /\ \A k \in Job \ {j} : job'[k] = job[k]
             /\ q.process = r.process /\ q.result = r.result /\ q.shape = r.shape /\ q.seq = r.seq
             /\ q.status = IF a /\ b THEN "paused" ELSE r.status
             /\ q.pause_state <=> r.pause_state \/ (a /\ b)
             /\ q.cancel_requested <=> r.cancel_requested \/ c \/ (a /\ ~b)
             /\ ~b => a
<1> DEFINE a == job[j].status = "pausing" /\ "paused" \in dir[j]
<1>1. a \in BOOLEAN /\ job[j] \in JobRecord
  BY DEF IndInv, TypeOK
<1>2. job' = [job EXCEPT ![j] = Inspected(job[j], a, b, c)] /\ (~b => a)
  BY DEF Inspect
<1> HIDE DEF a
<1>3. (\A k \in Job \ {j} : job'[k] = job[k]) /\ job'[j] = Inspected(job[j], a, b, c)
  BY <1>2 DEF IndInv, TypeOK
<1>4. ASSUME NEW r \in JobRecord, r = job[j], NEW q, q = Inspected(r, a, b, c)
      PROVE  /\ q.process = r.process /\ q.result = r.result
             /\ q.shape = r.shape /\ q.seq = r.seq
             /\ q.status = IF a /\ b THEN "paused" ELSE r.status
             /\ q.pause_state <=> r.pause_state \/ (a /\ b)
             /\ q.cancel_requested <=> r.cancel_requested \/ c \/ (a /\ ~b)
  <2>1. r.status \in Live /\ r.process
    BY <1>4
  <2> QED
    BY <1>1, <1>4, <2>1, InspectedFields
<1> QED
  BY <1>1, <1>2, <1>3, <1>4 DEF a

\* A start seats a job or fails it.
LEMMA StartEffect ==
  ASSUME IndInv, NEW j \in Job, Start(j)
  PROVE  /\ \A k \in Job \ {j} : job'[k] = job[k]
         /\ job'[j].result = job[j].result /\ job'[j].forced = job[j].forced
         /\ job'[j].pause_state = job[j].pause_state /\ job'[j].shape = job[j].shape
         /\ job'[j].cancel_requested = job[j].cancel_requested /\ job'[j].seq = job[j].seq
         /\ \/ /\ job'[j].status = "running" /\ job'[j].process
               /\ worker' = [worker EXCEPT ![j] = "computing"]
            \/ /\ job'[j].status = "failed" /\ job'[j].process = job[j].process /\ worker' = worker
         /\ UNCHANGED <<managerVars, dir, output, thread, clientVars>>
<1>1. job[j] \in JobRecord
  BY DEF IndInv, TypeOK
<1>2. \/ /\ job' = [job EXCEPT ![j] = [@ EXCEPT !.status = "running", !.process = TRUE]]
         /\ worker' = [worker EXCEPT ![j] = "computing"]
      \/ /\ job' = [job EXCEPT ![j] = [@ EXCEPT !.status = "failed", !.error = "other"]]
         /\ worker' = worker
  BY DEF Start
<1>3. /\ \A k \in Job \ {j} : job'[k] = job[k]
      /\ \/ /\ job'[j] = [job[j] EXCEPT !.status = "running", !.process = TRUE]
            /\ worker' = [worker EXCEPT ![j] = "computing"]
         \/ /\ job'[j] = [job[j] EXCEPT !.status = "failed", !.error = "other"]
            /\ worker' = worker
  BY <1>2 DEF IndInv, TypeOK
<1>4. \A q : q = [job[j] EXCEPT !.status = "running", !.process = TRUE] =>
         /\ q.result = job[j].result /\ q.forced = job[j].forced
         /\ q.pause_state = job[j].pause_state /\ q.shape = job[j].shape
         /\ q.cancel_requested = job[j].cancel_requested /\ q.seq = job[j].seq
         /\ q.status = "running" /\ q.process
  BY <1>1 DEF JobRecord
<1>5. \A q : q = [job[j] EXCEPT !.status = "failed", !.error = "other"]
               => Keeps(job[j], q) /\ q.status = "failed"
  BY <1>1 DEF Keeps, JobRecord
<1> QED
  BY <1>3, <1>4, <1>5 DEF Start, Keeps

\* The passing of a deadline is all that happens to a record beside the lock.
LEMMA DeadlineEffect ==
  ASSUME IndInv, NEW j \in Job, Deadline(j)
  PROVE  /\ \A k \in Job : Keeps(job[k], job'[k]) /\ job'[k].status = job[k].status
                             /\ job'[k].error = job[k].error
         /\ UNCHANGED <<managerVars, transportVars, threadVars, clientVars>>
<1>1. job[j] \in JobRecord
  BY DEF IndInv, TypeOK
<1>2. job' = [job EXCEPT ![j] = [@ EXCEPT !.cancel_time = "expired"]]
  BY DEF Deadline
<1>3. \A k \in Job : job'[k] = job[k] \/ (k = j /\ job'[k] = [job[j] EXCEPT !.cancel_time = "expired"])
  BY <1>2 DEF IndInv, TypeOK
<1>4. \A q : q = [job[j] EXCEPT !.cancel_time = "expired"] =>
        Keeps(job[j], q) /\ q.status = job[j].status /\ q.error = job[j].error
  BY <1>1 DEF Keeps, JobRecord
<1> QED
  BY <1>3, <1>4 DEF Deadline, Keeps

\* A dispatched submission creates a fresh record for a job not yet born.
LEMMA BornEffect ==
  ASSUME IndInv, OwnInv, Dispatch
  PROVE  /\ UNCHANGED <<records, closed, config, dir, output, worker, thread, todo, phase, step>>
         /\ phase = "dispatch" /\ thread \notin {"polling", "starting"}
         /\ step \notin {"touched", "unlinked"}
         /\ \A k \in Job : job'[k] = job[k]
               \/ /\ job[k].status = "unborn" /\ k \notin records
                  /\ job'[k].status = "queued" /\ ~job'[k].process /\ ~job'[k].result
                  /\ ~job'[k].forced /\ ~job'[k].pause_state /\ ~job'[k].cancel_requested
<1> USE DEF managerVars, transportVars, threadVars, clientVars
<1>1. /\ UNCHANGED <<records, closed, config, dir, output, worker, thread, todo, phase, step>>
      /\ step \notin {"touched", "unlinked"}
  BY DEF Dispatch, Dispatching, LockFree, DispatchConfigure, DispatchSubmit, DispatchRestart,
         DispatchPause, DispatchResume, DispatchCancel, DispatchRelease, DispatchShutdown
<1>2. job' = job \/ \E k \in Job : \E s, n : job' = [job EXCEPT ![k] = NewJob(s, n)]
  <2>1. ASSUME NEW j \in Job, NEW s \in Shape, DispatchSubmit(j, s)
        PROVE  \E k \in Job : \E t, n : job' = [job EXCEPT ![k] = NewJob(t, n)]
    BY <2>1 DEF DispatchSubmit
  <2>2. ASSUME NEW j \in Job, NEW m \in Job, DispatchRestart(j, m)
        PROVE  \E k \in Job : \E t, n : job' = [job EXCEPT ![k] = NewJob(t, n)]
    BY <2>2 DEF DispatchRestart
  <2>3. ASSUME DispatchShutdown \/ (\E c \in Config : DispatchConfigure(c))
                 \/ \E j \in Job : DispatchPause(j) \/ DispatchResume(j) \/ DispatchCancel(j)
                                      \/ DispatchRelease(j)
        PROVE  job' = job
    BY <2>3 DEF DispatchConfigure, DispatchPause, DispatchResume, DispatchCancel, DispatchRelease,
                DispatchShutdown
  <2> QED
    BY <2>1, <2>2, <2>3 DEF Dispatch
<1>3. \A s, n : LET q == NewJob(s, n)
                IN  /\ q.status = "queued" /\ ~q.process /\ ~q.result
                    /\ ~q.forced /\ ~q.pause_state /\ ~q.cancel_requested
  BY DEF NewJob
<1>4. \A k \in Job : job'[k] = job[k] \/ \E s, n : job'[k] = NewJob(s, n)
  BY <1>2 DEF IndInv, TypeOK
<1> QED
  BY <1>1, <1>3, <1>4, DispatchJobs

\* An abandoned statement takes its submissions back, which nothing retains.
LEMMA AbandonEffect ==
  ASSUME IndInv, OwnInv, Abandon
  PROVE  /\ UNCHANGED <<managerVars, transportVars, threadVars, phase, step>> /\ staged' = <<>>
         /\ \A k \in Job : job'[k] = job[k]
               \/ /\ k \notin records
                  /\ job'[k].status = "unborn" /\ ~job'[k].process /\ ~job'[k].result
                  /\ ~job'[k].forced /\ ~job'[k].pause_state /\ ~job'[k].cancel_requested
         /\ \A k \in records : job'[k] = job[k]
<1>1. /\ UNCHANGED <<managerVars, transportVars, threadVars, phase, step>> /\ staged' = <<>>
      /\ \A k \in Job : job'[k] = IF k \in Pending THEN Unborn ELSE job[k]
  BY DEF Abandon
<1>2. \A k \in Pending : k \notin records
  <2> SUFFICES ASSUME NEW k \in Job, k \in Pending PROVE k \notin records
    BY DEF IndInv, TypeOK
  <2>1. \E i \in DOMAIN staged : staged[i].op = "submit" /\ staged[i].job = k
    BY DEF Pending
  <2> QED
    BY <2>1 DEF At, OwnInv, BornInv
<1>3. /\ Unborn.status = "unborn" /\ ~Unborn.process /\ ~Unborn.result
      /\ ~Unborn.forced /\ ~Unborn.pause_state /\ ~Unborn.cancel_requested
  BY DEF Unborn, NewJob
<1> QED
  BY <1>1, <1>2, <1>3 DEF IndInv, TypeOK

\* What justifies an operation staged now: the checks of its dispatch.
Grounds(a) ==
  \/ a.op = "submit" /\ job[a.job].status = "unborn" /\ job'[a.job].status = "queued"
  \/ a.op = "cancel" /\ a.job \in records
  \/ a.op = "pause" /\ a.job \in records /\ "resume" \notin dir[a.job]
  \/ a.op = "resume" /\ a.job \in records /\ job[a.job].status = "paused"
  \/ a.op = "release" /\ a.job \in records /\ job[a.job].status \in Terminal
  \/ a.op \in {"configure", "shutdown"}

\* A dispatched operation has its grounds, and nothing staged before it moves.
LEMMA DispatchAdds ==
  ASSUME IndInv, Dispatch, NEW i \in DOMAIN staged'
  PROVE  (i \in DOMAIN staged /\ staged'[i] = staged[i]) \/ Grounds(staged'[i])
<1> DEFINE One(a) == staged' = Append(staged, a) /\ Grounds(a)
<1>a. staged \in Seq(Action) /\ Len(staged) \in Nat /\ DOMAIN staged = 1 .. Len(staged)
  BY DEF IndInv, TypeOK
<1>b. \A s \in Shape, n \in Nat : NewJob(s, n).status = "queued"
  BY DEF NewJob
<1>1. ASSUME NEW a, One(a) PROVE (i \in DOMAIN staged /\ staged'[i] = staged[i]) \/ Grounds(staged'[i])
  <2>1. staged' = Append(staged, a) /\ Grounds(a)
    BY <1>1
  <2> HIDE DEF One
  <2>2. (i \in DOMAIN staged /\ staged'[i] = staged[i]) \/ staged'[i] = a
    BY <1>a, <2>1
  <2> QED
    BY <2>1, <2>2
<1>2. ASSUME NEW c \in Config, DispatchConfigure(c) PROVE One([op |-> "configure", config |-> c])
  BY <1>2 DEF DispatchConfigure, Grounds
<1>3. ASSUME NEW j \in Job, NEW s \in Shape, DispatchSubmit(j, s)
      PROVE  One([op |-> "submit", job |-> j])
  <2>1. job[j].status = "unborn" /\ job'[j].status = "queued"
    BY <1>3, <1>b, NextSeqType DEF DispatchSubmit, IndInv, TypeOK
  <2> QED
    BY <1>3, <2>1 DEF DispatchSubmit, Grounds
<1>4. ASSUME NEW j \in Job, NEW k \in Job, DispatchRestart(j, k)
      PROVE  (i \in DOMAIN staged /\ staged'[i] = staged[i]) \/ Grounds(staged'[i])
  <2> DEFINE a == [op |-> "cancel", job |-> j]
             b == [op |-> "submit", job |-> k]
  <2>1. job[j].shape \in Shape
    BY DEF IndInv, TypeOK, JobRecord
  <2>2. job[k].status = "unborn" /\ job'[k].status = "queued" /\ j \in records
    BY <1>4, <1>b, <2>1, NextSeqType DEF DispatchRestart, IndInv, TypeOK
  <2>3. staged' = staged \o <<b>> \/ staged' = staged \o <<a, b>>
    BY <1>4 DEF DispatchRestart
  <2>4. Grounds(a) /\ Grounds(b)
    BY <2>2 DEF Grounds
  <2> HIDE DEF a, b
  <2>5. CASE staged' = staged \o <<b>>
    <3>1. (i \in DOMAIN staged /\ staged'[i] = staged[i]) \/ staged'[i] = b
      BY <1>a, <2>5
    <3> QED
      BY <2>4, <3>1
  <2>6. CASE staged' = staged \o <<a, b>>
    <3>1. (i \in DOMAIN staged /\ staged'[i] = staged[i]) \/ staged'[i] = a \/ staged'[i] = b
      BY <1>a, <2>6
    <3> QED
      BY <2>4, <3>1
  <2> QED
    BY <2>3, <2>5, <2>6
<1>5. ASSUME NEW j \in Job, DispatchPause(j) PROVE One([op |-> "pause", job |-> j])
  BY <1>5 DEF DispatchPause, ResumeAcknowledged, Grounds
<1>6. ASSUME NEW j \in Job, DispatchResume(j) PROVE One([op |-> "resume", job |-> j])
  BY <1>6 DEF DispatchResume, Grounds
<1>7. ASSUME NEW j \in Job, DispatchCancel(j) PROVE One([op |-> "cancel", job |-> j])
  BY <1>7 DEF DispatchCancel, Grounds
<1>8. ASSUME NEW j \in Job, DispatchRelease(j) PROVE One([op |-> "release", job |-> j])
  BY <1>8 DEF DispatchRelease, Grounds
<1>9. ASSUME DispatchShutdown PROVE One([op |-> "shutdown"])
  BY <1>9 DEF DispatchShutdown, Grounds
<1> HIDE DEF One
<1> QED
  BY <1>1, <1>2, <1>3, <1>4, <1>5, <1>6, <1>7, <1>8, <1>9 DEF Dispatch

\* A shortened statement stages nothing new on a job.
LEMMA AtShrinks ==
  ASSUME TypeOK, Shortened, NEW op, NEW j, At(op, j)' # {}
  PROVE  At(op, j) # {}
BY AtTail, AtEmpty DEF Shortened, At
-----------------------------------------------------------------------------
(* Honest results, whatever the length of a statement.                     *)

\* A poll visits seated jobs.
PollInv == thread = "polling" => todo \subseteq Occupied

\* A retained result is what a worker that was not killed reported, a success has one
\* within the memory limit, and a job without a process has neither result nor kill.
Honest(r) ==
  /\ r.result => r.status \in {"succeeded", "failed"} /\ ~r.forced
  /\ r.status = "succeeded" => r.result /\ r.error # "memory"
  /\ r.forced /\ r.status \in Terminal => r.status = "interrupted"
  /\ ~r.process => ~r.result /\ ~r.forced
HonestInv == \A j \in Job : Honest(job[j])

\* A job reported to run has a process, and what is retained has a record.
RecordInv ==
  \A j \in Job :
    /\ job[j].status \in {"running", "pausing"} => job[j].process
    /\ j \in records => job[j].status \notin {"unborn", "released"}

\* A submission still to be applied is queued and nothing else is staged on its job.
StagedInv ==
  \A j \in Job :
    /\ At("submit", j) # {} => job[j].status = "queued"
    /\ \A op \in {"cancel", "pause", "resume", "release"} :
         At(op, j) # {} => job[j].status # "unborn" /\ At("submit", j) = {}

HonestInd == PollInv /\ HonestInv /\ RecordInv /\ StagedInv

\* A submission that is committed finds its job queued, without a process.
LEMMA SubmitQueued ==
  ASSUME IndInv, OwnInv, StagedInv, NEW j \in Job, 1 \in At("submit", j)
  PROVE  job[j].status = "queued" /\ ~job[j].process /\ j \notin records
BY DEF IndInv, OwnInv, BornInv, ProcessInv, StagedInv

\* Applying a staged action keeps every record honest.
LEMMA CommitHonest ==
  ASSUME IndInv, OwnInv, HonestInd, Commit
  PROVE  HonestInv'
<1> DEFINE j == Head(staged).job
<1> USE DEF HonestInd
<1>0. /\ \A k \in Job : Honest(job[k]) /\ job[k].status \in Status
      /\ Terminal \cap Live = {} /\ "succeeded" \in Terminal
  BY DEF HonestInv, IndInv, TypeOK, JobRecord, Terminal, Live
<1>s. SUFFICES ASSUME NEW k \in Job PROVE Honest(job'[k])
  BY DEF HonestInv
<1>1. CASE CommitConfigure \/ ResumeUnlinkPaused \/ CommitResumeRaises
  BY <1>0, <1>1 DEF CommitConfigure, ResumeUnlinkPaused, CommitResumeRaises
<1>2. CASE CommitSubmit
  <2>1. job[j].status = "queued" /\ ~job[j].process
    BY <1>2, SubmitEffect, SubmitQueued
  <2> QED
    BY <1>0, <1>2, <2>1, SubmitEffect DEF Honest, Keeps
<1>3. CASE CommitCancel
  <2>1. CASE k # j \/ j \notin records
    BY <1>0, <1>3, <2>1, CancelEffect
  <2>2. CASE k = j /\ j \in records
    <3>1. CancelsTo(job[k], job'[k]) /\ Honest(job[k])
      BY <1>0, <1>3, <2>2, CancelEffect
    <3> HIDE DEF j
    <3> QED
      BY <3>1 DEF CancelsTo, Honest, Terminal
  <2> QED
    BY <2>1, <2>2
<1>4. CASE CommitPause
  <2>1. /\ k # j => job'[k] = job[k]
        /\ Keeps(job[j], job'[j])
        /\ \/ job[j].status \in {"running", "queued"} /\ job'[j].status \in {"running", "pausing", "paused"}
           \/ job'[j] = job[j]
    BY <1>4, PauseEffect
  <2> HIDE DEF j
  <2> QED
    BY <1>0, <2>1 DEF Honest, Keeps, Terminal
<1>5. CASE CommitResumeQueued
  <2>1. /\ k # j => job'[k] = job[k]
        /\ Keeps(job[j], job'[j]) /\ ~job[j].process /\ job'[j].status \in {"queued", "failed"}
        /\ j \in Job
    BY <1>5, QueuedEffect
  <2> HIDE DEF j
  <2> QED
    BY <1>0, <2>1 DEF Honest, Keeps
<1>6. CASE ResumeTouch
  <2>1. /\ k # j => job'[k] = job[k]
        /\ Keeps(job[j], job'[j]) /\ job'[j].status = job[j].status /\ job[j].status \in Live
        /\ j \in Job
    BY <1>6, TouchEffect DEF HasDirectory
  <2> HIDE DEF j
  <2> QED
    BY <1>0, <2>1 DEF Honest, Keeps
<1>7. CASE ResumeUnlinkPause
  <2>1. /\ k # j => job'[k] = job[k]
        /\ Keeps(job[j], job'[j]) /\ job'[j].status = "running" /\ job[j].status \in Live
        /\ j \in Job
    BY <1>7, UnlinkEffect DEF HasDirectory
  <2> HIDE DEF j
  <2> QED
    BY <1>0, <2>1 DEF Honest, Keeps, Terminal, Live
<1>8. CASE CommitRelease
  <2>1. job'[k] = job[k] \/ (job'[k].status = "released" /\ ~job'[k].result /\ ~job'[k].forced)
    BY <1>8, ReleaseEffect
  <2> QED
    BY <1>0, <2>1 DEF Honest, Terminal
<1>9. CASE CloseBegin
  <2>1. (CancelsTo(job[k], job'[k]) \/ job'[k] = job[k]) /\ Honest(job[k])
    BY <1>0, <1>9, CloseBeginEffect
  <2> QED
    BY <2>1 DEF CancelsTo, Honest, Terminal
<1>10. CASE CloseEnd
  <2>1. CASE k \notin Occupied
    BY <1>0, <1>10, <2>1, CloseEndEffect
  <2>2. CASE k \in Occupied
    <3>1. PICK r \in JobRecord : FinishesTo(r, job'[k]) /\ r.forced /\ r.process = job[k].process
      BY <1>10, <2>2, CloseEndEffect
    <3>2. job[k].process
      BY <2>2 DEF Occupied
    <3> QED
      BY <3>1, <3>2 DEF FinishesTo, Honest
  <2> QED
    BY <2>1, <2>2
<1> QED
  BY <1>1, <1>2, <1>3, <1>4, <1>5, <1>6, <1>7, <1>8, <1>9, <1>10 DEF Commit

\* What an applied action does to a status, and to whom.
LEMMA CommitStatus ==
  ASSUME IndInv, OwnInv, HonestInd, Commit, NEW k \in Job
  PROVE  /\ \/ job'[k].status = job[k].status /\ job'[k].process = job[k].process
            \/ job'[k].status \in Terminal \cup {"queued", "paused"}
            \/ job'[k].status \in {"running", "pausing"} /\ job'[k].process
            \/ job'[k].status = "released" /\ k \notin records'
         /\ \/ job'[k] = job[k]
            \/ k \in records
            \/ \E op \in {"cancel", "pause", "resume", "release"} : 1 \in At(op, k)
            \/ 1 \in At("submit", k) /\ staged # <<>> /\ staged' = Tail(staged)
<1> DEFINE j == Head(staged).job
<1> USE DEF HonestInd
<1>1. CASE CommitConfigure \/ ResumeUnlinkPaused \/ CommitResumeRaises
  BY <1>1 DEF CommitConfigure, ResumeUnlinkPaused, CommitResumeRaises
<1>2. CASE CommitSubmit
  <2>1. job'[j].status \in {"queued", "failed"} /\ 1 \in At("submit", j)
    BY <1>2, SubmitEffect, SubmitQueued
  <2>2. staged # <<>> /\ staged' = Tail(staged)
    BY <1>2 DEF CommitSubmit, Committing, Advance
  <2> QED
    BY <1>2, <2>1, <2>2, SubmitEffect DEF Terminal
<1>3. CASE CommitCancel
  <2>1. job'[k] = job[k] \/ (CancelsTo(job[k], job'[k]) /\ k \in records)
    BY <1>3, CancelEffect
  <2> QED
    BY <2>1 DEF CancelsTo, Terminal
<1>4. CASE CommitPause
  <2>1. k # j => job'[k] = job[k]
    BY <1>4, PauseEffect
  <2>2. /\ 1 \in At("pause", j) /\ j \in Job /\ Keeps(job[j], job'[j])
        /\ job[j].status = "running" \/ job'[j].status = "paused" \/ job'[j] = job[j]
        /\ job'[j].status \in {"running", "pausing", "paused"} \/ job'[j] = job[j]
    BY <1>4, PauseEffect
  <2>3. job[j].status = "running" => job[j].process
    BY <2>2 DEF RecordInv
  <2> HIDE DEF j
  <2> QED
    BY <2>1, <2>2, <2>3 DEF Keeps
<1>5. CASE CommitResumeQueued
  <2>1. /\ k # j => job'[k] = job[k]
        /\ job'[j].status \in {"queued", "failed"} /\ 1 \in At("resume", j)
    BY <1>5, QueuedEffect
  <2> QED
    BY <2>1 DEF Terminal
<1>6. CASE ResumeTouch
  <2>1. /\ k # j => job'[k] = job[k]
        /\ Keeps(job[j], job'[j]) /\ job'[j].status = job[j].status /\ 1 \in At("resume", j)
    BY <1>6, TouchEffect
  <2> QED
    BY <2>1 DEF Keeps
<1>7. CASE ResumeUnlinkPause
  <2>1. /\ k # j => job'[k] = job[k]
        /\ Keeps(job[j], job'[j]) /\ job'[j].status = "running" /\ job[j].process
        /\ 1 \in At("resume", j)
    BY <1>7, UnlinkEffect DEF HasDirectory
  <2> QED
    BY <2>1 DEF Keeps
<1>8. CASE CommitRelease
  <2>1. job'[k] = job[k] \/ (job'[k].status = "released" /\ k \in records /\ k \notin records')
    BY <1>8, ReleaseEffect
  <2> QED
    BY <2>1
<1>9. CASE CloseBegin
  <2>1. (CancelsTo(job[k], job'[k]) /\ k \in records) \/ job'[k] = job[k]
    BY <1>9, CloseBeginEffect
  <2> QED
    BY <2>1 DEF CancelsTo, Terminal
<1>10. CASE CloseEnd
  <2>1. CASE k \notin Occupied
    BY <1>10, <2>1, CloseEndEffect
  <2>2. CASE k \in Occupied
    <3>1. PICK r \in JobRecord : FinishesTo(r, job'[k])
      BY <1>10, <2>2, CloseEndEffect
    <3> QED
      BY <2>2, <3>1 DEF FinishesTo, Occupied
  <2> QED
    BY <2>1, <2>2
<1> QED
  BY <1>1, <1>2, <1>3, <1>4, <1>5, <1>6, <1>7, <1>8, <1>9, <1>10 DEF Commit

\* Applying a staged action keeps the records in order.
LEMMA CommitRecords ==
  ASSUME IndInv, OwnInv, HonestInd, Commit
  PROVE  RecordInv' /\ StagedInv'
<1> USE DEF HonestInd
<1>0. /\ TypeOK /\ Shortened
      /\ \A k \in Job : k \in records' =>
           k \in records \/ (1 \in At("submit", k) /\ staged # <<>> /\ staged' = Tail(staged))
      /\ \A k \in Job : job[k].status # "unborn" => job'[k].status # "unborn"
  BY CommitMoves, CommitKeepsJobs DEF IndInv, CommitKeeps
<1>1. ASSUME NEW k \in Job
      PROVE  /\ job'[k].status \in {"running", "pausing"} => job'[k].process
             /\ k \in records' => job'[k].status \notin {"unborn", "released"}
  <2>1. k \in records' => job[k].status \notin {"unborn", "released"}
    BY <1>0, SubmitQueued DEF RecordInv
  <2>2. job[k].status \in {"running", "pausing"} => job[k].process
    BY DEF RecordInv
  <2> QED
    BY <2>1, <2>2, CommitStatus DEF Terminal
<1>2. ASSUME NEW k \in Job, At("submit", k)' # {}
      PROVE  job'[k].status = "queued"
  <2>1. At("submit", k) # {} /\ job[k].status = "queued"
    BY <1>0, <1>2, AtShrinks DEF StagedInv
  <2>2. k \notin records
    BY <2>1 DEF OwnInv, BornInv
  <2>3. ~(1 \in At("submit", k) /\ staged # <<>> /\ staged' = Tail(staged))
    <3> SUFFICES ASSUME 1 \in At("submit", k), staged # <<>>, staged' = Tail(staged) PROVE FALSE
      OBVIOUS
    <3>1. PICK i : i \in At("submit", k)'
      BY <1>2
    <3>2. i + 1 \in At("submit", k) /\ i \in Nat \ {0}
      BY <1>0, <3>1, AtTail
    <3> QED
      BY <3>2 DEF OwnInv, BornInv
  <2>4. \A op \in {"cancel", "pause", "resume", "release"} : At(op, k) = {}
    BY <2>1 DEF StagedInv
  <2> QED
    BY <2>1, <2>2, <2>3, <2>4, CommitStatus
<1>3. ASSUME NEW k \in Job, NEW op \in {"cancel", "pause", "resume", "release"}, At(op, k)' # {}
      PROVE  job'[k].status # "unborn" /\ At("submit", k)' = {}
  <2>1. At(op, k) # {}
    BY <1>0, <1>3, AtShrinks
  <2>2. job[k].status # "unborn" /\ At("submit", k) = {}
    BY <2>1 DEF StagedInv
  <2> QED
    BY <1>0, <2>2, AtShrinks
<1> QED
  BY <1>1, <1>2, <1>3 DEF RecordInv, StagedInv

\* What the scheduler's steps read and leave alone.
LEMMA PassFacts ==
  ASSUME IndInv, OwnInv, HonestInd, NEW j \in Job
  PROVE  /\ Reap(j) \/ (\E a, b \in BOOLEAN : Inspect(j, a, b)) =>
              j \in Occupied /\ job[j].status \in Live /\ job[j].process /\ thread = "polling"
                /\ thread' = "polling" /\ todo' = todo \ {j}
         /\ Start(j) => job[j].status = "queued" /\ ~job[j].process /\ j \in records
                          /\ thread = "starting" /\ thread' = "starting" /\ todo' = todo \ {j}
<1>1. ASSUME Reap(j) \/ \E a, b \in BOOLEAN : Inspect(j, a, b)
      PROVE  thread = "polling" /\ j \in todo /\ thread' = "polling" /\ todo' = todo \ {j}
  BY <1>1 DEF Reap, Inspect, Oldest
<1>2. ASSUME Start(j)
      PROVE  thread = "starting" /\ j \in todo /\ thread' = "starting" /\ todo' = todo \ {j}
  BY <1>2 DEF Start, Oldest
<1> QED
  BY <1>1, <1>2
  DEF IndInv, TodoInv, ProcessInv, OwnInv, PassInv, HonestInd, PollInv, Occupied

\* A step that changes one retained record and no statement keeps the staged submissions.
LEMMA StagedKept ==
  ASSUME IndInv, OwnInv, StagedInv, UNCHANGED staged,
         \A k \in Job : job[k].status # "unborn" => job'[k].status # "unborn",
         \A k \in Job : k \notin records => job'[k].status = job[k].status
  PROVE  StagedInv'
<1>1. \A op, k : At(op, k)' = At(op, k)
  BY DEF At
<1> QED
  BY <1>1 DEF StagedInv, OwnInv, BornInv

\* The scheduler keeps records honest: only a reaped, trusted output becomes a result.
LEMMA SchedulerHonest ==
  ASSUME IndInv, OwnInv, HonestInd, Scheduler
  PROVE  HonestInd'
<1> USE DEF managerVars, transportVars, threadVars, clientVars
<1>0. \A k \in Job : job[k].status \in Status /\ Honest(job[k])
  BY DEF IndInv, TypeOK, JobRecord, HonestInd, HonestInv
<1>a. Terminal \cap Live = {} /\ "succeeded" \in Terminal /\ Live \subseteq {"running", "pausing", "paused"}
  BY DEF Terminal, Live
<1>1. CASE BeginPass \/ PollsDone \/ EndPass \/ ThreadDies \/ \E j \in Job : Skip(j)
  <2>1. UNCHANGED <<records, job, staged>>
    BY <1>1 DEF BeginPass, PollsDone, EndPass, ThreadDies, Skip
  <2>2. thread' = "polling" => todo' = Occupied
    BY <1>1 DEF BeginPass, PollsDone, EndPass, ThreadDies, Skip
  <2>3. Occupied' = Occupied
    BY <2>1 DEF Occupied
  <2> QED
    BY <2>1, <2>2, <2>3, StagedKept
    DEF HonestInd, HonestInv, RecordInv, PollInv
<1>2. ASSUME NEW j \in Job, Reap(j) PROVE HonestInd'
  <2>1. j \in Occupied /\ job[j].process /\ thread = "polling" /\ todo' = todo \ {j}
    BY <1>2, PassFacts
  <2>2. /\ \A k \in Job \ {j} : job'[k] = job[k]
        /\ FinishesTo(job[j], job'[j]) /\ UNCHANGED <<records, staged, thread>>
    BY <1>2, ReapEffect
  <2>3. Honest(job'[j]) /\ job'[j].status \in Terminal
    BY <2>1, <2>2 DEF FinishesTo, Honest
  <2>4. HonestInv'
    BY <1>0, <2>2, <2>3 DEF HonestInv
  <2>5. RecordInv'
    BY <2>2, <2>3 DEF HonestInd, RecordInv, Terminal
  <2>6. StagedInv'
    BY <2>1, <2>2, <2>3, StagedKept DEF HonestInd, Occupied, Terminal
  <2>7. PollInv'
    BY <2>1, <2>2 DEF HonestInd, PollInv, Occupied, IndInv, TypeOK
  <2> QED
    BY <2>4, <2>5, <2>6, <2>7 DEF HonestInd
<1>3. ASSUME NEW j \in Job, NEW a \in BOOLEAN, NEW b \in BOOLEAN, Inspect(j, a, b) PROVE HonestInd'
  <2>1. /\ j \in Occupied /\ job[j].process /\ job[j].status \in Live
        /\ thread = "polling" /\ todo' = todo \ {j}
    BY <1>3, PassFacts
  <2>2. /\ \A k \in Job \ {j} : job'[k] = job[k]
        /\ job'[j].process = job[j].process /\ job'[j].result = job[j].result
        /\ job'[j].status \in {job[j].status, "paused"}
    BY <1>3, <2>1, InspectEffect
  <2>b. UNCHANGED <<records, staged, thread>>
    BY <1>3 DEF Inspect
  <2>3. job'[j].status \in Live /\ job'[j].process /\ ~job'[j].result
    BY <1>0, <1>a, <2>1, <2>2 DEF Live, Terminal, Honest
  <2>c. Honest(job'[j])
    BY <1>a, <2>3 DEF Honest
  <2>4. HonestInv'
    BY <1>0, <2>2, <2>c DEF HonestInv
  <2>5. RecordInv'
    BY <1>a, <2>b, <2>2, <2>3 DEF HonestInd, RecordInv
  <2>6. StagedInv'
    BY <1>a, <2>b, <2>1, <2>2, <2>3, StagedKept DEF HonestInd, Occupied
  <2>7. PollInv'
    BY <2>1, <2>2, <2>b DEF HonestInd, PollInv, Occupied, IndInv, TypeOK
  <2> QED
    BY <2>4, <2>5, <2>6, <2>7 DEF HonestInd
<1>4. ASSUME NEW j \in Job, Start(j) PROVE HonestInd'
  <2>1. job[j].status = "queued" /\ ~job[j].process /\ j \in records /\ thread' = "starting"
    BY <1>4, PassFacts
  <2>2. /\ \A k \in Job \ {j} : job'[k] = job[k]
        /\ job'[j].result = job[j].result /\ job'[j].forced = job[j].forced
        /\ \/ job'[j].status = "running" /\ job'[j].process
           \/ job'[j].status = "failed"
        /\ UNCHANGED <<records, staged>>
    BY <1>4, StartEffect
  <2>3. Honest(job'[j])
    BY <1>0, <2>1, <2>2 DEF Honest
  <2>4. HonestInv'
    BY <1>0, <2>2, <2>3 DEF HonestInv
  <2>5. RecordInv'
    BY <2>2 DEF HonestInd, RecordInv
  <2>6. StagedInv'
    BY <2>1, <2>2, StagedKept DEF HonestInd
  <2> QED
    BY <2>1, <2>4, <2>5, <2>6 DEF HonestInd, PollInv
<1> QED
  BY <1>1, <1>2, <1>3, <1>4 DEF Scheduler

\* The client's other steps and the workers' bring in no result.
LEMMA HonestStep == IndInv /\ OwnInv /\ HonestInd /\ [Next]_vars => HonestInd'
<1> SUFFICES ASSUME IndInv, OwnInv, HonestInd, [Next]_vars PROVE HonestInd'
  OBVIOUS
<1> USE DEF managerVars, transportVars, threadVars, clientVars
<1>0. \A k \in Job : Honest(job[k])
  BY DEF HonestInd, HonestInv
<1>1. ASSUME UNCHANGED <<records, thread, todo, staged>>,
             \A k \in Job : /\ job'[k].status = job[k].status /\ job'[k].process = job[k].process
                            /\ job'[k].result = job[k].result /\ job'[k].forced = job[k].forced
                            /\ job'[k].error = job[k].error
      PROVE  HonestInd'
  <2>1. StagedInv'
    BY <1>1, StagedKept DEF HonestInd
  <2>2. HonestInv'
    BY <1>0, <1>1 DEF HonestInv, Honest
  <2>3. RecordInv'
    BY <1>1 DEF HonestInd, RecordInv
  <2>4. Occupied' = Occupied
    BY <1>1 DEF Occupied, IndInv, TypeOK
  <2>5. PollInv'
    BY <1>1, <2>4 DEF HonestInd, PollInv
  <2> QED
    BY <2>1, <2>2, <2>3, <2>5 DEF HonestInd
<1>2. CASE Acknowledge \/ UNCHANGED vars
  BY <1>1, <1>2 DEF Acknowledge, vars
<1>3. ASSUME NEW j \in Job, Worker(j) \/ WorkerCrash(j) PROVE HonestInd'
  BY <1>1, <1>3
  DEF Worker, WorkerCrash, WorkerOutcome, WorkerCancelled, WorkerBoundary, WorkerSnapshot,
      WorkerUnpark, WorkerClearPause, WorkerClearResume, WorkerExit, WorkerUnchanged
<1>4. ASSUME NEW j \in Job, Deadline(j) PROVE HonestInd'
  BY <1>1, <1>4, DeadlineEffect DEF Keeps
<1>5. CASE Abandon
  <2>1. /\ UNCHANGED <<records, thread, todo>> /\ staged' = <<>>
        /\ \A k \in Job : job'[k] = job[k]
             \/ /\ job'[k].status = "unborn" /\ ~job'[k].result /\ ~job'[k].forced
                /\ k \notin records
    BY <1>5, AbandonEffect
  <2>2. \A k \in records : job'[k] = job[k]
    BY <1>5, AbandonEffect
  <2>3. HonestInv'
    BY <1>0, <2>1 DEF HonestInv, Honest, Terminal
  <2>4. RecordInv' /\ StagedInv'
    BY <2>1, AtEmpty DEF HonestInd, RecordInv, StagedInv
  <2>5. PollInv'
    BY <2>1, <2>2 DEF HonestInd, PollInv, Occupied
  <2> QED
    BY <2>3, <2>4, <2>5 DEF HonestInd
<1>6. CASE Dispatch
  <2>1. /\ UNCHANGED <<records, thread, todo>> /\ thread \notin {"polling", "starting"}
        /\ \A k \in Job : job'[k] = job[k]
             \/ /\ job[k].status = "unborn" /\ k \notin records
                /\ job'[k].status = "queued" /\ ~job'[k].result /\ ~job'[k].forced
    BY <1>6, BornEffect
  <2>2. HonestInv'
    BY <1>0, <2>1 DEF HonestInv, Honest, Terminal
  <2>3. RecordInv'
    BY <2>1 DEF HonestInd, RecordInv
  <2>4. ASSUME NEW k \in Job, At("submit", k)' # {}
        PROVE  job'[k].status = "queued" /\ k \notin records
    <3>1. PICK i \in DOMAIN staged' : staged'[i].op = "submit" /\ staged'[i].job = k
      BY <2>4 DEF At
    <3>2. CASE i \in DOMAIN staged /\ staged'[i] = staged[i]
      <4>1. At("submit", k) # {}
        BY <3>1, <3>2 DEF At
      <4> QED
        BY <2>1, <4>1 DEF HonestInd, StagedInv, OwnInv, BornInv
    <3>3. CASE Grounds(staged'[i])
      BY <2>1, <3>1, <3>3 DEF Grounds, OwnInv, BornInv
    <3> QED
      BY <1>6, <3>2, <3>3, DispatchAdds
  <2>5. ASSUME NEW k \in Job, NEW op \in {"cancel", "pause", "resume", "release"}, At(op, k)' # {}
        PROVE  job'[k].status # "unborn" /\ At("submit", k)' = {}
    <3>1. PICK i \in DOMAIN staged' : staged'[i].op = op /\ staged'[i].job = k
      BY <2>5 DEF At
    <3>2. CASE i \in DOMAIN staged /\ staged'[i] = staged[i]
      <4>1. At(op, k) # {}
        BY <3>1, <3>2 DEF At
      <4>2. job[k].status # "unborn" /\ At("submit", k) = {}
        BY <4>1 DEF HonestInd, StagedInv
      <4>3. ASSUME NEW m \in At("submit", k)' PROVE FALSE
        <5>1. m \in DOMAIN staged' /\ staged'[m].op = "submit" /\ staged'[m].job = k
          BY <4>3 DEF At
        <5>2. ~(m \in DOMAIN staged /\ staged'[m] = staged[m])
          BY <4>2, <5>1 DEF At
        <5>3. Grounds(staged'[m])
          BY <1>6, <5>1, <5>2, DispatchAdds
        <5> QED
          BY <4>2, <5>1, <5>3 DEF Grounds
      <4> QED
        BY <2>1, <4>2, <4>3
    <3>3. CASE Grounds(staged'[i])
      <4>1. k \in records
        BY <3>1, <3>3 DEF Grounds
      <4> QED
        BY <2>1, <2>4, <4>1 DEF OwnInv, BornInv
    <3> QED
      BY <1>6, <3>2, <3>3, DispatchAdds
  <2> QED
    BY <2>1, <2>2, <2>3, <2>4, <2>5 DEF HonestInd, PollInv, StagedInv
<1>7. CASE Commit
  <2>1. thread' # "polling"
    BY <1>7, CommitMoves
  <2> QED
    BY <1>7, <2>1, CommitHonest, CommitRecords DEF HonestInd, PollInv
<1> QED
  BY <1>2, <1>3, <1>4, <1>5, <1>6, <1>7, SchedulerHonest DEF Next

\* Nothing is retained at first.
LEMMA HonestInit == Init => HonestInd
<1> SUFFICES ASSUME Init PROVE HonestInd
  OBVIOUS
<1>1. \A op, j : At(op, j) = {}
  BY DEF Init, At
<1>2. /\ Unborn.status = "unborn" /\ ~Unborn.process /\ ~Unborn.result /\ ~Unborn.forced
      /\ \A j \in Job : job[j] = Unborn
  BY DEF Init, Unborn, NewJob
<1>3. HonestInv
  BY <1>2 DEF HonestInv, Honest, Terminal
<1> QED
  BY <1>1, <1>2, <1>3 DEF Init, HonestInd, PollInv, RecordInv, StagedInv

\* A retained result never comes from a killed worker, an over-limit success or an
\* unreadable output, whatever statements, kills, samples and completions interleave
\* (_finish and _poll in manager.py).
THEOREM HonestResults == Spec => []ResultHonest
<1>1. Init => IndInv /\ OwnInv /\ HonestInd
  BY InitInv, OwnInit, HonestInit
<1>2. IndInv /\ OwnInv /\ HonestInd /\ [Next]_vars => (IndInv /\ OwnInv /\ HonestInd)'
  BY NextInv, OwnStep, HonestStep
<1>3. IndInv /\ OwnInv /\ HonestInd => ResultHonest
  BY DEF HonestInd, HonestInv, Honest, ResultHonest, IndInv, TypeOK
<1> QED
  BY <1>1, <1>2, <1>3, PTL DEF Spec

-----------------------------------------------------------------------------
(* The pause handshake, for statements in which a resume stands alone.     *)

\* The client does not combine a resume with other operations in one statement.
ResumeAlone == \A i, k \in DOMAIN staged : staged[i].op = "resume" => i = k

\* A job to be resumed is retained and still paused, or its worker has ended; a job to
\* be paused has no resume that its worker still has to consume.
StatementInv ==
  \A j \in Job :
    /\ At("resume", j) # {} =>
         j \in records /\ (job[j].status = "paused" \/ (job[j].process /\ job[j].status \in Terminal))
    /\ At("pause", j) # {} => "resume" \notin dir[j]

\* A resume of the job is half applied: its files change under the manager's lock.
Halfway(j) == step \in {"touched", "unlinked"} /\ Head(staged).job = j
\* The worker computes and no request waits for it.
Fresh(j) == worker[j] = "computing" /\ dir[j] \cap {"pause", "resume"} = {}
\* The worker is on its way from its wait loop back to its computation.
Leaving(j) ==
  /\ worker[j] \in {"parked", "clear_pause", "clear_resume"} /\ "resume" \in dir[j]
  /\ worker[j] = "clear_resume" => "pause" \notin dir[j]
\* The worker waits at the boundary it has written a snapshot of.
Parked(j) == worker[j] = "parked" /\ {"pause", "paused"} \subseteq dir[j] /\ "resume" \notin dir[j]

\* What the marker files and the place of the worker say of the status of a job.
Hand(j) ==
  /\ dir[j] # {} => HasDirectory(j)
  /\ "cancel" \in dir[j] => job[j].cancel_requested
  /\ job[j].status = "paused" /\ job[j].process => job[j].pause_state
  /\ Alive(j) =>
       /\ "paused" \in dir[j] =>
            worker[j] = "parked" \/ (worker[j] = "done" /\ job[j].cancel_requested)
       /\ job[j].status = "running" =>
            worker[j] = "done" \/ Fresh(j) \/ (Leaving(j) /\ "pause" \notin dir[j])
       /\ job[j].status = "pausing" =>
            \/ worker[j] = "done"
            \/ /\ worker[j] \in {"computing", "snapshot", "parked"}
               /\ "pause" \in dir[j] /\ "resume" \notin dir[j]
       /\ job[j].status = "paused" /\ ~Halfway(j) =>
            (worker[j] = "done" /\ job[j].cancel_requested) \/ Parked(j)
       /\ job[j].status = "paused" /\ Halfway(j) =>
            worker[j] = "done" \/ Fresh(j) \/ Leaving(j)
HandInv == \A j \in Job : Hand(j)

HandInd == StatementInv /\ HandInv

\* Hand survives a step that changes neither the worker nor its requests, and at most
\* asks it to cancel.
LEMMA HandFrame ==
  ASSUME NEW k \in Job, Hand(k), Halfway(k)' <=> Halfway(k), worker'[k] = worker[k],
         \/ dir'[k] = dir[k]
         \/ dir'[k] = dir[k] \cup {"cancel"} /\ HasDirectory(k) /\ job'[k].cancel_requested,
         job'[k].status = job[k].status, job'[k].process = job[k].process,
         job[k].cancel_requested => job'[k].cancel_requested,
         job[k].pause_state => job'[k].pause_state
  PROVE  Hand(k)'
<1>1. /\ dir'[k] # {} => HasDirectory(k)'
      /\ "cancel" \in dir'[k] => job'[k].cancel_requested
      /\ job'[k].status = "paused" /\ job'[k].process => job'[k].pause_state
  BY DEF Hand, HasDirectory
<1>2. \A m \in {"pause", "paused", "resume"} : m \in dir'[k] <=> m \in dir[k]
  OBVIOUS
<1>3. /\ Fresh(k)' <=> Fresh(k)
      /\ Leaving(k)' <=> Leaving(k)
      /\ Parked(k)' <=> Parked(k)
      /\ Alive(k)' <=> Alive(k)
  BY <1>2 DEF Fresh, Leaving, Parked, Alive
<1> QED
  BY <1>1, <1>2, <1>3 DEF Hand

\* Hand holds of a job that no process computes.
LEMMA HandOver ==
  ASSUME NEW k \in Job, dir'[k] = {}, worker'[k] = "none",
         job'[k].status = "paused" /\ job'[k].process => job'[k].pause_state
  PROVE  Hand(k)'
BY DEF Hand, Alive

\* A job without a directory has no files and no worker.
LEMMA Idle ==
  ASSUME OwnInv, HandInd, NEW k \in Job, ~HasDirectory(k)
  PROVE  dir[k] = {} /\ worker[k] = "none"
BY OwnedFacts DEF OwnInv, HandInd, HandInv, Hand, Seated, HasDirectory, Alive

\* What a lost or successful touch of the cancel files leaves.
LEMMA MarkCancelDir ==
  ASSUME NEW S, MarkCancel(S), NEW k \in Job
  PROVE  dir'[k] = dir[k] \/ (k \in S /\ dir'[k] = dir[k] \cup {"cancel"})
BY DEF MarkCancel

\* What the removal of directories leaves.
LEMMA ClearTransportDir ==
  ASSUME NEW S, ClearTransport(S), NEW k \in Job
  PROVE  /\ k \in S => dir'[k] = {} /\ worker'[k] = "none"
         /\ k \notin S => dir'[k] = dir[k] /\ worker'[k] = worker[k]
BY DEF ClearTransport

\* A resume that is applied finds its job paused, and a pause finds no resume.
LEMMA StatementFacts ==
  ASSUME StatementInv, NEW j \in Job
  PROVE  /\ 1 \in At("resume", j) /\ HasDirectory(j) => job[j].status = "paused"
         /\ 1 \in At("pause", j) => "resume" \notin dir[j]
BY DEF StatementInv, HasDirectory, Live, Terminal

\* Applying a staged action keeps the handshake.
LEMMA CommitHand ==
  ASSUME IndInv, OwnInv, HonestInd, HandInd, Commit
  PROVE  HandInv'
<1>j. PICK j : j = Head(staged).job
  OBVIOUS
<1> USE <1>j DEF managerVars, transportVars, threadVars, clientVars
<1>0. \A k \in Job : Hand(k) /\ (~HasDirectory(k) => dir[k] = {} /\ worker[k] = "none")
  BY Idle DEF HandInd, HandInv
<1>r. \A k \in Job : job[k].process => k \in records
  BY DEF IndInv, ProcessInv
<1>s. SUFFICES ASSUME NEW k \in Job PROVE Hand(k)'
  BY DEF HandInv
<1>1. CASE CommitConfigure \/ CommitResumeRaises
  <2>1. UNCHANGED <<job, dir, worker, step>> /\ step \notin {"touched", "unlinked"}
    BY <1>1 DEF CommitConfigure, CommitResumeRaises, Committing
  <2>2. Halfway(k)' <=> Halfway(k)
    BY <2>1 DEF Halfway
  <2> QED
    BY <1>0, <2>1, <2>2, HandFrame
<1>2. CASE CommitSubmit
  <2>1. UNCHANGED <<dir, worker, step>> /\ step \notin {"touched", "unlinked"}
    BY <1>2 DEF CommitSubmit, Committing
  <2>2. /\ k # j => job'[k] = job[k]
        /\ ~job[j].process
        /\ job'[j] = job[j] \/ Keeps(job[j], job'[j])
    BY <1>2, SubmitEffect, SubmitQueued DEF HonestInd
  <2>3. Halfway(k)' <=> Halfway(k)
    BY <2>1 DEF Halfway
  <2>4. CASE k # j
    BY <1>0, <2>1, <2>2, <2>3, <2>4, HandFrame
  <2>5. CASE k = j
    BY <1>0, <2>1, <2>2, <2>5, HandOver DEF Keeps, HasDirectory
  <2> QED
    BY <2>4, <2>5
<1>3. CASE CommitCancel
  <2>1. UNCHANGED <<worker, step>> /\ step \notin {"touched", "unlinked"}
        /\ MarkCancel({j} \cap {m \in records : HasDirectory(m)})
    BY <1>3 DEF CommitCancel, Committing
  <2>2. dir'[k] = dir[k] \/ (k = j /\ k \in records /\ HasDirectory(k) /\ dir'[k] = dir[k] \cup {"cancel"})
    BY <2>1, MarkCancelDir
  <2>3. job'[k] = job[k] \/ CancelsTo(job[k], job'[k])
    BY <1>3, CancelEffect
  <2>3a. k = j /\ k \in records => CancelsTo(job[k], job'[k])
    BY <1>3, CancelEffect
  <2>4. Halfway(k)' <=> Halfway(k)
    BY <2>1 DEF Halfway
  <2>5. CASE HasDirectory(k)
    <3>1. /\ job'[k].status = job[k].status /\ job'[k].process = job[k].process
          /\ job[k].cancel_requested => job'[k].cancel_requested
          /\ job[k].pause_state => job'[k].pause_state
          /\ k = j /\ k \in records => job'[k].cancel_requested
      BY <2>3, <2>3a, <2>5 DEF CancelsTo, HasDirectory, Live, Terminal
    <3> QED
      BY <1>0, <2>1, <2>2, <2>4, <2>5, <3>1, HandFrame
  <2>6. CASE ~HasDirectory(k)
    <3>1. dir'[k] = {} /\ worker'[k] = "none"
      BY <1>0, <2>1, <2>2, <2>6
    <3>2. job'[k].status = "paused" /\ job'[k].process => job'[k].pause_state
      BY <1>0, <2>3 DEF CancelsTo, Hand
    <3> QED
      BY <3>1, <3>2, HandOver
  <2> QED
    BY <2>5, <2>6
<1>4. CASE CommitPause
  <2>1. UNCHANGED <<worker, step>> /\ step \notin {"touched", "unlinked"}
    BY <1>4 DEF CommitPause, Committing
  <2>2. j \in Job /\ 1 \in At("pause", j) /\ (k # j => job'[k] = job[k]) /\ Keeps(job[j], job'[j])
    BY <1>4, PauseEffect
  <2>3. \/ /\ job[j].status = "running" /\ job'[j].status = "pausing"
           /\ dir' = [dir EXCEPT ![j] = @ \cup {"pause"}]
        \/ /\ job[j].status = "running" /\ job'[j].status = "running" /\ dir' = dir
        \/ /\ job[j].status = "queued" /\ job'[j].status = "paused" /\ dir' = dir
        \/ /\ job'[j] = job[j] /\ dir' = dir
    BY <1>4, PauseEffect
  <2>4. "resume" \notin dir[j] /\ (job[j].status = "running" => job[j].process)
        /\ (job[j].status = "queued" => ~job[j].process)
    BY <2>2, StatementFacts DEF HandInd, HonestInd, RecordInv, IndInv, ProcessInv
  <2>5. ~Halfway(k) /\ ~Halfway(k)'
    BY <2>1 DEF Halfway
  <2>6. CASE k # j
    <3>1. dir'[k] = dir[k]
      BY <2>2, <2>3, <2>6 DEF IndInv, TypeOK
    <3> QED
      BY <1>0, <2>1, <2>2, <2>5, <2>6, <3>1, HandFrame
  <2>7. CASE k = j /\ job[j].status = "running" /\ job'[j].status = "pausing"
    <3>1. dir'[j] = dir[j] \cup {"pause"}
      BY <2>2, <2>3, <2>7 DEF IndInv, TypeOK
    <3>2. HasDirectory(j)'
      BY <2>2, <2>4, <2>7 DEF HasDirectory, Keeps, Live
    <3>3. Alive(j) => worker[j] = "done" \/ worker[j] = "computing"
      BY <1>0, <2>2, <2>4, <2>7 DEF Hand, Fresh, Leaving
    <3>4. Hand(j)
      BY <1>0, <2>2
    <3> QED
      BY <2>1, <2>2, <2>4, <2>7, <3>1, <3>2, <3>3, <3>4 DEF Hand, Keeps, Alive
  <2>8. CASE k = j /\ job[j].status = "queued"
    BY <1>0, <2>1, <2>2, <2>3, <2>4, <2>8, HandOver DEF HasDirectory, Keeps
  <2>9. CASE k = j /\ job'[j].status = job[j].status /\ dir' = dir
    BY <1>0, <2>1, <2>2, <2>5, <2>9, HandFrame DEF Keeps
  <2> QED
    BY <2>3, <2>6, <2>7, <2>8, <2>9
<1>5. CASE CommitResumeQueued
  <2>1. UNCHANGED <<dir, worker, step>> /\ step \notin {"touched", "unlinked"}
    BY <1>5 DEF CommitResumeQueued, Committing
  <2>2. /\ k # j => job'[k] = job[k]
        /\ Keeps(job[j], job'[j]) /\ ~job[j].process
    BY <1>5, QueuedEffect
  <2>3. Halfway(k)' <=> Halfway(k)
    BY <2>1 DEF Halfway
  <2>4. CASE k # j
    BY <1>0, <2>1, <2>2, <2>3, <2>4, HandFrame
  <2>5. CASE k = j
    BY <1>0, <2>1, <2>2, <2>5, HandOver DEF Keeps, HasDirectory
  <2> QED
    BY <2>4, <2>5
<1>6. CASE ResumeTouch
  <2>1. /\ k # j => job'[k] = job[k]
        /\ Keeps(job[j], job'[j]) /\ job'[j].status = job[j].status
        /\ \/ /\ dir' = [dir EXCEPT ![j] = @ \cup {"resume"}] /\ step' = "touched"
              /\ UNCHANGED staged
           \/ UNCHANGED <<dir, step>>
        /\ worker' = worker /\ HasDirectory(j) /\ 1 \in At("resume", j) /\ j \in Job
    BY <1>6, TouchEffect
  <2>2. step = "none"
    BY <1>6 DEF ResumeTouch, Committing
  <2>3. job[j].status = "paused"
    BY <2>1, StatementFacts DEF HandInd
  <2>4. CASE UNCHANGED <<dir, step>>
    <3>1. Halfway(k)' <=> Halfway(k)
      BY <2>2, <2>4 DEF Halfway
    <3> QED
      BY <1>0, <2>1, <2>4, <3>1, HandFrame DEF Keeps
  <2>5. CASE dir' = [dir EXCEPT ![j] = @ \cup {"resume"}] /\ step' = "touched" /\ UNCHANGED staged
    <3>1. Halfway(k)' <=> k = j
      BY <2>5 DEF Halfway
    <3>2. ~Halfway(k)
      BY <2>2 DEF Halfway
    <3>3. CASE k # j
      <4>1. dir'[k] = dir[k]
        BY <2>1, <2>5, <3>3 DEF IndInv, TypeOK
      <4> QED
        BY <1>0, <2>1, <3>1, <3>2, <3>3, <4>1, HandFrame
    <3>4. CASE k = j
      <4>1. dir'[j] = dir[j] \cup {"resume"}
        BY <2>1, <2>5 DEF IndInv, TypeOK
      <4>2. HasDirectory(j)'
        BY <2>1, <2>3 DEF HasDirectory, Keeps
      <4>3. Alive(j) => (worker[j] = "done" /\ job[j].cancel_requested) \/ worker[j] = "parked"
        BY <1>0, <2>1, <2>3, <3>2, <3>4 DEF Hand, Parked
      <4>4. Hand(j)
        BY <1>0, <2>1
      <4>5. Alive(j) => worker'[j] = "done" \/ Leaving(j)'
        BY <2>1, <4>1, <4>3 DEF Leaving
      <4> QED
        BY <2>1, <2>3, <3>1, <3>4, <4>1, <4>2, <4>3, <4>4, <4>5 DEF Hand, Keeps, Alive
    <3> QED
      BY <3>3, <3>4
  <2> QED
    BY <2>1, <2>4, <2>5
<1>7. CASE ResumeUnlinkPaused
  <2>1. /\ step = "touched" /\ step' = "unlinked" /\ UNCHANGED <<job, worker, staged>>
        /\ dir' = [dir EXCEPT ![j] = @ \ {"paused"}]
    BY <1>7 DEF ResumeUnlinkPaused
  <2>2. Head(staged).op = "resume" /\ HasDirectory(j) /\ staged # <<>>
    BY <2>1 DEF IndInv, HeadInv
  <2>3. j \in Job /\ 1 \in At("resume", j)
    BY <2>2, HeadJob DEF IndInv
  <2>4. job[j].status = "paused"
    BY <2>2, <2>3, StatementFacts DEF HandInd
  <2>5. (Halfway(k) <=> k = j) /\ (Halfway(k)' <=> k = j)
    BY <2>1 DEF Halfway
  <2>6. CASE k # j
    <3>1. dir'[k] = dir[k]
      BY <2>1, <2>3, <2>6 DEF IndInv, TypeOK
    <3> QED
      BY <1>0, <2>1, <2>5, <2>6, <3>1, HandFrame
  <2>7. CASE k = j
    <3>1. dir'[j] = dir[j] \ {"paused"}
      BY <2>1, <2>3 DEF IndInv, TypeOK
    <3>2. Hand(j) /\ HasDirectory(j)'
      BY <1>0, <2>1, <2>2, <2>3 DEF HasDirectory
    <3>3. Alive(j) => worker[j] = "done" \/ Fresh(j) \/ Leaving(j)
      BY <2>4, <2>5, <2>7, <3>2 DEF Hand
    <3>4. (Fresh(j) => Fresh(j)') /\ (Leaving(j) => Leaving(j)')
      BY <2>1, <3>1 DEF Fresh, Leaving
    <3> QED
      BY <2>1, <2>4, <2>5, <2>7, <3>1, <3>2, <3>3, <3>4 DEF Hand, Alive
  <2> QED
    BY <2>6, <2>7
<1>8. CASE ResumeUnlinkPause
  <2>1. step = "unlinked" /\ step' = "none"
    BY <1>8 DEF ResumeUnlinkPause
  <2>2. /\ j \in Job /\ 1 \in At("resume", j) /\ HasDirectory(j) /\ worker' = worker
        /\ k # j => job'[k] = job[k]
        /\ Keeps(job[j], job'[j]) /\ job'[j].status = "running"
        /\ dir' = [dir EXCEPT ![j] = @ \ {"pause"}]
    BY <1>8, UnlinkEffect
  <2>3. job[j].status = "paused"
    BY <2>2, StatementFacts DEF HandInd
  <2>4. (Halfway(k) <=> k = j) /\ ~Halfway(k)'
    BY <2>1 DEF Halfway
  <2>5. CASE k # j
    <3>1. dir'[k] = dir[k]
      BY <2>2, <2>5 DEF IndInv, TypeOK
    <3> QED
      BY <1>0, <2>2, <2>4, <2>5, <3>1, HandFrame
  <2>6. CASE k = j
    <3>1. dir'[j] = dir[j] \ {"pause"}
      BY <2>2 DEF IndInv, TypeOK
    <3>2. Hand(j) /\ HasDirectory(j)'
      BY <1>0, <2>2 DEF HasDirectory, Keeps, Live
    <3>3. Alive(j) => worker[j] = "done" \/ Fresh(j) \/ Leaving(j)
      BY <2>3, <2>4, <2>6, <3>2 DEF Hand
    <3>4. (Fresh(j) => Fresh(j)') /\ (Leaving(j) => Leaving(j)')
      BY <2>2, <3>1 DEF Fresh, Leaving
    <3> QED
      BY <2>2, <2>6, <3>1, <3>2, <3>3, <3>4 DEF Hand, Keeps, Alive
  <2> QED
    BY <2>5, <2>6
<1>9. CASE CommitRelease
  <2>1. /\ j \in Job /\ 1 \in At("release", j)
        /\ k # j => job'[k] = job[k]
        /\ j \notin records => job'[j] = job[j]
        /\ j \in records => ~job'[j].process
        /\ UNCHANGED <<dir, worker, step>>
    BY <1>9, ReleaseEffect
  <2>2. job[j].status \in Terminal \cup {"released"}
    BY <2>1 DEF OwnInv, ReleaseInv
  <2>3. ~Halfway(k) /\ ~Halfway(k)'
    BY <1>9, <2>1 DEF CommitRelease, Committing, Halfway
  <2>4. CASE k # j \/ j \notin records
    BY <1>0, <2>1, <2>3, <2>4, HandFrame
  <2>5. CASE k = j /\ j \in records
    <3>1. ~HasDirectory(j)
      BY <2>2 DEF HasDirectory, Live, Terminal
    <3> QED
      BY <1>0, <2>1, <2>5, <3>1, HandOver
  <2> QED
    BY <2>4, <2>5
<1>10. CASE CloseBegin
  <2>1. /\ UNCHANGED worker /\ MarkCancel({m \in records : HasDirectory(m)})
        /\ step = "none" /\ step' = "closing"
    BY <1>10 DEF CloseBegin, Committing
  <2>2. dir'[k] = dir[k] \/ (k \in records /\ HasDirectory(k) /\ dir'[k] = dir[k] \cup {"cancel"})
    BY <2>1, MarkCancelDir
  <2>3. IF k \in records THEN CancelsTo(job[k], job'[k]) ELSE job'[k] = job[k]
    BY <1>10, CloseBeginEffect
  <2>4. ~Halfway(k) /\ ~Halfway(k)'
    BY <2>1 DEF Halfway
  <2>5. CASE HasDirectory(k)
    <3>1. /\ job'[k].status = job[k].status /\ job'[k].process = job[k].process
          /\ job[k].cancel_requested => job'[k].cancel_requested
          /\ job[k].pause_state => job'[k].pause_state
          /\ k \in records => job'[k].cancel_requested
      BY <2>3, <2>5 DEF CancelsTo, HasDirectory, Live, Terminal
    <3> QED
      BY <1>0, <2>1, <2>2, <2>4, <2>5, <3>1, HandFrame
  <2>6. CASE ~HasDirectory(k)
    <3>1. dir'[k] = {} /\ worker'[k] = "none"
      BY <1>0, <2>1, <2>2, <2>6
    <3>2. job'[k].status = "paused" /\ job'[k].process => job'[k].pause_state
      BY <1>0, <2>3 DEF CancelsTo, Hand
    <3> QED
      BY <3>1, <3>2, HandOver
  <2> QED
    BY <2>5, <2>6
<1>11. CASE CloseEnd
  <2>1. ClearTransport(Occupied)
    BY <1>11, CloseEndEffect
  <2>2. ~Halfway(k) /\ ~Halfway(k)'
    BY <1>11 DEF CloseEnd, LockFree, Halfway
  <2>3. CASE k \notin Occupied
    <3>1. job'[k] = job[k] /\ dir'[k] = dir[k] /\ worker'[k] = worker[k]
      BY <1>11, <2>1, <2>3, CloseEndEffect, ClearTransportDir
    <3> QED
      BY <1>0, <2>2, <3>1, HandFrame
  <2>4. CASE k \in Occupied
    <3>1. PICK r \in JobRecord : FinishesTo(r, job'[k])
      BY <1>11, <2>4, CloseEndEffect
    <3>2. dir'[k] = {} /\ worker'[k] = "none"
      BY <2>1, <2>4, ClearTransportDir
    <3> QED
      BY <3>1, <3>2, HandOver DEF FinishesTo, Terminal
  <2> QED
    BY <2>3, <2>4
<1> QED
  BY <1>1, <1>2, <1>3, <1>4, <1>5, <1>6, <1>7, <1>8, <1>9, <1>10, <1>11 DEF Commit

\* The scheduler keeps the handshake: it reports paused only what has parked.
LEMMA SchedulerHand ==
  ASSUME IndInv, OwnInv, HonestInd, HandInd, Scheduler
  PROVE  HandInv'
<1> USE DEF managerVars, transportVars, threadVars, clientVars
<1>0. \A k \in Job : Hand(k) /\ (~HasDirectory(k) => dir[k] = {} /\ worker[k] = "none")
  BY Idle DEF HandInd, HandInv
<1>h. \A k \in Job : Halfway(k)' <=> Halfway(k)
  BY DEF Scheduler, BeginPass, PollsDone, EndPass, ThreadDies, Reap, Start, Skip, Inspect, Halfway
<1>s. SUFFICES ASSUME NEW k \in Job PROVE Hand(k)'
  BY DEF HandInv
<1>1. CASE BeginPass \/ PollsDone \/ EndPass \/ ThreadDies \/ \E j \in Job : Skip(j)
  <2>1. UNCHANGED <<job, dir, worker>>
    BY <1>1 DEF BeginPass, PollsDone, EndPass, ThreadDies, Skip
  <2> QED
    BY <1>0, <1>h, <2>1, HandFrame
<1>2. ASSUME NEW j \in Job, Reap(j) PROVE Hand(k)'
  <2>1. (k # j => job'[k] = job[k]) /\ FinishesTo(job[j], job'[j])
    BY <1>2, ReapEffect
  <2>2. ClearTransport({j})
    BY <1>2 DEF Reap
  <2>3. CASE k # j
    <3>1. dir'[k] = dir[k] /\ worker'[k] = worker[k]
      BY <2>2, <2>3, ClearTransportDir
    <3> QED
      BY <1>0, <1>h, <2>1, <2>3, <3>1, HandFrame
  <2>4. CASE k = j
    <3>1. dir'[k] = {} /\ worker'[k] = "none"
      BY <2>2, <2>4, ClearTransportDir
    <3> QED
      BY <2>1, <2>4, <3>1, HandOver DEF FinishesTo, Terminal
  <2> QED
    BY <2>3, <2>4
<1>3. ASSUME NEW j \in Job, NEW b \in BOOLEAN, NEW c \in BOOLEAN, Inspect(j, b, c) PROVE Hand(k)'
  <2> DEFINE a == job[j].status = "pausing" /\ "paused" \in dir[j]
  <2>1. /\ thread = "polling" /\ job[j].status \in Live /\ job[j].process
    BY <1>3, PassFacts
  <2>2. /\ k # j => job'[k] = job[k]
        /\ job'[j].process = job[j].process
        /\ job'[j].status = IF a /\ b THEN "paused" ELSE job[j].status
        /\ job'[j].pause_state <=> job[j].pause_state \/ (a /\ b)
        /\ job'[j].cancel_requested <=> job[j].cancel_requested \/ c \/ (a /\ ~b)
        /\ ~b => a
    BY <1>3, <2>1, InspectEffect
  <2>3. /\ MarkCancel(IF c \/ ~b THEN {j} ELSE {})
        /\ \E p \in {worker[j], "none"} : worker' = [worker EXCEPT ![j] = p]
    BY <1>3 DEF Inspect
  <2>4. dir'[k] = dir[k] \/ (k = j /\ (c \/ ~b) /\ dir'[k] = dir[k] \cup {"cancel"})
    BY <2>3, MarkCancelDir
  <2>5. (k # j => worker'[k] = worker[k]) /\ worker'[j] \in {worker[j], "none"}
    BY <2>3 DEF IndInv, TypeOK
  <2>6. step \notin {"touched", "unlinked"}
    BY <2>1 DEF IndInv, HeadInv
  <2>7. ~Halfway(k) /\ ~Halfway(k)'
    BY <1>h, <2>6 DEF Halfway
  <2>8. CASE k # j
    BY <1>0, <1>h, <2>2, <2>4, <2>5, <2>8, HandFrame
  <2>9. CASE k = j /\ ~(a /\ b) /\ worker'[j] = worker[j]
    <3>1. HasDirectory(j) /\ (c \/ ~b => job'[j].cancel_requested)
      BY <2>1, <2>2 DEF HasDirectory
    <3> HIDE DEF a
    <3> QED
      BY <1>0, <1>h, <2>2, <2>4, <2>9, <3>1, HandFrame
  <2>10. CASE k = j /\ ((a /\ b) \/ worker'[j] = "none")
    <3>1. HasDirectory(j)' /\ (c \/ ~b => job'[j].cancel_requested)
      BY <2>1, <2>2 DEF HasDirectory, Live
    <3>2. Hand(j)
      BY <1>0
    <3>3. /\ dir'[j] # {} => HasDirectory(j)'
          /\ "cancel" \in dir'[j] => job'[j].cancel_requested
          /\ job'[j].status = "paused" /\ job'[j].process => job'[j].pause_state
      <4> HIDE DEF a
      <4> QED
        BY <2>2, <2>4, <2>10, <3>1, <3>2 DEF Hand
    <3>4. \A m \in {"pause", "paused", "resume"} : m \in dir'[j] <=> m \in dir[j]
      BY <2>4, <2>10
    <3>5. ASSUME Alive(j)'
          PROVE  /\ job'[j].status = "paused"
                 /\ (worker'[j] = "done" /\ job'[j].cancel_requested) \/ Parked(j)'
      <4>1. a /\ b /\ worker'[j] = worker[j] /\ Alive(j)
        BY <2>5, <2>10, <3>5 DEF Alive
      <4>2. (worker[j] = "done" /\ job[j].cancel_requested) \/ Parked(j)
        BY <3>2, <4>1 DEF Hand, Parked
      <4> QED
        BY <2>2, <3>4, <4>1, <4>2 DEF Parked
    <3>6. Parked(j)' => worker'[j] = "parked"
      BY DEF Parked
    <3> HIDE DEF a
    <3> QED
      BY <2>7, <2>10, <3>3, <3>5, <3>6 DEF Hand
  <2> QED
    BY <2>5, <2>8, <2>9, <2>10
<1>4. ASSUME NEW j \in Job, Start(j) PROVE Hand(k)'
  <2>1. job[j].status = "queued" /\ ~job[j].process /\ dir[j] = {} /\ worker[j] = "none"
    BY <1>0, <1>4, PassFacts DEF HasDirectory
  <2>2. /\ k # j => job'[k] = job[k]
        /\ \/ /\ job'[j].status = "running" /\ job'[j].process
              /\ worker' = [worker EXCEPT ![j] = "computing"]
           \/ /\ job'[j].status = "failed" /\ worker' = worker
        /\ dir' = dir
    BY <1>4, StartEffect
  <2>3. CASE k # j
    <3>1. worker'[k] = worker[k]
      BY <2>2, <2>3 DEF IndInv, TypeOK
    <3> QED
      BY <1>0, <1>h, <2>2, <2>3, <3>1, HandFrame
  <2>4. CASE k = j /\ job'[j].status = "failed" /\ worker' = worker
    BY <2>1, <2>2, <2>4, HandOver
  <2>5. CASE k = j /\ job'[j].status = "running" /\ worker' = [worker EXCEPT ![j] = "computing"]
    <3>1. worker'[j] = "computing"
      BY <2>5 DEF IndInv, TypeOK
    <3>2. Fresh(j)'
      BY <2>1, <2>2, <3>1 DEF Fresh
    <3> QED
      BY <2>1, <2>2, <2>5, <3>1, <3>2 DEF Hand
  <2> QED
    BY <2>2, <2>3, <2>4, <2>5
<1> QED
  BY <1>1, <1>2, <1>3, <1>4 DEF Scheduler

\* A worker's own steps between its computation and its wait loop keep the handshake.
LEMMA WorkerHand ==
  ASSUME IndInv, OwnInv, HonestInd, HandInd, NEW j \in Job, Worker(j) \/ WorkerCrash(j)
  PROVE  HandInv'
<1> USE DEF managerVars, transportVars, threadVars, clientVars
<1>0. \A k \in Job : Hand(k)
  BY DEF HandInd, HandInv
<1>1. UNCHANGED <<job, staged, step>>
  BY DEF Worker, WorkerCrash, WorkerOutcome, WorkerCancelled, WorkerBoundary, WorkerSnapshot,
         WorkerUnpark, WorkerClearPause, WorkerClearResume, WorkerExit, WorkerUnchanged
<1>2. Alive(j)
  BY DEF Worker, WorkerCrash, WorkerOutcome, WorkerCancelled, WorkerBoundary, WorkerSnapshot,
         WorkerUnpark, WorkerClearPause, WorkerClearResume, WorkerExit, Alive
<1>3. HasDirectory(j) /\ job[j].status \in {"running", "pausing", "paused"} /\ HasDirectory(j)'
  BY <1>1, <1>2, OwnedFacts DEF OwnInv, Seated, HasDirectory, Live
<1>4. \A k \in Job : Halfway(k)' <=> Halfway(k)
  BY <1>1 DEF Halfway
<1>5. dir \in [Job -> SUBSET Marker] /\ worker \in [Job -> Place]
  BY DEF IndInv, TypeOK
<1>6. ASSUME NEW p, worker' = [worker EXCEPT ![j] = p],
             NEW d, dir' = [dir EXCEPT ![j] = d], Hand(j)'
      PROVE  HandInv'
  <2>1. \A k \in Job \ {j} : worker'[k] = worker[k] /\ dir'[k] = dir[k]
    BY <1>5, <1>6
  <2>2. \A k \in Job \ {j} : Hand(k)'
    BY <1>0, <1>1, <1>4, <2>1, HandFrame
  <2> QED
    BY <1>6, <2>2 DEF HandInv
<1>7. dir = [dir EXCEPT ![j] = dir[j]]
  BY <1>5
<1> USE <1>0, <1>1, <1>2, <1>3
<1>8. ASSUME worker' = [worker EXCEPT ![j] = "none"], dir' = dir PROVE HandInv'
  <2>1. worker'[j] = "none"
    BY <1>5, <1>8
  <2>2. Hand(j)'
    BY <1>8, <2>1 DEF Hand, Alive
  <2> QED
    BY <1>6, <1>7, <1>8, <2>2
<1>9. ASSUME worker' = [worker EXCEPT ![j] = "done"], dir' = dir,
             worker[j] \in {"computing", "snapshot"}
               \/ (worker[j] = "parked" /\ job[j].cancel_requested),
             job[j].status = "paused" /\ ~Halfway(j) => job[j].cancel_requested
      PROVE  HandInv'
  <2>1. worker'[j] = "done"
    BY <1>5, <1>9
  <2>2. "paused" \in dir[j] => job[j].cancel_requested
    BY <1>9 DEF Hand
  <2>3. Hand(j)'
    BY <1>4, <1>9, <2>1, <2>2 DEF Hand
  <2> QED
    BY <1>6, <1>7, <1>9, <2>3
<1>10. CASE WorkerExit(j) \/ WorkerCrash(j)
  BY <1>8, <1>10 DEF WorkerExit, WorkerCrash
<1>11. CASE (\E o \in Returns : WorkerOutcome(j, o)) \/ WorkerCancelled(j)
  <2>1. /\ worker' = [worker EXCEPT ![j] = "done"] /\ dir' = dir
        /\ worker[j] \in {"computing", "parked"}
        /\ worker[j] = "computing" \/ "cancel" \in dir[j]
    BY <1>11 DEF WorkerOutcome, WorkerCancelled, Writes
  <2>2. worker[j] = "parked" => job[j].cancel_requested
    BY <2>1 DEF Hand
  <2>3. job[j].status = "paused" /\ ~Halfway(j) => job[j].cancel_requested
    BY <2>1, <2>2 DEF Hand, Parked
  <2> QED
    BY <1>9, <2>1, <2>2, <2>3
<1>12. CASE WorkerBoundary(j)
  <2>1. /\ worker' = [worker EXCEPT ![j] = "snapshot"] /\ dir' = dir
        /\ worker[j] = "computing" /\ "pause" \in dir[j]
    BY <1>12 DEF WorkerBoundary
  <2>2. worker'[j] = "snapshot"
    BY <1>5, <2>1
  <2>3. job[j].status = "pausing" /\ "paused" \notin dir[j] /\ "resume" \notin dir[j]
    BY <2>1 DEF Hand, Fresh, Leaving, Parked
  <2>4. Hand(j)'
    BY <2>1, <2>2, <2>3 DEF Hand
  <2> QED
    BY <1>6, <1>7, <2>1, <2>4
<1>13. CASE WorkerSnapshot(j)
  <2>1. worker[j] = "snapshot"
    BY <1>13 DEF WorkerSnapshot
  <2>2. job[j].status = "pausing" /\ "pause" \in dir[j] /\ "resume" \notin dir[j]
    BY <2>1 DEF Hand, Fresh, Leaving, Parked
  <2>3. CASE worker' = [worker EXCEPT ![j] = "parked"] /\ dir' = [dir EXCEPT ![j] = @ \cup {"paused"}]
    <3>1. worker'[j] = "parked" /\ dir'[j] = dir[j] \cup {"paused"}
      BY <1>5, <2>3
    <3>2. Hand(j)'
      BY <2>2, <3>1 DEF Hand
    <3> QED
      BY <1>6, <2>3, <3>2
  <2>4. CASE worker' = [worker EXCEPT ![j] = "done"] /\ dir' = dir
    BY <1>9, <2>1, <2>2, <2>4
  <2> QED
    BY <1>13, <2>3, <2>4 DEF WorkerSnapshot, Writes
<1>14. CASE WorkerUnpark(j)
  <2>1. /\ worker[j] = "parked" /\ Released(j)
        /\ dir' = [dir EXCEPT ![j] = @ \ {"paused"}]
        /\ worker' = [worker EXCEPT ![j] = "clear_pause"]
    BY <1>14 DEF WorkerUnpark
  <2>2. worker'[j] = "clear_pause" /\ dir'[j] = dir[j] \ {"paused"}
    BY <1>5, <2>1
  <2>3. /\ job[j].status = "running" => Leaving(j) /\ "pause" \notin dir[j]
        /\ job[j].status = "paused" => Halfway(j) /\ Leaving(j)
        /\ job[j].status # "pausing"
    BY <2>1 DEF Hand, Fresh, Parked, Released
  <2>4. Leaving(j) => Leaving(j)'
    BY <2>2 DEF Leaving
  <2>5. Hand(j)'
    BY <1>4, <2>2, <2>3, <2>4 DEF Hand
  <2> QED
    BY <1>6, <2>1, <2>5
<1>15. CASE WorkerClearPause(j)
  <2>1. /\ worker[j] = "clear_pause"
        /\ dir' = [dir EXCEPT ![j] = @ \ {"pause"}]
        /\ worker' = [worker EXCEPT ![j] = "clear_resume"]
    BY <1>15 DEF WorkerClearPause
  <2>2. worker'[j] = "clear_resume" /\ dir'[j] = dir[j] \ {"pause"}
    BY <1>5, <2>1
  <2>3. /\ Leaving(j) /\ "paused" \notin dir[j]
        /\ job[j].status = "paused" => Halfway(j)
        /\ job[j].status # "pausing"
    BY <2>1 DEF Hand, Fresh, Parked
  <2>4. Leaving(j)'
    BY <2>2, <2>3 DEF Leaving
  <2>5. Hand(j)'
    BY <1>4, <2>2, <2>3, <2>4 DEF Hand
  <2> QED
    BY <1>6, <2>1, <2>5
<1>16. CASE WorkerClearResume(j)
  <2>1. /\ worker[j] = "clear_resume"
        /\ dir' = [dir EXCEPT ![j] = @ \ {"resume"}]
        /\ worker' = [worker EXCEPT ![j] = "computing"]
    BY <1>16 DEF WorkerClearResume
  <2>2. worker'[j] = "computing" /\ dir'[j] = dir[j] \ {"resume"}
    BY <1>5, <2>1
  <2>3. /\ Leaving(j) /\ "paused" \notin dir[j]
        /\ job[j].status = "paused" => Halfway(j)
        /\ job[j].status # "pausing"
    BY <2>1 DEF Hand, Fresh, Parked
  <2>4. Fresh(j)'
    BY <2>1, <2>2, <2>3 DEF Leaving, Fresh
  <2>5. Hand(j)'
    BY <1>4, <2>2, <2>3, <2>4 DEF Hand
  <2> QED
    BY <1>6, <2>1, <2>5
<1> QED
  BY <1>10, <1>11, <1>12, <1>13, <1>14, <1>15, <1>16 DEF Worker

\* Which jobs' pending resumes and resume files a committed action leaves.
LEMMA CommitStatement ==
  ASSUME IndInv, OwnInv, HonestInd, HandInd, ResumeAlone, Commit
  PROVE  StatementInv'
<1> USE DEF managerVars, transportVars, threadVars, clientVars
<1>0. TypeOK /\ Shortened
  BY CommitMoves DEF IndInv
<1>1. ASSUME NEW j \in Job, At("resume", j)' # {}
      PROVE  UNCHANGED <<job, records>>
  <2>1. PICK i : i \in At("resume", j)'
    BY <1>1
  <2>2. i \in DOMAIN staged' /\ staged'[i].op = "resume"
    BY <2>1 DEF At
  <2>3. CASE staged # <<>> /\ staged' = Tail(staged)
    <3>1. i + 1 \in At("resume", j) /\ i \in Nat \ {0}
      BY <1>0, <2>1, <2>3, AtTail
    <3>2. 1 \in DOMAIN staged
      BY <1>0, <2>3 DEF TypeOK
    <3> QED
      BY <3>1, <3>2 DEF At, ResumeAlone
  <2>4. CASE staged' = <<>>
    BY <1>1, <2>4, AtEmpty
  <2>5. CASE staged' = staged /\ ~(staged # <<>> /\ staged' = Tail(staged)) /\ staged' # <<>>
    <3>1. 1 \in DOMAIN staged /\ Head(staged) = staged[1]
      BY <1>0, <2>5 DEF TypeOK
    <3>2. i = 1
      BY <2>2, <2>5, <3>1 DEF ResumeAlone
    <3>3. Head(staged).op = "resume"
      BY <2>2, <2>5, <3>1, <3>2
    <3>4. ~CloseBegin
      BY <3>3 DEF CloseBegin, Committing
    <3>5. ~Advance
      BY <2>5 DEF Advance
    <3>6. ~CommitResumeRaises
      BY <2>5 DEF CommitResumeRaises
    <3>7. ResumeTouch \/ ResumeUnlinkPaused
      BY <3>4, <3>5, <3>6
      DEF Commit, CommitConfigure, CommitSubmit, CommitCancel, CommitPause, CommitResumeQueued,
          ResumeUnlinkPause, CommitRelease, CloseEnd
    <3> QED
      BY <3>5, <3>7 DEF ResumeTouch, ResumeUnlinkPaused
  <2> QED
    BY <1>0, <2>3, <2>4, <2>5 DEF Shortened
<1>2. ASSUME NEW j \in Job, At("pause", j)' # {}
      PROVE  "resume" \notin dir'[j]
  <2>1. At("pause", j) # {} /\ "resume" \notin dir[j]
    BY <1>0, <1>2, AtShrinks DEF HandInd, StatementInv
  <2>2. CASE ResumeTouch
    <3>1. PICK i : i \in At("pause", j)
      BY <2>1
    <3>2. 1 \in DOMAIN staged /\ staged[1] = Head(staged) /\ Head(staged).op = "resume"
      BY <1>0, <2>2 DEF ResumeTouch, Committing, TypeOK
    <3> QED
      BY <3>1, <3>2 DEF At, ResumeAlone
  <2>3. CASE CommitConfigure \/ CommitSubmit \/ CommitResumeQueued \/ CommitResumeRaises \/ CommitRelease
    BY <2>1, <2>3
    DEF CommitConfigure, CommitSubmit, CommitResumeQueued, CommitResumeRaises, CommitRelease
  <2>4. ASSUME NEW S, MarkCancel(S) PROVE "resume" \notin dir'[j]
    BY <2>1, <2>4, MarkCancelDir
  <2>5. CASE CommitCancel \/ CloseBegin
    BY <2>4, <2>5 DEF CommitCancel, CloseBegin
  <2>6. CASE CommitPause \/ ResumeUnlinkPaused \/ ResumeUnlinkPause
    BY <1>0, <2>1, <2>6 DEF CommitPause, ResumeUnlinkPaused, ResumeUnlinkPause, TypeOK
  <2>7. CASE CloseEnd
    BY <2>1, <2>7, ClearTransportDir DEF CloseEnd
  <2> QED
    BY <2>2, <2>3, <2>5, <2>6, <2>7 DEF Commit
<1> QED
  BY <1>1, <1>2, <1>0, AtShrinks DEF HandInd, StatementInv

\* The steps of the scheduler, the workers and the clock that leave the statement alone.
LEMMA StatementFrame ==
  ASSUME StatementInv, UNCHANGED <<records, staged>>,
         \A j \in Job : "resume" \in dir'[j] => "resume" \in dir[j],
         \A j \in Job : job[j].status = "paused" =>
            job'[j].status = "paused" \/ (job'[j].process /\ job'[j].status \in Terminal),
         \A j \in Job : job[j].process /\ job[j].status \in Terminal =>
            job'[j].process /\ job'[j].status \in Terminal
  PROVE  StatementInv'
<1>1. \A op, j : At(op, j)' = At(op, j)
  BY DEF At
<1> QED
  BY <1>1 DEF StatementInv

\* The scheduler's pass leaves what is staged its grounds.
LEMMA SchedulerStatement ==
  ASSUME IndInv, OwnInv, HonestInd, HandInd, Scheduler
  PROVE  StatementInv'
<1> USE DEF managerVars, transportVars, threadVars, clientVars, HandInd
<1>0. UNCHANGED <<records, staged>>
  BY DEF Scheduler, BeginPass, PollsDone, EndPass, ThreadDies, Reap, Start, Skip, Inspect
<1>a. Terminal \cap Live = {} /\ "queued" \notin Terminal /\ "paused" \in Live
  BY DEF Terminal, Live
<1>1. CASE BeginPass \/ PollsDone \/ EndPass \/ ThreadDies \/ \E j \in Job : Skip(j)
  <2>1. UNCHANGED <<job, dir>>
    BY <1>1 DEF BeginPass, PollsDone, EndPass, ThreadDies, Skip
  <2> QED
    BY <1>0, <2>1, StatementFrame
<1>2. ASSUME NEW j \in Job, Reap(j) PROVE StatementInv'
  <2>1. /\ \A k \in Job \ {j} : job'[k] = job[k]
        /\ job'[j].process /\ job'[j].status \in Terminal
    BY <1>2, ReapEffect, PassFacts DEF FinishesTo
  <2>2. \A k \in Job : "resume" \in dir'[k] => "resume" \in dir[k]
    BY <1>2, ClearTransportDir DEF Reap
  <2> QED
    BY <1>0, <2>1, <2>2, StatementFrame
<1>3. ASSUME NEW j \in Job, NEW b \in BOOLEAN, NEW c \in BOOLEAN, Inspect(j, b, c)
      PROVE  StatementInv'
  <2>1. /\ \A k \in Job \ {j} : job'[k] = job[k]
        /\ job'[j].status \in {job[j].status, "paused"} /\ job[j].status \in Live
    BY <1>3, InspectEffect, PassFacts
  <2>2. ASSUME NEW k \in Job, "resume" \in dir'[k] PROVE "resume" \in dir[k]
    BY <1>3, <2>2, MarkCancelDir DEF Inspect
  <2> QED
    BY <1>0, <1>a, <2>1, <2>2, StatementFrame
<1>4. ASSUME NEW j \in Job, Start(j) PROVE StatementInv'
  <2>1. /\ \A k \in Job \ {j} : job'[k] = job[k]
        /\ job[j].status = "queued" /\ dir' = dir
    BY <1>4, StartEffect, PassFacts
  <2> QED
    BY <1>0, <1>a, <2>1, StatementFrame
<1> QED
  BY <1>1, <1>2, <1>3, <1>4 DEF Scheduler

\* The handshake is inductive while a resume stands alone in its statement.
LEMMA HandStep ==
  IndInv /\ OwnInv /\ HonestInd /\ HandInd /\ ResumeAlone /\ [Next]_vars => HandInd'
<1> SUFFICES ASSUME IndInv, OwnInv, HonestInd, HandInd, ResumeAlone, [Next]_vars PROVE HandInd'
  OBVIOUS
<1> USE DEF managerVars, transportVars, threadVars, clientVars
<1>0. \A k \in Job : Hand(k) /\ (~HasDirectory(k) => dir[k] = {} /\ worker[k] = "none")
  BY Idle DEF HandInd, HandInv
<1>1. ASSUME NEW j \in Job, Worker(j) \/ WorkerCrash(j) PROVE HandInd'
  <2>1. UNCHANGED <<records, staged, job>>
    BY <1>1
    DEF Worker, WorkerCrash, WorkerOutcome, WorkerCancelled, WorkerBoundary, WorkerSnapshot,
        WorkerUnpark, WorkerClearPause, WorkerClearResume, WorkerExit, WorkerUnchanged
  <2>2. \A k \in Job : "resume" \in dir'[k] => "resume" \in dir[k]
    BY <1>1
    DEF Worker, WorkerCrash, WorkerOutcome, WorkerCancelled, WorkerBoundary, WorkerSnapshot,
        WorkerUnpark, WorkerClearPause, WorkerClearResume, WorkerExit, IndInv, TypeOK
  <2>3. StatementInv'
    BY <2>1, <2>2, StatementFrame DEF HandInd
  <2> QED
    BY <1>1, <2>3, WorkerHand DEF HandInd
<1>2. ASSUME NEW j \in Job, Deadline(j) PROVE HandInd'
  <2>1. /\ \A k \in Job : Keeps(job[k], job'[k]) /\ job'[k].status = job[k].status
        /\ UNCHANGED <<dir, worker, step, staged, records>>
    BY <1>2, DeadlineEffect
  <2>2. StatementInv'
    BY <2>1, StatementFrame DEF HandInd, Keeps
  <2>3. \A k \in Job : Halfway(k)' <=> Halfway(k)
    BY <2>1 DEF Halfway
  <2>4. \A k \in Job : Hand(k)'
    BY <1>0, <2>1, <2>3, HandFrame DEF Keeps
  <2> QED
    BY <2>2, <2>4 DEF HandInd, HandInv
<1>3. CASE Acknowledge \/ UNCHANGED vars
  <2>1. UNCHANGED <<records, staged, job, dir, worker, step>>
    BY <1>3 DEF Acknowledge, vars
  <2>2. StatementInv'
    BY <2>1, StatementFrame DEF HandInd
  <2>3. \A k \in Job : Halfway(k)' <=> Halfway(k)
    BY <2>1 DEF Halfway
  <2>4. \A k \in Job : Hand(k)'
    BY <1>0, <2>1, <2>3, HandFrame
  <2> QED
    BY <2>2, <2>4 DEF HandInd, HandInv
<1>4. CASE Abandon
  <2>1. /\ UNCHANGED <<records, dir, worker, step>> /\ staged' = <<>>
        /\ \A k \in Job : job'[k] = job[k] \/ (k \notin records /\ ~job'[k].process)
    BY <1>4, AbandonEffect
  <2>2. step \notin {"touched", "unlinked"}
    BY <1>4 DEF Abandon, IndInv, HeadInv
  <2>3. StatementInv'
    BY <2>1, AtEmpty DEF StatementInv
  <2>4. ASSUME NEW k \in Job PROVE Hand(k)'
    <3>1. Halfway(k)' <=> Halfway(k)
      BY <2>1, <2>2 DEF Halfway
    <3>2. CASE job'[k] = job[k]
      BY <1>0, <2>1, <3>1, <3>2, HandFrame
    <3>3. CASE k \notin records /\ ~job'[k].process
      <4>1. ~HasDirectory(k)
        BY <3>3 DEF HasDirectory, IndInv, ProcessInv
      <4> QED
        BY <1>0, <2>1, <3>3, <4>1, HandOver
    <3> QED
      BY <2>1, <3>2, <3>3
  <2> QED
    BY <2>3, <2>4 DEF HandInd, HandInv
<1>5. CASE Dispatch
  <2>1. /\ UNCHANGED <<records, dir, worker, step>> /\ step \notin {"touched", "unlinked"}
        /\ \A k \in Job : job'[k] = job[k]
             \/ (job[k].status = "unborn" /\ k \notin records /\ ~job'[k].process)
    BY <1>5, BornEffect
  <2>2. ASSUME NEW k \in Job PROVE Hand(k)'
    <3>1. Halfway(k)' <=> Halfway(k)
      BY <2>1 DEF Halfway
    <3>2. CASE job'[k] = job[k]
      BY <1>0, <2>1, <3>1, <3>2, HandFrame
    <3>3. CASE k \notin records /\ ~job'[k].process
      <4>1. ~HasDirectory(k)
        BY <3>3 DEF HasDirectory, IndInv, ProcessInv
      <4> QED
        BY <1>0, <2>1, <3>3, <4>1, HandOver
    <3> QED
      BY <2>1, <3>2, <3>3
  <2>3. ASSUME NEW k \in Job, NEW op \in {"pause", "resume"}, At(op, k)' # {}
        PROVE  /\ op = "resume" => k \in records'
                    /\ (job'[k].status = "paused" \/ (job'[k].process /\ job'[k].status \in Terminal))
               /\ op = "pause" => "resume" \notin dir'[k]
    <3>1. PICK i \in DOMAIN staged' : staged'[i].op = op /\ staged'[i].job = k
      BY <2>3 DEF At
    <3>2. CASE i \in DOMAIN staged /\ staged'[i] = staged[i]
      <4>1. At(op, k) # {}
        BY <3>1, <3>2 DEF At
      <4> QED
        BY <2>1, <4>1 DEF HandInd, StatementInv
    <3>3. CASE Grounds(staged'[i])
      BY <2>1, <3>1, <3>3 DEF Grounds
    <3> QED
      BY <1>5, <3>2, <3>3, DispatchAdds
  <2>4. StatementInv'
    BY <2>3 DEF StatementInv
  <2> QED
    BY <2>2, <2>4 DEF HandInd, HandInv
<1>6. CASE Commit
  BY <1>6, CommitHand, CommitStatement DEF HandInd
<1>7. CASE Scheduler
  BY <1>7, SchedulerHand, SchedulerStatement DEF HandInd
<1> QED
  BY <1>1, <1>2, <1>3, <1>4, <1>5, <1>6, <1>7 DEF Next

\* Nothing waits at first.
LEMMA HandInit == Init => HandInd
<1> SUFFICES ASSUME Init PROVE HandInd
  OBVIOUS
<1>1. \A op, j : At(op, j) = {}
  BY DEF Init, At
<1>2. ~Unborn.process
  BY DEF Unborn, NewJob
<1>3. \A j \in Job : Hand(j)
  BY <1>2 DEF Init, Hand, Alive
<1> QED
  BY <1>1, <1>3 DEF HandInd, HandInv, StatementInv

\* The handshake invariant says of a paused or pausing job what the client is told.
LEMMA HandTold == IndInv /\ HandInd => PauseHandshake
<1> SUFFICES ASSUME IndInv, HandInd PROVE PauseHandshake
  OBVIOUS
<1>1. \A j \in records : Hand(j)
  BY DEF IndInv, TypeOK, HandInd, HandInv
<1>2. PausedIsParked
  <2>1. ASSUME step = "none" PROVE \A j \in records : ~Halfway(j)
    BY <2>1 DEF Halfway
  <2> QED
    BY <1>1, <2>1 DEF PausedIsParked, Hand, Parked
<1>3. PauseNotLost
  BY <1>1 DEF PauseNotLost, Hand
<1> QED
  BY <1>2, <1>3 DEF PauseHandshake

\* A job reported paused is parked at the boundary whose snapshot is retained, and a
\* pause is not swallowed by the worker still consuming an earlier resume, however the
\* marker files' steps, kills and completions interleave, as long as a resume is a
\* statement of its own (_poll and commit in manager.py, _pause in worker.py).
THEOREM Handshake == Spec /\ []ResumeAlone => []PauseHandshake
<1>1. Init => IndInv /\ OwnInv /\ HonestInd /\ HandInd
  BY InitInv, OwnInit, HonestInit, HandInit
<1>2. IndInv /\ OwnInv /\ HonestInd /\ HandInd /\ ResumeAlone /\ [Next]_vars
        => (IndInv /\ OwnInv /\ HonestInd /\ HandInd)'
  BY NextInv, OwnStep, HonestStep, HandStep
<1>3. IndInv /\ HandInd => PauseHandshake
  BY HandTold
<1> QED
  BY <1>1, <1>2, <1>3, PTL DEF Spec

-----------------------------------------------------------------------------
(* Statements of one operation: a physical restart may stage its cancellation too. *)

\* Beside another operation only a cancellation or a submission is staged.
LoneInv == \A i, k \in DOMAIN staged : i # k => staged[i].op \in {"cancel", "submit"}

\* One-operation statements stay so.
LEMMA LoneStep ==
  ASSUME MaxStaged = 1, IndInv, LoneInv, [Next]_vars
  PROVE  LoneInv'
<1> USE DEF managerVars, transportVars, threadVars, clientVars
<1>0. staged \in Seq(Action) /\ Len(staged) \in Nat
  BY DEF IndInv, TypeOK
<1>1. CASE staged' = <<>>
  BY <1>1 DEF LoneInv
<1>2. CASE staged' = staged
  BY <1>2 DEF LoneInv
<1>3. CASE staged # <<>> /\ staged' = Tail(staged)
  <2>1. \A i \in DOMAIN staged' : i \in Nat /\ i + 1 \in DOMAIN staged /\ staged'[i] = staged[i + 1]
    BY <1>0, <1>3
  <2> SUFFICES ASSUME NEW i \in DOMAIN staged', NEW k \in DOMAIN staged', i # k
               PROVE  staged'[i].op \in {"cancel", "submit"}
    BY DEF LoneInv
  <2>2. i + 1 # k + 1
    BY <2>1
  <2> QED
    BY <2>1, <2>2 DEF LoneInv
<1>4. CASE Commit
  BY <1>1, <1>2, <1>3, <1>4, CommitMoves DEF Shortened
<1>5. CASE Acknowledge \/ Abandon \/ UNCHANGED vars
  BY <1>1, <1>2, <1>5 DEF Acknowledge, Abandon, vars
<1>6. CASE Scheduler \/ \E j \in Job : Worker(j) \/ WorkerCrash(j) \/ Deadline(j)
  BY <1>2, <1>6
  DEF Scheduler, BeginPass, PollsDone, EndPass, ThreadDies, Reap, Start, Skip, Inspect,
      Worker, WorkerCrash, WorkerOutcome, WorkerCancelled, WorkerBoundary, WorkerSnapshot,
      WorkerUnpark, WorkerClearPause, WorkerClearResume, WorkerExit, WorkerUnchanged, Deadline
<1>7. CASE Dispatch
  <2>1. ASSUME staged = <<>>, NEW a, staged' = Append(staged, a) PROVE LoneInv'
    <3>1. staged' = <<a>>
      BY <2>1
    <3> QED
      BY <3>1 DEF LoneInv
  <2>2. ASSUME NEW j \in Job, NEW k \in Job, DispatchRestart(j, k) PROVE LoneInv'
    <3> DEFINE a == [op |-> "cancel", job |-> j]
               b == [op |-> "submit", job |-> k]
    <3>1. staged = <<>>
      BY <1>0, <2>2 DEF DispatchRestart, Dispatching
    <3>2. staged' = staged \o <<b>> \/ staged' = staged \o <<a, b>>
      BY <2>2 DEF DispatchRestart
    <3>3. a.op \in {"cancel", "submit"} /\ b.op \in {"cancel", "submit"}
      OBVIOUS
    <3> HIDE DEF a, b
    <3>4. staged' = <<b>> \/ staged' = <<a, b>>
      BY <3>1, <3>2
    <3> QED
      BY <3>3, <3>4 DEF LoneInv
  <2>3. ASSUME Dispatch, ~\E j, k \in Job : DispatchRestart(j, k)
        PROVE  staged = <<>> /\ \E a : staged' = Append(staged, a)
    <3>1. ASSUME NEW op, Dispatching(op) PROVE staged = <<>>
      BY <1>0, <3>1 DEF Dispatching
    <3>2. ASSUME NEW c \in Config, DispatchConfigure(c)
          PROVE  staged = <<>> /\ \E a : staged' = Append(staged, a)
      <4>1. staged = <<>> /\ staged' = Append(<<>>, [op |-> "configure", config |-> c])
        BY <3>2 DEF DispatchConfigure
      <4> QED
        BY <4>1
    <3>3. ASSUME (\E j \in Job, s \in Shape : DispatchSubmit(j, s)) \/ DispatchShutdown
                   \/ \E j \in Job : DispatchPause(j) \/ DispatchResume(j) \/ DispatchCancel(j)
                                       \/ DispatchRelease(j)
          PROVE  staged = <<>> /\ \E a : staged' = Append(staged, a)
      BY <3>1, <3>3
      DEF DispatchSubmit, DispatchShutdown, DispatchPause, DispatchResume, DispatchCancel,
          DispatchRelease
    <3> QED
      BY <2>3, <3>2, <3>3 DEF Dispatch
  <2> QED
    BY <1>7, <2>1, <2>2, <2>3
<1> QED
  BY <1>4, <1>5, <1>6, <1>7 DEF Next

\* With one operation to a statement a resume stands alone.
LEMMA OneOperation ==
  ASSUME MaxStaged = 1
  PROVE  Spec => []ResumeAlone
<1>1. Init => IndInv /\ LoneInv
  BY InitInv DEF Init, LoneInv
<1>2. IndInv /\ LoneInv /\ [Next]_vars => (IndInv /\ LoneInv)'
  BY NextInv, LoneStep
<1>3. LoneInv => ResumeAlone
  BY DEF LoneInv, ResumeAlone
<1> QED
  BY <1>1, <1>2, <1>3, PTL DEF Spec

\* The handshake for a client that sends one operation per statement: its hypothesis on
\* MaxStaged stands for that of Handshake on what is staged.
THEOREM HandshakeOfOne ==
  ASSUME MaxStaged = 1
  PROVE  Spec => []PauseHandshake
BY OneOperation, Handshake, PTL

-----------------------------------------------------------------------------
(* The refinement of JobLifecycle.                                         *)

\* All the invariants at once.
JobsInd == IndInv /\ OwnInv /\ HonestInd /\ HandInd

\* What the client is told of one job.
LEMMA ReportedJob ==
  ASSUME NEW k \in Job
  PROVE  /\ Reported[k] = IF k \in records \/ job[k].status = "released"
                          THEN job[k].status ELSE "unborn"
         /\ Reported'[k] = IF k \in records' \/ job'[k].status = "released"
                           THEN job'[k].status ELSE "unborn"
BY DEF Reported

\* Nothing reported, no slot and no limit changes: the client sees no step.
LEMMA Stutters ==
  ASSUME \A k \in Job : Reported'[k] = Reported[k], Occupied' = Occupied, config' = config
  PROVE  UNCHANGED Lifecycle!vars
<1>1. Reported' = Reported
  BY DEF Reported
<1> QED
  BY <1>1 DEF Lifecycle!vars

\* The records as they were, but for the jobs S, report the other jobs as they were.
LEMMA OthersReported ==
  ASSUME NEW S, \A k \in Job \ S : job'[k] = job[k] /\ (k \in records' <=> k \in records)
  PROVE  \A k \in Job \ S : Reported'[k] = Reported[k]
BY DEF Reported

\* The jobs S move together.
LEMMA Moves ==
  ASSUME NEW S, S \subseteq Job, NEW From, NEW To,
         \A k \in S : Reported[k] \in From /\ Reported'[k] \in To,
         \A k \in Job \ S : Reported'[k] = Reported[k]
  PROVE  Lifecycle!Move(S, From, To)
<1>1. DOMAIN Reported' = Job
  BY DEF Reported
<1> QED
  BY <1>1 DEF Lifecycle!Move

\* One job moves.
LEMMA OneMoves ==
  ASSUME NEW j \in Job, NEW From, NEW To,
         Reported[j] \in From, Reported'[j] \in To,
         \A k \in Job \ {j} : job'[k] = job[k] /\ (k \in records' <=> k \in records)
  PROVE  Lifecycle!Move({j}, From, To)
<1>1. \A k \in Job \ {j} : Reported'[k] = Reported[k]
  BY OthersReported
<1> QED
  BY <1>1, Moves

\* The slots as they were, but for the jobs S.
LEMMA OthersOccupy ==
  ASSUME TypeOK, TypeOK', NEW S,
         \A k \in Job \ S : job'[k] = job[k] /\ (k \in records' <=> k \in records)
  PROVE  \A k : k \notin S => (k \in Occupied' <=> k \in Occupied)
BY DEF Occupied, TypeOK

\* The slots as they were, when the one job that moves keeps what it had.
LEMMA SameSlots ==
  ASSUME TypeOK, TypeOK', NEW j, j \in Occupied <=> j \in Occupied',
         \A k \in Job \ {j} : job'[k] = job[k] /\ (k \in records' <=> k \in records)
  PROVE  Occupied' = Occupied
<1>1. \A k : k \notin {j} => (k \in Occupied' <=> k \in Occupied)
  BY OthersOccupy
<1> QED
  BY <1>1

\* A status that changes is a step of the client's life cycle.
LEMMA IsStep ==
  ASSUME NEW k \in Job, Reported'[k] # Reported[k], Lifecycle!Step
  PROVE  Lifecycle!Next
<1>1. Reported' # Reported
  OBVIOUS
<1> QED
  BY <1>1 DEF Lifecycle!Next

\* The committed actions are the client's steps, or nothing it sees.
LEMMA CommitRefines ==
  ASSUME JobsInd, TypeOK', ResumeAlone, Commit
  PROVE  Lifecycle!Next \/ UNCHANGED Lifecycle!vars
<1>j. PICK j : j = Head(staged).job
  OBVIOUS
<1> USE DEF managerVars, transportVars, threadVars, clientVars, JobsInd
<1>t. TypeOK /\ TypeOK' /\ Lifecycle!Outcomes = Terminal /\ \A k \in Job : job[k].status \in Status
  BY DEF IndInv, TypeOK, JobRecord, Terminal, Lifecycle!Outcomes
<1>v. ASSUME NEW k \in records, job[k].status \notin Terminal, ~job[k].process
      PROVE  k \in Job /\ job[k].status \in {"queued", "paused"}
  BY <1>t, <1>v DEF TypeOK, HonestInd, RecordInv, Status, Live
<1>1. CASE CommitConfigure
  <2>1. records = {} /\ config' \in JobsConfig
    <3>1. 1 \in DOMAIN staged /\ staged[1] = Head(staged) /\ Head(staged).op = "configure"
      BY <1>t, <1>1 DEF CommitConfigure, Committing, TypeOK
    <3> QED
      BY <1>t, <3>1 DEF IndInv, ConfigInv, TypeOK
  <2>2. UNCHANGED <<records, job>>
    BY <1>1 DEF CommitConfigure
  <2>3. Occupied = {} /\ Occupied' = {}
    BY <2>1, <2>2 DEF Occupied
  <2>4. Reported' = Reported /\ \A k \in Job : Reported[k] \in {"unborn", "released"}
    BY <2>1, <2>2 DEF Reported
  <2>5. config'.max_workers \in Nat \ {0}
    BY <2>1 DEF JobsConfig
  <2> QED
    BY <2>3, <2>4, <2>5 DEF Lifecycle!Next, Lifecycle!Relimit
<1>2. CASE CommitSubmit
  <2>1. /\ j \in Job /\ 1 \in At("submit", j)
        /\ \A k \in Job \ {j} : job'[k] = job[k]
        /\ job'[j] = job[j] \/ (Keeps(job[j], job'[j]) /\ job'[j].status = "failed")
        /\ config' = config /\ records' = records \cup {j}
    BY <1>j, <1>2, SubmitEffect
  <2>2. job[j].status = "queued" /\ ~job[j].process /\ j \notin records
    BY <2>1, SubmitQueued DEF HonestInd
  <2>3. Reported[j] = "unborn" /\ Reported'[j] \in {"queued", "failed"}
    BY <2>1, <2>2, ReportedJob
  <2>4. Lifecycle!Move({j}, {"unborn"}, {"queued", "failed"})
    BY <2>1, <2>3, OneMoves
  <2>5. Occupied' = Occupied
    <3>1. j \notin Occupied /\ j \notin Occupied'
      BY <2>1, <2>2 DEF Occupied, Keeps
    <3> QED
      BY <1>t, <2>1, <3>1, SameSlots
  <2>6. Lifecycle!Submit(j)
    BY <2>1, <2>4, <2>5 DEF Lifecycle!Submit
  <2> QED
    BY <2>1, <2>3, <2>6, IsStep DEF Lifecycle!Step
<1>3. CASE CommitCancel
  <2>1. /\ j \in Job
        /\ \A k \in Job \ {j} : job'[k] = job[k]
        /\ IF j \in records THEN CancelsTo(job[j], job'[j]) ELSE job'[j] = job[j]
        /\ UNCHANGED <<config, records>>
    BY <1>j, <1>3, CancelEffect
  <2>2. CASE j \in records /\ job[j].status \notin Terminal /\ ~job[j].process
    <3>1. job'[j].status = "cancelled" /\ ~job'[j].process
      BY <2>1, <2>2 DEF CancelsTo
    <3>2. Reported[j] \in {"queued", "paused"} /\ Reported'[j] = "cancelled"
      BY <1>v, <2>1, <2>2, <3>1, ReportedJob
    <3>3. Lifecycle!Move({j}, {"queued", "paused"}, {"cancelled"})
      BY <2>1, <3>2, OneMoves
    <3>4. Occupied' = Occupied /\ {j} \cap Occupied = {}
      <4>1. j \notin Occupied /\ j \notin Occupied'
        BY <2>2, <3>1 DEF Occupied
      <4> QED
        BY <1>t, <2>1, <4>1, SameSlots
    <3>5. Lifecycle!Withdraw({j})
      BY <2>1, <3>3, <3>4 DEF Lifecycle!Withdraw
    <3> QED
      BY <2>1, <3>2, <3>5, IsStep DEF Lifecycle!Step
  <2>3. CASE ~(j \in records /\ job[j].status \notin Terminal /\ ~job[j].process)
    <3>1. job'[j].status = job[j].status /\ job'[j].process = job[j].process
      BY <2>1, <2>3 DEF CancelsTo
    <3>2. \A k \in Job : Reported'[k] = Reported[k]
      BY <2>1, <3>1 DEF Reported
    <3>3. Occupied' = Occupied
      BY <1>t, <2>1, <3>1 DEF Occupied, TypeOK
    <3> QED
      BY <2>1, <3>2, <3>3, Stutters
  <2> QED
    BY <2>2, <2>3
<1>4. CASE CommitPause
  <2>1. /\ j \in Job /\ 1 \in At("pause", j) /\ UNCHANGED <<config, records>>
        /\ \A k \in Job \ {j} : job'[k] = job[k]
        /\ Keeps(job[j], job'[j])
        /\ \/ job[j].status = "running" /\ job'[j].status = "pausing"
           \/ job'[j].status = job[j].status
           \/ job[j].status = "queued" /\ job'[j].status = "paused"
    BY <1>j, <1>4, PauseEffect
  <2>2. job'[j].process = job[j].process
    BY <2>1 DEF Keeps
  <2>3. CASE job[j].status = "running" /\ job'[j].status = "pausing"
    <3>1. job[j].process /\ j \in records
      BY <2>1, <2>3 DEF HonestInd, RecordInv, IndInv, ProcessInv
    <3>2. Reported[j] = "running" /\ Reported'[j] = "pausing"
      BY <2>1, <2>3, <3>1, ReportedJob
    <3>3. Lifecycle!Move({j}, {"running"}, {"pausing"})
      BY <2>1, <3>2, OneMoves
    <3>4. Occupied' = Occupied
      <4>1. j \in Occupied /\ j \in Occupied'
        BY <2>1, <2>2, <2>3, <3>1 DEF Occupied, Live
      <4> QED
        BY <1>t, <2>1, <4>1, SameSlots
    <3>5. Lifecycle!Ask(j)
      BY <2>1, <3>3, <3>4 DEF Lifecycle!Ask
    <3> QED
      BY <2>1, <3>2, <3>5, IsStep DEF Lifecycle!Step
  <2>4. CASE job[j].status = "queued" /\ job'[j].status = "paused" /\ j \in records
    <3>1. ~job[j].process
      BY <2>1, <2>4 DEF IndInv, ProcessInv
    <3>2. Reported[j] = "queued" /\ Reported'[j] = "paused"
      BY <2>1, <2>4, ReportedJob
    <3>3. Lifecycle!Move({j}, {"queued"}, {"paused"})
      BY <2>1, <3>2, OneMoves
    <3>4. Occupied' = Occupied
      <4>1. j \notin Occupied /\ j \notin Occupied'
        BY <2>2, <3>1 DEF Occupied
      <4> QED
        BY <1>t, <2>1, <4>1, SameSlots
    <3>5. Lifecycle!Hold(j)
      BY <2>1, <3>3, <3>4 DEF Lifecycle!Hold
    <3> QED
      BY <2>1, <3>2, <3>5, IsStep DEF Lifecycle!Step
  <2>5. CASE job'[j].status = job[j].status
              \/ (job[j].status = "queued" /\ job'[j].status = "paused" /\ j \notin records)
    <3>1. \A k \in Job : Reported'[k] = Reported[k]
      BY <2>1, <2>5 DEF Reported
    <3>2. Occupied' = Occupied
      BY <1>t, <2>1, <2>2, <2>5 DEF Occupied, TypeOK
    <3> QED
      BY <2>1, <3>1, <3>2, Stutters
  <2> QED
    BY <2>1, <2>3, <2>4, <2>5
<1>5. CASE CommitResumeQueued
  <2>1. /\ j \in Job /\ 1 \in At("resume", j) /\ UNCHANGED <<config, records>>
        /\ \A k \in Job \ {j} : job'[k] = job[k]
        /\ Keeps(job[j], job'[j]) /\ ~job[j].process /\ job'[j].status \in {"queued", "failed"}
    BY <1>j, <1>5, QueuedEffect
  <2>2. j \in records /\ job[j].status = "paused"
    BY <2>1 DEF HandInd, StatementInv
  <2>3. Reported[j] = "paused" /\ Reported'[j] \in {"queued", "failed"}
    BY <2>1, <2>2, ReportedJob
  <2>4. Lifecycle!Move({j}, {"paused"}, {"queued", "failed"})
    BY <2>1, <2>3, OneMoves
  <2>5. Occupied' = Occupied /\ j \notin Occupied
    <3>1. j \notin Occupied /\ j \notin Occupied'
      BY <2>1 DEF Occupied, Keeps
    <3> QED
      BY <1>t, <2>1, <3>1, SameSlots
  <2>6. Lifecycle!PutBack(j)
    BY <2>1, <2>4, <2>5 DEF Lifecycle!PutBack
  <2> QED
    BY <2>1, <2>3, <2>6, IsStep DEF Lifecycle!Step
<1>6. CASE ResumeTouch
  <2>1. /\ j \in Job /\ UNCHANGED <<config, records>>
        /\ \A k \in Job \ {j} : job'[k] = job[k]
        /\ Keeps(job[j], job'[j]) /\ job'[j].status = job[j].status
    BY <1>j, <1>6, TouchEffect
  <2>2. \A k \in Job : Reported'[k] = Reported[k]
    BY <2>1 DEF Reported
  <2>3. Occupied' = Occupied
    BY <1>t, <2>1 DEF Occupied, TypeOK, Keeps
  <2> QED
    BY <2>1, <2>2, <2>3, Stutters
<1>7. CASE ResumeUnlinkPaused \/ CommitResumeRaises
  <2>1. UNCHANGED <<config, records, job>>
    BY <1>7 DEF ResumeUnlinkPaused, CommitResumeRaises
  <2> QED
    BY <2>1, Stutters DEF Reported, Occupied
<1>8. CASE ResumeUnlinkPause
  <2>1. /\ j \in Job /\ 1 \in At("resume", j) /\ HasDirectory(j) /\ UNCHANGED <<config, records>>
        /\ \A k \in Job \ {j} : job'[k] = job[k]
        /\ Keeps(job[j], job'[j]) /\ job'[j].status = "running"
    BY <1>j, <1>8, UnlinkEffect
  <2>2. job[j].status = "paused" /\ job[j].process /\ j \in records
    BY <2>1, StatementFacts DEF HandInd, HasDirectory, IndInv, ProcessInv
  <2>3. Reported[j] = "paused" /\ Reported'[j] = "running"
    BY <2>1, <2>2, ReportedJob
  <2>4. Lifecycle!Move({j}, {"paused"}, {"running"})
    BY <2>1, <2>3, OneMoves
  <2>5. Occupied' = Occupied /\ j \in Occupied
    <3>1. j \in Occupied /\ j \in Occupied'
      BY <2>1, <2>2 DEF Occupied, Keeps, Live
    <3> QED
      BY <1>t, <2>1, <3>1, SameSlots
  <2>6. Lifecycle!Continue(j)
    BY <2>1, <2>4, <2>5 DEF Lifecycle!Continue
  <2> QED
    BY <2>1, <2>3, <2>6, IsStep DEF Lifecycle!Step
<1>9. CASE CommitRelease
  <2>1. /\ j \in Job /\ 1 \in At("release", j) /\ config' = config
        /\ records' = records \ {j}
        /\ \A k \in Job \ {j} : job'[k] = job[k]
        /\ j \notin records => job'[j] = job[j]
        /\ j \in records => job'[j].status = "released"
    BY <1>j, <1>9, ReleaseEffect
  <2>2. job[j].status \in Terminal \cup {"released"}
    BY <2>1 DEF OwnInv, ReleaseInv
  <2>3. CASE j \in records
    <3>1. job[j].status \in Terminal
      BY <2>1, <2>2, <2>3 DEF HonestInd, RecordInv
    <3>2. Reported[j] \in Terminal /\ Reported'[j] = "released"
      BY <2>1, <2>3, <3>1, ReportedJob
    <3>3. Lifecycle!Move({j}, Lifecycle!Outcomes, {"released"})
      BY <1>t, <2>1, <3>2, OneMoves
    <3>4. Occupied' = Occupied
      <4>1. j \notin Occupied /\ j \notin Occupied'
        BY <2>1, <3>1 DEF Occupied, Live, Terminal
      <4> QED
        BY <1>t, <2>1, <4>1, SameSlots
    <3>5. Lifecycle!Release(j)
      BY <2>1, <3>3, <3>4 DEF Lifecycle!Release
    <3> QED
      BY <2>1, <3>2, <3>5, IsStep DEF Lifecycle!Step, Terminal
  <2>4. CASE j \notin records
    <3>1. records' = records
      BY <2>1, <2>4
    <3>2. \A k \in Job : Reported'[k] = Reported[k]
      BY <2>1, <2>4, <3>1 DEF Reported
    <3>3. Occupied' = Occupied
      BY <1>t, <2>1, <2>4, <3>1 DEF Occupied, TypeOK
    <3> QED
      BY <2>1, <3>2, <3>3, Stutters
  <2> QED
    BY <2>3, <2>4
<1>10. CASE CloseBegin
  <2> DEFINE S == {k \in records : job[k].status \notin Terminal /\ ~job[k].process}
  <2>1. /\ \A k \in Job : IF k \in records THEN CancelsTo(job[k], job'[k]) ELSE job'[k] = job[k]
        /\ UNCHANGED <<config, records>>
    BY <1>10, CloseBeginEffect
  <2>2. \A k \in Job : job'[k].process = job[k].process
    BY <2>1 DEF CancelsTo
  <2>3. \A k \in Job \ S : job'[k].status = job[k].status
    BY <2>1 DEF CancelsTo
  <2>4. \A k \in S : k \in Job /\ job'[k].status = "cancelled"
    BY <1>v, <2>1 DEF CancelsTo
  <2>5. Occupied' = Occupied
    BY <1>t, <2>1, <2>2, <2>3, <2>4 DEF Occupied, TypeOK
  <2>6. \A k \in Job \ S : Reported'[k] = Reported[k]
    BY <2>1, <2>3 DEF Reported
  <2>7. CASE S = {}
    BY <2>1, <2>5, <2>6, <2>7, Stutters
  <2>8. CASE S # {}
    <3>1. \A k \in S : Reported[k] \in {"queued", "paused"} /\ Reported'[k] \in {"cancelled"}
      BY <1>v, <2>1, <2>4, ReportedJob
    <3>2. S \subseteq Job /\ S \in SUBSET Job /\ S \cap Occupied = {}
      BY <2>4 DEF Occupied
    <3> HIDE DEF S
    <3>3. Lifecycle!Move(S, {"queued", "paused"}, {"cancelled"})
      BY <2>6, <3>1, <3>2, Moves
    <3>4. Lifecycle!Withdraw(S)
      BY <2>1, <2>5, <2>8, <3>2, <3>3 DEF Lifecycle!Withdraw
    <3>5. PICK k \in S : TRUE
      BY <2>8
    <3>6. Reported'[k] # Reported[k] /\ k \in Job
      BY <3>1, <3>2, <3>5
    <3> QED
      BY <3>2, <3>4, <3>6, IsStep DEF Lifecycle!Step
  <2> QED
    BY <2>7, <2>8
<1>11. CASE CloseEnd
  <2> DEFINE S == Occupied
  <2>0. S = Occupied /\ S \subseteq Job /\ S \in SUBSET Job
    BY <1>t DEF Occupied, TypeOK
  <2>1. /\ \A k \in Job \ S : job'[k] = job[k]
        /\ \A k \in S : job'[k].status \in Terminal
        /\ UNCHANGED <<config, records>>
    BY <1>11, CloseEndEffect DEF FinishesTo
  <2>2. Occupied' = {}
    <3> SUFFICES ASSUME NEW k \in Occupied' PROVE FALSE
      OBVIOUS
    <3>1. k \in Job /\ k \in records /\ job'[k].status \in Live /\ job'[k].process
      BY <1>t, <2>1 DEF Occupied, TypeOK
    <3>2. k \notin S
      BY <2>1, <3>1 DEF Live, Terminal
    <3> QED
      BY <2>1, <3>1, <3>2 DEF Occupied
  <2>3. \A k \in S : k \in records /\ job[k].status \in {"running", "pausing", "paused"}
    BY DEF Occupied, Live
  <2>4. \A k \in S : /\ Reported[k] \in {"running", "pausing", "paused"}
                     /\ Reported'[k] \in Terminal
    BY <2>0, <2>1, <2>3, ReportedJob
  <2> HIDE DEF S
  <2>5. \A k \in Job \ S : Reported'[k] = Reported[k]
    BY <2>1, OthersReported
  <2>6. CASE S = {}
    BY <2>0, <2>1, <2>2, <2>5, <2>6, Stutters
  <2>7. CASE S # {}
    <3>1. Lifecycle!Move(S, {"running", "pausing", "paused"}, Lifecycle!Outcomes)
      BY <1>t, <2>0, <2>4, <2>5, Moves
    <3>2. Lifecycle!Settle(S)
      BY <2>0, <2>1, <2>2, <2>7, <3>1 DEF Lifecycle!Settle
    <3>3. PICK k \in S : TRUE
      BY <2>7
    <3>4. Reported'[k] # Reported[k] /\ k \in Job
      BY <2>0, <2>4, <3>3 DEF Terminal
    <3> QED
      BY <2>0, <3>2, <3>4, IsStep DEF Lifecycle!Step
  <2> QED
    BY <2>6, <2>7
<1> QED
  BY <1>1, <1>2, <1>3, <1>4, <1>5, <1>6, <1>7, <1>8, <1>9, <1>10, <1>11 DEF Commit

\* A pass parks, settles, starts or refuses one job at a time.
LEMMA SchedulerRefines ==
  ASSUME JobsInd, TypeOK', Scheduler
  PROVE  Lifecycle!Next \/ UNCHANGED Lifecycle!vars
<1> USE DEF managerVars, transportVars, threadVars, clientVars, JobsInd
<1>t. TypeOK /\ TypeOK' /\ Lifecycle!Outcomes = Terminal
  BY DEF IndInv, Terminal, Lifecycle!Outcomes
<1>0. UNCHANGED <<config, records>>
  BY DEF Scheduler, BeginPass, PollsDone, EndPass, ThreadDies, Reap, Start, Skip, Inspect
<1>1. CASE BeginPass \/ PollsDone \/ EndPass \/ ThreadDies \/ \E j \in Job : Skip(j)
  <2>1. job' = job
    BY <1>1 DEF BeginPass, PollsDone, EndPass, ThreadDies, Skip
  <2> QED
    BY <1>0, <2>1, Stutters DEF Reported, Occupied
<1>2. ASSUME NEW j \in Job, Reap(j) PROVE Lifecycle!Next
  <2>1. /\ \A k \in Job \ {j} : job'[k] = job[k]
        /\ job'[j].status \in Terminal
    BY <1>2, ReapEffect DEF FinishesTo
  <2>2. j \in Occupied /\ j \in records /\ job[j].status \in {"running", "pausing", "paused"}
    BY <1>2, PassFacts DEF Occupied, Live
  <2>3. Reported[j] \in {"running", "pausing", "paused"} /\ Reported'[j] \in Terminal
    BY <1>0, <2>1, <2>2, ReportedJob
  <2>4. Lifecycle!Move({j}, {"running", "pausing", "paused"}, Lifecycle!Outcomes)
    BY <1>t, <1>0, <2>1, <2>3, OneMoves
  <2>5. Occupied' = Occupied \ {j}
    <3>1. j \notin Occupied'
      BY <2>1 DEF Occupied, Live, Terminal
    <3>2. \A k : k \notin {j} => (k \in Occupied' <=> k \in Occupied)
      BY <1>t, <1>0, <2>1, OthersOccupy
    <3> QED
      BY <3>1, <3>2
  <2>6. Lifecycle!Settle({j})
    BY <1>0, <2>2, <2>4, <2>5 DEF Lifecycle!Settle
  <2>7. Reported'[j] # Reported[j]
    BY <2>3 DEF Terminal
  <2> QED
    BY <2>6, <2>7, IsStep DEF Lifecycle!Step
<1>3. ASSUME NEW j \in Job, NEW b \in BOOLEAN, NEW c \in BOOLEAN, Inspect(j, b, c)
      PROVE  Lifecycle!Next \/ UNCHANGED Lifecycle!vars
  <2>1. j \in Occupied /\ j \in records /\ job[j].status \in Live /\ job[j].process
    BY <1>3, PassFacts DEF Occupied
  <2>2. /\ \A k \in Job \ {j} : job'[k] = job[k]
        /\ job'[j].process = job[j].process
        /\ job'[j].status = job[j].status
             \/ (job[j].status = "pausing" /\ job'[j].status = "paused")
    BY <1>3, <2>1, InspectEffect
  <2>3. Occupied' = Occupied
    <3>1. j \in Occupied'
      BY <1>0, <2>1, <2>2 DEF Occupied, Live
    <3> QED
      BY <1>t, <1>0, <2>1, <2>2, <3>1, SameSlots
  <2>4. CASE job'[j].status = job[j].status
    <3>1. \A k \in Job : Reported'[k] = Reported[k]
      BY <1>0, <2>2, <2>4 DEF Reported
    <3> QED
      BY <1>0, <2>3, <3>1, Stutters
  <2>5. CASE job[j].status = "pausing" /\ job'[j].status = "paused"
    <3>1. Reported[j] = "pausing" /\ Reported'[j] = "paused"
      BY <1>0, <2>1, <2>5, ReportedJob
    <3>2. Lifecycle!Move({j}, {"pausing"}, {"paused"})
      BY <1>0, <2>2, <3>1, OneMoves
    <3>3. Lifecycle!Park(j)
      BY <1>0, <2>3, <3>2 DEF Lifecycle!Park
    <3> QED
      BY <3>1, <3>3, IsStep DEF Lifecycle!Step
  <2> QED
    BY <2>2, <2>4, <2>5
<1>4. ASSUME NEW j \in Job, Start(j) PROVE Lifecycle!Next
  <2>1. job[j].status = "queued" /\ ~job[j].process /\ j \in records
    BY <1>4, PassFacts
  <2>2. /\ \A k \in Job \ {j} : job'[k] = job[k]
        /\ \/ job'[j].status = "running" /\ job'[j].process
           \/ job'[j].status = "failed" /\ job'[j].process = job[j].process
    BY <1>4, StartEffect
  <2>3. Cardinality(Occupied) < config.max_workers
    BY <1>4 DEF Start, Fits
  <2>4. CASE job'[j].status = "running" /\ job'[j].process
    <3>1. Reported[j] = "queued" /\ Reported'[j] = "running"
      BY <1>0, <2>1, <2>4, ReportedJob
    <3>2. Lifecycle!Move({j}, {"queued"}, {"running"})
      BY <1>0, <2>2, <3>1, OneMoves
    <3>3. Occupied' = Occupied \cup {j}
      <4>1. j \in Occupied'
        BY <1>0, <2>1, <2>4 DEF Occupied, Live
      <4>2. \A k : k \notin {j} => (k \in Occupied' <=> k \in Occupied)
        BY <1>t, <1>0, <2>2, OthersOccupy
      <4> QED
        BY <4>1, <4>2
    <3>4. Lifecycle!Begin(j)
      <4>1. UNCHANGED config.max_workers
        BY <1>0
      <4>2. Lifecycle!Cardinality(Occupied) = Cardinality(Occupied)
        BY DEF Lifecycle!Cardinality, Cardinality
      <4> QED
        BY <2>3, <3>2, <3>3, <4>1, <4>2, Zenon DEF Lifecycle!Begin
    <3> QED
      BY <3>1, <3>4, IsStep DEF Lifecycle!Step
  <2>5. CASE job'[j].status = "failed" /\ job'[j].process = job[j].process
    <3>1. Reported[j] = "queued" /\ Reported'[j] = "failed"
      BY <1>0, <2>1, <2>5, ReportedJob
    <3>2. Lifecycle!Move({j}, {"queued"}, {"failed"})
      BY <1>0, <2>2, <3>1, OneMoves
    <3>3. Occupied' = Occupied
      <4>1. j \notin Occupied /\ j \notin Occupied'
        BY <2>1, <2>5 DEF Occupied
      <4> QED
        BY <1>t, <1>0, <2>2, <4>1, SameSlots
    <3>4. Lifecycle!Refuse(j)
      BY <1>0, <3>2, <3>3 DEF Lifecycle!Refuse
    <3> QED
      BY <3>1, <3>4, IsStep DEF Lifecycle!Step
  <2> QED
    BY <2>2, <2>4, <2>5
<1> QED
  BY <1>1, <1>2, <1>3, <1>4 DEF Scheduler

\* Every step of the manager, its client, its workers and the clock is one of the
\* client's view, or leaves that view as it is.
LEMMA StepRefines ==
  ASSUME JobsInd, TypeOK', ResumeAlone, [Next]_vars
  PROVE  [Lifecycle!Next]_(Lifecycle!vars)
<1> USE DEF managerVars, transportVars, threadVars, clientVars, JobsInd
<1>t. TypeOK /\ TypeOK'
  BY DEF IndInv
<1>1. ASSUME UNCHANGED <<config, records>>,
             \A k \in Job : job'[k].status = job[k].status /\ job'[k].process = job[k].process
      PROVE  UNCHANGED Lifecycle!vars
  <2>1. \A k \in Job : Reported'[k] = Reported[k]
    BY <1>1 DEF Reported
  <2>2. Occupied' = Occupied
    BY <1>t, <1>1 DEF Occupied, TypeOK
  <2> QED
    BY <1>1, <2>1, <2>2, Stutters
<1>2. CASE Acknowledge \/ UNCHANGED vars
  BY <1>1, <1>2 DEF Acknowledge, vars
<1>3. ASSUME NEW j \in Job, Worker(j) \/ WorkerCrash(j) PROVE UNCHANGED Lifecycle!vars
  BY <1>1, <1>3
  DEF Worker, WorkerCrash, WorkerOutcome, WorkerCancelled, WorkerBoundary, WorkerSnapshot,
      WorkerUnpark, WorkerClearPause, WorkerClearResume, WorkerExit, WorkerUnchanged
<1>4. ASSUME NEW j \in Job, Deadline(j) PROVE UNCHANGED Lifecycle!vars
  BY <1>1, <1>4, DeadlineEffect DEF Keeps
<1>5. ASSUME UNCHANGED <<config, records>>,
             \A k \in Job : job'[k] = job[k] \/ (k \notin records
                /\ job[k].status # "released" /\ job'[k].status # "released")
      PROVE  UNCHANGED Lifecycle!vars
  <2>1. \A k \in Job : Reported'[k] = Reported[k]
    BY <1>5 DEF Reported
  <2>2. Occupied' = Occupied
    BY <1>t, <1>5 DEF Occupied, TypeOK
  <2> QED
    BY <1>5, <2>1, <2>2, Stutters
<1>6. CASE Dispatch
  BY <1>5, <1>6, BornEffect
<1>7. CASE Abandon
  <2>1. \A k \in Pending : At("submit", k) # {}
    BY DEF Pending, At
  <2>2. \A k \in Job : job'[k] = job[k] \/ (k \in Pending /\ job'[k].status = "unborn")
    BY <1>7 DEF Abandon, Unborn, NewJob
  <2>3. \A k \in Job : k \in Pending => job[k].status = "queued" /\ k \notin records
    BY <2>1 DEF HonestInd, StagedInv, OwnInv, BornInv
  <2>4. UNCHANGED <<config, records>>
    BY <1>7 DEF Abandon
  <2> QED
    BY <1>5, <2>2, <2>3, <2>4
<1> QED
  BY <1>2, <1>3, <1>4, <1>6, <1>7, CommitRefines, SchedulerRefines DEF Next

\* The client starts with no job and the default limits.
LEMMA InitRefines == Init => Lifecycle!Init
<1> SUFFICES ASSUME Init PROVE Lifecycle!Init
  OBVIOUS
<1>1. Unborn.status = "unborn"
  BY DEF Unborn, NewJob
<1>2. Reported = [j \in Job |-> "unborn"]
  BY <1>1 DEF Init, Reported
<1>3. Occupied = {}
  BY DEF Init, Occupied
<1>4. config.max_workers \in Nat \ {0}
  BY JobsAssumption DEF Init, JobsConfig
<1> QED
  BY <1>2, <1>3, <1>4 DEF Lifecycle!Init

\* The invariants hold together while a resume stands alone in its statement.
LEMMA JobsInvariant == Spec /\ []ResumeAlone => []JobsInd
<1>1. Init => JobsInd
  BY InitInv, OwnInit, HonestInit, HandInit DEF JobsInd
<1>2. JobsInd /\ ResumeAlone /\ [Next]_vars => JobsInd'
  BY NextInv, OwnStep, HonestStep, HandStep DEF JobsInd
<1> QED
  BY <1>1, <1>2, PTL DEF Spec

\* What jobs.status reports walks the life cycle promised to the client, with a slot held
\* from start to outcome by never more jobs than workers, however the statements, the
\* scheduler and the workers interleave (manager.py: commit, _run, _poll, _start, _finish).
THEOREM Refinement == Spec /\ []ResumeAlone => ImplementsLifecycle
<1>1. Init => Lifecycle!Init
  BY InitRefines
<1>2. JobsInd /\ JobsInd' /\ ResumeAlone /\ [Next]_vars => [Lifecycle!Next]_(Lifecycle!vars)
  BY StepRefines DEF JobsInd, IndInv
<1> QED
  BY <1>1, <1>2, JobsInvariant, PTL DEF Spec, ImplementsLifecycle, Lifecycle!Spec

\* The refinement for a client that sends one operation per statement.
THEOREM RefinementOfOne ==
  ASSUME MaxStaged = 1
  PROVE  Spec => ImplementsLifecycle
BY OneOperation, Refinement, PTL

-----------------------------------------------------------------------------
(* The declared bytes of a set of jobs.                                    *)

\* w holds what each job of S declares under per; f gives every job of S a shape; h leaves
\* the jobs of S the shape that f gives them.
Weighs(w, per, f, S) == \A j \in S : w[j] = per[f[j].shape]
Shaped(f, S) == \A j \in S : f[j].shape \in Shape
SameShape(h, f, S) == \A j \in S : h[j].shape = f[j].shape

\* Bytes is a sum: over the subsets of all jobs.
LEMMA BytesSums ==
  ASSUME NEW S \in SUBSET Job, NEW per, NEW f, NEW w \in [Job -> Nat], Weighs(w, per, f, S),
         NEW g, Sums(g, Job, w)
  PROVE  Bytes(per, f, S) = g[S]
<1> DEFINE Solves(h) == h = [s \in SUBSET S |->
                               IF s = {} THEN 0
                               ELSE per[f[CHOOSE x \in s : TRUE].shape] + h[s \ {CHOOSE x \in s : TRUE}]]
<1>1. Bytes(per, f, S) = (CHOOSE h : Solves(h))[S]
  BY DEF Bytes, MapThenSumSet, MapThenFoldSet
<1>2. IsFiniteSet(S)
  BY FS_Subset, JobsAssumption
<1>3. \A h : Sums(h, S, w) <=> Solves(h)
  <2>1. \A s \in SUBSET S : s # {} => per[f[CHOOSE x \in s : TRUE].shape] = w[CHOOSE x \in s : TRUE]
    BY DEF Weighs
  <2> QED
    BY <2>1 DEF Sums
<1>4. PICK v : v = [j \in S |-> w[j]]
  OBVIOUS
<1>5. PICK h : Sums(h, S, v)
  BY <1>2, <1>4, SumExists
<1>6. Sums(h, S, w)
  <2>1. \A s \in SUBSET S : s # {} => v[CHOOSE x \in s : TRUE] = w[CHOOSE x \in s : TRUE]
    BY <1>4
  <2> QED
    BY <1>5, <2>1 DEF Sums
<1>7. PICK k : k = CHOOSE h2 : Solves(h2)
  OBVIOUS
<1>8. Sums(k, S, w)
  <2> HIDE DEF Solves
  <2> QED
    BY <1>3, <1>6, <1>7
<1>9. k[S] = g[S]
  BY <1>2, <1>8, SumAgrees
<1> QED
  BY <1>1, <1>7, <1>9

\* The weights of a set of jobs, extended to all jobs, have sums.
LEMMA BytesWeights ==
  ASSUME NEW per \in [Shape -> Nat], NEW f, NEW V \in SUBSET Job, Shaped(f, V)
  PROVE  \E w, g : w \in [Job -> Nat] /\ Weighs(w, per, f, V) /\ Sums(g, Job, w)
<1>1. PICK w : w = [j \in Job |-> IF j \in V THEN per[f[j].shape] ELSE 0]
  OBVIOUS
<1>2. w \in [Job -> Nat] /\ Weighs(w, per, f, V)
  BY <1>1 DEF Shaped, Weighs
<1>3. PICK g : Sums(g, Job, w)
  BY <1>2, SumExists, JobsAssumption
<1> QED
  BY <1>2, <1>3

\* What a set of jobs reserves is a natural number, and no jobs reserve nothing.
LEMMA BytesType ==
  ASSUME NEW per \in [Shape -> Nat], NEW f, NEW S \in SUBSET Job, Shaped(f, S)
  PROVE  Bytes(per, f, S) \in Nat /\ (S = {} => Bytes(per, f, S) = 0)
<1>1. PICK w, g : w \in [Job -> Nat] /\ Weighs(w, per, f, S) /\ Sums(g, Job, w)
  BY BytesWeights
<1>2. w \in [Job -> Nat] /\ IsFiniteSet(Job) /\ Sums(g, Job, w) /\ Weighs(w, per, f, S)
  BY <1>1, JobsAssumption DEF Weighs, SameShape
<1>3. Bytes(per, f, S) = g[S]
  BY <1>2, BytesSums
<1>4. g[S] \in Nat /\ g[{}] = 0
  BY <1>2, SumType
<1> QED
  BY <1>3, <1>4

\* One more job of an unchanged shape adds at most what its shape declares.
LEMMA BytesGrow ==
  ASSUME NEW per \in [Shape -> Nat], NEW f, NEW h, NEW S \in SUBSET Job, NEW y \in Job,
         NEW T \in SUBSET (S \cup {y}), Shaped(f, S \cup {y}),
         SameShape(h, f, T)
  PROVE  Bytes(per, h, T) <= Bytes(per, f, S) + per[f[y].shape]
<1>1. PICK V : V = S \cup {y}
  OBVIOUS
<1>2. V \in SUBSET Job /\ T \in SUBSET Job /\ T \in SUBSET V /\ V \ {y} \in SUBSET S /\ y \in V
  BY <1>1
<1>3. PICK w, g : w \in [Job -> Nat] /\ Weighs(w, per, f, V) /\ Sums(g, Job, w)
  BY <1>1, <1>2, BytesWeights
<1>4. /\ w \in [Job -> Nat] /\ IsFiniteSet(Job) /\ Sums(g, Job, w) /\ Weighs(w, per, f, S)
      /\ Weighs(w, per, h, T)
  BY <1>1, <1>3, JobsAssumption DEF Weighs, SameShape
<1>5. Bytes(per, f, S) = g[S]
  BY <1>4, BytesSums
<1>6. Bytes(per, h, T) = g[T]
  BY <1>2, <1>4, BytesSums
<1>7. g[T] <= g[V] /\ g[V \ {y}] <= g[S]
  BY <1>2, <1>4, SumGrows
<1>8. g[V] = w[y] + g[V \ {y}]
  BY <1>2, <1>4, SumTakes
<1>9. g[T] \in Nat /\ g[V] \in Nat /\ g[S] \in Nat /\ g[V \ {y}] \in Nat
  BY <1>2, <1>4, SumType
<1>10. w[y] = per[f[y].shape] /\ w[y] \in Nat
  BY <1>2, <1>3 DEF Weighs
<1> QED
  BY <1>5, <1>6, <1>7, <1>8, <1>9, <1>10

\* Fewer jobs of unchanged shapes reserve no more.
LEMMA BytesShrink ==
  ASSUME NEW per \in [Shape -> Nat], NEW f, NEW h, NEW S \in SUBSET Job, NEW T \in SUBSET S,
         Shaped(f, S), SameShape(h, f, T)
  PROVE  Bytes(per, h, T) <= Bytes(per, f, S)
<1>1. PICK w, g : w \in [Job -> Nat] /\ Weighs(w, per, f, S) /\ Sums(g, Job, w)
  BY BytesWeights
<1>2. /\ w \in [Job -> Nat] /\ IsFiniteSet(Job) /\ Sums(g, Job, w) /\ Weighs(w, per, f, S)
      /\ Weighs(w, per, h, T)
  BY <1>1, JobsAssumption DEF Weighs, SameShape
<1>3. T \in SUBSET Job
  OBVIOUS
<1>4. Bytes(per, f, S) = g[S]
  BY <1>2, BytesSums
<1>5. Bytes(per, h, T) = g[T]
  BY <1>2, <1>3, BytesSums
<1> QED
  BY <1>2, <1>4, <1>5, SumGrows

-----------------------------------------------------------------------------
(* What a step does to one job: its shape, its slot and its outcome.       *)

\* No operation changes the shape of a retained job, gives a slot, or reopens an outcome.
CommitTurn(k) ==
  /\ k \in records' \cup Pending => job'[k].shape = job[k].shape
  /\ k \in Occupied' => k \in Occupied
  /\ job[k].status = "queued" => job'[k].status # "running"
  /\ StatementInv /\ job[k].status \in Terminal =>
       \/ job'[k].status = job[k].status
       \/ job'[k].status = "released" /\ k \notin records'

\* Each committed action keeps every job in that way.
LEMMA CommitTurns ==
  ASSUME IndInv, OwnInv, HonestInd, Commit, NEW k \in Job
  PROVE  CommitTurn(k)
<1> USE DEF HonestInd
<1>j. PICK j : j = Head(staged).job
  OBVIOUS
<1>p. job[k].process => k \in records
  BY DEF IndInv, ProcessInv
<1>0. ASSUME k \in Occupied' PROVE job'[k].process /\ job'[k].status \in Live /\ k \in records'
  BY <1>0 DEF Occupied
<1>1. ASSUME job'[k].process = job[k].process, job'[k].shape = job[k].shape,
             job'[k].status \in Live => job[k].status \in Live,
             job[k].status = "queued" => job'[k].status # "running",
             StatementInv /\ job[k].status \in Terminal => job'[k].status = job[k].status
      PROVE  CommitTurn(k)
  BY <1>p, <1>0, <1>1 DEF CommitTurn, Occupied
<1>2. ASSUME job'[k] = job[k] PROVE CommitTurn(k)
  <2>1. job[k].status = "queued" => job'[k].status # "running"
    BY <1>2
  <2> QED
    BY <1>1, <1>2, <2>1
<1>3. CASE CommitConfigure \/ ResumeUnlinkPaused \/ CommitResumeRaises
  BY <1>2, <1>3 DEF CommitConfigure, ResumeUnlinkPaused, CommitResumeRaises
<1>4. CASE CommitSubmit
  <2>1. /\ k # j => job'[k] = job[k]
        /\ job'[j] = job[j] \/ (Keeps(job[j], job'[j]) /\ job'[j].status = "failed")
        /\ 1 \in At("submit", j) /\ j \in Job
    BY <1>4, <1>j, SubmitEffect
  <2>2. job[j].status = "queued"
    BY <2>1, SubmitQueued
  <2> QED
    BY <1>1, <1>2, <2>1, <2>2 DEF Keeps, Live, Terminal
<1>5. CASE CommitCancel
  <2>1. job'[k] = job[k] \/ CancelsTo(job[k], job'[k])
    BY <1>5, <1>j, CancelEffect
  <2> QED
    BY <1>1, <1>2, <2>1 DEF CancelsTo, Live, Terminal
<1>6. CASE CommitPause
  <2>1. /\ k # j => job'[k] = job[k]
        /\ Keeps(job[j], job'[j]) /\ j \in Job
        /\ \/ job[j].status = "running" /\ job'[j].status \in {"running", "pausing"}
           \/ job[j].status = "queued" /\ job'[j].status = "paused"
           \/ job'[j] = job[j]
    BY <1>6, <1>j, PauseEffect
  <2>2. job[j].status = "queued" => ~job[j].process
    BY <2>1 DEF IndInv, ProcessInv
  <2>3. CASE job[j].status = "queued" /\ job'[j].status = "paused" /\ k = j
    <3>1. k \notin Occupied'
      BY <2>1, <2>2, <2>3, <1>0 DEF Keeps
    <3> QED
      BY <2>1, <2>3, <3>1 DEF CommitTurn, Keeps, Terminal
  <2>4. CASE job[j].status = "running" /\ job'[j].status \in {"running", "pausing"} /\ k = j
    BY <1>1, <2>1, <2>4 DEF Keeps, Live, Terminal
  <2> QED
    BY <1>2, <2>1, <2>3, <2>4
<1>7. CASE CommitResumeQueued
  <2>1. /\ k # j => job'[k] = job[k]
        /\ Keeps(job[j], job'[j]) /\ ~job[j].process /\ job'[j].status \in {"queued", "failed"}
        /\ 1 \in At("resume", j) /\ j \in Job
    BY <1>7, <1>j, QueuedEffect
  <2>2. StatementInv => job[j].status = "paused"
    BY <2>1 DEF StatementInv
  <2> QED
    BY <1>1, <1>2, <2>1, <2>2 DEF Keeps, Live, Terminal
<1>8. CASE ResumeTouch
  <2>1. /\ k # j => job'[k] = job[k]
        /\ Keeps(job[j], job'[j]) /\ job'[j].status = job[j].status
    BY <1>8, <1>j, TouchEffect
  <2> QED
    BY <1>1, <1>2, <2>1 DEF Keeps
<1>9. CASE ResumeUnlinkPause
  <2>1. /\ k # j => job'[k] = job[k]
        /\ Keeps(job[j], job'[j]) /\ job'[j].status = "running" /\ job[j].status \in Live
    BY <1>9, <1>j, UnlinkEffect DEF HasDirectory
  <2> QED
    BY <1>1, <1>2, <2>1 DEF Keeps, Live, Terminal
<1>10. CASE CommitRelease
  <2>1. /\ k # j => job'[k] = job[k]
        /\ j \notin records => job'[j] = job[j]
        /\ j \in records => job'[j].status = "released" /\ ~job'[j].process
        /\ records' = records \ {j}
    BY <1>10, <1>j, ReleaseEffect
  <2>2. CASE k = j /\ j \in records
    <3>1. k \notin Pending
      BY <2>2 DEF Pending, At, OwnInv, BornInv
    <3> QED
      BY <1>0, <2>1, <2>2, <3>1 DEF CommitTurn
  <2> QED
    BY <1>2, <2>1, <2>2
<1>11. CASE CloseBegin
  <2>1. CancelsTo(job[k], job'[k]) \/ job'[k] = job[k]
    BY <1>11, CloseBeginEffect
  <2> QED
    BY <1>1, <1>2, <2>1 DEF CancelsTo, Live, Terminal
<1>12. CASE CloseEnd
  <2>1. CASE k \notin Occupied
    BY <1>2, <1>12, <2>1, CloseEndEffect
  <2>2. CASE k \in Occupied
    <3>1. PICK r \in JobRecord : /\ FinishesTo(r, job'[k]) /\ r.process = job[k].process
                                 /\ r.shape = job[k].shape
      BY <1>12, <2>2, CloseEndEffect
    <3>2. job'[k].status \in Terminal /\ job[k].status \in Live
      BY <2>2, <3>1 DEF FinishesTo, Occupied
    <3> QED
      BY <1>1, <3>1, <3>2 DEF FinishesTo, Live, Terminal
  <2> QED
    BY <2>1, <2>2
<1> QED
  BY <1>3, <1>4, <1>5, <1>6, <1>7, <1>8, <1>9, <1>10, <1>11, <1>12 DEF Commit

\* A pass gives a slot only by starting a queued job, and reopens no outcome.
PassTurn(k) ==
  /\ job'[k].shape = job[k].shape
  /\ k \in Occupied' => k \in Occupied \/ Start(k)
  /\ job[k].status = "queued" /\ job'[k].status = "running" => Start(k)
  /\ job[k].status \in Terminal => job'[k].status = job[k].status

\* Each step of the scheduler treats every job in that way.
LEMMA SchedulerTurns ==
  ASSUME IndInv, OwnInv, HonestInd, Scheduler, NEW k \in Job
  PROVE  PassTurn(k)
<1> USE DEF managerVars, transportVars, threadVars, clientVars, HonestInd
<1>0. UNCHANGED <<config, records>>
  BY DEF Scheduler, BeginPass, PollsDone, EndPass, ThreadDies, Reap, Start, Skip, Inspect
<1>1. ASSUME job'[k] = job[k] PROVE PassTurn(k)
  BY <1>0, <1>1 DEF PassTurn, Occupied, Terminal
<1>2. CASE BeginPass \/ PollsDone \/ EndPass \/ ThreadDies \/ \E j \in Job : Skip(j)
  BY <1>1, <1>2 DEF BeginPass, PollsDone, EndPass, ThreadDies, Skip
<1>3. ASSUME NEW j \in Job, Reap(j) PROVE PassTurn(k)
  <2>1. (k # j => job'[k] = job[k]) /\ FinishesTo(job[j], job'[j])
    BY <1>3, ReapEffect
  <2>2. j \in Occupied /\ job[j].status \in Live
    BY <1>3, PassFacts
  <2>3. j \notin Occupied'
    BY <2>1 DEF FinishesTo, Occupied, Live, Terminal
  <2> QED
    BY <1>1, <2>1, <2>2, <2>3 DEF PassTurn, FinishesTo, Live, Terminal
<1>4. ASSUME NEW j \in Job, NEW b \in BOOLEAN, NEW c \in BOOLEAN, Inspect(j, b, c) PROVE PassTurn(k)
  <2>1. j \in Occupied /\ job[j].status \in Live /\ job[j].process
    BY <1>4, PassFacts
  <2>2. /\ k # j => job'[k] = job[k]
        /\ job'[j].shape = job[j].shape
    BY <1>4, <2>1, InspectEffect
  <2> QED
    BY <1>1, <2>1, <2>2 DEF PassTurn, Live, Terminal
<1>5. ASSUME NEW j \in Job, Start(j) PROVE PassTurn(k)
  <2>1. job[j].status = "queued"
    BY <1>5, PassFacts
  <2>2. /\ k # j => job'[k] = job[k]
        /\ job'[j].shape = job[j].shape
    BY <1>5, StartEffect
  <2> QED
    BY <1>1, <1>5, <2>1, <2>2 DEF PassTurn, Terminal
<1> QED
  BY <1>2, <1>3, <1>4, <1>5 DEF Scheduler

\* Worker, clock, client and frame steps leave every retained job's seat as it is.
LEMMA OtherTurns ==
  ASSUME IndInv, OwnInv, [Next]_vars, ~Commit, ~Scheduler
  PROVE  /\ UNCHANGED <<config, records, thread, todo>>
         /\ \A k \in Job :
              \/ /\ job'[k].status = job[k].status /\ job'[k].process = job[k].process
                 /\ job'[k].shape = job[k].shape /\ job'[k].seq = job[k].seq
              \/ /\ k \notin records /\ job'[k].status \in {"queued", "unborn"}
                 /\ (job[k].status = "unborn" /\ Dispatch) \/ (k \in Pending /\ Abandon)
         /\ staged' = staged \/ Dispatch \/ Abandon
<1> USE DEF managerVars, transportVars, threadVars, clientVars
<1>1. CASE Acknowledge \/ UNCHANGED vars
  BY <1>1 DEF Acknowledge, vars
<1>2. ASSUME NEW j \in Job, Worker(j) \/ WorkerCrash(j) PROVE UNCHANGED <<config, records, job, thread, todo, staged>>
  BY <1>2
  DEF Worker, WorkerCrash, WorkerOutcome, WorkerCancelled, WorkerBoundary, WorkerSnapshot,
      WorkerUnpark, WorkerClearPause, WorkerClearResume, WorkerExit, WorkerUnchanged
<1>3. ASSUME NEW j \in Job, Deadline(j)
      PROVE  /\ UNCHANGED <<config, records, thread, todo, staged>>
             /\ \A k \in Job : Keeps(job[k], job'[k]) /\ job'[k].status = job[k].status
  BY <1>3, DeadlineEffect
<1>4. CASE Dispatch
  <2>1. \A k \in Job : job'[k] = job[k] \/ (job[k].status = "unborn" /\ k \notin records /\ job'[k].status = "queued")
    BY <1>4, BornEffect
  <2>2. UNCHANGED <<config, records, thread, todo>>
    BY <1>4, BornEffect
  <2> QED
    BY <1>4, <2>1, <2>2
<1>5. CASE Abandon
  <2>1. \A k \in Job : job'[k] = job[k] \/ (k \in Pending /\ job'[k].status = "unborn")
    BY <1>5 DEF Abandon, Unborn, NewJob
  <2>2. UNCHANGED <<config, records, thread, todo>> /\ \A k \in records : job'[k] = job[k]
    BY <1>5, AbandonEffect
  <2>3. \A k \in Job : k \in Pending => k \notin records
    BY DEF Pending, At, OwnInv, BornInv
  <2> QED
    BY <1>5, <2>1, <2>2, <2>3
<1> QED
  BY <1>1, <1>2, <1>3, <1>4, <1>5 DEF Next, Keeps
-----------------------------------------------------------------------------
(* The memory of the live workers.                                         *)

\* Every job of a set of jobs has a shape.
LEMMA JobsShaped == ASSUME TypeOK, NEW S \in SUBSET Job PROVE Shaped(job, S)
BY DEF TypeOK, JobRecord, Shaped

\* Slots that are kept or given up by jobs of the same shapes reserve no more memory.
LEMMA MemoryShrinks ==
  ASSUME TypeOK, TypeOK', config' = config, MemoryBounded, Occupied' \subseteq Occupied,
         \A k \in Occupied' : job'[k].shape = job[k].shape
  PROVE  MemoryBounded'
<1>1. Occupied \in SUBSET Job /\ Occupied' \in SUBSET Occupied
  BY DEF TypeOK, Occupied
<1>2. Shaped(job, Occupied) /\ SameShape(job', job, Occupied')
  BY <1>1, JobsShaped DEF SameShape
<1>3. Bytes(WorkerBytes, job', Occupied') <= Bytes(WorkerBytes, job, Occupied)
  BY <1>1, <1>2, BytesShrink, JobsAssumption
<1>4. Shaped(job, Occupied') /\ Shaped(job', Occupied')
  BY <1>1, <1>2 DEF Shaped, SameShape
<1>5. Bytes(WorkerBytes, job', Occupied') \in Nat /\ Bytes(WorkerBytes, job, Occupied) \in Nat
  <2>1. Occupied' \in SUBSET Job
    BY <1>1
  <2> QED
    BY <1>1, <1>2, <1>4, <2>1, BytesType, JobsAssumption
<1>6. config.coordinator_bytes \in Nat /\ config.memory_bytes \in Nat
  BY DEF TypeOK, JobsConfig
<1> QED
  BY <1>3, <1>5, <1>6 DEF MemoryBounded

\* A start reserves what Fits found free.
LEMMA MemoryGrows ==
  ASSUME TypeOK, TypeOK', config' = config, NEW j \in Job, Fits(j), Occupied' \subseteq Occupied \cup {j},
         \A k \in Occupied' : job'[k].shape = job[k].shape
  PROVE  MemoryBounded'
<1>1. Occupied \in SUBSET Job /\ Occupied \cup {j} \in SUBSET Job /\ Occupied' \in SUBSET (Occupied \cup {j})
  BY DEF TypeOK, Occupied
<1>2. Shaped(job, Occupied \cup {j}) /\ SameShape(job', job, Occupied') /\ Shaped(job, Occupied)
  BY <1>1, JobsShaped DEF SameShape
<1>3. Bytes(WorkerBytes, job', Occupied') <= Bytes(WorkerBytes, job, Occupied) + WorkerBytes[job[j].shape]
  BY <1>1, <1>2, BytesGrow, JobsAssumption
<1>4. Shaped(job', Occupied')
  BY <1>1, <1>2 DEF Shaped, SameShape
<1>5. Bytes(WorkerBytes, job', Occupied') \in Nat /\ Bytes(WorkerBytes, job, Occupied) \in Nat
  <2>1. Occupied' \in SUBSET Job
    BY <1>1
  <2> QED
    BY <1>1, <1>2, <1>4, <2>1, BytesType, JobsAssumption
<1>6. config.coordinator_bytes \in Nat /\ config.memory_bytes \in Nat /\ WorkerBytes[job[j].shape] \in Nat
  BY JobsAssumption DEF TypeOK, JobsConfig, JobRecord
<1> QED
  BY <1>3, <1>5, <1>6 DEF MemoryBounded, Fits

\* With no slot taken the coordinator's own reserve fits.
LEMMA MemoryEmpty ==
  ASSUME TypeOK, Occupied = {}
  PROVE  MemoryBounded
<1>1. Bytes(WorkerBytes, job, Occupied) = 0
  <2>1. Occupied \in SUBSET Job /\ Shaped(job, Occupied)
    BY DEF Shaped
  <2> QED
    BY <2>1, BytesType, JobsAssumption
<1> QED
  BY <1>1 DEF MemoryBounded, TypeOK, JobsConfig

\* MemoryBounded is inductive beside the invariants of the three proofs it rests on.
LEMMA MemoryStep ==
  ASSUME IndInv, OwnInv, HonestInd, MemoryBounded, [Next]_vars, TypeOK'
  PROVE  MemoryBounded'
<1>t. TypeOK
  BY DEF IndInv
<1>1. CASE CommitConfigure
  <2>1. staged \in Seq(Action) /\ staged # <<>> /\ Head(staged).op = "configure"
    BY <1>1, <1>t DEF CommitConfigure, Committing, TypeOK
  <2>2. records = {}
    BY <2>1 DEF IndInv, ConfigInv
  <2>3. Occupied' = {}
    BY <1>1, <2>2 DEF CommitConfigure, Occupied
  <2>4. (TypeOK /\ Occupied = {} => MemoryBounded)'
    BY MemoryEmpty, PTL
  <2> QED
    BY <2>3, <2>4
<1>2. CASE Commit /\ ~CommitConfigure
  <2>1. config' = config
    BY <1>2 DEF Commit, CommitSubmit, CommitCancel, CommitPause, CommitResumeQueued,
         ResumeTouch, ResumeUnlinkPaused, ResumeUnlinkPause, CommitResumeRaises, CommitRelease,
         CloseBegin, CloseEnd, managerVars
  <2>2. \A k \in Job : CommitTurn(k)
    BY <1>2, CommitTurns
  <2>3. \A k \in Occupied' : k \in Job /\ k \in records'
    BY DEF Occupied, TypeOK
  <2>4. Occupied' \subseteq Occupied /\ \A k \in Occupied' : job'[k].shape = job[k].shape
    BY <2>2, <2>3 DEF CommitTurn
  <2> QED
    BY <1>t, <2>1, <2>4, MemoryShrinks
<1>3. CASE Scheduler
  <2>1. UNCHANGED <<config, records>>
    BY <1>3 DEF Scheduler, BeginPass, PollsDone, EndPass, ThreadDies, Reap, Start, Skip, Inspect,
                managerVars
  <2>2. \A k \in Job : PassTurn(k)
    BY <1>3, SchedulerTurns
  <2>3. \A k \in Occupied' : k \in Job
    BY DEF Occupied, TypeOK
  <2>4. \A k \in Occupied' : job'[k].shape = job[k].shape /\ (k \in Occupied \/ Start(k))
    BY <2>2, <2>3 DEF PassTurn
  <2>5. CASE \E j \in Job : Start(j)
    <3>1. PICK j \in Job : Start(j)
      BY <2>5
    <3>2. \A k \in Job \ {j} : job'[k] = job[k]
      BY <3>1, StartEffect
    <3>3. Occupied' \subseteq Occupied \cup {j}
      BY <2>1, <2>3, <3>2 DEF Occupied
    <3>4. Fits(j)
      BY <3>1 DEF Start
    <3> QED
      BY <1>t, <2>1, <2>4, <3>3, <3>4, MemoryGrows
  <2>6. CASE ~\E j \in Job : Start(j)
    BY <1>t, <2>1, <2>3, <2>4, <2>6, MemoryShrinks
  <2> QED
    BY <2>5, <2>6
<1>4. CASE ~Commit /\ ~Scheduler
  <2>1. UNCHANGED <<config, records>>
    BY <1>4, OtherTurns
  <2>2. \A k \in Occupied' : k \in Job /\ k \in records
    BY <2>1 DEF Occupied, TypeOK
  <2>3. \A k \in Occupied' : k \in Occupied /\ job'[k].shape = job[k].shape
    BY <1>4, <2>1, <2>2, OtherTurns DEF Occupied
  <2> QED
    BY <1>t, <2>1, <2>3, MemoryShrinks
<1> QED
  BY <1>1, <1>2, <1>3, <1>4

\* What the live workers reserve, paused ones included, always fits beside the
\* coordinator's reserve (manager.py: _fits, _start, configure), whatever is staged.
THEOREM MemoryLimit == Spec => []MemoryBounded
<1>1. Init => IndInv /\ OwnInv /\ HonestInd /\ MemoryBounded
  <2> SUFFICES ASSUME Init PROVE IndInv /\ OwnInv /\ HonestInd /\ MemoryBounded
    OBVIOUS
  <2>1. IndInv /\ OwnInv /\ HonestInd
    BY InitInv, OwnInit, HonestInit
  <2>2. Occupied = {} /\ TypeOK
    BY <2>1 DEF Init, Occupied, IndInv
  <2> QED
    BY <2>1, <2>2, MemoryEmpty
<1>2. IndInv /\ OwnInv /\ HonestInd /\ MemoryBounded /\ [Next]_vars
        => (IndInv /\ OwnInv /\ HonestInd /\ MemoryBounded)'
  <2>1. IndInv /\ OwnInv /\ HonestInd /\ [Next]_vars => (IndInv /\ OwnInv /\ HonestInd)'
    BY NextInv, OwnStep, HonestStep
  <2>2. IndInv' => TypeOK'
    BY DEF IndInv
  <2> QED
    BY <2>1, <2>2, MemoryStep
<1> QED
  BY <1>1, <1>2, PTL DEF Spec

-----------------------------------------------------------------------------
(* The order in which queued jobs start.                                   *)

\* A pass has left behind only queued jobs that do not fit.
SkipInv == thread = "starting" => \A k \in Queued : k \in todo \/ ~Fits(k)

\* A job that does not fit does not fit beside more slots either.
LEMMA FitsLess ==
  ASSUME TypeOK, TypeOK', config' = config, Occupied \subseteq Occupied',
         \A k \in Occupied : job'[k].shape = job[k].shape,
         NEW j \in Job, job'[j].shape = job[j].shape, Fits(j)'
  PROVE  Fits(j)
<1>1. Occupied' \in SUBSET Job /\ Occupied \in SUBSET Job /\ Occupied \in SUBSET Occupied'
  BY DEF TypeOK, Occupied
<1>2. Shaped(job, Occupied)
  BY <1>1, JobsShaped
<1>3. Shaped(job', Occupied') /\ SameShape(job, job', Occupied)
  BY <1>1 DEF Shaped, SameShape, TypeOK, JobRecord
<1>4. Bytes(WorkerBytes, job, Occupied) <= Bytes(WorkerBytes, job', Occupied')
  BY <1>1, <1>3, BytesShrink, JobsAssumption
<1>5. Bytes(WorkerBytes, job', Occupied') \in Nat /\ Bytes(WorkerBytes, job, Occupied) \in Nat
  BY <1>1, <1>2, <1>3, BytesType, JobsAssumption
<1>6. IsFiniteSet(Occupied')
  BY <1>1, FS_Subset, JobsAssumption
<1>7. Cardinality(Occupied) <= Cardinality(Occupied')
        /\ Cardinality(Occupied) \in Nat /\ Cardinality(Occupied') \in Nat
  BY <1>1, <1>6, FS_Subset, FS_CardinalityType
<1>8. /\ config.coordinator_bytes \in Nat /\ config.memory_bytes \in Nat /\ config.max_workers \in Nat
      /\ WorkerBytes[job[j].shape] \in Nat
  BY JobsAssumption DEF TypeOK, JobsConfig, JobRecord
<1> QED
  BY <1>4, <1>5, <1>7, <1>8 DEF Fits

\* A pass goes on leaving behind only what does not fit: slots are not freed under its lock.
LEMMA SkipStep ==
  ASSUME IndInv, OwnInv, HonestInd, SkipInv, [Next]_vars, TypeOK'
  PROVE  SkipInv'
<1>t. TypeOK
  BY DEF IndInv
<1> SUFFICES ASSUME thread' = "starting", NEW k \in Queued', k \notin todo', Fits(k)'
             PROVE  FALSE
  BY DEF SkipInv
<1>k. k \in Job /\ k \in records' /\ job'[k].status = "queued"
  BY DEF Queued, TypeOK
<1>1. ASSUME UNCHANGED <<config, records>>, Occupied \subseteq Occupied',
             \A i \in Occupied : job'[i].shape = job[i].shape, job'[k].shape = job[k].shape
      PROVE  Fits(k)
  BY <1>t, <1>k, <1>1, FitsLess
<1>2. CASE Commit
  BY <1>2, CommitMoves
<1>3. CASE Scheduler
  <2>1. UNCHANGED <<config, records>>
    BY <1>3 DEF Scheduler, BeginPass, PollsDone, EndPass, ThreadDies, Reap, Start, Skip, Inspect,
                managerVars
  <2>2. CASE BeginPass \/ EndPass \/ ThreadDies
    BY <2>2 DEF BeginPass, EndPass, ThreadDies
  <2>3. CASE PollsDone
    BY <1>k, <2>1, <2>3 DEF PollsDone, Queued
  <2>4. ASSUME NEW j \in Job, Skip(j) PROVE FALSE
    <3>1. job' = job /\ thread = "starting" /\ ~Fits(j) /\ todo' = todo \ {j}
      BY <2>4 DEF Skip
    <3>2. Fits(k)
      BY <1>1, <2>1, <3>1 DEF Occupied
    <3>3. k \in Queued
      BY <1>k, <2>1, <3>1 DEF Queued
    <3> QED
      BY <3>1, <3>2, <3>3 DEF SkipInv
  <2>5. ASSUME NEW j \in Job, Start(j) PROVE FALSE
    <3>1. \A i \in Job \ {j} : job'[i] = job[i]
      BY <2>5, StartEffect
    <3>2. job[j].status = "queued" /\ thread = "starting" /\ todo' = todo \ {j}
      BY <2>5, PassFacts
    <3>3. job'[j].status \in {"running", "failed"}
      BY <2>5, StartEffect
    <3>4. k # j
      BY <1>k, <3>3
    <3>5. \A i \in Occupied : i \in Job /\ i # j
      BY <1>t, <3>2 DEF Occupied, Live, TypeOK
    <3>6. Occupied \subseteq Occupied' /\ \A i \in Occupied : job'[i].shape = job[i].shape
      BY <2>1, <3>1, <3>5 DEF Occupied
    <3>7. Fits(k)
      BY <1>1, <1>k, <2>1, <3>1, <3>4, <3>6
    <3>8. k \in Queued /\ k \notin todo
      BY <1>k, <2>1, <3>1, <3>2, <3>4 DEF Queued
    <3> QED
      BY <3>2, <3>7, <3>8 DEF SkipInv
  <2>6. ASSUME NEW j \in Job, Reap(j) \/ \E a, b \in BOOLEAN : Inspect(j, a, b) PROVE FALSE
    BY <2>6, PassFacts
  <2> QED
    BY <1>3, <2>2, <2>3, <2>4, <2>5, <2>6 DEF Scheduler
<1>4. CASE ~Commit /\ ~Scheduler
  <2>1. UNCHANGED <<config, records, thread, todo>>
    BY <1>4, OtherTurns
  <2>2. \A i \in records : i \in Job /\ job'[i].status = job[i].status
                             /\ job'[i].process = job[i].process /\ job'[i].shape = job[i].shape
    BY <1>4, <1>t, OtherTurns DEF TypeOK
  <2>3. Occupied \subseteq Occupied' /\ k \in Queued /\ \A i \in Occupied : job'[i].shape = job[i].shape
    BY <1>k, <2>1, <2>2 DEF Occupied, Queued
  <2>4. Fits(k)
    BY <1>1, <1>k, <2>1, <2>2, <2>3
  <2> QED
    BY <2>1, <2>3, <2>4 DEF SkipInv
<1> QED
  BY <1>2, <1>3, <1>4

\* When a job starts, every older queued job does not fit: the scheduler goes through the
\* queue in submission order and nothing frees a slot during its pass (manager.py: _run).
THEOREM StartOrder == Spec => NoOvertaking
<1>1. Init => SkipInv
  BY DEF Init, SkipInv
<1>2. Init => IndInv /\ OwnInv /\ HonestInd
  BY InitInv, OwnInit, HonestInit
<1>3. IndInv /\ OwnInv /\ HonestInd /\ [Next]_vars => (IndInv /\ OwnInv /\ HonestInd)'
  BY NextInv, OwnStep, HonestStep
<1>4. IndInv' => TypeOK'
  BY DEF IndInv
<1>5. IndInv /\ OwnInv /\ HonestInd /\ SkipInv /\ [Next]_vars => SkipInv'
  BY <1>3, <1>4, SkipStep
<1>6. IndInv /\ OwnInv /\ HonestInd /\ SkipInv /\ [Next]_vars =>
        \A j \in Job : job[j].status = "queued" /\ job'[j].status = "running" =>
          \A k \in Queued : job[k].seq < job[j].seq => ~Fits(k)
  <2> SUFFICES ASSUME IndInv, OwnInv, HonestInd, SkipInv, [Next]_vars,
                      NEW j \in Job, job[j].status = "queued", job'[j].status = "running",
                      NEW k \in Queued, job[k].seq < job[j].seq
               PROVE  ~Fits(k)
    OBVIOUS
  <2>1. Start(j)
    <3>1. CASE Commit
      BY <3>1, CommitTurns DEF CommitTurn
    <3>2. CASE Scheduler
      BY <3>2, SchedulerTurns DEF PassTurn
    <3>3. CASE ~Commit /\ ~Scheduler
      BY <3>3, OtherTurns
    <3> QED
      BY <3>1, <3>2, <3>3
  <2>2. thread = "starting" /\ \A i \in todo : job[j].seq <= job[i].seq
    BY <2>1 DEF Start, Oldest
  <2>3. k \in Job /\ job[k].seq \in Nat /\ job[j].seq \in Nat
    BY DEF Queued, IndInv, TypeOK, JobRecord
  <2>4. k \notin todo
    BY <2>2, <2>3
  <2> QED
    BY <2>2, <2>4 DEF SkipInv
<1> QED
  BY <1>1, <1>2, <1>3, <1>5, <1>6, PTL DEF Spec, NoOvertaking
-----------------------------------------------------------------------------
(* Outcomes.                                                               *)

\* Outside the statements where a resume follows another operation on its job, a terminal
\* status is final: no late worker outcome, close or pending operation changes it
\* (manager.py: _cancel, _finish, commit).
THEOREM OutcomesFinal == Spec /\ []ResumeAlone => TerminalFinal
<1>1. JobsInd /\ [Next]_vars =>
        \A j \in Job : job[j].status \in Terminal => job'[j].status \in {job[j].status, "released"}
  <2> SUFFICES ASSUME IndInv, OwnInv, HonestInd, HandInd, [Next]_vars,
                      NEW j \in Job, job[j].status \in Terminal
               PROVE  job'[j].status \in {job[j].status, "released"}
    BY DEF JobsInd
  <2>1. CASE Commit
    BY <2>1, CommitTurns DEF CommitTurn, HandInd
  <2>2. CASE Scheduler
    BY <2>2, SchedulerTurns DEF PassTurn
  <2>3. CASE ~Commit /\ ~Scheduler
    <3>1. j \notin Pending
      BY DEF Pending, At, HonestInd, StagedInv, Terminal
    <3> QED
      BY <2>3, <3>1, OtherTurns DEF Terminal
  <2> QED
    BY <2>1, <2>2, <2>3
<1> QED
  BY <1>1, JobsInvariant, PTL DEF Spec, TerminalFinal

\* Outcomes are final for a client that sends one operation per statement.
THEOREM OutcomesFinalOfOne ==
  ASSUME MaxStaged = 1
  PROVE  Spec => TerminalFinal
BY OneOperation, OutcomesFinal, PTL

-----------------------------------------------------------------------------
(* The slots that admission counts on.                                     *)

\* Some job of a finite set was submitted last.
LEMMA LastOne ==
  ASSUME NEW S, IsFiniteSet(S), S # {}, NEW f, \A j \in S : f[j].seq \in Nat
  PROVE  \E j \in S : \A k \in S : f[k].seq <= f[j].seq
<1> DEFINE HasLast(s) == \E j \in s : \A k \in s : f[k].seq <= f[j].seq
<1> SUFFICES ASSUME {s \in SUBSET S : s # {} /\ ~HasLast(s)} # {} PROVE FALSE
  <2> HIDE DEF HasLast
  <2>1. S \in {s \in SUBSET S : s # {} /\ ~HasLast(s)} \/ HasLast(S)
    OBVIOUS
  <2>2. HasLast(S)
    BY <2>1
  <2> QED
    BY <2>2 DEF HasLast
<1>1. PICK B : B = {s \in SUBSET S : s # {} /\ ~HasLast(s)}
  OBVIOUS
<1>2. PICK s \in B : \A t \in B : t \subseteq s => t = s
  <2> HIDE DEF HasLast
  <2> QED
    BY <1>1, SmallestSet
<1>3. s \in SUBSET S /\ s # {} /\ ~HasLast(s)
  BY <1>1
<1>4. PICK x \in s : TRUE
  BY <1>3
<1>5. s \ {x} # {}
  BY <1>3, <1>4
<1>6. s \ {x} \notin B /\ s \ {x} \in SUBSET S
  BY <1>2, <1>3, <1>4
<1>7. HasLast(s \ {x})
  <2> HIDE DEF HasLast
  <2> QED
    BY <1>1, <1>5, <1>6
<1>8. PICK y \in s \ {x} : \A k \in s \ {x} : f[k].seq <= f[y].seq
  BY <1>7
<1>9. f[x].seq \in Nat /\ f[y].seq \in Nat /\ \A k \in s : f[k].seq \in Nat
  BY <1>3, <1>4, <1>8
<1>10. CASE f[x].seq <= f[y].seq
  BY <1>3, <1>8, <1>10
<1>11. CASE f[y].seq <= f[x].seq
  BY <1>3, <1>4, <1>8, <1>9, <1>11
<1> QED
  BY <1>9, <1>10, <1>11

\* Seating the queued jobs never counts more slots than there are workers.
LEMMA SlotsBound ==
  ASSUME TypeOK, NEW f \in [Job -> JobRecord], NEW active \in SUBSET Job,
         Cardinality({j \in active : f[j].status \in Live /\ f[j].process}) <= config.max_workers
  PROVE  Slots(f, active) \in 0 .. config.max_workers
<1> DEFINE occupied == {j \in active : f[j].status \in Live /\ f[j].process}
           Seat(j, acc) ==
             IF acc.slots < config.max_workers /\ WorkerBytes[f[j].shape] <= acc.room
             THEN [slots |-> acc.slots + 1, room |-> acc.room - WorkerBytes[f[j].shape]]
             ELSE acc
           free == [slots |-> Cardinality(occupied),
                    room |-> config.memory_bytes - config.coordinator_bytes
                               - Bytes(WorkerBytes, f, occupied)]
           queued == {j \in active : f[j].status = "queued"}
           last(s) == CHOOSE j \in s : \A k \in s : f[k].seq <= f[j].seq
           Solves(g) == g = [s \in SUBSET queued |->
                               IF s = {} THEN free ELSE Seat(last(s), g[s \ {last(s)}])]
           Account == [slots : 0 .. config.max_workers, room : Int]
<1>1. Slots(f, active) = (CHOOSE g : Solves(g))[queued].slots
  BY DEF Slots, MapThenFoldSet
<1>2. /\ IsFiniteSet(Job) /\ IsFiniteSet(queued) /\ IsFiniteSet(occupied)
      /\ occupied \in SUBSET Job /\ queued \in SUBSET Job
  <2>1. occupied \in SUBSET Job /\ queued \in SUBSET Job
    OBVIOUS
  <2> QED
    BY <2>1, FS_Subset, JobsAssumption
<1>3. Shaped(f, occupied)
  BY DEF Shaped, JobRecord
<1>4. free \in Account
  <2>1. Bytes(WorkerBytes, f, occupied) \in Nat
    BY <1>2, <1>3, BytesType, JobsAssumption
  <2>2. Cardinality(occupied) \in 0 .. config.max_workers
    BY <1>2, FS_CardinalityType DEF TypeOK, JobsConfig
  <2>3. config.memory_bytes \in Nat /\ config.coordinator_bytes \in Nat
    BY DEF TypeOK, JobsConfig
  <2> HIDE DEF occupied
  <2> QED
    BY <2>1, <2>2, <2>3
<1>5. \A j \in queued, acc \in Account : Seat(j, acc) \in Account
  <2> SUFFICES ASSUME NEW j \in queued, NEW acc \in Account PROVE Seat(j, acc) \in Account
    OBVIOUS
  <2>1. WorkerBytes[f[j].shape] \in Nat
    BY <1>2, JobsAssumption DEF JobRecord
  <2>2. config.max_workers \in Nat
    BY DEF TypeOK, JobsConfig
  <2>3. acc.slots \in 0 .. config.max_workers /\ acc.room \in Int
    OBVIOUS
  <2> HIDE DEF queued
  <2>4. CASE acc.slots < config.max_workers /\ WorkerBytes[f[j].shape] <= acc.room
    <3>1. acc.slots + 1 \in 0 .. config.max_workers /\ acc.room - WorkerBytes[f[j].shape] \in Int
      BY <2>1, <2>2, <2>3, <2>4
    <3> QED
      BY <2>4, <3>1
  <2> QED
    BY <2>4
<1>6. \A s \in SUBSET queued : s # {} => last(s) \in s
  <2> SUFFICES ASSUME NEW s \in SUBSET queued, s # {} PROVE last(s) \in s
    OBVIOUS
  <2>1. IsFiniteSet(s) /\ \A j \in s : f[j].seq \in Nat
    BY <1>2, FS_Subset DEF JobRecord
  <2> QED
    BY <2>1, LastOne
<1>q. PICK Q : Q = queued
  OBVIOUS
<1>c. PICK c : c = [s \in SUBSET Q |-> last(s)]
  OBVIOUS
<1>o. PICK op : op = [j \in Q |-> [acc \in Account |-> Seat(j, acc)]]
  OBVIOUS
<1>A. PICK A : A = Account
  OBVIOUS
<1>b. PICK base : base = free
  OBVIOUS
<1>7. Chooses(c, Q) /\ IsFiniteSet(Q)
  BY <1>2, <1>6, <1>c, <1>q DEF Chooses
<1>8. base \in A /\ \A j \in Q, acc \in A : op[j][acc] = Seat(j, acc) /\ op[j][acc] \in A
  <2> HIDE DEF Account, Seat, free
  <2> QED
    BY <1>4, <1>5, <1>q, <1>o, <1>A, <1>b
<1>9. PICK g : Folds(g, SUBSET Q, base, c, op)
  BY <1>7, FoldExists
<1>10. \A s \in SUBSET Q : g[s] \in A
  BY <1>7, <1>8, <1>9, FoldType
<1>11. Solves(g)
  <2>1. ASSUME NEW s \in SUBSET Q, s # {}
        PROVE  op[c[s]][g[s \ {c[s]}]] = Seat(last(s), g[s \ {last(s)}])
    <3>1. c[s] = last(s) /\ c[s] \in Q /\ s \ {c[s]} \in SUBSET Q
      BY <1>7, <1>c, <2>1 DEF Chooses
    <3>2. g[s \ {c[s]}] \in A
      BY <1>10, <3>1
    <3> HIDE DEF last, Seat
    <3> QED
      BY <1>8, <3>1, <3>2
  <2> HIDE DEF Seat, last, free
  <2> QED
    BY <1>9, <2>1, <1>q, <1>b DEF Folds
<1>12. PICK h : h = CHOOSE g2 : Solves(g2)
  OBVIOUS
<1>13. Solves(h)
  <2> HIDE DEF Solves
  <2> QED
    BY <1>11, <1>12
<1>14. \A s \in SUBSET Q : h[s] \in A
  <2> SUFFICES ASSUME {s \in SUBSET Q : h[s] \notin A} # {} PROVE FALSE
    OBVIOUS
  <2>1. PICK B : B = {s \in SUBSET Q : h[s] \notin A}
    OBVIOUS
  <2>2. PICK s \in B : \A t \in B : t \subseteq s => t = s
    BY <1>7, <2>1, SmallestSet
  <2>x. PICK x : x = last(s)
    OBVIOUS
  <2>3. s \in SUBSET Q /\ h[s] \notin A
    BY <2>1
  <2>4. h[s] = IF s = {} THEN base ELSE Seat(x, h[s \ {x}])
    <3> HIDE DEF Seat, last, free
    <3> QED
      BY <1>13, <1>q, <1>b, <2>3, <2>x
  <2>5. s # {} /\ h[s] = Seat(x, h[s \ {x}])
    <3> HIDE DEF Seat
    <3> QED
      BY <1>8, <2>3, <2>4
  <2>6. x \in s /\ x \in Q /\ s \ {x} \in SUBSET Q
    <3> HIDE DEF last
    <3> QED
      BY <1>6, <1>q, <2>3, <2>5, <2>x
  <2>7. h[s \ {x}] \in A
    BY <2>1, <2>2, <2>6
  <2> HIDE DEF Seat
  <2> QED
    BY <1>8, <2>3, <2>5, <2>6, <2>7
<1>15. Slots(f, active) = h[Q].slots /\ h[Q] \in A
  BY <1>1, <1>12, <1>14, <1>q
<1> QED
  BY <1>15, <1>A

-----------------------------------------------------------------------------
(* What was admitted.                                                      *)

\* The jobs an admission counts: the retained and the staged ones.
Admitted == records \cup Pending
Going == {j \in Admitted : job[j].status \notin Terminal}

\* The admitted jobs, the staged ones included, are within the limits.
AdmitInv ==
  /\ Cardinality(Admitted) <= config.max_jobs
  /\ Cardinality(Going) <= config.max_queue + config.max_workers
  /\ Bytes(CacheBytes, job, Admitted) <= config.coordinator_bytes
  /\ Bytes(ScratchBytes, job, Going) <= config.scratch_bytes
  /\ \A j \in Going : WorkerBytes[job[j].shape] <= config.memory_bytes - config.coordinator_bytes

\* A resume and a change of limits stand alone in their statements.  Beside another
\* operation a resume may revive a job that the statement has ended, and a submission staged
\* after new limits is admitted under the old ones.
SettingAlone ==
  \A i, k \in DOMAIN staged : staged[i].op \in {"resume", "configure"} => i = k

\* Staged submissions are of jobs.
LEMMA AdmittedJobs == ASSUME TypeOK PROVE Admitted \subseteq Job /\ Going \subseteq Job
<1>1. \A i \in DOMAIN staged : staged[i].op = "submit" => staged[i].job \in Job
  BY DEF TypeOK, Action
<1> QED
  BY <1>1 DEF Admitted, Going, Pending, TypeOK

\* A part of a finite set is finite and not larger.
LEMMA Smaller ==
  ASSUME NEW S \in SUBSET Job, NEW T \in SUBSET S
  PROVE  Cardinality(T) <= Cardinality(S) /\ Cardinality(T) \in Nat /\ Cardinality(S) \in Nat
<1>1. IsFiniteSet(S)
  BY FS_Subset, JobsAssumption
<1> QED
  BY <1>1, FS_Subset, FS_CardinalityType

\* The limits of what is admitted hold for any part of it.
LEMMA AdmitShrinks ==
  ASSUME TypeOK, TypeOK', config' = config, AdmitInv, Admitted' \subseteq Admitted,
         Going' \subseteq Going, \A k \in Admitted' : job'[k].shape = job[k].shape
  PROVE  AdmitInv'
<1>1. /\ Admitted \in SUBSET Job /\ Admitted' \in SUBSET Admitted
      /\ Going \in SUBSET Job /\ Going' \in SUBSET Going /\ Going' \in SUBSET Admitted'
      /\ Going' \in SUBSET Job /\ Admitted' \in SUBSET Job
  BY AdmittedJobs DEF Going
<1>2. /\ Shaped(job, Admitted) /\ SameShape(job', job, Admitted') /\ Shaped(job', Admitted')
      /\ Shaped(job, Going) /\ SameShape(job', job, Going') /\ Shaped(job', Going')
  BY <1>1 DEF Shaped, SameShape, TypeOK, JobRecord
<1>3. /\ Cardinality(Admitted') <= Cardinality(Admitted) /\ Cardinality(Admitted') \in Nat
      /\ Cardinality(Admitted) \in Nat
      /\ Cardinality(Going') <= Cardinality(Going) /\ Cardinality(Going') \in Nat
      /\ Cardinality(Going) \in Nat
  BY <1>1, Smaller
<1>4. /\ Bytes(CacheBytes, job', Admitted') <= Bytes(CacheBytes, job, Admitted)
      /\ Bytes(ScratchBytes, job', Going') <= Bytes(ScratchBytes, job, Going)
  BY <1>1, <1>2, BytesShrink, JobsAssumption
<1>5. /\ Bytes(CacheBytes, job', Admitted') \in Nat /\ Bytes(CacheBytes, job, Admitted) \in Nat
      /\ Bytes(ScratchBytes, job', Going') \in Nat /\ Bytes(ScratchBytes, job, Going) \in Nat
  BY <1>1, <1>2, BytesType, JobsAssumption
<1>6. /\ config.max_jobs \in Nat /\ config.max_queue \in Nat /\ config.max_workers \in Nat
      /\ config.coordinator_bytes \in Nat /\ config.scratch_bytes \in Nat
  BY DEF TypeOK, JobsConfig
<1>7. \A j \in Going' : WorkerBytes[job'[j].shape] <= config.memory_bytes - config.coordinator_bytes
  BY <1>1, <1>2 DEF AdmitInv, SameShape
<1>8. Cardinality(Admitted') <= config.max_jobs
        /\ Cardinality(Going') <= config.max_queue + config.max_workers
  BY <1>3, <1>6 DEF AdmitInv
<1>9. Bytes(CacheBytes, job', Admitted') <= config.coordinator_bytes
        /\ Bytes(ScratchBytes, job', Going') <= config.scratch_bytes
  BY <1>4, <1>5, <1>6 DEF AdmitInv
<1> QED
  BY <1>7, <1>8, <1>9 DEF AdmitInv

\* What _admit found room for stays within the limits once it is staged.
LEMMA AdmitHolds ==
  ASSUME TypeOK, TypeOK', config' = config, NEW S \in SUBSET Job, Admits(job', S), Admitted' \subseteq S,
         Cardinality({j \in S : job'[j].status \in Live /\ job'[j].process}) <= config.max_workers
  PROVE  AdmitInv'
<1>1. PICK f \in [Job -> JobRecord] : f = job'
  BY DEF TypeOK
<1>2. PICK active : active = {j \in S : f[j].status \notin Terminal}
  OBVIOUS
<1>3. /\ active \in SUBSET Job /\ Admitted' \in SUBSET S /\ Going' \in SUBSET active
      /\ Going' \in SUBSET Job /\ Admitted' \in SUBSET Job
  BY <1>1, <1>2 DEF Going
<1>4. /\ Cardinality(S) <= config.max_jobs
      /\ Cardinality(active) - Slots(f, active) <= config.max_queue
      /\ Bytes(CacheBytes, f, S) <= config.coordinator_bytes
      /\ Bytes(ScratchBytes, f, active) <= config.scratch_bytes
      /\ \A j \in active : WorkerBytes[f[j].shape] <= config.memory_bytes - config.coordinator_bytes
  BY <1>1, <1>2, Zenon DEF Admits
<1>5. Slots(f, active) \in 0 .. config.max_workers
  <2>1. {j \in active : f[j].status \in Live /\ f[j].process}
          = {j \in S : f[j].status \in Live /\ f[j].process}
    BY <1>2 DEF Live, Terminal
  <2> QED
    BY <1>1, <1>3, <2>1, SlotsBound
<1>6. /\ Shaped(f, S) /\ SameShape(f, f, Admitted') /\ Shaped(f, Admitted')
      /\ Shaped(f, active) /\ SameShape(f, f, Going') /\ Shaped(f, Going')
  BY <1>3 DEF Shaped, SameShape, JobRecord
<1>7. /\ Cardinality(Admitted') <= Cardinality(S) /\ Cardinality(Admitted') \in Nat
      /\ Cardinality(S) \in Nat
      /\ Cardinality(Going') <= Cardinality(active) /\ Cardinality(Going') \in Nat
      /\ Cardinality(active) \in Nat
  BY <1>3, Smaller
<1>8. /\ Bytes(CacheBytes, f, Admitted') <= Bytes(CacheBytes, f, S)
      /\ Bytes(ScratchBytes, f, Going') <= Bytes(ScratchBytes, f, active)
  BY <1>3, <1>6, BytesShrink, JobsAssumption
<1>9. /\ Bytes(CacheBytes, f, Admitted') \in Nat /\ Bytes(CacheBytes, f, S) \in Nat
      /\ Bytes(ScratchBytes, f, Going') \in Nat /\ Bytes(ScratchBytes, f, active) \in Nat
  BY <1>3, <1>6, BytesType, JobsAssumption
<1>10. /\ config.max_jobs \in Nat /\ config.max_queue \in Nat /\ config.max_workers \in Nat
       /\ config.coordinator_bytes \in Nat /\ config.scratch_bytes \in Nat
  BY DEF TypeOK, JobsConfig
<1>11. Cardinality(Admitted') <= config.max_jobs
         /\ Cardinality(Going') <= config.max_queue + config.max_workers
  BY <1>4, <1>5, <1>7, <1>10
<1>12. Bytes(CacheBytes, job', Admitted') <= config.coordinator_bytes
         /\ Bytes(ScratchBytes, job', Going') <= config.scratch_bytes
  BY <1>1, <1>4, <1>8, <1>9, <1>10
<1>13. \A j \in Going' : WorkerBytes[job'[j].shape] <= config.memory_bytes - config.coordinator_bytes
  BY <1>1, <1>3, <1>4
<1> QED
  BY <1>11, <1>12, <1>13 DEF AdmitInv

\* A dispatch admits what it stages; what it stages beside a submission adds no job.
LEMMA AdmitDispatch ==
  ASSUME IndInv, OwnInv, AdmitInv, Dispatch, TypeOK'
  PROVE  AdmitInv'
<1>t. TypeOK
  BY DEF IndInv
<1>0. UNCHANGED <<config, records>>
  BY BornEffect
<1>1. ASSUME NEW k, k \in Pending'
      PROVE  k \in Pending \/ (job[k].status = "unborn" /\ job'[k].status = "queued")
  <2>1. PICK i \in DOMAIN staged' : staged'[i].op = "submit" /\ staged'[i].job = k
    BY <1>1 DEF Pending
  <2>2. CASE i \in DOMAIN staged /\ staged'[i] = staged[i]
    BY <2>1, <2>2 DEF Pending
  <2>3. CASE Grounds(staged'[i])
    BY <2>1, <2>3 DEF Grounds
  <2> QED
    BY <2>1, <2>2, <2>3, DispatchAdds
<1>2. CASE job' = job
  <2>1. Admitted' \subseteq Admitted
    BY <1>0, <1>1, <1>2 DEF Admitted
  <2>2. Going' \subseteq Going
    BY <1>2, <2>1 DEF Going
  <2> QED
    BY <1>t, <1>0, <1>2, <2>1, <2>2, AdmitShrinks
<1>3. ASSUME NEW j \in Job, NEW r \in JobRecord, job' = [job EXCEPT ![j] = r], r.process = FALSE,
             Admits(job', records \cup Pending \cup {j})
      PROVE  AdmitInv'
  <2>1. PICK S : S = records \cup Pending \cup {j}
    OBVIOUS
  <2>2. S \in SUBSET Job
    BY <1>t, <2>1, AdmittedJobs DEF Admitted
  <2>3. \A k \in Pending' : k = j \/ k \in Pending
    <3> SUFFICES ASSUME NEW k \in Pending', k # j, k \notin Pending PROVE FALSE
      OBVIOUS
    <3>1. k \in Job
      <4>1. (TypeOK => Admitted \subseteq Job)'
        BY AdmittedJobs, PTL
      <4> QED
        BY <4>1 DEF Admitted
    <3>2. job'[k] = job[k]
      BY <1>t, <1>3, <3>1 DEF TypeOK
    <3> QED
      BY <1>1, <3>2
  <2>4. Admitted' \subseteq S
    BY <1>0, <2>1, <2>3 DEF Admitted
  <2>5. PICK held : held = {k \in S : job'[k].status \in Live /\ job'[k].process}
    OBVIOUS
  <2>6. held \in SUBSET Occupied
    <3> SUFFICES ASSUME NEW k \in held PROVE k \in Occupied
      OBVIOUS
    <3>1. k \in Job /\ job'[k].status \in Live /\ job'[k].process
      BY <2>2, <2>5
    <3>2. k # j
      BY <1>t, <1>3, <3>1 DEF TypeOK
    <3>3. job'[k] = job[k]
      BY <1>t, <1>3, <3>1, <3>2 DEF TypeOK
    <3> QED
      BY <3>1, <3>3 DEF IndInv, ProcessInv, Occupied
  <2>7. Cardinality(held) <= config.max_workers
    <3>1. Occupied \in SUBSET Job
      BY <1>t DEF TypeOK, Occupied
    <3>2. Cardinality(held) <= Cardinality(Occupied) /\ Cardinality(held) \in Nat
            /\ Cardinality(Occupied) \in Nat
      BY <2>6, <3>1, Smaller
    <3>3. config.max_workers \in Nat
      BY <1>t DEF TypeOK, JobsConfig
    <3> QED
      BY <3>2, <3>3 DEF IndInv, SlotsBounded
  <2> QED
    BY <1>t, <1>0, <1>3, <2>1, <2>2, <2>4, <2>5, <2>7, AdmitHolds
<1>4. ASSUME NEW j \in Job, NEW s \in Shape, DispatchSubmit(j, s) PROVE AdmitInv'
  <2>1. PICK r : r = NewJob(s, NextSeq)
    OBVIOUS
  <2>2. r \in JobRecord /\ r.process = FALSE
    BY <2>1, FreshType, NextSeqType DEF NewJob
  <2> QED
    BY <1>3, <1>4, <2>1, <2>2 DEF DispatchSubmit
<1>5. ASSUME NEW j \in Job, NEW k \in Job, DispatchRestart(j, k) PROVE AdmitInv'
  <2>1. PICK r : r = NewJob(job[j].shape, NextSeq)
    OBVIOUS
  <2>2. r \in JobRecord /\ r.process = FALSE
    BY <1>t, <2>1, FreshType, NextSeqType DEF NewJob, TypeOK, JobRecord
  <2> QED
    BY <1>3, <1>5, <2>1, <2>2 DEF DispatchRestart
<1>6. CASE (\E c \in Config : DispatchConfigure(c)) \/ DispatchShutdown
             \/ \E j \in Job : \/ DispatchPause(j) \/ DispatchResume(j)
                               \/ DispatchCancel(j) \/ DispatchRelease(j)
  BY <1>2, <1>6 DEF DispatchConfigure, DispatchShutdown, DispatchPause, DispatchResume,
                    DispatchCancel, DispatchRelease
<1> QED
  BY <1>4, <1>5, <1>6 DEF Dispatch

\* Nothing is admitted when new limits are applied, and applying anything else keeps the
\* admitted jobs or ends some.
LEMMA AdmitCommit ==
  ASSUME IndInv, OwnInv, HonestInd, HandInd, AdmitInv, SettingAlone, Commit, TypeOK'
  PROVE  AdmitInv'
<1>t. TypeOK /\ StatementInv
  BY DEF IndInv, HandInd
<1>1. CASE CommitConfigure
  <2>1. /\ staged \in Seq(Action) /\ staged # <<>> /\ Head(staged).op = "configure"
        /\ staged' = Tail(staged)
    BY <1>1, <1>t DEF CommitConfigure, Committing, Advance, TypeOK
  <2>2. 1 \in DOMAIN staged /\ staged[1].op = "configure"
    BY <2>1
  <2>3. \A i \in DOMAIN staged : i = 1
    BY <2>2 DEF SettingAlone
  <2>4. Len(staged) = 1
    <3>1. Len(staged) \in Nat /\ Len(staged) # 0 /\ DOMAIN staged = 1 .. Len(staged)
      BY <2>1
    <3>2. Len(staged) \in DOMAIN staged
      BY <3>1
    <3> QED
      BY <2>3, <3>2
  <2>5. staged' = <<>>
    BY <2>1, <2>4
  <2>6. records = {} /\ records' = {}
    BY <1>1, <2>2 DEF CommitConfigure, IndInv, ConfigInv
  <2>7. Admitted' = {}
    BY <2>5, <2>6 DEF Admitted, Pending
  <2>8. Going' = {}
    BY <2>7 DEF Going
  <2>9. Shaped(job', {}) /\ {} \in SUBSET Job
    BY DEF Shaped
  <2>10. Bytes(CacheBytes, job', {}) = 0 /\ Bytes(ScratchBytes, job', {}) = 0
    BY <2>9, BytesType, JobsAssumption
  <2> QED
    BY <2>7, <2>8, <2>10, FS_EmptySet DEF AdmitInv, TypeOK, JobsConfig
<1>2. CASE ~CommitConfigure
  <2>1. config' = config
    BY <1>2 DEF Commit, CommitSubmit, CommitCancel, CommitPause, CommitResumeQueued,
         ResumeTouch, ResumeUnlinkPaused, ResumeUnlinkPause, CommitResumeRaises, CommitRelease,
         CloseBegin, CloseEnd, managerVars
  <2>2. \A k \in Job : CommitTurn(k)
    BY CommitTurns
  <2>3. \A k : k \in Pending <=> At("submit", k) # {}
    BY DEF Pending, At
  <2>4. \A k : k \in Pending' => k \in Pending
    <3>1. \A k : k \in Pending' <=> At("submit", k)' # {}
      BY DEF Pending, At
    <3> QED
      BY <1>t, <2>3, <3>1, CommitMoves, AtShrinks
  <2>5. \A k \in Job : k \in records' => k \in records \/ k \in Pending
    BY <2>3, CommitMoves
  <2>6. Admitted \subseteq Job /\ Admitted' \subseteq Admitted
    <3>1. Admitted \subseteq Job /\ records' \subseteq Job
      BY <1>t, AdmittedJobs DEF TypeOK
    <3> QED
      BY <2>4, <2>5, <3>1 DEF Admitted
  <2>7. \A k \in Admitted' : job'[k].shape = job[k].shape
    BY <2>2, <2>4, <2>6 DEF CommitTurn, Admitted
  <2>8. Going' \subseteq Going
    <3> SUFFICES ASSUME NEW k \in Going', job[k].status \in Terminal PROVE FALSE
      BY <2>6 DEF Going
    <3>1. k \in Job /\ k \in Admitted' /\ job'[k].status \notin Terminal
      BY <2>6 DEF Going
    <3>2. k \notin records'
      BY <1>t, <2>2, <3>1 DEF CommitTurn
    <3>3. k \in Pending
      BY <2>4, <3>1, <3>2 DEF Admitted
    <3>4. job[k].status = "queued"
      BY <2>3, <3>1, <3>3 DEF HonestInd, StagedInv
    <3> QED
      BY <3>4 DEF Terminal
  <2> QED
    BY <1>t, <2>1, <2>6, <2>7, <2>8, AdmitShrinks
<1> QED
  BY <1>1, <1>2

\* What is admitted stays within the limits.
LEMMA AdmitStep ==
  ASSUME IndInv, OwnInv, HonestInd, HandInd, AdmitInv, SettingAlone, [Next]_vars, TypeOK'
  PROVE  AdmitInv'
<1>t. TypeOK /\ Admitted \subseteq Job
  BY AdmittedJobs DEF IndInv
<1>1. CASE Scheduler
  <2>1. UNCHANGED <<config, records, staged>>
    BY <1>1 DEF Scheduler, BeginPass, PollsDone, EndPass, ThreadDies, Reap, Start, Skip, Inspect,
                managerVars, clientVars
  <2>2. \A k \in Job : PassTurn(k)
    BY <1>1, SchedulerTurns
  <2>3. Admitted' = Admitted
    BY <2>1 DEF Admitted, Pending
  <2>4. \A k \in Admitted : job'[k].shape = job[k].shape
          /\ (job[k].status \in Terminal => job'[k].status \in Terminal)
    BY <1>t, <2>2 DEF PassTurn
  <2>5. Going' \subseteq Going
    BY <2>3, <2>4 DEF Going
  <2> QED
    BY <1>t, <2>1, <2>3, <2>4, <2>5, AdmitShrinks
<1>2. CASE ~Commit /\ ~Scheduler /\ ~Dispatch
  <2>1. UNCHANGED <<config, records>> /\ (staged' = staged \/ Abandon)
    BY <1>2, OtherTurns
  <2>2. Abandon => staged' = <<>>
    BY DEF Abandon
  <2>3. Admitted' \subseteq Admitted
    BY <2>1, <2>2 DEF Admitted, Pending
  <2>4. \A k \in Admitted' : k \in Job /\ job'[k].status = job[k].status /\ job'[k].shape = job[k].shape
    <3> SUFFICES ASSUME NEW k \in Admitted'
                 PROVE  job'[k].status = job[k].status /\ job'[k].shape = job[k].shape
      BY <1>t, <2>3
    <3>1. k \in Job
      BY <1>t, <2>3
    <3>2. CASE Abandon
      <4>1. k \in records
        BY <2>1, <2>2, <3>2 DEF Admitted, Pending
      <4> QED
        BY <1>2, <3>1, <4>1, OtherTurns
    <3> QED
      BY <1>2, <3>1, <3>2, OtherTurns
  <2>5. Going' \subseteq Going
    BY <2>3, <2>4 DEF Going
  <2> QED
    BY <1>t, <2>1, <2>3, <2>4, <2>5, AdmitShrinks
<1> QED
  BY <1>1, <1>2, AdmitCommit, AdmitDispatch

\* What is retained is admitted.
LEMMA AdmitTold ==
  ASSUME TypeOK, AdmitInv
  PROVE  AdmissionBounded
<1>1. /\ Admitted \in SUBSET Job /\ Going \in SUBSET Job /\ records \in SUBSET Admitted
      /\ Active \in SUBSET Going /\ records \in SUBSET Job /\ Active \in SUBSET Job
  BY AdmittedJobs DEF TypeOK, Admitted, Going, Active
<1>2. /\ Shaped(job, Admitted) /\ Shaped(job, Going) /\ Shaped(job, records) /\ Shaped(job, Active)
      /\ SameShape(job, job, records) /\ SameShape(job, job, Active)
  BY <1>1, JobsShaped DEF SameShape
<1>3. /\ Cardinality(records) <= Cardinality(Admitted) /\ Cardinality(records) \in Nat
      /\ Cardinality(Admitted) \in Nat
      /\ Cardinality(Active) <= Cardinality(Going) /\ Cardinality(Active) \in Nat
      /\ Cardinality(Going) \in Nat
  BY <1>1, Smaller
<1>4. /\ Bytes(CacheBytes, job, records) <= Bytes(CacheBytes, job, Admitted)
      /\ Bytes(ScratchBytes, job, Active) <= Bytes(ScratchBytes, job, Going)
  BY <1>1, <1>2, BytesShrink, JobsAssumption
<1>5. /\ Bytes(CacheBytes, job, records) \in Nat /\ Bytes(CacheBytes, job, Admitted) \in Nat
      /\ Bytes(ScratchBytes, job, Active) \in Nat /\ Bytes(ScratchBytes, job, Going) \in Nat
  BY <1>1, <1>2, BytesType, JobsAssumption
<1>6. /\ config.max_jobs \in Nat /\ config.max_queue \in Nat /\ config.max_workers \in Nat
      /\ config.coordinator_bytes \in Nat /\ config.scratch_bytes \in Nat
  BY DEF TypeOK, JobsConfig
<1>7. \A j \in Active : WorkerBytes[job[j].shape] <= config.memory_bytes - config.coordinator_bytes
  BY <1>1 DEF AdmitInv
<1>8. Cardinality(records) <= config.max_jobs
        /\ Cardinality(Active) <= config.max_queue + config.max_workers
  BY <1>3, <1>6 DEF AdmitInv
<1>9. Bytes(CacheBytes, job, records) <= config.coordinator_bytes
        /\ Bytes(ScratchBytes, job, Active) <= config.scratch_bytes
  BY <1>4, <1>5, <1>6 DEF AdmitInv
<1> QED
  BY <1>7, <1>8, <1>9 DEF AdmissionBounded

\* At first nothing is admitted.
LEMMA AdmitInit == ASSUME Init, TypeOK PROVE AdmitInv
<1>1. Admitted = {} /\ Going = {}
  BY DEF Init, Admitted, Pending, Going
<1>2. Shaped(job, {}) /\ {} \in SUBSET Job
  BY DEF Shaped
<1>3. Bytes(CacheBytes, job, {}) = 0 /\ Bytes(ScratchBytes, job, {}) = 0
  BY <1>2, BytesType, JobsAssumption
<1> QED
  BY <1>1, <1>3, FS_EmptySet DEF AdmitInv, TypeOK, JobsConfig

\* The memory of the live workers, and the job count, the queue, the manager's memory and
\* the scratch space that _admit checked at dispatch, hold at every later moment, whatever
\* starts, parks, ends, is abandoned or is applied in between (manager.py: _admit, commit).
THEOREM Limits == Spec /\ []SettingAlone => []LimitsKept
<1>1. SettingAlone => ResumeAlone
  BY DEF SettingAlone, ResumeAlone
<1>2. Init => AdmitInv
  BY InitInv, AdmitInit DEF IndInv
<1>3. JobsInd /\ JobsInd' /\ AdmitInv /\ SettingAlone /\ [Next]_vars => AdmitInv'
  BY AdmitStep DEF JobsInd, IndInv
<1>4. JobsInd /\ AdmitInv /\ MemoryBounded => LimitsKept
  BY AdmitTold DEF JobsInd, IndInv, LimitsKept
<1> QED
  BY <1>1, <1>2, <1>3, <1>4, JobsInvariant, MemoryLimit, PTL DEF Spec

\* With one operation to a statement a change of limits stands alone.
LEMMA OneSetting ==
  ASSUME MaxStaged = 1
  PROVE  Spec => []SettingAlone
<1>1. Init => IndInv /\ LoneInv
  BY InitInv DEF Init, LoneInv
<1>2. IndInv /\ LoneInv /\ [Next]_vars => (IndInv /\ LoneInv)'
  BY NextInv, LoneStep
<1>3. LoneInv => SettingAlone
  BY DEF LoneInv, SettingAlone
<1> QED
  BY <1>1, <1>2, <1>3, PTL DEF Spec

\* The limits for a client that sends one operation per statement.
THEOREM LimitsOfOne ==
  ASSUME MaxStaged = 1
  PROVE  Spec => []LimitsKept
BY OneSetting, Limits, PTL
=============================================================================
