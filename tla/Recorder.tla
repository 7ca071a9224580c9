------------------------------ MODULE Recorder ------------------------------
(***************************************************************************)
(* The statement transaction of the frontend.  A statement records its     *)
(* intent, runs against a copy of the session and a staged store, records  *)
(* one outcome in every journal it attached, and only then is the copy     *)
(* adopted and its job actions take effect.  Lifecycle transitions are     *)
(* whole statements, so a second journal only appears in a fork.           *)
(*                                                                         *)
(* Numerical state is the sequence of the commands that produced it.       *)
(* Store is about the files of one experiment; here an append either       *)
(* happened or raised.                                                     *)
(***************************************************************************)
EXTENDS Naturals, Sequences, FiniteSets, SequencesExt

CONSTANTS
    Experiment, None,
    Faults,        \* subset of {"append", "commit", "crash", "interrupt", "late interrupt"}
    MaxCommands    \* bound of the exploration

VARIABLES
    disk,     \* each experiment: its committed state and its journal
    client,   \* the process: adopted state, open experiment, leases, job actions
    stmt,     \* the statement in progress
    issued    \* commands so far

rvars == <<disk, client, stmt, issued>>

Blank == [exists |-> FALSE, content |-> <<>>, rows |-> <<>>]
Fresh == [content |-> <<>>, store |-> None, held |-> {}, jobs |-> {}]
Idle == [phase |-> "idle"]

Kinds == {"work", "init", "open", "close", "fork", "replay"}

Init ==
    /\ disk = [e \in Experiment |-> Blank] /\ client = Fresh
    /\ stmt = Idle /\ issued = 0

---------------------------------------------------------------------------
\* Journal rows.  An outcome that commits carries the index.

Baseline(content) == [kind |-> "baseline", cmd |-> 0, type |-> None, status |-> "ok", index |-> content]
Submitted(cmd, type) == [kind |-> "submitted", cmd |-> cmd, type |-> type, status |-> None, index |-> None]
Outcome(cmd, type, status, index) ==
    [kind |-> "outcome", cmd |-> cmd, type |-> type, status |-> status, index |-> index]

Open(rows) == {r \in ToSet(rows) : r.kind = "submitted"
                                  /\ \A q \in ToSet(rows) : q.kind = "outcome" => q.cmd # r.cmd}

\* Recovery of a journal whose last process left an intent behind.
Unrecovered(rows) == rows
Recovered(rows) ==
    rows \o SetToSeq({Outcome(r.cmd, r.type, "interrupted", None) : r \in Open(rows)})

Attached(e, rows) == [disk EXCEPT ![e].exists = TRUE, ![e].rows = rows]

---------------------------------------------------------------------------
(***************************************************************************)
(* Begin: the open experiment is attached, which recovers its journal if   *)
(* needed and appends the intent.  A refused intent ends the statement     *)
(* before anything ran.                                                    *)
(***************************************************************************)
Started(type, targets) ==
    [phase |-> "run", cmd |-> issued + 1, type |-> type, content |-> client.content,
     dest |-> client.store, targets |-> targets, jobs |-> {}, good |-> TRUE, status |-> "ok",
     todo |-> {}]

Begin(type) ==
    LET e == client.store
    IN /\ stmt = Idle /\ issued < MaxCommands
       /\ issued' = issued + 1
       /\ \/ /\ e = None
             /\ stmt' = Started(type, <<>>) /\ UNCHANGED <<disk, client>>
          \/ /\ e # None
             /\ disk' = Attached(e, Append(Recovered(disk[e].rows), Submitted(issued + 1, type)))
             /\ stmt' = Started(type, <<e>>) /\ UNCHANGED client
          \/ /\ e # None /\ "append" \in Faults
             /\ disk' \in {disk, Attached(e, Recovered(disk[e].rows))}
             /\ UNCHANGED <<client, stmt>>

---------------------------------------------------------------------------
\* What the statement does.  Children of one statement share one staged copy.

Running(type) == stmt.phase = "run" /\ stmt.type = type

Change ==
    /\ Running("work") /\ stmt.cmd \notin ToSet(stmt.content)
    /\ stmt' = [stmt EXCEPT !.content = Append(@, stmt.cmd)]
    /\ UNCHANGED <<disk, client, issued>>

JobAction ==
    /\ Running("work") /\ stmt' = [stmt EXCEPT !.jobs = {stmt.cmd}]
    /\ UNCHANGED <<disk, client, issued>>

\* Every journal that holds the intent is to be given its outcome.
Concluding(s) == [s EXCEPT !.phase = "record", !.todo = ToSet(s.targets)]

WorkDone ==
    /\ Running("work") /\ stmt' = Concluding(stmt) /\ UNCHANGED <<disk, client, issued>>

\* A child that fails or is refused fails the statement; 130 is an interruption.
Fails ==
    /\ stmt.phase = "run"
    /\ \E status \in {"error", "interrupted"} :
          stmt' = Concluding([stmt EXCEPT !.good = FALSE, !.status = status])
    /\ UNCHANGED <<disk, client, issued>>

\* A lifecycle operation takes the lease of e and attaches its journal.
Attaches(e, rows, content) ==
    /\ disk' = [Attached(e, Append(rows, Submitted(stmt.cmd, stmt.type))) EXCEPT
                   ![e].content = IF disk[e].exists THEN @ ELSE rows[1].index]
    /\ client' = [client EXCEPT !.held = @ \cup {e}]
    /\ stmt' = Concluding([stmt EXCEPT !.dest = e, !.content = content,
                                       !.targets = Append(@, e)])
    /\ UNCHANGED issued

\* The journal of a new experiment refuses its baseline or its first intent.
AttachRaises(e, rows) ==
    /\ "append" \in Faults
    /\ \E written \in {<<>>, rows} : disk' = Attached(e, written)
    /\ stmt' = Concluding([stmt EXCEPT !.good = FALSE, !.status = "error"])
    /\ UNCHANGED <<client, issued>>

Initialize(e) ==
    /\ Running("init") /\ stmt.dest = None /\ ~disk[e].exists
    /\ \/ Attaches(e, <<Baseline(<<>>)>>, stmt.content)
       \/ AttachRaises(e, <<Baseline(<<>>)>>)

OpenExperiment(e) ==
    /\ Running("open") /\ stmt.dest = None /\ stmt.content = <<>>
    /\ disk[e].rows # <<>> /\ e \notin client.held
    /\ Attaches(e, Recovered(disk[e].rows), disk[e].content)

Close ==
    /\ Running("close") /\ stmt.dest # None
    /\ stmt' = Concluding([stmt EXCEPT !.dest = None, !.content = <<>>])
    /\ UNCHANGED <<disk, client, issued>>

\* fork copies the committed index of the open experiment.
Fork(e) ==
    /\ Running("fork") /\ stmt.dest # None /\ ~disk[e].exists
    /\ LET rows == <<Baseline(disk[stmt.dest].content)>>
       IN Attaches(e, rows, stmt.content) \/ AttachRaises(e, rows)

---------------------------------------------------------------------------
(***************************************************************************)
(* Replay.  A plan walks the journal up to the outcome of its target: the  *)
(* index committed there, and the commands a replay by text would submit   *)
(* again.  A nonempty baseline blocks the latter.                          *)
(***************************************************************************)
UpTo(rows, target) ==
    SubSeq(rows, 1, CHOOSE i \in DOMAIN rows : rows[i].kind = "outcome" /\ rows[i].cmd = target)
Targets(e) == {r.cmd : r \in {q \in ToSet(disk[e].rows) : q.kind = "outcome"}}

Selected(e, target) ==
    LET rows == UpTo(disk[e].rows, target)
        latest == {i \in DOMAIN rows : /\ rows[i].index # None
                                       /\ \A k \in DOMAIN rows : k > i => rows[k].index = None}
    IN IF latest = {} THEN <<>> ELSE rows[CHOOSE i \in latest : TRUE].index

Steps(e, target) ==
    LET submits(r) == r.kind = "outcome" /\ r.status = "ok" /\ r.type = "work"
        commands == SelectSeq(UpTo(disk[e].rows, target), submits)
    IN [i \in DOMAIN commands |-> commands[i].cmd]

EmptyBaseline(e) == disk[e].rows[1].index = <<>>

\* Checkpoint replay: a new experiment that starts at the selected index.
Replay(e, target) ==
    /\ Running("replay") /\ stmt.dest # None /\ target \in Targets(stmt.dest) /\ ~disk[e].exists
    /\ LET index == Selected(stmt.dest, target)
       IN disk' = [disk EXCEPT ![e] = [exists |-> TRUE, content |-> index,
                                       rows |-> <<Baseline(index)>>]]
    /\ stmt' = Concluding(stmt)
    /\ UNCHANGED <<client, issued>>

---------------------------------------------------------------------------
\* Recording.

CommitsChanged(e) == e = stmt.dest /\ stmt.content # disk[e].content
Commits(e) == stmt.good /\ e = stmt.dest /\ stmt.content # disk[e].content

\* The destination of a success comes first, the others in the order of attachment.
Turn(e) ==
    /\ e \in stmt.todo
    /\ IF stmt.good /\ stmt.dest \in stmt.todo THEN e = stmt.dest
       ELSE \E i \in DOMAIN stmt.targets :
              /\ stmt.targets[i] = e
              /\ \A k \in 1..(i - 1) : stmt.targets[k] \notin stmt.todo

\* One outcome; that of a changed destination is the commit.
Record(e) ==
    LET index == IF Commits(e) THEN stmt.content ELSE None
    IN /\ stmt.phase = "record" /\ Turn(e)
       /\ disk' = [disk EXCEPT ![e].rows = Append(@, Outcome(stmt.cmd, stmt.type, stmt.status, index)),
                               ![e].content = IF Commits(e) THEN stmt.content ELSE @]
       /\ stmt' = [stmt EXCEPT !.todo = @ \ {e}]
       /\ UNCHANGED <<client, issued>>

\* The targets whose intent is still without an outcome.
StillPending(targets) ==
    {e \in ToSet(targets) : \E r \in Open(disk[e].rows) : r.cmd = stmt.cmd}

UnwindingGood(status) ==
    [stmt EXCEPT !.phase = "unwind", !.status = status, !.todo = StillPending(stmt.targets)]
Unwinding(status) ==
    [stmt EXCEPT !.phase = "unwind", !.good = FALSE, !.status = status,
                 !.todo = StillPending(stmt.targets)]

RecordRaises(e) ==
    /\ stmt.phase = "record" /\ Turn(e)
    /\ IF Commits(e) THEN "commit" \in Faults ELSE "append" \in Faults
    /\ stmt' = Unwinding("error") /\ UNCHANGED <<disk, client, issued>>

\* Ctrl-C outside a child: before the outcomes, or among them.
Interrupt ==
    /\ \/ "interrupt" \in Faults /\ stmt.phase = "run"
       \/ "late interrupt" \in Faults /\ stmt.phase = "record"
    /\ stmt' = Unwinding("interrupted") /\ UNCHANGED <<disk, client, issued>>

\* The failure path gives up at the first append that fails again.
Unwind(e) ==
    /\ stmt.phase = "unwind" /\ Turn(e)
    /\ \/ /\ disk' = [disk EXCEPT ![e].rows =
                          Append(@, Outcome(stmt.cmd, stmt.type, stmt.status, None))]
          /\ stmt' = [stmt EXCEPT !.todo = @ \ {e}]
       \/ "append" \in Faults /\ stmt' = [stmt EXCEPT !.todo = {}] /\ UNCHANGED disk
    /\ UNCHANGED <<client, issued>>

Recorded == stmt.phase \in {"record", "unwind"} /\ stmt.todo = {}

\* The session adopts the copy, other experiments are closed, jobs start.
Adopt ==
    /\ Recorded /\ stmt.good
    /\ client' = [content |-> stmt.content, store |-> stmt.dest, held |-> {stmt.dest} \ {None},
                  jobs |-> client.jobs \cup stmt.jobs]
    /\ stmt' = Idle /\ UNCHANGED <<disk, issued>>

\* Nothing is adopted; the experiments only the statement opened are closed.
Discard ==
    /\ Recorded /\ ~stmt.good
    /\ client' = [client EXCEPT !.held = {client.store} \ {None}]
    /\ stmt' = Idle /\ UNCHANGED <<disk, issued>>

Crash ==
    /\ "crash" \in Faults /\ client' = Fresh /\ stmt' = Idle /\ UNCHANGED <<disk, issued>>

Next ==
    \/ \E type \in Kinds : Begin(type)
    \/ Change \/ JobAction \/ WorkDone \/ Fails \/ Close
    \/ \E e \in Experiment : Initialize(e) \/ OpenExperiment(e) \/ Fork(e)
    \/ \E e \in Experiment, target \in 1..issued : Replay(e, target)
    \/ \E e \in Experiment : Record(e) \/ RecordRaises(e) \/ Unwind(e)
    \/ Interrupt \/ Adopt \/ Discard \/ Crash

RecorderSpec == Init /\ [][Next]_rvars

---------------------------------------------------------------------------
\* Between statements the adopted session is the committed state of the open
\* experiment, whatever failed: neither side is ahead (HISTORY.md:71); and the
\* process holds the lease of that experiment and no other, so a fork or an
\* initialisation that failed leaves the new one free.
SessionIsCommitted ==
    stmt = Idle =>
        /\ client.store # None => client.content = disk[client.store].content
        /\ client.held = {client.store} \ {None}

\* The strict reader (journal.py:37) can read every journal back: intents never
\* overlap and each has at most one outcome, however many appends failed and
\* processes died.
JournalReadable ==
    \A e \in Experiment : LET rows == disk[e].rows IN
        \A i \in DOMAIN rows :
            LET open == Open(SubSeq(rows, 1, i - 1))
            IN /\ rows[i].kind = "baseline" => i = 1
               /\ rows[i].kind = "submitted" => i > 1 /\ open = {}
               /\ rows[i].kind = "outcome" => \E r \in open : r.cmd = rows[i].cmd

\* A job action took effect only if every journal that holds the intent of its
\* statement also holds a successful outcome (JOBS.md:178).
JobsFollowOutcome ==
    \A cmd \in client.jobs, e \in Experiment :
        (\E r \in ToSet(disk[e].rows) : r.kind = "submitted" /\ r.cmd = cmd) =>
            \E r \in ToSet(disk[e].rows) : r.kind = "outcome" /\ r.cmd = cmd /\ r.status = "ok"

\* A replay by text is offered only if its commands rebuild the selected state
\* (HISTORY.md:94).
PlansRebuild ==
    \A e \in Experiment : \A target \in Targets(e) :
        EmptyBaseline(e) => ToSet(Selected(e, target)) \subseteq ToSet(Steps(e, target))
=============================================================================
