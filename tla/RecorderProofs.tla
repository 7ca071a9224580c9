-------------------------- MODULE RecorderProofs --------------------------
(***************************************************************************)
(* A statement happens entirely or not at all: for every set of            *)
(* experiments, any number of commands and any choice of append and commit *)
(* failures, interrupts and crashes, the session between two statements is *)
(* the committed state of its experiment, every journal can be read back,  *)
(* and job actions only follow outcomes that were recorded.                *)
(***************************************************************************)
EXTENDS Recorder, FiniteSetTheorems, TLAPS

\* No experiment is mistaken for the absence of one.
Sound == None \notin Experiment
\* Ctrl-C comes before the outcomes, not among them.
InterruptsEarly == "late interrupt" \notin Faults

Content == Seq(Nat)
Row == [kind : {"baseline", "submitted", "outcome"}, cmd : Nat, type : Kinds \cup {None},
        status : {"ok", "error", "interrupted", None}, index : Content \cup {None}]
Journal == Seq(Row)
Place == Experiment \cup {None}
Statement == [phase : {"run", "record", "unwind"}, cmd : Nat, type : Kinds, content : Content,
             dest : Place, targets : Seq(Experiment), jobs : SUBSET Nat, good : BOOLEAN,
             status : {"ok", "error", "interrupted"}, todo : SUBSET Experiment]

TypeOK ==
  /\ disk \in [Experiment -> [exists : BOOLEAN, content : Content, rows : Journal]]
  /\ client \in [content : Content, store : Place, held : SUBSET Experiment, jobs : SUBSET Nat]
  /\ stmt = Idle \/ stmt \in Statement
  /\ issued \in Nat

Busy == stmt.phase # "idle"

\* What the strict reader accepts.
Readable(rows) ==
  \A i \in DOMAIN rows :
    LET open == Open(SubSeq(rows, 1, i - 1))
    IN /\ rows[i].kind = "baseline" => i = 1
       /\ rows[i].kind = "submitted" => i > 1 /\ open = {}
       /\ rows[i].kind = "outcome" => \E r \in open : r.cmd = rows[i].cmd

\* The intent of a command, and its outcome once it has one.
Intended(rows, cmd) == \E i \in DOMAIN rows : rows[i].kind = "submitted" /\ rows[i].cmd = cmd
Ended(rows, cmd) == \E i \in DOMAIN rows : rows[i].kind = "outcome" /\ rows[i].cmd = cmd
Succeeded(rows, cmd) ==
  \E i \in DOMAIN rows : rows[i].kind = "outcome" /\ rows[i].cmd = cmd /\ rows[i].status = "ok"
\* A command whose intent waits for its outcome.
Waiting(rows, cmd) == Intended(rows, cmd) /\ ~Ended(rows, cmd)

\* Journals are readable, know issued commands only, and exist when they have rows.
JournalInv ==
  \A e \in Experiment :
    /\ Readable(disk[e].rows)
    /\ \A i \in DOMAIN disk[e].rows : disk[e].rows[i].cmd <= issued
    /\ ~disk[e].exists => disk[e].rows = <<>>

\* What took effect did so behind a recorded success, and belongs to earlier commands.
JobsInv ==
  /\ \A cmd \in client.jobs :
       /\ cmd <= issued /\ (Busy => cmd < issued)
       /\ \A e \in Experiment : Intended(disk[e].rows, cmd) => Succeeded(disk[e].rows, cmd)
  /\ Busy => stmt.jobs \subseteq {issued}

\* The statement holds an intent in exactly the journals it attached, and each of them
\* waits for its outcome until it was given one.
Attachments == ToSet(stmt.targets)
TargetsInv ==
  Busy =>
    /\ stmt.cmd = issued /\ stmt.todo \subseteq Attachments
    /\ \A e \in Experiment :
         /\ e \notin Attachments => ~Intended(disk[e].rows, stmt.cmd)
         /\ e \in Attachments => disk[e].exists /\ disk[e].rows # <<>> /\ Intended(disk[e].rows, stmt.cmd)
         /\ e \in Attachments /\ (stmt.phase = "run" \/ e \in stmt.todo) => ~Ended(disk[e].rows, stmt.cmd)
         /\ e \in Attachments /\ stmt.good /\ e \notin stmt.todo /\ stmt.phase = "record" =>
              Succeeded(disk[e].rows, stmt.cmd)
    /\ client.store # None => client.store \in Attachments
    /\ stmt.phase = "run" => /\ stmt.dest = client.store
                             /\ Attachments = {client.store} \ {None}
    /\ stmt.good => /\ stmt.status = "ok" /\ stmt.phase # "unwind"
                    /\ stmt.dest # None => stmt.dest \in Attachments
                    /\ stmt.dest # None /\ stmt.dest = client.store => Attachments = {stmt.dest}
    /\ stmt.phase = "run" => stmt.good

\* The outcome of the open experiment, which is the commit, has been written: from here
\* on the statement can only be adopted.
Committed ==
  /\ Busy /\ stmt.good /\ stmt.phase = "record"
  /\ stmt.dest # None /\ stmt.dest \notin stmt.todo

\* The session is the committed state of its experiment until its own statement commits, and
\* then the copy is.  Only Ctrl-C among the outcomes, after the commit, takes the first away.
ContentInv ==
  /\ client.store # None => disk[client.store].rows # <<>> /\ disk[client.store].exists
  /\ InterruptsEarly /\ client.store # None /\ ~(Committed /\ stmt.dest = client.store) =>
       disk[client.store].content = client.content
  /\ Committed => disk[stmt.dest].content = stmt.content
  /\ stmt.phase \in {"idle", "run"} => client.held = {client.store} \ {None}

RecorderInd == TypeOK /\ JournalInv /\ JobsInv /\ TargetsInv /\ ContentInv

\* A member of a sequence of rows is one of its rows.
LEMMA Members == ASSUME NEW rows, NEW r PROVE r \in ToSet(rows) <=> \E i \in DOMAIN rows : rows[i] = r
BY DEF ToSet

\* What is open in a journal: its intents without an outcome.
LEMMA OpenRows ==
  ASSUME NEW rows \in Journal, NEW r
  PROVE  r \in Open(rows) <=>
           /\ \E i \in DOMAIN rows : rows[i] = r
           /\ r.kind = "submitted"
           /\ ~Ended(rows, r.cmd)
BY DEF Open, ToSet, Ended

\* A command waits if and only if an open intent is its own.
LEMMA OpenWaiting ==
  ASSUME NEW rows \in Journal, NEW cmd
  PROVE  Waiting(rows, cmd) <=> \E r \in Open(rows) : r.cmd = cmd
<1>1. ASSUME Waiting(rows, cmd) PROVE \E r \in Open(rows) : r.cmd = cmd
  <2>1. PICK i \in DOMAIN rows : rows[i].kind = "submitted" /\ rows[i].cmd = cmd
    BY <1>1 DEF Waiting, Intended
  <2>2. rows[i] \in Open(rows)
    BY <1>1, <2>1, OpenRows DEF Waiting
  <2> QED
    BY <2>1, <2>2
<1>2. ASSUME NEW r \in Open(rows), r.cmd = cmd PROVE Waiting(rows, cmd)
  BY <1>2, OpenRows DEF Waiting, Intended
<1> QED
  BY <1>1, <1>2

\* A readable journal has at most one open intent.
LEMMA OneOpen ==
  ASSUME NEW rows \in Journal, Readable(rows), NEW q \in Open(rows), NEW r \in Open(rows)
  PROVE  q = r
<1>1. PICK i \in DOMAIN rows : rows[i] = q
  BY OpenRows
<1>2. PICK k \in DOMAIN rows : rows[k] = r
  BY OpenRows
<1>3. ASSUME NEW a \in DOMAIN rows, NEW b \in DOMAIN rows, a < b,
             rows[a] \in Open(rows), rows[b] \in Open(rows)
      PROVE  FALSE
  <2>1. PICK part : part = SubSeq(rows, 1, b - 1)
    OBVIOUS
  <2>2. part \in Journal /\ a \in DOMAIN part /\ part[a] = rows[a]
        /\ \A n \in DOMAIN part : n \in DOMAIN rows /\ part[n] = rows[n]
    BY <1>3, <2>1 DEF Journal
  <2>3. ~Ended(part, rows[a].cmd)
    BY <1>3, <2>2, OpenRows DEF Ended
  <2>4. rows[a] \in Open(part)
    BY <1>3, <2>2, <2>3, OpenRows
  <2>5. rows[b].kind = "submitted"
    BY <1>3, OpenRows
  <2> QED
    BY <2>1, <2>4, <2>5 DEF Readable
<1>4. i \in Nat /\ k \in Nat
  BY DEF Journal
<1> QED
  BY <1>1, <1>2, <1>3, <1>4

\* Appending a row keeps a journal readable if the row may follow it.
LEMMA AppendReadable ==
  ASSUME NEW rows \in Journal, Readable(rows), NEW r \in Row,
         r.kind = "baseline" => rows = <<>>,
         r.kind = "submitted" => rows # <<>> /\ Open(rows) = {},
         r.kind = "outcome" => Waiting(rows, r.cmd)
  PROVE  Append(rows, r) \in Journal /\ Readable(Append(rows, r))
<1>1. PICK more : more = Append(rows, r)
  OBVIOUS
<1>2. /\ more \in Journal /\ DOMAIN more = 1 .. Len(rows) + 1 /\ DOMAIN rows = 1 .. Len(rows)
      /\ Len(rows) \in Nat
      /\ \A i \in DOMAIN rows : more[i] = rows[i] /\ SubSeq(more, 1, i - 1) = SubSeq(rows, 1, i - 1)
      /\ more[Len(rows) + 1] = r /\ SubSeq(more, 1, Len(rows)) = rows
  BY <1>1 DEF Journal
<1>3. ASSUME NEW i \in DOMAIN more
      PROVE  LET open == Open(SubSeq(more, 1, i - 1))
             IN /\ more[i].kind = "baseline" => i = 1
                /\ more[i].kind = "submitted" => i > 1 /\ open = {}
                /\ more[i].kind = "outcome" => \E q \in open : q.cmd = more[i].cmd
  <2>1. CASE i \in DOMAIN rows
    BY <1>2, <2>1 DEF Readable
  <2>2. CASE i = Len(rows) + 1
    <3>1. SubSeq(more, 1, i - 1) = rows /\ more[i] = r
      BY <1>2, <2>2
    <3>2. rows # <<>> => i > 1
      BY <1>2, <2>2 DEF Journal
    <3>3. rows = <<>> => i = 1
      BY <2>2
    <3> QED
      BY <3>1, <3>2, <3>3, OpenWaiting
  <2> QED
    BY <1>2, <2>1, <2>2
<1> QED
  BY <1>1, <1>2, <1>3 DEF Readable

\* All commands of a journal are among the first n.
Within(rows, n) == \A i \in DOMAIN rows : rows[i].cmd <= n

\* What a row adds to what a journal says of a command.
LEMMA AppendSays ==
  ASSUME NEW rows \in Journal, NEW r \in Row, NEW cmd, NEW n \in Nat
  PROVE  LET more == Append(rows, r) IN
         /\ more # <<>>
         /\ Intended(more, cmd) <=> Intended(rows, cmd) \/ (r.kind = "submitted" /\ r.cmd = cmd)
         /\ Ended(more, cmd) <=> Ended(rows, cmd) \/ (r.kind = "outcome" /\ r.cmd = cmd)
         /\ Succeeded(more, cmd) <=>
              Succeeded(rows, cmd) \/ (r.kind = "outcome" /\ r.cmd = cmd /\ r.status = "ok")
         /\ Within(more, n) <=> Within(rows, n) /\ r.cmd <= n
<1>1. PICK more : more = Append(rows, r)
  OBVIOUS
<1>2. /\ DOMAIN more = DOMAIN rows \cup {Len(rows) + 1}
      /\ \A i \in DOMAIN rows : more[i] = rows[i]
      /\ more[Len(rows) + 1] = r
  BY <1>1 DEF Journal
<1>3. more # <<>>
  BY <1>1 DEF Journal
<1>4. Intended(more, cmd) <=> Intended(rows, cmd) \/ (r.kind = "submitted" /\ r.cmd = cmd)
  BY <1>2 DEF Intended
<1>5. Ended(more, cmd) <=> Ended(rows, cmd) \/ (r.kind = "outcome" /\ r.cmd = cmd)
  BY <1>2 DEF Ended
<1>6. Succeeded(more, cmd) <=>
        Succeeded(rows, cmd) \/ (r.kind = "outcome" /\ r.cmd = cmd /\ r.status = "ok")
  BY <1>2 DEF Succeeded
<1>7. Within(more, n) <=> Within(rows, n) /\ r.cmd <= n
  BY <1>2 DEF Within
<1> QED
  BY <1>1, <1>3, <1>4, <1>5, <1>6, <1>7

\* The rows the program writes.
LEMMA Rows ==
  ASSUME NEW cmd \in Nat, NEW type \in Kinds, NEW status \in {"ok", "error", "interrupted"},
         NEW index \in Content \cup {None}, NEW content \in Content
  PROVE  /\ Submitted(cmd, type) \in Row /\ Outcome(cmd, type, status, index) \in Row
         /\ Baseline(content) \in Row
         /\ Submitted(cmd, type).kind = "submitted" /\ Submitted(cmd, type).cmd = cmd
         /\ Outcome(cmd, type, status, index).kind = "outcome"
         /\ Outcome(cmd, type, status, index).cmd = cmd
         /\ Outcome(cmd, type, status, index).status = status
         /\ Baseline(content).kind = "baseline" /\ Baseline(content).cmd = 0
         /\ Baseline(content).index = content
BY DEF Submitted, Outcome, Baseline, Row

\* A recovered journal says the same, with no intent left open.
Continues(rows, more) ==
  /\ more \in Journal /\ Readable(more)
  /\ rows # <<>> => more # <<>>
  /\ \A cmd : /\ Intended(more, cmd) <=> Intended(rows, cmd)
              /\ Succeeded(rows, cmd) => Succeeded(more, cmd)
  /\ \A n \in Nat : Within(rows, n) => Within(more, n)

\* The sequence of a set with at most one element.
LEMMA ShortSequence ==
  /\ SetToSeq({}) = <<>>
  /\ \A r : SetToSeq({r}) = <<r>>
<1>1. Cardinality({}) = 0 /\ 1 .. 0 = {}
  BY FS_EmptySet
<1>2. ASSUME NEW S, S = {} PROVE SetToSeq(S) = <<>>
  <2>1. 1 .. Cardinality(S) = {}
    BY <1>1, <1>2
  <2>2. SetToSeq(S) = CHOOSE f \in [1 .. Cardinality(S) -> S] : IsInjective(f)
    BY DEF SetToSeq
  <2>3. ASSUME NEW f \in [{} -> S] PROVE f = <<>>
    OBVIOUS
  <2>4. <<>> \in [{} -> S]
    OBVIOUS
  <2>5. \A f : f \in [1 .. Cardinality(S) -> S] <=> f = <<>>
    BY <2>1, <2>3, <2>4
  <2>6. IsInjective(<<>>)
    BY DEF IsInjective
  <2> QED
    BY <2>2, <2>5, <2>6
<1>3. ASSUME NEW r PROVE SetToSeq({r}) = <<r>>
  <2>1. Cardinality({r}) = 1 /\ 1 .. 1 = {1}
    BY FS_Singleton
  <2>2. SetToSeq({r}) = CHOOSE f \in [{1} -> {r}] : IsInjective(f)
    BY <2>1 DEF SetToSeq
  <2>3. \A f : f \in [{1} -> {r}] <=> f = [i \in {1} |-> r]
    OBVIOUS
  <2>4. [i \in {1} |-> r] = <<r>>
    OBVIOUS
  <2>5. IsInjective(<<r>>)
    BY DEF IsInjective
  <2> QED
    BY <2>2, <2>3, <2>4, <2>5
<1> QED
  BY <1>2, <1>3

\* Recovery gives the intent a dead process left behind its outcome.
LEMMA Recovery ==
  ASSUME NEW rows \in Journal, Readable(rows)
  PROVE  Continues(rows, Recovered(rows)) /\ Open(Recovered(rows)) = {}
<1>1. CASE Open(rows) = {}
  <2>1. {Outcome(r.cmd, r.type, "interrupted", None) : r \in Open(rows)} = {}
    BY <1>1
  <2>2. rows \o <<>> = rows
    BY DEF Journal
  <2>3. Recovered(rows) = rows
    BY <2>1, <2>2, ShortSequence DEF Recovered
  <2> QED
    BY <1>1, <2>3 DEF Continues
<1>2. CASE Open(rows) # {}
  <2>1. PICK q \in Open(rows) : Open(rows) = {q}
    BY <1>2, OneOpen
  <2>2. PICK r : r = Outcome(q.cmd, q.type, "interrupted", None)
    OBVIOUS
  <2>3. q \in Row /\ q.kind = "submitted" /\ Waiting(rows, q.cmd)
    BY OpenRows, OpenWaiting DEF Journal
  <2>4. r \in Row /\ r.kind = "outcome" /\ r.cmd = q.cmd /\ r.status = "interrupted"
    BY <2>2, <2>3 DEF Outcome, Row
  <2>5. {Outcome(p.cmd, p.type, "interrupted", None) : p \in Open(rows)} = {r}
    BY <2>1, <2>2
  <2>6. rows \o <<r>> = Append(rows, r)
    BY <2>4 DEF Journal
  <2>7. PICK more : more = Append(rows, r)
    OBVIOUS
  <2>8. Recovered(rows) = more
    BY <2>5, <2>6, <2>7, ShortSequence DEF Recovered
  <2>9. more \in Journal /\ Readable(more)
    BY <2>3, <2>4, <2>7, AppendReadable
  <2>10. \A cmd : /\ Intended(more, cmd) <=> Intended(rows, cmd)
                  /\ Ended(more, cmd) <=> Ended(rows, cmd) \/ cmd = q.cmd
                  /\ Succeeded(rows, cmd) => Succeeded(more, cmd)
    BY <2>4, <2>7, AppendSays
  <2>11. ASSUME NEW n \in Nat, Within(rows, n) PROVE Within(more, n)
    <3>1. q.cmd <= n
      BY <2>11, OpenRows DEF Within
    <3> QED
      BY <2>4, <2>7, <2>11, <3>1, AppendSays
  <2>12. more # <<>>
    BY <2>4, <2>7, AppendSays
  <2>13. ASSUME NEW p \in Open(more) PROVE FALSE
    <3>1. Waiting(more, p.cmd)
      BY <2>9, OpenWaiting
    <3>2. Waiting(rows, p.cmd) /\ p.cmd # q.cmd
      BY <2>10, <3>1 DEF Waiting
    <3> QED
      BY <2>1, <3>2, OpenWaiting
  <2> QED
    BY <2>8, <2>9, <2>10, <2>11, <2>12, <2>13 DEF Continues
<1> QED
  BY <1>1, <1>2

\* What an attached journal leaves of the other experiments.
LEMMA AttachedIs ==
  ASSUME TypeOK, NEW e \in Experiment, NEW rows \in Journal
  PROVE  /\ Attached(e, rows) \in [Experiment -> [exists : BOOLEAN, content : Content, rows : Journal]]
         /\ Attached(e, rows)[e] = [exists |-> TRUE, content |-> disk[e].content, rows |-> rows]
         /\ \A x \in Experiment \ {e} : Attached(e, rows)[x] = disk[x]
BY DEF Attached, TypeOK

\* A replay starts from an index the journal has committed, or from nothing.
LEMMA SelectedType ==
  ASSUME TypeOK, NEW e \in Experiment, NEW target \in Targets(e)
  PROVE  Selected(e, target) \in Content
<1>1. disk[e].rows \in Journal
  BY DEF TypeOK
<1>2. PICK n : n = CHOOSE i \in DOMAIN disk[e].rows :
                   disk[e].rows[i].kind = "outcome" /\ disk[e].rows[i].cmd = target
  OBVIOUS
<1>3. n \in DOMAIN disk[e].rows
  BY <1>2 DEF Targets, ToSet
<1>4. PICK rows : rows = UpTo(disk[e].rows, target)
  OBVIOUS
<1>5. rows \in Journal
  <2>1. rows = SubSeq(disk[e].rows, 1, n)
    BY <1>2, <1>4, Zenon DEF UpTo
  <2> QED
    BY <1>1, <1>3, <2>1 DEF Journal
<1>6. PICK latest : latest = {i \in DOMAIN rows :
                                /\ rows[i].index # None
                                /\ \A k \in DOMAIN rows : k > i => rows[k].index = None}
  OBVIOUS
<1>7. Selected(e, target) = IF latest = {} THEN <<>> ELSE rows[CHOOSE i \in latest : TRUE].index
  BY <1>4, <1>6 DEF Selected
<1>8. CASE latest = {}
  BY <1>7, <1>8 DEF Content
<1>9. CASE latest # {}
  <2>1. PICK i : i = CHOOSE k \in latest : TRUE
    OBVIOUS
  <2>2. i \in DOMAIN rows /\ rows[i].index # None
    BY <1>6, <1>9, <2>1
  <2>3. rows[i] \in Row
    BY <1>5, <2>2 DEF Journal
  <2> QED
    BY <1>7, <1>9, <2>1, <2>2, <2>3 DEF Row
<1> QED
  BY <1>8, <1>9

\* Starting to record is writing outcomes for the targets.
LEMMA ConcludingType ==
  ASSUME NEW s \in Statement
  PROVE  /\ Concluding(s) \in Statement
         /\ Concluding(s) = [s EXCEPT !.phase = "record", !.todo = ToSet(s.targets)]
<1>1. ToSet(s.targets) \in SUBSET Experiment
  BY DEF Statement, ToSet
<1> QED
  BY <1>1 DEF Concluding, Statement

\* The targets that wait are among the targets.
LEMMA UnwindingType ==
  ASSUME TypeOK, Busy, NEW status \in {"error", "interrupted"}
  PROVE  Unwinding(status) \in Statement
<1>1. stmt \in Statement
  BY DEF TypeOK, Busy, Idle
<1>2. StillPending(stmt.targets) \subseteq Experiment
  BY <1>1 DEF StillPending, ToSet, Statement
<1> QED
  BY <1>1, <1>2 DEF Unwinding, Statement

\* A statement starts with what the session holds.
LEMMA StartedType ==
  ASSUME TypeOK, NEW type \in Kinds, NEW targets \in Seq(Experiment)
  PROVE  Started(type, targets) \in Statement
BY DEF Started, TypeOK, Statement

\* Beginning a statement keeps the state well typed.
LEMMA TypeBegin ==
  ASSUME TypeOK, JournalInv, NEW type \in Kinds, Begin(type), Sound
  PROVE  TypeOK'
<1>1. issued' \in Nat /\ issued' = issued + 1
  BY DEF Begin, TypeOK
<1>2. CASE client.store = None
  <2>1. stmt' = Started(type, <<>>) /\ disk' = disk /\ client' = client
    BY <1>2 DEF Begin
  <2>2. <<>> \in Seq(Experiment)
    OBVIOUS
  <2> QED
    BY <1>1, <2>1, <2>2, StartedType DEF TypeOK
<1>3. CASE client.store # None
  <2>1. PICK e \in Experiment : e = client.store
    BY <1>3 DEF TypeOK, Place
  <2>2. PICK rows : rows = Recovered(disk[e].rows)
    OBVIOUS
  <2>3. rows \in Journal
    BY <2>2, Recovery DEF TypeOK, JournalInv, Continues
  <2>4. Append(rows, Submitted(issued + 1, type)) \in Journal
    <3>1. Submitted(issued + 1, type) \in Row
      BY <1>1 DEF Submitted, Row
    <3> QED
      BY <2>3, <3>1 DEF Journal
  <2>5. <<e>> \in Seq(Experiment)
    OBVIOUS
  <2>6. /\ \/ disk' = disk
           \/ disk' = Attached(e, rows)
           \/ disk' = Attached(e, Append(rows, Submitted(issued + 1, type)))
        /\ stmt' \in {stmt, Started(type, <<e>>)} /\ client' = client
    BY <1>3, <2>1, <2>2 DEF Begin
  <2>7. disk' \in [Experiment -> [exists : BOOLEAN, content : Content, rows : Journal]]
    <3>1. CASE disk' = disk
      BY <3>1 DEF TypeOK
    <3>2. CASE disk' = Attached(e, rows)
      BY <2>3, <3>2, AttachedIs
    <3>3. CASE disk' = Attached(e, Append(rows, Submitted(issued + 1, type)))
      BY <2>4, <3>3, AttachedIs
    <3> QED
      BY <2>6, <3>1, <3>2, <3>3
  <2> QED
    BY <1>1, <2>5, <2>6, <2>7, StartedType DEF TypeOK
<1> QED
  BY <1>2, <1>3

-----------------------------------------------------------------------------
(* Steps that leave the disk alone.                                         *)

\* Without a change on disk, of the numbering and of the jobs in effect, journals and jobs
\* stay as good as they are.
LEMMA QuietDisk ==
  ASSUME RecorderInd, disk' = disk, issued' = issued,
         client'.jobs = client.jobs, Busy' <=> Busy,
         Busy => stmt'.jobs \subseteq {issued}
  PROVE  JournalInv' /\ JobsInv'
<1>1. JournalInv'
  BY DEF RecorderInd, JournalInv
<1>2. JobsInv'
  BY DEF RecorderInd, JobsInv
<1> QED
  BY <1>1, <1>2

\* A statement in progress is a record with a phase of its own.
LEMMA BusyStatement ==
  ASSUME TypeOK, stmt.phase \in {"run", "record", "unwind"}
  PROVE  Busy /\ stmt \in Statement
BY DEF TypeOK, Busy, Idle

\* Working on the copy keeps the invariant.
LEMMA WorkKeeps ==
  ASSUME RecorderInd, Change \/ JobAction
  PROVE  RecorderInd'
<1>1. Busy /\ stmt \in Statement /\ stmt.phase = "run" /\ stmt.cmd = issued
  BY BusyStatement DEF RecorderInd, Change, JobAction, Running, TargetsInv
<1>2. /\ disk' = disk /\ client' = client /\ issued' = issued
      /\ stmt' \in Statement
      /\ \/ stmt' = [stmt EXCEPT !.content = Append(@, stmt.cmd)]
         \/ stmt' = [stmt EXCEPT !.jobs = {stmt.cmd}]
  <2>1. CASE Change
    <3>1. Append(stmt.content, stmt.cmd) \in Content
      BY <1>1 DEF Statement, Content
    <3> QED
      BY <1>1, <2>1, <3>1 DEF Change, Statement
  <2>2. CASE JobAction
    BY <1>1, <2>2 DEF JobAction, Statement
  <2> QED
    BY <2>1, <2>2
<1>3. /\ stmt'.phase = "run" /\ stmt'.cmd = stmt.cmd /\ stmt'.targets = stmt.targets
      /\ stmt'.dest = stmt.dest /\ stmt'.good = stmt.good /\ stmt'.status = stmt.status
      /\ stmt'.todo = stmt.todo
      /\ stmt'.jobs = stmt.jobs \/ stmt'.jobs = {issued}
  BY <1>1, <1>2 DEF Statement
<1>4. TypeOK'
  BY <1>2 DEF RecorderInd, TypeOK
<1>5. JournalInv' /\ JobsInv'
  <2>1. Busy' <=> Busy
    BY <1>1, <1>3 DEF Busy
  <2>2. stmt'.jobs \subseteq {issued}
    BY <1>1, <1>3 DEF RecorderInd, JobsInv
  <2> QED
    BY <1>2, <2>1, <2>2, QuietDisk
<1>6. TargetsInv'
  BY <1>1, <1>2, <1>3 DEF RecorderInd, TargetsInv, Busy, Attachments
<1>7. ContentInv'
  BY <1>1, <1>2, <1>3 DEF RecorderInd, ContentInv, Committed
<1> QED
  BY <1>4, <1>5, <1>6, <1>7 DEF RecorderInd

\* A statement whose work is over or has failed turns to its outcomes, all of them still to
\* be written.
LEMMA ConcludeKeeps ==
  ASSUME RecorderInd, WorkDone \/ Fails \/ Close
  PROVE  RecorderInd'
<1>1. Busy /\ stmt \in Statement /\ stmt.phase = "run" /\ stmt.cmd = issued
  BY BusyStatement DEF RecorderInd, WorkDone, Fails, Close, Running, TargetsInv
<1>2. PICK s \in Statement :
        /\ stmt' = Concluding(s) /\ disk' = disk /\ client' = client /\ issued' = issued
        /\ s.cmd = stmt.cmd /\ s.targets = stmt.targets /\ s.jobs = stmt.jobs
        /\ s.dest = stmt.dest \/ s.dest = None
        /\ (s.good = stmt.good /\ s.status = stmt.status) \/ ~s.good
  <2>1. CASE WorkDone
    BY <1>1, <2>1 DEF WorkDone
  <2>2. CASE Fails
    <3>1. PICK status \in {"error", "interrupted"} :
            stmt' = Concluding([stmt EXCEPT !.good = FALSE, !.status = status])
      BY <2>2 DEF Fails
    <3>2. [stmt EXCEPT !.good = FALSE, !.status = status] \in Statement
      BY <1>1 DEF Statement
    <3>3. PICK s \in Statement : s = [stmt EXCEPT !.good = FALSE, !.status = status]
      BY <3>2
    <3>4. /\ s.cmd = stmt.cmd /\ s.targets = stmt.targets /\ s.jobs = stmt.jobs
          /\ s.dest = stmt.dest /\ ~s.good
      BY <1>1, <3>3 DEF Statement
    <3> QED
      BY <2>2, <3>1, <3>3, <3>4 DEF Fails
  <2>3. CASE Close
    <3>1. <<>> \in Content /\ None \in Place
      BY DEF Content, Place
    <3>2. [stmt EXCEPT !.dest = None, !.content = <<>>] \in Statement
      BY <1>1, <3>1 DEF Statement
    <3>3. PICK s \in Statement : s = [stmt EXCEPT !.dest = None, !.content = <<>>]
      BY <3>2
    <3>4. /\ s.cmd = stmt.cmd /\ s.targets = stmt.targets /\ s.jobs = stmt.jobs
          /\ s.dest = None /\ s.good = stmt.good /\ s.status = stmt.status
      BY <1>1, <3>3 DEF Statement
    <3> QED
      BY <2>3, <3>3, <3>4 DEF Close
  <2> QED
    BY <2>1, <2>2, <2>3
<1>3. /\ stmt' \in Statement /\ stmt'.phase = "record" /\ stmt'.todo = Attachments
      /\ stmt'.cmd = stmt.cmd /\ stmt'.targets = stmt.targets /\ stmt'.jobs = stmt.jobs
      /\ stmt'.dest = s.dest /\ stmt'.good = s.good /\ stmt'.status = s.status
  <2>1. stmt' \in Statement /\ stmt' = [s EXCEPT !.phase = "record", !.todo = ToSet(s.targets)]
    BY <1>2, ConcludingType
  <2>2. ToSet(s.targets) = Attachments
    BY <1>2 DEF Attachments
  <2> QED
    BY <1>2, <2>1, <2>2 DEF Statement
<1>4. TypeOK'
  BY <1>2, <1>3 DEF RecorderInd, TypeOK
<1>5. JournalInv' /\ JobsInv'
  <2>1. (Busy' <=> Busy) /\ stmt'.jobs \subseteq {issued}
    BY <1>1, <1>3 DEF Busy, RecorderInd, JobsInv
  <2> QED
    BY <1>2, <2>1, QuietDisk
<1>6. TargetsInv'
  BY <1>1, <1>2, <1>3 DEF RecorderInd, TargetsInv, Busy, Attachments
<1>7. ContentInv'
  <2>1. ~Committed /\ ~Committed'
    BY <1>1, <1>2, <1>3 DEF Committed, RecorderInd, TargetsInv
  <2> QED
    BY <1>2, <1>3, <2>1 DEF RecorderInd, ContentInv
<1> QED
  BY <1>4, <1>5, <1>6, <1>7 DEF RecorderInd

\* A refused outcome or an interrupt turns to the failure path, whose targets are the ones that
\* still wait; after the session's own commit there is no outcome left to refuse, and only a
\* late interrupt takes the statement there.
LEMMA UnwindingKeeps ==
  ASSUME RecorderInd, Interrupt \/ \E e \in Experiment : RecordRaises(e)
  PROVE  RecorderInd'
<1>1. /\ stmt.phase \in {"run", "record"}
      /\ InterruptsEarly => stmt.phase = "run" \/ stmt.todo # {}
      /\ disk' = disk /\ client' = client /\ issued' = issued
      /\ \E status \in {"error", "interrupted"} : stmt' = Unwinding(status)
  BY DEF Interrupt, RecordRaises, InterruptsEarly, Turn
<1>2. Busy /\ stmt \in Statement /\ stmt.cmd = issued
  BY <1>1, BusyStatement DEF RecorderInd, TargetsInv
<1>3. /\ stmt' \in Statement /\ stmt'.phase = "unwind" /\ stmt'.good = FALSE
      /\ stmt'.todo = StillPending(stmt.targets)
      /\ stmt'.cmd = stmt.cmd /\ stmt'.targets = stmt.targets /\ stmt'.jobs = stmt.jobs
  BY <1>1, <1>2, UnwindingType DEF RecorderInd, Unwinding, Statement
<1>4. TypeOK'
  BY <1>1, <1>3 DEF RecorderInd, TypeOK
<1>5. JournalInv' /\ JobsInv'
  <2>1. (Busy' <=> Busy) /\ stmt'.jobs \subseteq {issued}
    BY <1>2, <1>3 DEF Busy, RecorderInd, JobsInv
  <2> QED
    BY <1>1, <2>1, QuietDisk
<1>6. TargetsInv'
  <2>1. ASSUME NEW e \in Experiment, e \in stmt'.todo
        PROVE  e \in Attachments /\ ~Ended(disk[e].rows, stmt.cmd)
    <3>1. e \in Attachments /\ \E r \in Open(disk[e].rows) : r.cmd = stmt.cmd
      BY <1>3, <2>1 DEF StillPending, Attachments
    <3> QED
      BY <3>1, OpenWaiting DEF RecorderInd, TypeOK, Waiting
  <2>2. stmt'.todo \subseteq Attachments
    BY <1>3 DEF StillPending, Attachments
  <2>3. Attachments' = Attachments
    BY <1>3 DEF Attachments
  <2> QED
    BY <1>1, <1>2, <1>3, <2>1, <2>2, <2>3 DEF RecorderInd, TargetsInv, Busy
<1>7. ContentInv'
  <2>1. ~Committed' /\ (InterruptsEarly => ~(Committed /\ stmt.dest = client.store))
    BY <1>1, <1>2, <1>3 DEF Committed, RecorderInd, TargetsInv
  <2> QED
    BY <1>1, <1>3, <2>1 DEF RecorderInd, ContentInv
<1> QED
  BY <1>4, <1>5, <1>6, <1>7 DEF RecorderInd

\* The copy that is adopted is what its experiment committed, and the jobs that start
\* follow outcomes recorded in every journal the statement attached.
LEMMA AdoptKeeps ==
  ASSUME RecorderInd, Adopt
  PROVE  RecorderInd'
<1>1. Busy /\ stmt \in Statement /\ stmt.cmd = issued /\ stmt.phase = "record" /\ stmt.good
      /\ stmt.todo = {}
  BY BusyStatement DEF RecorderInd, Adopt, Recorded, TargetsInv
<1>2. /\ client' = [content |-> stmt.content, store |-> stmt.dest, held |-> {stmt.dest} \ {None},
                    jobs |-> client.jobs \cup stmt.jobs]
      /\ stmt' = Idle /\ disk' = disk /\ issued' = issued
  BY DEF Adopt
<1>3. stmt'.phase = "idle" /\ ~Busy'
  BY <1>2 DEF Busy, Idle
<1>4. TypeOK'
  BY <1>1, <1>2 DEF RecorderInd, TypeOK, Statement, Place
<1>5. JournalInv'
  BY <1>2 DEF RecorderInd, JournalInv
<1>6. JobsInv'
  <2>1. ASSUME NEW cmd \in client'.jobs
        PROVE  /\ cmd <= issued
               /\ \A e \in Experiment : Intended(disk[e].rows, cmd) => Succeeded(disk[e].rows, cmd)
    <3>1. CASE cmd \in client.jobs
      BY <3>1 DEF RecorderInd, JobsInv
    <3>2. CASE cmd \in stmt.jobs
      <4>1. cmd = issued /\ cmd = stmt.cmd /\ issued \in Nat
        BY <1>1, <3>2 DEF RecorderInd, JobsInv, TypeOK
      <4> QED
        BY <1>1, <4>1 DEF RecorderInd, TargetsInv
    <3> QED
      BY <1>2, <2>1, <3>1, <3>2
  <2> QED
    BY <1>2, <1>3, <2>1 DEF JobsInv
<1>7. TargetsInv'
  BY <1>3 DEF TargetsInv
<1>8. ContentInv'
  <2>1. ~Committed'
    BY <1>3 DEF Committed
  <2>2. client'.store = stmt.dest /\ client'.content = stmt.content
        /\ client'.held = {stmt.dest} \ {None}
    BY <1>2
  <2>3. stmt.dest # None =>
          Committed /\ stmt.dest \in Experiment /\ disk[stmt.dest].rows # <<>> /\ disk[stmt.dest].exists
    BY <1>1 DEF Committed, RecorderInd, TargetsInv, Statement, Place
  <2> QED
    BY <1>2, <2>1, <2>2, <2>3 DEF RecorderInd, ContentInv
<1> QED
  BY <1>4, <1>5, <1>6, <1>7, <1>8 DEF RecorderInd

\* What a failed statement leaves is what was there before, and a dead process leaves
\* nothing but the disk.
LEMMA DiscardKeeps ==
  ASSUME RecorderInd, Discard \/ Crash
  PROVE  RecorderInd'
<1>1. /\ stmt' = Idle /\ disk' = disk /\ issued' = issued
      /\ \/ client' = [client EXCEPT !.held = {client.store} \ {None}] /\ ~(Committed /\ stmt.dest = client.store)
         \/ client' = Fresh
  BY DEF Discard, Crash, Committed
<1>2. stmt'.phase = "idle" /\ ~Busy'
  BY <1>1 DEF Busy, Idle
<1>3. /\ client' \in [content : Content, store : Place, held : SUBSET Experiment, jobs : SUBSET Nat]
      /\ \/ /\ client'.store = client.store /\ client'.content = client.content
            /\ ~(Committed /\ stmt.dest = client.store)
         \/ client'.store = None
      /\ client'.jobs \subseteq client.jobs
      /\ client'.held = {client'.store} \ {None}
  <2>1. CASE client' = Fresh
    <3>1. <<>> \in Content
      BY DEF Content
    <3> QED
      BY <2>1, <3>1 DEF Fresh, Place
  <2>2. CASE client' # Fresh
    BY <1>1, <2>2 DEF RecorderInd, TypeOK, Place
  <2> QED
    BY <2>1, <2>2
<1>4. TypeOK'
  BY <1>1, <1>3 DEF RecorderInd, TypeOK
<1>5. JournalInv'
  BY <1>1 DEF RecorderInd, JournalInv
<1>6. JobsInv'
  BY <1>1, <1>2, <1>3 DEF RecorderInd, JobsInv
<1>7. TargetsInv'
  BY <1>2 DEF TargetsInv
<1>8. ContentInv'
  <2>1. ~Committed'
    BY <1>2 DEF Committed
  <2> QED
    BY <1>1, <1>3, <2>1 DEF RecorderInd, ContentInv
<1> QED
  BY <1>4, <1>5, <1>6, <1>7, <1>8 DEF RecorderInd

-----------------------------------------------------------------------------
(* Steps that write to one experiment.                                      *)

\* The journal of e becomes rows; no other experiment is touched.
Writes(e, rows) ==
  /\ rows \in Journal /\ Readable(rows)
  /\ disk'[e].rows = rows /\ disk'[e].exists
  /\ \A x \in Experiment \ {e} : disk'[x] = disk[x]

\* A readable journal of issued commands is as good as the one it replaces.
LEMMA WriteJournal ==
  ASSUME RecorderInd, NEW e \in Experiment, NEW rows, Writes(e, rows),
         Within(rows, issued'), issued' \in {issued, issued + 1}
  PROVE  JournalInv'
<1>1. ASSUME NEW x \in Experiment
      PROVE  /\ Readable(disk'[x].rows)
             /\ \A i \in DOMAIN disk'[x].rows : disk'[x].rows[i].cmd <= issued'
             /\ ~disk'[x].exists => disk'[x].rows = <<>>
  <2>1. CASE x = e
    BY <2>1 DEF Writes, Within
  <2>2. CASE x # e
    <3>1. disk'[x] = disk[x] /\ disk[x].rows \in Journal /\ issued \in Nat
      BY <2>2 DEF Writes, RecorderInd, TypeOK
    <3>2. \A i \in DOMAIN disk[x].rows : disk[x].rows[i].cmd <= issued /\ disk[x].rows[i].cmd \in Nat
      <4>1. \A i \in DOMAIN disk[x].rows : disk[x].rows[i] \in Row
        BY <3>1 DEF Journal
      <4> QED
        BY <4>1 DEF RecorderInd, JournalInv, Row
    <3> QED
      BY <3>1, <3>2 DEF RecorderInd, JournalInv
  <2> QED
    BY <2>1, <2>2
<1> QED
  BY <1>1 DEF JournalInv

\* Jobs in effect keep their recorded successes while a journal only continues.
LEMMA WriteJobs ==
  ASSUME RecorderInd, NEW e \in Experiment, NEW rows, Writes(e, rows),
         client'.jobs = client.jobs, issued' \in {issued, issued + 1},
         \A cmd \in client.jobs : /\ Intended(rows, cmd) => Intended(disk[e].rows, cmd)
                                  /\ Succeeded(disk[e].rows, cmd) => Succeeded(rows, cmd),
         Busy' => stmt'.jobs \subseteq {issued'} /\ (Busy \/ issued' = issued + 1)
  PROVE  JobsInv'
<1>0. issued \in Nat /\ client.jobs \in SUBSET Nat
  BY DEF RecorderInd, TypeOK
<1>1. ASSUME NEW cmd \in client.jobs, NEW x \in Experiment, Intended(disk'[x].rows, cmd)
      PROVE  Succeeded(disk'[x].rows, cmd)
  <2>1. CASE x = e
    BY <1>1, <2>1 DEF Writes, RecorderInd, JobsInv
  <2>2. CASE x # e
    BY <1>1, <2>2 DEF Writes, RecorderInd, JobsInv
  <2> QED
    BY <2>1, <2>2
<1>2. ASSUME NEW cmd \in client.jobs PROVE cmd <= issued' /\ (Busy' => cmd < issued')
  BY <1>0 DEF RecorderInd, JobsInv
<1> QED
  BY <1>1, <1>2 DEF JobsInv

\* A journal that knows issued commands only says nothing of the next one.
LEMMA NothingOfNext ==
  ASSUME RecorderInd, NEW rows \in Journal, Within(rows, issued)
  PROVE  ~Intended(rows, issued + 1) /\ ~Ended(rows, issued + 1) /\ Within(rows, issued + 1)
<1>1. \A i \in DOMAIN rows : rows[i].cmd \in Nat /\ rows[i].cmd <= issued
  <2>1. \A i \in DOMAIN rows : rows[i] \in Row
    BY DEF Journal
  <2> QED
    BY <2>1 DEF Within, Row
<1>2. issued \in Nat
  BY DEF RecorderInd, TypeOK
<1> QED
  BY <1>1, <1>2 DEF Intended, Ended, Within

\* A statement starts on top of the recovered journal of the open experiment, with the
\* session that is committed there.
LEMMA BeginKeeps ==
  ASSUME RecorderInd, Sound, NEW type \in Kinds, Begin(type)
  PROVE  RecorderInd'
<1>1. TypeOK'
  BY TypeBegin DEF RecorderInd
<1>2. /\ issued \in Nat /\ issued' = issued + 1 /\ client' = client
      /\ stmt = Idle /\ stmt.phase = "idle" /\ ~Busy /\ ~Committed
  BY DEF Begin, RecorderInd, TypeOK, Idle, Busy, Committed
<1>3. \A x \in Experiment : /\ disk[x].rows \in Journal /\ Readable(disk[x].rows)
                            /\ Within(disk[x].rows, issued)
  BY DEF RecorderInd, TypeOK, JournalInv, Within
<1>4. \A x \in Experiment : /\ ~Intended(disk[x].rows, issued + 1) /\ Within(disk[x].rows, issued + 1)
  BY <1>3, NothingOfNext
<1>5. ASSUME NEW targets, stmt' = Started(type, targets)
      PROVE  /\ stmt'.phase = "run" /\ stmt'.cmd = issued + 1 /\ stmt'.targets = targets
             /\ stmt'.dest = client.store /\ stmt'.jobs = {} /\ stmt'.good = TRUE
             /\ stmt'.status = "ok" /\ stmt'.todo = {} /\ Busy'
  BY <1>5 DEF Started, Busy
<1>6. CASE client.store = None
  <2>1. stmt' = Started(type, <<>>) /\ disk' = disk
    BY <1>6 DEF Begin
  <2>2. PICK targets : targets = <<>>
    OBVIOUS
  <2>3. ToSet(targets) = {}
    BY <2>2 DEF ToSet
  <2>4. /\ stmt'.phase = "run" /\ stmt'.cmd = issued + 1 /\ stmt'.targets = targets
        /\ stmt'.dest = client.store /\ stmt'.jobs = {} /\ stmt'.good = TRUE
        /\ stmt'.status = "ok" /\ stmt'.todo = {} /\ Busy'
    BY <1>5, <2>1, <2>2
  <2>5. Attachments' = {}
    BY <2>3, <2>4 DEF Attachments
  <2>6. JournalInv'
    BY <1>2, <1>4, <2>1 DEF RecorderInd, JournalInv, Within
  <2>7. JobsInv'
    <3>1. \A cmd \in client.jobs : cmd \in Nat /\ cmd <= issued
      BY DEF RecorderInd, JobsInv, TypeOK
    <3> QED
      BY <1>2, <2>1, <2>4, <3>1 DEF RecorderInd, JobsInv
  <2>8. TargetsInv'
    BY <1>2, <1>4, <1>6, <2>1, <2>4, <2>5 DEF TargetsInv
  <2>9. ContentInv'
    <3>1. client'.held = {client'.store} \ {None}
      BY <1>2 DEF RecorderInd, ContentInv
    <3>2. ~Committed'
      BY <2>4 DEF Committed
    <3> QED
      BY <1>2, <1>6, <3>1, <3>2 DEF ContentInv
  <2> QED
    BY <1>1, <2>6, <2>7, <2>8, <2>9 DEF RecorderInd
<1>7. CASE client.store # None
  <2>1. PICK e \in Experiment : e = client.store
    BY <1>7 DEF RecorderInd, TypeOK, Place
  <2>2. PICK rows : rows = Recovered(disk[e].rows)
    OBVIOUS
  <2>3. Continues(disk[e].rows, rows) /\ Open(rows) = {}
    BY <1>3, <2>2, Recovery
  <2>4. rows \in Journal /\ Readable(rows) /\ rows # <<>> /\ Within(rows, issued)
    BY <1>2, <1>3, <1>7, <2>1, <2>3 DEF Continues, RecorderInd, ContentInv
  <2>5. ~Intended(rows, issued + 1) /\ ~Ended(rows, issued + 1) /\ Within(rows, issued + 1)
    BY <2>4, NothingOfNext
  <2>6. PICK intent : intent = Submitted(issued + 1, type)
    OBVIOUS
  <2>7. intent \in Row /\ intent.kind = "submitted" /\ intent.cmd = issued + 1
    BY <1>2, <2>6 DEF Submitted, Row
  <2>8. PICK more : more = Append(rows, intent)
    OBVIOUS
  <2>9. more \in Journal /\ Readable(more) /\ more # <<>> /\ Within(more, issued + 1)
    BY <1>2, <2>3, <2>4, <2>5, <2>7, <2>8, AppendReadable, AppendSays
  <2>10. \A cmd : /\ Intended(more, cmd) <=> Intended(disk[e].rows, cmd) \/ cmd = issued + 1
                  /\ Ended(more, cmd) <=> Ended(rows, cmd)
                  /\ Succeeded(disk[e].rows, cmd) => Succeeded(more, cmd)
    BY <2>3, <2>4, <2>7, <2>8, AppendSays DEF Continues
  <2>11. disk[e].exists /\ (InterruptsEarly => disk[e].content = client.content)
    BY <1>2, <1>7, <2>1 DEF RecorderInd, ContentInv
  <2>12. \A cmd \in client.jobs : cmd # issued + 1
    BY <1>2 DEF RecorderInd, JobsInv, TypeOK
  <2>13. CASE stmt' = Started(type, <<e>>) /\ disk' = Attached(e, more)
    <3>1. PICK targets : targets = <<e>>
      OBVIOUS
    <3>2. ToSet(targets) = {e}
      BY <3>1 DEF ToSet
    <3>3. /\ stmt'.phase = "run" /\ stmt'.cmd = issued + 1 /\ stmt'.targets = targets
          /\ stmt'.dest = client.store /\ stmt'.jobs = {} /\ stmt'.good = TRUE
          /\ stmt'.status = "ok" /\ stmt'.todo = {} /\ Busy'
      BY <1>5, <2>13, <3>1
    <3>4. Attachments' = {e}
      BY <3>2, <3>3 DEF Attachments
    <3>5. /\ Writes(e, more) /\ disk'[e].content = disk[e].content
      <4>1. TypeOK
        BY DEF RecorderInd
      <4>2. /\ disk'[e] = [exists |-> TRUE, content |-> disk[e].content, rows |-> more]
            /\ \A x \in Experiment \ {e} : disk'[x] = disk[x]
        BY <2>9, <2>13, <4>1, AttachedIs
      <4> QED
        BY <2>9, <2>13, <4>2 DEF Writes
    <3>6. JournalInv'
      BY <1>2, <2>9, <3>5, WriteJournal
    <3>7. JobsInv'
      <4>1. stmt'.jobs \subseteq {issued'}
        BY <3>3
      <4> QED
        BY <1>2, <2>10, <2>12, <3>5, <4>1, WriteJobs
    <3>8. TargetsInv'
      <4>1. \A x \in Experiment : x # e => ~Intended(disk'[x].rows, issued + 1)
        BY <1>4, <3>5 DEF Writes
      <4>2. disk'[e].exists /\ disk'[e].rows # <<>> /\ Intended(disk'[e].rows, issued + 1)
            /\ ~Ended(disk'[e].rows, issued + 1)
        BY <2>5, <2>9, <2>10, <3>5 DEF Writes
      <4> QED
        BY <1>2, <1>7, <2>1, <3>3, <3>4, <4>1, <4>2 DEF TargetsInv, Sound
    <3>9. ContentInv'
      <4>1. client'.held = {client'.store} \ {None} /\ ~Committed'
        BY <1>2, <3>3 DEF RecorderInd, ContentInv, Committed
      <4> QED
        BY <1>2, <2>1, <2>9, <2>11, <3>5, <4>1 DEF ContentInv, Writes
    <3> QED
      BY <1>1, <3>6, <3>7, <3>8, <3>9 DEF RecorderInd
  <2>14. CASE stmt' = stmt /\ disk' = Attached(e, rows)
    <3>1. ~Busy' /\ ~Committed' /\ stmt'.phase = "idle"
      BY <1>2, <2>14 DEF Busy, Committed
    <3>2. Writes(e, rows) /\ disk'[e].content = disk[e].content
      <4>1. TypeOK
        BY DEF RecorderInd
      <4>2. /\ disk'[e] = [exists |-> TRUE, content |-> disk[e].content, rows |-> rows]
            /\ \A x \in Experiment \ {e} : disk'[x] = disk[x]
        BY <2>4, <2>14, <4>1, AttachedIs
      <4> QED
        BY <2>4, <2>14, <4>2 DEF Writes
    <3>3. JournalInv'
      BY <1>2, <2>5, <3>2, WriteJournal
    <3>4. JobsInv'
      BY <1>2, <2>3, <3>1, <3>2, WriteJobs DEF Continues
    <3>5. TargetsInv'
      BY <3>1 DEF TargetsInv
    <3>6. ContentInv'
      BY <1>2, <2>1, <2>4, <2>11, <3>1, <3>2 DEF RecorderInd, ContentInv, Writes
    <3> QED
      BY <1>1, <3>3, <3>4, <3>5, <3>6 DEF RecorderInd
  <2>15. CASE stmt' = stmt /\ disk' = disk
    <3>1. ~Busy' /\ ~Committed' /\ stmt'.phase = "idle"
      BY <1>2, <2>15 DEF Busy, Committed
    <3>2. JournalInv'
      BY <1>2, <1>4, <2>15 DEF RecorderInd, JournalInv, Within
    <3>3. JobsInv'
      <4>1. \A cmd \in client.jobs : cmd \in Nat /\ cmd <= issued
        BY DEF RecorderInd, JobsInv, TypeOK
      <4> QED
        BY <1>2, <2>15, <3>1, <4>1 DEF RecorderInd, JobsInv
    <3>4. TargetsInv'
      BY <3>1 DEF TargetsInv
    <3>5. ContentInv'
      BY <1>2, <2>15, <3>1 DEF RecorderInd, ContentInv
    <3> QED
      BY <1>1, <3>2, <3>3, <3>4, <3>5 DEF RecorderInd
  <2> QED
    BY <1>7, <2>1, <2>2, <2>6, <2>8, <2>13, <2>14, <2>15 DEF Begin
<1> QED
  BY <1>6, <1>7

\* The outcome of the statement may follow in a journal that waits for it, and says nothing
\* of other commands.
LEMMA OutcomeRow ==
  ASSUME RecorderInd, Busy, NEW e \in stmt.todo, NEW index \in Content \cup {None},
         NEW more, more = Append(disk[e].rows, Outcome(stmt.cmd, stmt.type, stmt.status, index))
  PROVE  /\ e \in Experiment /\ e \in Attachments /\ disk[e].exists
         /\ more \in Journal /\ Readable(more) /\ more # <<>> /\ Within(more, issued)
         /\ \A cmd : /\ Intended(more, cmd) <=> Intended(disk[e].rows, cmd)
                     /\ Succeeded(disk[e].rows, cmd) => Succeeded(more, cmd)
         /\ stmt.status = "ok" => Succeeded(more, stmt.cmd)
<1>1. stmt \in Statement /\ stmt.cmd = issued /\ issued \in Nat
  BY DEF RecorderInd, TypeOK, Busy, Idle, TargetsInv
<1>2. e \in Experiment /\ e \in Attachments /\ disk[e].exists /\ Waiting(disk[e].rows, stmt.cmd)
  BY <1>1 DEF Statement, RecorderInd, TargetsInv, Waiting
<1>3. PICK rows : rows = disk[e].rows
  OBVIOUS
<1>4. rows \in Journal /\ Readable(rows) /\ Within(rows, issued)
  BY <1>2, <1>3 DEF RecorderInd, TypeOK, JournalInv, Within
<1>5. PICK r : r = Outcome(stmt.cmd, stmt.type, stmt.status, index)
  OBVIOUS
<1>6. r \in Row /\ r.kind = "outcome" /\ r.cmd = stmt.cmd /\ r.status = stmt.status
  BY <1>1, <1>5 DEF Outcome, Row, Statement
<1>7. more = Append(rows, r)
  BY <1>3, <1>5
<1>8. more \in Journal /\ Readable(more)
  BY <1>2, <1>3, <1>4, <1>6, <1>7, AppendReadable
<1>9. more # <<>> /\ Within(more, issued)
  <2>1. Append(rows, r) # <<>> /\ (Within(Append(rows, r), issued) <=> Within(rows, issued) /\ r.cmd <= issued)
    BY <1>1, <1>4, <1>6, AppendSays
  <2>2. r.cmd <= issued
    BY <1>1, <1>6
  <2> QED
    BY <1>4, <1>7, <2>1, <2>2, Zenon
<1>10. \A cmd : /\ Intended(more, cmd) <=> Intended(rows, cmd)
                /\ Succeeded(more, cmd) <=> Succeeded(rows, cmd) \/ (cmd = stmt.cmd /\ stmt.status = "ok")
  <2>1. ASSUME NEW cmd
        PROVE  /\ Intended(Append(rows, r), cmd) <=> Intended(rows, cmd) \/ (r.kind = "submitted" /\ r.cmd = cmd)
               /\ Succeeded(Append(rows, r), cmd) <=>
                    Succeeded(rows, cmd) \/ (r.kind = "outcome" /\ r.cmd = cmd /\ r.status = "ok")
    BY <1>1, <1>4, <1>6, AppendSays
  <2> QED
    BY <1>6, <1>7, <2>1
<1> QED
  BY <1>2, <1>3, <1>8, <1>9, <1>10

\* An outcome is given to one target, and the outcome of the destination of a success
\* commits the copy there.
LEMMA RecordKeeps ==
  ASSUME RecorderInd, NEW e \in Experiment, Record(e)
  PROVE  RecorderInd'
<1>1. Busy /\ stmt \in Statement /\ stmt.phase = "record" /\ stmt.cmd = issued /\ e \in stmt.todo
  BY BusyStatement DEF RecorderInd, Record, Turn, TargetsInv
<1>2. PICK index : index = IF Commits(e) THEN stmt.content ELSE None
  OBVIOUS
<1>3. index \in Content \cup {None}
  BY <1>1, <1>2 DEF Statement
<1>4. PICK more : more = Append(disk[e].rows, Outcome(stmt.cmd, stmt.type, stmt.status, index))
  OBVIOUS
<1>5. /\ e \in Attachments /\ disk[e].exists
      /\ more \in Journal /\ Readable(more) /\ more # <<>> /\ Within(more, issued)
      /\ \A cmd : /\ Intended(more, cmd) <=> Intended(disk[e].rows, cmd)
                  /\ Succeeded(disk[e].rows, cmd) => Succeeded(more, cmd)
      /\ stmt.status = "ok" => Succeeded(more, stmt.cmd)
  BY <1>1, <1>3, <1>4, OutcomeRow
<1>6. PICK content : content = IF Commits(e) THEN stmt.content ELSE disk[e].content
  OBVIOUS
<1>7. /\ disk' = [disk EXCEPT ![e].rows = more, ![e].content = content]
      /\ stmt' = [stmt EXCEPT !.todo = @ \ {e}] /\ client' = client /\ issued' = issued
  BY <1>2, <1>4, <1>6 DEF Record
<1>8. content \in Content
  BY <1>1, <1>6 DEF Statement, RecorderInd, TypeOK
<1>9. /\ disk' \in [Experiment -> [exists : BOOLEAN, content : Content, rows : Journal]]
      /\ disk'[e].rows = more /\ disk'[e].exists /\ disk'[e].content = content
      /\ \A x \in Experiment \ {e} : disk'[x] = disk[x]
  BY <1>5, <1>7, <1>8 DEF RecorderInd, TypeOK
<1>10. /\ stmt' \in Statement /\ stmt'.phase = "record" /\ stmt'.todo = stmt.todo \ {e}
       /\ stmt'.cmd = stmt.cmd /\ stmt'.targets = stmt.targets /\ stmt'.jobs = stmt.jobs
       /\ stmt'.dest = stmt.dest /\ stmt'.good = stmt.good /\ stmt'.status = stmt.status
       /\ stmt'.content = stmt.content
  BY <1>1, <1>7 DEF Statement
<1>11. Busy' /\ Attachments' = Attachments
  BY <1>10 DEF Busy, Attachments
<1>12. TypeOK'
  BY <1>7, <1>9, <1>10 DEF RecorderInd, TypeOK
<1>13. Writes(e, more)
  BY <1>5, <1>9 DEF Writes
<1>14. JournalInv'
  BY <1>5, <1>7, <1>13, WriteJournal
<1>15. JobsInv'
  <2>1. stmt'.jobs \subseteq {issued'}
    BY <1>1, <1>7, <1>10 DEF RecorderInd, JobsInv
  <2> QED
    BY <1>1, <1>5, <1>7, <1>13, <2>1, WriteJobs
<1>16. TargetsInv'
  <2>1. ASSUME NEW x \in Experiment
        PROVE  /\ x \notin Attachments => ~Intended(disk'[x].rows, stmt.cmd)
               /\ x \in Attachments =>
                    disk'[x].exists /\ disk'[x].rows # <<>> /\ Intended(disk'[x].rows, stmt.cmd)
               /\ x \in Attachments /\ x \in stmt'.todo => ~Ended(disk'[x].rows, stmt.cmd)
               /\ x \in Attachments /\ stmt.good /\ x \notin stmt'.todo =>
                    Succeeded(disk'[x].rows, stmt.cmd)
    <3>1. CASE x = e
      BY <1>1, <1>5, <1>9, <1>10, <3>1 DEF RecorderInd, TargetsInv
    <3>2. CASE x # e
      <4>1. disk'[x] = disk[x] /\ (x \in stmt'.todo <=> x \in stmt.todo)
        BY <1>9, <1>10, <3>2
      <4> QED
        BY <1>1, <4>1 DEF RecorderInd, TargetsInv
    <3> QED
      BY <3>1, <3>2
  <2>2. stmt'.todo \subseteq Attachments
    BY <1>1, <1>10 DEF RecorderInd, TargetsInv
  <2>3. /\ client.store # None => client.store \in Attachments
        /\ stmt.good => /\ stmt.status = "ok"
                        /\ stmt.dest # None => stmt.dest \in Attachments
                        /\ stmt.dest # None /\ stmt.dest = client.store => Attachments = {stmt.dest}
    BY <1>1 DEF RecorderInd, TargetsInv
  <2>4. /\ stmt'.cmd = issued' /\ stmt'.todo \subseteq Attachments' /\ stmt'.phase = "record"
    BY <1>1, <1>7, <1>10, <1>11, <2>2
  <2>5. /\ client'.store # None => client'.store \in Attachments'
        /\ stmt'.good => /\ stmt'.status = "ok"
                         /\ stmt'.dest # None => stmt'.dest \in Attachments'
                         /\ stmt'.dest # None /\ stmt'.dest = client'.store => Attachments' = {stmt'.dest}
    BY <1>7, <1>10, <1>11, <2>3
  <2>6. ASSUME NEW x \in Experiment
        PROVE  /\ x \notin Attachments' => ~Intended(disk'[x].rows, stmt'.cmd)
               /\ x \in Attachments' =>
                    disk'[x].exists /\ disk'[x].rows # <<>> /\ Intended(disk'[x].rows, stmt'.cmd)
               /\ x \in Attachments' /\ x \in stmt'.todo => ~Ended(disk'[x].rows, stmt'.cmd)
               /\ x \in Attachments' /\ stmt'.good /\ x \notin stmt'.todo =>
                    Succeeded(disk'[x].rows, stmt'.cmd)
    BY <1>10, <1>11, <2>1
  <2> QED
    BY <2>4, <2>5, <2>6 DEF TargetsInv
<1>17. ContentInv'
  <2>1. ASSUME InterruptsEarly, client.store # None, ~(Committed' /\ stmt.dest = client.store)
        PROVE  disk'[client.store].content = client.content
    <3>1. client.store \in Experiment
      BY <2>1 DEF RecorderInd, TypeOK, Place
    <3>2. ~(Committed /\ stmt.dest = client.store)
      BY <1>10, <1>11, <2>1 DEF Committed
    <3>3. client.store = e => ~Commits(e)
      BY <1>1, <1>10, <1>11, <2>1 DEF Commits, Committed
    <3> QED
      BY <1>6, <1>9, <2>1, <3>1, <3>2, <3>3 DEF RecorderInd, ContentInv
  <2>2. ASSUME Committed' PROVE disk'[stmt.dest].content = stmt.content
    <3>1. stmt.good /\ stmt.dest # None /\ (stmt.dest \notin stmt.todo \/ stmt.dest = e)
      BY <1>10, <2>2 DEF Committed
    <3>2. stmt.dest \in Experiment
      BY <1>1, <3>1 DEF Statement, Place
    <3>3. CASE stmt.dest = e
      BY <1>6, <1>9, <3>1, <3>3 DEF Commits
    <3>4. CASE stmt.dest # e
      <4>1. Committed
        BY <1>1, <3>1, <3>4 DEF Committed
      <4> QED
        BY <1>9, <3>2, <3>4, <4>1 DEF RecorderInd, ContentInv
    <3> QED
      BY <3>3, <3>4
  <2>3. client.store # None => disk'[client.store].rows # <<>> /\ disk'[client.store].exists
    <3>1. client.store # None => client.store \in Experiment
      BY DEF RecorderInd, TypeOK, Place
    <3> QED
      BY <1>5, <1>9, <3>1 DEF RecorderInd, ContentInv
  <2> QED
    BY <1>7, <1>10, <2>1, <2>2, <2>3 DEF ContentInv
<1> QED
  BY <1>12, <1>14, <1>15, <1>16, <1>17 DEF RecorderInd

\* The failure path gives the waiting intents their outcome, or gives up.
LEMMA UnwindKeeps ==
  ASSUME RecorderInd, NEW e \in Experiment, Unwind(e)
  PROVE  RecorderInd'
<1>1. /\ Busy /\ stmt \in Statement /\ stmt.phase = "unwind" /\ stmt.cmd = issued /\ e \in stmt.todo
      /\ ~stmt.good
  BY BusyStatement DEF RecorderInd, Unwind, Turn, TargetsInv
<1>2. ~Committed
  BY <1>1 DEF Committed
<1>3. CASE stmt' = [stmt EXCEPT !.todo = {}] /\ disk' = disk /\ client' = client /\ issued' = issued
  <2>1. /\ stmt' \in Statement /\ stmt'.phase = "unwind" /\ stmt'.todo = {}
        /\ stmt'.cmd = stmt.cmd /\ stmt'.targets = stmt.targets /\ stmt'.jobs = stmt.jobs
        /\ stmt'.good = stmt.good
    BY <1>1, <1>3 DEF Statement
  <2>2. Busy' /\ ~Committed' /\ Attachments' = Attachments
    BY <1>1, <2>1 DEF Busy, Committed, Attachments
  <2>3. TypeOK'
    BY <1>3, <2>1 DEF RecorderInd, TypeOK
  <2>4. JournalInv' /\ JobsInv'
    <3>1. stmt'.jobs \subseteq {issued}
      BY <1>1, <2>1 DEF RecorderInd, JobsInv
    <3> QED
      BY <1>1, <1>3, <2>2, <3>1, QuietDisk
  <2>5. TargetsInv'
    BY <1>1, <1>3, <2>1, <2>2 DEF RecorderInd, TargetsInv
  <2>6. ContentInv'
    BY <1>1, <1>2, <1>3, <2>1, <2>2 DEF RecorderInd, ContentInv
  <2> QED
    BY <2>3, <2>4, <2>5, <2>6 DEF RecorderInd
<1>4. CASE /\ disk' = [disk EXCEPT ![e].rows =
                         Append(@, Outcome(stmt.cmd, stmt.type, stmt.status, None))]
           /\ stmt' = [stmt EXCEPT !.todo = @ \ {e}] /\ client' = client /\ issued' = issued
  <2>1. PICK more : more = Append(disk[e].rows, Outcome(stmt.cmd, stmt.type, stmt.status, None))
    OBVIOUS
  <2>2. /\ e \in Attachments /\ disk[e].exists
        /\ more \in Journal /\ Readable(more) /\ more # <<>> /\ Within(more, issued)
        /\ \A cmd : /\ Intended(more, cmd) <=> Intended(disk[e].rows, cmd)
                    /\ Succeeded(disk[e].rows, cmd) => Succeeded(more, cmd)
    BY <1>1, <2>1, OutcomeRow
  <2>3. disk' = [disk EXCEPT ![e].rows = more]
    BY <1>4, <2>1
  <2>4. /\ disk' \in [Experiment -> [exists : BOOLEAN, content : Content, rows : Journal]]
        /\ disk'[e].rows = more /\ disk'[e].exists /\ disk'[e].content = disk[e].content
        /\ \A x \in Experiment \ {e} : disk'[x] = disk[x]
    BY <2>2, <2>3 DEF RecorderInd, TypeOK
  <2>5. /\ stmt' \in Statement /\ stmt'.phase = "unwind" /\ stmt'.todo = stmt.todo \ {e}
        /\ stmt'.cmd = stmt.cmd /\ stmt'.targets = stmt.targets /\ stmt'.jobs = stmt.jobs
        /\ stmt'.good = stmt.good
    BY <1>1, <1>4 DEF Statement
  <2>6. Busy' /\ ~Committed' /\ Attachments' = Attachments
    BY <1>1, <2>5 DEF Busy, Committed, Attachments
  <2>7. TypeOK'
    BY <1>4, <2>4, <2>5 DEF RecorderInd, TypeOK
  <2>8. Writes(e, more)
    BY <2>2, <2>4 DEF Writes
  <2>9. JournalInv'
    BY <1>4, <2>2, <2>8, WriteJournal
  <2>10. JobsInv'
    <3>1. stmt'.jobs \subseteq {issued'}
      BY <1>1, <1>4, <2>5 DEF RecorderInd, JobsInv
    <3> QED
      BY <1>1, <1>4, <2>2, <2>8, <3>1, WriteJobs
  <2>11. TargetsInv'
    <3>1. ASSUME NEW x \in Experiment
          PROVE  /\ x \notin Attachments => ~Intended(disk'[x].rows, stmt.cmd)
                 /\ x \in Attachments =>
                      disk'[x].exists /\ disk'[x].rows # <<>> /\ Intended(disk'[x].rows, stmt.cmd)
                 /\ x \in Attachments /\ x \in stmt'.todo => ~Ended(disk'[x].rows, stmt.cmd)
      <4>1. CASE x = e
        BY <1>1, <2>2, <2>4, <2>5, <4>1 DEF RecorderInd, TargetsInv
      <4>2. CASE x # e
        BY <1>1, <2>4, <2>5, <4>2 DEF RecorderInd, TargetsInv
      <4> QED
        BY <4>1, <4>2
    <3>2. stmt'.todo \subseteq Attachments
      BY <1>1, <2>5 DEF RecorderInd, TargetsInv
    <3> QED
      BY <1>1, <1>4, <2>5, <2>6, <3>1, <3>2 DEF RecorderInd, TargetsInv
  <2>12. ContentInv'
    <3>1. client.store # None => client.store \in Experiment
      BY DEF RecorderInd, TypeOK, Place
    <3> QED
      BY <1>2, <1>4, <2>2, <2>4, <2>5, <2>6, <3>1 DEF RecorderInd, ContentInv
  <2> QED
    BY <2>7, <2>9, <2>10, <2>11, <2>12 DEF RecorderInd
<1> QED
  BY <1>3, <1>4 DEF Unwind

\* The journal of a new experiment, and what it says.
LEMMA NewJournal ==
  ASSUME NEW content \in Content, issued \in Nat, NEW rows, rows = <<Baseline(content)>>
  PROVE  /\ rows \in Journal /\ Readable(rows) /\ Open(rows) = {} /\ rows # <<>>
         /\ Within(rows, issued) /\ rows[1].index = content
         /\ \A cmd : ~Intended(rows, cmd)
<1>1. PICK r : r = Baseline(content)
  OBVIOUS
<1>2. r \in Row /\ r.kind = "baseline" /\ r.cmd = 0 /\ r.index = content
  BY <1>1 DEF Baseline, Row
<1>3. rows = <<r>>
  BY <1>1
<1>4. rows \in Journal /\ rows # <<>> /\ DOMAIN rows = {1} /\ rows[1] = r
  BY <1>2, <1>3 DEF Journal
<1>5. \A cmd : ~Intended(rows, cmd)
  BY <1>2, <1>4 DEF Intended
<1>6. Open(rows) = {}
  BY <1>2, <1>4, OpenRows
<1>7. Readable(rows)
  BY <1>2, <1>4 DEF Readable
<1>8. Within(rows, issued)
  BY <1>2, <1>4 DEF Within
<1> QED
  BY <1>2, <1>4, <1>5, <1>6, <1>7, <1>8

\* Only an intent has an outcome.
LEMMA EndedIntended ==
  ASSUME NEW rows \in Journal, Readable(rows), NEW cmd, Ended(rows, cmd)
  PROVE  Intended(rows, cmd)
<1>1. PICK i \in DOMAIN rows : rows[i].kind = "outcome" /\ rows[i].cmd = cmd
  BY DEF Ended
<1>2. PICK part : part = SubSeq(rows, 1, i - 1)
  OBVIOUS
<1>3. part \in Journal /\ \A n \in DOMAIN part : n \in DOMAIN rows /\ part[n] = rows[n]
  BY <1>1, <1>2 DEF Journal
<1>4. PICK r \in Open(part) : r.cmd = cmd
  BY <1>1, <1>2 DEF Readable
<1>5. PICK n \in DOMAIN part : part[n] = r /\ r.kind = "submitted"
  BY <1>3, <1>4, OpenRows
<1> QED
  BY <1>3, <1>4, <1>5 DEF Intended

\* An experiment the statement may attach: not attached yet, with a recovered journal, or
\* with the one of a new experiment.
Attachable(e, rows) ==
  /\ stmt.phase = "run" /\ e \notin Attachments
  /\ rows \in Journal /\ Readable(rows) /\ Open(rows) = {} /\ rows # <<>>
  /\ Within(rows, issued) /\ ~Intended(rows, issued)
  /\ disk[e].exists \/ rows[1].index \in Content
  /\ \A cmd \in client.jobs : /\ Intended(rows, cmd) => Intended(disk[e].rows, cmd)
                              /\ Succeeded(disk[e].rows, cmd) => Succeeded(rows, cmd)

\* Attaching a second journal, or the first one, keeps the invariant.
LEMMA AttachKeeps ==
  ASSUME RecorderInd, Sound, NEW e \in Experiment, NEW rows, NEW content \in Content,
         Attachable(e, rows), Attaches(e, rows, content)
  PROVE  RecorderInd'
<1>1. Busy /\ stmt \in Statement /\ stmt.phase = "run" /\ stmt.cmd = issued /\ issued \in Nat
  BY BusyStatement DEF RecorderInd, Attachable, TargetsInv, TypeOK
<1>2. PICK intent : intent = Submitted(stmt.cmd, stmt.type)
  OBVIOUS
<1>3. intent \in Row /\ intent.kind = "submitted" /\ intent.cmd = stmt.cmd
  BY <1>1, <1>2 DEF Submitted, Row, Statement
<1>4. PICK more : more = Append(rows, intent)
  OBVIOUS
<1>5. more \in Journal /\ Readable(more)
  BY <1>3, <1>4, AppendReadable DEF Attachable
<1>6. more # <<>> /\ Within(more, issued)
  <2>1. Append(rows, intent) # <<>>
        /\ (Within(Append(rows, intent), issued) <=> Within(rows, issued) /\ intent.cmd <= issued)
    BY <1>1, <1>3, AppendSays DEF Attachable
  <2>2. intent.cmd <= issued
    BY <1>1, <1>3
  <2> QED
    BY <1>4, <2>1, <2>2, Zenon DEF Attachable
<1>7. \A cmd : /\ Intended(more, cmd) <=> Intended(rows, cmd) \/ cmd = stmt.cmd
               /\ Succeeded(rows, cmd) => Succeeded(more, cmd)
               /\ Ended(more, cmd) <=> Ended(rows, cmd)
  <2>1. ASSUME NEW cmd
        PROVE  /\ Intended(Append(rows, intent), cmd) <=>
                    Intended(rows, cmd) \/ (intent.kind = "submitted" /\ intent.cmd = cmd)
               /\ Ended(Append(rows, intent), cmd) <=>
                    Ended(rows, cmd) \/ (intent.kind = "outcome" /\ intent.cmd = cmd)
               /\ Succeeded(Append(rows, intent), cmd) <=>
                    Succeeded(rows, cmd)
                      \/ (intent.kind = "outcome" /\ intent.cmd = cmd /\ intent.status = "ok")
    BY <1>1, <1>3, AppendSays DEF Attachable
  <2> QED
    BY <1>3, <1>4, <2>1
<1>8. ~Ended(more, stmt.cmd) /\ Intended(more, stmt.cmd)
  BY <1>1, <1>7, EndedIntended DEF Attachable
<1>9. PICK start : start = (IF disk[e].exists THEN disk[e].content ELSE rows[1].index)
  OBVIOUS
<1>10. start \in Content
  BY <1>9 DEF Attachable, RecorderInd, TypeOK
<1>11. TypeOK
  BY DEF RecorderInd
<1>12. PICK attached : attached = Attached(e, more)
  OBVIOUS
<1>13. /\ attached \in [Experiment -> [exists : BOOLEAN, content : Content, rows : Journal]]
       /\ attached[e] = [exists |-> TRUE, content |-> disk[e].content, rows |-> more]
       /\ \A x \in Experiment \ {e} : attached[x] = disk[x]
  BY <1>5, <1>11, <1>12, AttachedIs
<1>14. disk' = [attached EXCEPT ![e].content = start]
  <2>1. disk' = [attached EXCEPT ![e].content = IF disk[e].exists THEN attached[e].content ELSE rows[1].index]
    BY <1>2, <1>4, <1>12 DEF Attaches
  <2> QED
    BY <1>9, <1>13, <2>1
<1>15. /\ disk' \in [Experiment -> [exists : BOOLEAN, content : Content, rows : Journal]]
       /\ disk'[e].rows = more /\ disk'[e].exists
       /\ \A x \in Experiment \ {e} : disk'[x] = disk[x]
  <2>1. PICK old : old = attached[e]
    OBVIOUS
  <2>2. PICK record : record = [old EXCEPT !.content = start]
    OBVIOUS
  <2>3. record \in [exists : BOOLEAN, content : Content, rows : Journal]
        /\ record.rows = more /\ record.exists
    <3>1. old \in [exists : BOOLEAN, content : Content, rows : Journal]
          /\ old.rows = more /\ old.exists
      BY <1>13, <2>1
    <3> QED
      BY <1>10, <2>2, <3>1
  <2>4. disk' = [attached EXCEPT ![e] = record]
    BY <1>13, <1>14, <2>1, <2>2
  <2>5. disk'[e] = record /\ \A x \in Experiment \ {e} : disk'[x] = attached[x]
    BY <1>13, <2>4
  <2>6. disk' \in [Experiment -> [exists : BOOLEAN, content : Content, rows : Journal]]
    BY <1>13, <2>3, <2>4
  <2> QED
    BY <1>13, <2>3, <2>5, <2>6
<1>16. PICK s : s = [stmt EXCEPT !.dest = e, !.content = content, !.targets = Append(@, e)]
  OBVIOUS
<1>17. /\ s \in Statement /\ s.cmd = stmt.cmd /\ s.targets = Append(stmt.targets, e)
       /\ s.jobs = stmt.jobs /\ s.dest = e /\ s.good = stmt.good /\ s.status = stmt.status
  <2>1. PICK targets : targets = Append(stmt.targets, e)
    OBVIOUS
  <2>2. targets \in Seq(Experiment) /\ e \in Place
    BY <1>1, <2>1 DEF Statement, Place
  <2>3. s = [stmt EXCEPT !.dest = e, !.content = content, !.targets = targets]
    BY <1>1, <1>16, <2>1 DEF Statement
  <2> QED
    BY <1>1, <2>1, <2>2, <2>3 DEF Statement
<1>18. ToSet(s.targets) = Attachments \cup {e}
  <2>1. stmt.targets \in Seq(Experiment)
    BY <1>1 DEF Statement
  <2>2. /\ DOMAIN s.targets = DOMAIN stmt.targets \cup {Len(stmt.targets) + 1}
        /\ \A i \in DOMAIN stmt.targets : s.targets[i] = stmt.targets[i]
        /\ s.targets[Len(stmt.targets) + 1] = e
    BY <1>17, <2>1
  <2> QED
    BY <2>2 DEF ToSet, Attachments
<1>19. stmt' = Concluding(s) /\ issued' = issued
       /\ client' = [client EXCEPT !.held = @ \cup {e}]
  BY <1>16 DEF Attaches
<1>20. /\ stmt' \in Statement /\ stmt'.phase = "record" /\ stmt'.todo = Attachments \cup {e}
       /\ stmt'.cmd = stmt.cmd /\ stmt'.targets = s.targets /\ stmt'.jobs = stmt.jobs
       /\ stmt'.dest = e /\ stmt'.good = stmt.good /\ stmt'.status = stmt.status
  <2>1. stmt' \in Statement /\ stmt' = [s EXCEPT !.phase = "record", !.todo = ToSet(s.targets)]
    BY <1>17, <1>19, ConcludingType
  <2> QED
    BY <1>17, <1>18, <2>1 DEF Statement
<1>21. Busy' /\ Attachments' = Attachments \cup {e} /\ ~Committed /\ ~Committed'
  BY <1>1, <1>18, <1>20 DEF Busy, Attachments, Committed
<1>22. /\ client' \in [content : Content, store : Place, held : SUBSET Experiment, jobs : SUBSET Nat]
       /\ client'.store = client.store /\ client'.content = client.content /\ client'.jobs = client.jobs
  BY <1>11, <1>19 DEF TypeOK
<1>23. TypeOK'
  BY <1>1, <1>15, <1>19, <1>20, <1>22 DEF TypeOK
<1>24. Writes(e, more)
  BY <1>5, <1>15 DEF Writes
<1>25. JournalInv'
  BY <1>6, <1>19, <1>24, WriteJournal
<1>26. JobsInv'
  <2>1. stmt'.jobs \subseteq {issued'}
    BY <1>1, <1>19, <1>20 DEF RecorderInd, JobsInv
  <2>2. \A cmd \in client.jobs : cmd # stmt.cmd
    BY <1>1 DEF RecorderInd, JobsInv, TypeOK
  <2>3. \A cmd \in client.jobs : /\ Intended(more, cmd) => Intended(disk[e].rows, cmd)
                                 /\ Succeeded(disk[e].rows, cmd) => Succeeded(more, cmd)
    BY <1>7, <2>2 DEF Attachable
  <2>4. issued' \in {issued, issued + 1} /\ client'.jobs = client.jobs
    BY <1>1, <1>19, <1>22
  <2>5. Busy' => stmt'.jobs \subseteq {issued'} /\ (Busy \/ issued' = issued + 1)
    BY <1>1, <2>1
  <2> QED
    BY <1>24, <2>3, <2>4, <2>5, WriteJobs
<1>27. TargetsInv'
  <2>1. ASSUME NEW x \in Experiment
        PROVE  /\ x \notin Attachments' => ~Intended(disk'[x].rows, stmt'.cmd)
               /\ x \in Attachments' => /\ disk'[x].exists /\ disk'[x].rows # <<>>
                                        /\ Intended(disk'[x].rows, stmt'.cmd)
                                        /\ ~Ended(disk'[x].rows, stmt'.cmd)
                                        /\ x \in stmt'.todo
    <3>1. CASE x = e
      BY <1>6, <1>8, <1>15, <1>20, <1>21, <3>1
    <3>2. CASE x # e
      BY <1>1, <1>15, <1>20, <1>21, <3>2 DEF RecorderInd, TargetsInv
    <3> QED
      BY <3>1, <3>2
  <2>2. /\ client'.store # None => client'.store \in Attachments'
        /\ stmt'.dest # client'.store /\ stmt'.status = "ok" /\ stmt'.dest \in Attachments'
    BY <1>1, <1>20, <1>21, <1>22 DEF RecorderInd, TargetsInv, Attachable, Sound
  <2> QED
    BY <1>1, <1>19, <1>20, <1>21, <2>1, <2>2 DEF TargetsInv
<1>28. ContentInv'
  <2>1. client.store # None =>
          /\ client.store \in Experiment /\ disk'[client.store].rows # <<>>
          /\ disk'[client.store].exists
          /\ InterruptsEarly => disk'[client.store].content = client.content
    <3>1. client.store # None => client.store \in Experiment \ {e}
      BY <1>1 DEF RecorderInd, TypeOK, Place, TargetsInv, Attachable
    <3> QED
      BY <1>15, <1>21, <3>1 DEF RecorderInd, ContentInv
  <2> QED
    BY <1>20, <1>21, <1>22, <2>1 DEF ContentInv
<1> QED
  BY <1>23, <1>25, <1>26, <1>27, <1>28 DEF RecorderInd

\* A statement that turns to its outcomes may leave an experiment behind that it created and
\* did not attach: nothing of the invariant speaks of it.
LEMMA LeaveBehind ==
  ASSUME RecorderInd, Sound, NEW e \in Experiment, NEW rows, NEW s \in Statement,
         stmt.phase = "run", ~disk[e].exists,
         Writes(e, rows), Within(rows, issued), \A cmd : ~Intended(rows, cmd),
         disk' \in [Experiment -> [exists : BOOLEAN, content : Content, rows : Journal]],
         stmt' = Concluding(s), client' = client, issued' = issued,
         s.cmd = stmt.cmd, s.targets = stmt.targets, s.jobs = stmt.jobs, s.dest = stmt.dest,
         ~s.good \/ (s.good = stmt.good /\ s.status = stmt.status)
  PROVE  RecorderInd'
<1>1. Busy /\ stmt \in Statement /\ stmt.cmd = issued
  BY BusyStatement DEF RecorderInd, TargetsInv
<1>2. /\ stmt' \in Statement /\ stmt'.phase = "record" /\ stmt'.todo = Attachments
      /\ stmt'.cmd = stmt.cmd /\ stmt'.targets = stmt.targets /\ stmt'.jobs = stmt.jobs
      /\ stmt'.dest = stmt.dest /\ stmt'.good = s.good /\ stmt'.status = s.status
  <2>1. stmt' \in Statement /\ stmt' = [s EXCEPT !.phase = "record", !.todo = ToSet(s.targets)]
    BY ConcludingType
  <2>2. ToSet(s.targets) = Attachments
    BY DEF Attachments
  <2> QED
    BY <2>1, <2>2 DEF Statement
<1>3. /\ Busy' /\ Attachments' = Attachments
      /\ disk'[e].rows = rows /\ \A x \in Experiment \ {e} : disk'[x] = disk[x]
  BY <1>2 DEF Busy, Attachments, Writes
<1>4. e \notin Attachments /\ client.store # e /\ stmt.dest # e
  BY <1>1 DEF RecorderInd, TargetsInv, ContentInv, Sound
<1>5. TypeOK'
  BY <1>2 DEF RecorderInd, TypeOK
<1>6. JournalInv'
  BY WriteJournal
<1>7. JobsInv'
  <2>1. disk[e].rows = <<>>
    BY DEF RecorderInd, JournalInv
  <2>2. \A cmd : ~Succeeded(disk[e].rows, cmd)
    BY <2>1 DEF Succeeded
  <2>3. stmt'.jobs \subseteq {issued'}
    BY <1>1, <1>2 DEF RecorderInd, JobsInv
  <2> QED
    BY <1>1, <2>2, <2>3, WriteJobs
<1>8. TargetsInv'
  <2>1. ASSUME NEW x \in Experiment
        PROVE  /\ x \notin Attachments => ~Intended(disk'[x].rows, stmt.cmd)
               /\ x \in Attachments =>
                    /\ disk'[x].exists /\ disk'[x].rows # <<>>
                    /\ Intended(disk'[x].rows, stmt.cmd) /\ ~Ended(disk'[x].rows, stmt.cmd)
    <3>1. CASE x = e
      BY <1>3, <1>4, <3>1
    <3>2. CASE x # e
      BY <1>1, <1>3, <3>2 DEF RecorderInd, TargetsInv
    <3> QED
      BY <3>1, <3>2
  <2> QED
    BY <1>1, <1>2, <1>3, <2>1 DEF RecorderInd, TargetsInv
<1>9. ContentInv'
  <2>1. ~Committed /\ ~Committed'
    BY <1>1, <1>2 DEF Committed, RecorderInd, TargetsInv
  <2>2. client.store # None => client.store \in Experiment \ {e}
    BY <1>4 DEF RecorderInd, TypeOK, Place
  <2> QED
    BY <1>2, <1>3, <2>1, <2>2 DEF RecorderInd, ContentInv
<1> QED
  BY <1>5, <1>6, <1>7, <1>8, <1>9 DEF RecorderInd

\* A new experiment whose journal refused its baseline or its first intent fails the statement.
LEMMA RaiseKeeps ==
  ASSUME RecorderInd, Sound, NEW e \in Experiment, NEW content \in Content,
         stmt.phase = "run", ~disk[e].exists, AttachRaises(e, <<Baseline(content)>>)
  PROVE  RecorderInd'
<1>1. TypeOK /\ stmt \in Statement
  BY BusyStatement DEF RecorderInd
<1>2. PICK s : s = [stmt EXCEPT !.good = FALSE, !.status = "error"]
  OBVIOUS
<1>3. /\ s \in Statement /\ ~s.good /\ s.cmd = stmt.cmd /\ s.targets = stmt.targets
      /\ s.jobs = stmt.jobs /\ s.dest = stmt.dest
  BY <1>1, <1>2 DEF Statement
<1>4. PICK rows \in {<<>>, <<Baseline(content)>>} : disk' = Attached(e, rows)
  BY DEF AttachRaises
<1>5. stmt' = Concluding(s) /\ client' = client /\ issued' = issued
  BY <1>2 DEF AttachRaises
<1>6. rows \in Journal /\ Readable(rows) /\ Within(rows, issued) /\ \A cmd : ~Intended(rows, cmd)
  <2>1. CASE rows = <<>>
    BY <2>1 DEF Journal, Readable, Within, Intended
  <2>2. CASE rows = <<Baseline(content)>>
    BY <1>1, <2>2, NewJournal DEF TypeOK
  <2> QED
    BY <2>1, <2>2
<1>7. /\ disk' \in [Experiment -> [exists : BOOLEAN, content : Content, rows : Journal]]
      /\ disk'[e].rows = rows /\ disk'[e].exists
      /\ \A x \in Experiment \ {e} : disk'[x] = disk[x]
  <2>1. /\ Attached(e, rows) \in [Experiment -> [exists : BOOLEAN, content : Content, rows : Journal]]
        /\ Attached(e, rows)[e] = [exists |-> TRUE, content |-> disk[e].content, rows |-> rows]
        /\ \A x \in Experiment \ {e} : Attached(e, rows)[x] = disk[x]
    BY <1>1, <1>6, AttachedIs
  <2> QED
    BY <1>4, <2>1
<1>8. Writes(e, rows)
  BY <1>6, <1>7 DEF Writes
<1> QED
  BY <1>3, <1>5, <1>6, <1>7, <1>8, LeaveBehind

\* A replay leaves a new experiment behind that starts at the selected state.
LEMMA ReplayKeeps ==
  ASSUME RecorderInd, Sound, NEW e \in Experiment, NEW target, Replay(e, target)
  PROVE  RecorderInd'
<1>1. TypeOK /\ stmt.phase = "run" /\ stmt \in Statement
  BY BusyStatement DEF RecorderInd, Replay, Running
<1>2. stmt.dest \in Experiment /\ target \in Targets(stmt.dest)
  BY <1>1 DEF Replay, Statement, Place
<1>3. PICK index : index = Selected(stmt.dest, target)
  OBVIOUS
<1>4. index \in Content
  BY <1>1, <1>2, <1>3, SelectedType
<1>5. PICK rows : rows = <<Baseline(index)>>
  OBVIOUS
<1>6. rows \in Journal /\ Readable(rows) /\ Within(rows, issued) /\ \A cmd : ~Intended(rows, cmd)
  BY <1>1, <1>4, <1>5, NewJournal DEF TypeOK
<1>7. PICK record : record = [exists |-> TRUE, content |-> index, rows |-> rows]
  OBVIOUS
<1>8. disk' = [disk EXCEPT ![e] = record]
  BY <1>3, <1>5, <1>7 DEF Replay
<1>9. record \in [exists : BOOLEAN, content : Content, rows : Journal]
      /\ record.rows = rows /\ record.exists
  BY <1>4, <1>6, <1>7
<1>10. /\ disk' \in [Experiment -> [exists : BOOLEAN, content : Content, rows : Journal]]
       /\ disk'[e].rows = rows /\ disk'[e].exists
       /\ \A x \in Experiment \ {e} : disk'[x] = disk[x]
  BY <1>1, <1>8, <1>9 DEF TypeOK
<1>11. Writes(e, rows)
  BY <1>6, <1>10 DEF Writes
<1>12. ~disk[e].exists /\ stmt' = Concluding(stmt) /\ client' = client /\ issued' = issued
  BY DEF Replay
<1> QED
  BY <1>1, <1>6, <1>10, <1>11, <1>12, LeaveBehind

\* The journal of a new experiment may be attached by the running statement.
LEMMA NewAttachable ==
  ASSUME RecorderInd, NEW e \in Experiment, NEW content \in Content, stmt.phase = "run",
         ~disk[e].exists
  PROVE  Attachable(e, <<Baseline(content)>>)
<1>1. Busy /\ issued \in Nat
  BY BusyStatement DEF RecorderInd, TypeOK
<1>2. e \notin Attachments /\ disk[e].rows = <<>>
  BY <1>1 DEF RecorderInd, TargetsInv, JournalInv
<1>3. PICK rows : rows = <<Baseline(content)>>
  OBVIOUS
<1>4. /\ rows \in Journal /\ Readable(rows) /\ Open(rows) = {} /\ rows # <<>>
      /\ Within(rows, issued) /\ rows[1].index = content /\ \A cmd : ~Intended(rows, cmd)
  BY <1>1, <1>3, NewJournal
<1>5. \A cmd : ~Succeeded(disk[e].rows, cmd)
  BY <1>2 DEF Succeeded
<1> QED
  BY <1>2, <1>3, <1>4, <1>5 DEF Attachable

\* Initialising a new experiment keeps the invariant, whether or not its journal accepts the intent.
LEMMA InitializeKeeps ==
  ASSUME RecorderInd, Sound, NEW e \in Experiment, Initialize(e)
  PROVE  RecorderInd'
<1>1. stmt.phase = "run" /\ ~disk[e].exists /\ stmt \in Statement
  BY BusyStatement DEF RecorderInd, Initialize, Running
<1>2. <<>> \in Content /\ stmt.content \in Content
  BY <1>1 DEF Content, Statement
<1>3. CASE Attaches(e, <<Baseline(<<>>)>>, stmt.content)
  BY <1>1, <1>2, <1>3, NewAttachable, AttachKeeps
<1>4. CASE AttachRaises(e, <<Baseline(<<>>)>>)
  BY <1>1, <1>2, <1>4, RaiseKeeps
<1> QED
  BY <1>3, <1>4 DEF Initialize

\* So does forking the open experiment.
LEMMA ForkKeeps ==
  ASSUME RecorderInd, Sound, NEW e \in Experiment, Fork(e)
  PROVE  RecorderInd'
<1>1. stmt.phase = "run" /\ ~disk[e].exists /\ stmt \in Statement /\ stmt.dest # None
  BY BusyStatement DEF RecorderInd, Fork, Running
<1>2. PICK content : content = disk[stmt.dest].content
  OBVIOUS
<1>3. content \in Content /\ stmt.content \in Content
  BY <1>1, <1>2 DEF Statement, Place, RecorderInd, TypeOK
<1>4. CASE Attaches(e, <<Baseline(content)>>, stmt.content)
  BY <1>1, <1>3, <1>4, NewAttachable, AttachKeeps
<1>5. CASE AttachRaises(e, <<Baseline(content)>>)
  BY <1>1, <1>3, <1>5, RaiseKeeps
<1> QED
  BY <1>2, <1>4, <1>5 DEF Fork

\* Opening an experiment recovers its journal and attaches it as the only one.
LEMMA OpenKeeps ==
  ASSUME RecorderInd, Sound, NEW e \in Experiment, OpenExperiment(e)
  PROVE  RecorderInd'
<1>1. /\ Busy /\ stmt.phase = "run" /\ stmt.dest = None /\ stmt.cmd = issued /\ issued \in Nat
      /\ disk[e].rows # <<>>
  BY BusyStatement DEF RecorderInd, OpenExperiment, Running, TargetsInv, TypeOK
<1>2. e \notin Attachments
  BY <1>1 DEF RecorderInd, TargetsInv
<1>3. ~Intended(disk[e].rows, issued) /\ disk[e].exists
  BY <1>1, <1>2 DEF RecorderInd, TargetsInv, JournalInv
<1>4. disk[e].rows \in Journal /\ Readable(disk[e].rows) /\ Within(disk[e].rows, issued)
      /\ disk[e].content \in Content
  BY DEF RecorderInd, TypeOK, JournalInv, Within
<1>5. PICK rows : rows = Recovered(disk[e].rows)
  OBVIOUS
<1>6. Continues(disk[e].rows, rows) /\ Open(rows) = {}
  BY <1>4, <1>5, Recovery
<1>7. Attachable(e, rows)
  BY <1>1, <1>2, <1>3, <1>4, <1>6 DEF Attachable, Continues
<1>8. Attaches(e, rows, disk[e].content)
  BY <1>5 DEF OpenExperiment
<1> QED
  BY <1>4, <1>7, <1>8, AttachKeeps

-----------------------------------------------------------------------------
(* The invariant and what follows from it.                                  *)

\* Nothing exists, nothing is held, nothing runs.
LEMMA RecorderInit == ASSUME Init PROVE RecorderInd
<1>1. stmt.phase = "idle" /\ ~Busy /\ ~Committed
  BY DEF Init, Idle, Busy, Committed
<1>2. <<>> \in Content /\ <<>> \in Journal /\ None \in Place
  BY DEF Content, Journal, Place
<1>3. Blank \in [exists : BOOLEAN, content : Content, rows : Journal]
      /\ ~Blank.exists /\ Blank.rows = <<>>
  BY <1>2 DEF Blank
<1>4. Fresh \in [content : Content, store : Place, held : SUBSET Experiment, jobs : SUBSET Nat]
      /\ Fresh.store = None /\ Fresh.held = {} /\ Fresh.jobs = {}
  BY <1>2 DEF Fresh
<1>5. TypeOK
  BY <1>3, <1>4 DEF Init, TypeOK
<1>6. \A e \in Experiment : ~disk[e].exists /\ disk[e].rows = <<>>
  BY <1>3 DEF Init
<1>7. JournalInv
  BY <1>6 DEF JournalInv, Readable
<1>8. JobsInv /\ TargetsInv /\ ContentInv
  BY <1>1, <1>4 DEF Init, JobsInv, TargetsInv, ContentInv
<1> QED
  BY <1>5, <1>7, <1>8 DEF RecorderInd

\* Every step keeps the invariant.
LEMMA RecorderStep ==
  ASSUME RecorderInd, Sound, [Next]_rvars
  PROVE  RecorderInd'
<1>1. CASE \E type \in Kinds : Begin(type)
  BY <1>1, BeginKeeps
<1>2. CASE Change \/ JobAction
  BY <1>2, WorkKeeps
<1>3. CASE WorkDone \/ Fails \/ Close
  BY <1>3, ConcludeKeeps
<1>4. CASE \E e \in Experiment : Initialize(e)
  BY <1>4, InitializeKeeps
<1>5. CASE \E e \in Experiment : OpenExperiment(e)
  BY <1>5, OpenKeeps
<1>6. CASE \E e \in Experiment : Fork(e)
  BY <1>6, ForkKeeps
<1>7. CASE \E e \in Experiment, target \in 1..issued : Replay(e, target)
  BY <1>7, ReplayKeeps
<1>8. CASE \E e \in Experiment : Record(e)
  BY <1>8, RecordKeeps
<1>9. CASE Interrupt \/ \E e \in Experiment : RecordRaises(e)
  BY <1>9, UnwindingKeeps
<1>10. CASE \E e \in Experiment : Unwind(e)
  BY <1>10, UnwindKeeps
<1>11. CASE Adopt
  BY <1>11, AdoptKeeps
<1>12. CASE Discard \/ Crash
  BY <1>12, DiscardKeeps
<1>13. CASE UNCHANGED rvars
  BY <1>13 DEF rvars, RecorderInd, TypeOK, JournalInv, JobsInv, TargetsInv, ContentInv, Busy,
              Attachments, Committed
<1> QED
  BY <1>1, <1>2, <1>3, <1>4, <1>5, <1>6, <1>7, <1>8, <1>9, <1>10, <1>11, <1>12, <1>13 DEF Next

\* Between statements nothing is committed ahead of the session, which therefore is the
\* committed state and holds the one lease.
LEMMA IndCommitted == ASSUME RecorderInd, InterruptsEarly PROVE SessionIsCommitted
<1>1. ASSUME stmt = Idle PROVE stmt.phase = "idle" /\ ~Committed
  BY <1>1 DEF Idle, Committed, Busy
<1> QED
  BY <1>1 DEF RecorderInd, ContentInv, SessionIsCommitted

\* Every journal passes the strict reader.
LEMMA IndReadable == ASSUME RecorderInd PROVE JournalReadable
BY DEF RecorderInd, JournalInv, Readable, JournalReadable

\* A job in effect has the recorded success of its statement in every journal that knows it.
LEMMA IndJobs == ASSUME RecorderInd PROVE JobsFollowOutcome
<1>1. ASSUME NEW cmd \in client.jobs, NEW e \in Experiment,
             \E r \in ToSet(disk[e].rows) : r.kind = "submitted" /\ r.cmd = cmd
      PROVE  \E r \in ToSet(disk[e].rows) : r.kind = "outcome" /\ r.cmd = cmd /\ r.status = "ok"
  <2>1. Intended(disk[e].rows, cmd)
    BY <1>1, Members DEF Intended
  <2>2. PICK i \in DOMAIN disk[e].rows :
          /\ disk[e].rows[i].kind = "outcome" /\ disk[e].rows[i].cmd = cmd
          /\ disk[e].rows[i].status = "ok"
    BY <2>1 DEF RecorderInd, JobsInv, Succeeded
  <2>3. disk[e].rows[i] \in ToSet(disk[e].rows)
    BY <2>2, Members
  <2> QED
    BY <2>2, <2>3
<1> QED
  BY <1>1 DEF JobsFollowOutcome

\* The invariant of the statement transaction, for any number of experiments and commands and
\* any choice of failures, interrupts and crashes.
THEOREM TransactionInvariant ==
  ASSUME Sound
  PROVE  RecorderSpec => []RecorderInd
<1>1. Init => RecorderInd
  BY RecorderInit
<1>2. RecorderInd /\ [Next]_rvars => RecorderInd'
  BY RecorderStep
<1> QED
  BY <1>1, <1>2, PTL DEF RecorderSpec

\* As long as Ctrl-C does not fall among the outcomes, the session between statements is the
\* committed state of the open experiment and holds its lease and no other (recorder.py,
\* _Recorder.run; SessionIsCommitted).
THEOREM SessionCommitted ==
  ASSUME Sound, InterruptsEarly
  PROVE  RecorderSpec => []SessionIsCommitted
<1>1. RecorderInd => SessionIsCommitted
  BY IndCommitted
<1> QED
  BY <1>1, TransactionInvariant, PTL

\* Whatever failed, was interrupted or died, the strict reader accepts every journal
\* (journal.py; JournalReadable).
THEOREM JournalsReadable ==
  ASSUME Sound
  PROVE  RecorderSpec => []JournalReadable
<1>1. RecorderInd => JournalReadable
  BY IndReadable
<1> QED
  BY <1>1, TransactionInvariant, PTL

\* Job actions take effect behind the recorded success of their statement only
\* (recorder.py, _Recorder.run; JobsFollowOutcome).
THEOREM JobsAfterOutcome ==
  ASSUME Sound
  PROVE  RecorderSpec => []JobsFollowOutcome
<1>1. RecorderInd => JobsFollowOutcome
  BY IndJobs
<1> QED
  BY <1>1, TransactionInvariant, PTL
=============================================================================
