---------------------------- MODULE StoreProofs ----------------------------
(* Proofs about Store, for every set of objects and blobs, every limit and
   record size, and every choice of users, statements and faults. *)
EXTENDS Store, FiniteSetTheorems, TLAPS

USE StoreAssumption

(***************************************************************************)
(* Type correctness                                                        *)
(***************************************************************************)

\* What an index asks for on disk is made of manifests and blobs.
LEMMA PayloadTypes == \A i \in Index : Live(i) \subseteq Object \cup Blob
BY DEF Index, Live, PayloadsOf

\* The record _Persistence.commit prepares is an index, _Store.commit's input.
LEMMA PreparedType ==
    ASSUME TypeOK, NEW new \in SUBSET Object, NEW avail \in SUBSET Object,
           NEW recipes \in SUBSET Blob, NEW limit \in Limits
    PROVE  Prepared(new, avail, recipes, limit) \in Index
BY DEF TypeOK, Index, Prepared

\* The recovery authority is an index.
LEMMA DurableType == TypeOK => Durable \in Index
BY DEF TypeOK, Durable, Journal

\* Leaving the store keeps the types, whatever the step does to the disk.
LEMMA LeaveType ==
    ASSUME TypeOK, Leave
    PROVE  /\ holder' \in Holder /\ pc' \in Stage
           /\ mem' \in Index /\ next' \in Index
           /\ todo' \subseteq Object \cup Blob /\ created' \subseteq Object \cup Blob
           /\ cap' \in Limits \cup {None}
           /\ holder' = "none" <=> pc' = "closed"
BY DurableType DEF Leave, Quiet, Holder, Stage

\* Every journal record _Journal.append writes keeps the journal typed.
LEMMA AppendType ==
    ASSUME TypeOK, NEW b \in Nat
    PROVE  /\ Appended(b) \in Journal /\ Closed(b) \in Journal
           /\ [Appended(b) EXCEPT !.pending = TRUE] \in Journal
           /\ [Closed(b) EXCEPT !.latest = next] \in Journal
           /\ [journal EXCEPT !.torn = TRUE] \in Journal
<1>1. journal \in Journal /\ next \in Index /\ journal.bytes + b \in Nat
  BY DEF TypeOK, Journal
<1>2. Appended(b) \in Journal /\ Closed(b) \in Journal
  BY <1>1 DEF Appended, Closed, Journal
<1>3. \A j \in Journal : /\ [j EXCEPT !.pending = TRUE] \in Journal
                        /\ [j EXCEPT !.latest = next] \in Journal
                        /\ [j EXCEPT !.torn = TRUE] \in Journal
  BY <1>1 DEF Journal
<1> QED BY <1>1, <1>2, <1>3

\* _Store.__init__, recover and attach_store keep the types.
LEMMA OpeningType == TypeOK /\ Opening => TypeOK'
<1> SUFFICES ASSUME TypeOK, Opening PROVE TypeOK'
  OBVIOUS
<1>0. AfterIndex \in {"settle", "sweep"}
  BY DEF AfterIndex
<1>1. ASSUME NEW u \in Users, Open(u) PROVE TypeOK'
  <2>1. u \in Holder /\ u # "none" /\ pc' \in Stage /\ pc' # "closed"
    BY <1>0, <1>1 DEF Open, Holder, Stage
  <2> QED BY <1>1, <2>1, DurableType DEF Open, TypeOK, Quiet, Recovered
<1>2. ASSUME Reindex PROVE TypeOK'
  BY <1>0, <1>2 DEF Reindex, TypeOK, memory, Stage, Journal
<1>3. ASSUME Interrupt PROVE TypeOK'
  BY <1>3, AppendType DEF Interrupt, TypeOK, memory, Stage
<1>4. ASSUME OpenFails PROVE TypeOK'
  BY <1>4, LeaveType DEF OpenFails, TypeOK
<1>5. ASSUME SweepPrepared PROVE TypeOK'
  BY <1>5 DEF SweepPrepared, TypeOK, memory
<1>6. ASSUME NEW f \in Object \cup Blob, Sweep(f) PROVE TypeOK'
  BY <1>6 DEF Sweep, TypeOK, memory
<1>7. ASSUME SweepDone PROVE TypeOK'
  <2>1. ASSUME Leave PROVE TypeOK'
    BY <1>7, <2>1, LeaveType DEF SweepDone, TypeOK
  <2>2. ASSUME ~Leave PROVE TypeOK'
    BY <1>7, <2>2 DEF SweepDone, TypeOK, memory, Stage
  <2> QED BY <2>1, <2>2
<1>8. ASSUME Migrate PROVE TypeOK'
  BY <1>8 DEF Migrate, TypeOK, memory, Stage, Journal
<1> QED BY <1>1, <1>2, <1>3, <1>4, <1>5, <1>6, <1>7, <1>8 DEF Opening

\* The end of a statement keeps the types of what it resets.
LEMMA FinishType ==
    ASSUME TypeOK, NEW ok \in BOOLEAN, Finish(ok), pc # "closed"
    PROVE  /\ holder' \in Holder /\ pc' \in Stage
           /\ mem' \in Index /\ next' \in Index
           /\ todo' \subseteq Object \cup Blob /\ created' \subseteq Object \cup Blob
           /\ cap' \in Limits \cup {None}
           /\ holder' = "none" <=> pc' = "closed"
<1>1. CASE holder = "opening" /\ ~ok
  BY <1>1, LeaveType DEF Finish
<1>2. CASE ~(holder = "opening" /\ ~ok)
  BY <1>2 DEF Finish, Quiet, TypeOK, Holder, Stage
<1> QED BY <1>1, <1>2

\* The records of Recorder.run keep the types.
LEMMA RecordingType == TypeOK /\ Recording => TypeOK'
<1> SUFFICES ASSUME TypeOK, Recording PROVE TypeOK'
  OBVIOUS
<1>1. ASSUME Reattach PROVE TypeOK'
  BY <1>1, AppendType DEF Reattach, TypeOK, memory
<1>2. ASSUME NEW limit \in Limits \cup {None}, Begin(limit) PROVE TypeOK'
  BY <1>2, AppendType DEF Begin, TypeOK, Stage
<1>3. ASSUME NEW ok \in BOOLEAN, Settle(ok) PROVE TypeOK'
  <2>1. pc # "closed"
    BY <1>3 DEF Settle
  <2> QED BY <1>3, <2>1, FinishType, AppendType DEF Settle, TypeOK
<1>4. ASSUME Unsettled PROVE TypeOK'
  BY <1>4, FinishType DEF Unsettled, TypeOK
<1>5. ASSUME Reject PROVE TypeOK'
  BY <1>5 DEF Reject, TypeOK, memory, Stage
<1>6. ASSUME Close PROVE TypeOK'
  BY <1>6, LeaveType DEF Close, TypeOK
<1> QED BY <1>1, <1>2, <1>3, <1>4, <1>5, <1>6 DEF Recording

\* _Store.commit keeps the types, file by file.
LEMMA CommittingType == TypeOK /\ Committing => TypeOK'
<1> SUFFICES ASSUME TypeOK, Committing PROVE TypeOK'
  OBVIOUS
<1>1. ASSUME NEW new \in SUBSET Object, NEW avail \in SUBSET Object,
             NEW recipes \in SUBSET Blob, NEW limit \in Limits,
             Prepare(new, avail, recipes, limit)
      PROVE  TypeOK'
  <2>1. next' \in Index
    BY <1>1, PreparedType DEF Prepare
  <2>2. todo' \subseteq Object \cup Blob
    BY <1>1 DEF Prepare, PayloadsOf
  <2> QED BY <1>1, <2>1, <2>2 DEF Prepare, TypeOK, Stage
<1>2. ASSUME NEW f \in Object \cup Blob, Write(f) PROVE TypeOK'
  BY <1>2 DEF Write, TypeOK
<1>3. ASSUME NEW f \in Object \cup Blob, Undo(f) PROVE TypeOK'
  BY <1>3 DEF Undo, TypeOK
<1>4. ASSUME NEW f \in Object \cup Blob, Clean(f) PROVE TypeOK'
  BY <1>4 DEF Clean, TypeOK, memory
<1>5. ASSUME NEW f \in Object \cup Blob \cup {None}, WriteFails(f) PROVE TypeOK'
  BY <1>5 DEF WriteFails, TypeOK, Stage
<1>6. ASSUME Outcome PROVE TypeOK'
  BY <1>6, AppendType DEF Outcome, TypeOK, Stage
<1>7. ASSUME OutcomeFails PROVE TypeOK'
  BY <1>7 DEF OutcomeFails, TypeOK, memory, Stage
<1>8. ASSUME WriteIndex PROVE TypeOK'
  BY <1>8 DEF WriteIndex, IndexTurn, TypeOK, Stage
<1>9. ASSUME IndexFails PROVE TypeOK'
  BY <1>9 DEF IndexFails, IndexTurn, TypeOK, memory, Stage
<1>10. ASSUME UndoDone PROVE TypeOK'
  BY <1>10 DEF UndoDone, TypeOK, Stage
<1>11. ASSUME CleanDone PROVE TypeOK'
  BY <1>11, FinishType DEF CleanDone, TypeOK
<1> QED BY <1>1, <1>2, <1>3, <1>4, <1>5, <1>6, <1>7, <1>8, <1>9, <1>10, <1>11
        DEF Committing

\* A crash and a lost session.json keep the types.
LEMMA DyingType == TypeOK /\ (Crash \/ LoseIndex) => TypeOK'
<1> SUFFICES ASSUME TypeOK, Crash \/ LoseIndex PROVE TypeOK'
  OBVIOUS
<1>1. ASSUME Crash PROVE TypeOK'
  <2>1. prepared' \in Nat
    BY <1>1 DEF Crash, TypeOK
  <2>2. [journal EXCEPT !.torn = TRUE] \in Journal
    BY AppendType, 0 \in Nat
  <2>3. journal' \in Journal
    BY <1>1, <2>2 DEF Crash, TypeOK
  <2> QED BY <1>1, <2>1, <2>3, LeaveType DEF Crash, TypeOK
<1>2. ASSUME LoseIndex PROVE TypeOK'
  BY <1>2 DEF LoseIndex, Lost, TypeOK, memory, Index
<1> QED BY <1>1, <1>2

\* A created experiment is well typed.
LEMMA InitType == Init => TypeOK
<1> SUFFICES ASSUME Init PROVE TypeOK
  OBVIOUS
<1>1. disk \in Index
  BY DEF Init, Index
<1>2. journal \in Journal
  <2>1. PICK e \in BOOLEAN :
          journal = [exists |-> e, latest |-> disk, pending |-> FALSE,
                     bytes |-> IF e THEN OutcomeBytes ELSE 0, torn |-> FALSE]
    BY DEF Init
  <2>2. (IF e THEN OutcomeBytes ELSE 0) \in Nat
    OBVIOUS
  <2> QED BY <1>1, <2>1, <2>2 DEF Journal
<1> QED BY <1>1, <1>2 DEF Init, TypeOK, Holder, Stage

\* Every reachable state is well typed, and the lease is held exactly while a
\* process is in the store.
THEOREM TypeCorrect == Spec => []TypeOK
<1>1. TypeOK /\ UNCHANGED vars => TypeOK'
  BY DEF TypeOK, vars
<1>2. TypeOK /\ [Next]_vars => TypeOK'
  BY <1>1, OpeningType, CommittingType, RecordingType, DyingType DEF Next
<1> QED BY <1>2, InitType, PTL DEF Spec

(***************************************************************************)
(* Crash consistency.  PayloadsKept needs that no KeyboardInterrupt falls  *)
(* into the directory fsync behind an index-owned store's index.           *)
(***************************************************************************)

NoInterrupt == "interrupt" \notin Faults

\* The holder's index is the durable one, and a gone index is not durable.
Current == mem = Durable /\ mem.gen >= 0 /\ mem.avail \subseteq mem.known

\* A journal exists exactly while a recorded statement may run.
Owner ==
    /\ pc \in {"reindex", "settle", "attach", "index", "run", "fail"} => journal.exists
    /\ pc = "migrate" => ~journal.exists
    /\ pc \in {"idle", "write", "clean", "undo"} => (holder = "native" <=> ~journal.exists)
    /\ pc \in {"run", "fail", "index", "attach", "migrate"} => Recorded

\* What a commit writes or undoes is never a payload of the current index, and
\* what it has not yet written is all its own index still lacks.
Preparation ==
    /\ pc = "write" => Live(next) \subseteq files \cup todo /\ Promise!Succeeds(next, mem)
                       /\ next.avail \subseteq next.known
    /\ pc \in {"write", "undo"} => (created \cup todo) \cap Live(mem) = {}
    /\ pc = "index" => next = mem

Consistent == TypeOK /\ IndexBehind /\ PayloadsKept /\ Current /\ Owner /\ Preparation

\* A created experiment is consistent.
LEMMA InitConsistent == Init => Consistent
<1> SUFFICES ASSUME Init PROVE Consistent
  OBVIOUS
<1>1. journal.latest = disk /\ journal.exists \in BOOLEAN
  BY DEF Init
<1>2. mem = Durable /\ Live(mem) = {} /\ mem.gen = 0 /\ mem.avail \subseteq mem.known
  BY <1>1 DEF Init, Durable, Live, PayloadsOf
<1>3. IndexBehind
  BY <1>1, <1>2, InitType DEF IndexBehind, Init
<1> QED BY <1>2, <1>3, InitType DEF Init, Consistent, PayloadsKept, Current, Owner, Preparation

\* The process leaves: what is durable and what is on disk decide.
LEMMA LeaveConsistent ==
    ASSUME Consistent, Leave, TypeOK', IndexBehind', Durable' = Durable,
           Live(Durable) \subseteq files'
    PROVE  Consistent'
BY DEF Consistent, Leave, Quiet, Current, Owner, Preparation, PayloadsKept

\* A step outside a commit that keeps the index and its payloads.
LEMMA IdleConsistent ==
    ASSUME Consistent, TypeOK', UNCHANGED <<disk, mem>>,
           journal'.exists = journal.exists, journal'.latest = journal.latest,
           Live(mem) \subseteq files', Owner', pc' \notin {"write", "undo", "index"}
    PROVE  Consistent'
BY DEF Consistent, IndexBehind, PayloadsKept, Current, Durable, Preparation

\* An append that carries no index changes neither of what recovery reads.
LEMMA AppendKeeps ==
    ASSUME TypeOK, NEW b \in Nat
    PROVE  /\ Closed(b).exists = journal.exists /\ Closed(b).latest = journal.latest
           /\ LET j == [Appended(b) EXCEPT !.pending = TRUE]
              IN  j.exists = journal.exists /\ j.latest = journal.latest
           /\ LET j == [journal EXCEPT !.torn = TRUE]
              IN  j.exists = journal.exists /\ j.latest = journal.latest
           /\ LET j == [Closed(b) EXCEPT !.latest = next]
              IN  j.exists = journal.exists /\ j.latest = next
<1>1. \A j \in Journal : j = [exists |-> j.exists, latest |-> j.latest,
                             pending |-> j.pending, bytes |-> j.bytes, torn |-> j.torn]
  BY DEF Journal
<1> QED BY <1>1 DEF TypeOK, Appended, Closed, Journal

\* Recovery and its sweep delete nothing the index needs (store.py:206-249).
LEMMA OpeningConsistent == Consistent /\ Opening => Consistent'
<1> SUFFICES ASSUME Consistent, Opening PROVE Consistent'
  OBVIOUS
<1>0. TypeOK /\ TypeOK'
  BY OpeningType DEF Consistent
<1>1. ASSUME NEW u \in Users, Open(u) PROVE Consistent'
  <2>1. Live(mem)' \subseteq files' /\ mem' = mem
    BY <1>1 DEF Open, Consistent, PayloadsKept, Current, Recovered, Live, PayloadsOf
  <2>2. Owner'
    BY <1>1 DEF Open, AfterIndex, Owner
  <2>3. pc' \in {"reindex", "settle", "sweep"}
    BY <1>1 DEF Open, AfterIndex
  <2> QED BY <1>0, <1>1, <2>1, <2>2, <2>3, IdleConsistent DEF Open, Live, PayloadsOf
<1>2. ASSUME Reindex PROVE Consistent'
  <2>1. Owner' /\ pc' \in {"settle", "sweep"}
    BY <1>2 DEF Reindex, AfterIndex, Owner
  <2>2. Durable' = Durable /\ journal.exists
    BY <1>2 DEF Reindex, Durable, Consistent, Owner
  <2>3. IndexBehind'
    BY <1>2, <2>2 DEF Reindex, IndexBehind, Consistent, TypeOK, Journal, Index
  <2> QED BY <1>0, <1>2, <2>1, <2>2, <2>3
          DEF Reindex, memory, Consistent, PayloadsKept, Current, Preparation
<1>3. ASSUME Interrupt PROVE Consistent'
  <2>1. journal'.exists = journal.exists /\ journal'.latest = journal.latest
    BY <1>0, <1>3, AppendKeeps DEF Interrupt
  <2>2. Owner' /\ pc' = "sweep"
    BY <1>3 DEF Interrupt, Owner
  <2>3. Live(mem) \subseteq files'
    BY <1>3 DEF Interrupt, Consistent, PayloadsKept, Current
  <2> QED BY <1>0, <1>3, <2>1, <2>2, <2>3, IdleConsistent DEF Interrupt, memory
<1>4. ASSUME OpenFails PROVE Consistent'
  <2>1. Durable' = Durable /\ IndexBehind' /\ Live(Durable) \subseteq files'
    BY <1>4 DEF OpenFails, Durable, Consistent, IndexBehind, PayloadsKept
  <2> QED BY <1>0, <1>4, <2>1, LeaveConsistent DEF OpenFails
<1>5. ASSUME SweepPrepared PROVE Consistent'
  <2>1. Owner'
    BY <1>5 DEF SweepPrepared, Consistent, Owner, Recorded, memory
  <2>2. Live(mem) \subseteq files'
    BY <1>5 DEF SweepPrepared, Consistent, PayloadsKept, Current
  <2> QED BY <1>0, <1>5, <2>1, <2>2, IdleConsistent DEF SweepPrepared, memory
<1>6. ASSUME NEW f \in Object \cup Blob, Sweep(f) PROVE Consistent'
  <2>1. Owner'
    BY <1>6 DEF Sweep, Consistent, Owner, Recorded, memory
  <2>2. Live(mem) \subseteq files'
    BY <1>6 DEF Sweep, Consistent, PayloadsKept, Current
  <2> QED BY <1>0, <1>6, <2>1, <2>2, IdleConsistent DEF Sweep, memory
<1>7. ASSUME SweepDone PROVE Consistent'
  <2>1. Durable' = Durable /\ IndexBehind' /\ Live(Durable) \subseteq files'
    BY <1>7 DEF SweepDone, Durable, Consistent, IndexBehind, PayloadsKept
  <2>2. ASSUME Leave PROVE Consistent'
    BY <1>0, <2>1, <2>2, LeaveConsistent
  <2>3. ASSUME ~Leave PROVE Consistent'
    <3>1. Owner' /\ pc' \in {"idle", "attach", "migrate"}
      BY <1>7, <2>3 DEF SweepDone, Owner, Recorded, memory
    <3> QED BY <1>0, <1>7, <2>1, <2>3, <3>1, IdleConsistent
            DEF SweepDone, memory, Consistent, Current
  <2> QED BY <2>2, <2>3
<1>8. ASSUME Migrate PROVE Consistent'
  <2>1. ~journal.exists /\ journal'.exists /\ journal'.latest = mem /\ disk' = mem
    BY <1>8 DEF Migrate, Consistent, Owner, Current, Durable
  <2>2. Owner' /\ pc' = "attach" /\ mem' = mem
    BY <1>8, <2>1 DEF Migrate, Consistent, Owner, Recorded, memory
  <2>3. Durable' = mem /\ IndexBehind'
    BY <1>0, <2>1 DEF Durable, IndexBehind, TypeOK, Index
  <2>4. PayloadsKept'
    BY <1>8, <2>3 DEF Migrate, Consistent, PayloadsKept, Current
  <2>5. Current' /\ Preparation'
    BY <2>2, <2>3 DEF Consistent, Current, Preparation
  <2> QED BY <1>0, <2>2, <2>3, <2>4, <2>5 DEF Consistent
<1> QED BY <1>1, <1>2, <1>3, <1>4, <1>5, <1>6, <1>7, <1>8 DEF Opening

\* Intents and outcomes without an index leave files and index alone.
LEMMA RecordingConsistent == Consistent /\ Recording => Consistent'
<1> SUFFICES ASSUME Consistent, Recording PROVE Consistent'
  OBVIOUS
<1>0. TypeOK /\ TypeOK' /\ Live(mem) \subseteq files
  BY RecordingType DEF Consistent, PayloadsKept, Current
<1>1. ASSUME Reattach PROVE Consistent'
  <2>1. journal'.exists = journal.exists /\ journal'.latest = journal.latest
    BY <1>0, <1>1, AppendKeeps DEF Reattach
  <2>2. Owner'
    BY <1>1, <2>1 DEF Reattach, Consistent, Owner, Recorded, memory
  <2> QED BY <1>0, <1>1, <2>1, <2>2, IdleConsistent DEF Reattach, memory
<1>2. ASSUME NEW limit \in Limits \cup {None}, Begin(limit) PROVE Consistent'
  <2>1. journal'.exists = journal.exists /\ journal'.latest = journal.latest
    BY <1>0, <1>2, AppendKeeps DEF Begin
  <2>2. Owner'
    BY <1>2, <2>1 DEF Begin, Consistent, Owner, Recorded
  <2> QED BY <1>0, <1>2, <2>1, <2>2, IdleConsistent DEF Begin
<1>3. ASSUME NEW ok \in BOOLEAN, Finish(ok), pc \in {"run", "fail"},
             UNCHANGED <<files, disk>>,
             journal'.exists = journal.exists, journal'.latest = journal.latest
      PROVE  Consistent'
  <2>1. Durable' = Durable
    BY <1>3 DEF Durable
  <2>4. IndexBehind'
    BY <1>3 DEF Consistent, IndexBehind
  <2>5. Live(Durable) \subseteq files'
    BY <1>3 DEF Consistent, PayloadsKept
  <2>2. ASSUME Leave PROVE Consistent'
    BY <1>0, <2>1, <2>2, <2>4, <2>5, LeaveConsistent
  <2>3. ASSUME ~Leave PROVE Consistent'
    <3>1. Owner' /\ pc' = "idle" /\ mem' = mem
      BY <1>3, <2>3 DEF Finish, Consistent, Owner, Recorded
    <3> QED BY <1>0, <1>3, <3>1, IdleConsistent
  <2> QED BY <2>2, <2>3
<1>4. ASSUME NEW ok \in BOOLEAN, Settle(ok) PROVE Consistent'
  BY <1>0, <1>3, <1>4, AppendKeeps DEF Settle
<1>5. ASSUME Unsettled PROVE Consistent'
  BY <1>3, <1>5 DEF Unsettled
<1>6. ASSUME Reject PROVE Consistent'
  <2>1. Owner'
    BY <1>6 DEF Reject, Consistent, Owner, Recorded, memory
  <2> QED BY <1>0, <1>6, <2>1, IdleConsistent DEF Reject, memory
<1>7. ASSUME Close PROVE Consistent'
  <2>1. Durable' = Durable /\ IndexBehind' /\ Live(Durable) \subseteq files'
    BY <1>7 DEF Close, Durable, Consistent, IndexBehind, PayloadsKept
  <2> QED BY <1>0, <1>7, <2>1, LeaveConsistent DEF Close
<1> QED BY <1>1, <1>2, <1>4, <1>5, <1>6, <1>7 DEF Recording

\* Each step of _Store.commit is consistent: payloads before the commit
\* point, deletions of what the new index does not need after it.
LEMMA CommittingConsistent == NoInterrupt /\ Consistent /\ Committing => Consistent'
<1> SUFFICES ASSUME NoInterrupt, Consistent, Committing PROVE Consistent'
  OBVIOUS
<1>0. /\ TypeOK /\ TypeOK' /\ mem = Durable
      /\ Live(mem) \subseteq files /\ Live(mem) \subseteq Object \cup Blob
  BY CommittingType, PayloadTypes DEF Consistent, PayloadsKept, Current, TypeOK
<1>1. ASSUME NEW new \in SUBSET Object, NEW avail \in SUBSET Object,
             NEW recipes \in SUBSET Blob, NEW limit \in Limits,
             Prepare(new, avail, recipes, limit)
      PROVE  Consistent'
  <2>1. next' = Prepared(new, avail, recipes, limit) /\ mem' = mem
    BY <1>1 DEF Prepare
  <2>2. /\ next'.gen = mem.gen + 1 /\ next'.known = mem.known \cup new
        /\ next'.avail = avail /\ next'.recipes = recipes
    BY <2>1 DEF Prepared
  <2>3. new \cap mem.known = {} /\ avail \subseteq mem.avail \cup new
    BY <1>1 DEF Prepare, Statement
  <2>4. Promise!Succeeds(next', mem) /\ next'.avail \subseteq next'.known
    BY <2>2, <2>3 DEF Promise!Succeeds, Consistent, Current
  <2>5. Live(next') \subseteq Live(mem) \cup PayloadsOf(new) \cup recipes
    BY <2>2, <2>3 DEF Live, PayloadsOf
  <2>6. todo' = (PayloadsOf(new) \cup recipes) \ files /\ created' = {}
    BY <1>1 DEF Prepare
  <2>7. Live(next') \subseteq files' \cup todo' /\ (created' \cup todo') \cap Live(mem) = {}
    BY <1>0, <1>1, <2>5, <2>6 DEF Prepare
  <2>8. Preparation'
    BY <1>1, <2>1, <2>4, <2>7 DEF Preparation, Prepare
  <2>9. Owner'
    BY <1>1 DEF Consistent, Owner, Prepare, Recorded
  <2> QED BY <1>0, <1>1, <2>8, <2>9
          DEF Prepare, Consistent, IndexBehind, PayloadsKept, Current, Durable
<1>2. ASSUME NEW f \in Object \cup Blob, Write(f) PROVE Consistent'
  <2>1. Owner'
    BY <1>2 DEF Write, Consistent, Owner, Recorded
  <2>2. Preparation'
    BY <1>2 DEF Write, Consistent, Preparation
  <2> QED BY <1>0, <1>2, <2>1, <2>2
          DEF Write, Consistent, IndexBehind, PayloadsKept, Current, Durable
<1>3. ASSUME NEW f \in Object \cup Blob, Undo(f) PROVE Consistent'
  <2>1. Owner'
    BY <1>3 DEF Undo, Consistent, Owner, Recorded
  <2>2. Preparation' /\ f \notin Live(mem)
    BY <1>3 DEF Undo, Consistent, Preparation
  <2> QED BY <1>0, <1>3, <2>1, <2>2
          DEF Undo, Consistent, IndexBehind, PayloadsKept, Current, Durable
<1>4. ASSUME NEW f \in Object \cup Blob, Clean(f) PROVE Consistent'
  <2>1. Owner'
    BY <1>4 DEF Clean, Consistent, Owner, Recorded, memory
  <2>2. f \notin Live(mem)
    <3>1. f \in (mem.known \ mem.avail) \cup (Blob \ Live(mem))
      BY <1>4 DEF Clean, Garbage
    <3>2. \A o \in mem.avail : BlobsOf[o] \subseteq Blob
      BY <1>0 DEF TypeOK, Index
    <3>3. mem.known \subseteq Object /\ mem.recipes \subseteq Blob
      BY <1>0 DEF TypeOK, Index
    <3> QED BY <3>1, <3>2, <3>3 DEF Live, PayloadsOf
  <2>3. Live(mem) \subseteq files' /\ pc' = "clean"
    BY <1>0, <1>4, <2>2 DEF Clean
  <2> QED BY <1>0, <1>4, <2>1, <2>3, IdleConsistent DEF Clean, memory
<1>5. ASSUME NEW f \in Object \cup Blob \cup {None}, WriteFails(f) PROVE Consistent'
  <2>1. Owner'
    BY <1>5 DEF WriteFails, Consistent, Owner, Recorded
  <2>2. Preparation'
    BY <1>5 DEF WriteFails, Consistent, Preparation
  <2>3. files \subseteq files'
    BY <1>5 DEF WriteFails
  <2> QED BY <1>0, <1>5, <2>1, <2>2, <2>3
          DEF WriteFails, Consistent, IndexBehind, PayloadsKept, Current, Durable
<1>6. ASSUME Outcome PROVE Consistent'
  <2>1. journal'.exists = journal.exists /\ journal'.latest = next
    BY <1>0, <1>6, AppendKeeps DEF Outcome
  <2>2. journal.exists /\ journal.latest = mem /\ Recorded /\ holder # "native"
    BY <1>0, <1>6 DEF Outcome, Consistent, Owner, Recorded, Durable
  <2>3. Owner'
    BY <1>6, <2>1, <2>2 DEF Outcome, Owner, Recorded
  <2>4. /\ Live(next) \subseteq files /\ next.gen = mem.gen + 1
        /\ next.avail \subseteq next.known
    BY <1>6 DEF Outcome, Consistent, Preparation, Promise!Succeeds
  <2>5. Durable' = next /\ mem' = next
    BY <1>6, <2>1, <2>2 DEF Outcome, Durable
  <2>6. IndexBehind'
    <3>1. disk.gen <= mem.gen /\ disk.gen \in Int /\ mem.gen \in Int
      BY <1>0, <2>2 DEF Consistent, IndexBehind, TypeOK, Index
    <3>2. disk'.gen < journal'.latest.gen
      BY <1>6, <2>1, <2>4, <3>1 DEF Outcome
    <3> QED BY <1>0, <3>1, <3>2 DEF IndexBehind, TypeOK, Index, Journal
  <2>7. Current'
    BY <1>0, <2>4, <2>5 DEF Current, Consistent, TypeOK, Index
  <2>8. PayloadsKept' /\ Preparation'
    BY <1>6, <2>4, <2>5 DEF Outcome, PayloadsKept, Preparation
  <2> QED BY <1>0, <2>3, <2>6, <2>7, <2>8 DEF Consistent
<1>7. ASSUME OutcomeFails PROVE Consistent'
  <2>1. Owner'
    BY <1>7 DEF OutcomeFails, Consistent, Owner, Recorded, memory
  <2>2. Preparation'
    BY <1>7 DEF OutcomeFails, Consistent, Preparation, memory
  <2> QED BY <1>0, <1>7, <2>1, <2>2
          DEF OutcomeFails, memory, Consistent, IndexBehind, PayloadsKept, Current, Durable
<1>8. ASSUME WriteIndex PROVE Consistent'
  <2>1. Owner'
    BY <1>8 DEF WriteIndex, IndexTurn, Consistent, Owner, Recorded
  <2>2. CASE pc = "index"
    <3>1. next = mem /\ journal.exists /\ journal.latest = mem
      BY <1>0, <2>2 DEF Consistent, Preparation, Owner, Durable
    <3>2. Durable' = mem /\ mem' = mem /\ disk' = mem /\ journal' = journal
      BY <1>8, <3>1 DEF WriteIndex, Durable
    <3>3. IndexBehind' /\ PayloadsKept' /\ Current' /\ Preparation'
      BY <1>0, <1>8, <3>1, <3>2
         DEF WriteIndex, Consistent, IndexBehind, PayloadsKept, Current, Preparation,
             TypeOK, Index
    <3> QED BY <1>0, <2>1, <3>3 DEF Consistent
  <2>3. CASE pc = "write" /\ todo = {} /\ holder = "native"
    <3>1. ~journal.exists /\ Durable' = next /\ mem' = next
      BY <1>8, <2>3 DEF WriteIndex, Consistent, Owner, Durable
    <3>2. /\ Live(next) \subseteq files /\ next.gen = mem.gen + 1
          /\ next.avail \subseteq next.known
      BY <2>3 DEF Consistent, Preparation, Promise!Succeeds
    <3>3. IndexBehind' /\ PayloadsKept' /\ Preparation'
      BY <1>8, <3>1, <3>2 DEF WriteIndex, IndexBehind, PayloadsKept, Preparation
    <3>4. Current'
      BY <1>0, <3>1, <3>2 DEF Current, Consistent, TypeOK, Index
    <3> QED BY <1>0, <2>1, <3>3, <3>4 DEF Consistent
  <2> QED BY <1>8, <2>2, <2>3 DEF WriteIndex, IndexTurn
<1>9. ASSUME IndexFails PROVE Consistent'
  <2>0. disk' = disk /\ files' = files /\ journal' = journal /\ mem' = mem
    BY <1>9 DEF IndexFails, NoInterrupt, memory
  <2>1. Owner'
    BY <1>9 DEF IndexFails, IndexTurn, Consistent, Owner, Recorded, memory
  <2>2. Preparation'
    BY <1>9 DEF IndexFails, IndexTurn, Consistent, Preparation, Owner, Recorded, memory
  <2> QED BY <1>0, <2>0, <2>1, <2>2
          DEF Consistent, IndexBehind, PayloadsKept, Current, Durable
<1>10. ASSUME UndoDone PROVE Consistent'
  <2>1. Owner'
    BY <1>10 DEF UndoDone, Consistent, Owner, Recorded, TypeOK, Holder
  <2>2. pc' \notin {"write", "undo", "index"}
    BY <1>10 DEF UndoDone
  <2> QED BY <1>0, <1>10, <2>1, <2>2, IdleConsistent DEF UndoDone
<1>11. ASSUME CleanDone PROVE Consistent'
  <2>1. Owner' /\ pc' = "idle" /\ mem' = mem
    BY <1>11 DEF CleanDone, Finish, Consistent, Owner, Recorded
  <2> QED BY <1>0, <1>11, <2>1, IdleConsistent DEF CleanDone
<1> QED BY <1>1, <1>2, <1>3, <1>4, <1>5, <1>6, <1>7, <1>8, <1>9, <1>10, <1>11
        DEF Committing

\* The process may die at any step of an open or of a commit.
LEMMA DyingConsistent == Consistent /\ (Crash \/ LoseIndex) => Consistent'
<1> SUFFICES ASSUME Consistent, Crash \/ LoseIndex PROVE Consistent'
  OBVIOUS
<1>0. TypeOK /\ TypeOK'
  BY DyingType DEF Consistent
<1>1. ASSUME Crash PROVE Consistent'
  <2>1. journal'.exists = journal.exists /\ journal'.latest = journal.latest
    BY <1>0, <1>1, AppendKeeps, 0 \in Nat DEF Crash
  <2>2. Durable' = Durable
    BY <1>1, <2>1 DEF Crash, Durable
  <2>3. IndexBehind'
    BY <1>1, <2>1 DEF Crash, Consistent, IndexBehind
  <2>4. Live(Durable) \subseteq files'
    BY <1>1 DEF Crash, Consistent, PayloadsKept
  <2> QED BY <1>0, <1>1, <2>2, <2>3, <2>4, LeaveConsistent DEF Crash
<1>2. ASSUME LoseIndex PROVE Consistent'
  <2>1. journal.exists /\ journal' = journal /\ mem' = mem /\ files' = files
    BY <1>2 DEF LoseIndex, memory
  <2>2. Durable' = Durable
    BY <2>1 DEF Durable
  <2>3. disk'.gen = -1 /\ journal.latest.gen >= 0
    BY <1>0, <1>2, <2>1 DEF LoseIndex, Lost, TypeOK, Index, Consistent, Current, Durable
  <2>4. IndexBehind'
    BY <1>0, <2>1, <2>3 DEF IndexBehind, TypeOK, Journal, Index
  <2>5. Owner' /\ Preparation'
    BY <1>2 DEF LoseIndex, memory, Consistent, Owner, Preparation, Recorded
  <2> QED BY <1>0, <2>1, <2>2, <2>4, <2>5 DEF Consistent, PayloadsKept, Current
<1> QED BY <1>1, <1>2

\* Crash consistency: the durable index, the files and the holder agree at
\* every step of every open, commit, undo, cleanup and crash.
THEOREM CrashConsistent == NoInterrupt => (Spec => []Consistent)
<1> SUFFICES ASSUME NoInterrupt PROVE Spec => []Consistent
  OBVIOUS
<1>1. Consistent /\ UNCHANGED vars => Consistent'
  BY DEF Consistent, vars, TypeOK, IndexBehind, PayloadsKept, Current, Durable,
         Owner, Recorded, Preparation
<1>2. Consistent /\ [Next]_vars => Consistent'
  BY <1>1, OpeningConsistent, CommittingConsistent, RecordingConsistent,
     DyingConsistent DEF Next
<1> QED BY <1>2, InitConsistent, PTL DEF Spec

\* Every payload the durable index calls available is on disk with its blobs,
\* whatever fails and whenever the process dies (store.py:251-304).
THEOREM PayloadsSafe == NoInterrupt => (Spec => []PayloadsKept)
<1>1. Consistent => PayloadsKept
  BY DEF Consistent
<1> QED BY <1>1, CrashConsistent, PTL

\* Recovery never meets an index that its journal does not explain, so it
\* never refuses a store the program wrote itself (journal.py:113).
THEOREM NeverUnrecorded == NoInterrupt => (Spec => []IndexBehind)
<1>1. Consistent => IndexBehind
  BY DEF Consistent
<1> QED BY <1>1, CrashConsistent, PTL

(***************************************************************************)
(* Refinement: the store implements AtomicStore                            *)
(***************************************************************************)

View == IF pc \in Away THEN None ELSE mem

\* A step that leaves the durable index alone and does not begin, or ends, the
\* service of the index is a stutter, an opening or a closing of AtomicStore.
LEMMA ServiceStep ==
    ASSUME Consistent, Durable' = Durable, mem' = mem,
           pc' \notin Away => pc \notin Away \/ View = None
    PROVE  [Promise!Next]_(Promise!aVars)
<1>1. CASE View' = View
  BY <1>1 DEF View, Promise!aVars
<1>2. CASE pc' \in Away
  BY <1>2 DEF Promise!Next, Promise!Leave
<1>3. CASE pc' \notin Away /\ pc \in Away
  BY <1>3 DEF Consistent, Current, Promise!Next, Promise!Open
<1> QED BY <1>1, <1>2, <1>3 DEF View

\* Leaving the store closes the view.
LEMMA AwayStep ==
    ASSUME Durable' = Durable, pc' \in Away
    PROVE  [Promise!Next]_(Promise!aVars)
BY DEF Promise!Next, Promise!Leave

\* The two commit points are the commits of AtomicStore.
LEMMA CommitStep ==
    ASSUME Consistent, pc = "write", Durable' = next, mem' = next, pc' \notin Away
    PROVE  [Promise!Next]_(Promise!aVars)
<1>1. Promise!Succeeds(next, Durable) /\ mem = Durable /\ mem.gen >= 0
  BY DEF Consistent, Preparation, Current
<1>2. mem \in Index /\ next \in Index
  BY DEF Consistent, TypeOK
<1>3. next \in Promise!Index
  <2>1. next.gen \in Nat
    BY <1>1, <1>2 DEF Promise!Succeeds, Index
  <2> QED BY <1>2, <2>1 DEF Index, Promise!Index
<1>4. pc \notin Away
  BY DEF Away
<1> QED BY <1>1, <1>3, <1>4 DEF Promise!Next, Promise!Commit

\* Every step of the store is a step of AtomicStore or leaves it alone.
LEMMA StepImplements == NoInterrupt /\ Consistent /\ [Next]_vars => [Promise!Next]_(Promise!aVars)
<1> SUFFICES ASSUME NoInterrupt, Consistent, [Next]_vars
             PROVE  [Promise!Next]_(Promise!aVars)
  OBVIOUS
<1>0. TypeOK /\ mem = Durable
  BY DEF Consistent, Current
<1>1. CASE UNCHANGED vars
  BY <1>1, ServiceStep DEF vars, Durable
<1>2. ASSUME Leave, UNCHANGED <<disk>>,
             journal'.exists = journal.exists, journal'.latest = journal.latest
      PROVE  [Promise!Next]_(Promise!aVars)
  BY <1>2, AwayStep DEF Leave, Durable, Away
<1>3. CASE Opening
  <2>1. ASSUME NEW u \in Users, Open(u) PROVE [Promise!Next]_(Promise!aVars)
    BY <2>1, AwayStep DEF Open, Durable, AfterIndex, Away
  <2>2. CASE Reindex
    BY <2>2, AwayStep DEF Reindex, Durable, AfterIndex, Away, Consistent, Owner
  <2>3. CASE Interrupt
    BY <1>0, <2>3, AwayStep, AppendKeeps DEF Interrupt, Durable, Away
  <2>4. CASE OpenFails
    BY <1>2, <2>4 DEF OpenFails
  <2>5. CASE SweepPrepared
    BY <2>5, AwayStep DEF SweepPrepared, Durable, Away
  <2>6. ASSUME NEW f \in Object \cup Blob, Sweep(f) PROVE [Promise!Next]_(Promise!aVars)
    BY <2>6, AwayStep DEF Sweep, Durable, Away
  <2>7. CASE SweepDone
    <3>1. CASE Leave
      BY <1>2, <2>7, <3>1 DEF SweepDone
    <3>2. CASE ~Leave
      BY <2>7, <3>2, ServiceStep DEF SweepDone, Durable, View, Away, memory
    <3> QED BY <3>1, <3>2
  <2>8. CASE Migrate
    <3>1. Durable' = Durable
      BY <1>0, <2>8 DEF Migrate, Durable
    <3> QED BY <2>8, <3>1, AwayStep DEF Migrate, Away
  <2> QED BY <1>3, <2>1, <2>2, <2>3, <2>4, <2>5, <2>6, <2>7, <2>8 DEF Opening
<1>4. CASE Recording
  <2>1. CASE Reattach
    BY <1>0, <2>1, ServiceStep, AppendKeeps DEF Reattach, Durable, memory, Away
  <2>2. ASSUME NEW limit \in Limits \cup {None}, Begin(limit)
        PROVE  [Promise!Next]_(Promise!aVars)
    BY <1>0, <2>2, ServiceStep, AppendKeeps DEF Begin, Durable, View, Away
  <2>3. ASSUME NEW ok \in BOOLEAN, Finish(ok), pc \in {"run", "fail"},
               UNCHANGED <<disk>>,
               journal'.exists = journal.exists, journal'.latest = journal.latest
        PROVE  [Promise!Next]_(Promise!aVars)
    <3>1. CASE Leave
      BY <1>2, <2>3, <3>1
    <3>2. CASE ~Leave
      BY <2>3, <3>2, ServiceStep DEF Finish, Durable, Away
    <3> QED BY <3>1, <3>2
  <2>4. ASSUME NEW ok \in BOOLEAN, Settle(ok) PROVE [Promise!Next]_(Promise!aVars)
    BY <1>0, <2>3, <2>4, AppendKeeps DEF Settle
  <2>5. CASE Unsettled
    BY <2>3, <2>5 DEF Unsettled
  <2>6. CASE Reject
    BY <2>6, ServiceStep DEF Reject, Durable, memory, Away
  <2>7. CASE Close
    BY <1>2, <2>7 DEF Close
  <2> QED BY <1>4, <2>1, <2>2, <2>4, <2>5, <2>6, <2>7 DEF Recording
<1>5. CASE Committing
  <2>1. ASSUME NEW new \in SUBSET Object, NEW avail \in SUBSET Object,
               NEW recipes \in SUBSET Blob, NEW limit \in Limits,
               Prepare(new, avail, recipes, limit)
        PROVE  [Promise!Next]_(Promise!aVars)
    BY <2>1, ServiceStep DEF Prepare, Durable, Away
  <2>2. ASSUME NEW f \in Object \cup Blob, Write(f) \/ Undo(f) \/ Clean(f)
        PROVE  [Promise!Next]_(Promise!aVars)
    BY <2>2, ServiceStep DEF Write, Undo, Clean, Durable, memory, Away
  <2>3. ASSUME NEW f \in Object \cup Blob \cup {None}, WriteFails(f)
        PROVE  [Promise!Next]_(Promise!aVars)
    BY <2>3, ServiceStep DEF WriteFails, Durable, Away
  <2>4. CASE Outcome
    <3>1. journal'.exists = journal.exists /\ journal'.latest = next
      BY <1>0, <2>4, AppendKeeps DEF Outcome
    <3>2. journal.exists
      BY <2>4 DEF Outcome, Consistent, Owner, Recorded
    <3> QED BY <2>4, <3>1, <3>2, CommitStep DEF Outcome, Durable, Away
  <2>5. CASE OutcomeFails
    BY <2>5, ServiceStep DEF OutcomeFails, Durable, memory, Away
  <2>6. CASE WriteIndex
    <3>1. CASE pc = "index"
      <4>1. Durable' = Durable /\ mem' = mem
        BY <2>6, <3>1 DEF WriteIndex, Durable, Consistent, Preparation, Owner
      <4> QED BY <2>6, <3>1, <4>1, ServiceStep DEF WriteIndex, Away
    <3>2. CASE pc = "write" /\ todo = {} /\ holder = "native"
      <4>1. Durable' = next
        BY <2>6, <3>2 DEF WriteIndex, Durable, Consistent, Owner
      <4> QED BY <2>6, <3>2, <4>1, CommitStep DEF WriteIndex, Away
    <3> QED BY <2>6, <3>1, <3>2 DEF WriteIndex, IndexTurn
  <2>7. CASE IndexFails
    <3>1. pc \notin Away /\ Durable' = Durable /\ mem' = mem
      BY <2>7 DEF IndexFails, IndexTurn, NoInterrupt, Durable, memory, Away
    <3> QED BY <3>1, ServiceStep
  <2>8. CASE UndoDone
    BY <2>8, ServiceStep DEF UndoDone, Durable, Away
  <2>9. CASE CleanDone
    BY <2>9, ServiceStep DEF CleanDone, Finish, Durable, Away
  <2> QED BY <1>5, <2>1, <2>2, <2>3, <2>4, <2>5, <2>6, <2>7, <2>8, <2>9 DEF Committing
<1>6. CASE Crash
  BY <1>0, <1>2, <1>6, AppendKeeps, 0 \in Nat DEF Crash
<1>7. CASE LoseIndex
  BY <1>7, AwayStep DEF LoseIndex, Durable, Away
<1> QED BY <1>1, <1>3, <1>4, <1>5, <1>6, <1>7 DEF Next

\* A created experiment is an initial state of AtomicStore.
LEMMA InitImplements == Init => Promise!Init
<1> SUFFICES ASSUME Init PROVE Promise!Init
  OBVIOUS
<1>1. journal.latest = disk
  BY DEF Init
<1>2. disk \in Promise!Index /\ disk.gen = 0 /\ disk.known = {} /\ disk.avail = {}
  BY DEF Init, Promise!Index
<1> QED BY <1>1, <1>2 DEF Init, Promise!Init, Durable, Away

\* The durable index changes only as a whole, by the commit of a process that
\* works on the current one; opening, closing and dying never change it.
THEOREM Implements == NoInterrupt => (Spec => ImplementsAtomic)
<1> SUFFICES ASSUME NoInterrupt PROVE Spec => ImplementsAtomic
  OBVIOUS
<1> QED BY InitImplements, StepImplements, CrashConsistent, PTL
        DEF Spec, ImplementsAtomic, Promise!Spec

(***************************************************************************)
(* Nothing is left behind                                                  *)
(***************************************************************************)

\* the files that were there before the current commit
Base == files \ created

\* Outside a commit nothing is pending; inside, only what the commit created may
\* be unknown to the index, and that is what Undo removes.
Tidy ==
    /\ pc \notin {"write", "undo", "index", "clean"} => created = {}
    /\ pc \in {"migrate", "attach", "idle", "run", "write", "undo", "fail"} =>
         /\ Base \cap Object \subseteq mem.known
         /\ ~deferred => Base \subseteq Live(mem)
    /\ pc = "write" => /\ (created \cup todo) \cap Object \subseteq next.known
                       /\ todo \cap files = {}
    /\ pc \in {"index", "clean"} => files \cap Object \subseteq mem.known

\* A created experiment has no file to account for.
LEMMA InitTidy == Init => Tidy
BY DEF Init, Tidy

\* Of the files an index needs, the manifests are those of its objects.
LEMMA LiveObjects ==
    ASSUME NEW i \in Index, i.avail \subseteq i.known
    PROVE  Live(i) \cap Object \subseteq i.known
BY DEF Index, Live, PayloadsOf

\* Every file is accounted for by the index, the commit under way or garbage
\* that a later step removes.
LEMMA TidyStep == NoInterrupt /\ Consistent /\ Tidy /\ Next => Tidy'
<1> SUFFICES ASSUME NoInterrupt, Consistent, Tidy, Next PROVE Tidy'
  OBVIOUS
<1>0. TypeOK /\ mem \in Index /\ mem.avail \subseteq mem.known
  BY DEF Consistent, TypeOK, Current
<1>1. ASSUME Leave PROVE Tidy'
  BY <1>1 DEF Leave, Quiet, Tidy
<1>2. CASE Opening
  <2>1. CASE SweepDone /\ ~Leave
    <3>1. files' = files /\ mem' = mem /\ created' = created /\ created = {}
      BY <2>1 DEF SweepDone, memory, Tidy
    <3>2. files \subseteq Live(mem) /\ files \cap Object \subseteq mem.known
      BY <1>0, <2>1, LiveObjects DEF SweepDone
    <3> QED BY <2>1, <3>1, <3>2 DEF SweepDone, Tidy, Base
  <2>2. CASE Migrate
    BY <2>2 DEF Migrate, memory, Tidy, Base
  <2>3. ASSUME NEW u \in Users, Open(u) PROVE Tidy'
    BY <2>3 DEF Open, Quiet, AfterIndex, Tidy
  <2>4. CASE Reindex \/ Interrupt \/ SweepPrepared \/ \E f \in Object \cup Blob : Sweep(f)
    BY <2>4 DEF Reindex, Interrupt, SweepPrepared, Sweep, memory, AfterIndex, Tidy
  <2>5. CASE OpenFails
    BY <1>1, <2>5 DEF OpenFails
  <2> QED BY <1>1, <1>2, <2>1, <2>2, <2>3, <2>4, <2>5 DEF Opening
<1>3. CASE Recording
  <2>1. ASSUME NEW ok \in BOOLEAN, Finish(ok), pc \in {"run", "fail"},
               UNCHANGED <<files, deferred>>
        PROVE  Tidy'
    BY <1>1, <2>1 DEF Finish, Quiet, Tidy, Base
  <2>2. CASE Reattach \/ Reject
    BY <2>2 DEF Reattach, Reject, memory, Tidy, Base
  <2>3. ASSUME NEW limit \in Limits \cup {None}, Begin(limit) PROVE Tidy'
    BY <2>3 DEF Begin, Tidy, Base
  <2>4. CASE Unsettled \/ \E ok \in BOOLEAN : Settle(ok)
    BY <2>1, <2>4 DEF Unsettled, Settle
  <2>5. CASE Close
    BY <1>1, <2>5 DEF Close
  <2> QED BY <1>3, <2>2, <2>3, <2>4, <2>5 DEF Recording
<1>4. CASE Committing
  <2>1. ASSUME NEW new \in SUBSET Object, NEW avail \in SUBSET Object,
               NEW recipes \in SUBSET Blob, NEW limit \in Limits,
               Prepare(new, avail, recipes, limit)
        PROVE  Tidy'
    <3>1. created = {} /\ created' = {} /\ files' = files /\ mem' = mem
      BY <2>1 DEF Prepare, Tidy
    <3>2. (PayloadsOf(new) \cup recipes) \cap Object \subseteq new
      BY DEF PayloadsOf
    <3>3. todo' = (PayloadsOf(new) \cup recipes) \ files
      BY <2>1 DEF Prepare
    <3>4. new \subseteq next'.known
      BY <2>1 DEF Prepare, Prepared
    <3> QED BY <2>1, <3>1, <3>2, <3>3, <3>4 DEF Prepare, Tidy, Base
  <2>2. ASSUME NEW f \in Object \cup Blob, Write(f) PROVE Tidy'
    BY <2>2 DEF Write, Tidy, Base
  <2>3. ASSUME NEW f \in Object \cup Blob, Undo(f) PROVE Tidy'
    BY <2>3 DEF Undo, Tidy, Base
  <2>4. ASSUME NEW f \in Object \cup Blob, Clean(f) PROVE Tidy'
    BY <2>4 DEF Clean, memory, Tidy
  <2>5. ASSUME NEW f \in Object \cup Blob \cup {None}, WriteFails(f) PROVE Tidy'
    BY <2>5 DEF WriteFails, Tidy, Base
  <2>6. ASSUME pc = "write", todo = {}, files' = files, mem' = next,
               pc' \in {"index", "clean"}
        PROVE  Tidy'
    <3>1. mem.known \subseteq next.known
      BY <2>6 DEF Consistent, Preparation, Promise!Succeeds
    <3> QED BY <2>6, <3>1 DEF Tidy, Base
  <2>7. CASE Outcome
    BY <2>6, <2>7 DEF Outcome
  <2>8. CASE OutcomeFails
    BY <2>8 DEF OutcomeFails, memory, Tidy, Base
  <2>9. CASE WriteIndex
    <3>1. CASE pc = "index"
      BY <2>9, <3>1 DEF WriteIndex, Tidy, Consistent, Preparation
    <3>2. CASE pc = "write" /\ todo = {}
      BY <2>6, <2>9, <3>2 DEF WriteIndex
    <3> QED BY <2>9, <3>1, <3>2 DEF WriteIndex, IndexTurn
  <2>10. CASE IndexFails
    BY <2>10 DEF IndexFails, IndexTurn, memory, Tidy, Base, Consistent, Owner, Recorded
  <2>11. CASE UndoDone
    BY <2>11 DEF UndoDone, Tidy, Base
  <2>12. CASE CleanDone
    <3>1. files' = files /\ mem' = mem /\ created' = {} /\ pc' = "idle"
      BY <2>12 DEF CleanDone, Finish, Quiet
    <3>2. files \cap Object \subseteq mem.known
      BY <2>12 DEF CleanDone, Tidy
    <3>3. ASSUME ~deferred' PROVE files \subseteq Live(mem)
      <4>1. files \cap Garbage = {}
        BY <2>12, <3>3 DEF CleanDone
      <4>2. mem.avail \subseteq Live(mem)
        BY DEF Live, PayloadsOf
      <4> QED BY <1>0, <3>2, <4>1, <4>2 DEF Garbage, TypeOK
    <3> QED BY <3>1, <3>2, <3>3 DEF Tidy, Base
  <2> QED BY <1>4, <2>1, <2>2, <2>3, <2>4, <2>5, <2>7, <2>8, <2>9, <2>10, <2>11, <2>12
          DEF Committing
<1>5. CASE Crash
  BY <1>1, <1>5 DEF Crash
<1>6. CASE LoseIndex
  BY <1>6 DEF LoseIndex, memory, Tidy, Base
<1> QED BY <1>2, <1>3, <1>4, <1>5, <1>6 DEF Next

\* Between statements nothing of a failed or crashed statement is left on disk
\* (the undo of commit, store.py:288-291, and the sweep of recover).
THEOREM Orphanless == NoInterrupt => (Spec => []NoOrphans)
<1> SUFFICES ASSUME NoInterrupt PROVE Spec => []NoOrphans
  OBVIOUS
<1>1. Tidy /\ UNCHANGED vars => Tidy'
  BY DEF Tidy, vars, Base
<1>2. Consistent /\ Tidy /\ [Next]_vars => Tidy'
  BY <1>1, TidyStep
<1>3. Consistent /\ Tidy => NoOrphans
  BY DEF Tidy, NoOrphans, Base, Consistent, PayloadsKept, Current
<1> QED BY <1>2, <1>3, InitTidy, CrashConsistent, PTL DEF Spec

(***************************************************************************)
(* The byte limit and the failure reserve                                  *)
(***************************************************************************)

\* all that Usage counts beside the payload files
Overhead == prepared + journal.bytes + (IF disk.gen < 0 THEN 0 ELSE IndexBytes)

\* the outcome record a recorded commit has still to append
Outlay == IF Recorded THEN OutcomeBytes ELSE 0

\* What is left of the limit at each stage: the failure outcome always fits
\* without what the commit wrote, the commit fits its own limit, and the
\* outcome has left room for the index.
Reserved ==
    /\ pc \in {"run", "write", "undo", "fail"} /\ Recorded =>
         Cardinality(Base) + Overhead + FailureBytes <= Budget(cap)
    /\ pc = "write" => Cardinality(files) + Overhead + Cardinality(todo)
                         + IndexBytes + Outlay <= next.limit
    /\ pc = "index" => Cardinality(files) + Overhead + IndexBytes <= mem.limit
    /\ pc = "clean" => Cardinality(files) + Overhead <= mem.limit

\* Payload files are finitely many.
LEMMA FileCount ==
    ASSUME NEW S \in SUBSET (Object \cup Blob)
    PROVE  IsFiniteSet(S) /\ Cardinality(S) \in Nat
<1>1. IsFiniteSet(Object \cup Blob)
  BY FS_Union
<1> QED BY <1>1, FS_Subset, FS_CardinalityType

\* The quantities of the capacity tests are natural numbers.
LEMMA Sizes ==
    ASSUME TypeOK
    PROVE  /\ journal.bytes \in Nat /\ prepared \in Nat
           /\ disk.gen \in Int /\ mem.limit \in Nat /\ next.limit \in Nat
           /\ IndexBytes \in Nat /\ OutcomeBytes \in Nat /\ FailureBytes \in Nat
           /\ IntentBytes \in Nat /\ Reserve \in Nat
           /\ Overhead \in Nat /\ Outlay \in Nat
<1>1. /\ journal.bytes \in Nat /\ prepared \in Nat
      /\ disk.gen \in Int /\ mem.limit \in Limits /\ next.limit \in Limits
  BY DEF TypeOK, Journal, Index
<1>2. /\ IndexBytes \in Nat /\ OutcomeBytes \in Nat /\ FailureBytes \in Nat
      /\ IntentBytes \in Nat /\ Reserve \in Nat
  OBVIOUS
<1>3. mem.limit \in Nat /\ next.limit \in Nat
  BY <1>1
<1>4. Overhead \in Nat /\ Outlay \in Nat
  BY <1>1, <1>2 DEF Overhead, Outlay
<1> QED BY <1>1, <1>2, <1>3, <1>4

\* usage() is the payload files and the overhead.
LEMMA UsageSum == TypeOK => Usage = Cardinality(files) + Overhead
<1> SUFFICES ASSUME TypeOK PROVE Usage = Cardinality(files) + Overhead
  OBVIOUS
<1>1. Cardinality(files) \in Nat
  BY FileCount DEF TypeOK
<1> QED BY <1>1, Sizes DEF Usage, Overhead

\* The appended record is what the overhead grows by.
LEMMA AppendGrows ==
    ASSUME TypeOK, NEW b \in Nat
    PROVE  /\ Appended(b).bytes = journal.bytes + b
           /\ Closed(b).bytes = journal.bytes + b
           /\ [Appended(b) EXCEPT !.pending = TRUE].bytes = journal.bytes + b
           /\ [Closed(b) EXCEPT !.latest = next].bytes = journal.bytes + b
<1>1. journal \in Journal
  BY DEF TypeOK
<1> QED BY <1>1 DEF Appended, Closed, Journal

\* A created experiment has committed nothing yet.
LEMMA InitReserved == Init => Reserved
BY DEF Init, Reserved

\* Every step of a statement stays within what its capacity tests granted.
LEMMA ReservedStep ==
    ASSUME Consistent, Tidy, Reserved, Next PROVE Reserved'
<1> USE DEF Consistent
<1>0. TypeOK /\ TypeOK'
  BY OpeningType, CommittingType, RecordingType, DyingType DEF Next
<1>1. ASSUME pc' \notin {"run", "write", "undo", "fail", "index", "clean"}
      PROVE  Reserved'
  BY <1>1 DEF Reserved
<1>2. /\ Cardinality(files) \in Nat /\ Cardinality(todo) \in Nat
      /\ Cardinality(Base) \in Nat /\ Cardinality(files') \in Nat
      /\ IsFiniteSet(files) /\ IsFiniteSet(todo)
  BY <1>0, FileCount DEF TypeOK, Base
<1>3. ASSUME Leave PROVE Reserved'
  BY <1>1, <1>3 DEF Leave
<1>4. ASSUME NEW ok \in BOOLEAN, Finish(ok) PROVE Reserved'
  BY <1>1, <1>3, <1>4 DEF Finish
<1>5. CASE Opening
  <2>1. CASE SweepDone
    BY <1>1, <1>3, <2>1 DEF SweepDone
  <2>2. CASE OpenFails
    BY <1>3, <2>2 DEF OpenFails
  <2>3. ASSUME NEW u \in Users, Open(u) PROVE Reserved'
    BY <1>1, <2>3 DEF Open, AfterIndex
  <2>4. CASE Reindex \/ Interrupt \/ SweepPrepared \/ Migrate
             \/ \E f \in Object \cup Blob : Sweep(f)
    BY <1>1, <2>4 DEF Reindex, Interrupt, SweepPrepared, Migrate, Sweep, AfterIndex
  <2> QED BY <1>5, <2>1, <2>2, <2>3, <2>4 DEF Opening
<1>6. CASE Recording
  <2>1. CASE Reattach \/ Close
    BY <1>1, <1>3, <2>1 DEF Reattach, Close
  <2>2. CASE Unsettled \/ \E ok \in BOOLEAN : Settle(ok)
    BY <1>4, <2>2 DEF Unsettled, Settle
  <2>3. CASE Reject
    <3>1. /\ pc = "run" /\ pc' = "fail" /\ Recorded' = Recorded
          /\ Base' = Base /\ Overhead' = Overhead /\ Budget(cap)' = Budget(cap)
      BY <2>3 DEF Reject, memory, Recorded, Base, Overhead, Budget
    <3> QED BY <3>1 DEF Reserved
  <2>4. ASSUME NEW limit \in Limits \cup {None}, Begin(limit) PROVE Reserved'
    <3>1. /\ pc' = "run" /\ files' = files /\ created = {} /\ created' = {}
          /\ prepared' = prepared /\ disk' = disk /\ mem' = mem /\ cap' = limit
      BY <2>4 DEF Begin, Tidy
    <3>2. Usage + IntentBytes + Reserve <= Budget(limit)
      BY <2>4 DEF Begin, Intent
    <3>3. journal'.bytes = journal.bytes + IntentBytes
      BY <1>0, <2>4, Sizes, AppendGrows DEF Begin
    <3>4. Overhead' = Overhead + IntentBytes
      BY <1>0, <3>1, <3>3, Sizes DEF Overhead
    <3>5. Base' = files /\ Budget(cap)' = Budget(limit)
      BY <3>1 DEF Base, Budget
    <3>6. Budget(limit) \in Nat
      BY <1>0, Sizes DEF Budget
    <3>7. Cardinality(Base') + Overhead' + FailureBytes <= Budget(limit)
      BY <1>0, <1>2, <3>2, <3>4, <3>5, <3>6, Sizes, UsageSum
    <3> QED BY <3>1, <3>5, <3>7 DEF Reserved
  <2> QED BY <1>6, <2>1, <2>2, <2>3, <2>4 DEF Recording
<1>7. CASE Committing
  <2>1. ASSUME NEW new \in SUBSET Object, NEW avail \in SUBSET Object,
               NEW recipes \in SUBSET Blob, NEW limit \in Limits,
               Prepare(new, avail, recipes, limit)
        PROVE  Reserved'
    <3>1. /\ pc \in {"run", "idle"} /\ pc' = "write" /\ files' = files
          /\ created = {} /\ created' = {}
          /\ prepared' = prepared /\ disk' = disk /\ journal' = journal
          /\ mem' = mem /\ cap' = cap /\ holder' = holder
          /\ (pc = "idle" => holder = "native")
      BY <2>1 DEF Prepare, Tidy
    <3>2. next'.limit = limit
      BY <2>1 DEF Prepare, Prepared
    <3>3. Usage + Cardinality(todo') + IndexBytes + Outlay <= limit
      BY <2>1 DEF Prepare, Room, Outlay
    <3>4. /\ Overhead' = Overhead /\ Outlay' = Outlay /\ Base' = Base
          /\ Recorded' = Recorded /\ Budget(cap)' = Budget(cap)
      BY <3>1 DEF Overhead, Outlay, Base, Recorded, Budget
    <3>5. Recorded => pc = "run"
      BY <3>1 DEF Recorded
    <3> QED BY <1>0, <3>1, <3>2, <3>3, <3>4, <3>5, UsageSum DEF Reserved
  <2>2. ASSUME NEW f \in Object \cup Blob, Write(f) PROVE Reserved'
    <3>1. /\ pc = "write" /\ pc' = "write" /\ f \in todo /\ f \notin files
          /\ files' = files \cup {f} /\ todo' = todo \ {f}
          /\ created' = created \cup {f}
          /\ prepared' = prepared /\ disk' = disk /\ journal' = journal
          /\ mem' = mem /\ cap' = cap /\ holder' = holder /\ next' = next
      BY <2>2 DEF Write, Tidy
    <3>2. /\ Overhead' = Overhead /\ Outlay' = Outlay /\ Base' = Base
          /\ Recorded' = Recorded /\ Budget(cap)' = Budget(cap)
      BY <3>1 DEF Overhead, Outlay, Base, Recorded, Budget
    <3>3. Cardinality(files') = Cardinality(files) + 1
      BY <1>2, <3>1, FS_AddElement
    <3>4. Cardinality(todo') = Cardinality(todo) - 1
      BY <1>2, <3>1, FS_RemoveElement
    <3>5. Cardinality(files') + Overhead' + Cardinality(todo') + IndexBytes + Outlay'
            <= next'.limit
      BY <1>0, <1>2, <3>1, <3>2, <3>3, <3>4, Sizes DEF Reserved
    <3> QED BY <3>1, <3>2, <3>5 DEF Reserved
  <2>3. ASSUME pc \in {"write", "undo"}, pc' \in {"undo", "fail", "idle"},
               pc' # "idle" \/ holder' = "native", Base' = Base,
               UNCHANGED <<prepared, disk, journal, holder, mem, cap>>
        PROVE  Reserved'
    <3>1. /\ Overhead' = Overhead /\ Recorded' = Recorded
          /\ Budget(cap)' = Budget(cap)
      BY <2>3 DEF Overhead, Recorded, Budget
    <3> QED BY <2>3, <3>1 DEF Reserved
  <2>4. ASSUME NEW f \in Object \cup Blob \cup {None}, WriteFails(f) PROVE Reserved'
    <3>1. Base' = Base
      BY <2>4 DEF WriteFails, Tidy, Base
    <3> QED BY <2>3, <2>4, <3>1 DEF WriteFails
  <2>5. ASSUME NEW f \in Object \cup Blob, Undo(f) PROVE Reserved'
    <3>1. Base' = Base
      BY <2>5 DEF Undo, Base
    <3> QED BY <2>3, <2>5, <3>1 DEF Undo
  <2>6. CASE OutcomeFails
    <3>1. Base' = Base
      BY <2>6 DEF OutcomeFails, memory, Base
    <3> QED BY <2>3, <2>6, <3>1 DEF OutcomeFails, memory
  <2>7. CASE UndoDone
    <3>1. Base' = Base
      BY <2>7 DEF UndoDone, Base
    <3> QED BY <2>3, <2>7, <3>1 DEF UndoDone
  <2>8. CASE Outcome
    <3>1. /\ pc = "write" /\ pc' = "index" /\ todo = {} /\ Recorded
          /\ files' = files /\ prepared' = prepared /\ disk' = disk /\ mem' = next
      BY <2>8 DEF Outcome
    <3>2. journal'.bytes = journal.bytes + OutcomeBytes
      BY <1>0, <2>8, Sizes, AppendGrows DEF Outcome
    <3>3. Overhead' = Overhead + OutcomeBytes /\ Outlay = OutcomeBytes
      BY <1>0, <3>1, <3>2, Sizes DEF Overhead, Outlay
    <3>4. Cardinality(todo) = 0
      BY <3>1, FS_EmptySet
    <3>5. Cardinality(files') + Overhead' + IndexBytes <= mem'.limit
      BY <1>0, <1>2, <3>1, <3>3, <3>4, Sizes DEF Reserved
    <3> QED BY <3>1, <3>5 DEF Reserved
  <2>9. ASSUME IndexTurn PROVE Cardinality(files) + Overhead + IndexBytes <= next.limit
    <3>1. CASE pc = "index"
      BY <3>1 DEF Reserved, Preparation
    <3>2. CASE pc = "write" /\ todo = {}
      <4>1. Cardinality(todo) = 0
        BY <3>2, FS_EmptySet
      <4> QED BY <1>0, <1>2, <3>2, <4>1, Sizes DEF Reserved
    <3> QED BY <2>9, <3>1, <3>2 DEF IndexTurn
  <2>10. ASSUME UNCHANGED <<prepared, journal>> PROVE Overhead' <= Overhead + IndexBytes
    BY <1>0, <2>10, Sizes DEF Overhead
  <2>11. Overhead' \in Nat /\ next.limit \in Nat /\ Overhead \in Nat /\ IndexBytes \in Nat
    <3>1. /\ journal'.bytes \in Nat /\ prepared' \in Nat /\ disk'.gen \in Int
          /\ IndexBytes \in Nat
      BY <1>0, Sizes DEF TypeOK, Journal, Index
    <3>2. Overhead' \in Nat
      BY <3>1 DEF Overhead
    <3> QED BY <1>0, <3>2, Sizes
  <2>12. CASE WriteIndex
    <3>1. Cardinality(files) + Overhead' <= next.limit
      BY <1>2, <2>9, <2>10, <2>11, <2>12 DEF WriteIndex
    <3> QED BY <2>12, <3>1 DEF WriteIndex, Reserved
  <2>13. CASE IndexFails
    <3>1. CASE Recorded
      <4>1. pc = "index" /\ next = mem
        BY <2>13, <3>1 DEF IndexFails, IndexTurn, Recorded, Preparation
      <4>2. Cardinality(files) + Overhead' <= mem.limit
        BY <1>2, <2>9, <2>10, <2>11, <2>13, <4>1 DEF IndexFails
      <4> QED BY <2>13, <3>1, <4>2 DEF IndexFails, memory, Reserved
    <3>2. CASE ~Recorded
      BY <2>13, <3>2 DEF IndexFails, memory, Recorded, Reserved
    <3> QED BY <3>1, <3>2
  <2>14. ASSUME NEW f \in Object \cup Blob, Clean(f) PROVE Reserved'
    <3>1. /\ pc = "clean" /\ pc' = "clean" /\ f \in files /\ files' = files \ {f}
          /\ mem' = mem /\ Overhead' = Overhead
      BY <2>14 DEF Clean, memory, Overhead
    <3>2. Cardinality(files') = Cardinality(files) - 1
      BY <1>2, <3>1, FS_RemoveElement
    <3>3. mem.limit \in Nat
      BY <1>0, Sizes
    <3> QED BY <1>2, <2>11, <3>1, <3>2, <3>3 DEF Reserved
  <2>15. CASE CleanDone
    BY <1>4, <2>15 DEF CleanDone
  <2> QED BY <1>7, <2>1, <2>2, <2>4, <2>5, <2>6, <2>7, <2>8, <2>12, <2>13, <2>14, <2>15
          DEF Committing
<1>8. CASE Crash \/ LoseIndex
  BY <1>1, <1>3, <1>8 DEF Crash, LoseIndex
<1> QED BY <1>5, <1>6, <1>7, <1>8 DEF Next

\* An acknowledged intent has its failure reserve (recorder.py:159): a failing
\* statement can always record its outcome.
THEOREM ReserveSafe == NoInterrupt => (Spec => []ReserveHolds)
<1> SUFFICES ASSUME NoInterrupt PROVE Spec => []ReserveHolds
  OBVIOUS
<1>1. Consistent /\ Tidy /\ [Next]_vars => Tidy'
  BY TidyStep DEF Tidy, vars, Base
<1>2. Reserved /\ UNCHANGED vars => Reserved'
  BY DEF Reserved, vars, Base, Overhead, Outlay, Recorded, Budget
<1>3. Consistent /\ Tidy /\ Reserved /\ [Next]_vars => Reserved'
  BY <1>2, ReservedStep
<1>4. Consistent /\ Tidy /\ Reserved => ReserveHolds
  <2> SUFFICES ASSUME Consistent, Tidy, Reserved, pc \in {"run", "fail"}
               PROVE  Fits(FailureBytes)
    BY DEF ReserveHolds
  <2>1. Base = files /\ Recorded
    BY DEF Tidy, Base, Consistent, Owner
  <2> QED BY <2>1, UsageSum DEF Reserved, Fits, Consistent
<1> QED BY <1>1, <1>3, <1>4, InitTidy, InitReserved, CrashConsistent, PTL DEF Spec

\* After every commit the whole experiment, history included, is within the
\* limit that commit declared (store.py:257-266).
THEOREM QuotaSafe == NoInterrupt => (Spec => []QuotaKept)
<1> SUFFICES ASSUME NoInterrupt PROVE Spec => []QuotaKept
  OBVIOUS
<1>1. Consistent /\ Tidy /\ [Next]_vars => Tidy'
  BY TidyStep DEF Tidy, vars, Base
<1>2. Reserved /\ UNCHANGED vars => Reserved'
  BY DEF Reserved, vars, Base, Overhead, Outlay, Recorded, Budget
<1>3. Consistent /\ Tidy /\ Reserved /\ [Next]_vars => Reserved'
  BY <1>2, ReservedStep
<1>4. Consistent /\ Reserved => QuotaKept
  BY UsageSum DEF Reserved, QuotaKept, Consistent
<1> QED BY <1>1, <1>3, <1>4, InitTidy, InitReserved, CrashConsistent, PTL DEF Spec
=============================================================================
