------------------------------- MODULE Store -------------------------------
(* One experiment store with its journal: persistence/store.py and
   history/journal.py, driven by the statements of history/recorder.py or by
   a plain Python process (an index-owned store, without history.jsonl).

   A step is one file operation, so that a crash may fall between any two.
   The writer lease (flock) admits one process and dies with it.  Payload
   files are content-addressed and written through _atomic, so a file is
   there whole or not at all; a crash may leave its .prepare- twin behind. *)
EXTENDS Integers, FiniteSets

CONSTANTS
    Object, Blob,       \* checkpoint manifests and shared payload blobs
    BlobsOf,            \* the blobs a manifest refers to
    Limits,             \* the values of policy.max_bytes
    IndexBytes, IntentBytes, FailureBytes, OutcomeBytes,
    Reserve,            \* _RESERVE: kept free for a failure outcome
    Users,              \* who opens the store: "native", "opening"
    Powers,             \* which statements are issued, see Prepare and Begin
    Faults,             \* which failures happen
    MaxGeneration,      \* bounds the commits
    MaxPrepared,        \* bounds the leftovers of repeated crashes
    None

ASSUME StoreAssumption ==
    /\ IsFiniteSet(Object) /\ IsFiniteSet(Blob)
    /\ BlobsOf \in [Object -> SUBSET Blob]
    /\ Object \cap Blob = {} /\ None \notin Object \cup Blob \cup Limits
    /\ Limits \subseteq Nat
    /\ {IndexBytes, IntentBytes, FailureBytes, OutcomeBytes, Reserve,
        MaxGeneration, MaxPrepared} \subseteq Nat
    /\ FailureBytes <= Reserve
    /\ Users \subseteq {"native", "opening"}

VARIABLES
    files,      \* manifests and blobs on disk
    prepared,   \* bytes of .prepare- files left by crashes
    disk,       \* session.json
    journal,    \* history.jsonl
    holder,     \* the lease's holder
    pc,         \* where its statement is
    mem,        \* _Store.index of the holder
    next,       \* the index a commit prepares
    todo,       \* payload files it has still to write
    created,    \* payload files it wrote, to be undone on failure
    cap,        \* capacity_override of the statement
    deferred    \* the last cleanup was cut short (store.warning)

vars == <<files, prepared, disk, journal, holder, pc, mem, next, todo,
          created, cap, deferred>>
memory == <<mem, next, todo, created, cap>>

Index == [gen : Int, known : SUBSET Object, avail : SUBSET Object,
          recipes : SUBSET Blob, limit : Limits]

Journal == [exists : BOOLEAN, latest : Index, pending : BOOLEAN,
            bytes : Nat, torn : BOOLEAN]

Holder == {"none", "native", "opening", "recorded"}

Stage == {"closed", "reindex", "settle", "sweep", "migrate", "attach", "idle",
          "run", "write", "index", "clean", "undo", "fail"}

-----------------------------------------------------------------------------
\* the recovery authority: the journal where there is one
Durable == IF journal.exists THEN journal.latest ELSE disk

PayloadsOf(objects) == objects \cup UNION {BlobsOf[o] : o \in objects}

\* what an index needs on disk
Live(i) == PayloadsOf(i.avail) \cup i.recipes

Lost(i) == [i EXCEPT !.gen = -1]

\* _Store.usage: every file outside runtime/, prepared ones included
Usage == Cardinality(files) + prepared + journal.bytes
         + (IF disk.gen < 0 THEN 0 ELSE IndexBytes)

\* the limit an append is tested against
Budget(override) == IF override = None THEN mem.limit ELSE override

\* _Journal.append's test
Fits(bytes) == Usage + bytes <= Budget(cap)

Recorded == holder \in {"opening", "recorded"}

Appended(bytes) == [journal EXCEPT !.bytes = @ + bytes]
Closed(bytes) == [journal EXCEPT !.bytes = @ + bytes, !.pending = FALSE]

\* nothing is being prepared
Quiet(i) == next' = i /\ todo' = {} /\ created' = {} /\ cap' = None

\* Mutant of Leave: the lease is not released.
LeaveHeld == /\ holder' = holder /\ pc' = "closed"
             /\ mem' = Durable /\ Quiet(Durable)

\* the process leaves the store; the next one reads the durable index
Leave == /\ holder' = "none" /\ pc' = "closed"
         /\ mem' = Durable /\ Quiet(Durable)

\* a failed append: no room, or an I/O error followed by truncation
Refused(bytes) == ~Fits(bytes) \/ "append" \in Faults

-----------------------------------------------------------------------------
(* Opening: _Store.__init__, then Recorder.attach_store *)

AfterIndex == IF journal.exists /\ journal.pending THEN "settle" ELSE "sweep"

\* _Journal.recover refuses an index the journal does not explain
Explained ==
    IF journal.exists
    THEN /\ ~journal.torn
         /\ disk.gen <= journal.latest.gen
         /\ disk.gen = journal.latest.gen => disk = journal.latest
    ELSE ~journal.torn

\* Mutant of Recovered: the replaceable index is trusted.
RecoveredDisk == disk

\* _Journal.recover: the index the process will work on
Recovered == Durable

Open(user) ==
    /\ pc = "closed" /\ Explained
    /\ holder' = user
    /\ pc' = IF journal.exists /\ disk # journal.latest
             THEN "reindex" ELSE AfterIndex
    /\ mem' = Recovered /\ Quiet(Recovered)
    /\ UNCHANGED <<files, prepared, disk, journal, deferred>>

Reindex ==
    /\ pc = "reindex"
    /\ disk' = journal.latest
    /\ pc' = AfterIndex
    /\ UNCHANGED <<files, prepared, journal, holder, memory, deferred>>

\* the outcome of a statement whose process died
Interrupt ==
    /\ pc = "settle" /\ Fits(FailureBytes)
    /\ journal' = Closed(FailureBytes)
    /\ pc' = "sweep"
    /\ UNCHANGED <<files, prepared, disk, holder, memory, deferred>>

\* any error of __init__ or of attach_store gives the lease up
OpenFails ==
    /\ \/ pc = "reindex" /\ "index" \in Faults
       \/ pc = "settle" /\ Refused(FailureBytes)
       \/ pc = "migrate"      \* also without migrate=True
       \/ pc = "attach" /\ Refused(IntentBytes + Reserve)
    /\ Leave
    /\ UNCHANGED <<files, prepared, disk, journal, deferred>>

\* prepared files go first, then manifests, then blobs
SweepPrepared ==
    /\ pc = "sweep" /\ prepared > 0
    /\ prepared' = 0
    /\ UNCHANGED <<files, disk, journal, holder, pc, memory, deferred>>

Sweep(f) ==
    /\ pc = "sweep" /\ prepared = 0
    /\ f \in files \ Live(mem)
    /\ f \in Blob => files \cap Object \subseteq mem.avail
    /\ files' = files \ {f}
    /\ UNCHANGED <<prepared, disk, journal, holder, pc, memory, deferred>>

\* _collect_inputs reads every available manifest: a missing one is an error
SweepDone ==
    /\ pc = "sweep" /\ prepared = 0 /\ files \subseteq Live(mem)
    /\ \/ /\ mem.avail \subseteq files /\ holder = "native" /\ ~journal.exists
          /\ pc' = "idle" /\ UNCHANGED <<holder, memory>>
       \/ /\ mem.avail \subseteq files /\ holder = "opening"
          /\ pc' = (IF journal.exists THEN "attach" ELSE "migrate")
          /\ UNCHANGED <<holder, memory>>
       \/ /\ mem.avail \subseteq files => holder = "native" /\ journal.exists
          /\ Leave
    /\ deferred' = FALSE
    /\ UNCHANGED <<files, prepared, disk, journal>>

\* project.open(migrate=True) records an explicit baseline
Migrate ==
    /\ pc = "migrate" /\ Fits(OutcomeBytes)
    /\ journal' = [exists |-> TRUE, latest |-> mem, pending |-> FALSE,
                   bytes |-> OutcomeBytes, torn |-> FALSE]
    /\ pc' = "attach"
    /\ UNCHANGED <<files, prepared, disk, holder, memory, deferred>>

-----------------------------------------------------------------------------
(* Statements: Recorder.run *)

\* _capacity_override: a literal raise pays for its own record
Override(limit) == /\ "override" \in Powers /\ pc = "idle"
                   /\ limit \in Limits /\ limit > mem.limit

\* attach_store settles what an earlier failed append left open
Reattach ==
    /\ pc = "idle" /\ holder = "recorded" /\ journal.pending
    /\ Fits(FailureBytes)
    /\ journal' = Closed(FailureBytes)
    /\ UNCHANGED <<files, prepared, disk, holder, pc, memory, deferred>>

\* Mutant of Intent: nothing is kept for the failure outcome.
IntentUnreserved(limit) == Usage + IntentBytes <= Budget(limit)

\* an intent is admitted with the reserve of a failure outcome
Intent(limit) == Usage + IntentBytes + Reserve <= Budget(limit)

\* the intent is durable before the statement runs
Begin(limit) ==
    /\ pc = "attach" \/ (pc = "idle" /\ holder = "recorded")
    /\ ~journal.pending
    /\ limit = None \/ Override(limit)
    /\ cap' = limit
    /\ Intent(limit)
    /\ journal' = [Appended(IntentBytes) EXCEPT !.pending = TRUE]
    /\ pc' = "run"
    /\ UNCHANGED <<files, prepared, disk, holder, mem, next, todo, created,
                   deferred>>

\* an opening statement that fails closes the store it opened
Finish(ok) ==
    IF holder = "opening" /\ ~ok THEN Leave
    ELSE /\ holder' = (IF holder = "opening" THEN "recorded" ELSE holder)
         /\ pc' = "idle" /\ mem' = mem /\ Quiet(mem)

\* a statement without a new index, and every failed one, has one outcome
Settle(ok) ==
    /\ pc = "run" \/ (pc = "fail" /\ ~ok)
    /\ Fits(FailureBytes)
    /\ journal' = Closed(FailureBytes)
    /\ Finish(ok)
    /\ UNCHANGED <<files, prepared, disk, deferred>>

Unsettled ==
    /\ pc \in {"run", "fail"} /\ Refused(FailureBytes)
    /\ Finish(FALSE)
    /\ UNCHANGED <<files, prepared, disk, journal, deferred>>

\* the index a statement asks for: new objects, some of them pruned at once,
\* older ones pruned, other recipes, another limit
Prepared(new, avail, recipes, limit) ==
    [gen |-> mem.gen + 1, known |-> mem.known \cup new, avail |-> avail,
     recipes |-> recipes, limit |-> limit]

Statement(new, avail, recipes, limit) ==
    /\ new \subseteq Object \ mem.known
    /\ avail \subseteq mem.avail \cup new
    /\ IF cap # None THEN limit = cap /\ new = {} /\ recipes = mem.recipes
       ELSE limit = mem.limit \/ "configure" \in Powers
    /\ mem.gen < MaxGeneration

\* Mutant of Room: the limit in force, not the one being committed.
RoomBefore(missing, limit) ==
    Usage + Cardinality(missing) + IndexBytes
      + (IF Recorded THEN OutcomeBytes ELSE 0) <= mem.limit

\* commit's capacity test: all preparation bytes, under the new limit
Room(missing, limit) ==
    Usage + Cardinality(missing) + IndexBytes
      + (IF Recorded THEN OutcomeBytes ELSE 0) <= limit

\* _Store.commit, up to the first file
Prepare(new, avail, recipes, limit) ==
    /\ pc = "run" \/ (pc = "idle" /\ holder = "native")
    /\ Statement(new, avail, recipes, limit)
    /\ next' = Prepared(new, avail, recipes, limit)
    /\ todo' = (PayloadsOf(new) \cup recipes) \ files
    /\ created' = {}
    /\ Room((PayloadsOf(new) \cup recipes) \ files, limit)
    /\ pc' = "write"
    /\ UNCHANGED <<files, prepared, disk, journal, holder, mem, cap, deferred>>

\* storage_full, revision_conflict and every error of the statement itself
Reject ==
    /\ pc = "run" /\ pc' = "fail"
    /\ UNCHANGED <<files, prepared, disk, journal, holder, memory, deferred>>

Write(f) ==
    /\ pc = "write" /\ f \in todo
    /\ files' = files \cup {f}
    /\ todo' = todo \ {f} /\ created' = created \cup {f}
    /\ UNCHANGED <<prepared, disk, journal, holder, pc, mem, next, cap, deferred>>

\* an I/O error in _atomic before or after the replacement, or the guard
WriteFails(f) ==
    /\ pc = "write"
    /\ \/ /\ "write" \in Faults /\ f \in todo
          /\ \/ created' = created /\ files' = files
             \/ created' = created \cup {f} /\ files' = files \cup {f}
       \/ /\ "guard" \in Faults /\ todo = {} /\ f = None
          /\ UNCHANGED <<created, files>>
    /\ todo' = {} /\ pc' = "undo"
    /\ UNCHANGED <<prepared, disk, journal, holder, mem, next, cap, deferred>>

\* the commit point of a recorded store
Outcome ==
    /\ pc = "write" /\ todo = {} /\ Recorded /\ Fits(OutcomeBytes)
    /\ journal' = [Closed(OutcomeBytes) EXCEPT !.latest = next]
    /\ mem' = next /\ pc' = "index"
    /\ UNCHANGED <<files, prepared, disk, holder, next, todo, created, cap,
                   deferred>>

OutcomeFails ==
    /\ pc = "write" /\ todo = {} /\ Recorded /\ Refused(OutcomeBytes)
    /\ pc' = "undo"
    /\ UNCHANGED <<files, prepared, disk, journal, holder, memory, deferred>>

\* Mutant of IndexTurn: the index may be replaced before the outcome.
IndexTurnEarly == pc = "index" \/ (pc = "write" /\ todo = {})
\* the commit point of an index-owned store: session.json is replaced
IndexTurn == pc = "index" \/ (pc = "write" /\ todo = {} /\ holder = "native")

WriteIndex ==
    /\ IndexTurn
    /\ disk' = next /\ mem' = next /\ pc' = "clean"
    /\ UNCHANGED <<files, prepared, journal, holder, next, todo, created, cap,
                   deferred>>

\* The replacement fails, or is followed by a KeyboardInterrupt in the
\* directory fsync.  A recorded store goes on with a warning.
IndexFails ==
    /\ IndexTurn
    /\ \/ "index" \in Faults /\ UNCHANGED disk
       \/ "interrupt" \in Faults /\ disk' = next
    /\ pc' = (IF Recorded THEN "clean" ELSE "undo")
    /\ UNCHANGED <<files, prepared, journal, holder, memory, deferred>>

Undo(f) ==
    /\ pc = "undo" /\ f \in created
    /\ files' = files \ {f} /\ created' = created \ {f}
    /\ UNCHANGED <<prepared, disk, journal, holder, pc, mem, next, todo, cap,
                   deferred>>

UndoDone ==
    /\ pc = "undo" /\ created = {}
    /\ pc' = (IF holder = "native" THEN "idle" ELSE "fail")
    /\ next' = mem
    /\ UNCHANGED <<files, prepared, disk, journal, holder, mem, todo, created,
                   cap, deferred>>

\* Mutants of Garbage: recipe blobs are forgotten; only blobs are collected.
GarbageRecipes == (mem.known \ mem.avail)
                  \cup (Blob \ UNION {BlobsOf[o] : o \in mem.avail})
GarbageBlobs == Blob \ Live(mem)

\* the manifests of pruned objects, then unreferenced blobs
Garbage == (mem.known \ mem.avail) \cup (Blob \ Live(mem))

Clean(f) ==
    /\ pc = "clean" /\ f \in files \cap Garbage
    /\ f \in Blob => files \cap Garbage \cap Object = {}
    /\ files' = files \ {f}
    /\ UNCHANGED <<prepared, disk, journal, holder, pc, memory, deferred>>

CleanDone ==
    /\ pc = "clean"
    /\ files \cap Garbage = {} \/ "clean" \in Faults
    /\ deferred' = (files \cap Garbage # {})
    /\ Finish(TRUE)
    /\ UNCHANGED <<files, prepared, disk, journal>>

\* _Persistence.close, or the end of a frontend that could not record it
Close ==
    /\ pc = "idle" /\ Leave
    /\ UNCHANGED <<files, prepared, disk, journal, deferred>>

-----------------------------------------------------------------------------
(* The process dies *)

\* inside _atomic
Preparing == pc \in {"reindex", "index"} \/ pc = "write"

\* inside _Journal.append
Appending == \/ pc \in {"settle", "migrate", "attach", "run", "fail"}
             \/ (pc = "idle" /\ holder = "recorded")
             \/ (pc = "write" /\ todo = {} /\ Recorded)

Crash ==
    /\ "crash" \in Faults /\ pc # "closed"
    /\ Leave
    /\ \/ UNCHANGED <<prepared, journal>>
       \/ /\ Preparing /\ prepared < MaxPrepared
          /\ prepared' = prepared + 1 /\ UNCHANGED journal
       \/ /\ Appending /\ "tear" \in Faults
          /\ journal' = [journal EXCEPT !.torn = TRUE] /\ UNCHANGED prepared
    /\ UNCHANGED <<files, disk, deferred>>

\* session.json is lost or unreadable while nobody holds the store
LoseIndex ==
    /\ "lose" \in Faults /\ pc = "closed" /\ journal.exists
    /\ disk' = Lost(disk)
    /\ UNCHANGED <<files, prepared, journal, holder, pc, memory, deferred>>

-----------------------------------------------------------------------------
Init ==
    /\ disk \in {[gen |-> 0, known |-> {}, avail |-> {}, recipes |-> {},
                  limit |-> limit] : limit \in Limits}
    /\ journal \in {[exists |-> e, latest |-> disk, pending |-> FALSE,
                      bytes |-> IF e THEN OutcomeBytes ELSE 0, torn |-> FALSE] :
                     e \in BOOLEAN}
    /\ files = {} /\ prepared = 0 /\ deferred = FALSE
    /\ holder = "none" /\ pc = "closed"
    /\ mem = disk /\ next = disk /\ todo = {} /\ created = {} /\ cap = None

Opening == \/ \E u \in Users : Open(u)
           \/ Reindex \/ Interrupt \/ OpenFails \/ SweepPrepared
           \/ \E f \in Object \cup Blob : Sweep(f)
           \/ SweepDone \/ Migrate

Committing == \/ \E new, avail \in SUBSET Object, recipes \in SUBSET Blob,
                    limit \in Limits : Prepare(new, avail, recipes, limit)
              \/ \E f \in Object \cup Blob : Write(f) \/ Undo(f) \/ Clean(f)
              \/ \E f \in Object \cup Blob \cup {None} : WriteFails(f)
              \/ Outcome \/ OutcomeFails
              \/ WriteIndex \/ IndexFails
              \/ UndoDone \/ CleanDone

Recording == \/ Reattach
             \/ \E limit \in Limits \cup {None} : Begin(limit)
             \/ \E ok \in BOOLEAN : Settle(ok)
             \/ Unsettled \/ Reject \/ Close

Next == Opening \/ Committing \/ Recording \/ Crash \/ LoseIndex

Spec == Init /\ [][Next]_vars

-----------------------------------------------------------------------------
(* Properties *)

\* Every variable has its type, and the lease is held exactly while a process
\* is in the store (a failing open releases it, store.py:94).
TypeOK ==
    /\ files \subseteq Object \cup Blob /\ prepared \in Nat
    /\ disk \in Index /\ journal \in Journal
    /\ holder \in Holder /\ pc \in Stage
    /\ mem \in Index /\ next \in Index
    /\ todo \subseteq Object \cup Blob /\ created \subseteq Object \cup Blob
    /\ cap \in Limits \cup {None} /\ deferred \in BOOLEAN
    /\ holder = "none" <=> pc = "closed"

\* Whatever fails and whenever the process dies, every payload the durable
\* index calls available is on disk with its blobs (commit's order of writes,
\* its undo and its cleanup, store.py:251-304, and the sweep of recover).
PayloadsKept == Live(Durable) \subseteq files

\* session.json never runs ahead of the journal, so that _Journal.recover
\* never refuses a store the program wrote itself (journal.py:113).
IndexBehind ==
    journal.exists => /\ disk.gen <= journal.latest.gen
                      /\ disk.gen = journal.latest.gen => disk = journal.latest

\* Between statements nothing of a failed or crashed statement is left: the
\* files are those the index needs, unless a cleanup was reported deferred.
NoOrphans == pc = "idle" /\ ~deferred => files = Live(mem)

\* An acknowledged intent has its failure reserve (recorder.py:160): while a
\* statement runs, or after its commit was undone, its outcome still fits.
ReserveHolds == pc \in {"run", "fail"} => Fits(FailureBytes)

\* After a commit the whole experiment, its new history record included, is
\* within the limit that commit declared (store.py:263-266).
QuotaKept == pc = "clean" => Usage <= mem.limit

\* the stages in which the store serves nobody
Away == {"closed", "reindex", "settle", "sweep", "migrate", "attach"}

Promise == INSTANCE AtomicStore WITH
    index <- Durable,
    view <- IF pc \in Away THEN None ELSE mem

\* The durable index changes only as a whole, by the commit of a process that
\* works on the current one; crashes and recovery never change it.
ImplementsAtomic == Promise!Spec

\* The recovery of an interrupted statement finds room for its outcome
\* (HISTORY.md: "marks unmatched submissions interrupted").
InterruptFits == pc = "settle" => Fits(FailureBytes)
=============================================================================
