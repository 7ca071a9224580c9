------------------------------ MODULE Ancestry ------------------------------
(***************************************************************************)
(* A session kept by a durable experiment.  Every operation works on a     *)
(* clone of the session and a copy of the index; if it changed anything,   *)
(* _sync extends the ancestry of the contexts whose numerical state moved, *)
(* packs the new objects, prunes by policy, commits the index and lets the *)
(* session adopt the clone.  Store models the commit itself; here it is    *)
(* one step.                                                               *)
(***************************************************************************)
EXTENDS SessionState

CONSTANTS
    Certified,    \* method settings whose state may be restored exactly
    Policies,     \* [keep, depth] of storage.configure
    Groups,       \* groups of operations the client uses: "pins", "cleanup", "restore"
    MaxMinted, MaxStates, MaxGeneration   \* bounds of the exploration

VARIABLES
    session,
    index,        \* the committed index
    payload,      \* what each stored checkpoint decodes to
    plan          \* a cleanup preview the client holds

avars == <<session, index, payload, plan>>

NoRecord == [loaded |-> FALSE, head |-> None, configuration |-> 0, recipe |-> <<>>]
RecordAsLoaded(context) ==      \* without the updates made since
    [loaded |-> TRUE, head |-> context.head, configuration |-> context.configuration, recipe |-> <<>>]
Record(context) == [loaded |-> TRUE, head |-> context.head,
                    configuration |-> context.configuration, recipe |-> context.recipe]

EmptyIndex(policy) ==
    [contexts |-> [c \in Ctx |-> NoRecord], bindings |-> [n \in Name |-> None], selected |-> None,
     live |-> {}, pins |-> {}, states |-> <<>>, cursor |-> [c \in Ctx |-> 0],
     redo |-> [c \in Ctx |-> <<>>], policy |-> policy, generation |-> 0]

Known == DOMAIN payload

\* A state restores exactly if a certified method made its key.
Exact(o) == o.value.kind # "report" /\ o.key \in Certified

Init ==
    /\ session = EmptySession
    /\ \E p \in Policies : index = EmptyIndex(p)
    /\ payload = <<>>
    /\ plan = None

---------------------------------------------------------------------------
\* _sync

Moved(s, idx, c) ==
    /\ s.contexts[c].loaded
    /\ Record(s.contexts[c]) # [idx.contexts[c] EXCEPT !.recipe = s.contexts[c].recipe]

\* One new state of ancestry per moved context, on top of its cursor; what
\* could be redone is given up.
ExtendedBesideRedo(s, idx) ==      \* keeps the redo path
    LET moved == {c \in Ctx : Moved(s, idx, c)}
        order == SetToSeq(moved)
        Place(c) == Len(idx.states) + (CHOOSE i \in DOMAIN order : order[i] = c)
    IN [idx EXCEPT
          !.states = @ \o [i \in DOMAIN order |-> [context |-> Record(s.contexts[order[i]]),
                                                   parent |-> idx.cursor[order[i]]]],
          !.cursor = [c \in Ctx |-> IF c \in moved THEN Place(c) ELSE @[c]]]
Extended(s, idx) ==
    LET moved == {c \in Ctx : Moved(s, idx, c)}
        order == SetToSeq(moved)
        Place(c) == Len(idx.states) + (CHOOSE i \in DOMAIN order : order[i] = c)
    IN [idx EXCEPT
          !.states = @ \o [i \in DOMAIN order |-> [context |-> Record(s.contexts[order[i]]),
                                                   parent |-> idx.cursor[order[i]]]],
          !.cursor = [c \in Ctx |-> IF c \in moved THEN Place(c) ELSE @[c]],
          !.redo = [c \in Ctx |-> IF c \in moved THEN <<>> ELSE @[c]]]

ProtectedPins(idx) == idx.pins
ProtectedBy(idx) == idx.pins \cup ({idx.contexts[c].head : c \in Ctx} \ {None})

\* The heads of the first depth states on the way up from a cursor.
Ancestors(idx, c) ==
    LET up[k \in 0..idx.policy.depth] ==
            IF k = 0 THEN idx.cursor[c]
            ELSE IF up[k-1] = 0 THEN 0 ELSE idx.states[up[k-1]].parent
    IN {up[k] : k \in 0..idx.policy.depth - 1} \ {0}

Redoable(idx, c) ==
    LET path == idx.redo[c]
    IN {path[i] : i \in {j \in DOMAIN path : j > Len(path) - idx.policy.depth}}

Preferred(idx) ==
    {idx.states[i].context.head : i \in UNION {Ancestors(idx, c) \cup Redoable(idx, c) : c \in Ctx}}

Recent(idx) == {id \in idx.live : Cardinality({j \in idx.live : j > id}) < idx.policy.keep}

Pruned(idx) ==
    [idx EXCEPT !.live = @ \cap (ProtectedBy(idx) \cup Preferred(idx) \cup Recent(idx))]

Synced(s, idx, track) ==
    LET tracked == IF track THEN Extended(s, idx) ELSE idx
        current == [tracked EXCEPT
                     !.contexts = [c \in Ctx |-> IF s.contexts[c].loaded THEN Record(s.contexts[c])
                                                 ELSE NoRecord],
                     !.bindings = s.bindings, !.selected = s.selected,
                     !.live = @ \cup (Retained(s) \ Known)]
    IN [Pruned(current) EXCEPT !.generation = index.generation + 1]

\* A key survives packing only with exact resume authority.
Packed(o) == [o EXCEPT !.key = IF Exact(o) THEN @ ELSE None]

Bounded == index.generation < MaxGeneration

\* The statement's clone s and copy idx are committed and adopted.  Operations
\* are serial here and Session is about revisions, so the number is forgotten.
CommitAs(s, idx, track) ==
    LET next == Synced(s, idx, track)
        known == Known \cup Retained(s)
        pruned == known \ next.live
        kept == [s EXCEPT !.pruned = pruned, !.objects = Without(@, pruned), !.revision = 0]
    IN /\ Bounded /\ s.minted <= MaxMinted /\ Len(next.states) <= MaxStates
       /\ Bytes(kept) <= MaxBytes
       /\ index' = next
       /\ session' = kept
       /\ payload' = [id \in known |-> IF id \in Known THEN payload[id] ELSE Packed(Stored(s, id))]

\* A plain session operation, executed on the clone.
Staged(r) == r.ok /\ CommitAs(r.s, index, TRUE) /\ UNCHANGED plan

---------------------------------------------------------------------------
\* Session operations and tools through the durable service.

Load(c) == Staged(LoadContext(session, c, TRUE, TRUE))
Use(c) == session.contexts[c].loaded /\ \E n \in Name \cup {None} : Staged(UseValue(session, c, n))
UseAgain(c, id) == session.contexts[c].loaded /\ Staged(UseReference(session, id, c, None))
UpdateSystem(c, u) == session.contexts[c].loaded /\ Staged(UpdateContext(session, c, u))
Solve(c, k) ==
    /\ session.contexts[c].head # None
    /\ \E n \in Name \cup {None}, activate \in BOOLEAN :
          Staged(Publish(session, Solved("state", session.contexts[c].recipe, k), c, n, activate, k, 0))
ReleaseName(n) == Staged(Release(session, n))

---------------------------------------------------------------------------
\* Checkpoints.

\* session.save and checkpoints.save: the value again under a new id.
Save(id, pin) ==
    LET o == Stored(session, id)
        key == IF Exact(o) /\ o.value.kind \in Memory THEN o.key ELSE None
        r == Publish(session, o.value, None, None, FALSE, key, Len(o.recipe))
        object == [o EXCEPT !.id = r.id, !.key = key]
    IN /\ r.ok /\ (o.value.kind \in Memory => Exact(o))
       /\ CommitAs([r.s EXCEPT !.objects[Len(r.s.objects)] = object],
                   IF pin THEN [index EXCEPT !.pins = @ \cup {r.id}] ELSE index, TRUE)
       /\ UNCHANGED plan

Pin(id) ==
    /\ id \in index.live
    /\ CommitAs(session, [index EXCEPT !.pins = @ \cup {id}], TRUE)
    /\ UNCHANGED plan

Unpin(id) == CommitAs(session, [index EXCEPT !.pins = @ \ {id}], TRUE) /\ UNCHANGED plan

Configure(policy) ==
    /\ policy # index.policy
    /\ CommitAs(session, [index EXCEPT !.policy = policy], TRUE)
    /\ UNCHANGED plan

(***************************************************************************)
(* _context in exact mode: the context is loaded again, its updates are    *)
(* replayed, and the recorded configuration and head are put back.         *)
(***************************************************************************)
Opens(record) ==
    LET head == payload[record.head]
    IN record.head = None
         \/ (record.head \in index.live /\ (head.value.kind \in Memory => Exact(head)))

RebuiltContext(record) ==
    [loaded |-> TRUE, factory |-> TRUE, head |-> record.head,
     key |-> IF record.head = None THEN None ELSE payload[record.head].key,
     configuration |-> record.configuration, recipe |-> record.recipe]
RebuiltHead(c, record) ==
    [payload[record.head] EXCEPT !.context = c, !.configuration = record.configuration,
                                 !.recipe = record.recipe]

Rebuilt(s, c, record) ==
    LET object == RebuiltHead(c, record)
        revised == s.revision + 1 + Len(record.recipe)
        place == IF record.head \in Retained(s)
                 THEN [i \in DOMAIN s.objects |->
                        IF s.objects[i].id = record.head THEN object ELSE s.objects[i]]
                 ELSE Append(s.objects, object)
    IN [s EXCEPT !.contexts[c] = RebuiltContext(record), !.revision = revised,
                 !.objects = IF record.head = None THEN @ ELSE place]

RestoreExact(id, c) ==
    LET o == payload[id]
        record == [loaded |-> TRUE, head |-> id, configuration |-> o.configuration, recipe |-> o.recipe]
        s == Rebuilt(session, c, record)
        r == Publish(s, o.value, c, None, TRUE, o.key, 0)
    IN /\ id \in index.live /\ o.context # None /\ Exact(o)
       /\ r.ok
       /\ CommitAs([r.s EXCEPT !.selected = c], index, TRUE)
       /\ UNCHANGED plan

RestorePhysical(id, c) ==
    /\ id \in index.live /\ payload[id].context # None
    /\ payload[id].value.kind # "report" /\ session.contexts[c].loaded
    /\ LET r == UseValue(session, c, None)
       IN r.ok /\ CommitAs([r.s EXCEPT !.selected = c], index, TRUE)
    /\ UNCHANGED plan

---------------------------------------------------------------------------
\* session.undo and session.redo

Stepped(idx, c, redo) ==
    IF redo
    THEN IF idx.redo[c] = <<>> THEN None
         ELSE [idx EXCEPT !.cursor[c] = Last(idx.redo[c]), !.redo[c] = Front(@)]
    ELSE IF idx.cursor[c] = 0 \/ idx.states[idx.cursor[c]].parent = 0 THEN None
         ELSE [idx EXCEPT !.redo[c] = Append(@, idx.cursor[c]),
                          !.cursor[c] = idx.states[idx.cursor[c]].parent]

Walked(c, steps, redo) ==
    LET walk[k \in 0..steps] == IF k = 0 THEN index
                                ELSE IF walk[k-1] = None THEN None ELSE Stepped(walk[k-1], c, redo)
    IN walk[steps]

Move(c, steps, redo) ==
    /\ session.contexts[c].loaded
    /\ LET idx == Walked(c, steps, redo)
       IN /\ idx # None
          /\ LET record == idx.states[idx.cursor[c]].context
                 s == Rebuilt(session, c, record)
             IN Opens(record) /\ CommitAs([s EXCEPT !.revision = @ + 1], idx, FALSE)
    /\ UNCHANGED plan

---------------------------------------------------------------------------
\* storage.plan and storage.apply

Eligible == index.live \ ProtectedBy(index)

Preview(targets) ==
    /\ targets # {} /\ targets \subseteq Eligible
    /\ plan' = [generation |-> index.generation, targets |-> targets]
    /\ UNCHANGED <<session, index, payload>>

StillSafe == plan.generation = index.generation /\ plan.targets \subseteq Eligible

ApplyPlan ==
    /\ plan # None /\ StillSafe
    /\ CommitAs(session, [index EXCEPT !.live = @ \ plan.targets], TRUE)
    /\ plan' = plan

---------------------------------------------------------------------------
(***************************************************************************)
(* project.close and project.open in a new process: contexts and bound     *)
(* objects come back from the index, other retained objects do not.        *)
(***************************************************************************)
Reopened ==
    LET loaded == {c \in Ctx : index.contexts[c].loaded}
        Owner(id) == CHOOSE c \in loaded : index.contexts[c].head = id
        heads == {index.contexts[c].head : c \in loaded} \ {None}
        headed == SetToSeq(heads)
        named == SetToSeq(({index.bindings[n] : n \in Name} \cap index.live) \ heads)
    IN [EmptySession EXCEPT
          !.contexts = [c \in Ctx |-> IF c \in loaded THEN RebuiltContext(index.contexts[c]) ELSE Unloaded],
          !.objects = [i \in DOMAIN headed |->
                         RebuiltHead(Owner(headed[i]), index.contexts[Owner(headed[i])])]
                      \o [i \in DOMAIN named |-> payload[named[i]]],
          !.bindings = index.bindings, !.selected = index.selected,
          !.pruned = Known \ index.live, !.minted = session.minted]

Reopen ==
    /\ Bounded
    /\ \A c \in Ctx : index.contexts[c].loaded => Opens(index.contexts[c])
    /\ Bytes(Reopened) <= MaxBytes /\ Len(Reopened.objects) <= MaxObjects
    /\ session' = Reopened
    /\ UNCHANGED <<index, payload, plan>>

Next ==
    \/ \E c \in Ctx : Load(c) \/ Use(c)
    \/ \E c \in Ctx, u \in Update : UpdateSystem(c, u)
    \/ \E c \in Ctx, k \in Setting : Solve(c, k)
    \/ \E c \in Ctx, id \in Retained(session) : UseAgain(c, id)
    \/ \E n \in Name : ReleaseName(n)
    \/ \E c \in Ctx, steps \in 1..2, redo \in BOOLEAN : Move(c, steps, redo)
    \/ Reopen
    \/ /\ "pins" \in Groups
       /\ \/ \E id \in Retained(session), pin \in BOOLEAN : Save(id, pin)
          \/ \E id \in Known : Pin(id) \/ Unpin(id)
    \/ /\ "cleanup" \in Groups
       /\ \/ \E p \in Policies : Configure(p)
          \/ \E targets \in SUBSET Known : Preview(targets)
          \/ ApplyPlan
    \/ /\ "restore" \in Groups
       /\ \E c \in Ctx, id \in Known : RestoreExact(id, c) \/ RestorePhysical(id, c)

AncestrySpec == Init /\ [][Next]_avars

---------------------------------------------------------------------------
\* The cursor of a context is the state it is in, and its redo path is the
\* way back down: each entry the child of the one after it, the last the child
\* of the cursor.  So redo after undo returns to what was active, and never to a
\* state of another branch (controller.py:146, :474).
RedoIsTheWayBack ==
    \A c \in Ctx : session.contexts[c].loaded =>
        LET path == Append(index.redo[c], index.cursor[c])
        IN /\ index.states[index.cursor[c]].context = Record(session.contexts[c])
           /\ \A i \in DOMAIN index.redo[c] : index.states[path[i]].parent = path[i + 1]

\* Hard protection: the payload of every head and every pin stays available
\* through policy pruning, cleanup plans, undo and reopening (PERSISTENCE.md:151).
ActiveAvailable ==
    ProtectedBy(index) \subseteq index.live /\ Heads(session) \subseteq Retained(session)

\* A client that closes the experiment and opens it again in exact mode finds
\* the contexts it left, method memory and configuration included.
ReopenGivesBack ==
    [][ (session' # session /\ index' = index) => session'.contexts = session.contexts ]_avars

\* An implicit continuation resumes a state made by the same method on the same
\* system (SERVICE.md:104).
ResumesOwnMemory == \A c \in Ctx : Resumable(session, c) => MadeHere(session, c)

\* Every name that is bound can be released (TERMINAL.md:77).
NamesReleasable == \A n \in Name : session.bindings[n] # None => Release(session, n).ok

\* The foreground limits bound what is retained in memory (SERVICE.md:143).
RetentionBounded == Len(session.objects) <= MaxObjects /\ Bytes(session) <= MaxBytes
=============================================================================
