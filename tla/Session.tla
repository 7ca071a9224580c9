------------------------------ MODULE Session ------------------------------
(***************************************************************************)
(* One foreground session with a call in flight.  A tool reads the session *)
(* under its lock, computes without it and publishes under it again; load, *)
(* attach and update run the project's own code between reading and        *)
(* committing, and that code may call the session back.  The revision      *)
(* tells a commit that something happened in between.                      *)
(***************************************************************************)
EXTENDS SessionState

CONSTANTS MaxMinted, MaxRevision   \* bounds of the exploration

VARIABLES session, call

svars == <<session, call>>

Idle == [kind |-> "idle"]

Init == session = EmptySession /\ call = Idle

\* Room for one more step within the bounds of the exploration.
Bounded == session.minted < MaxMinted /\ session.revision < MaxRevision

\* A refused operation leaves the session as it was.
Apply(r) == r.ok /\ session' = r.s

---------------------------------------------------------------------------
\* Writers outside the call: another thread, or project code the call runs.

Outside(Op) == Bounded /\ Apply(Op) /\ UNCHANGED call

Use(c) == session.contexts[c].loaded /\ \E n \in Name \cup {None} : Outside(UseValue(session, c, n))
UseAgain(c, id) == session.contexts[c].loaded /\ Outside(UseReference(session, id, c, None))
Bind(n, id) == Outside(BindWhole(session, n, id))
BindPart(n, id) == \E f \in FieldsOf(Stored(session, id).value) : Outside(BindField(session, n, id, f))
Retain(n) == Outside(Publish(session, Report, None, n, FALSE, None, 0))
SelectOne(c) == session.selected # c /\ Outside(Select(session, c))
ReleaseName(n) == Outside(Release(session, n))
UpdateAtOnce(c, u) == session.contexts[c].loaded /\ Outside(UpdateContext(session, c, u))

---------------------------------------------------------------------------
\* session.load, session.attach and session.update: read, run, commit.

BeginLoad(c, factory, select) ==
    /\ call = Idle /\ Bounded /\ ~session.contexts[c].loaded
    /\ Cardinality(LoadedContexts(session)) < MaxObjects
    /\ call' = [kind |-> "load", context |-> c, revision |-> session.revision,
                factory |-> factory, select |-> select]
    /\ UNCHANGED session

BeginUpdate(c, u) ==
    /\ call = Idle /\ Bounded /\ session.contexts[c].loaded /\ session.contexts[c].factory
    /\ call' = [kind |-> "update", context |-> c, revision |-> session.revision, update |-> u]
    /\ UNCHANGED session

---------------------------------------------------------------------------
(***************************************************************************)
(* A tool.  A solver continues the method state of the head if the context *)
(* still carries the key of its settings, or a state given by reference if *)
(* it has the same provenance; otherwise it starts from physical data.     *)
(***************************************************************************)
Continuation(c, setting, source) ==
    LET context == session.contexts[c]
    IN IF source # None THEN Stored(session, source).value
       ELSE IF Resumable(session, c) /\ context.key = setting
            THEN Stored(session, context.head).value ELSE Physical

Accepts(c, setting, source) ==
    \/ source = None
    \/ /\ Resolves(session, source)
       /\ LET o == Stored(session, source)
          IN o.value.kind \in Memory /\ SameConfiguration(session, c, o) /\ o.key = setting

BeginTool(c, effect, setting, source, activate) ==
    /\ call = Idle /\ Bounded
    /\ session.contexts[c].loaded
    /\ Cardinality(Protected(session)) < MaxObjects
    /\ effect # "read" => session.contexts[c].factory
    /\ activate => effect # "read"
    /\ effect = "solve" =>
          setting # None /\ session.contexts[c].head # None /\ Accepts(c, setting, source)
    /\ effect # "solve" => setting = None /\ source = None
    /\ call' = [kind |-> "tool", context |-> c, revision |-> session.revision, effect |-> effect,
                setting |-> setting, activate |-> activate, recipe |-> session.contexts[c].recipe,
                read |-> session.contexts[c].head,
                memory |-> IF effect = "solve" THEN Continuation(c, setting, source) ELSE Physical]
    /\ UNCHANGED session

\* What a tool may return.  A failed solver outcome is retained, never active.
Results ==
    IF call.effect = "solve"
    THEN [value : {Solved(k, call.recipe, call.setting) : k \in Memory}, failed : BOOLEAN]
    ELSE [value : {IF call.effect = "candidate" THEN Physical ELSE Report}, failed : {FALSE}]

UnchangedHead == call.kind = "tool" => session.contexts[call.context].head = call.read
Unchanged == session.revision = call.revision

Commit ==
    /\ call # Idle /\ Unchanged
    /\ \/ call.kind = "load" /\ Apply(LoadContext(session, call.context, call.factory, call.select))
       \/ call.kind = "update" /\ Apply(UpdateContext(session, call.context, call.update))
       \/ /\ call.kind = "tool"
          /\ \E r \in Results, n \in Name \cup {None} :
                Apply(Publish(session, r.value, call.context, n, call.activate /\ ~r.failed,
                              call.setting, 0))
    /\ call' = Idle

\* The computation raised, the revision moved, or the result does not fit.
Abandon == call # Idle /\ call' = Idle /\ UNCHANGED session

Next ==
    \/ \E c \in Ctx : Use(c) \/ SelectOne(c)
    \/ \E c \in Ctx, id \in Retained(session) : UseAgain(c, id)
    \/ \E n \in Name : Retain(n) \/ ReleaseName(n)
    \/ \E n \in Name, id \in Retained(session) : Bind(n, id) \/ BindPart(n, id)
    \/ \E c \in Ctx, factory, select \in BOOLEAN : BeginLoad(c, factory, select)
    \/ \E c \in Ctx, u \in Update : BeginUpdate(c, u) \/ UpdateAtOnce(c, u)
    \/ \E c \in Ctx, e \in {"solve", "candidate", "read"}, k \in Setting \cup {None},
          id \in Retained(session) \cup {None}, activate \in BOOLEAN :
          BeginTool(c, e, k, id, activate)
    \/ Commit
    \/ Abandon

SessionSpec == Init /\ [][Next]_svars

---------------------------------------------------------------------------
\* Every object a name or a head refers to is retained, whatever publications
\* evict, names release and updates replace (session.py:271, :410).
ProtectedKept == Protected(session) \subseteq Retained(session)

\* The limits of the constructor bound the retained data after every
\* operation, the bytes added to a recipe or a field after publication included
\* (session.py:274, :436, :248).
RetentionBounded ==
    Len(session.objects) <= MaxObjects /\ Bytes(session) <= MaxBytes

\* No lost update: a call commits against the very head and recipe it read,
\* although others wrote while it computed (session.py:256, :288).
CommitsWhatItRead ==
    [][ (call.kind = "tool" /\ call' = Idle /\ session' # session) =>
           /\ session.contexts[call.context].head = call.read
           /\ session.contexts[call.context].recipe = call.recipe ]_svars

\* A context that would continue a method state holds, as its head, a state
\* made by that method on the system of its present recipe; and what a solver
\* in flight continues was made so too (session.py:399, service.py:333, :351).
ResumesOwnMemory ==
    /\ \A c \in Ctx : Resumable(session, c) => MadeHere(session, c)
    /\ (call.kind = "tool" /\ call.memory.kind \in Memory) =>
            call.memory.by = call.setting /\ call.memory.made = call.recipe

\* Bindings, heads and calls only ever name objects and contexts that exist.
TypeOK ==
    /\ \A i, j \in DOMAIN session.objects : i < j => session.objects[i].id < session.objects[j].id
    /\ \A id \in Retained(session) : id \in 1..session.minted
    /\ session.selected \in LoadedContexts(session) \cup {None}
    /\ \A c \in Ctx \ LoadedContexts(session) : session.contexts[c] = Unloaded
    /\ call = Idle \/ call.revision <= session.revision
=============================================================================
