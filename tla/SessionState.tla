---------------------------- MODULE SessionState ----------------------------
(***************************************************************************)
(* The foreground session as a value, and its operations as functions of   *)
(* it.  Session drives one session under reentrant and concurrent writers; *)
(* Ancestry applies the same operations to staged copies.                  *)
(*                                                                         *)
(* A value keeps what continuation depends on: its kind, and for a method  *)
(* state the recipe of the system that made it and the method settings.    *)
(* Bytes are units: a kind has a size and every secondary update of a      *)
(* recipe one unit.                                                        *)
(***************************************************************************)
EXTENDS Naturals, Sequences, FiniteSets, SequencesExt, FiniteSetsExt

CONSTANTS
    Ctx,          \* names of contexts
    Name,         \* names of bindings
    Update,       \* secondary updates
    Setting,      \* effective method configurations
    None,
    MaxObjects, MaxBytes,
    SizeOf        \* bytes of a value of each kind

Physical == [kind |-> "physical", made |-> None, by |-> None]
Report == [kind |-> "report", made |-> None, by |-> None]
\* a RunState or OptimizerResult ("state") or a ShootingResult ("history")
Memory == {"state", "history"}
Solved(kind, recipe, setting) == [kind |-> kind, made |-> recipe, by |-> setting]

Unloaded == [loaded |-> FALSE, factory |-> FALSE, head |-> None, key |-> None,
             configuration |-> 0, recipe |-> <<>>]

EmptySession ==
    [contexts |-> [c \in Ctx |-> Unloaded], objects |-> <<>>,
     bindings |-> [n \in Name |-> None], pruned |-> {}, selected |-> None,
     revision |-> 0, minted |-> 0]

---------------------------------------------------------------------------
\* Retained data.  objects keeps the order of insertion of the dictionary.

Retained(s) == {s.objects[i].id : i \in DOMAIN s.objects}
Stored(s, id) == s.objects[CHOOSE i \in DOMAIN s.objects : s.objects[i].id = id]
Bound(s) == {s.bindings[n] : n \in Name} \ {None}
Heads(s) == {s.contexts[c].head : c \in Ctx} \ {None}
Protected(s) == Bound(s) \cup Heads(s)
Names(bindings) == {n \in Name : bindings[n] # None}
LoadedContexts(s) == {c \in Ctx : s.contexts[c].loaded}

StoredBytes(o) == SizeOf[o.value.kind] + Len(o.recipe)
Bytes(s) ==
    MapThenSumSet(StoredBytes, ToSet(s.objects))
      + MapThenSumSet(LAMBDA c : 1 + Len(s.contexts[c].recipe), LoadedContexts(s))

Without(objects, ids) ==
    LET kept[n \in 0..Len(objects)] ==
            IF n = 0 THEN <<>>
            ELSE IF objects[n].id \in ids THEN kept[n - 1] ELSE Append(kept[n - 1], objects[n])
    IN kept[Len(objects)]

Done(s, id) == [ok |-> TRUE, s |-> s, id |-> id]
Refused(s) == [ok |-> FALSE, s |-> s, id |-> None]
Step(s) == [s EXCEPT !.revision = @ + 1]

---------------------------------------------------------------------------
(***************************************************************************)
(* Publication: the new object is protected by nothing yet, the old ones   *)
(* go in order of age until it fits.  c is None for a value without a      *)
(* context, extra the bytes the caller adds afterwards.                    *)
(***************************************************************************)
Within(objects, bytes) == objects <= MaxObjects /\ bytes <= MaxBytes

Evicted(s, size) ==
    LET spare(n) == {s.objects[i].id : i \in 1..n} \ Protected(s)
        rest(n) == [s EXCEPT !.objects = Without(@, spare(n))]
        enough == {n \in 0..Len(s.objects) :
                     Within(Len(rest(n).objects) + 1, Bytes(rest(n)) + size)}
    IN IF enough = {} THEN [fits |-> FALSE, ids |-> {}]
       ELSE [fits |-> TRUE, ids |-> spare(Min(enough))]

Publish(s, value, c, bind, activate, key, extra) ==
    LET recipe == IF c = None THEN <<>> ELSE s.contexts[c].recipe
        id == s.minted + 1
        bindings == IF bind = None THEN s.bindings ELSE [s.bindings EXCEPT ![bind] = id]
        evicted == Evicted(s, SizeOf[value.kind] + Len(recipe) + extra)
        object == [id |-> id, value |-> value, context |-> c, key |-> key, recipe |-> recipe,
                   configuration |-> IF c = None THEN 0 ELSE s.contexts[c].configuration]
    IN IF \/ Cardinality(Names(bindings)) > MaxObjects
          \/ ~evicted.fits
          \/ activate /\ value.kind = "report"
       THEN Refused(s)
       ELSE Done([s EXCEPT !.objects = Append(Without(@, evicted.ids), object),
                           !.bindings = bindings,
                           !.contexts = IF activate
                                        THEN [@ EXCEPT ![c].head = id, ![c].key = key]
                                        ELSE @,
                           !.revision = @ + 1, !.minted = id], id)

---------------------------------------------------------------------------
\* The operations of session.*.  A reference is an object id; a binding is
\* resolved before.

Resolves(s, id) == id \notin s.pruned /\ id \in Retained(s)

\* A context resumes a retained method state only if it was stored in the
\* same context under the same configuration.
SameContext(s, c, o) == o.context = c
SameConfiguration(s, c, o) ==
    o.context = c /\ o.configuration = s.contexts[c].configuration

\* An implicit call continues the head of such a context.
Resumable(s, c) ==
    LET context == s.contexts[c]
    IN context.head # None /\ context.key # None /\ Stored(s, context.head).value.kind \in Memory

MadeHere(s, c) ==
    LET context == s.contexts[c]
        value == Stored(s, context.head).value
    IN value.by = context.key /\ value.made = context.recipe

UseValue(s, c, bind) == Publish(s, Physical, c, bind, TRUE, None, 0)

UseReference(s, id, c, bind) ==
    LET o == Stored(s, id)
        key == IF o.value.kind \in Memory /\ SameConfiguration(s, c, o) THEN o.key ELSE None
    IN IF ~Resolves(s, id) \/ (o.value.kind = "state" /\ key = None) THEN Refused(s)
       ELSE Publish(s, o.value, c, bind, TRUE, key, 0)

BindWhole(s, n, id) ==
    LET bindings == [s.bindings EXCEPT ![n] = id]
    IN IF ~Resolves(s, id) \/ Cardinality(Names(bindings)) > MaxObjects \/ Bytes(s) > MaxBytes
       THEN Refused(s) ELSE Done(Step([s EXCEPT !.bindings = bindings]), id)

\* A field is owned separately but keeps the provenance of its source.
BindField(s, n, id, field) ==
    LET o == Stored(s, id)
        r == Publish(s, field, None, n, FALSE, o.key, Len(o.recipe))
        object == [id |-> r.id, value |-> field, context |-> o.context, key |-> o.key,
                   recipe |-> o.recipe, configuration |-> o.configuration]
    IN IF ~Resolves(s, id) \/ ~r.ok THEN Refused(s)
       ELSE Done([r.s EXCEPT !.objects[Len(r.s.objects)] = object], r.id)

FieldsOf(value) == IF value.kind \in Memory THEN {value, Physical} ELSE {value}

Select(s, c) ==
    IF s.contexts[c].loaded THEN Done(Step([s EXCEPT !.selected = c]), None) ELSE Refused(s)

\* Deleting the object a name was the last to hold; a tombstone has none to
\* delete, and the dictionary raises.
ReleaseUnnamed(s, n) ==      \* forgets that a head may hold the object
    LET id == s.bindings[n]
        left == [s EXCEPT !.bindings[n] = None]
        last == id \notin Bound(left)
    IN IF id = None THEN Refused(s)
       ELSE Done(Step([left EXCEPT !.objects = IF last THEN Without(@, {id}) ELSE @]), None)
Release(s, n) ==
    LET id == s.bindings[n]
        left == [s EXCEPT !.bindings[n] = None]
        last == id \notin Protected(left)
    IN IF id = None \/ (last /\ id \notin Retained(s)) THEN Refused(s)
       ELSE Done(Step([left EXCEPT !.objects = IF last THEN Without(@, {id}) ELSE @]), None)

LoadContext(s, c, factory, select) ==
    IF \/ s.contexts[c].loaded
       \/ Cardinality(LoadedContexts(s)) >= MaxObjects
       \/ Bytes(s) + 1 > MaxBytes
    THEN Refused(s)
    ELSE Done(Step([s EXCEPT !.contexts[c] = [Unloaded EXCEPT !.loaded = TRUE, !.factory = factory],
                             !.selected = IF select THEN c ELSE @]), None)

\* Physical input is retained under the new recipe, method memory is not.
UpdateContext(s, c, u) ==
    LET old == s.contexts[c]
        recipe == Append(old.recipe, u)
        r == IF old.head = None THEN Done(Step(s), None)
             ELSE Publish(s, Physical, c, None, TRUE, None, 2)
        updated == [r.s EXCEPT !.contexts[c].configuration = @ + 1,
                               !.contexts[c].key = None, !.contexts[c].recipe = recipe]
        last == Len(r.s.objects)
    IN IF ~old.factory \/ Bytes(s) + 1 > MaxBytes \/ ~r.ok THEN Refused(s)
       ELSE Done(IF old.head = None THEN updated
                 ELSE [updated EXCEPT !.objects[last].configuration = old.configuration + 1,
                                      !.objects[last].recipe = recipe], None)
=============================================================================
