--------------------------- MODULE FrontendProofs ---------------------------
(***************************************************************************)
(* What the run Frontend checks of Session, Ancestry, Recorder and         *)
(* Coordinator, as theorems of MCFrontend.  The first half proves the      *)
(* inductive invariant of Ancestry, one lemma per operation.  Then follows *)
(* that of Coordinator: no crash, lost reply or failed publication makes   *)
(* it start a job twice, run a remembered request twice, or take back a    *)
(* completion it told a client.  The last part carries what holds of a     *)
(* part over to behaviours that explore one part and leave the others      *)
(* alone.                                                                  *)
(***************************************************************************)
EXTENDS MCFrontend, FiniteSetTheorems, SequenceTheorems, TLAPS

-----------------------------------------------------------------------------
(* Ancestry.                                                               *)

\* None is none of the values it stands beside, and a session has finitely many contexts.
AncestrySound ==
  /\ None \notin Nat /\ None \notin AncestryCtx /\ None \notin Certified
  /\ IsFiniteSet(AncestryCtx)

Kind == {"physical", "state", "history", "report"}
Value == [kind : Kind, made : Seq(AncestryUpdate) \cup {None}, by : AncestrySetting \cup {None}]
ObjectRecord ==
  [id : Nat, value : Value, context : AncestryCtx \cup {None}, key : AncestrySetting \cup {None},
   recipe : Seq(AncestryUpdate), configuration : Nat]
ContextRecord ==
  [loaded : BOOLEAN, factory : BOOLEAN, head : Nat \cup {None}, key : AncestrySetting \cup {None},
   configuration : Nat, recipe : Seq(AncestryUpdate)]
SessionRecord ==
  [contexts : [AncestryCtx -> ContextRecord], objects : Seq(ObjectRecord),
   bindings : [AncestryName -> Nat \cup {None}], pruned : SUBSET Nat,
   selected : AncestryCtx \cup {None}, revision : Nat, minted : Nat]
ActivationRecord ==
  [loaded : BOOLEAN, head : Nat \cup {None}, configuration : Nat, recipe : Seq(AncestryUpdate)]
StateRecord == [context : ActivationRecord, parent : Nat]
IndexRecord ==
  [contexts : [AncestryCtx -> ActivationRecord], bindings : [AncestryName -> Nat \cup {None}],
   selected : AncestryCtx \cup {None}, live : SUBSET Nat, pins : SUBSET Nat, states : Seq(StateRecord),
   cursor : [AncestryCtx -> Nat], redo : [AncestryCtx -> Seq(Nat)], policy : Policies, generation : Nat]

\* Objects have numbers that were given out, and a head is retained.
Shape(s) ==
  /\ s \in SessionRecord
  /\ \A o \in A!ToSet(s.objects) : o.id \in 1..s.minted
  /\ A!Heads(s) \subseteq A!Retained(s)

\* What is stored under a number is its object.
Catalogued(s, stored) ==
  /\ DOMAIN stored \subseteq 1..s.minted
  /\ stored \in [DOMAIN stored -> ObjectRecord] /\ \A id \in DOMAIN stored : stored[id].id = id

\* A context whose head would be restored exactly has the key that is stored with it.
KeyKept(x, stored) ==
  (stored[x.head].value.kind \in A!Memory => A!Exact(stored[x.head])) => x.key = stored[x.head].key

\* A context as a committed session has it.
KeptContext(x, idx, stored) ==
  /\ IF x.loaded THEN x.factory ELSE x = A!Unloaded
  /\ x.head = None => x.key = None
  /\ x.head # None => x.head \in idx.live /\ KeyKept(x, stored)

Activations(contexts) ==
  [c \in AncestryCtx |-> IF contexts[c].loaded THEN A!Record(contexts[c]) ELSE A!NoRecord]

\* The states of ancestry, and the path of a context through them.
OnPath(idx, c) ==
  LET path == Append(idx.redo[c], idx.cursor[c])
  IN /\ \A i \in DOMAIN path : path[i] \in DOMAIN idx.states
     /\ \A i \in DOMAIN idx.redo[c] : idx.states[path[i]].parent = path[i + 1]

Traced(idx, contexts) ==
  /\ \A i \in DOMAIN idx.states :
       idx.states[i].context.loaded /\ idx.states[i].parent <= Len(idx.states)
  /\ \A c \in AncestryCtx : idx.cursor[c] <= Len(idx.states)
  /\ \A c \in AncestryCtx : contexts[c].loaded =>
       OnPath(idx, c) /\ idx.states[idx.cursor[c]].context = A!Record(contexts[c])

Consistent(s, idx, stored) ==
  /\ Shape(s) /\ idx \in IndexRecord /\ Catalogued(s, stored)
  /\ idx.live \subseteq DOMAIN stored /\ idx.pins \subseteq idx.live
  /\ \A c \in AncestryCtx : KeptContext(s.contexts[c], idx, stored)
  /\ idx.contexts = Activations(s.contexts)
  /\ Traced(idx, s.contexts)

\* The inductive invariant: the session has the shape the operations rely on, every number
\* below the last is stored as it was made, the index describes the contexts of the session, and
\* opening the experiment from it would give them back.
AncestryInd == Consistent(durable, index, payload)

\* What a statement may leave of a context: its head is a live one, under the key that is stored
\* with it, or new, under the key of the new object.
NewKey(x, o) == x.key = o.key /\ (o.value.kind \notin A!Memory => o.key = None \/ A!Exact(o))
Held(t, c) ==
  LET x == t.contexts[c]
  IN /\ IF x.loaded THEN x.factory ELSE x = A!Unloaded
     /\ x.head = None => x.key = None
     /\ x.head # None => \/ x.head \in index.live /\ KeyKept(x, payload)
                        \/ /\ x.head \notin A!Known
                           /\ \A o \in A!ToSet(t.objects) : o.id = x.head => NewKey(x, o)

\* Where only the head and the configuration are compared, the recipe is the same too.
Fits(t, c) ==
  LET x == t.contexts[c] before == durable.contexts[c]
  IN /\ Held(t, c)
     /\ before.loaded /\ x.head = before.head /\ x.configuration = before.configuration
          => x.recipe = before.recipe

Ready(t) == Shape(t) /\ durable.minted <= t.minted /\ \A c \in AncestryCtx : Fits(t, c)

-----------------------------------------------------------------------------
\* What Without leaves.
LEMMA WithoutLeaves ==
  ASSUME NEW objects \in Seq(ObjectRecord), NEW ids
  PROVE  /\ A!Without(objects, ids) \in Seq(ObjectRecord)
         /\ A!ToSet(A!Without(objects, ids)) = {o \in A!ToSet(objects) : o.id \notin ids}
<1>1. PICK w : w = A!Without(objects, ids)
  OBVIOUS
<1>2. w = S!Without(objects, ids)
  BY <1>1 DEF A!Without, S!Without
<1>3. S!Rest(w, Len(objects), objects, ids, ObjectRecord)
  BY <1>2, S!WithoutRest
<1>4. /\ w \in Seq(ObjectRecord)
      /\ {w[i] : i \in DOMAIN w} = {objects[i] : i \in {k \in 1..Len(objects) : objects[k].id \notin ids}}
  BY <1>3 DEF S!Rest, S!ToSet
<1>5. DOMAIN objects = 1..Len(objects)
  OBVIOUS
<1>6. A!ToSet(w) = {o \in A!ToSet(objects) : o.id \notin ids}
  BY <1>4, <1>5 DEF A!ToSet
<1> QED
  BY <1>1, <1>4, <1>6

\* An appended object.
LEMMA Appended ==
  ASSUME NEW Row, NEW w \in Seq(Row), NEW x \in Row
  PROVE  /\ Append(w, x) \in Seq(Row) /\ Len(Append(w, x)) = Len(w) + 1
         /\ A!ToSet(Append(w, x)) = A!ToSet(w) \cup {x}
         /\ \A i \in DOMAIN w : Append(w, x)[i] = w[i]
         /\ Append(w, x)[Len(w) + 1] = x
<1>1. PICK z : z = Append(w, x)
  OBVIOUS
<1>2. /\ z \in Seq(Row) /\ Len(z) = Len(w) + 1 /\ Len(w) \in Nat
      /\ DOMAIN z = 1..(Len(w) + 1) /\ DOMAIN w = 1..Len(w)
      /\ \A i \in 1..Len(w) : z[i] = w[i]
      /\ z[Len(w) + 1] = x
  BY <1>1
<1>3. A!ToSet(z) = A!ToSet(w) \cup {x}
  BY <1>2 DEF A!ToSet
<1> QED
  BY <1>1, <1>2, <1>3

\* The parts of a session have their types.
LEMMA Fields ==
  ASSUME NEW s \in SessionRecord
  PROVE  /\ s.objects \in Seq(ObjectRecord) /\ s.contexts \in [AncestryCtx -> ContextRecord]
         /\ s.bindings \in [AncestryName -> Nat \cup {None}] /\ s.pruned \in SUBSET Nat
         /\ s.selected \in AncestryCtx \cup {None} /\ s.revision \in Nat /\ s.minted \in Nat
         /\ Len(s.objects) \in Nat /\ DOMAIN s.objects = 1..Len(s.objects)
         /\ A!ToSet(s.objects) \subseteq ObjectRecord
         /\ A!Retained(s) = {o.id : o \in A!ToSet(s.objects)}
<1>1. s.objects \in Seq(ObjectRecord)
  BY DEF SessionRecord
<1>2. PICK q : q = s.objects
  OBVIOUS
<1>3. q \in Seq(ObjectRecord) /\ Len(q) \in Nat /\ DOMAIN q = 1..Len(q)
  BY <1>1, <1>2
<1>4. A!ToSet(q) \subseteq ObjectRecord
  BY <1>3 DEF A!ToSet
<1>5. A!Retained(s) = {o.id : o \in A!ToSet(s.objects)}
  BY DEF A!Retained, A!ToSet
<1> QED
  BY <1>2, <1>3, <1>4, <1>5 DEF SessionRecord

\* The object looked up under a retained number has that number.
LEMMA Looked ==
  ASSUME NEW s \in SessionRecord, NEW id \in A!Retained(s)
  PROVE  A!Stored(s, id) \in A!ToSet(s.objects) /\ A!Stored(s, id).id = id
         /\ A!Stored(s, id) \in ObjectRecord
<1>1. PICK q : q = s.objects
  OBVIOUS
<1>2. \E i \in DOMAIN q : q[i].id = id
  BY <1>1 DEF A!Retained
<1>3. PICK k : k = CHOOSE i \in DOMAIN q : q[i].id = id
  OBVIOUS
<1>4. k \in DOMAIN q /\ q[k].id = id
  BY <1>2, <1>3
<1>5. A!Stored(s, id) = q[k]
  BY <1>1, <1>3 DEF A!Stored
<1>6. q[k] \in A!ToSet(q)
  BY <1>4 DEF A!ToSet
<1> QED
  BY <1>1, <1>4, <1>5, <1>6, Fields

\* What a publication in s of a value makes of it: t has a new object o, and all heads of s.
Published(s, t, o, value, c, activate, key) ==
  /\ Shape(t)
  /\ o \in ObjectRecord /\ o.id = s.minted + 1 /\ o.value = value /\ o.context = c /\ o.key = key
  /\ o.recipe = IF c = None THEN <<>> ELSE s.contexts[c].recipe
  /\ o.configuration = IF c = None THEN 0 ELSE s.contexts[c].configuration
  /\ t.minted = s.minted + 1
  /\ A!ToSet(t.objects) \subseteq A!ToSet(s.objects) \cup {o}
  /\ t.objects # <<>> /\ t.objects[Len(t.objects)] = o
  /\ t.contexts = IF activate THEN [s.contexts EXCEPT ![c] = [@ EXCEPT !.head = o.id, !.key = key]]
                  ELSE s.contexts

\* A publication that succeeds keeps the shape of a session.
LEMMA PublishShapes ==
  ASSUME AncestrySound, NEW s, Shape(s), NEW value \in Value, NEW c \in AncestryCtx \cup {None},
         NEW bind, NEW activate \in BOOLEAN, activate => c # None,
         NEW key \in AncestrySetting \cup {None}, NEW extra, NEW r,
         r = A!Publish(s, value, c, bind, activate, key, extra), r.ok
  PROVE  r.id = s.minted + 1 /\ \E o : Published(s, r.s, o, value, c, activate, key)
<1>1. /\ s \in SessionRecord /\ s.objects \in Seq(ObjectRecord)
      /\ s.contexts \in [AncestryCtx -> ContextRecord] /\ s.bindings \in [AncestryName -> Nat \cup {None}]
      /\ s.revision \in Nat /\ s.minted \in Nat
  BY Fields DEF Shape
<1>2. PICK recipe : recipe = IF c = None THEN <<>> ELSE s.contexts[c].recipe
  OBVIOUS
<1>3. PICK configuration : configuration = IF c = None THEN 0 ELSE s.contexts[c].configuration
  OBVIOUS
<1>4. PICK id : id = s.minted + 1
  OBVIOUS
<1>5. PICK e : e = A!Evicted(s, Size[value.kind] + Len(recipe) + extra)
  OBVIOUS
<1>6. recipe \in Seq(AncestryUpdate) /\ configuration \in Nat /\ id \in Nat
  <2>1. CASE c = None
    <3>1. <<>> \in Seq(AncestryUpdate)
      OBVIOUS
    <3> QED
      BY <1>1, <1>2, <1>3, <1>4, <2>1, <3>1
  <2>2. CASE c # None
    <3>1. s.contexts[c] \in ContextRecord
      BY <1>1, <2>2
    <3> QED
      BY <1>1, <1>2, <1>3, <1>4, <2>2, <3>1 DEF ContextRecord
  <2> QED
    BY <2>1, <2>2
<1>7. PICK o : o = [id |-> id, value |-> value, context |-> c, key |-> key, recipe |-> recipe,
                    configuration |-> configuration]
  OBVIOUS
<1>8. PICK bindings : bindings = IF bind = None THEN s.bindings ELSE [s.bindings EXCEPT ![bind] = id]
  OBVIOUS
<1>9. PICK w : w = A!Without(s.objects, e.ids)
  OBVIOUS
<1>10. PICK contexts : contexts = IF activate THEN [s.contexts EXCEPT ![c].head = id, ![c].key = key]
                                  ELSE s.contexts
  OBVIOUS
<1>11. /\ r = A!Done([s EXCEPT !.objects = Append(w, o), !.bindings = bindings,
                             !.contexts = contexts, !.revision = @ + 1, !.minted = id], id)
       /\ e.fits
  <2>1. r = IF \/ A!Cardinality(A!Names(bindings)) > AncestryObjects
               \/ ~e.fits
               \/ activate /\ value.kind = "report"
            THEN A!Refused(s)
            ELSE A!Done([s EXCEPT !.objects = Append(w, o), !.bindings = bindings,
                                !.contexts = contexts, !.revision = @ + 1, !.minted = id], id)
    BY <1>2, <1>3, <1>4, <1>5, <1>7, <1>8, <1>9, <1>10 DEF A!Publish
  <2>2. ~A!Refused(s).ok
    BY DEF A!Refused
  <2> QED
    BY <2>1, <2>2
<1>12. PICK t : t = [s EXCEPT !.objects = Append(w, o), !.bindings = bindings,
                              !.contexts = contexts, !.revision = @ + 1, !.minted = id]
  OBVIOUS
<1>13. r.s = t /\ r.id = id
  BY <1>11, <1>12 DEF A!Done
<1>14. \A i \in e.ids : i \notin A!Heads(s)
  <2> DEFINE spare(n) == {s.objects[i].id : i \in 1..n} \ A!Protected(s)
             rest(n) == [s EXCEPT !.objects = A!Without(@, spare(n))]
             enough(size) == {n \in 0..Len(s.objects) :
                          A!Within(Len(rest(n).objects) + 1, A!Bytes(rest(n)) + size)}
  <2>1. PICK size : size = Size[value.kind] + Len(recipe) + extra
    OBVIOUS
  <2>2. e = IF enough(size) = {} THEN [fits |-> FALSE, ids |-> {}]
            ELSE [fits |-> TRUE, ids |-> spare(A!Min(enough(size)))]
    BY <1>5, <2>1 DEF A!Evicted
  <2> HIDE DEF enough
  <2>3. e.ids = spare(A!Min(enough(size)))
    BY <1>11, <2>2
  <2> QED
    BY <2>3 DEF A!Protected
<1>15. w \in Seq(ObjectRecord) /\ A!ToSet(w) = {p \in A!ToSet(s.objects) : p.id \notin e.ids}
  BY <1>1, <1>9, WithoutLeaves
<1>16. /\ o \in ObjectRecord /\ o.id = id /\ o.value = value /\ o.context = c /\ o.key = key
       /\ o.recipe = recipe /\ o.configuration = configuration
  BY <1>6, <1>7 DEF ObjectRecord
<1>17. PICK objects : objects = Append(w, o)
  OBVIOUS
<1>18. /\ objects \in Seq(ObjectRecord) /\ A!ToSet(objects) = A!ToSet(w) \cup {o}
       /\ Len(objects) = Len(w) + 1 /\ objects[Len(w) + 1] = o
  BY <1>15, <1>16, <1>17, Appended
<1>19. objects # <<>> /\ objects[Len(objects)] = o
  BY <1>15, <1>18
<1>20. bindings \in [AncestryName -> Nat \cup {None}]
  BY <1>1, <1>6, <1>8
<1>21. /\ contexts = IF activate THEN [s.contexts EXCEPT ![c] = [@ EXCEPT !.head = id, !.key = key]]
                     ELSE s.contexts
       /\ contexts \in [AncestryCtx -> ContextRecord]
       /\ \A d \in AncestryCtx : contexts[d].head \in {s.contexts[d].head, id}
  <2>1. CASE ~activate
    BY <1>1, <1>10, <2>1
  <2>2. CASE activate
    <3>1. c \in AncestryCtx /\ s.contexts[c] \in ContextRecord
      BY <1>1, <2>2
    <3>2. PICK x : x = [s.contexts[c] EXCEPT !.head = id, !.key = key]
      OBVIOUS
    <3>3. x \in ContextRecord /\ x.head = id
      BY <1>6, <3>1, <3>2 DEF ContextRecord
    <3>4. contexts = [s.contexts EXCEPT ![c] = x]
      BY <1>1, <1>10, <2>2, <3>1, <3>2
    <3> QED
      BY <1>1, <2>2, <3>1, <3>2, <3>3, <3>4
  <2> QED
    BY <2>1, <2>2
<1>22. PICK revision : revision = s.revision + 1
  OBVIOUS
<1>23. /\ t \in SessionRecord /\ t.objects = objects /\ t.bindings = bindings
       /\ t.contexts = contexts /\ t.minted = id
  <2>1. t = [s EXCEPT !.objects = objects, !.bindings = bindings,
                      !.contexts = contexts, !.revision = revision, !.minted = id]
    BY <1>12, <1>17, <1>22
  <2>2. revision \in Nat
    BY <1>1, <1>22
  <2> QED
    BY <1>1, <1>6, <1>18, <1>20, <1>21, <2>1, <2>2 DEF SessionRecord
<1>24. \A p \in A!ToSet(t.objects) : p.id \in 1..t.minted
  BY <1>1, <1>4, <1>15, <1>16, <1>18, <1>23 DEF Shape
<1>25. A!Heads(t) \subseteq A!Retained(t)
  <2>1. \A h \in A!Heads(s) : \E p \in A!ToSet(w) : p.id = h
    BY <1>1, <1>14, <1>15, Fields DEF Shape
  <2>2. \A h \in A!Heads(t) : h \in A!Heads(s) \/ h = id
    BY <1>21, <1>23 DEF A!Heads
  <2>3. \A h \in A!Heads(t) : \E p \in A!ToSet(objects) : p.id = h
    BY <1>16, <1>18, <2>1, <2>2
  <2> QED
    BY <1>23, <2>3, Fields
<1>26. Shape(t)
  BY <1>23, <1>24, <1>25 DEF Shape
<1>27. Published(s, t, o, value, c, activate, key)
  BY <1>2, <1>3, <1>4, <1>15, <1>16, <1>18, <1>19, <1>21, <1>23, <1>26 DEF Published
<1> QED
  BY <1>4, <1>13, <1>27

\* An object packed under the number of a head carries the key of its context, if it could be
\* restored exactly.
LEMMA PackedKey ==
  ASSUME AncestrySound, NEW o \in ObjectRecord, NEW x, NewKey(x, o)
  PROVE  /\ A!Packed(o) \in ObjectRecord /\ A!Packed(o).id = o.id
         /\ (A!Packed(o).value.kind \in A!Memory => A!Exact(A!Packed(o))) => x.key = A!Packed(o).key
<1>1. PICK p : p = A!Packed(o)
  OBVIOUS
<1>2. CASE A!Exact(o)
  <2>1. p = o
    BY <1>1, <1>2 DEF A!Packed, ObjectRecord
  <2> QED
    BY <1>1, <2>1 DEF NewKey
<1>3. CASE ~A!Exact(o)
  <2>1. p = [o EXCEPT !.key = None]
    BY <1>1, <1>3 DEF A!Packed
  <2>2. p \in ObjectRecord /\ p.id = o.id /\ p.key = None /\ p.value = o.value
    BY <2>1 DEF ObjectRecord
  <2>3. ~A!Exact(p)
    BY <2>2 DEF A!Exact, AncestrySound
  <2> QED
    BY <1>1, <1>3, <2>2, <2>3 DEF NewKey
<1> QED
  BY <1>2, <1>3

\* An object without demands on its key is packed as one.
LEMMA PackedType ==
  ASSUME NEW o \in ObjectRecord
  PROVE  A!Packed(o) \in ObjectRecord /\ A!Packed(o).id = o.id
<1>1. CASE A!Exact(o)
  BY <1>1 DEF A!Packed, ObjectRecord
<1>2. CASE ~A!Exact(o)
  BY <1>2 DEF A!Packed, ObjectRecord
<1> QED
  BY <1>1, <1>2

\* A commit of a session that is ready, with an index whose paths fit it.
LEMMA CommitKeeps ==
  ASSUME AncestrySound, AncestryInd, NEW t, Shape(t), durable.minted <= t.minted, \A c \in AncestryCtx : Held(t, c),
         NEW idx, NEW track \in BOOLEAN, NEW tracked,
         tracked = (IF track THEN A!Extended(t, idx) ELSE idx),
         tracked \in IndexRecord, Traced(tracked, t.contexts),
         tracked.live \subseteq index.live,
         tracked.pins \subseteq tracked.live \cup (A!Retained(t) \ A!Known),
         A!Heads(t) \subseteq tracked.live \cup (A!Retained(t) \ A!Known),
         A!CommitAs(t, idx, track)
  PROVE  AncestryInd' /\ index' # index
<1>1. /\ Shape(durable) /\ index \in IndexRecord /\ Catalogued(durable, payload)
      /\ index.live \subseteq A!Known
  BY DEF AncestryInd, Consistent, A!Known
<1>2. /\ t \in SessionRecord /\ t.objects \in Seq(ObjectRecord) /\ t.contexts \in [AncestryCtx -> ContextRecord]
      /\ t.bindings \in [AncestryName -> Nat \cup {None}] /\ t.selected \in AncestryCtx \cup {None}
      /\ t.minted \in Nat /\ durable.minted \in Nat /\ durable.minted <= t.minted
      /\ \A o \in A!ToSet(t.objects) : o \in ObjectRecord /\ o.id \in 1..t.minted
      /\ A!Heads(t) \subseteq A!Retained(t)
      /\ A!Retained(t) = {o.id : o \in A!ToSet(t.objects)}
  BY <1>1, Fields DEF Shape
<1>3. PICK known : known = A!Known \cup A!Retained(t)
  OBVIOUS
<1>4. known \subseteq 1..t.minted /\ known \subseteq Nat
  BY <1>1, <1>2, <1>3 DEF Catalogued, A!Known
<1>5. PICK contexts : contexts = Activations(t.contexts)
  OBVIOUS
<1>6. contexts \in [AncestryCtx -> ActivationRecord]
  <2>1. ASSUME NEW c \in AncestryCtx, t.contexts[c].loaded PROVE A!Record(t.contexts[c]) \in ActivationRecord
    BY <1>2 DEF A!Record, ActivationRecord, ContextRecord
  <2>2. A!NoRecord \in ActivationRecord
    <3>1. <<>> \in Seq(AncestryUpdate)
      OBVIOUS
    <3> QED
      BY <3>1 DEF A!NoRecord, ActivationRecord
  <2> QED
    BY <1>5, <2>1, <2>2 DEF Activations
<1>7. A!Heads(t) = {contexts[c].head : c \in AncestryCtx} \ {None}
  <2>1. ASSUME NEW c \in AncestryCtx PROVE contexts[c].head = t.contexts[c].head
    <3>1. ~t.contexts[c].loaded => t.contexts[c] = A!Unloaded
      BY DEF Held
    <3> QED
      BY <1>5, <3>1 DEF Activations, A!Record, A!NoRecord, A!Unloaded
  <2> QED
    BY <2>1 DEF A!Heads
<1>8. PICK offered : offered = tracked.live \cup (A!Retained(t) \ A!Known)
  OBVIOUS
<1>9. PICK current : current = [tracked EXCEPT !.contexts = contexts, !.bindings = t.bindings,
                                               !.selected = t.selected, !.live = offered]
  OBVIOUS
<1>10. offered \subseteq known /\ offered \in SUBSET Nat
  BY <1>1, <1>3, <1>4, <1>8
<1>11. /\ current \in IndexRecord /\ current.contexts = contexts /\ current.live = offered
       /\ current.pins = tracked.pins /\ current.states = tracked.states
       /\ current.cursor = tracked.cursor /\ current.redo = tracked.redo
  BY <1>2, <1>6, <1>9, <1>10 DEF IndexRecord
<1>12. PICK live : live = offered \cap (A!ProtectedBy(current) \cup A!Preferred(current) \cup A!Recent(current))
  OBVIOUS
<1>13. PICK generation : generation = index.generation + 1
  OBVIOUS
<1>14. generation \in Nat /\ generation # index.generation
  BY <1>1, <1>13 DEF IndexRecord
<1>15. PICK next : next = [[current EXCEPT !.live = live] EXCEPT !.generation = generation]
  OBVIOUS
<1>16. /\ next \in IndexRecord /\ next.contexts = contexts /\ next.live = live
       /\ next.pins = tracked.pins /\ next.states = tracked.states
       /\ next.cursor = tracked.cursor /\ next.redo = tracked.redo
       /\ next.generation = generation
  <2>1. live \in SUBSET Nat
    BY <1>10, <1>12
  <2> QED
    BY <1>11, <1>14, <1>15, <2>1 DEF IndexRecord
<1>17. A!Synced(t, idx, track) = next
  <2>1. A!Pruned(current) = [current EXCEPT !.live = live]
    BY <1>11, <1>12 DEF A!Pruned
  <2>2. A!Synced(t, idx, track) = [A!Pruned(current) EXCEPT !.generation = index.generation + 1]
    BY <1>5, <1>8, <1>9 DEF A!Synced, Activations
  <2> QED
    BY <1>13, <1>15, <2>1, <2>2
<1>18. A!Heads(t) \subseteq live /\ tracked.pins \subseteq live /\ live \subseteq known
  BY <1>7, <1>8, <1>10, <1>11, <1>12 DEF A!ProtectedBy
<1>19. PICK pruned : pruned = known \ live
  OBVIOUS
<1>20. PICK objects : objects = A!Without(t.objects, pruned)
  OBVIOUS
<1>21. /\ index' = next
       /\ durable' = [t EXCEPT !.pruned = pruned, !.objects = objects, !.revision = 0]
       /\ payload' = [id \in known |-> IF id \in A!Known THEN payload[id] ELSE A!Packed(A!Stored(t, id))]
  BY <1>3, <1>16, <1>17, <1>19, <1>20 DEF A!CommitAs
<1>22. objects \in Seq(ObjectRecord) /\ A!ToSet(objects) = {o \in A!ToSet(t.objects) : o.id \notin pruned}
  BY <1>2, <1>20, WithoutLeaves
<1>23. /\ durable' \in SessionRecord /\ durable'.contexts = t.contexts /\ durable'.objects = objects
       /\ durable'.minted = t.minted
  <2>1. pruned \in SUBSET Nat
    BY <1>4, <1>19
  <2> QED
    BY <1>2, <1>21, <1>22, <2>1 DEF SessionRecord
<1>24. Shape(durable')
  <2>1. \A h \in A!Heads(t) : h \notin pruned /\ \E o \in A!ToSet(t.objects) : o.id = h
    BY <1>2, <1>18, <1>19
  <2>2. A!Retained(durable') = {o.id : o \in A!ToSet(objects)}
    BY <1>23, Fields
  <2>3. A!Heads(durable') = A!Heads(t)
    BY <1>23 DEF A!Heads
  <2> QED
    BY <1>2, <1>22, <1>23, <2>1, <2>2, <2>3 DEF Shape
<1>25. DOMAIN payload' = known
  BY <1>21
<1>26. \A id \in A!Known : id \in known /\ payload'[id] = payload[id]
  BY <1>3, <1>21
<1>27. ASSUME NEW id \in known, id \notin A!Known
       PROVE  /\ payload'[id] = A!Packed(A!Stored(t, id))
              /\ A!Stored(t, id) \in A!ToSet(t.objects) /\ A!Stored(t, id).id = id
              /\ A!Stored(t, id) \in ObjectRecord
  BY <1>2, <1>3, <1>21, <1>27, Looked
<1>28. Catalogued(durable', payload')
  <2>1. ASSUME NEW id \in known PROVE payload'[id] \in ObjectRecord /\ payload'[id].id = id
    <3>1. CASE id \in A!Known
      BY <1>1, <1>26, <3>1 DEF Catalogued, A!Known
    <3>2. CASE id \notin A!Known
      BY <1>27, <3>2, PackedType
    <3> QED
      BY <3>1, <3>2
  <2>2. payload' \in [known -> ObjectRecord]
    <3>1. PICK f : f = payload'
      OBVIOUS
    <3>2. f = [id \in known |-> f[id]]
      BY <1>21, <3>1
    <3> QED
      BY <2>1, <3>1, <3>2
  <2> QED
    BY <1>4, <1>23, <1>25, <2>1, <2>2 DEF Catalogued
<1>29. ASSUME NEW c \in AncestryCtx PROVE KeptContext(t.contexts[c], next, payload')
  <2>1. PICK x : x = t.contexts[c]
    OBVIOUS
  <2>2. /\ IF x.loaded THEN x.factory ELSE x = A!Unloaded
        /\ x.head = None => x.key = None
        /\ x.head # None => \/ x.head \in index.live /\ KeyKept(x, payload)
                           \/ /\ x.head \notin A!Known
                              /\ \A o \in A!ToSet(t.objects) : o.id = x.head => NewKey(x, o)
    BY <2>1 DEF Held
  <2>3. ASSUME x.head # None PROVE x.head \in live /\ KeyKept(x, payload')
    <3>1. x.head \in live /\ x.head \in known
      BY <1>18, <2>1, <2>3 DEF A!Heads
    <3>2. CASE x.head \in index.live /\ KeyKept(x, payload)
      BY <1>1, <1>26, <3>1, <3>2 DEF KeyKept
    <3>3. CASE /\ x.head \notin A!Known
               /\ \A o \in A!ToSet(t.objects) : o.id = x.head => NewKey(x, o)
      <4>1. PICK o : o = A!Stored(t, x.head)
        OBVIOUS
      <4>2. payload'[x.head] = A!Packed(o) /\ o \in ObjectRecord /\ NewKey(x, o)
        BY <1>27, <3>1, <3>3, <4>1
      <4> QED
        BY <3>1, <4>2, PackedKey DEF KeyKept
    <3> QED
      BY <2>2, <2>3, <3>2, <3>3
  <2> QED
    BY <1>16, <2>1, <2>2, <2>3 DEF KeptContext
<1>30. Traced(next, t.contexts)
  <2>1. \A c \in AncestryCtx : OnPath(tracked, c) => OnPath(next, c)
    BY <1>16, Zenon DEF OnPath
  <2> QED
    BY <1>16, <2>1, Zenon DEF Traced
<1>31. Consistent(durable', next, payload')
  BY <1>5, <1>16, <1>18, <1>23, <1>24, <1>25, <1>28, <1>29, <1>30 DEF Consistent
<1>32. next # index
  BY <1>14, <1>16
<1> QED
  BY <1>21, <1>31, <1>32 DEF AncestryInd

\* A finite set in some order.
LEMMA SetOrder ==
  ASSUME NEW Whole, IsFiniteSet(Whole)
  PROVE  \E n \in Nat : /\ A!SetToSeq(Whole) \in [1..n -> Whole]
                       /\ \A x \in Whole : \E i \in 1..n : A!SetToSeq(Whole)[i] = x
<1>1. PICK n : n = Cardinality(Whole)
  OBVIOUS
<1>2. n \in Nat /\ ExistsBijection(1..n, Whole)
  BY <1>1, FS_CardinalityType
<1>3. PICK f : f = A!SetToSeq(Whole)
  OBVIOUS
<1>4. f \in [1..n -> Whole] /\ A!IsInjective(f)
  <2>1. \E g \in [1..n -> Whole] : A!IsInjective(g)
    BY <1>2 DEF ExistsBijection, Bijection, Injection, IsInjective, A!IsInjective
  <2>2. f = CHOOSE g \in [1..n -> Whole] : A!IsInjective(g)
    <3>1. A!Cardinality(Whole) = Cardinality(Whole)
      BY DEF A!Cardinality, Cardinality
    <3> QED
      BY <1>1, <1>3, <3>1 DEF A!SetToSeq
  <2> QED
    BY <2>1, <2>2
<1>5. f \in Injection(1..n, Whole)
  BY <1>4 DEF Injection, IsInjective, A!IsInjective
<1>6. Cardinality(1..n) = n
  <2>1. 1 \in Int /\ n \in Int
    BY <1>2
  <2>2. Cardinality(1..n) = IF 1 > n THEN 0 ELSE n - 1 + 1
    BY <2>1, FS_Interval
  <2> QED
    BY <1>2, <2>2
<1>7. f \in Surjection(1..n, Whole)
  BY <1>1, <1>5, <1>6, FS_Injection
<1> QED
  BY <1>2, <1>3, <1>4, <1>7 DEF Surjection

\* One sequence after another.
LEMMA Joined ==
  ASSUME NEW Row, NEW v \in Seq(Row), NEW n \in Nat, NEW w \in [1..n -> Row]
  PROVE  /\ v \o w \in Seq(Row) /\ Len(v \o w) = Len(v) + n /\ Len(v) \in Nat
         /\ DOMAIN (v \o w) = 1..(Len(v) + n) /\ DOMAIN v = 1..Len(v)
         /\ \A i \in DOMAIN v : (v \o w)[i] = v[i]
         /\ \A i \in 1..n : (v \o w)[Len(v) + i] = w[i]
<1>1. w \in Seq(Row) /\ Len(w) = n
  BY SeqDef, LenProperties
<1>2. PICK z : z = v \o w
  OBVIOUS
<1>3. z \in Seq(Row) /\ Len(z) = Len(v) + n /\ Len(v) \in Nat /\ DOMAIN z = 1..(Len(v) + n)
      /\ DOMAIN v = 1..Len(v)
  <2>1. z \in Seq(Row) /\ Len(z) = Len(v) + n
    BY <1>1, <1>2, ConcatProperties
  <2> QED
    BY <2>1, LenProperties
<1>4. \A i \in 1..(Len(v) + n) : z[i] = IF i <= Len(v) THEN v[i] ELSE w[i - Len(v)]
  BY <1>1, <1>2, ConcatProperties
<1>5. \A i \in 1..n : Len(v) + i \in 1..(Len(v) + n) /\ ~(Len(v) + i <= Len(v))
                     /\ Len(v) + i - Len(v) = i
  BY <1>3
<1> QED
  BY <1>2, <1>3, <1>4, <1>5

\* The parts of an index have their types.
LEMMA IndexFields ==
  ASSUME NEW idx \in IndexRecord
  PROVE  /\ idx.contexts \in [AncestryCtx -> ActivationRecord] /\ idx.states \in Seq(StateRecord)
         /\ idx.bindings \in [AncestryName -> Nat \cup {None}] /\ idx.selected \in AncestryCtx \cup {None}
         /\ idx.live \in SUBSET Nat /\ idx.pins \in SUBSET Nat /\ idx.policy \in Policies
         /\ idx.cursor \in [AncestryCtx -> Nat] /\ idx.redo \in [AncestryCtx -> Seq(Nat)] /\ idx.generation \in Nat
         /\ Len(idx.states) \in Nat /\ DOMAIN idx.states = 1..Len(idx.states)
         /\ \A i \in DOMAIN idx.states : /\ idx.states[i].context \in ActivationRecord
                                         /\ idx.states[i].parent \in Nat
<1>1. PICK v : v = idx.states
  OBVIOUS
<1>2. v \in Seq(StateRecord)
  BY <1>1 DEF IndexRecord
<1>3. Len(v) \in Nat /\ DOMAIN v = 1..Len(v) /\ \A i \in DOMAIN v : v[i] \in StateRecord
  BY <1>2
<1>4. \A i \in DOMAIN v : v[i].context \in ActivationRecord /\ v[i].parent \in Nat
  BY <1>3 DEF StateRecord
<1> QED
  BY <1>1, <1>2, <1>3, <1>4 DEF IndexRecord

\* The cursor of a path is a state.
LEMMA OnState ==
  ASSUME NEW idx \in IndexRecord, NEW c \in AncestryCtx, OnPath(idx, c)
  PROVE  idx.cursor[c] \in DOMAIN idx.states
<1>1. PICK v : v = idx.redo[c]
  OBVIOUS
<1>2. PICK here : here = idx.cursor[c]
  OBVIOUS
<1>3. v \in Seq(Nat) /\ here \in Nat
  BY <1>1, <1>2, IndexFields
<1>4. PICK path : path = Append(v, here)
  OBVIOUS
<1>5. \A i \in DOMAIN path : path[i] \in DOMAIN idx.states
  BY <1>1, <1>2, <1>4, Zenon DEF OnPath
<1>6. Len(v) + 1 \in DOMAIN path /\ path[Len(v) + 1] = here
  BY <1>3, <1>4
<1> QED
  BY <1>2, <1>5, <1>6

\* A path stays one when states are added, and is as long as its redo path and one more.
LEMMA PathKept ==
  ASSUME NEW a, NEW b, NEW c, DOMAIN a.states \subseteq DOMAIN b.states,
         \A i \in DOMAIN a.states : b.states[i] = a.states[i],
         b.redo[c] = a.redo[c], b.cursor[c] = a.cursor[c],
         a.redo[c] \in Seq(Nat), a.cursor[c] \in Nat, OnPath(a, c)
  PROVE  OnPath(b, c)
<1>1. PICK path : path = Append(a.redo[c], a.cursor[c])
  OBVIOUS
<1>2. PICK redo : redo = a.redo[c]
  OBVIOUS
<1>3. DOMAIN redo \subseteq DOMAIN path
  BY <1>1, <1>2
<1>4. /\ \A i \in DOMAIN path : path[i] \in DOMAIN a.states
      /\ \A i \in DOMAIN redo : a.states[path[i]].parent = path[i + 1]
  BY <1>1, <1>2, Zenon DEF OnPath
<1>5. /\ \A i \in DOMAIN path : path[i] \in DOMAIN b.states
      /\ \A i \in DOMAIN redo : b.states[path[i]].parent = path[i + 1]
  BY <1>3, <1>4
<1> QED
  BY <1>1, <1>2, <1>5, Zenon DEF OnPath

\* _sync gives every context that moved a state of its own, and leaves the paths of the others.
LEMMA ExtendedPaths ==
  ASSUME AncestrySound, AncestryInd, NEW t, Ready(t), NEW idx \in IndexRecord,
         idx.contexts = index.contexts, idx.states = index.states,
         idx.cursor = index.cursor, idx.redo = index.redo
  PROVE  /\ A!Extended(t, idx) \in IndexRecord /\ Traced(A!Extended(t, idx), t.contexts)
         /\ A!Extended(t, idx).live = idx.live /\ A!Extended(t, idx).pins = idx.pins
<1>1. PICK moved : moved = {c \in AncestryCtx : A!Moved(t, idx, c)}
  OBVIOUS
<1>2. PICK order : order = A!SetToSeq(moved)
  OBVIOUS
<1>3. PICK n \in Nat : order \in [1..n -> moved] /\ \A c \in moved : \E i \in 1..n : order[i] = c
  <2>1. IsFiniteSet(moved)
    BY <1>1, FS_Subset DEF AncestrySound
  <2> QED
    BY <1>2, <2>1, SetOrder
<1>4. DOMAIN order = 1..n /\ \A i \in 1..n : order[i] \in AncestryCtx
  BY <1>1, <1>3
<1>5. PICK place : place = [c \in AncestryCtx |-> CHOOSE i \in DOMAIN order : order[i] = c]
  OBVIOUS
<1>6. \A c \in moved : place[c] \in 1..n /\ order[place[c]] = c
  BY <1>1, <1>3, <1>4, <1>5
<1>7. PICK added : added = [i \in DOMAIN order |-> [context |-> A!Record(t.contexts[order[i]]),
                                                     parent |-> idx.cursor[order[i]]]]
  OBVIOUS
<1>8. t.contexts \in [AncestryCtx -> ContextRecord]
  BY Fields DEF Ready, Shape
<1>9. \A c \in AncestryCtx : A!Record(t.contexts[c]) \in ActivationRecord /\ A!Record(t.contexts[c]).loaded = TRUE
  BY <1>8 DEF A!Record, ActivationRecord, ContextRecord
<1>10. added \in [1..n -> StateRecord]
  <2>1. ASSUME NEW i \in 1..n
        PROVE  [context |-> A!Record(t.contexts[order[i]]), parent |-> idx.cursor[order[i]]] \in StateRecord
    BY <1>4, <1>9, IndexFields DEF StateRecord
  <2> QED
    BY <1>4, <1>7, <2>1
<1>11. PICK L : L = Len(idx.states)
  OBVIOUS
<1>12. PICK states : states = idx.states \o added
  OBVIOUS
<1>13. /\ states \in Seq(StateRecord) /\ L \in Nat /\ Len(states) = L + n /\ DOMAIN states = 1..(L + n)
       /\ DOMAIN idx.states = 1..L
       /\ \A i \in 1..L : states[i] = idx.states[i]
       /\ \A i \in 1..n : states[L + i] = added[i]
  <2>1. PICK v : v = idx.states
    OBVIOUS
  <2>2. v \in Seq(StateRecord)
    BY <2>1, IndexFields
  <2>3. /\ v \o added \in Seq(StateRecord) /\ Len(v \o added) = Len(v) + n /\ Len(v) \in Nat
        /\ DOMAIN (v \o added) = 1..(Len(v) + n) /\ DOMAIN v = 1..Len(v)
        /\ \A i \in DOMAIN v : (v \o added)[i] = v[i]
        /\ \A i \in 1..n : (v \o added)[Len(v) + i] = added[i]
    BY <1>10, <2>2, Joined
  <2> QED
    BY <1>11, <1>12, <2>1, <2>3
<1>14. PICK cursor : cursor = [c \in AncestryCtx |-> IF c \in moved
                                             THEN L + (CHOOSE i \in DOMAIN order : order[i] = c)
                                             ELSE idx.cursor[c]]
  OBVIOUS
<1>14a. \A c \in AncestryCtx : cursor[c] = IF c \in moved THEN L + place[c] ELSE idx.cursor[c]
  BY <1>5, <1>14
<1>15. PICK redo : redo = [c \in AncestryCtx |-> IF c \in moved THEN <<>> ELSE idx.redo[c]]
  OBVIOUS
<1>16. cursor \in [AncestryCtx -> Nat] /\ redo \in [AncestryCtx -> Seq(Nat)]
  <2>1. \A c \in AncestryCtx : c \in moved => L + place[c] \in Nat
    BY <1>6, <1>13
  <2>2. <<>> \in Seq(Nat)
    OBVIOUS
  <2>3. cursor \in [AncestryCtx -> Nat]
    BY <1>14, <1>14a, <2>1, IndexFields
  <2> QED
    BY <1>15, <2>2, <2>3, IndexFields
<1>17. PICK x : x = [idx EXCEPT !.states = states, !.cursor = cursor, !.redo = redo]
  OBVIOUS
<1>18. A!Extended(t, idx) = x
  <2>1. A!Extended(t, idx)
          = [idx EXCEPT !.states = @ \o added, !.cursor = [c \in AncestryCtx |-> IF c \in moved
                           THEN L + (CHOOSE i \in DOMAIN order : order[i] = c) ELSE @[c]],
                        !.redo = [c \in AncestryCtx |-> IF c \in moved THEN <<>> ELSE @[c]]]
    BY <1>1, <1>2, <1>7, <1>11 DEF A!Extended
  <2> QED
    BY <1>12, <1>14, <1>15, <1>17, <2>1
<1>19. /\ x \in IndexRecord /\ x.states = states /\ x.cursor = cursor /\ x.redo = redo
       /\ x.live = idx.live /\ x.pins = idx.pins
  BY <1>13, <1>16, <1>17 DEF IndexRecord
<1>20. /\ \A i \in 1..L : idx.states[i].context.loaded /\ idx.states[i].parent <= L
       /\ \A c \in AncestryCtx : idx.cursor[c] <= L
       /\ \A c \in AncestryCtx : durable.contexts[c].loaded =>
            OnPath(index, c) /\ index.states[index.cursor[c]].context = A!Record(durable.contexts[c])
       /\ index.contexts = Activations(durable.contexts)
  BY <1>11, <1>13 DEF AncestryInd, Consistent, Traced
<1>21. \A i \in DOMAIN states : states[i].context.loaded /\ states[i].parent <= L + n
  <2>1. ASSUME NEW i \in 1..L PROVE states[i].context.loaded /\ states[i].parent <= L + n
    <3>1. idx.states[i].parent \in Nat
      BY <1>13, IndexFields
    <3> QED
      BY <1>13, <1>20, <3>1
  <2>2. ASSUME NEW k \in 1..n PROVE states[L + k].context.loaded /\ states[L + k].parent <= L + n
    <3>1. states[L + k] = [context |-> A!Record(t.contexts[order[k]]), parent |-> idx.cursor[order[k]]]
      BY <1>4, <1>7, <1>13
    <3>2. idx.cursor[order[k]] \in Nat /\ idx.cursor[order[k]] <= L
      BY <1>4, <1>20, IndexFields
    <3> QED
      BY <1>4, <1>9, <1>13, <3>1, <3>2
  <2>3. \A i \in DOMAIN states : i \in 1..L \/ \E k \in 1..n : i = L + k
    <3> SUFFICES ASSUME NEW i \in DOMAIN states, i \notin 1..L PROVE \E k \in 1..n : i = L + k
      OBVIOUS
    <3>1. i - L \in 1..n /\ i = L + (i - L)
      BY <1>13
    <3> QED
      BY <3>1
  <2> QED
    BY <2>1, <2>2, <2>3
<1>22. \A c \in AncestryCtx : cursor[c] <= L + n
  <2>1. \A c \in AncestryCtx : c \in moved => L + place[c] <= L + n
    BY <1>6, <1>13
  <2>2. \A c \in AncestryCtx : idx.cursor[c] \in Nat /\ idx.cursor[c] <= L + n
    BY <1>13, <1>20, IndexFields
  <2> QED
    BY <1>14a, <2>1, <2>2
<1>23. ASSUME NEW c \in AncestryCtx, t.contexts[c].loaded
       PROVE  OnPath(x, c) /\ x.states[x.cursor[c]].context = A!Record(t.contexts[c])
  <2>1. CASE c \in moved
    <3>1. PICK p : p = L + place[c]
      OBVIOUS
    <3>2. x.cursor[c] = p /\ x.redo[c] = <<>> /\ p \in DOMAIN states
      BY <1>6, <1>13, <1>14a, <1>15, <1>19, <2>1, <3>1
    <3>3. states[p].context = A!Record(t.contexts[c])
      <4>1. states[p] = added[place[c]] /\ place[c] \in DOMAIN order
        BY <1>4, <1>6, <1>13, <2>1, <3>1
      <4> QED
        BY <1>6, <1>7, <2>1, <4>1
    <3>4. OnPath(x, c)
      <4>1. PICK path : path = Append(x.redo[c], x.cursor[c])
        OBVIOUS
      <4>2. DOMAIN path = {1} /\ path[1] = p /\ DOMAIN x.redo[c] = {}
        BY <3>2, <4>1
      <4>3. /\ \A i \in DOMAIN path : path[i] \in DOMAIN x.states
            /\ \A i \in DOMAIN x.redo[c] : x.states[path[i]].parent = path[i + 1]
        BY <1>19, <3>2, <4>2
      <4> QED
        BY <4>1, <4>3, Zenon DEF OnPath
    <3> QED
      BY <1>19, <3>2, <3>3, <3>4
  <2>2. CASE c \notin moved
    <3>1. A!Record(t.contexts[c]) = [index.contexts[c] EXCEPT !.recipe = t.contexts[c].recipe]
      BY <1>1, <1>23, <2>2 DEF A!Moved
    <3>2. index.contexts[c] \in ActivationRecord
      BY <1>8, IndexFields DEF AncestrySound
    <3>3. /\ index.contexts[c].loaded = TRUE /\ index.contexts[c].head = t.contexts[c].head
          /\ index.contexts[c].configuration = t.contexts[c].configuration
      BY <3>1, <3>2 DEF A!Record, ActivationRecord
    <3>4. durable.contexts[c].loaded /\ index.contexts[c] = A!Record(durable.contexts[c])
      BY <1>20, <3>3 DEF Activations, A!NoRecord
    <3>5. /\ durable.contexts[c].head = t.contexts[c].head
          /\ durable.contexts[c].configuration = t.contexts[c].configuration
      BY <3>3, <3>4 DEF A!Record
    <3>6. t.contexts[c].recipe = durable.contexts[c].recipe
      BY <3>4, <3>5 DEF Ready, Fits
    <3>7. A!Record(t.contexts[c]) = A!Record(durable.contexts[c])
      BY <3>5, <3>6 DEF A!Record
    <3>8. x.cursor[c] = index.cursor[c] /\ x.redo[c] = index.redo[c]
      BY <1>14a, <1>15, <1>19, <2>2
    <3>9. index.cursor[c] \in Nat /\ index.redo[c] \in Seq(Nat)
      BY IndexFields
    <3>10. OnPath(index, c) /\ index.states[index.cursor[c]].context = A!Record(durable.contexts[c])
      BY <1>20, <3>4
    <3>11. OnPath(x, c)
      BY <1>13, <1>19, <3>8, <3>9, <3>10, PathKept
    <3>12. index.cursor[c] \in DOMAIN index.states
      <4>1. index \in IndexRecord
        BY DEF AncestryInd, Consistent
      <4> QED
        BY <3>10, <4>1, OnState
    <3> QED
      BY <1>13, <1>19, <3>7, <3>8, <3>10, <3>11, <3>12
  <2> QED
    BY <2>1, <2>2
<1>24. Traced(x, t.contexts)
  BY <1>13, <1>19, <1>21, <1>22, <1>23, Zenon DEF Traced
<1> QED
  BY <1>18, <1>19, <1>24

\* What the invariant says of one context, and of the numbers that were given out.
LEMMA Committed ==
  ASSUME AncestrySound, AncestryInd
  PROVE  /\ Shape(durable) /\ durable \in SessionRecord /\ index \in IndexRecord
         /\ durable.contexts \in [AncestryCtx -> ContextRecord] /\ durable.minted \in Nat
         /\ A!Known \subseteq 1..durable.minted /\ index.live \subseteq A!Known
         /\ index.pins \subseteq index.live /\ A!Heads(durable) \subseteq index.live
         /\ index.contexts = Activations(durable.contexts) /\ Traced(index, durable.contexts)
         /\ \A id \in A!Known : payload[id] \in ObjectRecord /\ payload[id].id = id
         /\ \A c \in AncestryCtx : KeptContext(durable.contexts[c], index, payload)
<1>1. /\ Shape(durable) /\ index \in IndexRecord /\ Catalogued(durable, payload)
      /\ index.live \subseteq A!Known /\ index.pins \subseteq index.live
      /\ index.contexts = Activations(durable.contexts) /\ Traced(index, durable.contexts)
      /\ \A c \in AncestryCtx : KeptContext(durable.contexts[c], index, payload)
  BY DEF AncestryInd, Consistent, A!Known
<1>2. durable \in SessionRecord
  BY <1>1 DEF Shape
<1>3. A!Heads(durable) \subseteq index.live
  BY <1>1 DEF A!Heads, KeptContext
<1>4. /\ A!Known \subseteq 1..durable.minted
      /\ \A id \in A!Known : payload[id] \in ObjectRecord /\ payload[id].id = id
  BY <1>1 DEF Catalogued, A!Known
<1> QED
  BY <1>1, <1>2, <1>3, <1>4, Fields

\* A context that a statement leaves alone fits.
LEMMA SettledFits ==
  ASSUME AncestrySound, AncestryInd, NEW t, NEW c \in AncestryCtx, t.contexts[c] = durable.contexts[c]
  PROVE  Fits(t, c)
<1>1. KeptContext(durable.contexts[c], index, payload)
  BY Committed
<1> QED
  BY <1>1 DEF Fits, Held, KeptContext

\* The committed session is ready.
LEMMA SessionReady ==
  ASSUME AncestrySound, AncestryInd
  PROVE  Ready(durable)
BY Committed, SettledFits DEF Ready

\* The heads of a session that is ready are stored, or new.
LEMMA HeadsStored ==
  ASSUME AncestrySound, NEW t, Shape(t), \A c \in AncestryCtx : Held(t, c)
  PROVE  A!Heads(t) \subseteq index.live \cup (A!Retained(t) \ A!Known)
BY DEF Shape, Held, A!Heads

\* A statement keeps the invariant if it leaves a session that is ready, and of the index at
\* most live objects, pins and the policy changed.
LEMMA TrackedKeeps ==
  ASSUME AncestrySound, AncestryInd, NEW t, Ready(t), NEW idx \in IndexRecord,
         idx.contexts = index.contexts, idx.states = index.states,
         idx.cursor = index.cursor, idx.redo = index.redo,
         idx.live \subseteq index.live,
         idx.pins \subseteq idx.live \cup (A!Retained(t) \ A!Known),
         A!Heads(t) \subseteq idx.live \cup (A!Retained(t) \ A!Known),
         NEW track \in BOOLEAN, track = TRUE, A!CommitAs(t, idx, track)
  PROVE  AncestryInd' /\ index' # index
<1>1. PICK tracked : tracked = A!Extended(t, idx)
  OBVIOUS
<1>2. /\ tracked \in IndexRecord /\ Traced(tracked, t.contexts)
      /\ tracked.live = idx.live /\ tracked.pins = idx.pins
  BY <1>1, ExtendedPaths
<1> QED
  BY <1>1, <1>2, CommitKeeps DEF Ready, Fits

\* The same for a session operation, which leaves the index to _sync.
LEMMA StagedKeeps ==
  ASSUME AncestrySound, AncestryInd, NEW t, Ready(t), NEW track \in BOOLEAN, track = TRUE,
         A!CommitAs(t, index, track)
  PROVE  AncestryInd' /\ index' # index
<1>1. A!Heads(t) \subseteq index.live \cup (A!Retained(t) \ A!Known)
  BY HeadsStored DEF Ready, Fits
<1>2. index \in IndexRecord /\ index.pins \subseteq index.live
  BY Committed
<1> QED
  BY <1>1, <1>2, TrackedKeeps

\* A context that got the object of a publication fits, if the key is that of a method.
LEMMA PublishedFits ==
  ASSUME AncestrySound, AncestryInd, NEW s, Shape(s), s.minted = durable.minted, NEW c \in AncestryCtx,
         s.contexts[c].loaded, s.contexts[c].factory, NEW value, NEW key, NEW t, NEW o,
         Published(s, t, o, value, c, TRUE, key),
         value.kind \notin A!Memory => key = None \/ A!Exact(o)
  PROVE  Fits(t, c)
<1>1. s.contexts \in [AncestryCtx -> ContextRecord] /\ s.minted \in Nat
  BY Fields DEF Shape
<1>2. /\ o.id = s.minted + 1 /\ o.value = value /\ o.key = key
      /\ A!ToSet(t.objects) \subseteq A!ToSet(s.objects) \cup {o}
      /\ t.contexts = [s.contexts EXCEPT ![c] = [@ EXCEPT !.head = o.id, !.key = key]]
  BY DEF Published
<1>3. s.contexts[c] \in ContextRecord
  BY <1>1
<1>4. PICK x : x = [s.contexts[c] EXCEPT !.head = o.id, !.key = key]
  OBVIOUS
<1>5. x.loaded = TRUE /\ x.factory = TRUE /\ x.head = o.id /\ x.key = key
  BY <1>3, <1>4 DEF ContextRecord
<1>6. t.contexts[c] = x
  BY <1>1, <1>2, <1>4
<1>7. o.id \notin 1..durable.minted /\ o.id \in Nat
  BY <1>1, <1>2
<1>8. o.id \notin A!Known /\ durable.contexts[c].head # o.id /\ o.id # None
  <2>1. o.id \notin A!Known /\ o.id \notin index.live
    BY <1>7, Committed
  <2>2. durable.contexts[c].head # None => durable.contexts[c].head \in index.live
    BY Committed DEF KeptContext
  <2> QED
    BY <1>7, <2>1, <2>2 DEF AncestrySound
<1>9. ASSUME NEW p \in A!ToSet(t.objects), p.id = o.id PROVE NewKey(x, p)
  <2>1. p \in A!ToSet(s.objects) => p.id \in 1..s.minted
    BY DEF Shape
  <2>2. p = o
    BY <1>2, <1>7, <1>9, <2>1
  <2> QED
    BY <1>2, <1>5, <2>2 DEF NewKey
<1> QED
  BY <1>5, <1>6, <1>8, <1>9 DEF Fits, Held

\* A publication in the session leaves it ready, if it activates nothing that is no method
\* state under a key.
LEMMA PublishReady ==
  ASSUME AncestrySound, AncestryInd, NEW value \in Value, NEW c \in AncestryCtx, durable.contexts[c].loaded,
         NEW bind, NEW activate \in BOOLEAN, NEW key \in AncestrySetting \cup {None}, NEW extra,
         value.kind \notin A!Memory => key = None,
         NEW r, r = A!Publish(durable, value, c, bind, activate, key, extra), r.ok
  PROVE  Ready(r.s)
<1>1. Shape(durable) /\ durable.minted \in Nat /\ durable.contexts \in [AncestryCtx -> ContextRecord]
  BY Committed
<1>2. PICK o : Published(durable, r.s, o, value, c, activate, key)
  <2>1. c \in AncestryCtx \cup {None} /\ c # None
    BY DEF AncestrySound
  <2> QED
    BY <1>1, <2>1, PublishShapes
<1>3. Shape(r.s) /\ durable.minted <= r.s.minted
  BY <1>1, <1>2 DEF Published
<1>4. \A d \in AncestryCtx : (d # c \/ ~activate) => r.s.contexts[d] = durable.contexts[d]
  BY <1>1, <1>2 DEF Published
<1>5. CASE activate
  <2>1. durable.contexts[c].factory
    BY Committed DEF KeptContext
  <2>2. activate = TRUE
    BY <1>5
  <2>3. Fits(r.s, c)
    BY <1>1, <1>2, <2>1, <2>2, PublishedFits
  <2> QED
    BY <1>3, <1>4, <2>3, SettledFits DEF Ready
<1>6. CASE ~activate
  BY <1>3, <1>4, <1>6, SettledFits DEF Ready
<1> QED
  BY <1>5, <1>6

\* Selecting a context changes nothing that matters.
LEMMA SelectedReady ==
  ASSUME AncestrySound, NEW t, Ready(t), NEW c \in AncestryCtx
  PROVE  Ready([t EXCEPT !.selected = c])
<1>1. PICK z : z = [t EXCEPT !.selected = c]
  OBVIOUS
<1>2. t \in SessionRecord
  BY DEF Ready, Shape
<1>3. /\ z \in SessionRecord /\ z.contexts = t.contexts /\ z.objects = t.objects /\ z.minted = t.minted
  BY <1>1, <1>2 DEF SessionRecord
<1>4. A!Heads(z) = A!Heads(t) /\ A!Retained(z) = A!Retained(t)
  BY <1>3 DEF A!Heads, A!Retained
<1>5. Shape(z)
  BY <1>3, <1>4 DEF Ready, Shape
<1>6. \A d \in AncestryCtx : Fits(z, d)
  BY <1>3 DEF Ready, Fits, Held
<1> QED
  BY <1>1, <1>3, <1>5, <1>6 DEF Ready

-----------------------------------------------------------------------------
(* The session operations.                                                 *)

\* session.load
LEMMA LoadReady ==
  ASSUME AncestrySound, AncestryInd, NEW c \in AncestryCtx, NEW r, r = A!LoadContext(durable, c, TRUE, TRUE), r.ok
  PROVE  Ready(r.s)
<1>1. /\ durable \in SessionRecord /\ durable.contexts \in [AncestryCtx -> ContextRecord]
      /\ durable.minted \in Nat /\ durable.revision \in Nat
  BY Committed, Fields
<1>2. PICK x : x = [A!Unloaded EXCEPT !.loaded = TRUE, !.factory = TRUE]
  OBVIOUS
<1>3. PICK z : z = [durable EXCEPT !.contexts[c] = x, !.selected = c]
  OBVIOUS
<1>4. PICK t : t = [z EXCEPT !.revision = @ + 1]
  OBVIOUS
<1>5. r.s = t /\ ~durable.contexts[c].loaded
  <2>1. ~A!Refused(durable).ok
    BY DEF A!Refused
  <2> QED
    BY <1>2, <1>3, <1>4, <2>1 DEF A!LoadContext, A!Done, A!Step
<1>6. /\ x \in ContextRecord /\ x.loaded = TRUE /\ x.factory = TRUE /\ x.head = None /\ x.key = None
  <2>1. <<>> \in Seq(AncestryUpdate)
    OBVIOUS
  <2> QED
    BY <1>2, <2>1 DEF A!Unloaded, ContextRecord
<1>7. PICK contexts : contexts = [durable.contexts EXCEPT ![c] = x]
  OBVIOUS
<1>8. contexts \in [AncestryCtx -> ContextRecord] /\ contexts[c] = x /\ \A d \in AncestryCtx \ {c} : contexts[d] = durable.contexts[d]
  BY <1>1, <1>6, <1>7
<1>9. /\ t \in SessionRecord /\ t.contexts = contexts /\ t.objects = durable.objects
      /\ t.minted = durable.minted
  <2>1. PICK revision : revision = durable.revision + 1
    OBVIOUS
  <2>2. z = [durable EXCEPT !.contexts = contexts, !.selected = c]
    BY <1>1, <1>3, <1>7
  <2>3. z.revision = durable.revision
    BY <1>1, <2>2 DEF SessionRecord
  <2>4. t = [durable EXCEPT !.contexts = contexts, !.selected = c, !.revision = revision]
    BY <1>1, <1>4, <2>1, <2>2, <2>3 DEF SessionRecord
  <2>5. revision \in Nat
    BY <1>1, <2>1
  <2> QED
    BY <1>1, <1>8, <2>4, <2>5 DEF SessionRecord
<1>10. A!Heads(t) \subseteq A!Heads(durable) /\ A!Retained(t) = A!Retained(durable)
  BY <1>6, <1>8, <1>9 DEF A!Heads, A!Retained
<1>11. Shape(t)
  BY <1>9, <1>10, Committed DEF Shape
<1>12. Fits(t, c)
  BY <1>5, <1>6, <1>8, <1>9 DEF Fits, Held
<1>13. \A d \in AncestryCtx \ {c} : Fits(t, d)
  BY <1>8, <1>9, SettledFits
<1>14. \A d \in AncestryCtx : Fits(t, d)
  BY <1>12, <1>13
<1>15. durable.minted <= t.minted
  BY <1>1, <1>9
<1> QED
  BY <1>5, <1>11, <1>14, <1>15, Zenon DEF Ready

\* session.release
LEMMA ReleaseReady ==
  ASSUME AncestrySound, AncestryInd, NEW n \in AncestryName, NEW r, r = A!Release(durable, n), r.ok
  PROVE  Ready(r.s)
<1>1. /\ durable \in SessionRecord /\ durable.objects \in Seq(ObjectRecord)
      /\ durable.bindings \in [AncestryName -> Nat \cup {None}]
      /\ durable.minted \in Nat /\ durable.revision \in Nat
  BY Committed, Fields
<1>2. PICK id : id = durable.bindings[n]
  OBVIOUS
<1>3. PICK bindings : bindings = [durable.bindings EXCEPT ![n] = None]
  OBVIOUS
<1>4. PICK left : left = [durable EXCEPT !.bindings = bindings]
  OBVIOUS
<1>5. PICK last \in BOOLEAN : last = (id \notin A!Protected(left))
  OBVIOUS
<1>6. PICK objects : objects = IF last THEN A!Without(durable.objects, {id}) ELSE durable.objects
  OBVIOUS
<1>7. PICK z : z = [left EXCEPT !.objects = objects]
  OBVIOUS
<1>8. PICK t : t = [z EXCEPT !.revision = @ + 1]
  OBVIOUS
<1>9. r.s = t
  <2>1. ~A!Refused(durable).ok
    BY DEF A!Refused
  <2>2. left = [durable EXCEPT !.bindings[n] = None]
    BY <1>3, <1>4
  <2>3. left.objects = durable.objects
    BY <1>1, <1>4 DEF SessionRecord
  <2>4. r = IF id = None \/ (id \notin A!Protected(left) /\ id \notin A!Retained(durable))
            THEN A!Refused(durable)
            ELSE A!Done(A!Step([left EXCEPT !.objects = IF id \notin A!Protected(left)
                                                    THEN A!Without(@, {id}) ELSE @]), None)
    BY <1>2, <2>2 DEF A!Release
  <2>5. [left EXCEPT !.objects = IF id \notin A!Protected(left) THEN A!Without(@, {id}) ELSE @] = z
    BY <1>5, <1>6, <1>7, <2>3
  <2>6. r = A!Done(A!Step(z), None)
    BY <2>1, <2>4, <2>5
  <2> QED
    BY <1>8, <2>6 DEF A!Done, A!Step
<1>10. bindings \in [AncestryName -> Nat \cup {None}]
  BY <1>1, <1>3
<1>11. /\ left \in SessionRecord /\ left.contexts = durable.contexts /\ left.minted = durable.minted
       /\ left.revision = durable.revision
  BY <1>1, <1>4, <1>10 DEF SessionRecord
<1>12. last => id \notin A!Heads(durable)
  BY <1>5, <1>11 DEF A!Protected, A!Heads
<1>13. objects \in Seq(ObjectRecord)
       /\ A!ToSet(objects) = {o \in A!ToSet(durable.objects) : last => o.id # id}
  <2>1. CASE last
    <3>1. /\ objects \in Seq(ObjectRecord)
          /\ A!ToSet(objects) = {o \in A!ToSet(durable.objects) : o.id \notin {id}}
      BY <1>1, <1>6, <2>1, WithoutLeaves
    <3> QED
      BY <2>1, <3>1
  <2>2. CASE ~last
    BY <1>1, <1>6, <2>2
  <2> QED
    BY <2>1, <2>2
<1>14. /\ t \in SessionRecord /\ t.contexts = durable.contexts /\ t.objects = objects
       /\ t.minted = durable.minted
  <2>1. PICK revision : revision = left.revision + 1
    OBVIOUS
  <2>2. z.revision = left.revision
    BY <1>7, <1>11 DEF SessionRecord
  <2>3. t = [left EXCEPT !.objects = objects, !.revision = revision]
    BY <1>7, <1>8, <1>11, <2>1, <2>2 DEF SessionRecord
  <2>4. revision \in Nat
    BY <1>1, <1>11, <2>1
  <2> QED
    BY <1>11, <1>13, <2>3, <2>4 DEF SessionRecord
<1>15. Shape(t)
  <2>1. A!Retained(durable) = {o.id : o \in A!ToSet(durable.objects)}
    BY <1>1, Fields
  <2>2. A!Retained(t) = {o.id : o \in A!ToSet(objects)}
    BY <1>14, Fields
  <2>3. A!Heads(t) = A!Heads(durable)
    BY <1>14 DEF A!Heads
  <2>4. /\ A!Heads(durable) \subseteq A!Retained(durable)
        /\ \A o \in A!ToSet(durable.objects) : o.id \in 1..durable.minted
    BY Committed DEF Shape
  <2>5. \A h \in A!Heads(durable) : \E o \in A!ToSet(objects) : o.id = h
    BY <1>12, <1>13, <2>1, <2>4
  <2> QED
    BY <1>13, <1>14, <2>2, <2>3, <2>4, <2>5 DEF Shape
<1> QED
  BY <1>1, <1>9, <1>14, <1>15, SettledFits DEF Ready

\* What use retains: a reference keeps its key as method memory of the same context only.
LEMMA UseReady ==
  ASSUME AncestrySound, AncestryInd, NEW c \in AncestryCtx, durable.contexts[c].loaded, NEW bind,
         NEW r, r = A!UseValue(durable, c, bind), r.ok
  PROVE  Ready(r.s)
<1>1. A!Physical \in Value /\ A!Physical.kind \notin A!Memory
  BY DEF A!Physical, Value, Kind, A!Memory
<1>2. PICK activate \in BOOLEAN : activate = TRUE
  OBVIOUS
<1>3. PICK key \in AncestrySetting \cup {None} : key = None
  OBVIOUS
<1>4. r = A!Publish(durable, A!Physical, c, bind, activate, key, 0)
  BY <1>2, <1>3 DEF A!UseValue
<1> QED
  BY <1>1, <1>3, <1>4, PublishReady

\* use of a reference
LEMMA ReferenceReady ==
  ASSUME AncestrySound, AncestryInd, NEW id \in A!Retained(durable), NEW c \in AncestryCtx,
         durable.contexts[c].loaded, NEW bind,
         NEW r, r = A!UseReference(durable, id, c, bind), r.ok
  PROVE  Ready(r.s)
<1>1. PICK o : o = A!Stored(durable, id)
  OBVIOUS
<1>2. o \in ObjectRecord
  BY <1>1, Committed, Looked
<1>3. PICK key : key = IF o.value.kind \in A!Memory /\ A!SameConfiguration(durable, c, o) THEN o.key ELSE None
  OBVIOUS
<1>4. key \in AncestrySetting \cup {None} /\ o.value \in Value /\ (o.value.kind \notin A!Memory => key = None)
  BY <1>2, <1>3 DEF ObjectRecord
<1>5. PICK activate \in BOOLEAN : activate = TRUE
  OBVIOUS
<1>6. r = A!Publish(durable, o.value, c, bind, activate, key, 0)
  <2>1. ~A!Refused(durable).ok
    BY DEF A!Refused
  <2> QED
    BY <1>1, <1>3, <1>5, <2>1 DEF A!UseReference
<1> QED
  BY <1>4, <1>6, PublishReady

\* A run of a method
LEMMA SolveReady ==
  ASSUME AncestrySound, AncestryInd, NEW c \in AncestryCtx, durable.contexts[c].loaded, NEW k \in AncestrySetting,
         NEW bind, NEW activate \in BOOLEAN,
         NEW r, r = A!Publish(durable, A!Solved("state", durable.contexts[c].recipe, k), c, bind, activate, k, 0),
         r.ok
  PROVE  Ready(r.s)
<1>1. PICK v : v = A!Solved("state", durable.contexts[c].recipe, k)
  OBVIOUS
<1>2. durable.contexts[c].recipe \in Seq(AncestryUpdate)
  <2>1. durable.contexts \in [AncestryCtx -> ContextRecord]
    BY Committed
  <2>2. durable.contexts[c] \in ContextRecord
    BY <2>1
  <2> QED
    BY <2>2 DEF ContextRecord
<1>3. v \in Value /\ v.kind \in A!Memory
  BY <1>1, <1>2 DEF A!Solved, Value, Kind, A!Memory
<1>4. r = A!Publish(durable, v, c, bind, activate, k, 0)
  BY <1>1
<1> QED
  BY <1>3, <1>4, PublishReady

\* A context after an update: without its key.
Renewed(s, c, recipe) ==
  [s EXCEPT !.contexts[c].configuration = @ + 1, !.contexts[c].key = None,
            !.contexts[c].recipe = recipe]

\* An update changes the context, and nothing else.
LEMMA RenewedIs ==
  ASSUME NEW s \in SessionRecord, NEW c \in AncestryCtx, NEW recipe \in Seq(AncestryUpdate),
         NEW t, t = Renewed(s, c, recipe)
  PROVE  /\ t \in SessionRecord /\ t.objects = s.objects /\ t.minted = s.minted
         /\ \A d \in AncestryCtx \ {c} : t.contexts[d] = s.contexts[d]
         /\ t.contexts[c].loaded = s.contexts[c].loaded /\ t.contexts[c].factory = s.contexts[c].factory
         /\ t.contexts[c].head = s.contexts[c].head /\ t.contexts[c].key = None
         /\ t.contexts[c].configuration = s.contexts[c].configuration + 1
         /\ t.contexts[c].recipe = recipe
<1>1. s.contexts \in [AncestryCtx -> ContextRecord] /\ s.contexts[c] \in ContextRecord
  <2>1. s.contexts \in [AncestryCtx -> ContextRecord]
    BY Fields
  <2> QED
    BY <2>1
<1>2. PICK x : x = s.contexts[c]
  OBVIOUS
<1>3. PICK configuration : configuration = x.configuration + 1
  OBVIOUS
<1>4. PICK y : y = [x EXCEPT !.configuration = configuration, !.key = None, !.recipe = recipe]
  OBVIOUS
<1>5. /\ y \in ContextRecord /\ y.loaded = x.loaded /\ y.factory = x.factory /\ y.head = x.head
      /\ y.key = None /\ y.configuration = configuration /\ y.recipe = recipe
  <2>1. x \in ContextRecord /\ configuration \in Nat
    BY <1>1, <1>2, <1>3 DEF ContextRecord
  <2> QED
    BY <1>4, <2>1 DEF ContextRecord
<1>6. PICK contexts : contexts = [s.contexts EXCEPT ![c] = y]
  OBVIOUS
<1>7. /\ contexts \in [AncestryCtx -> ContextRecord] /\ contexts[c] = y
      /\ \A d \in AncestryCtx \ {c} : contexts[d] = s.contexts[d]
  BY <1>1, <1>5, <1>6
<1>8. t = [s EXCEPT !.contexts = contexts]
  BY <1>1, <1>2, <1>3, <1>4, <1>6 DEF Renewed, SessionRecord, ContextRecord
<1>9. /\ t \in SessionRecord /\ t.contexts = contexts /\ t.objects = s.objects /\ t.minted = s.minted
  BY <1>7, <1>8 DEF SessionRecord
<1> QED
  BY <1>2, <1>3, <1>5, <1>7, <1>9

\* session.update
LEMMA UpdateReady ==
  ASSUME AncestrySound, AncestryInd, NEW c \in AncestryCtx, durable.contexts[c].loaded, NEW u \in AncestryUpdate,
         NEW r, r = A!UpdateContext(durable, c, u), r.ok
  PROVE  Ready(r.s)
<1>1. /\ durable \in SessionRecord /\ durable.contexts \in [AncestryCtx -> ContextRecord]
      /\ durable.minted \in Nat /\ durable.revision \in Nat /\ Shape(durable)
  BY Committed, Fields
<1>2. PICK old : old = durable.contexts[c]
  OBVIOUS
<1>3. /\ old \in ContextRecord /\ old.configuration \in Nat /\ old.recipe \in Seq(AncestryUpdate)
      /\ old.head \in Nat \cup {None} /\ old.factory /\ old.loaded
      /\ old.head # None => old.head \in index.live
  <2>1. old \in ContextRecord
    BY <1>1, <1>2
  <2>2. KeptContext(old, index, payload)
    BY <1>2, Committed
  <2> QED
    BY <1>2, <2>1, <2>2 DEF ContextRecord, KeptContext
<1>4. PICK recipe : recipe = Append(old.recipe, u)
  OBVIOUS
<1>5. PICK configuration : configuration = old.configuration + 1
  OBVIOUS
<1>6. recipe \in Seq(AncestryUpdate) /\ configuration \in Nat /\ configuration # old.configuration
  BY <1>3, <1>4, <1>5
<1>7. PICK activate \in BOOLEAN : activate = TRUE
  OBVIOUS
<1>8. PICK key \in AncestrySetting \cup {None} : key = None
  OBVIOUS
<1>9. PICK q : q = IF old.head = None THEN A!Done(A!Step(durable), None)
                   ELSE A!Publish(durable, A!Physical, c, None, activate, key, 2)
  OBVIOUS
<1>10. PICK updated : updated = Renewed(q.s, c, recipe)
  OBVIOUS
<1>11. PICK last : last = Len(q.s.objects)
  OBVIOUS
<1>12. PICK t : t = IF old.head = None THEN updated
                    ELSE [updated EXCEPT !.objects[last].configuration = old.configuration + 1,
                                         !.objects[last].recipe = recipe]
  OBVIOUS
<1>13. q.ok /\ r.s = t
  <2>1. ~A!Refused(durable).ok
    BY DEF A!Refused
  <2> DEFINE made == IF durable.contexts[c].head = None THEN A!Done(A!Step(durable), None)
                     ELSE A!Publish(durable, A!Physical, c, None, TRUE, None, 2)
  <2>2. r = IF ~durable.contexts[c].factory \/ A!Bytes(durable) + 1 > AncestryBytes \/ ~made.ok
            THEN A!Refused(durable)
            ELSE A!Done(IF durable.contexts[c].head = None
                      THEN Renewed(made.s, c, Append(durable.contexts[c].recipe, u))
                      ELSE [Renewed(made.s, c, Append(durable.contexts[c].recipe, u)) EXCEPT
                              !.objects[Len(made.s.objects)].configuration = durable.contexts[c].configuration + 1,
                              !.objects[Len(made.s.objects)].recipe = Append(durable.contexts[c].recipe, u)], None)
    BY DEF A!UpdateContext, Renewed
  <2>3. q = made
    BY <1>2, <1>7, <1>8, <1>9
  <2> HIDE DEF made
  <2>4. r = IF ~old.factory \/ A!Bytes(durable) + 1 > AncestryBytes \/ ~q.ok THEN A!Refused(durable)
            ELSE A!Done(t, None)
    BY <1>2, <1>4, <1>10, <1>11, <1>12, <2>2, <2>3
  <2> QED
    BY <2>1, <2>4 DEF A!Done
<1>15. CASE old.head = None
  <2>1. PICK s : s = A!Step(durable)
    OBVIOUS
  <2>2. PICK revision : revision = durable.revision + 1
    OBVIOUS
  <2>3. /\ s \in SessionRecord /\ s.contexts = durable.contexts /\ s.objects = durable.objects
        /\ s.minted = durable.minted
    <3>1. s = [durable EXCEPT !.revision = revision] /\ revision \in Nat
      BY <1>1, <2>1, <2>2 DEF A!Step
    <3> QED
      BY <1>1, <3>1 DEF SessionRecord
  <2>4. A!Heads(s) = A!Heads(durable) /\ A!Retained(s) = A!Retained(durable)
    BY <2>3 DEF A!Heads, A!Retained
  <2>5. Shape(s)
    BY <1>1, <2>3, <2>4 DEF Shape
  <2>6. t = Renewed(s, c, recipe)
    BY <1>9, <1>10, <1>12, <1>15, <2>1 DEF A!Done
  <2>7. PICK contexts : contexts = t.contexts
    OBVIOUS
  <2>8. /\ t \in SessionRecord /\ t.contexts = contexts /\ t.objects = durable.objects
        /\ t.minted = durable.minted
        /\ \A d \in AncestryCtx \ {c} : contexts[d] = durable.contexts[d]
        /\ contexts[c].loaded /\ contexts[c].factory /\ contexts[c].head = None
        /\ contexts[c].key = None /\ contexts[c].configuration = configuration
    <3>1. s \in SessionRecord /\ t = Renewed(s, c, recipe) /\ recipe \in Seq(AncestryUpdate)
      BY <1>6, <2>3, <2>6
    <3>2. /\ t \in SessionRecord /\ t.objects = s.objects /\ t.minted = s.minted
          /\ \A d \in AncestryCtx \ {c} : t.contexts[d] = s.contexts[d]
          /\ t.contexts[c].loaded = s.contexts[c].loaded /\ t.contexts[c].factory = s.contexts[c].factory
          /\ t.contexts[c].head = s.contexts[c].head /\ t.contexts[c].key = None
          /\ t.contexts[c].configuration = s.contexts[c].configuration + 1
      BY <3>1, RenewedIs
    <3> QED
      BY <1>2, <1>3, <1>5, <1>15, <2>3, <2>7, <3>2
  <2>9. A!Heads(t) = A!Heads(durable) /\ A!Retained(t) = A!Retained(durable)
    BY <1>2, <1>15, <2>8 DEF A!Heads, A!Retained
  <2>10. Shape(t)
    BY <1>1, <2>8, <2>9 DEF Shape
  <2>11. Fits(t, c)
    BY <1>2, <1>6, <2>8 DEF Fits, Held
  <2>12. \A d \in AncestryCtx : Fits(t, d)
    BY <2>8, <2>11, SettledFits
  <2>13. durable.minted <= t.minted
    BY <1>1, <2>8
  <2> QED
    BY <1>13, <2>10, <2>12, <2>13, Zenon DEF Ready
<1>16. CASE old.head # None
  <2>1. q = A!Publish(durable, A!Physical, c, None, activate, key, 2)
    BY <1>9, <1>16
  <2>2. A!Physical \in Value
    BY DEF A!Physical, Value, Kind
  <2>3. PICK s : s = q.s
    OBVIOUS
  <2>4. PICK o : Published(durable, s, o, A!Physical, c, activate, key)
    <3>1. c \in AncestryCtx \cup {None} /\ c # None
      BY DEF AncestrySound
    <3> QED
      BY <1>1, <1>13, <2>1, <2>2, <2>3, <3>1, PublishShapes
  <2>5. /\ Shape(s) /\ o \in ObjectRecord /\ o.id = durable.minted + 1 /\ o.value = A!Physical
        /\ o.key = None /\ s.minted = durable.minted + 1
        /\ A!ToSet(s.objects) \subseteq A!ToSet(durable.objects) \cup {o}
        /\ s.objects # <<>> /\ s.objects[Len(s.objects)] = o
        /\ s.contexts = [durable.contexts EXCEPT ![c] = [@ EXCEPT !.head = o.id, !.key = None]]
    BY <1>7, <1>8, <2>4 DEF Published
  <2>6. PICK x : x = s.contexts[c]
    OBVIOUS
  <2>7. /\ x.configuration = old.configuration /\ x.head = o.id /\ x.loaded /\ x.factory
        /\ \A d \in AncestryCtx \ {c} : s.contexts[d] = durable.contexts[d]
    BY <1>1, <1>2, <1>3, <2>5, <2>6 DEF ContextRecord
  <2>8. PICK contexts : contexts = updated.contexts
    OBVIOUS
  <2>9. /\ updated \in SessionRecord
        /\ updated.contexts = contexts /\ updated.objects = s.objects /\ updated.minted = s.minted
        /\ \A d \in AncestryCtx \ {c} : contexts[d] = durable.contexts[d]
        /\ contexts[c].loaded /\ contexts[c].factory /\ contexts[c].head = o.id
        /\ contexts[c].key = None
    <3>1. s \in SessionRecord /\ updated = Renewed(s, c, recipe)
      BY <1>10, <2>3, <2>5 DEF Shape
    <3>2. /\ updated \in SessionRecord /\ updated.objects = s.objects /\ updated.minted = s.minted
          /\ \A d \in AncestryCtx \ {c} : updated.contexts[d] = s.contexts[d]
          /\ updated.contexts[c].loaded = x.loaded /\ updated.contexts[c].factory = x.factory
          /\ updated.contexts[c].head = x.head /\ updated.contexts[c].key = None
      BY <1>6, <2>6, <3>1, RenewedIs
    <3> QED
      BY <2>7, <2>8, <3>2
  <2>10. PICK p : p = [o EXCEPT !.configuration = configuration, !.recipe = recipe]
    OBVIOUS
  <2>11. p \in ObjectRecord /\ p.id = o.id /\ p.value = A!Physical /\ p.key = None
    BY <1>6, <2>5, <2>10 DEF ObjectRecord
  <2>12. PICK v : v = s.objects
    OBVIOUS
  <2>13. v \in Seq(ObjectRecord) /\ last \in DOMAIN v /\ v[last] = o /\ last = Len(v)
    <3>1. v \in Seq(ObjectRecord) /\ v # <<>> /\ last = Len(v) /\ v[last] = o
      BY <1>11, <2>3, <2>5, <2>12, Fields DEF Shape
    <3> QED
      BY <3>1
  <2>14. PICK objects : objects = [v EXCEPT ![last] = p]
    OBVIOUS
  <2>15. /\ objects \in Seq(ObjectRecord) /\ DOMAIN objects = DOMAIN v /\ objects[last] = p
         /\ \A i \in DOMAIN v : i # last => objects[i] = v[i]
    BY <2>11, <2>13, <2>14
  <2>16. t = [updated EXCEPT !.objects = objects]
    <3>1. t = [updated EXCEPT !.objects[last].configuration = old.configuration + 1,
                              !.objects[last].recipe = recipe]
      BY <1>12, <1>16
    <3>2. updated.objects = v
      BY <2>9, <2>12
    <3>3. PICK w : w = [[v EXCEPT ![last].configuration = configuration] EXCEPT ![last].recipe = recipe]
      OBVIOUS
    <3>4. t = [updated EXCEPT !.objects = w]
      BY <1>5, <2>9, <2>13, <3>1, <3>2, <3>3 DEF SessionRecord
    <3>5. w = objects
      BY <2>5, <2>10, <2>13, <2>14, <3>3 DEF ObjectRecord
    <3> QED
      BY <3>4, <3>5
  <2>17. /\ t \in SessionRecord /\ t.contexts = contexts /\ t.objects = objects
         /\ t.minted = durable.minted + 1
    BY <2>5, <2>9, <2>15, <2>16 DEF SessionRecord
  <2>18. \A i \in DOMAIN v : objects[i].id = v[i].id
    BY <2>11, <2>13, <2>15
  <2>19. A!Retained(t) = A!Retained(s)
    BY <2>12, <2>15, <2>17, <2>18 DEF A!Retained
  <2>20. \A e \in A!ToSet(objects) : e = p \/ e \in A!ToSet(v)
    BY <2>13, <2>15 DEF A!ToSet
  <2>21. \A e \in A!ToSet(v) : e.id \in 1..s.minted
    BY <2>5, <2>12 DEF Shape
  <2>22. \A e \in A!ToSet(durable.objects) : e.id \in 1..durable.minted
    BY <1>1 DEF Shape
  <2>23. A!Heads(t) = A!Heads(s)
    <3>1. \A d \in AncestryCtx : contexts[d].head = s.contexts[d].head
      BY <2>6, <2>7, <2>9
    <3> QED
      BY <2>17, <3>1 DEF A!Heads
  <2>24. Shape(t)
    <3>1. p.id \in 1..(durable.minted + 1)
      BY <1>1, <2>5, <2>11
    <3> QED
      BY <2>5, <2>17, <2>19, <2>20, <2>21, <2>23, <3>1 DEF Shape
  <2>25. Fits(t, c)
    <3>1. o.id \notin A!Known /\ o.id # None /\ o.id # old.head
      <4>1. o.id \notin 1..durable.minted /\ o.id \in Nat
        BY <1>1, <2>5
      <4>2. old.head \in index.live
        BY <1>3, <1>16
      <4> QED
        BY <4>1, <4>2, Committed DEF AncestrySound
    <3>2. ASSUME NEW e \in A!ToSet(objects), e.id = o.id PROVE e.key = None
      <4>1. e \in A!ToSet(v) => e = o
        BY <1>1, <2>5, <2>12, <2>22, <3>2
      <4> QED
        BY <2>5, <2>11, <2>20, <4>1
    <3>3. \A e \in A!ToSet(t.objects) : e.id = o.id => NewKey(contexts[c], e)
      BY <2>9, <2>17, <3>2 DEF NewKey
    <3> QED
      BY <1>2, <2>9, <2>17, <3>1, <3>3 DEF Fits, Held
  <2>26. \A d \in AncestryCtx : Fits(t, d)
    BY <2>9, <2>17, <2>25, SettledFits
  <2>27. durable.minted <= t.minted
    BY <1>1, <2>17
  <2> QED
    BY <1>13, <2>24, <2>26, <2>27, Zenon DEF Ready
<1> QED
  BY <1>15, <1>16

-----------------------------------------------------------------------------
(* Checkpoints.                                                            *)

\* session.save: the value again, under a new number and no context's head.
LEMMA SaveKeeps ==
  ASSUME AncestrySound, AncestryInd, NEW id \in A!Retained(durable), NEW pin \in BOOLEAN, A!Save(id, pin)
  PROVE  AncestryInd' /\ index' # index
<1>1. /\ durable \in SessionRecord /\ durable.contexts \in [AncestryCtx -> ContextRecord]
      /\ durable.minted \in Nat /\ Shape(durable) /\ index \in IndexRecord
      /\ index.pins \subseteq index.live /\ A!Known \subseteq 1..durable.minted
  BY Committed
<1>2. PICK o : o = A!Stored(durable, id)
  OBVIOUS
<1>3. o \in ObjectRecord /\ o.value \in Value /\ o.key \in AncestrySetting \cup {None}
  BY <1>1, <1>2, Looked DEF ObjectRecord
<1>4. PICK key : key = IF A!Exact(o) /\ o.value.kind \in A!Memory THEN o.key ELSE None
  OBVIOUS
<1>5. PICK activate \in BOOLEAN : activate = FALSE
  OBVIOUS
<1>6. PICK r : r = A!Publish(durable, o.value, None, None, activate, key, Len(o.recipe))
  OBVIOUS
<1>7. PICK object : object = [o EXCEPT !.id = r.id, !.key = key]
  OBVIOUS
<1>8. PICK t : t = [r.s EXCEPT !.objects[Len(r.s.objects)] = object]
  OBVIOUS
<1>9. PICK idx : idx = IF pin THEN [index EXCEPT !.pins = @ \cup {r.id}] ELSE index
  OBVIOUS
<1>10. PICK track \in BOOLEAN : track = TRUE
  OBVIOUS
<1>11. r.ok /\ A!CommitAs(t, idx, track)
  <2>1. PICK made : made = A!Publish(durable, o.value, None, None, FALSE, key, Len(o.recipe))
    OBVIOUS
  <2>2. /\ made.ok
        /\ A!CommitAs([made.s EXCEPT !.objects[Len(made.s.objects)] = [o EXCEPT !.id = made.id, !.key = key]],
                    IF pin THEN [index EXCEPT !.pins = @ \cup {made.id}] ELSE index, TRUE)
    BY <1>2, <1>4, <2>1 DEF A!Save
  <2>3. made = r
    BY <1>5, <1>6, <2>1
  <2> QED
    BY <1>7, <1>8, <1>9, <1>10, <2>2, <2>3
<1>12. r.id = durable.minted + 1 /\ \E n : Published(durable, r.s, n, o.value, None, activate, key)
  <2>1. PICK nowhere \in AncestryCtx \cup {None} : nowhere = None
    OBVIOUS
  <2>2. PICK free, value, more : free = None /\ value = o.value /\ more = Len(o.recipe)
    OBVIOUS
  <2>3. key \in AncestrySetting \cup {None} /\ (activate => nowhere # None)
    BY <1>3, <1>4, <1>5
  <2>4. r = A!Publish(durable, value, nowhere, free, activate, key, more)
    BY <1>6, <2>1, <2>2
  <2>5. value \in Value
    BY <1>3, <2>2
  <2>6. r.id = durable.minted + 1 /\ \E n : Published(durable, r.s, n, value, nowhere, activate, key)
    <3>1. Shape(durable) /\ r.ok
      BY <1>1, <1>11
    <3>2. activate \in BOOLEAN
      BY <1>5
    <3>3. nowhere \in AncestryCtx \cup {None}
      BY <2>1
    <3> QED
      BY <2>3, <2>4, <2>5, <3>1, <3>2, <3>3, PublishShapes
  <2> QED
    BY <2>1, <2>2, <2>6
<1>13. PICK n : Published(durable, r.s, n, o.value, None, activate, key)
  BY <1>12
<1>14. PICK s : s = r.s
  OBVIOUS
<1>15. /\ Shape(s) /\ n \in ObjectRecord /\ n.id = durable.minted + 1
       /\ s.minted = durable.minted + 1 /\ s.objects # <<>> /\ s.objects[Len(s.objects)] = n
       /\ s.contexts = durable.contexts
  BY <1>5, <1>13, <1>14 DEF Published
<1>16. object \in ObjectRecord /\ object.id = n.id
  <2>1. key \in AncestrySetting \cup {None} /\ r.id \in Nat
    BY <1>1, <1>3, <1>4, <1>12
  <2> QED
    BY <1>3, <1>7, <1>12, <1>15, <2>1 DEF ObjectRecord
<1>17. PICK v : v = s.objects
  OBVIOUS
<1>18. PICK last : last = Len(v)
  OBVIOUS
<1>19. s \in SessionRecord /\ v \in Seq(ObjectRecord) /\ last \in DOMAIN v /\ v[last] = n
  <2>1. s \in SessionRecord /\ v \in Seq(ObjectRecord) /\ v # <<>> /\ v[last] = n
    BY <1>15, <1>17, <1>18, Fields DEF Shape
  <2> QED
    BY <1>18, <2>1
<1>20. PICK objects : objects = [v EXCEPT ![last] = object]
  OBVIOUS
<1>21. /\ objects \in Seq(ObjectRecord) /\ DOMAIN objects = DOMAIN v /\ objects[last] = object
       /\ \A i \in DOMAIN v : i # last => objects[i] = v[i]
  BY <1>16, <1>19, <1>20
<1>22. /\ t \in SessionRecord /\ t.objects = objects /\ t.contexts = durable.contexts
       /\ t.minted = durable.minted + 1
  <2>1. t = [s EXCEPT !.objects = objects]
    BY <1>8, <1>14, <1>17, <1>18, <1>20
  <2> QED
    BY <1>15, <1>19, <1>21, <2>1 DEF SessionRecord
<1>23. A!Retained(t) = A!Retained(s)
  <2>1. \A i \in DOMAIN v : objects[i].id = v[i].id
    BY <1>16, <1>19, <1>21
  <2> QED
    BY <1>17, <1>21, <1>22, <2>1 DEF A!Retained
<1>24. Shape(t)
  <2>1. \A e \in A!ToSet(objects) : e = object \/ e \in A!ToSet(v)
    BY <1>19, <1>21 DEF A!ToSet
  <2>2. \A e \in A!ToSet(v) : e.id \in 1..s.minted
    BY <1>15, <1>17 DEF Shape
  <2>3. object.id \in 1..(durable.minted + 1)
    BY <1>1, <1>15, <1>16
  <2>4. A!Heads(t) = A!Heads(s)
    BY <1>15, <1>22 DEF A!Heads
  <2>5. A!Heads(s) \subseteq A!Retained(s)
    BY <1>15 DEF Shape
  <2> QED
    BY <1>15, <1>22, <1>23, <2>1, <2>2, <2>3, <2>4, <2>5 DEF Shape
<1>25. Ready(t)
  <2>1. \A c \in AncestryCtx : Fits(t, c)
    BY <1>22, SettledFits
  <2>2. durable.minted <= t.minted
    BY <1>1, <1>22
  <2> QED
    BY <1>24, <2>1, <2>2, Zenon DEF Ready
<1>26. r.id \in A!Retained(t) \ A!Known
  <2>1. n \in A!ToSet(v)
    BY <1>19 DEF A!ToSet
  <2>2. r.id \in A!Retained(s)
    BY <1>12, <1>15, <1>17, <1>19, <2>1, Fields
  <2>3. r.id \notin A!Known
    BY <1>1, <1>12
  <2> QED
    BY <1>23, <2>2, <2>3
<1>27. /\ idx \in IndexRecord /\ idx.contexts = index.contexts /\ idx.states = index.states
       /\ idx.cursor = index.cursor /\ idx.redo = index.redo /\ idx.live = index.live
       /\ idx.pins \subseteq index.pins \cup {r.id}
  <2>1. CASE ~pin
    BY <1>1, <1>9, <2>1
  <2>2. CASE pin
    <3>1. PICK pins : pins = index.pins \cup {r.id}
      OBVIOUS
    <3>2. pins \in SUBSET Nat
      BY <1>1, <1>12, <3>1, IndexFields
    <3>3. idx = [index EXCEPT !.pins = pins]
      BY <1>9, <2>2, <3>1
    <3> QED
      BY <1>1, <3>1, <3>2, <3>3 DEF IndexRecord
  <2> QED
    BY <2>1, <2>2
<1>28. A!Heads(t) \subseteq idx.live \cup (A!Retained(t) \ A!Known)
  BY <1>25, <1>27, HeadsStored DEF Ready, Fits
<1>29. idx.pins \subseteq idx.live \cup (A!Retained(t) \ A!Known)
  BY <1>1, <1>26, <1>27
<1> QED
  BY <1>10, <1>11, <1>25, <1>27, <1>28, <1>29, TrackedKeeps

\* What else the client may do to the index: pin what is live, unpin, change the policy, give up
\* what nothing protects.
LEMMA IndexKeeps ==
  ASSUME AncestrySound, AncestryInd, NEW idx \in IndexRecord, idx.contexts = index.contexts,
         idx.states = index.states, idx.cursor = index.cursor, idx.redo = index.redo,
         idx.live \subseteq index.live, idx.pins \subseteq idx.live,
         A!Heads(durable) \subseteq idx.live,
         NEW track \in BOOLEAN, track = TRUE, A!CommitAs(durable, idx, track)
  PROVE  AncestryInd' /\ index' # index
<1>1. Ready(durable)
  BY SessionReady
<1> QED
  BY <1>1, TrackedKeeps

\* checkpoints.pin
LEMMA PinKeeps ==
  ASSUME AncestrySound, AncestryInd, NEW id, A!Pin(id)
  PROVE  AncestryInd' /\ index' # index
<1>1. PICK pins : pins = index.pins \cup {id}
  OBVIOUS
<1>2. PICK idx : idx = [index EXCEPT !.pins = pins]
  OBVIOUS
<1>3. PICK track \in BOOLEAN : track = TRUE
  OBVIOUS
<1>4. id \in index.live /\ A!CommitAs(durable, idx, track)
  BY <1>1, <1>2, <1>3 DEF A!Pin
<1>5. index \in IndexRecord /\ pins \in SUBSET Nat /\ pins \subseteq index.live
  BY <1>1, <1>4, Committed, IndexFields
<1>6. /\ idx \in IndexRecord /\ idx.contexts = index.contexts /\ idx.states = index.states
      /\ idx.cursor = index.cursor /\ idx.redo = index.redo /\ idx.live = index.live
      /\ idx.pins = pins
  BY <1>2, <1>5 DEF IndexRecord
<1> QED
  BY <1>3, <1>4, <1>5, <1>6, Committed, IndexKeeps

\* checkpoints.unpin
LEMMA UnpinKeeps ==
  ASSUME AncestrySound, AncestryInd, NEW id, A!Unpin(id)
  PROVE  AncestryInd' /\ index' # index
<1>1. PICK pins : pins = index.pins \ {id}
  OBVIOUS
<1>2. PICK idx : idx = [index EXCEPT !.pins = pins]
  OBVIOUS
<1>3. PICK track \in BOOLEAN : track = TRUE
  OBVIOUS
<1>4. A!CommitAs(durable, idx, track)
  BY <1>1, <1>2, <1>3 DEF A!Unpin
<1>5. index \in IndexRecord /\ pins \in SUBSET Nat /\ pins \subseteq index.live
  BY <1>1, Committed, IndexFields
<1>6. /\ idx \in IndexRecord /\ idx.contexts = index.contexts /\ idx.states = index.states
      /\ idx.cursor = index.cursor /\ idx.redo = index.redo /\ idx.live = index.live
      /\ idx.pins = pins
  BY <1>2, <1>5 DEF IndexRecord
<1> QED
  BY <1>3, <1>4, <1>5, <1>6, Committed, IndexKeeps

\* storage.configure
LEMMA ConfigureKeeps ==
  ASSUME AncestrySound, AncestryInd, NEW policy \in Policies, A!Configure(policy)
  PROVE  AncestryInd' /\ index' # index
<1>1. PICK idx : idx = [index EXCEPT !.policy = policy]
  OBVIOUS
<1>2. PICK track \in BOOLEAN : track = TRUE
  OBVIOUS
<1>3. A!CommitAs(durable, idx, track)
  BY <1>1, <1>2 DEF A!Configure
<1>4. index \in IndexRecord
  BY Committed
<1>5. /\ idx \in IndexRecord /\ idx.contexts = index.contexts /\ idx.states = index.states
      /\ idx.cursor = index.cursor /\ idx.redo = index.redo /\ idx.live = index.live
      /\ idx.pins = index.pins
  BY <1>1, <1>4 DEF IndexRecord
<1> QED
  BY <1>2, <1>3, <1>5, Committed, IndexKeeps

\* The heads of a committed session and the protected objects are the same, but for pins.
LEMMA HeadsProtected ==
  ASSUME AncestrySound, AncestryInd
  PROVE  A!ProtectedBy(index) = index.pins \cup A!Heads(durable)
<1>1. \A c \in AncestryCtx : index.contexts[c].head = durable.contexts[c].head
  <2>1. ASSUME NEW c \in AncestryCtx PROVE index.contexts[c].head = durable.contexts[c].head
    <3>1. index.contexts = Activations(durable.contexts) /\ KeptContext(durable.contexts[c], index, payload)
      BY Committed
    <3> QED
      BY <3>1 DEF Activations, KeptContext, A!Record, A!NoRecord, A!Unloaded
  <2> QED
    BY <2>1
<1> QED
  BY <1>1 DEF A!ProtectedBy, A!Heads

\* storage.apply
LEMMA ApplyKeeps ==
  ASSUME AncestrySound, AncestryInd, A!ApplyPlan
  PROVE  AncestryInd' /\ index' # index
<1>1. PICK live : live = index.live \ plan.targets
  OBVIOUS
<1>2. PICK idx : idx = [index EXCEPT !.live = live]
  OBVIOUS
<1>3. PICK track \in BOOLEAN : track = TRUE
  OBVIOUS
<1>4. A!CommitAs(durable, idx, track)
  BY <1>1, <1>2, <1>3 DEF A!ApplyPlan
<1>5. index \in IndexRecord /\ live \in SUBSET Nat /\ live \subseteq index.live
  BY <1>1, Committed, IndexFields
<1>6. /\ idx \in IndexRecord /\ idx.contexts = index.contexts /\ idx.states = index.states
      /\ idx.cursor = index.cursor /\ idx.redo = index.redo /\ idx.live = live
      /\ idx.pins = index.pins
  BY <1>2, <1>5 DEF IndexRecord
<1>7. index.pins \subseteq live /\ A!Heads(durable) \subseteq live
  <2>1. \A id \in plan.targets : id \notin A!ProtectedBy(index)
    BY DEF A!ApplyPlan, A!StillSafe, A!Eligible
  <2> QED
    BY <1>1, <2>1, HeadsProtected, Committed
<1> QED
  BY <1>3, <1>4, <1>5, <1>6, <1>7, IndexKeeps

-----------------------------------------------------------------------------
(* Contexts that are built again.                                          *)

\* A context that is built again has the recorded head, under the key stored with it.
LEMMA RebuiltShapes ==
  ASSUME AncestrySound, AncestryInd, NEW c \in AncestryCtx, NEW record \in ActivationRecord,
         record.head # None => record.head \in A!Known,
         NEW t, t = A!Rebuilt(durable, c, record)
  PROVE  /\ Shape(t) /\ t.minted = durable.minted
         /\ A!RebuiltContext(record) \in ContextRecord
         /\ t.contexts = [durable.contexts EXCEPT ![c] = A!RebuiltContext(record)]
<1>1. /\ durable \in SessionRecord /\ durable.contexts \in [AncestryCtx -> ContextRecord]
      /\ durable.objects \in Seq(ObjectRecord) /\ durable.minted \in Nat /\ durable.revision \in Nat
      /\ \A o \in A!ToSet(durable.objects) : o.id \in 1..durable.minted
      /\ A!Heads(durable) \subseteq A!Retained(durable)
  BY Committed, Fields DEF Shape
<1>2. /\ record.head \in Nat \cup {None} /\ record.configuration \in Nat /\ record.recipe \in Seq(AncestryUpdate)
  BY DEF ActivationRecord
<1>3. PICK head : head = record.head
  OBVIOUS
<1>4. ASSUME head # None
      PROVE  /\ payload[head] \in ObjectRecord /\ payload[head].id = head
             /\ head \in 1..durable.minted /\ payload[head].key \in AncestrySetting \cup {None}
  <2>1. head \in A!Known
    BY <1>3, <1>4
  <2> QED
    BY <2>1, Committed DEF ObjectRecord
<1>5. PICK x : x = A!RebuiltContext(record)
  OBVIOUS
<1>6. x \in ContextRecord /\ x.head = head
  <2>1. PICK key : key = IF record.head = None THEN None ELSE payload[record.head].key
    OBVIOUS
  <2>2. key \in AncestrySetting \cup {None}
    BY <1>3, <1>4, <2>1
  <2>3. x = [loaded |-> TRUE, factory |-> TRUE, head |-> record.head, key |-> key,
             configuration |-> record.configuration, recipe |-> record.recipe]
    BY <1>5, <2>1 DEF A!RebuiltContext
  <2> QED
    BY <1>2, <1>3, <2>2, <2>3 DEF ContextRecord
<1>7. PICK object : object = A!RebuiltHead(c, record)
  OBVIOUS
<1>8. head # None => object \in ObjectRecord /\ object.id = head
  <2> SUFFICES ASSUME head # None PROVE object \in ObjectRecord /\ object.id = head
    OBVIOUS
  <2>1. object = [payload[head] EXCEPT !.context = c, !.configuration = record.configuration,
                                       !.recipe = record.recipe]
    BY <1>3, <1>7 DEF A!RebuiltHead
  <2> QED
    BY <1>2, <1>4, <2>1 DEF ObjectRecord
<1>9. PICK v : v = durable.objects
  OBVIOUS
<1>10. v \in Seq(ObjectRecord) /\ DOMAIN v = 1..Len(v) /\ Len(v) \in Nat
  BY <1>1, <1>9
<1>11. PICK place : place = IF head \in A!Retained(durable)
                            THEN [i \in DOMAIN v |-> IF v[i].id = head THEN object ELSE v[i]]
                            ELSE Append(v, object)
  OBVIOUS
<1>12. PICK objects : objects = IF head = None THEN v ELSE place
  OBVIOUS
<1>13. /\ objects \in Seq(ObjectRecord)
       /\ \A o \in A!ToSet(v) : \E p \in A!ToSet(objects) : p.id = o.id
       /\ \A p \in A!ToSet(objects) : p.id = head \/ p \in A!ToSet(v)
       /\ head # None => \E p \in A!ToSet(objects) : p.id = head
  <2>1. CASE head = None
    BY <1>10, <1>12, <2>1
  <2>2. CASE head # None /\ head \in A!Retained(durable)
    <3>1. objects = [i \in 1..Len(v) |-> IF v[i].id = head THEN object ELSE v[i]]
      BY <1>10, <1>11, <1>12, <2>2
    <3>2. objects \in [1..Len(v) -> ObjectRecord]
      BY <1>8, <1>10, <2>2, <3>1
    <3>3. objects \in Seq(ObjectRecord) /\ DOMAIN objects = DOMAIN v
      BY <1>10, <3>1, <3>2, SeqDef
    <3>4. \A i \in DOMAIN v : objects[i].id = v[i].id /\ (objects[i].id = head \/ objects[i] = v[i])
      BY <1>8, <1>10, <2>2, <3>1
    <3>5. \E i \in DOMAIN v : v[i].id = head
      BY <1>9, <2>2 DEF A!Retained
    <3> QED
      BY <2>2, <3>3, <3>4, <3>5 DEF A!ToSet
  <2>3. CASE head # None /\ head \notin A!Retained(durable)
    <3>1. objects = Append(v, object)
      BY <1>11, <1>12, <2>3
    <3>2. objects \in Seq(ObjectRecord) /\ A!ToSet(objects) = A!ToSet(v) \cup {object}
      BY <1>8, <1>10, <2>3, <3>1, Appended
    <3> QED
      BY <1>8, <2>3, <3>2
  <2> QED
    BY <2>1, <2>2, <2>3
<1>14. PICK contexts : contexts = [durable.contexts EXCEPT ![c] = x]
  OBVIOUS
<1>15. contexts \in [AncestryCtx -> ContextRecord]
  BY <1>1, <1>6, <1>14
<1>16. PICK revision : revision = durable.revision + 1 + Len(record.recipe)
  OBVIOUS
<1>17. revision \in Nat
  BY <1>1, <1>2, <1>16
<1>18. t = [durable EXCEPT !.contexts = contexts, !.revision = revision, !.objects = objects]
  <2>1. t = [durable EXCEPT !.contexts[c] = x, !.revision = revision,
                            !.objects = IF head = None THEN @ ELSE place]
    BY <1>3, <1>5, <1>7, <1>9, <1>11, <1>16 DEF A!Rebuilt
  <2> QED
    BY <1>1, <1>9, <1>12, <1>14, <2>1 DEF SessionRecord
<1>19. /\ t \in SessionRecord /\ t.contexts = contexts /\ t.objects = objects
       /\ t.minted = durable.minted
  BY <1>1, <1>13, <1>15, <1>17, <1>18 DEF SessionRecord
<1>20. \A o \in A!ToSet(t.objects) : o.id \in 1..t.minted
  <2>1. ASSUME NEW o \in A!ToSet(objects), o.id = head PROVE o.id \in 1..durable.minted
    <3>1. o \in ObjectRecord
      BY <1>13 DEF A!ToSet
    <3>2. head # None
      BY <2>1, <3>1 DEF ObjectRecord, AncestrySound
    <3> QED
      BY <1>4, <2>1, <3>2
  <2> QED
    BY <1>1, <1>9, <1>13, <1>19, <2>1
<1>21. A!Heads(t) \subseteq A!Retained(t)
  <2>1. \A h \in A!Heads(t) : h \in A!Heads(durable) \/ (h = head /\ head # None)
    BY <1>1, <1>6, <1>14, <1>19 DEF A!Heads
  <2>2. \A h \in A!Heads(durable) : \E o \in A!ToSet(v) : o.id = h
    BY <1>1, <1>9, Fields
  <2>3. \A h \in A!Heads(t) : \E o \in A!ToSet(objects) : o.id = h
    BY <1>13, <2>1, <2>2
  <2> QED
    BY <1>19, <2>3, Fields
<1> QED
  BY <1>5, <1>6, <1>14, <1>19, <1>20, <1>21 DEF Shape

\* checkpoints.restore in exact mode
LEMMA RestoreExactKeeps ==
  ASSUME AncestrySound, AncestryInd, NEW c \in AncestryCtx, NEW id \in A!Known, A!RestoreExact(id, c)
  PROVE  AncestryInd' /\ index' # index
<1>1. PICK o : o = payload[id]
  OBVIOUS
<1>2. o \in ObjectRecord /\ o.value \in Value /\ o.key \in AncestrySetting \cup {None} /\ id \in 1..durable.minted
  BY <1>1, Committed DEF ObjectRecord
<1>3. PICK record : record = [loaded |-> TRUE, head |-> id, configuration |-> o.configuration,
                              recipe |-> o.recipe]
  OBVIOUS
<1>4. record \in ActivationRecord /\ record.head = id
  BY <1>2, <1>3, Committed DEF ObjectRecord, ActivationRecord
<1>5. PICK s : s = A!Rebuilt(durable, c, record)
  OBVIOUS
<1>6. PICK activate \in BOOLEAN : activate = TRUE
  OBVIOUS
<1>7. PICK track \in BOOLEAN : track = TRUE
  OBVIOUS
<1>8. PICK r : r = A!Publish(s, o.value, c, None, activate, o.key, 0)
  OBVIOUS
<1>9. A!Exact(o) /\ r.ok /\ A!CommitAs([r.s EXCEPT !.selected = c], index, track)
  BY <1>1, <1>3, <1>5, <1>6, <1>7, <1>8 DEF A!RestoreExact
<1>10. PICK x : x = A!RebuiltContext(record)
  OBVIOUS
<1>11. /\ Shape(s) /\ s.minted = durable.minted /\ x \in ContextRecord
       /\ s.contexts = [durable.contexts EXCEPT ![c] = x]
  BY <1>4, <1>5, <1>10, RebuiltShapes
<1>12. x.loaded = TRUE /\ x.factory = TRUE
  BY <1>10 DEF A!RebuiltContext
<1>13. /\ durable.contexts \in [AncestryCtx -> ContextRecord] /\ durable.minted \in Nat
  BY Committed
<1>14. s.contexts[c] = x /\ \A d \in AncestryCtx \ {c} : s.contexts[d] = durable.contexts[d]
  BY <1>11, <1>13
<1>15. PICK n : Published(s, r.s, n, o.value, c, activate, o.key)
  <2>1. c \in AncestryCtx \cup {None} /\ c # None
    BY DEF AncestrySound
  <2>2. PICK free : free = None
    OBVIOUS
  <2>3. r = A!Publish(s, o.value, c, free, activate, o.key, 0)
    BY <1>8, <2>2
  <2> QED
    BY <1>2, <1>9, <1>11, <2>1, <2>3, PublishShapes
<1>16. Shape(r.s) /\ r.s.minted = durable.minted + 1 /\ n.value = o.value /\ n.key = o.key
  BY <1>11, <1>15 DEF Published
<1>17. A!Exact(n)
  BY <1>9, <1>16 DEF A!Exact
<1>18. Fits(r.s, c)
  <2>1. activate = TRUE
    BY <1>6
  <2>2. Published(s, r.s, n, o.value, c, TRUE, o.key)
    BY <1>15, <2>1
  <2>3. s.contexts[c].loaded /\ s.contexts[c].factory
    BY <1>12, <1>14
  <2> QED
    BY <1>11, <1>17, <2>2, <2>3, PublishedFits
<1>19. \A d \in AncestryCtx \ {c} : Fits(r.s, d)
  <2>1. \A d \in AncestryCtx \ {c} : r.s.contexts[d] = durable.contexts[d]
    <3>1. r.s.contexts = [s.contexts EXCEPT ![c] = [@ EXCEPT !.head = n.id, !.key = o.key]]
      BY <1>6, <1>15 DEF Published
    <3> QED
      BY <1>14, <3>1, <1>11, <1>13
  <2> QED
    BY <2>1, SettledFits
<1>20. Ready(r.s)
  <2>1. durable.minted <= r.s.minted
    BY <1>13, <1>16
  <2>2. \A d \in AncestryCtx : Fits(r.s, d)
    BY <1>18, <1>19
  <2> QED
    BY <1>16, <2>1, <2>2, Zenon DEF Ready
<1>21. PICK t : t = [r.s EXCEPT !.selected = c]
  OBVIOUS
<1>22. Ready(t)
  BY <1>20, <1>21, SelectedReady
<1> QED
  BY <1>7, <1>9, <1>21, <1>22, StagedKeeps

\* checkpoints.restore in physical mode
LEMMA RestorePhysicalKeeps ==
  ASSUME AncestrySound, AncestryInd, NEW c \in AncestryCtx, NEW id, A!RestorePhysical(id, c)
  PROVE  AncestryInd' /\ index' # index
<1>1. PICK free : free = None
  OBVIOUS
<1>2. PICK r : r = A!UseValue(durable, c, free)
  OBVIOUS
<1>3. PICK track \in BOOLEAN : track = TRUE
  OBVIOUS
<1>4. PICK t : t = [r.s EXCEPT !.selected = c]
  OBVIOUS
<1>5. durable.contexts[c].loaded /\ r.ok /\ A!CommitAs(t, index, track)
  BY <1>1, <1>2, <1>3, <1>4 DEF A!RestorePhysical
<1>6. Ready(r.s)
  BY <1>2, <1>5, UseReady
<1>7. Ready(t)
  BY <1>4, <1>6, SelectedReady
<1> QED
  BY <1>3, <1>5, <1>7, StagedKeeps

-----------------------------------------------------------------------------
(* session.undo and session.redo.                                          *)

\* An index on the way up or down: all is as committed, but for the place of c on its path.
Walking(idx, c) ==
  /\ idx \in IndexRecord /\ idx.states = index.states /\ idx.live = index.live /\ idx.pins = index.pins
  /\ \A d \in AncestryCtx \ {c} : idx.cursor[d] = index.cursor[d] /\ idx.redo[d] = index.redo[d]
  /\ OnPath(idx, c)

\* Down: the last entry of the redo path becomes the cursor, and the path stays what it was.
LEMMA DownWalks ==
  ASSUME NEW idx, NEW c \in AncestryCtx, Walking(idx, c), idx.redo[c] # <<>>, NEW x,
         x = [idx EXCEPT !.cursor[c] = A!Last(idx.redo[c]), !.redo[c] = A!Front(@)]
  PROVE  Walking(x, c)
<1>1. idx \in IndexRecord /\ idx.cursor \in [AncestryCtx -> Nat] /\ idx.redo \in [AncestryCtx -> Seq(Nat)]
  BY IndexFields DEF Walking
<1>2. PICK v : v = idx.redo[c]
  OBVIOUS
<1>3. PICK path : path = Append(v, idx.cursor[c])
  OBVIOUS
<1>4. v \in Seq(Nat) /\ v # <<>> /\ idx.cursor[c] \in Nat
  BY <1>1, <1>2
<1>5. PICK n : n = Len(v)
  OBVIOUS
<1>6. n \in Nat /\ n > 0 /\ DOMAIN v = 1..n /\ \A i \in 1..n : v[i] \in Nat /\ path[i] = v[i]
  BY <1>3, <1>4, <1>5
<1>7. PICK last : last = v[n]
  OBVIOUS
<1>8. PICK front : front = SubSeq(v, 1, n - 1)
  OBVIOUS
<1>9. /\ front \in Seq(Nat) /\ Len(front) = n - 1 /\ DOMAIN front = 1..(n - 1)
      /\ \A i \in 1..(n - 1) : front[i] = v[i]
  BY <1>4, <1>5, <1>6, <1>8
<1>10. last \in Nat
  BY <1>6, <1>7
<1>11. PICK again : again = Append(front, last)
  OBVIOUS
<1>12. DOMAIN again = 1..n /\ \A i \in 1..n : again[i] = v[i]
  <2>1. /\ DOMAIN again = 1..n /\ again[n] = last /\ \A i \in 1..(n - 1) : again[i] = front[i]
    BY <1>6, <1>9, <1>10, <1>11
  <2> QED
    BY <1>6, <1>7, <1>9, <2>1
<1>13. PICK cursor : cursor = [idx.cursor EXCEPT ![c] = last]
  OBVIOUS
<1>14. PICK redo : redo = [idx.redo EXCEPT ![c] = front]
  OBVIOUS
<1>15. /\ cursor \in [AncestryCtx -> Nat] /\ redo \in [AncestryCtx -> Seq(Nat)] /\ cursor[c] = last /\ redo[c] = front
       /\ \A d \in AncestryCtx \ {c} : cursor[d] = idx.cursor[d] /\ redo[d] = idx.redo[d]
  BY <1>1, <1>9, <1>10, <1>13, <1>14
<1>16. x = [idx EXCEPT !.cursor = cursor, !.redo = redo]
  <2>1. A!Last(v) = last /\ A!Front(v) = front
    BY <1>5, <1>7, <1>8 DEF A!Last, A!Front
  <2> QED
    BY <1>1, <1>2, <1>13, <1>14, <2>1 DEF IndexRecord
<1>17. /\ x \in IndexRecord /\ x.states = idx.states /\ x.live = idx.live /\ x.pins = idx.pins
       /\ x.cursor = cursor /\ x.redo = redo
  BY <1>1, <1>15, <1>16 DEF IndexRecord
<1>18. /\ \A i \in DOMAIN path : path[i] \in DOMAIN idx.states
       /\ \A i \in DOMAIN v : idx.states[path[i]].parent = path[i + 1]
  BY <1>2, <1>3, Zenon DEF Walking, OnPath
<1>19. /\ \A i \in DOMAIN again : again[i] \in DOMAIN x.states
       /\ \A i \in DOMAIN front : x.states[again[i]].parent = again[i + 1]
  <2>1. DOMAIN path = 1..(n + 1)
    BY <1>3, <1>4, <1>5
  <2>2. ASSUME NEW i \in 1..n PROVE again[i] \in DOMAIN x.states
    BY <1>6, <1>12, <1>17, <1>18, <2>1
  <2>3. ASSUME NEW i \in 1..(n - 1) PROVE x.states[again[i]].parent = again[i + 1]
    <3>1. i \in 1..n /\ i + 1 \in 1..n
      BY <1>6
    <3> QED
      BY <1>6, <1>12, <1>17, <1>18, <3>1
  <2> QED
    BY <1>9, <1>12, <2>2, <2>3
<1>20. OnPath(x, c)
  <2>1. again = Append(x.redo[c], x.cursor[c]) /\ x.redo[c] = front
    BY <1>11, <1>15, <1>17
  <2> QED
    BY <1>19, <2>1, Zenon DEF OnPath
<1> QED
  BY <1>15, <1>17, <1>20 DEF Walking

\* Up: the cursor goes to the end of the redo path, and its parent becomes the cursor.
LEMMA UpWalks ==
  ASSUME AncestrySound, AncestryInd, NEW idx, NEW c \in AncestryCtx, Walking(idx, c),
         idx.cursor[c] # 0, idx.states[idx.cursor[c]].parent # 0, NEW x,
         x = [idx EXCEPT !.redo[c] = Append(@, idx.cursor[c]),
                         !.cursor[c] = idx.states[idx.cursor[c]].parent]
  PROVE  Walking(x, c)
<1>1. /\ idx \in IndexRecord /\ idx.cursor \in [AncestryCtx -> Nat] /\ idx.redo \in [AncestryCtx -> Seq(Nat)]
      /\ DOMAIN idx.states = 1..Len(idx.states) /\ Len(idx.states) \in Nat
  BY IndexFields DEF Walking
<1>2. PICK v : v = idx.redo[c]
  OBVIOUS
<1>3. PICK here : here = idx.cursor[c]
  OBVIOUS
<1>4. PICK path : path = Append(v, here)
  OBVIOUS
<1>5. PICK n : n = Len(v)
  OBVIOUS
<1>6. /\ v \in Seq(Nat) /\ here \in Nat /\ n \in Nat /\ DOMAIN v = 1..n
      /\ path \in Seq(Nat) /\ Len(path) = n + 1 /\ DOMAIN path = 1..(n + 1) /\ path[n + 1] = here
  <2>1. v \in Seq(Nat) /\ here \in Nat
    BY <1>1, <1>2, <1>3
  <2> QED
    BY <1>4, <1>5, <2>1
<1>7. /\ \A i \in DOMAIN path : path[i] \in DOMAIN idx.states
      /\ \A i \in DOMAIN v : idx.states[path[i]].parent = path[i + 1]
  BY <1>2, <1>3, <1>4, Zenon DEF Walking, OnPath
<1>8. here \in DOMAIN idx.states
  BY <1>6, <1>7
<1>9. PICK up : up = idx.states[here].parent
  OBVIOUS
<1>10. up \in Nat /\ up \in DOMAIN idx.states
  <2>1. up \in Nat
    BY <1>1, <1>8, <1>9, IndexFields
  <2>2. up <= Len(idx.states)
    BY <1>8, <1>9, Committed DEF Walking, Traced
  <2>3. up # 0
    BY <1>3, <1>9
  <2> QED
    BY <1>1, <2>1, <2>2, <2>3
<1>11. PICK again : again = Append(path, up)
  OBVIOUS
<1>12. DOMAIN again = 1..(n + 2) /\ again[n + 2] = up /\ \A i \in 1..(n + 1) : again[i] = path[i]
  BY <1>6, <1>10, <1>11
<1>13. PICK cursor : cursor = [idx.cursor EXCEPT ![c] = up]
  OBVIOUS
<1>14. PICK redo : redo = [idx.redo EXCEPT ![c] = path]
  OBVIOUS
<1>15. /\ cursor \in [AncestryCtx -> Nat] /\ redo \in [AncestryCtx -> Seq(Nat)] /\ cursor[c] = up /\ redo[c] = path
       /\ \A d \in AncestryCtx \ {c} : cursor[d] = idx.cursor[d] /\ redo[d] = idx.redo[d]
  BY <1>1, <1>6, <1>10, <1>13, <1>14
<1>16. x = [idx EXCEPT !.cursor = cursor, !.redo = redo]
  BY <1>1, <1>2, <1>3, <1>4, <1>9, <1>13, <1>14 DEF IndexRecord
<1>17. /\ x \in IndexRecord /\ x.states = idx.states /\ x.live = idx.live /\ x.pins = idx.pins
       /\ x.cursor = cursor /\ x.redo = redo
  BY <1>1, <1>15, <1>16 DEF IndexRecord
<1>18. /\ \A i \in DOMAIN again : again[i] \in DOMAIN x.states
       /\ \A i \in DOMAIN path : x.states[again[i]].parent = again[i + 1]
  <2>1. ASSUME NEW i \in 1..(n + 2) PROVE again[i] \in DOMAIN x.states
    <3>1. i = n + 2 \/ i \in 1..(n + 1)
      BY <1>6
    <3> QED
      BY <1>6, <1>7, <1>10, <1>12, <1>17, <3>1
  <2>2. ASSUME NEW i \in 1..(n + 1) PROVE x.states[again[i]].parent = again[i + 1]
    <3>1. CASE i = n + 1
      <4>1. i + 1 = n + 2
        BY <1>6, <3>1
      <4> QED
        BY <1>6, <1>9, <1>12, <1>17, <3>1, <4>1
    <3>2. CASE i \in 1..n
      <4>1. i + 1 \in 1..(n + 1)
        BY <1>6, <3>2
      <4> QED
        BY <1>6, <1>7, <1>12, <1>17, <3>2, <4>1
    <3> QED
      BY <1>6, <3>1, <3>2
  <2> QED
    BY <1>6, <1>12, <2>1, <2>2
<1>19. OnPath(x, c)
  <2>1. again = Append(x.redo[c], x.cursor[c]) /\ x.redo[c] = path
    BY <1>11, <1>15, <1>17
  <2> QED
    BY <1>18, <2>1, Zenon DEF OnPath
<1> QED
  BY <1>15, <1>17, <1>19 DEF Walking

\* A step that is possible stays on the path.
LEMMA SteppedWalks ==
  ASSUME AncestrySound, AncestryInd, NEW idx, NEW c \in AncestryCtx, Walking(idx, c), NEW redo \in BOOLEAN,
         A!Stepped(idx, c, redo) # None
  PROVE  Walking(A!Stepped(idx, c, redo), c)
<1>1. PICK x : x = A!Stepped(idx, c, redo)
  OBVIOUS
<1>2. CASE redo
  <2>1. /\ idx.redo[c] # <<>>
        /\ x = [idx EXCEPT !.cursor[c] = A!Last(idx.redo[c]), !.redo[c] = A!Front(@)]
    BY <1>1, <1>2 DEF A!Stepped
  <2> QED
    BY <1>1, <2>1, DownWalks
<1>3. CASE ~redo
  <2>1. /\ idx.cursor[c] # 0 /\ idx.states[idx.cursor[c]].parent # 0
        /\ x = [idx EXCEPT !.redo[c] = Append(@, idx.cursor[c]),
                           !.cursor[c] = idx.states[idx.cursor[c]].parent]
    BY <1>1, <1>3 DEF A!Stepped
  <2> QED
    BY <1>1, <2>1, UpWalks
<1> QED
  BY <1>2, <1>3

\* One step after another, for the one or two that a call takes here.
LEMMA WalkedWalks ==
  ASSUME AncestrySound, AncestryInd, NEW c \in AncestryCtx, durable.contexts[c].loaded, NEW steps \in 1..2,
         NEW redo \in BOOLEAN, A!Walked(c, steps, redo) # None
  PROVE  Walking(A!Walked(c, steps, redo), c)
<1> DEFINE then(w) == IF w = None THEN None ELSE A!Stepped(w, c, redo)
<1>1. PICK w1 : w1 = then(index)
  OBVIOUS
<1>2. PICK w2 : w2 = then(w1)
  OBVIOUS
<1>3. \E f : f = [k \in 0..steps |-> IF k = 0 THEN index ELSE then(f[k - 1])]
  <2> HIDE DEF then
  <2>1. PICK f : f = [k \in 0..steps |-> IF k = 0 THEN index ELSE IF k = 1 THEN w1 ELSE w2]
    OBVIOUS
  <2>2. ASSUME NEW k \in 0..steps PROVE f[k] = IF k = 0 THEN index ELSE then(f[k - 1])
    <3>1. k = 0 \/ k = 1 \/ k = 2
      OBVIOUS
    <3>2. CASE k = 0
      BY <2>1, <3>2
    <3>3. CASE k = 1
      <4>1. f[0] = index /\ f[1] = w1 /\ k - 1 = 0
        BY <2>1, <3>3
      <4> QED
        BY <1>1, <3>3, <4>1
    <3>4. CASE k = 2
      <4>1. f[1] = w1 /\ f[2] = w2 /\ k - 1 = 1
        BY <2>1, <3>4
      <4> QED
        BY <1>2, <3>4, <4>1
    <3> QED
      BY <3>1, <3>2, <3>3, <3>4
  <2>3. f = [k \in 0..steps |-> IF k = 0 THEN index ELSE then(f[k - 1])]
    BY <2>1, <2>2
  <2> QED
    BY <2>3
<1>4. PICK walk : walk = CHOOSE f : f = [k \in 0..steps |-> IF k = 0 THEN index ELSE then(f[k - 1])]
  OBVIOUS
<1>5. A!Walked(c, steps, redo) = walk[steps]
  BY <1>4 DEF A!Walked
<1> HIDE DEF then
<1>6. walk = [k \in 0..steps |-> IF k = 0 THEN index ELSE then(walk[k - 1])]
  BY <1>3, <1>4
<1>7. walk[0] = index /\ walk[1] = then(index) /\ (steps = 2 => walk[2] = then(walk[1]))
  BY <1>6
<1>8. Walking(index, c)
  BY Committed DEF Walking, Traced
<1>9. ASSUME NEW w, Walking(w, c), then(w) # None PROVE Walking(then(w), c)
  <2>1. then(w) = A!Stepped(w, c, redo)
    BY <1>9 DEF then
  <2> QED
    BY <1>9, <2>1, SteppedWalks
<1>10. \A w : then(w) # None => w # None
  BY DEF then
<1>11. CASE steps = 1
  BY <1>5, <1>7, <1>8, <1>9, <1>11
<1>12. CASE steps = 2
  BY <1>5, <1>7, <1>8, <1>9, <1>10, <1>12
<1> QED
  BY <1>11, <1>12

\* A context that is built again from a record that opens is held, and records as it was.
LEMMA RebuiltHolds ==
  ASSUME NEW record \in ActivationRecord, record.loaded, A!Opens(record), NEW x, x = A!RebuiltContext(record)
  PROVE  /\ x.loaded = TRUE /\ x.factory = TRUE /\ x.head = record.head
         /\ x.head = None => x.key = None
         /\ x.head # None => x.head \in index.live /\ KeyKept(x, payload)
         /\ A!Record(x) = record
<1>1. /\ x.loaded = TRUE /\ x.factory = TRUE /\ x.head = record.head
      /\ x.key = (IF record.head = None THEN None ELSE payload[record.head].key)
      /\ x.configuration = record.configuration /\ x.recipe = record.recipe
  BY DEF A!RebuiltContext
<1>2. record.head # None => record.head \in index.live
  BY DEF A!Opens
<1>3. A!Record(x) = record
  BY <1>1 DEF A!Record, ActivationRecord
<1> QED
  BY <1>1, <1>2, <1>3 DEF KeyKept

\* session.undo and session.redo
LEMMA MoveKeeps ==
  ASSUME AncestrySound, AncestryInd, NEW c \in AncestryCtx, NEW steps \in 1..2, NEW redo \in BOOLEAN,
         A!Move(c, steps, redo)
  PROVE  AncestryInd' /\ index' # index
<1>1. PICK idx : idx = A!Walked(c, steps, redo)
  OBVIOUS
<1>2. PICK record : record = idx.states[idx.cursor[c]].context
  OBVIOUS
<1>3. PICK s : s = A!Rebuilt(durable, c, record)
  OBVIOUS
<1>4. PICK t : t = [s EXCEPT !.revision = @ + 1]
  OBVIOUS
<1>5. PICK track \in BOOLEAN : track = FALSE
  OBVIOUS
<1>6. durable.contexts[c].loaded /\ idx # None /\ A!Opens(record) /\ A!CommitAs(t, idx, track)
  BY <1>1, <1>2, <1>3, <1>4, <1>5 DEF A!Move
<1>7. Walking(idx, c)
  BY <1>1, <1>6, WalkedWalks
<1>8. /\ idx \in IndexRecord /\ idx.states = index.states /\ idx.live = index.live
      /\ idx.pins = index.pins /\ OnPath(idx, c)
      /\ \A d \in AncestryCtx \ {c} : idx.cursor[d] = index.cursor[d] /\ idx.redo[d] = index.redo[d]
  BY <1>7 DEF Walking
<1>9. /\ \A i \in DOMAIN index.states :
           index.states[i].context.loaded /\ index.states[i].parent <= Len(index.states)
      /\ \A d \in AncestryCtx : index.cursor[d] <= Len(index.states)
      /\ \A d \in AncestryCtx : durable.contexts[d].loaded =>
           OnPath(index, d) /\ index.states[index.cursor[d]].context = A!Record(durable.contexts[d])
  BY Committed DEF Traced
<1>10. idx.cursor[c] \in DOMAIN index.states /\ idx.cursor[c] <= Len(index.states)
  <2>1. idx.cursor[c] \in DOMAIN idx.states
    BY <1>8, OnState
  <2>2. DOMAIN idx.states = 1..Len(idx.states) /\ Len(idx.states) \in Nat
    BY <1>8, IndexFields
  <2> QED
    BY <1>8, <2>1, <2>2
<1>11. record \in ActivationRecord /\ record.loaded
  BY <1>2, <1>8, <1>9, <1>10, IndexFields
<1>12. PICK x : x = A!RebuiltContext(record)
  OBVIOUS
<1>13. /\ x.loaded = TRUE /\ x.factory = TRUE /\ x.head = record.head
       /\ x.head = None => x.key = None
       /\ x.head # None => x.head \in index.live /\ KeyKept(x, payload)
       /\ A!Record(x) = record
  BY <1>6, <1>11, <1>12, RebuiltHolds
<1>14. Shape(s) /\ s.minted = durable.minted /\ x \in ContextRecord
       /\ s.contexts = [durable.contexts EXCEPT ![c] = x]
  <2>1. record.head # None => record.head \in A!Known
    BY <1>13, Committed
  <2> QED
    BY <1>3, <1>11, <1>12, <2>1, RebuiltShapes
<1>15. durable.contexts \in [AncestryCtx -> ContextRecord] /\ durable.minted \in Nat
  BY Committed
<1>16. s.contexts[c] = x /\ \A d \in AncestryCtx \ {c} : s.contexts[d] = durable.contexts[d]
  BY <1>14, <1>15
<1>17. /\ t \in SessionRecord /\ t.contexts = s.contexts /\ t.objects = s.objects
       /\ t.minted = durable.minted
  <2>1. s \in SessionRecord /\ s.revision \in Nat
    BY <1>14, Fields DEF Shape
  <2>2. PICK revision : revision = s.revision + 1
    OBVIOUS
  <2>3. revision \in Nat /\ t = [s EXCEPT !.revision = revision]
    BY <1>4, <2>1, <2>2
  <2> QED
    BY <1>14, <2>1, <2>3 DEF SessionRecord
<1>18. Shape(t)
  <2>1. A!Heads(t) = A!Heads(s) /\ A!Retained(t) = A!Retained(s)
    BY <1>17 DEF A!Heads, A!Retained
  <2> QED
    BY <1>14, <1>17, <2>1 DEF Shape
<1>19. \A d \in AncestryCtx : Held(t, d)
  <2>1. Held(t, c)
    BY <1>13, <1>16, <1>17 DEF Held
  <2>2. \A d \in AncestryCtx \ {c} : Fits(t, d)
    BY <1>16, <1>17, SettledFits
  <2> QED
    BY <2>1, <2>2 DEF Fits
<1>20. ASSUME NEW d \in AncestryCtx, t.contexts[d].loaded
       PROVE  OnPath(idx, d) /\ idx.states[idx.cursor[d]].context = A!Record(t.contexts[d])
  <2>1. CASE d = c
    BY <1>2, <1>8, <1>13, <1>16, <1>17, <2>1
  <2>2. CASE d # c
    <3>1. t.contexts[d] = durable.contexts[d]
      BY <1>16, <1>17, <2>2
    <3>2. OnPath(index, d) /\ index.states[index.cursor[d]].context = A!Record(t.contexts[d])
      BY <1>9, <1>20, <3>1
    <3>3. index.redo[d] \in Seq(Nat) /\ index.cursor[d] \in Nat
      BY Committed, IndexFields
    <3>4. OnPath(idx, d)
      BY <1>8, <2>2, <3>2, <3>3, PathKept
    <3> QED
      BY <1>8, <2>2, <3>2, <3>4
  <2> QED
    BY <2>1, <2>2
<1>21. Traced(idx, t.contexts)
  <2>1. \A d \in AncestryCtx : idx.cursor[d] <= Len(index.states)
    BY <1>8, <1>9, <1>10
  <2> QED
    BY <1>8, <1>9, <1>20, <2>1, Zenon DEF Traced
<1>22. A!Heads(t) \subseteq index.live \cup (A!Retained(t) \ A!Known)
  BY <1>18, <1>19, HeadsStored
<1>23. PICK tracked : tracked = (IF track THEN A!Extended(t, idx) ELSE idx)
  OBVIOUS
<1>24. tracked = idx
  BY <1>5, <1>23
<1>25. durable.minted <= t.minted
  BY <1>15, <1>17
<1>26. index.pins \subseteq index.live
  BY Committed
<1>27. /\ tracked \in IndexRecord /\ Traced(tracked, t.contexts) /\ tracked.live \subseteq index.live
       /\ tracked.pins \subseteq tracked.live \cup (A!Retained(t) \ A!Known)
       /\ A!Heads(t) \subseteq tracked.live \cup (A!Retained(t) \ A!Known)
  BY <1>8, <1>21, <1>22, <1>24, <1>26
<1> QED
  BY <1>5, <1>6, <1>18, <1>19, <1>23, <1>25, <1>27, CommitKeeps

-----------------------------------------------------------------------------
(* project.open in a new process.                                          *)

\* A context comes back as it was committed.
LEMMA ContextReopens ==
  ASSUME AncestrySound, AncestryInd, NEW c \in AncestryCtx,
         index.contexts[c].loaded => A!Opens(index.contexts[c])
  PROVE  /\ index.contexts[c].loaded => A!RebuiltContext(index.contexts[c]) = durable.contexts[c]
         /\ ~index.contexts[c].loaded => durable.contexts[c] = A!Unloaded
<1>1. PICK x : x = durable.contexts[c]
  OBVIOUS
<1>2. PICK record : record = index.contexts[c]
  OBVIOUS
<1>3. x \in ContextRecord
  <2>1. durable.contexts \in [AncestryCtx -> ContextRecord]
    BY Committed
  <2> QED
    BY <1>1, <2>1
<1>4. /\ record = IF x.loaded THEN A!Record(x) ELSE A!NoRecord
      /\ IF x.loaded THEN x.factory ELSE x = A!Unloaded
      /\ x.head = None => x.key = None
      /\ x.head # None => KeyKept(x, payload)
  BY <1>1, <1>2, Committed DEF Activations, KeptContext
<1>5. CASE x.loaded
  <2>1. /\ record.loaded = TRUE /\ record.head = x.head
        /\ record.configuration = x.configuration /\ record.recipe = x.recipe
    BY <1>4, <1>5 DEF A!Record
  <2>2. PICK key : key = IF record.head = None THEN None ELSE payload[record.head].key
    OBVIOUS
  <2>3. key = x.key
    BY <1>2, <1>4, <2>1, <2>2 DEF A!Opens, KeyKept
  <2>4. A!RebuiltContext(record)
          = [loaded |-> TRUE, factory |-> TRUE, head |-> record.head, key |-> key,
             configuration |-> record.configuration, recipe |-> record.recipe]
    BY <2>2 DEF A!RebuiltContext
  <2>5. A!RebuiltContext(record) = x
    BY <1>3, <1>4, <1>5, <2>1, <2>3, <2>4 DEF ContextRecord
  <2> QED
    BY <1>1, <1>2, <2>1, <2>5
<1>6. CASE ~x.loaded
  <2>1. record.loaded = FALSE /\ x = A!Unloaded
    BY <1>4, <1>6 DEF A!NoRecord
  <2> QED
    BY <1>1, <1>2, <2>1
<1> QED
  BY <1>5, <1>6

\* Live objects are finitely many.
LEMMA LiveFinite ==
  ASSUME AncestrySound, AncestryInd, NEW Whole, Whole \subseteq index.live
  PROVE  IsFiniteSet(Whole)
<1>1. Whole \in SUBSET (1..durable.minted) /\ 1 \in Int /\ durable.minted \in Int
  BY Committed
<1>2. IsFiniteSet(1..durable.minted)
  BY <1>1, FS_Interval
<1> QED
  BY <1>1, <1>2, FS_Subset

\* The head of a context comes back under its number.
LEMMA HeadReopens ==
  ASSUME AncestrySound, AncestryInd, NEW c \in AncestryCtx, index.contexts[c].head \in index.live
  PROVE  /\ A!RebuiltHead(c, index.contexts[c]) \in ObjectRecord
         /\ A!RebuiltHead(c, index.contexts[c]).id = index.contexts[c].head
<1>1. PICK record : record = index.contexts[c]
  OBVIOUS
<1>2. record \in ActivationRecord
  <2>1. index.contexts \in [AncestryCtx -> ActivationRecord]
    BY Committed, IndexFields
  <2> QED
    BY <1>1, <2>1
<1>3. PICK stored : stored = payload[record.head]
  OBVIOUS
<1>4. stored \in ObjectRecord /\ stored.id = record.head
  BY <1>1, <1>3, Committed
<1>5. A!RebuiltHead(c, record) = [stored EXCEPT !.context = c, !.configuration = record.configuration,
                                              !.recipe = record.recipe]
  BY <1>3 DEF A!RebuiltHead
<1>6. A!RebuiltHead(c, record) \in ObjectRecord /\ A!RebuiltHead(c, record).id = record.head
  BY <1>2, <1>4, <1>5 DEF ObjectRecord, ActivationRecord
<1> QED
  BY <1>1, <1>6

\* The objects numbered S in some order.
Listed(f, n, Whole) ==
  /\ n \in Nat /\ f \in [1..n -> ObjectRecord]
  /\ \A i \in 1..n : f[i].id \in Whole
  /\ \A x \in Whole : \E i \in 1..n : f[i].id = x

\* Objects of one list after those of another.
LEMMA Gathered ==
  ASSUME NEW Whole, NEW Other, NEW n, NEW m, NEW front, NEW back, Listed(front, n, Whole), Listed(back, m, Other)
  PROVE  /\ front \o back \in Seq(ObjectRecord)
         /\ \A o \in A!ToSet(front \o back) : o.id \in Whole \cup Other
         /\ \A x \in Whole : \E o \in A!ToSet(front \o back) : o.id = x
<1>0. /\ n \in Nat /\ m \in Nat /\ front \in [1..n -> ObjectRecord] /\ back \in [1..m -> ObjectRecord]
      /\ \A i \in 1..n : front[i].id \in Whole
      /\ \A x \in Whole : \E i \in 1..n : front[i].id = x
      /\ \A i \in 1..m : back[i].id \in Other
  BY DEF Listed
<1>1. front \in Seq(ObjectRecord) /\ Len(front) = n /\ DOMAIN front = 1..n
  BY <1>0, SeqDef, LenProperties
<1>2. PICK objects : objects = front \o back
  OBVIOUS
<1>3. /\ objects \in Seq(ObjectRecord) /\ DOMAIN objects = 1..(n + m)
      /\ \A i \in 1..n : objects[i] = front[i]
      /\ \A i \in 1..m : objects[n + i] = back[i]
  <2>1. /\ front \o back \in Seq(ObjectRecord) /\ DOMAIN (front \o back) = 1..(Len(front) + m)
        /\ \A i \in DOMAIN front : (front \o back)[i] = front[i]
        /\ \A i \in 1..m : (front \o back)[Len(front) + i] = back[i]
    <3>1. PICK v \in Seq(ObjectRecord) : v = front
      BY <1>1
    <3>2. PICK w \in [1..m -> ObjectRecord] : w = back
      BY <1>0
    <3>3. /\ v \o w \in Seq(ObjectRecord) /\ DOMAIN (v \o w) = 1..(Len(v) + m)
          /\ \A i \in DOMAIN v : (v \o w)[i] = v[i]
          /\ \A i \in 1..m : (v \o w)[Len(v) + i] = w[i]
      BY <1>0, <3>1, <3>2, Joined
    <3> QED
      BY <3>1, <3>2, <3>3
  <2> QED
    BY <1>1, <1>2, <2>1
<1>4. ASSUME NEW i \in DOMAIN objects PROVE objects[i].id \in Whole \cup Other
  <2>1. CASE i \in 1..n
    BY <1>0, <1>3, <2>1
  <2>2. CASE i \notin 1..n
    <3>1. PICK k \in 1..m : i = n + k
      <4>1. i - n \in 1..m /\ i = n + (i - n)
        BY <1>0, <1>3, <2>2
      <4> QED
        BY <4>1
    <3> QED
      BY <1>0, <1>3, <3>1
  <2> QED
    BY <2>1, <2>2
<1>5. ASSUME NEW x \in Whole PROVE \E i \in DOMAIN objects : objects[i].id = x
  <2>1. PICK i \in 1..n : front[i].id = x
    BY <1>0
  <2>2. i \in DOMAIN objects /\ objects[i].id = x
    BY <1>0, <1>3, <2>1
  <2> QED
    BY <2>2
<1> QED
  BY <1>2, <1>3, <1>4, <1>5 DEF A!ToSet

\* project.open gives back the contexts, and keeps the invariant.
LEMMA ReopenKeeps ==
  ASSUME AncestrySound, AncestryInd, A!Reopen
  PROVE  AncestryInd' /\ durable'.contexts = durable.contexts
<1>1. /\ \A c \in AncestryCtx : index.contexts[c].loaded => A!Opens(index.contexts[c])
      /\ durable' = A!Reopened /\ index' = index /\ payload' = payload
  BY DEF A!Reopen
<1>2. /\ A!Known \subseteq 1..durable.minted /\ durable.minted \in Nat /\ index.live \subseteq A!Known
      /\ index \in IndexRecord /\ durable.contexts \in [AncestryCtx -> ContextRecord]
      /\ A!Heads(durable) \subseteq index.live /\ Catalogued(durable, payload)
  BY Committed DEF AncestryInd, Consistent
<1>3. PICK loaded : loaded = {c \in AncestryCtx : index.contexts[c].loaded}
  OBVIOUS
<1>4. PICK heads : heads = {index.contexts[c].head : c \in loaded} \ {None}
  OBVIOUS
<1>5. PICK bound : bound = ({index.bindings[n] : n \in AncestryName} \cap index.live) \ heads
  OBVIOUS
<1>6. PICK owner : owner = [id \in heads |-> CHOOSE c \in loaded : index.contexts[c].head = id]
  OBVIOUS
<1>7. PICK headed : headed = A!SetToSeq(heads)
  OBVIOUS
<1>8. PICK named : named = A!SetToSeq(bound)
  OBVIOUS
<1>9. PICK objects :
        objects = [i \in DOMAIN headed |-> A!RebuiltHead(owner[headed[i]], index.contexts[owner[headed[i]]])]
                  \o [i \in DOMAIN named |-> payload[named[i]]]
  OBVIOUS
<1>10. PICK contexts : contexts = [c \in AncestryCtx |-> IF c \in loaded THEN A!RebuiltContext(index.contexts[c])
                                                 ELSE A!Unloaded]
  OBVIOUS
<1>11. A!Reopened = [A!EmptySession EXCEPT
                     !.contexts = contexts, !.objects = objects, !.bindings = index.bindings,
                     !.selected = index.selected, !.pruned = A!Known \ index.live,
                     !.minted = durable.minted]
  <2> DEFINE Owner(id) == CHOOSE c \in loaded : index.contexts[c].head = id
             front == [i \in DOMAIN headed |-> A!RebuiltHead(Owner(headed[i]), index.contexts[Owner(headed[i])])]
             back == [i \in DOMAIN named |-> payload[named[i]]]
  <2>1. A!Reopened = [A!EmptySession EXCEPT
                      !.contexts = contexts, !.objects = front \o back, !.bindings = index.bindings,
                      !.selected = index.selected, !.pruned = A!Known \ index.live,
                      !.minted = durable.minted]
    BY <1>3, <1>4, <1>5, <1>7, <1>8, <1>10 DEF A!Reopened
  <2>2. front = [i \in DOMAIN headed |-> A!RebuiltHead(owner[headed[i]], index.contexts[owner[headed[i]]])]
    <3>1. IsFiniteSet(heads)
      <4>1. heads \subseteq index.live
        BY <1>1, <1>3, <1>4 DEF A!Opens
      <4> QED
        BY <4>1, LiveFinite
    <3>2. PICK n \in Nat : headed \in [1..n -> heads]
      BY <1>7, <3>1, SetOrder
    <3>3. \A i \in DOMAIN headed : Owner(headed[i]) = owner[headed[i]]
      BY <1>6, <3>2
    <3> HIDE DEF Owner
    <3> QED
      BY <3>3
  <2> HIDE DEF front
  <2>3. front \o back = objects
    BY <1>9, <2>2
  <2> QED
    BY <2>1, <2>3
<1>12. contexts = durable.contexts
  <2>1. \A c \in AncestryCtx : contexts[c] = durable.contexts[c]
    BY <1>1, <1>3, <1>10, ContextReopens
  <2> QED
    BY <1>2, <1>10, <2>1
<1>13. /\ objects \in Seq(ObjectRecord)
       /\ \A o \in A!ToSet(objects) : o.id \in index.live
       /\ \A id \in heads : \E o \in A!ToSet(objects) : o.id = id
  <2>1. heads \subseteq index.live /\ bound \subseteq index.live
    BY <1>1, <1>3, <1>4, <1>5 DEF A!Opens
  <2>2. IsFiniteSet(heads) /\ IsFiniteSet(bound)
    BY <2>1, LiveFinite
  <2>3. PICK n \in Nat : headed \in [1..n -> heads] /\ \A x \in heads : \E i \in 1..n : headed[i] = x
    BY <1>7, <2>2, SetOrder
  <2>4. PICK m \in Nat : named \in [1..m -> bound] /\ \A x \in bound : \E i \in 1..m : named[i] = x
    BY <1>8, <2>2, SetOrder
  <2>5. PICK front : front = [i \in 1..n |-> A!RebuiltHead(owner[headed[i]], index.contexts[owner[headed[i]]])]
    OBVIOUS
  <2>6. PICK back : back = [i \in 1..m |-> payload[named[i]]]
    OBVIOUS
  <2>7. objects = front \o back
    BY <1>9, <2>3, <2>4, <2>5, <2>6
  <2>8. \A id \in heads : owner[id] \in AncestryCtx /\ index.contexts[owner[id]].head = id
    BY <1>3, <1>4, <1>6
  <2>9. front \in [1..n -> ObjectRecord] /\ \A i \in 1..n : front[i].id = headed[i]
    <3>1. ASSUME NEW i \in 1..n
          PROVE  /\ A!RebuiltHead(owner[headed[i]], index.contexts[owner[headed[i]]]) \in ObjectRecord
                 /\ A!RebuiltHead(owner[headed[i]], index.contexts[owner[headed[i]]]).id = headed[i]
      <4>1. PICK c \in AncestryCtx : c = owner[headed[i]] /\ index.contexts[c].head = headed[i]
        BY <2>3, <2>8
      <4>2. headed[i] \in index.live
        BY <2>1, <2>3
      <4>3. /\ A!RebuiltHead(c, index.contexts[c]) \in ObjectRecord
            /\ A!RebuiltHead(c, index.contexts[c]).id = headed[i]
        BY <4>1, <4>2, HeadReopens
      <4> QED
        BY <4>1, <4>3
    <3> QED
      BY <2>5, <3>1
  <2>10. back \in [1..m -> ObjectRecord] /\ \A i \in 1..m : back[i].id = named[i]
    <3>1. \A id \in bound : payload[id] \in ObjectRecord /\ payload[id].id = id
      BY <1>2, <2>1, Committed
    <3> QED
      BY <2>4, <2>6, <3>1
  <2>11. /\ front \o back \in Seq(ObjectRecord)
         /\ \A o \in A!ToSet(front \o back) : o.id \in heads \cup bound
         /\ \A x \in heads : \E o \in A!ToSet(front \o back) : o.id = x
    <3>1. Listed(front, n, heads)
      BY <2>3, <2>9 DEF Listed
    <3>2. Listed(back, m, bound)
      BY <2>4, <2>10 DEF Listed
    <3> QED
      BY <3>1, <3>2, Gathered
  <2> QED
    BY <2>1, <2>7, <2>11
<1>14. /\ durable' \in SessionRecord /\ durable'.contexts = durable.contexts
       /\ durable'.objects = objects /\ durable'.minted = durable.minted
  <2>1. PICK pruned : pruned = A!Known \ index.live
    OBVIOUS
  <2>2. pruned \in SUBSET Nat
    <3>1. A!Known \subseteq 1..durable.minted /\ durable.minted \in Nat
      BY <1>2
    <3>2. \A id \in 1..durable.minted : id \in Nat
      BY <3>1
    <3>3. \A id \in A!Known : id \in Nat
      BY <3>1, <3>2, Zenon
    <3> QED
      BY <2>1, <3>3, Zenon
  <2>3. durable' = [contexts |-> durable.contexts, objects |-> objects, bindings |-> index.bindings,
                    pruned |-> pruned, selected |-> index.selected, revision |-> 0,
                    minted |-> durable.minted]
    BY <1>1, <1>11, <1>12, <2>1 DEF A!EmptySession
  <2> QED
    BY <1>2, <1>13, <2>2, <2>3, IndexFields DEF SessionRecord
<1>15. Shape(durable')
  <2>1. \A o \in A!ToSet(durable'.objects) : o.id \in 1..durable'.minted
    BY <1>2, <1>13, <1>14
  <2>2. A!Heads(durable') \subseteq heads
    <3>1. ASSUME NEW c \in AncestryCtx, durable.contexts[c].head # None PROVE durable.contexts[c].head \in heads
      <4>1. durable.contexts[c].loaded
        BY <3>1, Committed DEF KeptContext, A!Unloaded
      <4>2. index.contexts[c] = A!Record(durable.contexts[c])
        BY <4>1, Committed DEF Activations
      <4> QED
        BY <1>3, <1>4, <3>1, <4>1, <4>2 DEF A!Record
    <3> QED
      BY <1>14, <3>1 DEF A!Heads
  <2>3. A!Retained(durable') = {o.id : o \in A!ToSet(objects)}
    BY <1>14, Fields
  <2> QED
    BY <1>13, <1>14, <2>1, <2>2, <2>3 DEF Shape
<1>16. Catalogued(durable', payload)
  BY <1>2, <1>14 DEF Catalogued
<1>17. Consistent(durable', index, payload)
  BY <1>14, <1>15, <1>16 DEF AncestryInd, Consistent
<1> QED
  BY <1>1, <1>14, <1>17 DEF AncestryInd

-----------------------------------------------------------------------------
(* The invariant.                                                          *)

\* The empty experiment.
LEMMA StartKeeps ==
  ASSUME AncestrySound, A!Init
  PROVE  AncestryInd
<1>1. /\ durable = A!EmptySession /\ payload = <<>>
      /\ \E p \in Policies : index = A!EmptyIndex(p)
  BY DEF A!Init
<1>2. PICK policy \in Policies : index = A!EmptyIndex(policy)
  BY <1>1
<1>3. /\ <<>> \in Seq(AncestryUpdate) /\ <<>> \in Seq(ObjectRecord) /\ <<>> \in Seq(StateRecord)
      /\ <<>> \in Seq(Nat) /\ Len(<<>>) = 0 /\ DOMAIN <<>> = {}
  OBVIOUS
<1>4. A!Unloaded \in ContextRecord /\ A!NoRecord \in ActivationRecord
  BY <1>3 DEF A!Unloaded, A!NoRecord, ContextRecord, ActivationRecord
<1>5. /\ durable \in SessionRecord /\ durable.objects = <<>> /\ durable.minted = 0
      /\ durable.contexts = [c \in AncestryCtx |-> A!Unloaded]
  BY <1>1, <1>3, <1>4 DEF A!EmptySession, SessionRecord
<1>6. Shape(durable)
  <2>1. A!Heads(durable) = {}
    BY <1>5 DEF A!Heads, A!Unloaded
  <2>2. A!ToSet(durable.objects) = {}
    BY <1>3, <1>5 DEF A!ToSet
  <2> QED
    BY <1>5, <2>1, <2>2 DEF Shape
<1>7. /\ index \in IndexRecord /\ index.live = {} /\ index.pins = {} /\ index.states = <<>>
      /\ index.contexts = [c \in AncestryCtx |-> A!NoRecord] /\ index.cursor = [c \in AncestryCtx |-> 0]
  BY <1>2, <1>3, <1>4 DEF A!EmptyIndex, IndexRecord
<1>8. Catalogued(durable, payload)
  BY <1>1, <1>3, <1>5 DEF Catalogued
<1>9. \A c \in AncestryCtx : KeptContext(durable.contexts[c], index, payload)
  BY <1>5 DEF KeptContext, A!Unloaded
<1>10. index.contexts = Activations(durable.contexts)
  BY <1>5, <1>7 DEF Activations, A!Unloaded
<1>11. Traced(index, durable.contexts)
  BY <1>3, <1>5, <1>7 DEF Traced, A!Unloaded
<1> QED
  BY <1>1, <1>3, <1>6, <1>7, <1>8, <1>9, <1>10, <1>11 DEF AncestryInd, Consistent

\* Every session operation goes through a commit of what it staged.
LEMMA SessionKeeps ==
  ASSUME AncestrySound, AncestryInd, NEW r, r.ok => Ready(r.s), A!Staged(r)
  PROVE  AncestryInd' /\ index' # index
<1>1. PICK track \in BOOLEAN : track = TRUE
  OBVIOUS
<1>2. PICK t : t = r.s
  OBVIOUS
<1>3. A!CommitAs(t, index, track) /\ Ready(t)
  BY <1>1, <1>2 DEF A!Staged
<1> QED
  BY <1>1, <1>3, StagedKeeps

\* Every step keeps the invariant, and one that commits nothing leaves the contexts.
LEMMA NextKeeps ==
  ASSUME AncestrySound, AncestryInd, [A!Next]_(A!avars)
  PROVE  AncestryInd' /\ (index' = index => durable'.contexts = durable.contexts)
<1>1. ASSUME NEW c \in AncestryCtx, A!Load(c) PROVE AncestryInd' /\ index' # index
  <2>1. PICK r : r = A!LoadContext(durable, c, TRUE, TRUE)
    OBVIOUS
  <2> QED
    BY <1>1, <2>1, LoadReady, SessionKeeps DEF A!Load
<1>2. ASSUME NEW c \in AncestryCtx, A!Use(c) PROVE AncestryInd' /\ index' # index
  <2>1. PICK n : durable.contexts[c].loaded /\ A!Staged(A!UseValue(durable, c, n))
    BY <1>2 DEF A!Use
  <2>2. PICK r : r = A!UseValue(durable, c, n)
    OBVIOUS
  <2> QED
    BY <2>1, <2>2, UseReady, SessionKeeps
<1>3. ASSUME NEW c \in AncestryCtx, NEW u \in AncestryUpdate, A!UpdateSystem(c, u) PROVE AncestryInd' /\ index' # index
  <2>1. PICK r : r = A!UpdateContext(durable, c, u)
    OBVIOUS
  <2> QED
    BY <1>3, <2>1, UpdateReady, SessionKeeps DEF A!UpdateSystem
<1>4. ASSUME NEW c \in AncestryCtx, NEW k \in AncestrySetting, A!Solve(c, k) PROVE AncestryInd' /\ index' # index
  <2>1. durable.contexts[c].head # None
    BY <1>4 DEF A!Solve
  <2>2. durable.contexts[c].loaded
    BY <2>1, Committed DEF KeptContext, A!Unloaded
  <2>3. PICK n \in AncestryName \cup {None} : \E a \in BOOLEAN :
          A!Staged(A!Publish(durable, A!Solved("state", durable.contexts[c].recipe, k), c, n, a, k, 0))
    BY <1>4 DEF A!Solve
  <2>4. PICK a \in BOOLEAN :
          A!Staged(A!Publish(durable, A!Solved("state", durable.contexts[c].recipe, k), c, n, a, k, 0))
    BY <2>3
  <2>5. PICK r : r = A!Publish(durable, A!Solved("state", durable.contexts[c].recipe, k), c, n, a, k, 0)
    OBVIOUS
  <2>6. A!Staged(r)
    BY <2>4, <2>5
  <2>7. r.ok => Ready(r.s)
    BY <2>2, <2>4, <2>5, SolveReady
  <2> QED
    BY <2>6, <2>7, SessionKeeps
<1>5. ASSUME NEW c \in AncestryCtx, NEW id \in A!Retained(durable), A!UseAgain(c, id)
      PROVE  AncestryInd' /\ index' # index
  <2>1. PICK free : free = None
    OBVIOUS
  <2>2. PICK r : r = A!UseReference(durable, id, c, free)
    OBVIOUS
  <2>3. durable.contexts[c].loaded /\ A!Staged(r)
    BY <1>5, <2>1, <2>2 DEF A!UseAgain
  <2> QED
    BY <2>2, <2>3, ReferenceReady, SessionKeeps
<1>6. ASSUME NEW n \in AncestryName, A!ReleaseName(n) PROVE AncestryInd' /\ index' # index
  <2>1. PICK r : r = A!Release(durable, n)
    OBVIOUS
  <2> QED
    BY <1>6, <2>1, ReleaseReady, SessionKeeps DEF A!ReleaseName
<1>7. ASSUME NEW targets, A!Preview(targets) PROVE durable' = durable /\ index' = index /\ payload' = payload
  BY <1>7 DEF A!Preview
<1>8. \/ AncestryInd' /\ index' # index
      \/ durable' = durable /\ index' = index /\ payload' = payload
      \/ A!Reopen
  <2>1. CASE UNCHANGED A!avars
    BY <2>1 DEF A!avars
  <2>2. CASE A!Next
    <3>1. CASE \E c \in AncestryCtx : A!Load(c) \/ A!Use(c)
      BY <1>1, <1>2, <3>1
    <3>2. CASE \E c \in AncestryCtx, u \in AncestryUpdate : A!UpdateSystem(c, u)
      BY <1>3, <3>2
    <3>3. CASE \E c \in AncestryCtx, k \in AncestrySetting : A!Solve(c, k)
      BY <1>4, <3>3
    <3>4. CASE \E c \in AncestryCtx, id \in A!Retained(durable) : A!UseAgain(c, id)
      BY <1>5, <3>4
    <3>5. CASE \E n \in AncestryName : A!ReleaseName(n)
      BY <1>6, <3>5
    <3>6. CASE \E c \in AncestryCtx, steps \in 1..2, redo \in BOOLEAN : A!Move(c, steps, redo)
      BY <3>6, MoveKeeps
    <3>7. CASE \/ \E id \in A!Retained(durable), pin \in BOOLEAN : A!Save(id, pin)
               \/ \E id \in A!Known : A!Pin(id) \/ A!Unpin(id)
      BY <3>7, SaveKeeps, PinKeeps, UnpinKeeps
    <3>8. CASE \/ \E p \in Policies : A!Configure(p)
               \/ \E targets \in SUBSET A!Known : A!Preview(targets)
               \/ A!ApplyPlan
      BY <1>7, <3>8, ConfigureKeeps, ApplyKeeps
    <3>9. CASE \E c \in AncestryCtx, id \in A!Known : A!RestoreExact(id, c) \/ A!RestorePhysical(id, c)
      BY <3>9, RestoreExactKeeps, RestorePhysicalKeeps
    <3> QED
      BY <2>2, <3>1, <3>2, <3>3, <3>4, <3>5, <3>6, <3>7, <3>8, <3>9 DEF A!Next
  <2> QED
    BY <2>1, <2>2
<1>9. CASE AncestryInd' /\ index' # index
  BY <1>9
<1>10. CASE durable' = durable /\ index' = index /\ payload' = payload
  BY <1>10 DEF AncestryInd
<1>11. CASE A!Reopen
  BY <1>11, ReopenKeeps
<1> QED
  BY <1>8, <1>9, <1>10, <1>11

\* What the invariant says to the client.
LEMMA IndSays ==
  ASSUME AncestrySound, AncestryInd
  PROVE  A!RedoIsTheWayBack /\ A!ActiveAvailable
<1>1. /\ A!Heads(durable) \subseteq index.live /\ index.pins \subseteq index.live
      /\ A!Heads(durable) \subseteq A!Retained(durable) /\ Traced(index, durable.contexts)
  BY Committed DEF Shape
<1>2. A!ActiveAvailable
  BY <1>1, HeadsProtected DEF A!ActiveAvailable
<1>3. ASSUME NEW c \in AncestryCtx, durable.contexts[c].loaded
      PROVE  LET path == Append(index.redo[c], index.cursor[c])
             IN /\ index.states[index.cursor[c]].context = A!Record(durable.contexts[c])
                /\ \A i \in DOMAIN index.redo[c] : index.states[path[i]].parent = path[i + 1]
  BY <1>1, <1>3, Zenon DEF Traced, OnPath
<1>4. A!RedoIsTheWayBack
  BY <1>3, Zenon DEF A!RedoIsTheWayBack
<1> QED
  BY <1>2, <1>4

-----------------------------------------------------------------------------
(* Coordinator.                                                            *)

\* A size of the cache is a number, and no client mistakes None for an outcome.
CoordinatorSound == MaxCache \in Nat /\ None \notin C!Terminal

\* What the job of the request being applied looks like until then.
ApplyInv ==
    pc = "apply" =>
        /\ registry[serving.job].status # "unborn"
        /\ IF serving.operation = "submit" THEN jobs[serving.job].status = "unborn"
           ELSE jobs[serving.job].status \notin {"unborn", "released"}

\* A job that could still be started was never started, in memory and after a
\* restart from the registry.
StartInv ==
    \A j \in CoordinatorJob :
        /\ begun[j] <= 1
        /\ registry[j].status = "unborn" => begun[j] = 0
        /\ C!Up /\ registry[j].status = "unborn" => jobs[j].status = "unborn"
        /\ C!Up /\ jobs[j].status \in {"unborn", "queued"} => begun[j] = 0
        /\ C!Up /\ jobs[j].status \notin C!Settled /\ ~jobs[j].worker => begun[j] = 0

\* A completion that was told, or is about to be, stays.
Settles(j, outcome, map) == map[j].status \in {outcome, "released"}
ToldInv ==
    \A j \in CoordinatorJob : told[j] \in C!Terminal =>
        Settles(j, told[j], registry) /\ (C!Up => Settles(j, told[j], jobs))
SeenInv ==
    /\ pc = "run" => serving.seen = None
    /\ pc \in {"apply", "acknowledge", "reply"} /\ serving.seen \in C!Terminal =>
          /\ Settles(serving.job, serving.seen, jobs)
          /\ pc = "reply" => Settles(serving.job, serving.seen, registry)

\* The requests executed are the remembered ones and the one being served.
DoneInv ==
    /\ done \subseteq C!ToSet(cache) \cup (IF pc \in {"apply", "acknowledge"} THEN {serving.id} ELSE {})
    /\ twice = {}

\* A job is started once because what the registry says of it is never behind its start, and a
\* completion stays because what was seen or told is in the registry already.
CoordinatorInv == C!TypeOK /\ ApplyInv /\ StartInv /\ ToldInv /\ SeenInv /\ DoneInv

---------------------------------------------------------------------------
(* What an action does to a job *)

\* The record an action predicts is a job's, and keeps its worker.
LEMMA PredictedType ==
    ASSUME NEW job \in C!JobRecords, NEW op \in C!Operations
    PROVE  C!Predicted(op, job) \in C!JobRecords /\ C!Predicted(op, job).status = C!PredictedStatus(op, job)
                /\ C!Predicted(op, job).worker = job.worker
  <1>1. job.status \in C!Statuses
    BY DEF C!JobRecords
  <1>2. C!PredictedStatus(op, job) \in C!Statuses
    BY <1>1 DEF C!PredictedStatus, C!Statuses, C!Terminal
  <1>3. C!Predicted(op, job).cancelling \in BOOLEAN
    BY Zenon DEF C!Predicted, C!JobRecords
  <1> QED
    BY <1>2, <1>3 DEF C!Predicted, C!JobRecords

\* So is the record an action makes.
LEMMA AppliedType ==
    ASSUME NEW job \in C!JobRecords, NEW op \in C!Operations
    PROVE  C!Applied(op, job) \in C!JobRecords /\ C!Applied(op, job).worker = job.worker
  BY PredictedType DEF C!Applied

\* No action makes a born job unborn, and only a submission makes an unborn one.
LEMMA BornStays ==
    ASSUME NEW job \in C!JobRecords, NEW op \in C!Operations, job.status # "unborn"
    PROVE  C!Predicted(op, job).status # "unborn" /\ C!Applied(op, job).status # "unborn"
  BY PredictedType DEF C!PredictedStatus, C!Applied

\* A completed job is only ever released.
LEMMA OutcomeStays ==
    ASSUME NEW job \in C!JobRecords, NEW op \in C!Operations, job.status \in C!Terminal
    PROVE  /\ op # "submit" => C!Applied(op, job).status \in {job.status, "released"}
           /\ C!Allowed(op, job) => C!Predicted(op, job).status \in {job.status, "released"}
  <1>1. job.status \notin {"unborn", "queued", "running", "pausing", "paused", "released"}
    BY DEF C!Terminal
  <1>2. op \notin {"submit", "resume"} => C!PredictedStatus(op, job) \in {job.status, "released"}
    BY <1>1 DEF C!PredictedStatus
  <1>3. C!Allowed(op, job) => op \notin {"submit", "resume"}
    BY <1>1 DEF C!Allowed
  <1> QED
    BY <1>2, <1>3, PredictedType DEF C!Applied

\* Applying an action seats no worker and revives only jobs without one.
LEMMA AppliedStart ==
    ASSUME NEW job \in C!JobRecords, NEW op \in C!Operations,
           op # "submit", job.status \notin {"unborn", "released"}
    PROVE  /\ C!Applied(op, job).status \notin {"unborn"}
           /\ C!Applied(op, job).status = "queued" => job.status = "queued" \/ (job.status \notin C!Settled /\ ~job.worker)
           /\ C!Applied(op, job).status \notin C!Settled => job.status \notin C!Settled
  <1>1. job.status \in C!Terminal => C!Applied(op, job).status \in C!Settled /\ C!Applied(op, job).status # "queued"
    BY OutcomeStays DEF C!Settled, C!Terminal
  <1>2. CASE job.status \notin C!Terminal
    <2>1. job.status \notin C!Settled
      BY <1>2 DEF C!Settled
    <2>2. C!Applied(op, job).status = C!PredictedStatus(op, job)
      BY <1>2, PredictedType DEF C!Applied
    <2>3. C!PredictedStatus(op, job) = "queued" => job.status = "queued" \/ ~job.worker
      BY DEF C!PredictedStatus
    <2> QED
      BY <2>1, <2>2, <2>3, BornStays
  <1> QED
    BY <1>1, <1>2, BornStays

\* Keeping the newest replies leaves a sequence of request identities.
LEMMA EvictsType ==
    ASSUME CoordinatorSound, NEW c \in Seq(C!Request), NEW r \in C!Request
    PROVE  C!Evicts(Append(c, r)) \in Seq(C!Request)
  <1>1. Append(c, r) \in Seq(C!Request) /\ Append(c, r) # <<>>
    BY AppendProperties
  <1>2. Tail(Append(c, r)) \in Seq(C!Request)
    BY <1>1, HeadTailProperties
  <1> QED
    BY <1>1, <1>2 DEF C!Evicts

\* What was remembered, or just added, is remembered still or may be forgotten.
LEMMA Remembered ==
    ASSUME CoordinatorSound, NEW c \in Seq(C!Request), NEW r \in C!Request
    PROVE  C!ToSet(c) \cup {r} \subseteq C!ToSet(C!Evicts(Append(c, r))) \cup C!Forgettable(Append(c, r))
  <1> DEFINE d == Append(c, r)
  <1>1. d \in Seq(C!Request) /\ Len(d) = Len(c) + 1 /\ Len(c) \in Nat /\ MaxCache \in Nat
    BY AppendProperties DEF CoordinatorSound
  <1>a. d[Len(d)] = r /\ \A i \in 1..Len(c) : d[i] = c[i]
    BY AppendProperties
  <1>b. Len(d) \in 1..Len(d) /\ 1..Len(c) \subseteq 1..Len(d)
    BY <1>1
  <1>2. ASSUME NEW q \in C!ToSet(c) \cup {r}
        PROVE  \E i \in 1..Len(d) : q = d[i]
    <2>1. CASE q = r
      BY <2>1, <1>a, <1>b
    <2>2. CASE q \in C!ToSet(c)
      <3>1. PICK i \in 1..Len(c) : q = c[i]
        BY <2>2 DEF C!ToSet
      <3> QED
        BY <3>1, <1>a, <1>b
    <2> QED
      BY <2>1, <2>2
  <1>3. ASSUME NEW i \in 1..Len(d)
        PROVE  d[i] \in C!ToSet(C!Evicts(d)) \cup C!Forgettable(d)
    <2>1. CASE Len(d) <= MaxCache
      BY <2>1, <1>1 DEF C!Evicts, C!ToSet
    <2>2. CASE Len(d) > MaxCache /\ i = 1
      <3>1. 1 \in 1..Len(d) - MaxCache
        BY <2>2, <1>1
      <3> QED
        BY <3>1, <2>2 DEF C!Forgettable
    <2>3. CASE Len(d) > MaxCache /\ i # 1
      <3>1. i - 1 \in 1..Len(Tail(d)) /\ Tail(d)[i - 1] = d[i]
        BY <2>3, <1>1, HeadTailProperties
      <3>2. Tail(d)[i - 1] \in C!ToSet(Tail(d))
        <4>1. Tail(d) \in Seq(C!Request)
          BY <2>3, <1>1, HeadTailProperties
        <4>2. i - 1 \in DOMAIN Tail(d)
          BY <4>1, <3>1
        <4> QED
          BY <4>2, Zenon DEF C!ToSet
      <3> QED
        BY <3>1, <3>2, <2>3 DEF C!Evicts
    <2> QED
      BY <2>1, <2>2, <2>3, <1>1
  <1> QED
    BY <1>2, <1>3

---------------------------------------------------------------------------
(* The types *)

\* What stopping and restarting make of a job.
LEMMA EndType ==
    ASSUME NEW job \in C!JobRecords
    PROVE  C!Closed(job) \in C!JobRecords /\ C!Recovered(job) \in C!JobRecords
  <1>1. C!Closed(job) \in C!JobRecords
    BY DEF C!Closed, C!JobRecords, C!Statuses, C!Terminal
  <1>2. C!Recovered(job) \in C!JobRecords
    BY DEF C!Recovered, C!JobRecords, C!Statuses, C!Terminal
  <1> QED
    BY <1>1, <1>2

\* The scheduler's steps: a status and a worker of one job, and whether that
\* job is begun.
LEMMA SchedulerStep ==
    ASSUME C!TypeOK, NEW j \in CoordinatorJob, C!Begin(j) \/ C!Park(j) \/ C!Finish(j)
    PROVE  \E from \in SUBSET C!Statuses, to \in C!Statuses, worker \in BOOLEAN :
               /\ C!Sched(j, from, to, worker)
               /\ from \cap C!Settled = {} /\ "unborn" # to /\ "queued" # to
               /\ ~worker => to \in C!Terminal
               /\ \/ from = {"queued"} /\ begun' = [begun EXCEPT ![j] = @ + 1]
                  \/ UNCHANGED begun
  <1>1. CASE C!Begin(j)
    <2>1. {"queued"} \in SUBSET C!Statuses /\ "running" \in C!Statuses /\ {"queued"} \cap C!Settled = {}
      BY DEF C!Statuses, C!Settled, C!Terminal
    <2> QED
      BY <1>1, <2>1 DEF C!Begin
  <1>2. CASE C!Park(j)
    <2>1. {"pausing"} \in SUBSET C!Statuses /\ "paused" \in C!Statuses /\ {"pausing"} \cap C!Settled = {}
      BY DEF C!Statuses, C!Settled, C!Terminal
    <2> QED
      BY <1>2, <2>1 DEF C!Park
  <1>3. CASE C!Finish(j)
    <2> DEFINE from == {"running", "pausing", "paused"}
    <2>1. from \in SUBSET C!Statuses /\ from \cap C!Settled = {}
      BY DEF C!Statuses, C!Settled, C!Terminal
    <2>2. PICK outcome \in C!Terminal : C!Sched(j, from, outcome, FALSE)
      BY <1>3 DEF C!Finish, C!Terminal
    <2>3. outcome \in C!Statuses /\ outcome # "unborn" /\ outcome # "queued"
      BY <2>2 DEF C!Statuses, C!Terminal
    <2> QED
      BY <1>3, <2>1, <2>2, <2>3 DEF C!Finish
  <1> QED
    BY <1>1, <1>2, <1>3

\* Every step keeps the types.
LEMMA TypeStep ==
    ASSUME CoordinatorSound, C!TypeOK, [C!Next]_(C!cvars)
    PROVE  C!TypeOK'
  <1> USE DEF C!TypeOK
  <1>1. ASSUME NEW j \in CoordinatorJob, C!Begin(j) \/ C!Park(j) \/ C!Finish(j)
        PROVE  C!TypeOK'
    <2>1. PICK from \in SUBSET C!Statuses, to \in C!Statuses, worker \in BOOLEAN :
              /\ C!Sched(j, from, to, worker)
              /\ \/ from = {"queued"} /\ begun' = [begun EXCEPT ![j] = @ + 1]
                 \/ UNCHANGED begun
      BY <1>1, SchedulerStep
    <2>2. jobs' \in [CoordinatorJob -> C!JobRecords]
      <3>1. [status |-> to, worker |-> worker, cancelling |-> jobs[j].cancelling] \in C!JobRecords
        BY <2>1 DEF C!JobRecords
      <3> QED
        BY <2>1, <3>1 DEF C!Sched
    <2>3. begun' \in [CoordinatorJob -> Nat]
      BY <2>1
    <2> QED
      BY <2>1, <2>2, <2>3 DEF C!Sched, C!Serving
  <1>2. ASSUME NEW r \in C!Request, NEW op \in C!Operations, NEW j \in CoordinatorJob, C!Send(r, op, j)
        PROVE  C!TypeOK'
    <2>1. serving' \in C!Requests
      BY <1>2 DEF C!Send, C!Requests
    <2> QED
      BY <1>2, <2>1 DEF C!Send, C!Goto, C!Serving
  <1>3. ASSUME C!Publish \/ C!NoRequest \/ C!Rejected
        PROVE  C!TypeOK'
    BY <1>3 DEF C!Publish, C!NoRequest, C!Rejected, C!Goto, C!Serving
  <1>4. ASSUME C!Repeated
        PROVE  C!TypeOK'
    <2>1. serving \in C!Requests
      BY <1>4 DEF C!Repeated, C!Goto, C!Serving
    <2>2. serving' \in C!Requests
      BY <1>4, <2>1 DEF C!Repeated, C!Requests
    <2> QED
      BY <1>4, <2>2 DEF C!Repeated, C!Goto, C!Serving
  <1>5. ASSUME C!Run
        PROVE  C!TypeOK'
    <2>1. serving \in C!Requests /\ jobs[serving.job] \in C!JobRecords
      BY <1>5 DEF C!Run, C!Serving, C!Requests
    <2>2. serving' \in C!Requests
      BY <1>5, <2>1 DEF C!Run, C!Requests, C!JobRecords
    <2>3. registry' \in [CoordinatorJob -> C!JobRecords]
      <3>1. C!Predicted(serving.operation, jobs[serving.job]) \in C!JobRecords
        BY <2>1, PredictedType DEF C!Requests
      <3> QED
        BY <1>5, <3>1 DEF C!Run
    <2> QED
      BY <1>5, <2>2, <2>3 DEF C!Run, C!Serving
  <1>6. ASSUME C!Apply
        PROVE  C!TypeOK'
    <2>1. serving \in C!Requests /\ jobs[serving.job] \in C!JobRecords /\ serving.operation \in C!Operations
      BY <1>6 DEF C!Apply, C!Goto, C!Serving, C!Requests
    <2>2. jobs' \in [CoordinatorJob -> C!JobRecords]
      BY <1>6, <2>1, AppliedType DEF C!Apply
    <2> QED
      BY <1>6, <2>1, <2>2 DEF C!Apply, C!Goto, C!Serving
  <1>7. ASSUME C!Acknowledge
        PROVE  C!TypeOK'
    <2>1. serving \in C!Requests /\ serving.id \in C!Request
      BY <1>7 DEF C!Acknowledge, C!Goto, C!Serving, C!Requests
    <2>2. cache' \in Seq(C!Request)
      BY <1>7, <2>1, EvictsType DEF C!Acknowledge
    <2> QED
      BY <1>7, <2>1, <2>2 DEF C!Acknowledge, C!Goto, C!Serving
  <1>8. ASSUME C!Reply \/ C!ReplyLost
        PROVE  C!TypeOK'
    <2>1. serving \in C!Requests
      BY <1>8 DEF C!Reply, C!ReplyLost, C!Goto, C!Serving
    <2>2. told' \in [CoordinatorJob -> C!Statuses \cup {None}]
      BY <1>8, <2>1 DEF C!Reply, C!ReplyLost, C!Requests
    <2> QED
      BY <1>8, <2>2 DEF C!Reply, C!ReplyLost, C!Goto, C!Serving
  <1>9. ASSUME C!Shutdown
        PROVE  C!TypeOK'
    <2>1. jobs' \in [CoordinatorJob -> C!JobRecords] /\ registry' \in [CoordinatorJob -> C!JobRecords]
      BY <1>9, EndType DEF C!Shutdown
    <2> QED
      BY <1>9, <2>1 DEF C!Shutdown, C!Goto, C!Forget, C!Serving
  <1>10. ASSUME C!Crash
         PROVE  C!TypeOK'
    BY <1>10 DEF C!Crash, C!Forget, C!Serving
  <1>11. ASSUME C!Restart
         PROVE  C!TypeOK'
    <2>1. jobs' \in [CoordinatorJob -> C!JobRecords] /\ registry' \in [CoordinatorJob -> C!JobRecords]
      BY <1>11, EndType DEF C!Restart
    <2> QED
      BY <1>11, <2>1 DEF C!Restart, C!Goto, C!Serving
  <1>12. ASSUME UNCHANGED C!cvars
         PROVE  C!TypeOK'
    BY <1>12 DEF C!cvars, C!Serving
  <1> QED
    BY <1>1, <1>2, <1>3, <1>4, <1>5, <1>6, <1>7, <1>8, <1>9, <1>10, <1>11, <1>12 DEF C!Next

---------------------------------------------------------------------------
(* No job starts twice *)

\* The initial states satisfy the invariant.
LEMMA InitInv ==
    ASSUME CoordinatorSound, C!Init
    PROVE  CoordinatorInv
  <1>1. C!NewJob \in C!JobRecords
    BY DEF C!NewJob, C!JobRecords, C!Statuses
  <1>2. C!TypeOK
    BY <1>1 DEF C!Init, C!TypeOK, C!Serving
  <1>3. ApplyInv /\ SeenInv
    BY DEF C!Init, ApplyInv, SeenInv
  <1>4. StartInv
    BY DEF C!Init, StartInv, C!NewJob, C!Settled, C!Terminal
  <1>5. ToldInv
    BY DEF C!Init, ToldInv, CoordinatorSound
  <1>6. DoneInv
    BY DEF C!Init, DoneInv
  <1> QED
    BY <1>2, <1>3, <1>4, <1>5, <1>6 DEF CoordinatorInv

\* Every step keeps ApplyInv: the job of a request only moves on.
LEMMA ApplyStep ==
    ASSUME CoordinatorSound, CoordinatorInv, [C!Next]_(C!cvars)
    PROVE  ApplyInv'
  <1> USE DEF CoordinatorInv, C!TypeOK, ApplyInv
  <1>1. ASSUME NEW j \in CoordinatorJob, C!Begin(j) \/ C!Park(j) \/ C!Finish(j)
        PROVE  ApplyInv'
    <2>1. PICK from \in SUBSET C!Statuses, to \in C!Statuses, worker \in BOOLEAN :
              /\ C!Sched(j, from, to, worker)
              /\ from \cap C!Settled = {} /\ "unborn" # to
              /\ ~worker => to \in C!Terminal
      BY <1>1, SchedulerStep
    <2>2. to # "released"
      BY <1>1, <2>1 DEF C!Begin, C!Park, C!Finish, C!Sched
    <2> QED
      BY <2>1, <2>2 DEF C!Sched, C!Settled, C!Serving, C!Requests
  <1>2. ASSUME C!Run
        PROVE  ApplyInv'
    <2>1. CASE pc' = "acknowledge"
      BY <2>1
    <2>2. CASE pc' = "apply"
      <3> DEFINE op == serving.operation
                 job == jobs[serving.job]
      <3>1. serving \in C!Requests /\ serving.job \in CoordinatorJob /\ op \in C!Operations /\ job \in C!JobRecords
        BY <1>2 DEF C!Run, C!Serving, C!Requests
      <3>2. C!Allowed(op, job) /\ serving'.job = serving.job /\ serving'.operation = op /\ jobs' = jobs
        BY <1>2, <2>2, <3>1 DEF C!Run, C!Requests
      <3>3. IF op = "submit" THEN job.status = "unborn" ELSE job.status \notin {"unborn", "released"}
        BY <3>2 DEF C!Allowed, C!Terminal
      <3>4. registry'[serving.job].status # "unborn"
        <4>1. CASE op = "status"
          BY <4>1, <1>2, <2>2, <3>1, <3>3 DEF C!Run, StartInv, C!Up
        <4>2. CASE op # "status"
          <5>1. registry'[serving.job] = C!Predicted(op, job)
            BY <4>2, <1>2, <2>2, <3>1 DEF C!Run
          <5>2. C!Predicted(op, job).status # "unborn"
            <6>1. CASE op = "submit"
              BY <6>1, <3>1, PredictedType DEF C!PredictedStatus
            <6>2. CASE op # "submit"
              BY <6>2, <3>1, <3>3, BornStays
            <6> QED
              BY <6>1, <6>2
          <5> QED
            BY <5>1, <5>2
        <4> QED
          BY <4>1, <4>2
      <3> QED
        BY <3>2, <3>3, <3>4
    <2> QED
      BY <1>2, <2>1, <2>2 DEF C!Run
  <1>3. ASSUME \/ \E r \in C!Request, op \in C!Operations, j \in CoordinatorJob : C!Send(r, op, j)
               \/ C!Publish \/ C!NoRequest \/ C!Repeated \/ C!Rejected
        PROVE  ApplyInv'
    BY <1>3 DEF C!Send, C!Publish, C!NoRequest, C!Repeated, C!Rejected, C!Goto
  <1>4. ASSUME C!Apply \/ C!Acknowledge \/ C!Reply \/ C!ReplyLost \/ C!Shutdown \/ C!Crash \/ C!Restart
        PROVE  ApplyInv'
    BY <1>4 DEF C!Apply, C!Acknowledge, C!Reply, C!ReplyLost, C!Shutdown, C!Crash, C!Restart, C!Goto
  <1>5. ASSUME UNCHANGED C!cvars
        PROVE  ApplyInv'
    BY <1>5 DEF C!cvars
  <1> QED
    BY <1>1, <1>2, <1>3, <1>4, <1>5 DEF C!Next

\* Every step keeps StartInv.
LEMMA StartStep ==
    ASSUME CoordinatorSound, CoordinatorInv, [C!Next]_(C!cvars)
    PROVE  StartInv'
  <1> USE DEF CoordinatorInv, C!TypeOK, StartInv, C!Up
  <1>1. ASSUME NEW j \in CoordinatorJob, C!Begin(j) \/ C!Park(j) \/ C!Finish(j)
        PROVE  StartInv'
    <2>1. PICK from \in SUBSET C!Statuses, to \in C!Statuses, worker \in BOOLEAN :
              /\ C!Sched(j, from, to, worker)
              /\ from \cap C!Settled = {} /\ "unborn" # to /\ "queued" # to
              /\ ~worker => to \in C!Terminal
              /\ (from = {"queued"} /\ begun' = [begun EXCEPT ![j] = @ + 1]) \/ UNCHANGED begun
      BY <1>1, SchedulerStep
    <2>2. jobs'[j].status = to /\ jobs'[j].worker = worker /\ UNCHANGED <<pc, registry>>
          /\ \A i \in CoordinatorJob \ {j} : jobs'[i] = jobs[i]
      BY <2>1 DEF C!Sched
    <2>3. registry[j].status # "unborn" /\ pc # "down"
      BY <2>1 DEF C!Sched, C!Settled
    <2>4. begun'[j] <= 1
      BY <2>1 DEF C!Sched
    <2>5. \A i \in CoordinatorJob \ {j} : begun'[i] = begun[i]
      BY <2>1
    <2>6. to \notin C!Settled => worker
      BY <2>1 DEF C!Settled
    <2> QED
      BY <2>1, <2>2, <2>3, <2>4, <2>5, <2>6
  <1>2. ASSUME C!Publish
        PROVE  StartInv'
    BY <1>2 DEF C!Publish, C!Goto
  <1>3. ASSUME C!Run
        PROVE  StartInv'
    <2> DEFINE op == serving.operation
               job == jobs[serving.job]
    <2>1. serving \in C!Requests /\ serving.job \in CoordinatorJob /\ op \in C!Operations /\ job \in C!JobRecords
      BY <1>3 DEF C!Run, C!Serving, C!Requests
    <2>2. UNCHANGED <<jobs, begun>> /\ pc = "run" /\ pc' # "down"
      BY <1>3 DEF C!Run
    <2>3. ASSUME NEW j \in CoordinatorJob, registry'[j].status = "unborn"
          PROVE  jobs[j].status = "unborn"
      <3>1. CASE registry' = registry
        BY <2>3, <3>1, <2>2
      <3>2. CASE C!Allowed(op, job) /\ registry' = [jobs EXCEPT ![serving.job] = C!Predicted(op, job)]
        <4>1. CASE j = serving.job
          BY <4>1, <3>2, <2>1, <2>3, BornStays
        <4>2. CASE j # serving.job
          BY <4>2, <3>2, <2>3
        <4> QED
          BY <4>1, <4>2
      <3> QED
        BY <1>3, <3>1, <3>2 DEF C!Run
    <2> QED
      BY <2>2, <2>3
  <1>4. ASSUME C!Apply
        PROVE  StartInv'
    <2> DEFINE op == serving.operation
               job == jobs[serving.job]
    <2>1. serving \in C!Requests /\ serving.job \in CoordinatorJob /\ op \in C!Operations /\ job \in C!JobRecords
      BY <1>4 DEF C!Apply, C!Goto, C!Serving, C!Requests
    <2>2. jobs'[serving.job] = C!Applied(op, job) /\ UNCHANGED <<registry, begun>>
          /\ pc = "apply" /\ pc' = "acknowledge"
          /\ \A i \in CoordinatorJob \ {serving.job} : jobs'[i] = jobs[i]
      BY <1>4, <2>1 DEF C!Apply, C!Goto
    <2>3. registry[serving.job].status # "unborn"
      BY <2>2 DEF ApplyInv
    <2>4. CASE op = "submit"
      <3>1. job.status = "unborn"
        BY <2>2, <2>4 DEF ApplyInv
      <3>2. begun[serving.job] = 0
        BY <3>1, <2>1, <2>2
      <3> QED
        BY <2>1, <2>2, <2>3, <3>2
    <2>5. CASE op # "submit"
      <3>1. job.status \notin {"unborn", "released"}
        BY <2>2, <2>5 DEF ApplyInv
      <3>2. C!Applied(op, job).worker = job.worker
        BY <2>1, AppliedType
      <3>3. /\ C!Applied(op, job).status # "unborn"
            /\ C!Applied(op, job).status = "queued" => job.status = "queued" \/ (job.status \notin C!Settled /\ ~job.worker)
            /\ C!Applied(op, job).status \notin C!Settled => job.status \notin C!Settled
        BY <2>1, <2>5, <3>1, AppliedStart
      <3>4. \/ job.status = "queued" \/ (job.status \notin C!Settled /\ ~job.worker)
            => begun[serving.job] = 0
        BY <2>1, <2>2
      <3> QED
        BY <2>1, <2>2, <2>3, <3>2, <3>3, <3>4
    <2> QED
      BY <2>4, <2>5
  <1>5. ASSUME C!Acknowledge
        PROVE  StartInv'
    BY <1>5 DEF C!Acknowledge, C!Goto
  <1>6. ASSUME C!Shutdown
        PROVE  StartInv'
    <2>1. ASSUME NEW j \in CoordinatorJob, registry'[j].status = "unborn"
          PROVE  begun[j] = 0
      <3>1. CASE registry' = registry
        BY <2>1, <3>1
      <3>2. CASE registry'[j] = C!Closed(jobs[j])
        BY <1>6, <2>1, <3>2 DEF C!Closed, C!Shutdown, C!Goto
      <3> QED
        BY <1>6, <3>1, <3>2 DEF C!Shutdown
    <2> QED
      BY <1>6, <2>1 DEF C!Shutdown, C!Goto
  <1>7. ASSUME C!Restart
        PROVE  StartInv'
    <2>1. ASSUME NEW j \in CoordinatorJob
          PROVE  /\ jobs'[j].status \in C!Settled
                 /\ registry'[j] = jobs'[j]
                 /\ jobs'[j].status = "unborn" => begun[j] = 0
      <3>1. jobs'[j] = C!Recovered(registry[j]) /\ registry'[j] = jobs'[j] /\ registry[j] \in C!JobRecords
        BY <1>7 DEF C!Restart
      <3>2. C!Recovered(registry[j]).status \in C!Settled
        BY <3>1 DEF C!Recovered, C!Settled, C!Terminal, C!JobRecords
      <3>3. C!Recovered(registry[j]).status = "unborn" => registry[j].status = "unborn"
        BY <3>1 DEF C!Recovered, C!JobRecords
      <3> QED
        BY <3>1, <3>2, <3>3
    <2>2. UNCHANGED begun /\ "queued" \notin C!Settled
      BY <1>7 DEF C!Restart, C!Settled, C!Terminal
    <2> QED
      BY <2>1, <2>2
  <1>8. ASSUME \/ \E r \in C!Request, op \in C!Operations, j \in CoordinatorJob : C!Send(r, op, j)
               \/ C!NoRequest \/ C!Repeated \/ C!Rejected \/ C!Reply \/ C!ReplyLost
        PROVE  StartInv'
    BY <1>8 DEF C!Send, C!NoRequest, C!Repeated, C!Rejected, C!Reply, C!ReplyLost, C!Goto
  <1>9. ASSUME C!Crash \/ UNCHANGED C!cvars
        PROVE  StartInv'
    BY <1>9 DEF C!Crash, C!cvars
  <1> QED
    BY <1>1, <1>2, <1>3, <1>4, <1>5, <1>6, <1>7, <1>8, <1>9 DEF C!Next

---------------------------------------------------------------------------
(* What was told stays *)

\* Between two states of a running coordinator no completed or released job
\* becomes anything but released.
MovesOn(map, next) ==
    \A j \in CoordinatorJob :
        /\ map[j].status \in C!Terminal => next[j].status \in {map[j].status, "released"}
        /\ map[j].status = "released" => next[j].status = "released"

\* What is kept still holds.
LEMMA SettlesOn ==
    ASSUME NEW map, NEW next, NEW j \in CoordinatorJob, NEW outcome \in C!Terminal,
           MovesOn(map, next), Settles(j, outcome, map)
    PROVE  Settles(j, outcome, next)
  BY DEF MovesOn, Settles

\* The statement's view of the jobs keeps what was completed.
LEMMA RunKeeps ==
    ASSUME CoordinatorInv, C!Run
    PROVE  MovesOn(jobs, registry') \/ UNCHANGED registry
  <1> DEFINE op == serving.operation
             job == jobs[serving.job]
  <1>1. serving.job \in CoordinatorJob /\ op \in C!Operations /\ job \in C!JobRecords
    BY DEF CoordinatorInv, C!TypeOK, C!Run, C!Serving, C!Requests
  <1>2. SUFFICES ASSUME C!Allowed(op, job), registry' = [jobs EXCEPT ![serving.job] = C!Predicted(op, job)]
                 PROVE  MovesOn(jobs, registry')
    BY DEF C!Run
  <1>3. job.status \in C!Terminal => registry'[serving.job].status \in {job.status, "released"}
    BY <1>1, <1>2, OutcomeStays DEF CoordinatorInv, C!TypeOK
  <1>4. job.status # "released"
    BY <1>2 DEF C!Allowed, C!Terminal
  <1> QED
    BY <1>1, <1>2, <1>3, <1>4 DEF MovesOn, CoordinatorInv, C!TypeOK

\* So does the action on the jobs.
LEMMA ApplicationKeeps ==
    ASSUME CoordinatorInv, C!Apply
    PROVE  MovesOn(jobs, jobs')
  <1> DEFINE op == serving.operation
             job == jobs[serving.job]
  <1>1. serving.job \in CoordinatorJob /\ op \in C!Operations /\ job \in C!JobRecords /\ pc = "apply"
    BY DEF CoordinatorInv, C!TypeOK, C!Apply, C!Goto, C!Serving, C!Requests
  <1>2. jobs'[serving.job] = C!Applied(op, job) /\ \A i \in CoordinatorJob \ {serving.job} : jobs'[i] = jobs[i]
    BY <1>1 DEF C!Apply, CoordinatorInv, C!TypeOK
  <1>3. job.status # "released" /\ (job.status \in C!Terminal => op # "submit")
    BY <1>1 DEF CoordinatorInv, ApplyInv, C!Terminal
  <1>4. job.status \in C!Terminal => C!Applied(op, job).status \in {job.status, "released"}
    BY <1>1, <1>3, OutcomeStays
  <1> QED
    BY <1>2, <1>3, <1>4 DEF MovesOn

\* So does the scheduler, which only moves jobs that are not settled.
LEMMA SchedulerKeeps ==
    ASSUME C!TypeOK, NEW j \in CoordinatorJob, C!Begin(j) \/ C!Park(j) \/ C!Finish(j)
    PROVE  MovesOn(jobs, jobs') /\ UNCHANGED <<pc, registry, serving, cache, told, done, twice>>
  <1>1. PICK from \in SUBSET C!Statuses, to \in C!Statuses, worker \in BOOLEAN :
            C!Sched(j, from, to, worker) /\ from \cap C!Settled = {}
    BY SchedulerStep
  <1>2. jobs[j].status \notin C!Settled /\ \A i \in CoordinatorJob \ {j} : jobs'[i] = jobs[i]
    BY <1>1 DEF C!Sched, C!TypeOK
  <1> QED
    BY <1>1, <1>2 DEF MovesOn, C!Settled, C!Sched

\* So do an orderly end and a restart.
LEMMA EndKeeps ==
    ASSUME C!TypeOK
    PROVE  /\ C!Shutdown => MovesOn(jobs, jobs') /\ (registry' = jobs' \/ UNCHANGED registry)
           /\ C!Restart => MovesOn(registry, registry') /\ registry' = jobs'
  <1>1. ASSUME C!Shutdown
        PROVE  MovesOn(jobs, jobs')
    BY <1>1 DEF C!Shutdown, C!Closed, C!Settled, MovesOn
  <1>2. ASSUME C!Restart
        PROVE  MovesOn(registry, registry')
    BY <1>2 DEF C!Restart, C!Recovered, C!Settled, MovesOn
  <1> QED
    BY <1>1, <1>2 DEF C!Shutdown, C!Restart

\* Every step keeps ToldInv.
LEMMA ToldStep ==
    ASSUME CoordinatorSound, CoordinatorInv, [C!Next]_(C!cvars)
    PROVE  ToldInv'
  <1> USE DEF CoordinatorInv, ToldInv, C!Up
  <1>1. ASSUME UNCHANGED told,
               MovesOn(registry, registry') \/ (C!Up /\ MovesOn(jobs, registry')),
               pc' # "down" => (MovesOn(jobs, jobs') /\ C!Up) \/ registry' = jobs'
        PROVE  ToldInv'
    <2> SUFFICES ASSUME NEW j \in CoordinatorJob, told[j] \in C!Terminal
                 PROVE  Settles(j, told[j], registry') /\ (pc' # "down" => Settles(j, told[j], jobs'))
      BY <1>1 DEF Settles
    <2>1. Settles(j, told[j], registry')
      BY <1>1, SettlesOn
    <2>2. pc' # "down" => Settles(j, told[j], jobs')
      BY <1>1, <2>1, SettlesOn
    <2> QED
      BY <2>1, <2>2
  <1>2. MovesOn(jobs, jobs) /\ MovesOn(registry, registry)
    BY DEF MovesOn
  <1>3. ASSUME NEW j \in CoordinatorJob, C!Begin(j) \/ C!Park(j) \/ C!Finish(j)
        PROVE  ToldInv'
    <2>1. C!Up
      BY <1>3 DEF C!Begin, C!Park, C!Finish, C!Sched
    <2> QED
      BY <1>1, <1>2, <1>3, <2>1, SchedulerKeeps
  <1>4. ASSUME \/ \E r \in C!Request, op \in C!Operations, j \in CoordinatorJob : C!Send(r, op, j)
               \/ C!Publish \/ C!NoRequest \/ C!Repeated \/ C!Rejected \/ C!Acknowledge \/ C!ReplyLost
        PROVE  ToldInv'
    <2>1. UNCHANGED <<jobs, told>> /\ (registry' = registry \/ registry' = jobs) /\ C!Up
      BY <1>4 DEF C!Send, C!Publish, C!NoRequest, C!Repeated, C!Rejected, C!Acknowledge, C!ReplyLost, C!Goto
    <2> QED
      BY <1>1, <1>2, <2>1
  <1>5. ASSUME C!Run
        PROVE  ToldInv'
    <2>1. UNCHANGED <<jobs, told>> /\ C!Up
      BY <1>5 DEF C!Run
    <2> QED
      BY <1>1, <1>2, <1>5, <2>1, RunKeeps
  <1>6. ASSUME C!Apply
        PROVE  ToldInv'
    <2>1. UNCHANGED <<registry, told>> /\ C!Up
      BY <1>6 DEF C!Apply, C!Goto
    <2> QED
      BY <1>1, <1>2, <1>6, <2>1, ApplicationKeeps
  <1>7. ASSUME C!Reply
        PROVE  ToldInv'
    <2>1. UNCHANGED <<jobs, registry>> /\ pc = "reply" /\ serving \in C!Requests /\ told \in [CoordinatorJob -> C!Statuses \cup {None}]
      BY <1>7 DEF C!Reply, C!Goto, C!TypeOK, C!Serving
    <2>2. \A j \in CoordinatorJob : told'[j] = told[j] \/ (j = serving.job /\ told'[j] = serving.seen)
      BY <1>7, <2>1 DEF C!Reply
    <2>3. serving.seen \in C!Terminal => Settles(serving.job, serving.seen, jobs) /\ Settles(serving.job, serving.seen, registry)
      BY <2>1 DEF SeenInv
    <2> QED
      BY <2>1, <2>2, <2>3 DEF Settles
  <1>8. ASSUME C!Shutdown
        PROVE  ToldInv'
    <2>1. UNCHANGED told /\ C!Up /\ pc' = "down"
      BY <1>8 DEF C!Shutdown, C!Goto
    <2> QED
      BY <1>1, <1>2, <1>8, <2>1, EndKeeps
  <1>9. ASSUME C!Crash
        PROVE  ToldInv'
    <2>1. UNCHANGED <<told, registry>> /\ pc' = "down"
      BY <1>9 DEF C!Crash
    <2> QED
      BY <1>1, <1>2, <2>1
  <1>10. ASSUME C!Restart
         PROVE  ToldInv'
    <2>1. UNCHANGED told
      BY <1>10 DEF C!Restart
    <2> QED
      BY <1>1, <1>10, <2>1, EndKeeps
  <1>11. ASSUME UNCHANGED C!cvars
         PROVE  ToldInv'
    <2>1. UNCHANGED <<pc, jobs, registry, told>>
      BY <1>11 DEF C!cvars
    <2> QED
      BY <1>1, <1>2, <2>1
  <1> QED
    BY <1>3, <1>4, <1>5, <1>6, <1>7, <1>8, <1>9, <1>10, <1>11 DEF C!Next

\* Every step keeps SeenInv: what the statement saw stays until it is told.
LEMMA SeenStep ==
    ASSUME CoordinatorSound, CoordinatorInv, [C!Next]_(C!cvars)
    PROVE  SeenInv'
  <1> USE DEF CoordinatorInv, SeenInv
  <1>1. ASSUME NEW j \in CoordinatorJob, C!Begin(j) \/ C!Park(j) \/ C!Finish(j)
        PROVE  SeenInv'
    <2>1. MovesOn(jobs, jobs') /\ UNCHANGED <<pc, registry, serving>>
      BY <1>1, SchedulerKeeps
    <2>2. ASSUME pc \in {"apply", "acknowledge", "reply"}
          PROVE  serving.job \in CoordinatorJob
      BY <2>2 DEF C!TypeOK, C!Serving, C!Requests
    <2> QED
      BY <2>1, <2>2, SettlesOn DEF Settles
  <1>2. ASSUME NEW r \in C!Request, NEW op \in C!Operations, NEW j \in CoordinatorJob, C!Send(r, op, j)
        PROVE  SeenInv'
    BY <1>2 DEF C!Send, C!Goto
  <1>3. ASSUME C!Repeated
        PROVE  SeenInv'
    <2>1. serving \in C!Requests /\ serving.seen = None /\ pc' = "reply"
      BY <1>3 DEF C!Repeated, C!Goto, C!TypeOK, C!Serving
    <2>2. serving'.seen = None
      BY <1>3, <2>1 DEF C!Repeated, C!Requests
    <2> QED
      BY <2>1, <2>2 DEF CoordinatorSound
  <1>4. ASSUME C!Run
        PROVE  SeenInv'
    <2>1. serving \in C!Requests /\ serving.seen = None /\ pc' \in {"apply", "acknowledge"} /\ UNCHANGED jobs
      BY <1>4 DEF C!Run, C!TypeOK, C!Serving
    <2>2. serving'.job = serving.job /\ serving'.seen \in {None, jobs[serving.job].status}
      BY <1>4, <2>1 DEF C!Run, C!Requests
    <2> QED
      BY <2>1, <2>2 DEF CoordinatorSound, Settles
  <1>5. ASSUME C!Apply
        PROVE  SeenInv'
    <2>1. pc = "apply" /\ pc' = "acknowledge" /\ UNCHANGED serving /\ serving.job \in CoordinatorJob
      BY <1>5 DEF C!Apply, C!Goto, C!TypeOK, C!Serving, C!Requests
    <2> QED
      BY <1>5, <2>1, ApplicationKeeps, SettlesOn DEF Settles
  <1>6. ASSUME C!Acknowledge
        PROVE  SeenInv'
    BY <1>6 DEF C!Acknowledge, C!Goto, Settles
  <1>7. ASSUME C!Publish \/ C!NoRequest \/ C!Rejected \/ C!Reply \/ C!ReplyLost \/ C!Shutdown \/ C!Crash \/ C!Restart
        PROVE  SeenInv'
    BY <1>7 DEF C!Publish, C!NoRequest, C!Rejected, C!Reply, C!ReplyLost, C!Shutdown, C!Crash, C!Restart, C!Goto
  <1>8. ASSUME UNCHANGED C!cvars
        PROVE  SeenInv'
    BY <1>8 DEF C!cvars, Settles
  <1> QED
    BY <1>1, <1>2, <1>3, <1>4, <1>5, <1>6, <1>7, <1>8 DEF C!Next

---------------------------------------------------------------------------
(* A remembered request is not run again *)

\* Every step keeps DoneInv.
LEMMA DoneStep ==
    ASSUME CoordinatorSound, CoordinatorInv, [C!Next]_(C!cvars)
    PROVE  DoneInv'
  <1> USE DEF CoordinatorInv, DoneInv
  <1>1. ASSUME UNCHANGED <<cache, done, twice>>,
               pc' \notin {"apply", "acknowledge"} => pc \notin {"apply", "acknowledge"},
               pc' \in {"apply", "acknowledge"} => pc \in {"apply", "acknowledge"} /\ UNCHANGED serving
        PROVE  DoneInv'
    BY <1>1
  <1>2. ASSUME NEW j \in CoordinatorJob, C!Begin(j) \/ C!Park(j) \/ C!Finish(j)
        PROVE  DoneInv'
    BY <1>1, <1>2, SchedulerKeeps
  <1>3. ASSUME \/ \E r \in C!Request, op \in C!Operations, j \in CoordinatorJob : C!Send(r, op, j)
               \/ C!Publish \/ C!NoRequest \/ C!Repeated \/ C!Rejected \/ C!Apply \/ C!Reply \/ C!ReplyLost \/ C!Restart
        PROVE  DoneInv'
    BY <1>1, <1>3 DEF C!Send, C!Publish, C!NoRequest, C!Repeated, C!Rejected, C!Apply, C!Reply, C!ReplyLost, C!Restart, C!Goto
  <1>4. ASSUME C!Run
        PROVE  DoneInv'
    <2>1. /\ pc = "run" /\ pc' \in {"apply", "acknowledge"} /\ UNCHANGED cache
          /\ serving.id \notin C!ToSet(cache)
          /\ done' = done \cup {serving.id} /\ twice' = twice \cup (done \cap {serving.id})
      BY <1>4 DEF C!Run
    <2>2. serving'.id = serving.id
      BY <1>4, <2>1 DEF C!Run, C!TypeOK, C!Serving, C!Requests
    <2>3. serving.id \notin done
      BY <2>1
    <2> QED
      BY <2>1, <2>2, <2>3
  <1>5. ASSUME C!Acknowledge
        PROVE  DoneInv'
    <2>1. pc = "acknowledge" /\ serving.id \in C!Request /\ cache \in Seq(C!Request)
          /\ pc' \notin {"apply", "acknowledge"} /\ UNCHANGED twice
      BY <1>5 DEF C!Acknowledge, C!Goto, C!TypeOK, C!Serving, C!Requests
    <2>2. CASE /\ cache' = C!Evicts(Append(cache, serving.id))
               /\ done' = done \ C!Forgettable(Append(cache, serving.id))
      BY <2>1, <2>2, Remembered
    <2>3. CASE UNCHANGED cache /\ done' = done \ {serving.id}
      BY <2>1, <2>3
    <2> QED
      BY <1>5, <2>2, <2>3 DEF C!Acknowledge
  <1>6. ASSUME C!Shutdown \/ C!Crash
        PROVE  DoneInv'
    BY <1>6 DEF C!Shutdown, C!Crash, C!Forget, C!Goto
  <1>7. ASSUME UNCHANGED C!cvars
        PROVE  DoneInv'
    BY <1>1, <1>7 DEF C!cvars
  <1> QED
    BY <1>2, <1>3, <1>4, <1>5, <1>6, <1>7 DEF C!Next

---------------------------------------------------------------------------
(* The theorems *)

\* The invariant is inductive.
THEOREM CoordinatorInvariant ==
    ASSUME CoordinatorSound
    PROVE  C!CoordinatorSpec => []CoordinatorInv
  <1>1. C!Init => CoordinatorInv
    BY InitInv
  <1>2. CoordinatorInv /\ [C!Next]_(C!cvars) => CoordinatorInv'
    BY TypeStep, ApplyStep, StartStep, ToldStep, SeenStep, DoneStep DEF CoordinatorInv
  <1> QED
    BY <1>1, <1>2, PTL DEF C!CoordinatorSpec

\* The loop and the scheduler keep the types of what they share.
THEOREM CoordinatorTypes ==
    ASSUME CoordinatorSound
    PROVE  C!CoordinatorSpec => []C!TypeOK
  <1>1. CoordinatorInv => C!TypeOK
    BY DEF CoordinatorInv
  <1> QED
    BY <1>1, CoordinatorInvariant, PTL

\* The completion a client was told survives every crash, restart, failed
\* publication and lost reply (coordinator.serve, durable.recover).
THEOREM ToldDurable ==
    ASSUME CoordinatorSound
    PROVE  C!CoordinatorSpec => []C!ToldIsDurable
  <1>1. CoordinatorInv => C!ToldIsDurable
    BY DEF CoordinatorInv, ToldInv, C!ToldIsDurable, Settles
  <1> QED
    BY <1>1, CoordinatorInvariant, PTL

\* No job is given to a worker twice, and no request the coordinator remembers
\* runs twice (durable._snapshot, coordinator.serve).
THEOREM HappensOnce ==
    ASSUME CoordinatorSound
    PROVE  C!CoordinatorSpec => []C!NothingTwice
  <1>1. CoordinatorInv => C!NothingTwice
    BY DEF CoordinatorInv, StartInv, DoneInv, C!NothingTwice, C!StartedOnce, C!DuplicatesSuppressed
  <1> QED
    BY <1>1, CoordinatorInvariant, PTL

-----------------------------------------------------------------------------
(* The parts of the frontend.                                              *)

\* None is none of the values it stands beside, and the cache has a size.
Apart == None \notin Nat \cup {c1, k1, k2, e1, e2} /\ CoordinatorSound

\* The part is chosen once; a step is one of its part.
LEMMA PartStep ==
  /\ [Next]_vars => part' = part
  /\ part = "session" /\ [Next]_vars => [S!Next]_(S!svars)
  /\ part = "ancestry" /\ [Next]_vars => [A!Next]_(A!avars)
  /\ part = "recorder" /\ [Next]_vars => [R!Next]_(R!rvars)
  /\ part = "coordinator" /\ [Next]_vars => [C!Next]_(C!cvars)
  BY DEF Next, vars, SessionStep, AncestryStep, RecorderStep, CoordinatorStep, StatementStep,
         InputStep, sessionVars, ancestryVars, recorderVars, coordinatorVars,
         S!svars, A!avars, R!rvars, C!cvars

\* A behaviour of the part session is one of Session, and the others are of another part.
LEMMA SessionPart ==
  Spec => (S!SessionSpec \/ []~(part = "session"))
<1> DEFINE P == part = "session"
<1>1. Init /\ P => S!Init
  BY DEF Init
<1>2. P /\ [Next]_vars => P' /\ [S!Next]_(S!svars)
  BY PartStep
<1>3. ~P /\ [Next]_vars => (~P)'
  BY PartStep
<1> QED
  BY <1>1, <1>2, <1>3, PTL DEF Spec, S!SessionSpec

\* A behaviour of the part ancestry is one of Ancestry, and the others are of another part.
LEMMA AncestryPart ==
  Spec => (A!AncestrySpec \/ []~(part = "ancestry"))
<1> DEFINE P == part = "ancestry"
<1>1. Init /\ P => A!Init
  BY DEF Init
<1>2. P /\ [Next]_vars => P' /\ [A!Next]_(A!avars)
  BY PartStep
<1>3. ~P /\ [Next]_vars => (~P)'
  BY PartStep
<1> QED
  BY <1>1, <1>2, <1>3, PTL DEF Spec, A!AncestrySpec

\* A behaviour of the part recorder is one of Recorder, and the others are of another part.
LEMMA RecorderPart ==
  Spec => (R!RecorderSpec \/ []~(part = "recorder"))
<1> DEFINE P == part = "recorder"
<1>1. Init /\ P => R!Init
  BY DEF Init
<1>2. P /\ [Next]_vars => P' /\ [R!Next]_(R!rvars)
  BY PartStep
<1>3. ~P /\ [Next]_vars => (~P)'
  BY PartStep
<1> QED
  BY <1>1, <1>2, <1>3, PTL DEF Spec, R!RecorderSpec

\* A behaviour of the part coordinator is one of Coordinator, and the others are of another
\* part.
LEMMA CoordinatorPart ==
  Spec => (C!CoordinatorSpec \/ []~(part = "coordinator"))
<1> DEFINE P == part = "coordinator"
<1>1. Init /\ P => C!Init
  BY DEF Init
<1>2. P /\ [Next]_vars => P' /\ [C!Next]_(C!cvars)
  BY PartStep
<1>3. ~P /\ [Next]_vars => (~P)'
  BY PartStep
<1> QED
  BY <1>1, <1>2, <1>3, PTL DEF Spec, C!CoordinatorSpec

\* The instances satisfy the assumptions of the proofs about the parts.
LEMMA PartsSound ==
  ASSUME Apart
  PROVE  S!Sound /\ R!Sound
<1>1. Size \in [S!Kind -> Nat]
  BY DEF Size, S!Kind
<1>2. IsFiniteSet({c1})
  BY FS_Singleton
<1>3. S!Sound
  BY <1>1, <1>2 DEF Apart, S!Sound, S!IsFiniteSet, IsFiniteSet
<1>4. R!Sound
  BY DEF Apart, R!Sound
<1> QED
  BY <1>3, <1>4

-----------------------------------------------------------------------------
\* Nothing that a name or a head of the foreground session refers to is evicted, and the
\* limits bound what is retained (session.py:271, :274).
THEOREM FrontendRetention ==
  ASSUME Apart
  PROVE  Spec => []RetentionSafe
<1>1. S!SessionSpec => [](S!ProtectedKept /\ S!RetentionBounded)
  BY PartsSound, S!RetentionKept
<1>2. S!ProtectedKept /\ S!RetentionBounded => RetentionSafe
  BY DEF RetentionSafe
<1>3. ~(part = "session") => RetentionSafe
  BY DEF RetentionSafe
<1> QED
  BY <1>1, <1>2, <1>3, SessionPart, PTL

\* Method memory is continued only where it was made (session.py:399, service.py:333).
THEOREM FrontendResumes ==
  ASSUME Apart
  PROVE  Spec => []ResumesOwnMemory
<1>1. S!SessionSpec => []S!ResumesOwnMemory
  BY PartsSound, S!ResumesOwn
<1>2. S!ResumesOwnMemory => ResumesOwnMemory
  BY DEF ResumesOwnMemory
<1>3. ~(part = "session") => ResumesOwnMemory
  BY DEF ResumesOwnMemory
<1> QED
  BY <1>1, <1>2, <1>3, SessionPart, PTL

\* A tool publishes only against the head and the recipe that it read (session.py:256, :288).
THEOREM FrontendCommits ==
  ASSUME Apart
  PROVE  Spec => CommitsWhatItRead
<1> DEFINE P == part = "session"
           Action == (call.kind = "tool" /\ call' = S!Idle /\ session' # session) =>
                        /\ session.contexts[call.context].head = call.read
                        /\ session.contexts[call.context].recipe = call.recipe
<1>1. S!SessionSpec => S!CommitsWhatItRead
  BY PartsSound, S!CommitsRead
<1>2. ~P /\ [Next]_vars => [Action]_(S!svars)
  BY DEF Next, vars, SessionStep, AncestryStep, RecorderStep, CoordinatorStep, StatementStep,
         InputStep, sessionVars, S!svars
<1> QED
  BY <1>1, <1>2, SessionPart, PTL DEF Spec, CommitsWhatItRead, S!CommitsWhatItRead

\* In every behaviour of Ancestry the committed index describes the session in memory, its heads
\* are stored under the keys the contexts have, and each context is where its cursor says.
THEOREM AncestryInvariant ==
  ASSUME AncestrySound
  PROVE  A!AncestrySpec => []AncestryInd
<1>1. A!Init => AncestryInd
  BY StartKeeps
<1>2. AncestryInd /\ [A!Next]_(A!avars) => AncestryInd'
  BY NextKeeps
<1> QED
  BY <1>1, <1>2, PTL DEF A!AncestrySpec

\* Redo returns to what was active before an undo: the cursor is the state a context is in, and
\* its redo path leads back down, each entry the child of the one before (controller.py:146, :474).
THEOREM FrontendRedo ==
  ASSUME AncestrySound
  PROVE  Spec => []RedoIsTheWayBack
<1>1. A!AncestrySpec => []AncestryInd
  BY AncestryInvariant
<1>2. AncestryInd => RedoIsTheWayBack
  BY IndSays DEF RedoIsTheWayBack
<1>3. ~(part = "ancestry") => RedoIsTheWayBack
  BY DEF RedoIsTheWayBack
<1> QED
  BY <1>1, <1>2, <1>3, AncestryPart, PTL

\* No pruning, cleanup, undo or reopening takes away the payload of a head or a pin, in the
\* index or in memory (controller.py:258, PERSISTENCE.md:151).
THEOREM FrontendActive ==
  ASSUME AncestrySound
  PROVE  Spec => []ActiveAvailable
<1>1. A!AncestrySpec => []AncestryInd
  BY AncestryInvariant
<1>2. AncestryInd => ActiveAvailable
  BY IndSays DEF ActiveAvailable
<1>3. ~(part = "ancestry") => ActiveAvailable
  BY DEF ActiveAvailable
<1> QED
  BY <1>1, <1>2, <1>3, AncestryPart, PTL

\* An experiment that is opened again has the contexts it was closed with (controller.py:258).
THEOREM FrontendReopen ==
  ASSUME AncestrySound
  PROVE  Spec => ReopenGivesBack
<1> DEFINE P == part = "ancestry"
           Action == (durable' # durable /\ index' = index) => durable'.contexts = durable.contexts
<1>1. A!AncestrySpec => []AncestryInd
  BY AncestryInvariant
<1>2. AncestryInd /\ [A!Next]_(A!avars) => [Action]_(A!avars)
  BY NextKeeps
<1>3. A!AncestrySpec => [][Action]_(A!avars)
  BY <1>1, <1>2, PTL DEF A!AncestrySpec
<1>4. ~P /\ [Next]_vars => [Action]_(A!avars)
  BY DEF Next, vars, SessionStep, AncestryStep, RecorderStep, CoordinatorStep, StatementStep,
         InputStep, ancestryVars, A!avars
<1> QED
  BY <1>3, <1>4, AncestryPart, PTL DEF Spec, ReopenGivesBack, A!ReopenGivesBack

\* Between two statements the session is the committed state of the open experiment
\* (recorder.py, _Recorder.run), as long as Ctrl-C does not fall among the outcomes.
THEOREM FrontendCommitted ==
  ASSUME Apart, "late interrupt" \notin Faults
  PROVE  Spec => []SessionIsCommitted
<1>1. R!RecorderSpec => []R!SessionIsCommitted
  BY PartsSound, R!SessionCommitted DEF R!InterruptsEarly
<1>2. R!SessionIsCommitted => SessionIsCommitted
  BY DEF SessionIsCommitted
<1>3. ~(part = "recorder") => SessionIsCommitted
  BY DEF SessionIsCommitted
<1> QED
  BY <1>1, <1>2, <1>3, RecorderPart, PTL

\* Every journal can be read back strictly (journal.py).
THEOREM FrontendReadable ==
  ASSUME Apart
  PROVE  Spec => []JournalReadable
<1>1. R!RecorderSpec => []R!JournalReadable
  BY PartsSound, R!JournalsReadable
<1>2. R!JournalReadable => JournalReadable
  BY DEF JournalReadable
<1>3. ~(part = "recorder") => JournalReadable
  BY DEF JournalReadable
<1> QED
  BY <1>1, <1>2, <1>3, RecorderPart, PTL

\* A job action takes effect only behind a recorded success (recorder.py, _Recorder.run).
THEOREM FrontendJobs ==
  ASSUME Apart
  PROVE  Spec => []JobsFollowOutcome
<1>1. R!RecorderSpec => []R!JobsFollowOutcome
  BY PartsSound, R!JobsAfterOutcome
<1>2. R!JobsFollowOutcome => JobsFollowOutcome
  BY DEF JobsFollowOutcome
<1>3. ~(part = "recorder") => JobsFollowOutcome
  BY DEF JobsFollowOutcome
<1> QED
  BY <1>1, <1>2, <1>3, RecorderPart, PTL

\* A completion that a client was told survives crashes and restarts (coordinator.serve,
\* durable.recover).
THEOREM FrontendTold ==
  ASSUME Apart
  PROVE  Spec => []ToldIsDurable
<1>1. C!CoordinatorSpec => []C!ToldIsDurable
  BY ToldDurable DEF Apart
<1>2. C!ToldIsDurable => ToldIsDurable
  BY DEF ToldIsDurable
<1>3. ~(part = "coordinator") => ToldIsDurable
  BY DEF ToldIsDurable
<1> QED
  BY <1>1, <1>2, <1>3, CoordinatorPart, PTL

\* No job starts twice and no remembered request runs twice (durable._snapshot,
\* coordinator.serve).
THEOREM FrontendOnce ==
  ASSUME Apart
  PROVE  Spec => []NothingTwice
<1>1. C!CoordinatorSpec => []C!NothingTwice
  BY HappensOnce DEF Apart
<1>2. C!NothingTwice => NothingTwice
  BY DEF NothingTwice
<1>3. ~(part = "coordinator") => NothingTwice
  BY DEF NothingTwice
<1> QED
  BY <1>1, <1>2, <1>3, CoordinatorPart, PTL
=============================================================================
