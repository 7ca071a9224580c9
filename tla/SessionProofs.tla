--------------------------- MODULE SessionProofs ---------------------------
(***************************************************************************)
(* Proofs about Session: what a name or a head refers to is retained and   *)
(* the limits hold; method memory is only continued where it was made; a   *)
(* call commits against what it read.                                      *)
(*                                                                         *)
(* The invariant is about values: Good(s) holds of a session, each         *)
(* operation that succeeds on a good session gives a good one, of the next *)
(* revision, that has every context loaded that was.                       *)
(***************************************************************************)
EXTENDS Session, Sums, SequenceTheorems

\* A configuration of the model: None is none of the values it stands beside, and sizes and
\* limits are natural numbers.
Kind == {"physical", "state", "history", "report"}
Sound ==
  /\ None \notin Nat /\ None \notin Ctx /\ None \notin Setting
  /\ IsFiniteSet(Ctx)
  /\ SizeOf \in [Kind -> Nat] /\ MaxObjects \in Nat /\ MaxBytes \in Nat

Value == [kind : Kind, made : Seq(Update) \cup {None}, by : Setting \cup {None}]
ObjectRecord ==
  [id : Nat, value : Value, context : Ctx \cup {None}, key : Setting \cup {None},
   recipe : Seq(Update), configuration : Nat]
ContextRecord ==
  [loaded : BOOLEAN, factory : BOOLEAN, head : Nat \cup {None}, key : Setting \cup {None},
   configuration : Nat, recipe : Seq(Update)]
SessionRecord ==
  [contexts : [Ctx -> ContextRecord], objects : Seq(ObjectRecord),
   bindings : [Name -> Nat \cup {None}], pruned : SUBSET Nat,
   selected : Ctx \cup {None}, revision : Nat, minted : Nat]

\* Objects are numbered in the order of insertion, none twice.
Distinct(objects) == \A i, j \in DOMAIN objects : i # j => objects[i].id # objects[j].id
Numbered(s) == Distinct(s.objects) /\ \A o \in ToSet(s.objects) : o.id \in 1..s.minted

\* Method memory under a key was made by that key on that recipe.
Own(value, key, recipe) ==
  (key # None /\ value.kind \in Memory) => value.by = key /\ value.made = recipe

\* An object of a context was stored under its present configuration or an earlier one.
Placed(s, o) ==
  o.context # None =>
    /\ s.contexts[o.context].loaded
    /\ o.configuration <= s.contexts[o.context].configuration
    /\ o.configuration = s.contexts[o.context].configuration
         => Own(o.value, o.key, s.contexts[o.context].recipe)

HeadsOwn(s) ==
  \A c \in Ctx, o \in ToSet(s.objects) :
    o.id = s.contexts[c].head => Own(o.value, s.contexts[c].key, s.contexts[c].recipe)

Vacant(s) == \A c \in Ctx : ~s.contexts[c].loaded => s.contexts[c] = Unloaded

Limited(s) == Len(s.objects) <= MaxObjects /\ Bytes(s) <= MaxBytes

Good(s) ==
  /\ s \in SessionRecord
  /\ Numbered(s)
  /\ Protected(s) \subseteq Retained(s)
  /\ \A o \in ToSet(s.objects) : Placed(s, o)
  /\ HeadsOwn(s)
  /\ Vacant(s)
  /\ Limited(s)

\* What an operation that succeeds does to a good session.
Moves(s, t) ==
  /\ Good(t) /\ t.revision = s.revision + 1
  /\ \A c \in Ctx : s.contexts[c].loaded => t.contexts[c].loaded

\* A call in flight.  As long as the revision stands, the head and the recipe are those that
\* it read.
LoadCall == [kind : {"load"}, context : Ctx, revision : Nat, factory : BOOLEAN, select : BOOLEAN]
UpdateCall == [kind : {"update"}, context : Ctx, revision : Nat, update : Update]
ToolCall ==
  [kind : {"tool"}, context : Ctx, revision : Nat, effect : {"solve", "candidate", "read"},
   setting : Setting \cup {None}, activate : BOOLEAN, recipe : Seq(Update),
   read : Nat \cup {None}, memory : Value]

ToolGood(s, k) ==
  /\ k.effect = "solve" \/ k.setting = None
  /\ k.revision = s.revision =>
       s.contexts[k.context].head = k.read /\ s.contexts[k.context].recipe = k.recipe
  /\ k.memory.kind \in Memory => k.memory.by = k.setting /\ k.memory.made = k.recipe

CallGood(s, k) ==
  \/ k = Idle
  \/ k \in LoadCall /\ k.revision <= s.revision
  \/ k \in UpdateCall /\ k.revision <= s.revision /\ s.contexts[k.context].loaded
  \/ /\ k \in ToolCall /\ k.revision <= s.revision /\ s.contexts[k.context].loaded
     /\ ToolGood(s, k)

IndInv == Good(session) /\ CallGood(session, call)

-----------------------------------------------------------------------------
(* Bytes.                                                                  *)

Weight(objects) == MapThenSumSet(StoredBytes, objects)

\* The bytes of the objects of a set are a sum.
LEMMA WeightSums ==
  ASSUME NEW S, IsFiniteSet(S), NEW w \in [S -> Nat], \A o \in S : w[o] = StoredBytes(o),
         NEW U, S \subseteq U, NEW v, \A o \in S : v[o] = w[o], NEW g, Sums(g, U, v)
  PROVE  Weight(S) = g[S]
<1> DEFINE Solves(h) == h = [s \in SUBSET S |->
                               IF s = {} THEN 0
                               ELSE StoredBytes(CHOOSE x \in s : TRUE) + h[s \ {CHOOSE x \in s : TRUE}]]
<1>1. Weight(S) = (CHOOSE h : Solves(h))[S]
  BY DEF Weight, MapThenSumSet, MapThenFoldSet
<1>2. \A h : Sums(h, S, w) <=> Solves(h)
  <2>1. \A s \in SUBSET S : s # {} => StoredBytes(CHOOSE x \in s : TRUE) = w[CHOOSE x \in s : TRUE]
    OBVIOUS
  <2> SUFFICES ASSUME NEW h PROVE Sums(h, S, w) <=> Solves(h)
    OBVIOUS
  <2>2. \A s \in SUBSET S :
          (IF s = {} THEN 0 ELSE w[CHOOSE x \in s : TRUE] + h[s \ {CHOOSE x \in s : TRUE}])
            = (IF s = {} THEN 0
               ELSE StoredBytes(CHOOSE x \in s : TRUE) + h[s \ {CHOOSE x \in s : TRUE}])
    BY <2>1
  <2>3. [s \in SUBSET S |->
           IF s = {} THEN 0 ELSE w[CHOOSE x \in s : TRUE] + h[s \ {CHOOSE x \in s : TRUE}]]
          = [s \in SUBSET S |->
               IF s = {} THEN 0
               ELSE StoredBytes(CHOOSE x \in s : TRUE) + h[s \ {CHOOSE x \in s : TRUE}]]
    BY <2>2, Zenon
  <2> QED
    BY <2>3, Zenon DEF Sums
<1>3. PICK h : Sums(h, S, w)
  BY SumExists
<1>4. PICK k : k = CHOOSE h2 : Solves(h2)
  OBVIOUS
<1>5. Sums(k, S, w)
  <2> HIDE DEF Solves
  <2> QED
    BY <1>2, <1>3, <1>4
<1>6. k[S] = g[S]
  BY <1>5, SumAgrees
<1> QED
  BY <1>1, <1>4, <1>6

\* Objects weigh a natural number, one object more its own bytes more.
LEMMA WeightAdd ==
  ASSUME NEW S, IsFiniteSet(S), NEW x, x \notin S, \A o \in S \cup {x} : StoredBytes(o) \in Nat
  PROVE  /\ Weight(S) \in Nat
         /\ Weight(S \cup {x})
              = Weight(S) + StoredBytes(x)
<1>1. PICK U : U = S \cup {x}
  OBVIOUS
<1>2. IsFiniteSet(U) /\ S \subseteq U /\ U \ {x} = S /\ x \in U
  BY <1>1, FS_AddElement
<1>3. PICK w : w = [o \in U |-> StoredBytes(o)]
  OBVIOUS
<1>4. PICK v : v = [o \in S |-> StoredBytes(o)]
  OBVIOUS
<1>5. w \in [U -> Nat] /\ v \in [S -> Nat]
  BY <1>1, <1>3, <1>4
<1>6. PICK g : Sums(g, U, w)
  BY <1>2, <1>5, SumExists
<1>7. Weight(U) = g[U]
  BY <1>2, <1>3, <1>5, <1>6, WeightSums
<1>8. Weight(S) = g[S]
  <2>1. (\A o \in S : v[o] = StoredBytes(o)) /\ (\A o \in S : w[o] = v[o])
    BY <1>2, <1>3, <1>4
  <2> QED
    BY <1>2, <1>5, <1>6, <2>1, WeightSums
<1>9. g[U] = w[x] + g[U \ {x}]
  BY <1>2, <1>5, <1>6, SumTakes
<1>10. g[S] \in Nat /\ w[x] = StoredBytes(x) /\ w[x] \in Nat
  BY <1>2, <1>3, <1>5, <1>6, SumType
<1>11. g[U] = g[S] + w[x]
  <2>1. g[U] = w[x] + g[S]
    BY <1>2, <1>9, Zenon
  <2> QED
    BY <2>1, <1>10
<1> QED
  BY <1>1, <1>7, <1>8, <1>10, <1>11, Zenon

\* Fewer objects do not weigh more.
LEMMA WeightGrows ==
  ASSUME NEW U, IsFiniteSet(U), NEW S \in SUBSET U, \A o \in U : StoredBytes(o) \in Nat
  PROVE  /\ Weight(S) \in Nat /\ Weight(U) \in Nat
         /\ Weight(S) <= Weight(U)
<1>1. PICK w : w = [o \in U |-> StoredBytes(o)]
  OBVIOUS
<1>2. PICK v : v = [o \in S |-> StoredBytes(o)]
  OBVIOUS
<1>3. w \in [U -> Nat] /\ v \in [S -> Nat] /\ IsFiniteSet(S)
  BY <1>1, <1>2, FS_Subset
<1>4. PICK g : Sums(g, U, w)
  BY <1>3, SumExists
<1>5. Weight(U) = g[U]
  BY <1>1, <1>3, <1>4, WeightSums
<1>6. Weight(S) = g[S]
  <2>1. (\A o \in S : v[o] = StoredBytes(o)) /\ (\A o \in S : w[o] = v[o])
    BY <1>1, <1>2
  <2> QED
    BY <1>3, <1>4, <2>1, WeightSums
<1>7. g[S] <= g[U] /\ g[S] \in Nat /\ g[U] \in Nat
  BY <1>3, <1>4, SumGrows, SumType
<1> QED
  BY <1>5, <1>6, <1>7

\* The bytes of the contexts of a set; each has at least one.
Share(contexts, c) == 1 + Len(contexts[c].recipe)
Shares(contexts, set) == MapThenSumSet(LAMBDA c : 1 + Len(contexts[c].recipe), set)

\* The bytes of the contexts of a set are a sum.
LEMMA ShareSums ==
  ASSUME NEW f, NEW S, IsFiniteSet(S), NEW w \in [S -> Nat], \A c \in S : w[c] = Share(f, c),
         NEW U, S \subseteq U, NEW v, \A c \in S : v[c] = w[c], NEW g, Sums(g, U, v)
  PROVE  Shares(f, S) = g[S]
<1> DEFINE Solves(h) == h = [s \in SUBSET S |->
                               IF s = {} THEN 0
                               ELSE 1 + Len(f[CHOOSE x \in s : TRUE].recipe)
                                      + h[s \ {CHOOSE x \in s : TRUE}]]
<1>1. Shares(f, S) = (CHOOSE h : Solves(h))[S]
  BY DEF Shares, MapThenSumSet, MapThenFoldSet
<1>2. \A h : Sums(h, S, w) <=> Solves(h)
  <2>1. \A s \in SUBSET S :
          s # {} => 1 + Len(f[CHOOSE x \in s : TRUE].recipe) = w[CHOOSE x \in s : TRUE]
    BY DEF Share
  <2> SUFFICES ASSUME NEW h PROVE Sums(h, S, w) <=> Solves(h)
    OBVIOUS
  <2>2. \A s \in SUBSET S :
          (IF s = {} THEN 0 ELSE w[CHOOSE x \in s : TRUE] + h[s \ {CHOOSE x \in s : TRUE}])
            = (IF s = {} THEN 0
               ELSE 1 + Len(f[CHOOSE x \in s : TRUE].recipe) + h[s \ {CHOOSE x \in s : TRUE}])
    BY <2>1
  <2>3. [s \in SUBSET S |->
           IF s = {} THEN 0 ELSE w[CHOOSE x \in s : TRUE] + h[s \ {CHOOSE x \in s : TRUE}]]
          = [s \in SUBSET S |->
               IF s = {} THEN 0
               ELSE 1 + Len(f[CHOOSE x \in s : TRUE].recipe) + h[s \ {CHOOSE x \in s : TRUE}]]
    BY <2>2, Zenon
  <2> QED
    BY <2>3, Zenon DEF Sums
<1>3. PICK h : Sums(h, S, w)
  BY SumExists
<1>4. PICK k : k = CHOOSE h2 : Solves(h2)
  OBVIOUS
<1>5. Sums(k, S, w)
  <2> HIDE DEF Solves
  <2> QED
    BY <1>2, <1>3, <1>4
<1>6. k[S] = g[S]
  BY <1>5, SumAgrees
<1> QED
  BY <1>1, <1>4, <1>6

\* One context more has its own bytes more.
LEMMA ShareAdd ==
  ASSUME NEW f, NEW S, IsFiniteSet(S), NEW x, x \notin S,
         \A c \in S \cup {x} : Share(f, c) \in Nat
  PROVE  Shares(f, S) \in Nat /\ Shares(f, S \cup {x}) = Shares(f, S) + Share(f, x)
<1>1. PICK U : U = S \cup {x}
  OBVIOUS
<1>2. IsFiniteSet(U) /\ S \subseteq U /\ U \ {x} = S /\ x \in U
  BY <1>1, FS_AddElement
<1>3. PICK w : w = [c \in U |-> Share(f, c)]
  OBVIOUS
<1>4. PICK v : v = [c \in S |-> Share(f, c)]
  OBVIOUS
<1>5. w \in [U -> Nat] /\ v \in [S -> Nat]
  BY <1>1, <1>3, <1>4
<1>6. PICK g : Sums(g, U, w)
  BY <1>2, <1>5, SumExists
<1>7. Shares(f, U) = g[U]
  BY <1>2, <1>3, <1>5, <1>6, ShareSums
<1>8. Shares(f, S) = g[S]
  <2>1. (\A c \in S : v[c] = Share(f, c)) /\ (\A c \in S : w[c] = v[c])
    BY <1>2, <1>3, <1>4
  <2> QED
    BY <1>2, <1>5, <1>6, <2>1, ShareSums
<1>9. g[U] = w[x] + g[U \ {x}]
  BY <1>2, <1>5, <1>6, SumTakes
<1>10. g[S] \in Nat /\ w[x] = Share(f, x) /\ w[x] \in Nat
  BY <1>2, <1>3, <1>5, <1>6, SumType
<1>11. g[U] = g[S] + w[x]
  <2>1. g[U] = w[x] + g[S]
    BY <1>2, <1>9, Zenon
  <2> QED
    BY <2>1, <1>10
<1> QED
  BY <1>1, <1>7, <1>8, <1>10, <1>11, Zenon

\* Contexts with as long recipes have as many bytes.
LEMMA ShareSame ==
  ASSUME NEW S, IsFiniteSet(S), NEW f, NEW h, \A c \in S : Share(f, c) = Share(h, c),
         \A c \in S : Share(f, c) \in Nat
  PROVE  Shares(f, S) = Shares(h, S)
<1>1. PICK w : w = [c \in S |-> Share(f, c)]
  OBVIOUS
<1>2. w \in [S -> Nat] /\ (\A c \in S : w[c] = Share(f, c)) /\ (\A c \in S : w[c] = Share(h, c))
  BY <1>1
<1>3. PICK g : Sums(g, S, w)
  BY <1>2, SumExists
<1>4. Shares(f, S) = g[S]
  BY <1>2, <1>3, ShareSums
<1>5. Shares(h, S) = g[S]
  BY <1>2, <1>3, ShareSums
<1> QED
  BY <1>4, <1>5

\* The bytes of a session are those of its objects and of its contexts.
LEMMA BytesSplit ==
  ASSUME NEW s
  PROVE  Bytes(s) = Weight(ToSet(s.objects)) + Shares(s.contexts, LoadedContexts(s))
BY DEF Bytes, Weight, Shares, MapThenSumSet, MapThenFoldSet

-----------------------------------------------------------------------------
(* Removing objects, and looking one up.                                   *)

\* kept[n] is what the first n objects leave.
Sieves(kept, last, objects, ids) ==
  kept = [n \in 0..last |->
            IF n = 0 THEN <<>>
            ELSE IF objects[n].id \in ids THEN kept[n - 1] ELSE Append(kept[n - 1], objects[n])]

\* The recursion of Without has a solution.
LEMMA SieveExists ==
  ASSUME NEW objects, NEW ids
  PROVE  \A n \in Nat : \E kept : Sieves(kept, n, objects, ids)
<1> DEFINE Found(n) == \E kept : Sieves(kept, n, objects, ids)
           Open == {n \in Nat : ~Found(n)}
<1>1. Found(0)
  <2>1. Sieves([n \in 0..0 |-> <<>>], 0, objects, ids)
    BY DEF Sieves
  <2> QED
    BY <2>1
<1>2. ASSUME NEW n \in Nat, n # 0, Found(n - 1) PROVE Found(n)
  <2>1. PICK k : Sieves(k, n - 1, objects, ids)
    BY <1>2
  <2>2. PICK h : h = [m \in 0..n |->
            IF m = 0 THEN <<>>
            ELSE IF objects[m].id \in ids THEN k[m - 1] ELSE Append(k[m - 1], objects[m])]
    OBVIOUS
  <2>3. \A m \in 0..n - 1 : h[m] = k[m]
    <3>1. \A m \in 0..n - 1 : k[m] =
            IF m = 0 THEN <<>>
            ELSE IF objects[m].id \in ids THEN k[m - 1] ELSE Append(k[m - 1], objects[m])
      BY <2>1, Zenon DEF Sieves
    <3>2. \A m \in 0..n - 1 : m \in 0..n
      BY <1>2
    <3>3. \A m \in 0..n : h[m] =
            IF m = 0 THEN <<>>
            ELSE IF objects[m].id \in ids THEN k[m - 1] ELSE Append(k[m - 1], objects[m])
      BY <2>2, Zenon
    <3> QED
      BY <3>1, <3>2, <3>3, Zenon
  <2>4. \A m \in 0..n : m # 0 => h[m - 1] = k[m - 1]
    BY <1>2, <2>3
  <2>5. \A m \in 0..n :
            (IF m = 0 THEN <<>>
             ELSE IF objects[m].id \in ids THEN k[m - 1] ELSE Append(k[m - 1], objects[m]))
            = IF m = 0 THEN <<>>
              ELSE IF objects[m].id \in ids THEN h[m - 1] ELSE Append(h[m - 1], objects[m])
    BY <2>4, Zenon
  <2>6. Sieves(h, n, objects, ids)
    BY <2>2, <2>5, Zenon DEF Sieves
  <2> QED
    BY <2>6
<1>3. Open = {}
  <2> SUFFICES ASSUME Open # {} PROVE FALSE
    OBVIOUS
  <2> HIDE DEF Solved
  <2>1. PICK n \in Open : \A m \in Open : n <= m
    <3>1. Open \subseteq Nat
      OBVIOUS
    <3> HIDE DEF Open
    <3> QED
      BY <3>1, SmallestNumber
  <2>2. n # 0
    BY <1>1
  <2>3. n - 1 \in Nat /\ n - 1 \notin Open
    BY <2>1, <2>2
  <2> QED
    BY <1>2, <2>2, <2>3
<1> QED
  BY <1>3

\* A sequence of objects that keeps, of the first n, those whose number is not among ids.
Rest(w, n, objects, ids, R) ==
  /\ w \in Seq(R) /\ Len(w) <= n
  /\ ToSet(w) = {objects[i] : i \in {k \in 1..n : objects[k].id \notin ids}}
  /\ Distinct(objects) => Distinct(w)

\* One object appended to others that have not its number.
LEMMA AppendSet ==
  ASSUME NEW R, NEW w \in Seq(R), NEW x \in R
  PROVE  /\ Append(w, x) \in Seq(R) /\ Len(Append(w, x)) = Len(w) + 1
         /\ ToSet(Append(w, x)) = ToSet(w) \cup {x}
         /\ \A i \in DOMAIN w : Append(w, x)[i] = w[i]
         /\ Append(w, x)[Len(w) + 1] = x
<1>1. PICK z : z = Append(w, x)
  OBVIOUS
<1>2. /\ z \in Seq(R) /\ Len(z) = Len(w) + 1 /\ Len(w) \in Nat
      /\ DOMAIN z = 1..(Len(w) + 1) /\ DOMAIN w = 1..Len(w)
      /\ \A i \in 1..Len(w) : z[i] = w[i]
      /\ z[Len(w) + 1] = x
  BY <1>1
<1>3. ToSet(z) = ToSet(w) \cup {x}
  BY <1>2 DEF ToSet
<1> QED
  BY <1>1, <1>2, <1>3

\* An appended object with a new number keeps the numbers distinct.
LEMMA AppendDistinct ==
  ASSUME NEW R, NEW w \in Seq(R), NEW x \in R, Distinct(w), \A o \in ToSet(w) : o.id # x.id
  PROVE  Distinct(Append(w, x))
<1>1. PICK z : z = Append(w, x)
  OBVIOUS
<1>2. /\ Len(w) \in Nat /\ DOMAIN z = 1..(Len(w) + 1) /\ DOMAIN w = 1..Len(w)
      /\ \A i \in DOMAIN w : z[i] = w[i] /\ z[i].id # x.id
      /\ z[Len(w) + 1] = x
  BY <1>1 DEF ToSet
<1>3. ASSUME NEW i \in DOMAIN z, NEW j \in DOMAIN z, i # j PROVE z[i].id # z[j].id
  <2>1. CASE i \in DOMAIN w /\ j \in DOMAIN w
    BY <1>2, <1>3, <2>1 DEF Distinct
  <2>2. CASE i \notin DOMAIN w
    <3>1. i = Len(w) + 1 /\ j \in DOMAIN w
      BY <1>2, <1>3, <2>2
    <3> QED
      BY <1>2, <3>1
  <2>3. CASE j \notin DOMAIN w
    <3>1. j = Len(w) + 1 /\ i \in DOMAIN w
      BY <1>2, <1>3, <2>3
    <3> QED
      BY <1>2, <3>1
  <2> QED
    BY <2>1, <2>2, <2>3
<1> QED
  BY <1>1, <1>3 DEF Distinct

\* Without keeps the other objects, each once if each was there once.
LEMMA WithoutRest ==
  ASSUME NEW R, NEW objects \in Seq(R), NEW ids
  PROVE  Rest(Without(objects, ids), Len(objects), objects, ids, R)
<1>1. Len(objects) \in Nat /\ \A n \in 1..Len(objects) : objects[n] \in R
  OBVIOUS
<1>2. PICK kept : /\ Sieves(kept, Len(objects), objects, ids)
                  /\ Without(objects, ids) = kept[Len(objects)]
  <2> DEFINE Solves(k) == Sieves(k, Len(objects), objects, ids)
  <2>1. PICK k : k = CHOOSE k2 : Solves(k2)
    OBVIOUS
  <2>2. Solves(k)
    <3>1. \E k2 : Solves(k2)
      BY <1>1, SieveExists
    <3> HIDE DEF Solves
    <3> QED
      BY <2>1, <3>1
  <2>3. Without(objects, ids) = (CHOOSE k2 : Solves(k2))[Len(objects)]
    BY DEF Without, Sieves
  <2> QED
    BY <2>1, <2>2, <2>3
<1> DEFINE Wrong == {n \in 0..Len(objects) : ~Rest(kept[n], n, objects, ids, R)}
<1>3. Rest(kept[0], 0, objects, ids, R)
  <2>1. kept[0] = <<>>
    BY <1>1, <1>2 DEF Sieves
  <2>2. <<>> \in Seq(R) /\ Len(<<>>) = 0 /\ ToSet(<<>>) = {} /\ Distinct(<<>>)
    BY DEF ToSet, Distinct
  <2> QED
    BY <2>1, <2>2 DEF Rest
<1>4. ASSUME NEW n \in 1..Len(objects), Rest(kept[n - 1], n - 1, objects, ids, R)
      PROVE  Rest(kept[n], n, objects, ids, R)
  <2>1. n \in 0..Len(objects) /\ n # 0 /\ n - 1 \in Nat /\ objects[n] \in R
    BY <1>1
  <2>2. kept[n] = IF objects[n].id \in ids THEN kept[n - 1] ELSE Append(kept[n - 1], objects[n])
    BY <1>2, <2>1, Zenon DEF Sieves
  <2>3. PICK w : w = kept[n - 1]
    OBVIOUS
  <2>4. /\ w \in Seq(R) /\ Len(w) <= n - 1 /\ Len(w) \in Nat
        /\ ToSet(w) = {objects[i] : i \in {k \in 1..n - 1 : objects[k].id \notin ids}}
        /\ Distinct(objects) => Distinct(w)
    BY <1>4, <2>3 DEF Rest
  <2>5. CASE objects[n].id \in ids
    <3>1. {k \in 1..n : objects[k].id \notin ids} = {k \in 1..n - 1 : objects[k].id \notin ids}
      BY <2>1, <2>5
    <3>2. kept[n] = w /\ Len(w) <= n
      BY <2>1, <2>2, <2>3, <2>4, <2>5
    <3> QED
      BY <2>4, <3>1, <3>2, Zenon DEF Rest
  <2>6. CASE objects[n].id \notin ids
    <3>1. PICK z : z = Append(w, objects[n])
      OBVIOUS
    <3>2. kept[n] = z
      BY <2>2, <2>3, <2>6, <3>1
    <3>3. z \in Seq(R) /\ Len(z) = Len(w) + 1 /\ ToSet(z) = ToSet(w) \cup {objects[n]}
      BY <2>1, <2>4, <3>1, AppendSet
    <3>4. ToSet(z) = {objects[i] : i \in {k \in 1..n : objects[k].id \notin ids}}
      <4>1. {k \in 1..n : objects[k].id \notin ids}
              = {k \in 1..n - 1 : objects[k].id \notin ids} \cup {n}
        BY <2>1, <2>6
      <4> QED
        BY <2>4, <3>3, <4>1
    <3>5. ASSUME Distinct(objects) PROVE Distinct(z)
      <4>1. \A o \in ToSet(w) : o.id # objects[n].id
        <5>1. \A i \in 1..n - 1 : i \in DOMAIN objects /\ n \in DOMAIN objects /\ i # n
          BY <1>1, <2>1
        <5> QED
          BY <2>4, <3>5, <5>1 DEF Distinct
      <4>2. Distinct(w)
        BY <2>4, <3>5
      <4> QED
        BY <2>1, <2>4, <3>1, <4>1, <4>2, AppendDistinct
    <3>6. Len(z) <= n
      BY <2>1, <2>4, <3>3
    <3> QED
      BY <3>2, <3>3, <3>4, <3>5, <3>6 DEF Rest
  <2> QED
    BY <2>5, <2>6
<1>5. Wrong = {}
  <2> SUFFICES ASSUME Wrong # {} PROVE FALSE
    OBVIOUS
  <2>1. PICK n \in Wrong : \A m \in Wrong : n <= m
    <3>1. Wrong \subseteq Nat
      BY <1>1
    <3> HIDE DEF Wrong
    <3> QED
      BY <3>1, SmallestNumber
  <2>2. n \in 0..Len(objects) /\ ~Rest(kept[n], n, objects, ids, R)
    OBVIOUS
  <2>3. n # 0
    BY <1>3, <2>2
  <2>4. n \in 1..Len(objects) /\ n - 1 \in 0..Len(objects) /\ ~(n <= n - 1)
    BY <1>1, <2>2, <2>3
  <2>5. Rest(kept[n - 1], n - 1, objects, ids, R)
    BY <2>1, <2>4
  <2> QED
    BY <1>4, <2>2, <2>4, <2>5
<1> QED
  BY <1>1, <1>2, <1>5

\* The parts of a session have their types.
LEMMA SessionFields ==
  ASSUME NEW s \in SessionRecord
  PROVE  /\ s.objects \in Seq(ObjectRecord) /\ s.contexts \in [Ctx -> ContextRecord]
         /\ s.bindings \in [Name -> Nat \cup {None}] /\ s.pruned \in SUBSET Nat
         /\ s.selected \in Ctx \cup {None} /\ s.revision \in Nat /\ s.minted \in Nat
         /\ Len(s.objects) \in Nat /\ DOMAIN s.objects = 1..Len(s.objects)
         /\ ToSet(s.objects) \subseteq ObjectRecord /\ IsFiniteSet(ToSet(s.objects))
<1>1. s.objects \in Seq(ObjectRecord)
  BY DEF SessionRecord
<1>2. PICK q : q = s.objects
  OBVIOUS
<1>3. q \in Seq(ObjectRecord) /\ Len(q) \in Nat /\ DOMAIN q = 1..Len(q)
  BY <1>1, <1>2
<1>4. PICK D : D = 1..Len(q)
  OBVIOUS
<1>5. IsFiniteSet(D)
  <2>1. 1 \in Int /\ Len(q) \in Int
    BY <1>3
  <2> QED
    BY <1>4, <2>1, FS_Interval
<1>6. ToSet(q) \subseteq ObjectRecord /\ IsFiniteSet(ToSet(q))
  <2>1. PICK f : f = [i \in D |-> q[i]]
    OBVIOUS
  <2>2. ToSet(q) = {q[i] : i \in D}
    BY <1>3, <1>4 DEF ToSet
  <2>3. f \in Surjection(D, ToSet(q))
    BY <2>1, <2>2 DEF Surjection
  <2> QED
    BY <1>3, <1>4, <1>5, <2>2, <2>3, FS_Surjection
<1> QED
  BY <1>2, <1>3, <1>6 DEF SessionRecord

\* An object is retained under its own number only, and looked up by it.
LEMMA StoredIs ==
  ASSUME NEW s \in SessionRecord, Distinct(s.objects)
  PROVE  /\ Retained(s) = {o.id : o \in ToSet(s.objects)}
         /\ \A o, p \in ToSet(s.objects) : o.id = p.id => o = p
         /\ \A o \in ToSet(s.objects) : Stored(s, o.id) = o
         /\ \A id \in Retained(s) : Stored(s, id) \in ToSet(s.objects) /\ Stored(s, id).id = id
<1>1. PICK q : q = s.objects
  OBVIOUS
<1>2. Retained(s) = {o.id : o \in ToSet(s.objects)}
  BY DEF Retained, ToSet
<1>3. \A o, p \in ToSet(s.objects) : o.id = p.id => o = p
  BY DEF Distinct, ToSet
<1>4. ASSUME NEW id \in Retained(s)
      PROVE  Stored(s, id) \in ToSet(s.objects) /\ Stored(s, id).id = id
  <2>1. \E i \in DOMAIN q : q[i].id = id
    BY <1>1 DEF Retained
  <2>2. PICK k : k = CHOOSE i \in DOMAIN q : q[i].id = id
    OBVIOUS
  <2>3. k \in DOMAIN q /\ q[k].id = id
    BY <2>1, <2>2
  <2>4. Stored(s, id) = q[k]
    BY <1>1, <2>2 DEF Stored
  <2> QED
    BY <1>1, <2>3, <2>4 DEF ToSet
<1>5. \A o \in ToSet(s.objects) : Stored(s, o.id) = o
  BY <1>2, <1>3, <1>4
<1> QED
  BY <1>2, <1>3, <1>4, <1>5

\* Objects and contexts have natural numbers of bytes.
LEMMA BytesTypes ==
  ASSUME Sound
  PROVE  /\ \A o \in ObjectRecord : /\ StoredBytes(o) = SizeOf[o.value.kind] + Len(o.recipe)
                                    /\ StoredBytes(o) \in Nat
         /\ \A f \in [Ctx -> ContextRecord] : \A c \in Ctx :
              Share(f, c) = 1 + Len(f[c].recipe) /\ Share(f, c) \in Nat
<1>1. ASSUME NEW o \in ObjectRecord PROVE StoredBytes(o) \in Nat
  <2>1. o.value.kind \in Kind /\ o.recipe \in Seq(Update)
    BY DEF ObjectRecord, Value
  <2>2. SizeOf[o.value.kind] \in Nat /\ Len(o.recipe) \in Nat
    BY <2>1 DEF Sound
  <2> QED
    BY <2>2 DEF StoredBytes
<1>2. ASSUME NEW f \in [Ctx -> ContextRecord], NEW c \in Ctx PROVE Share(f, c) \in Nat
  <2>1. f[c].recipe \in Seq(Update)
    BY DEF ContextRecord
  <2>2. Len(f[c].recipe) \in Nat
    BY <2>1
  <2> QED
    BY <2>2 DEF Share
<1> QED
  BY <1>1, <1>2 DEF StoredBytes, Share

\* The objects of a session have a natural number of bytes.
LEMMA WeightType ==
  ASSUME Sound, NEW s \in SessionRecord
  PROVE  Weight(ToSet(s.objects)) \in Nat
<1>1. ToSet(s.objects) \subseteq ObjectRecord /\ IsFiniteSet(ToSet(s.objects))
  BY SessionFields
<1>2. \A o \in ToSet(s.objects) : StoredBytes(o) \in Nat
  BY <1>1, BytesTypes
<1> QED
  BY <1>1, <1>2, WeightGrows

\* Contexts have a natural number of bytes.
LEMMA SharesType ==
  ASSUME Sound, NEW f \in [Ctx -> ContextRecord], NEW L \in SUBSET Ctx
  PROVE  Shares(f, L) \in Nat /\ IsFiniteSet(L) /\ \A c \in L : Share(f, c) \in Nat
<1>1. IsFiniteSet(L)
  BY FS_Subset DEF Sound
<1>2. \A c \in Ctx : Share(f, c) \in Nat
  BY BytesTypes
<1>3. PICK w : w = [c \in L |-> Share(f, c)]
  OBVIOUS
<1>4. w \in [L -> Nat] /\ \A c \in L : w[c] = Share(f, c)
  BY <1>2, <1>3
<1>5. PICK g : Sums(g, L, w)
  BY <1>1, <1>4, SumExists
<1>6. Shares(f, L) = g[L]
  BY <1>1, <1>4, <1>5, ShareSums
<1>7. g[L] \in Nat
  BY <1>1, <1>4, <1>5, SumType
<1> QED
  BY <1>1, <1>2, <1>6, <1>7

\* The bytes of contexts that keep their recipes stay.
LEMMA SharesStay ==
  ASSUME Sound, NEW f \in [Ctx -> ContextRecord], NEW h, NEW L \in SUBSET Ctx,
         \A c \in L : h[c].recipe = f[c].recipe
  PROVE  Shares(h, L) = Shares(f, L)
<1>1. \A c \in L : Share(f, c) = Share(h, c) /\ Share(f, c) \in Nat
  BY SharesType DEF Share
<1>2. IsFiniteSet(L)
  BY SharesType
<1> QED
  BY <1>1, <1>2, ShareSame

\* w is what a publication of a number of bytes leaves of the objects: with all that names
\* and heads refer to, and room for one more.
Room(s, w, size) ==
  /\ w \in Seq(ObjectRecord) /\ Distinct(w) /\ ToSet(w) \subseteq ToSet(s.objects)
  /\ \A o \in ToSet(s.objects) : o.id \in Protected(s) => o \in ToSet(w)
  /\ Len(w) + 1 <= MaxObjects
  /\ Weight(ToSet(w)) + Shares(s.contexts, LoadedContexts(s)) + size <= MaxBytes

\* An eviction that fits makes room.
LEMMA EvictedRoom ==
  ASSUME Sound, NEW s, Good(s), NEW size \in Nat, Evicted(s, size).fits
  PROVE  Room(s, Without(s.objects, Evicted(s, size).ids), size)
<1> DEFINE spare(n) == {s.objects[i].id : i \in 1..n} \ Protected(s)
           rest(n) == [s EXCEPT !.objects = Without(@, spare(n))]
           enough == {n \in 0..Len(s.objects) :
                        Within(Len(rest(n).objects) + 1, Bytes(rest(n)) + size)}
<1>1. Evicted(s, size) = IF enough = {} THEN [fits |-> FALSE, ids |-> {}]
                         ELSE [fits |-> TRUE, ids |-> spare(Min(enough))]
  BY DEF Evicted
<1> HIDE DEF enough
<1>2. enough # {} /\ Evicted(s, size).ids = spare(Min(enough))
  BY <1>1
<1>3. PICK n : n = Min(enough)
  OBVIOUS
<1>4. s \in SessionRecord /\ Distinct(s.objects)
  BY DEF Good, Numbered
<1>5. n \in enough
  <2>1. enough \subseteq Nat
    BY <1>4, SessionFields DEF enough
  <2>2. \E m \in enough : \A k \in enough : m <= k
    BY <1>2, <2>1, SmallestNumber
  <2> QED
    BY <1>3, <2>2 DEF Min
<1>6. PICK ids : ids = spare(n)
  OBVIOUS
<1>7. PICK w : w = Without(s.objects, ids)
  OBVIOUS
<1>8. Evicted(s, size).ids = ids
  BY <1>2, <1>3, <1>6
<1>9. PICK t : t = [s EXCEPT !.objects = w]
  OBVIOUS
<1>10. t.objects = w /\ t.contexts = s.contexts /\ t = rest(n)
  BY <1>4, <1>6, <1>7, <1>9 DEF SessionRecord
<1>11. Len(w) + 1 <= MaxObjects /\ Bytes(t) + size <= MaxBytes
  BY <1>5, <1>10 DEF enough, Within
<1>12. Bytes(t) = Weight(ToSet(w)) + Shares(s.contexts, LoadedContexts(s))
  <2>1. LoadedContexts(t) = LoadedContexts(s)
    BY <1>10 DEF LoadedContexts
  <2> QED
    BY <1>10, <2>1, BytesSplit
<1>13. Rest(w, Len(s.objects), s.objects, ids, ObjectRecord)
  BY <1>4, <1>7, SessionFields, WithoutRest
<1>14. ToSet(w) = {o \in ToSet(s.objects) : o.id \notin ids}
  BY <1>4, <1>13, SessionFields DEF Rest, ToSet
<1>15. \A id \in Protected(s) : id \notin ids
  BY <1>6
<1> QED
  BY <1>4, <1>7, <1>8, <1>11, <1>12, <1>13, <1>14, <1>15 DEF Rest, Room

-----------------------------------------------------------------------------
(* Publication.                                                            *)

\* A new object o joins the objects w that stay.
Added(s, t, w, o) ==
  /\ t \in SessionRecord /\ t.objects = Append(w, o)
  /\ o \in ObjectRecord /\ o.id = s.minted + 1
  /\ t.minted = s.minted + 1 /\ t.revision = s.revision + 1
  /\ \A n \in Name : t.bindings[n] \in {s.bindings[n], o.id}
  /\ \A d \in Ctx : /\ t.contexts[d].loaded = s.contexts[d].loaded
                    /\ t.contexts[d].head \in {s.contexts[d].head, o.id}

\* The object and the contexts of a publication.
Issued(s, t, o, value, c, activate, key) ==
  /\ o.value = value /\ o.context = c /\ o.key = key
  /\ o.recipe = IF c = None THEN <<>> ELSE s.contexts[c].recipe
  /\ o.configuration = IF c = None THEN 0 ELSE s.contexts[c].configuration
  /\ ~activate => t.contexts = s.contexts
  /\ activate =>
       /\ \A d \in Ctx \ {c} : t.contexts[d] = s.contexts[d]
       /\ t.contexts[c].head = o.id /\ t.contexts[c].key = key
       /\ t.contexts[c].loaded = s.contexts[c].loaded
       /\ t.contexts[c].factory = s.contexts[c].factory
       /\ t.contexts[c].configuration = s.contexts[c].configuration
       /\ t.contexts[c].recipe = s.contexts[c].recipe

\* A publication that succeeds makes room and adds its object.
LEMMA PublishAdds ==
  ASSUME Sound, NEW s, Good(s), NEW value \in Value, NEW c \in Ctx \cup {None}, NEW bind,
         NEW activate \in BOOLEAN, activate => c # None, NEW key \in Setting \cup {None},
         NEW extra \in Nat, NEW r, r = Publish(s, value, c, bind, activate, key, extra), r.ok
  PROVE  \E w, o : /\ Room(s, w, SizeOf[value.kind] + Len(o.recipe) + extra)
                   /\ Added(s, r.s, w, o) /\ Issued(s, r.s, o, value, c, activate, key)
                   /\ r.id = o.id
<1>1. /\ s \in SessionRecord /\ s.objects \in Seq(ObjectRecord)
      /\ s.contexts \in [Ctx -> ContextRecord] /\ s.bindings \in [Name -> Nat \cup {None}]
      /\ s.revision \in Nat /\ s.minted \in Nat
  BY SessionFields DEF Good
<1>2. PICK recipe : recipe = IF c = None THEN <<>> ELSE s.contexts[c].recipe
  OBVIOUS
<1>3. PICK configuration : configuration = IF c = None THEN 0 ELSE s.contexts[c].configuration
  OBVIOUS
<1>4. PICK id : id = s.minted + 1
  OBVIOUS
<1>5. PICK size : size = SizeOf[value.kind] + Len(recipe) + extra
  OBVIOUS
<1>6. recipe \in Seq(Update) /\ configuration \in Nat /\ id \in Nat /\ size \in Nat
  <2>1. recipe \in Seq(Update) /\ configuration \in Nat
    <3>1. CASE c = None
      <4>1. <<>> \in Seq(Update)
        OBVIOUS
      <4> QED
        BY <1>2, <1>3, <3>1, <4>1
    <3>2. CASE c # None
      <4>1. s.contexts[c] \in ContextRecord
        BY <1>1, <3>2
      <4> QED
        BY <1>2, <1>3, <3>2, <4>1 DEF ContextRecord
    <3> QED
      BY <3>1, <3>2
  <2>2. SizeOf[value.kind] \in Nat /\ Len(recipe) \in Nat
    BY <2>1 DEF Sound, Value
  <2> QED
    BY <1>1, <1>4, <1>5, <2>1, <2>2
<1>7. PICK e : e = Evicted(s, size)
  OBVIOUS
<1>8. PICK o : o = [id |-> id, value |-> value, context |-> c, key |-> key, recipe |-> recipe,
                    configuration |-> configuration]
  OBVIOUS
<1>9. PICK bindings : bindings = IF bind = None THEN s.bindings ELSE [s.bindings EXCEPT ![bind] = id]
  OBVIOUS
<1>10. PICK w : w = Without(s.objects, e.ids)
  OBVIOUS
<1>11. PICK contexts : contexts = IF activate THEN [s.contexts EXCEPT ![c].head = id, ![c].key = key]
                                  ELSE s.contexts
  OBVIOUS
<1>12. /\ r = Done([s EXCEPT !.objects = Append(w, o), !.bindings = bindings,
                             !.contexts = contexts, !.revision = @ + 1, !.minted = id], id)
       /\ e.fits
  <2>1. r = IF \/ Cardinality(Names(bindings)) > MaxObjects
               \/ ~e.fits
               \/ activate /\ value.kind = "report"
            THEN Refused(s)
            ELSE Done([s EXCEPT !.objects = Append(w, o), !.bindings = bindings,
                                !.contexts = contexts, !.revision = @ + 1, !.minted = id], id)
    BY <1>2, <1>3, <1>4, <1>5, <1>7, <1>8, <1>9, <1>10, <1>11 DEF Publish
  <2>2. ~Refused(s).ok
    BY DEF Refused
  <2> QED
    BY <2>1, <2>2
<1>13. PICK t : t = [s EXCEPT !.objects = Append(w, o), !.bindings = bindings,
                              !.contexts = contexts, !.revision = @ + 1, !.minted = id]
  OBVIOUS
<1>14. r.s = t /\ r.id = id
  BY <1>12, <1>13 DEF Done
<1>15. Room(s, w, size)
  BY <1>6, <1>7, <1>10, <1>12, EvictedRoom
<1>16. /\ o \in ObjectRecord /\ o.id = id /\ o.value = value /\ o.context = c /\ o.key = key
       /\ o.recipe = recipe /\ o.configuration = configuration
  BY <1>6, <1>8 DEF ObjectRecord
<1>17. Append(w, o) \in Seq(ObjectRecord)
  BY <1>15, <1>16, AppendSet DEF Room
<1>18. bindings \in [Name -> Nat \cup {None}] /\ \A n \in Name : bindings[n] \in {s.bindings[n], id}
  BY <1>1, <1>6, <1>9
<1>19. contexts \in [Ctx -> ContextRecord] /\ Issued(s, [contexts |-> contexts], o, value, c, activate, key)
  <2>1. CASE ~activate
    BY <1>1, <1>2, <1>3, <1>11, <1>16, <2>1 DEF Issued
  <2>2. CASE activate
    <3>1. c \in Ctx
      BY <2>2
    <3>2. s.contexts[c] \in ContextRecord
      BY <1>1, <3>1
    <3>3. PICK x : x = [[s.contexts[c] EXCEPT !.head = id] EXCEPT !.key = key]
      OBVIOUS
    <3>4. contexts = [s.contexts EXCEPT ![c] = x]
      BY <1>1, <1>11, <2>2, <3>1, <3>3
    <3>5. /\ x \in ContextRecord /\ x.head = id /\ x.key = key
          /\ x.loaded = s.contexts[c].loaded /\ x.factory = s.contexts[c].factory
          /\ x.configuration = s.contexts[c].configuration
          /\ x.recipe = s.contexts[c].recipe
      BY <1>6, <3>2, <3>3 DEF ContextRecord
    <3>6. contexts[c] = x /\ \A d \in Ctx \ {c} : contexts[d] = s.contexts[d]
      BY <1>1, <3>1, <3>4
    <3>7. contexts \in [Ctx -> ContextRecord]
      BY <1>1, <3>4, <3>5
    <3> QED
      BY <1>2, <1>3, <1>16, <2>2, <3>5, <3>6, <3>7 DEF Issued
  <2> QED
    BY <2>1, <2>2
<1>20. /\ t.objects = Append(w, o) /\ t.bindings = bindings /\ t.contexts = contexts
       /\ t.revision = s.revision + 1 /\ t.minted = id
       /\ t \in SessionRecord
  <2>1. PICK objects : objects = Append(w, o)
    OBVIOUS
  <2>2. PICK revision : revision = s.revision + 1
    OBVIOUS
  <2>3. t = [s EXCEPT !.objects = objects, !.bindings = bindings,
                      !.contexts = contexts, !.revision = revision, !.minted = id]
    BY <1>13, <2>1, <2>2
  <2>4. /\ objects \in Seq(ObjectRecord) /\ bindings \in [Name -> Nat \cup {None}]
        /\ contexts \in [Ctx -> ContextRecord] /\ revision \in Nat /\ id \in Nat
    BY <1>1, <1>6, <1>17, <1>18, <1>19, <2>1, <2>2
  <2>5. /\ t \in SessionRecord /\ t.objects = objects /\ t.bindings = bindings
        /\ t.contexts = contexts /\ t.revision = revision /\ t.minted = id
    BY <1>1, <2>3, <2>4 DEF SessionRecord
  <2> QED
    BY <2>1, <2>2, <2>5
<1>21. Issued(s, t, o, value, c, activate, key)
  BY <1>19, <1>20 DEF Issued
<1>22. \A d \in Ctx : /\ t.contexts[d].loaded = s.contexts[d].loaded
                      /\ t.contexts[d].head \in {s.contexts[d].head, o.id}
  <2>1. ASSUME NEW d \in Ctx, d # c \/ ~activate PROVE t.contexts[d] = s.contexts[d]
    BY <1>21, <2>1 DEF Issued
  <2>2. activate => t.contexts[c].loaded = s.contexts[c].loaded /\ t.contexts[c].head = o.id
    BY <1>21 DEF Issued
  <2> QED
    BY <2>1, <2>2
<1>23. Added(s, t, w, o)
  BY <1>4, <1>16, <1>18, <1>20, <1>22 DEF Added
<1> QED
  BY <1>5, <1>14, <1>15, <1>16, <1>21, <1>23

\* The new object has a number of its own, and is one more to the objects.
LEMMA AddedObjects ==
  ASSUME NEW s, Good(s), NEW size, NEW w, Room(s, w, size), NEW t, NEW o, Added(s, t, w, o)
  PROVE  /\ ToSet(t.objects) = ToSet(w) \cup {o} /\ Len(t.objects) <= MaxObjects
         /\ o \notin ToSet(w) /\ o.id \notin 1..s.minted /\ o.id \in 1..t.minted
         /\ \A p \in ToSet(w) : p \in ToSet(s.objects) /\ p.id \in 1..s.minted /\ p.id \in 1..t.minted
         /\ Numbered(t)
         /\ \A p \in ToSet(s.objects) : p.id \in Protected(s) => p \in ToSet(w)
         /\ LoadedContexts(t) = LoadedContexts(s)
<1>1. s.minted \in Nat /\ o.id = s.minted + 1 /\ t.minted = s.minted + 1 /\ t.objects = Append(w, o)
  BY SessionFields DEF Good, Added
<1>2. /\ w \in Seq(ObjectRecord) /\ o \in ObjectRecord /\ Distinct(w) /\ Len(w) + 1 <= MaxObjects
      /\ ToSet(w) \subseteq ToSet(s.objects)
      /\ \A p \in ToSet(s.objects) : p.id \in Protected(s) => p \in ToSet(w)
  BY DEF Room, Added
<1>3. ToSet(t.objects) = ToSet(w) \cup {o} /\ Len(t.objects) = Len(w) + 1
  BY <1>1, <1>2, AppendSet
<1>4. \A p \in ToSet(w) : p \in ToSet(s.objects) /\ p.id \in 1..s.minted
  BY <1>2 DEF Good, Numbered
<1>5. o.id \notin 1..s.minted /\ o.id \in 1..t.minted /\ \A i \in 1..s.minted : i \in 1..t.minted
  BY <1>1
<1>6. \A p \in ToSet(w) : p.id # o.id
  BY <1>4, <1>5
<1>7. Distinct(t.objects)
  BY <1>1, <1>2, <1>6, AppendDistinct
<1>8. Numbered(t)
  BY <1>3, <1>4, <1>5, <1>7 DEF Numbered
<1>9. LoadedContexts(t) = LoadedContexts(s)
  BY DEF Added, LoadedContexts
<1> QED
  BY <1>2, <1>3, <1>4, <1>5, <1>6, <1>8, <1>9

\* The bytes after a publication, in those of the objects that stay, of the new object and of
\* the contexts.
LEMMA AddedBytes ==
  ASSUME Sound, NEW s, Good(s), NEW size \in Nat, NEW w, Room(s, w, size), NEW t, NEW o,
         Added(s, t, w, o)
  PROVE  \E a, b \in Nat :
           /\ a + b + size <= MaxBytes
           /\ b = Shares(s.contexts, LoadedContexts(s))
           /\ Bytes(t) = a + StoredBytes(o) + Shares(t.contexts, LoadedContexts(s))
<1>1. /\ IsFiniteSet(ToSet(w)) /\ ToSet(w) \subseteq ObjectRecord /\ o \in ObjectRecord
      /\ s.contexts \in [Ctx -> ContextRecord]
  <2>1. /\ ToSet(s.objects) \subseteq ObjectRecord /\ IsFiniteSet(ToSet(s.objects))
        /\ s.contexts \in [Ctx -> ContextRecord]
    BY SessionFields DEF Good
  <2> QED
    BY <2>1, FS_Subset DEF Room, Added
<1>2. o \notin ToSet(w) /\ ToSet(t.objects) = ToSet(w) \cup {o} /\ LoadedContexts(t) = LoadedContexts(s)
  BY AddedObjects
<1>3. \A p \in ToSet(w) \cup {o} : StoredBytes(p) \in Nat
  BY <1>1, BytesTypes
<1>4. /\ Weight(ToSet(w)) \in Nat
      /\ Weight(ToSet(w) \cup {o}) = Weight(ToSet(w)) + StoredBytes(o)
  BY <1>1, <1>2, <1>3, WeightAdd
<1>5. Shares(s.contexts, LoadedContexts(s)) \in Nat
  <2>1. LoadedContexts(s) \in SUBSET Ctx
    BY DEF LoadedContexts
  <2> QED
    BY <1>1, <2>1, SharesType
<1>6. Bytes(t) = Weight(ToSet(w) \cup {o}) + Shares(t.contexts, LoadedContexts(s))
  BY <1>2, BytesSplit, Zenon
<1>7. Weight(ToSet(w)) + Shares(s.contexts, LoadedContexts(s)) + size <= MaxBytes
  BY DEF Room
<1> QED
  BY <1>4, <1>5, <1>6, <1>7

\* A session with one object more is good if the objects are placed, the heads own their
\* memory and the bytes are within the limit.
LEMMA AddedMoves ==
  ASSUME Sound, NEW s, Good(s), NEW size, NEW w, Room(s, w, size), NEW t, NEW o,
         Added(s, t, w, o), \A p \in ToSet(w) \cup {o} : Placed(t, p), HeadsOwn(t), Vacant(t),
         Bytes(t) <= MaxBytes
  PROVE  Moves(s, t)
<1>1. t \in SessionRecord /\ t.revision = s.revision + 1
  BY DEF Added
<1>2. /\ ToSet(t.objects) = ToSet(w) \cup {o} /\ Len(t.objects) <= MaxObjects
      /\ Numbered(t)
      /\ \A p \in ToSet(s.objects) : p.id \in Protected(s) => p \in ToSet(w)
  BY AddedObjects
<1>3. s \in SessionRecord /\ Distinct(s.objects) /\ Protected(s) \subseteq Retained(s)
  BY DEF Good, Numbered
<1>4. Protected(t) \subseteq Protected(s) \cup {o.id}
  BY DEF Protected, Bound, Heads, Added
<1>5. /\ Retained(t) = {p.id : p \in ToSet(w) \cup {o}}
      /\ Retained(s) = {p.id : p \in ToSet(s.objects)}
  BY <1>1, <1>2, <1>3, StoredIs DEF Numbered
<1>6. Protected(t) \subseteq Retained(t)
  BY <1>2, <1>3, <1>4, <1>5
<1>7. Good(t)
  BY <1>1, <1>2, <1>6 DEF Good, Limited
<1>8. \A c \in Ctx : s.contexts[c].loaded => t.contexts[c].loaded
  BY DEF Added
<1> QED
  BY <1>1, <1>7, <1>8 DEF Moves

\* An object stays placed while its context keeps its configuration and recipe.
LEMMA PlacedStays ==
  ASSUME NEW s, NEW t, NEW p, Placed(s, p),
         p.context # None => /\ t.contexts[p.context].loaded = s.contexts[p.context].loaded
                             /\ t.contexts[p.context].configuration = s.contexts[p.context].configuration
                             /\ t.contexts[p.context].recipe = s.contexts[p.context].recipe
  PROVE  Placed(t, p)
BY DEF Placed

\* A publication that succeeds leaves a good session if a value under a key was made by it on
\* the recipe of the context.
LEMMA PublishMoves ==
  ASSUME Sound, NEW s, Good(s), NEW value \in Value, NEW c \in Ctx \cup {None}, NEW bind,
         c # None => s.contexts[c].loaded,
         NEW activate \in BOOLEAN, activate => c # None, NEW key \in Setting \cup {None},
         c # None => Own(value, key, s.contexts[c].recipe),
         NEW extra \in Nat, NEW r, r = Publish(s, value, c, bind, activate, key, extra), r.ok
  PROVE  Moves(s, r.s)
<1>1. PICK w, o : /\ Room(s, w, SizeOf[value.kind] + Len(o.recipe) + extra)
                  /\ Added(s, r.s, w, o) /\ Issued(s, r.s, o, value, c, activate, key)
  BY PublishAdds
<1>2. PICK t : t = r.s
  OBVIOUS
<1>3. Added(s, t, w, o) /\ Issued(s, t, o, value, c, activate, key)
  BY <1>1, <1>2
<1>4. PICK size : size = SizeOf[value.kind] + Len(o.recipe) + extra
  OBVIOUS
<1>5. /\ o \in ObjectRecord /\ StoredBytes(o) = SizeOf[value.kind] + Len(o.recipe)
      /\ StoredBytes(o) \in Nat
  BY <1>3, BytesTypes DEF Added, Issued
<1>6. size \in Nat /\ size = StoredBytes(o) + extra /\ Room(s, w, size)
  BY <1>1, <1>4, <1>5
<1>7. s.contexts \in [Ctx -> ContextRecord] /\ ToSet(s.objects) \subseteq ObjectRecord
  BY SessionFields DEF Good
<1>8. \A d \in Ctx : /\ t.contexts[d].loaded = s.contexts[d].loaded
                     /\ t.contexts[d].configuration = s.contexts[d].configuration
                     /\ t.contexts[d].recipe = s.contexts[d].recipe
                     /\ (d # c \/ ~activate) => t.contexts[d] = s.contexts[d]
  BY <1>3 DEF Issued
<1>9. \A p \in ToSet(w) : p \in ToSet(s.objects) /\ p.id \in 1..s.minted
  BY <1>3, <1>6, AddedObjects
<1>10. ASSUME NEW p \in ToSet(w) PROVE Placed(t, p)
  <2>1. Placed(s, p) /\ p.context \in Ctx \cup {None}
    BY <1>7, <1>9 DEF Good, ObjectRecord
  <2> QED
    BY <1>8, <2>1, PlacedStays
<1>11. Placed(t, o)
  <2>1. ASSUME o.context # None
        PROVE  /\ t.contexts[c].loaded /\ o.configuration = t.contexts[c].configuration
               /\ Own(o.value, o.key, t.contexts[c].recipe) /\ o.context = c
               /\ t.contexts[c].configuration \in Nat
    <3>1. c \in Ctx /\ o.context = c
      BY <1>3, <2>1 DEF Issued
    <3>2. s.contexts[c].configuration \in Nat
      BY <1>7, <3>1 DEF ContextRecord
    <3> QED
      BY <1>3, <1>8, <2>1, <3>1, <3>2 DEF Issued
  <2> QED
    BY <2>1 DEF Placed
<1>12. HeadsOwn(t)
  <2>1. ToSet(t.objects) = ToSet(w) \cup {o} /\ o.id \notin 1..s.minted
    BY <1>3, <1>6, AddedObjects
  <2>2. ASSUME NEW d \in Ctx, NEW p \in ToSet(t.objects), p.id = t.contexts[d].head
        PROVE  Own(p.value, t.contexts[d].key, t.contexts[d].recipe)
    <3>1. CASE d = c /\ activate
      <4>1. t.contexts[c].head = o.id /\ t.contexts[c].key = key /\ o.value = value
        BY <1>3, <3>1 DEF Issued
      <4>2. p = o
        BY <1>9, <2>1, <2>2, <3>1, <4>1
      <4> QED
        BY <1>8, <3>1, <4>1, <4>2
    <3>2. CASE d # c \/ ~activate
      <4>1. t.contexts[d] = s.contexts[d]
        BY <1>8, <3>2
      <4>2. CASE p \in ToSet(w)
        BY <1>9, <2>2, <4>1, <4>2 DEF Good, HeadsOwn
      <4>3. CASE p = o
        <5>1. o.id \in Protected(s)
          <6>1. s.contexts[d].head = o.id /\ o.id # None
            BY <1>5, <2>2, <4>1, <4>3 DEF Sound, ObjectRecord
          <6> QED
            BY <6>1 DEF Protected, Heads
        <5>2. o.id \in Retained(s)
          BY <5>1 DEF Good
        <5>3. o.id \in 1..s.minted
          BY <5>2 DEF Good, Numbered, Retained, ToSet
        <5> QED
          BY <2>1, <5>3
      <4> QED
        BY <2>1, <4>2, <4>3
    <3> QED
      BY <3>1, <3>2
  <2> QED
    BY <2>2 DEF HeadsOwn
<1>13. Vacant(t)
  <2>1. \A d \in Ctx : ~t.contexts[d].loaded => t.contexts[d] = s.contexts[d]
    BY <1>8
  <2> QED
    BY <1>8, <2>1 DEF Good, Vacant
<1>14. Bytes(t) <= MaxBytes
  <2>1. PICK a \in Nat, b \in Nat :
           /\ a + b + size <= MaxBytes
           /\ b = Shares(s.contexts, LoadedContexts(s))
           /\ Bytes(t) = a + StoredBytes(o) + Shares(t.contexts, LoadedContexts(s))
    BY <1>3, <1>6, AddedBytes
  <2>2. Shares(t.contexts, LoadedContexts(s)) = b
    <3>1. LoadedContexts(s) \in SUBSET Ctx
      BY DEF LoadedContexts
    <3>2. \A d \in LoadedContexts(s) : t.contexts[d].recipe = s.contexts[d].recipe
      BY <1>8, <3>1
    <3> QED
      BY <1>7, <2>1, <3>1, <3>2, SharesStay
  <2>3. MaxBytes \in Nat
    BY DEF Sound
  <2> QED
    BY <1>5, <1>6, <2>1, <2>2, <2>3
<1>15. \A p \in ToSet(w) \cup {o} : Placed(t, p)
  BY <1>10, <1>11
<1>16. Moves(s, t)
  BY <1>3, <1>6, <1>12, <1>13, <1>14, <1>15, AddedMoves
<1> QED
  BY <1>2, <1>16

-----------------------------------------------------------------------------
(* The operations.                                                         *)

\* The next revision of a session differs in nothing else.
LEMMA StepFields ==
  ASSUME NEW s \in SessionRecord
  PROVE  /\ Step(s) \in SessionRecord /\ Step(s).revision = s.revision + 1
         /\ Step(s).objects = s.objects /\ Step(s).contexts = s.contexts
         /\ Step(s).minted = s.minted /\ Step(s).bindings = s.bindings
         /\ Step(s).selected = s.selected
<1>1. PICK revision : revision = s.revision + 1
  OBVIOUS
<1>2. revision \in Nat
  BY <1>1 DEF SessionRecord
<1>3. Step(s) = [s EXCEPT !.revision = revision]
  BY <1>1 DEF Step
<1> QED
  BY <1>1, <1>2, <1>3 DEF SessionRecord

\* Using physical data leaves a good session.
LEMMA UseValueMoves ==
  ASSUME Sound, NEW s, Good(s), NEW c \in Ctx, s.contexts[c].loaded, NEW bind,
         UseValue(s, c, bind).ok
  PROVE  Moves(s, UseValue(s, c, bind).s)
<1>1. PICK value : value = Physical
  OBVIOUS
<1>2. value \in Value /\ Own(value, None, s.contexts[c].recipe)
  BY <1>1 DEF Physical, Value, Kind, Own
<1>3. PICK r : r = Publish(s, value, c, bind, TRUE, None, 0)
  OBVIOUS
<1>4. r = UseValue(s, c, bind) /\ c # None
  BY <1>1, <1>3 DEF UseValue, Sound
<1>5. Moves(s, r.s)
  BY <1>2, <1>3, <1>4, PublishMoves
<1> QED
  BY <1>4, <1>5

\* What is looked up of a good session is one of its objects.
LEMMA Lookup ==
  ASSUME NEW s, Good(s), NEW id, Resolves(s, id), NEW o, o = Stored(s, id)
  PROVE  /\ o \in ToSet(s.objects) /\ o \in ObjectRecord /\ o.id = id /\ Placed(s, o)
         /\ id \in Retained(s) /\ id \in Nat /\ o.key \in Setting \cup {None}
         /\ o.value \in Value /\ o.recipe \in Seq(Update) /\ o.configuration \in Nat
         /\ o.context \in Ctx \cup {None}
<1>1. id \in Retained(s) /\ s \in SessionRecord /\ Distinct(s.objects)
  BY DEF Resolves, Good, Numbered
<1>2. o \in ToSet(s.objects) /\ o.id = id /\ o \in ObjectRecord
  BY <1>1, StoredIs, SessionFields
<1>3. Placed(s, o)
  BY <1>2 DEF Good
<1> QED
  BY <1>1, <1>2, <1>3 DEF ObjectRecord

\* Using a reference keeps the key of method memory of the same configuration only.
LEMMA UseReferenceMoves ==
  ASSUME Sound, NEW s, Good(s), NEW c \in Ctx, s.contexts[c].loaded, NEW bind, NEW id,
         UseReference(s, id, c, bind).ok
  PROVE  Moves(s, UseReference(s, id, c, bind).s)
<1>1. PICK o : o = Stored(s, id)
  OBVIOUS
<1>2. PICK key : key = IF o.value.kind \in Memory /\ SameConfiguration(s, c, o) THEN o.key ELSE None
  OBVIOUS
<1>3. PICK r : r = Publish(s, o.value, c, bind, TRUE, key, 0)
  OBVIOUS
<1>4. Resolves(s, id) /\ r.ok /\ UseReference(s, id, c, bind) = r
  <2>1. UseReference(s, id, c, bind)
          = IF ~Resolves(s, id) \/ (o.value.kind = "state" /\ key = None) THEN Refused(s) ELSE r
    BY <1>1, <1>2, <1>3 DEF UseReference
  <2>2. ~Refused(s).ok
    BY DEF Refused
  <2> QED
    BY <2>1, <2>2
<1>5. /\ Placed(s, o) /\ o.key \in Setting \cup {None} /\ o.value \in Value
  BY <1>1, <1>4, Lookup
<1>6. c # None
  BY DEF Sound
<1>7. Own(o.value, key, s.contexts[c].recipe)
  <2>1. CASE key = None
    BY <2>1 DEF Own
  <2>2. CASE key # None
    <3>1. key = o.key /\ o.context = c /\ o.configuration = s.contexts[c].configuration
      BY <1>2, <2>2 DEF SameConfiguration
    <3> QED
      BY <1>5, <1>6, <3>1 DEF Placed
  <2> QED
    BY <2>1, <2>2
<1>8. key \in Setting \cup {None}
  BY <1>2, <1>5
<1>9. Moves(s, r.s)
  BY <1>3, <1>4, <1>5, <1>6, <1>7, <1>8, PublishMoves
<1> QED
  BY <1>4, <1>9

\* A session that keeps some of the objects, and those that are protected, is good.
LEMMA ShrinkMoves ==
  ASSUME Sound, NEW s, Good(s), NEW t \in SessionRecord,
         Distinct(t.objects), ToSet(t.objects) \subseteq ToSet(s.objects),
         Len(t.objects) <= Len(s.objects), t.contexts = s.contexts, t.minted = s.minted,
         t.revision = s.revision + 1, Protected(t) \subseteq Retained(t)
  PROVE  Moves(s, t)
<1>1. /\ ToSet(s.objects) \subseteq ObjectRecord /\ IsFiniteSet(ToSet(s.objects))
      /\ s.contexts \in [Ctx -> ContextRecord] /\ Len(s.objects) \in Nat /\ Len(t.objects) \in Nat
  BY SessionFields DEF Good
<1>2. Numbered(t)
  BY DEF Numbered, Good
<1>3. \A p \in ToSet(t.objects) : Placed(t, p)
  BY DEF Good, Placed
<1>4. HeadsOwn(t) /\ Vacant(t)
  BY DEF Good, HeadsOwn, Vacant
<1>5. Weight(ToSet(t.objects)) \in Nat /\ Weight(ToSet(s.objects)) \in Nat
      /\ Weight(ToSet(t.objects)) <= Weight(ToSet(s.objects))
  <2>1. \A o \in ToSet(s.objects) : StoredBytes(o) \in Nat
    BY <1>1, BytesTypes
  <2> QED
    BY <1>1, <2>1, WeightGrows
<1>6. LoadedContexts(t) = LoadedContexts(s) /\ LoadedContexts(s) \in SUBSET Ctx
  BY DEF LoadedContexts
<1>7. Shares(s.contexts, LoadedContexts(s)) \in Nat
  BY <1>1, <1>6, SharesType
<1>8. /\ Bytes(s) = Weight(ToSet(s.objects)) + Shares(s.contexts, LoadedContexts(s))
      /\ Bytes(t) = Weight(ToSet(t.objects)) + Shares(s.contexts, LoadedContexts(s))
  BY <1>6, BytesSplit, Zenon
<1>9. Len(s.objects) <= MaxObjects /\ Bytes(s) <= MaxBytes /\ MaxObjects \in Nat /\ MaxBytes \in Nat
  BY DEF Good, Limited, Sound
<1>10. Limited(t)
  BY <1>1, <1>5, <1>7, <1>8, <1>9 DEF Limited
<1> QED
  BY <1>2, <1>3, <1>4, <1>10 DEF Good, Moves

\* Binding a name to a retained object leaves a good session.
LEMMA BindWholeMoves ==
  ASSUME Sound, NEW s, Good(s), NEW n \in Name, NEW id, BindWhole(s, n, id).ok
  PROVE  Moves(s, BindWhole(s, n, id).s)
<1>1. PICK bindings : bindings = [s.bindings EXCEPT ![n] = id]
  OBVIOUS
<1>2. PICK t : t = Step([s EXCEPT !.bindings = bindings])
  OBVIOUS
<1>3. Resolves(s, id) /\ BindWhole(s, n, id).s = t
  <2>1. BindWhole(s, n, id)
          = IF ~Resolves(s, id) \/ Cardinality(Names(bindings)) > MaxObjects \/ Bytes(s) > MaxBytes
            THEN Refused(s) ELSE Done(t, id)
    BY <1>1, <1>2 DEF BindWhole
  <2>2. ~Refused(s).ok /\ Done(t, id).s = t
    BY DEF Refused, Done
  <2> QED
    BY <2>1, <2>2
<1>4. PICK o : o = Stored(s, id)
  OBVIOUS
<1>5. id \in Retained(s) /\ id \in Nat
  BY <1>3, <1>4, Lookup
<1>6. s \in SessionRecord /\ s.bindings \in [Name -> Nat \cup {None}] /\ s.revision \in Nat
  BY SessionFields DEF Good
<1>7. bindings \in [Name -> Nat \cup {None}] /\ \A m \in Name : bindings[m] \in {s.bindings[m], id}
  BY <1>1, <1>5, <1>6
<1>8. /\ t \in SessionRecord /\ t.objects = s.objects /\ t.contexts = s.contexts
      /\ t.minted = s.minted /\ t.revision = s.revision + 1 /\ t.bindings = bindings
  <2>1. PICK bound : bound = [s EXCEPT !.bindings = bindings]
    OBVIOUS
  <2>2. /\ bound \in SessionRecord /\ bound.objects = s.objects /\ bound.contexts = s.contexts
        /\ bound.minted = s.minted /\ bound.revision = s.revision /\ bound.bindings = bindings
    BY <1>6, <1>7, <2>1 DEF SessionRecord
  <2> QED
    BY <1>2, <2>1, <2>2, StepFields
<1>9. Protected(t) \subseteq Protected(s) \cup {id}
  BY <1>7, <1>8 DEF Protected, Bound, Heads
<1>10. Protected(t) \subseteq Retained(t)
  BY <1>5, <1>8, <1>9 DEF Good, Retained
<1>11. Len(t.objects) <= Len(s.objects) /\ Distinct(t.objects) /\ ToSet(t.objects) \subseteq ToSet(s.objects)
  BY <1>6, <1>8, SessionFields DEF Good, Numbered
<1>12. Moves(s, t)
  BY <1>8, <1>10, <1>11, ShrinkMoves
<1> QED
  BY <1>3, <1>12

\* Selecting a context leaves a good session.
LEMMA SelectMoves ==
  ASSUME Sound, NEW s, Good(s), NEW c \in Ctx, Select(s, c).ok
  PROVE  Moves(s, Select(s, c).s)
<1>1. PICK t : t = Step([s EXCEPT !.selected = c])
  OBVIOUS
<1>2. Select(s, c).s = t
  BY <1>1 DEF Select, Refused, Done
<1>3. s \in SessionRecord /\ s.revision \in Nat
  BY SessionFields DEF Good
<1>4. /\ t \in SessionRecord /\ t.objects = s.objects /\ t.contexts = s.contexts
      /\ t.minted = s.minted /\ t.revision = s.revision + 1 /\ t.bindings = s.bindings
  <2>1. PICK chosen : chosen = [s EXCEPT !.selected = c]
    OBVIOUS
  <2>2. /\ chosen \in SessionRecord /\ chosen.objects = s.objects /\ chosen.contexts = s.contexts
        /\ chosen.minted = s.minted /\ chosen.revision = s.revision
        /\ chosen.bindings = s.bindings
    BY <1>3, <2>1 DEF SessionRecord
  <2> QED
    BY <1>1, <2>1, <2>2, StepFields
<1>5. Protected(t) \subseteq Retained(t)
  BY <1>4 DEF Good, Retained, Protected, Bound, Heads
<1>6. Len(t.objects) <= Len(s.objects) /\ Distinct(t.objects) /\ ToSet(t.objects) \subseteq ToSet(s.objects)
  BY <1>3, <1>4, SessionFields DEF Good, Numbered
<1>7. Moves(s, t)
  BY <1>4, <1>5, <1>6, ShrinkMoves
<1> QED
  BY <1>2, <1>7

\* Releasing a name deletes an object that nothing else holds, and no other.
LEMMA ReleaseMoves ==
  ASSUME Sound, NEW s, Good(s), NEW n \in Name, Release(s, n).ok
  PROVE  Moves(s, Release(s, n).s)
<1>1. PICK id : id = s.bindings[n]
  OBVIOUS
<1>2. PICK bindings : bindings = [s.bindings EXCEPT ![n] = None]
  OBVIOUS
<1>3. PICK left : left = [s EXCEPT !.bindings = bindings]
  OBVIOUS
<1>4. PICK w : w = IF id \notin Protected(left) THEN Without(s.objects, {id}) ELSE s.objects
  OBVIOUS
<1>5. PICK t : t = Step([left EXCEPT !.objects = w])
  OBVIOUS
<1>6. s \in SessionRecord /\ s.bindings \in [Name -> Nat \cup {None}] /\ s.revision \in Nat
      /\ s.objects \in Seq(ObjectRecord) /\ Len(s.objects) \in Nat /\ Distinct(s.objects)
      /\ DOMAIN s.objects = 1..Len(s.objects)
  BY SessionFields DEF Good, Numbered
<1>7. bindings \in [Name -> Nat \cup {None}] /\ \A m \in Name : bindings[m] \in {s.bindings[m], None}
  BY <1>2, <1>6
<1>8. /\ left \in SessionRecord /\ left.objects = s.objects /\ left.contexts = s.contexts
      /\ left.minted = s.minted /\ left.revision = s.revision /\ left.bindings = bindings
  BY <1>3, <1>6, <1>7 DEF SessionRecord
<1>9. Release(s, n).s = t
  <2>1. left = [s EXCEPT !.bindings[n] = None]
    BY <1>2, <1>3, <1>6
  <2>2. Release(s, n)
          = IF id = None \/ (id \notin Protected(left) /\ id \notin Retained(s)) THEN Refused(s)
            ELSE Done(Step([left EXCEPT !.objects = IF id \notin Protected(left)
                                                    THEN Without(@, {id}) ELSE @]), None)
    BY <1>1, <2>1 DEF Release
  <2>3. Done(t, None).s = t /\ ~Refused(s).ok
    BY DEF Refused, Done
  <2>4. [left EXCEPT !.objects = w] = [left EXCEPT !.objects = IF id \notin Protected(left)
                                                    THEN Without(@, {id}) ELSE @]
    BY <1>4, <1>8
  <2> QED
    BY <1>5, <2>2, <2>3, <2>4
<1>10. /\ w \in Seq(ObjectRecord) /\ Distinct(w) /\ ToSet(w) \subseteq ToSet(s.objects)
       /\ Len(w) <= Len(s.objects)
       /\ \A o \in ToSet(s.objects) : o.id \in Protected(left) => o \in ToSet(w)
  <2>1. CASE id \in Protected(left)
    BY <1>4, <1>6, <2>1
  <2>2. CASE id \notin Protected(left)
    <3>1. Rest(w, Len(s.objects), s.objects, {id}, ObjectRecord)
      BY <1>4, <1>6, <2>2, WithoutRest
    <3>2. ToSet(w) = {o \in ToSet(s.objects) : o.id # id}
      BY <1>6, <3>1 DEF Rest, ToSet
    <3> QED
      BY <1>6, <2>2, <3>1, <3>2 DEF Rest
  <2> QED
    BY <2>1, <2>2
<1>11. /\ t \in SessionRecord /\ t.objects = w /\ t.contexts = s.contexts
       /\ t.minted = s.minted /\ t.revision = s.revision + 1 /\ t.bindings = bindings
  <2>1. PICK emptied : emptied = [left EXCEPT !.objects = w]
    OBVIOUS
  <2>2. /\ emptied \in SessionRecord /\ emptied.objects = w /\ emptied.contexts = s.contexts
        /\ emptied.minted = s.minted /\ emptied.revision = s.revision
        /\ emptied.bindings = bindings
    BY <1>8, <1>10, <2>1 DEF SessionRecord
  <2> QED
    BY <1>5, <2>1, <2>2, StepFields
<1>12. Protected(t) = Protected(left) /\ Protected(left) \subseteq Protected(s)
  BY <1>7, <1>8, <1>11 DEF Protected, Bound, Heads
<1>13. Protected(t) \subseteq Retained(t)
  <2>1. Protected(s) \subseteq {o.id : o \in ToSet(s.objects)}
    BY <1>6, StoredIs DEF Good
  <2>2. Retained(t) = {o.id : o \in ToSet(w)}
    BY <1>10, <1>11, StoredIs
  <2> QED
    BY <1>10, <1>12, <2>1, <2>2
<1>14. Moves(s, t)
  BY <1>10, <1>11, <1>13, ShrinkMoves
<1> QED
  BY <1>9, <1>14

\* A recipe longer by one update, or a context more without one, has one byte more.
LEMMA SharesOneMore ==
  ASSUME Sound, NEW f \in [Ctx -> ContextRecord], NEW h \in [Ctx -> ContextRecord],
         NEW L \in SUBSET Ctx, NEW c \in Ctx,
         \A d \in L \ {c} : h[d].recipe = f[d].recipe,
         \/ c \in L /\ Len(h[c].recipe) = Len(f[c].recipe) + 1
         \/ c \notin L /\ h[c].recipe = <<>>
  PROVE  Shares(f, L) \in Nat /\ Shares(h, L \cup {c}) = Shares(f, L) + 1
<1>1. PICK M : M = L \ {c}
  OBVIOUS
<1>2. M \in SUBSET Ctx /\ c \notin M /\ M \cup {c} = L \cup {c}
  BY <1>1
<1>3. IsFiniteSet(M)
  BY <1>2, SharesType
<1>4. \A d \in M \cup {c} : Share(f, d) \in Nat /\ Share(h, d) \in Nat
  BY <1>2, BytesTypes
<1>5. Shares(h, M) = Shares(f, M)
  BY <1>1, <1>2, SharesStay
<1>6. Shares(f, M) \in Nat /\ Shares(f, M \cup {c}) = Shares(f, M) + Share(f, c)
  BY <1>2, <1>3, <1>4, ShareAdd
<1>7. Shares(h, M \cup {c}) = Shares(h, M) + Share(h, c)
  BY <1>2, <1>3, <1>4, ShareAdd
<1>8. CASE c \in L
  <2>1. M \cup {c} = L
    BY <1>1, <1>8
  <2>2. Share(h, c) = Share(f, c) + 1
    <3>1. Len(h[c].recipe) = Len(f[c].recipe) + 1 /\ Len(f[c].recipe) \in Nat
      <4>1. f[c].recipe \in Seq(Update)
        BY DEF ContextRecord
      <4> QED
        BY <1>8, <4>1
    <3> QED
      BY <3>1 DEF Share
  <2>3. Share(f, c) \in Nat
    BY <1>4
  <2>4. Shares(f, L) = Shares(f, M) + Share(f, c)
    BY <1>6, <2>1, Zenon
  <2>5. Shares(h, L \cup {c}) = Shares(f, M) + Share(h, c)
    BY <1>2, <1>5, <1>7, Zenon
  <2> QED
    BY <1>6, <2>2, <2>3, <2>4, <2>5
<1>9. CASE c \notin L
  <2>1. M = L
    BY <1>1, <1>9
  <2>2. Share(h, c) = 1
    BY <1>9 DEF Share
  <2> QED
    BY <1>2, <1>5, <1>6, <1>7, <2>1, <2>2
<1> QED
  BY <1>8, <1>9

\* Loading a context leaves a good session.
LEMMA LoadContextMoves ==
  ASSUME Sound, NEW s, Good(s), NEW c \in Ctx, NEW factory \in BOOLEAN, NEW select \in BOOLEAN,
         LoadContext(s, c, factory, select).ok
  PROVE  Moves(s, LoadContext(s, c, factory, select).s)
<1>1. PICK x : x = [Unloaded EXCEPT !.loaded = TRUE, !.factory = factory]
  OBVIOUS
<1>2. PICK contexts : contexts = [s.contexts EXCEPT ![c] = x]
  OBVIOUS
<1>3. PICK selected : selected = IF select THEN c ELSE s.selected
  OBVIOUS
<1>4. PICK u : u = [s EXCEPT !.contexts = contexts, !.selected = selected]
  OBVIOUS
<1>5. PICK t : t = Step(u)
  OBVIOUS
<1>6. s \in SessionRecord /\ s.contexts \in [Ctx -> ContextRecord] /\ s.selected \in Ctx \cup {None}
  BY SessionFields DEF Good
<1>7. /\ ~s.contexts[c].loaded /\ ~(Bytes(s) + 1 > MaxBytes)
      /\ LoadContext(s, c, factory, select).s = t
  <2>1. LoadContext(s, c, factory, select)
          = IF \/ s.contexts[c].loaded
               \/ Cardinality(LoadedContexts(s)) >= MaxObjects
               \/ Bytes(s) + 1 > MaxBytes
            THEN Refused(s) ELSE Done(t, None)
    <3>1. u = [s EXCEPT !.contexts[c] = [Unloaded EXCEPT !.loaded = TRUE, !.factory = factory],
                        !.selected = IF select THEN c ELSE @]
      BY <1>1, <1>2, <1>3, <1>4, <1>6
    <3> QED
      BY <1>5, <3>1 DEF LoadContext
  <2>2. ~Refused(s).ok /\ Done(t, None).s = t
    BY DEF Refused, Done
  <2> QED
    BY <2>1, <2>2
<1>8. /\ x \in ContextRecord /\ x.loaded /\ x.head = None /\ x.key = None /\ x.recipe = <<>>
  <2>1. <<>> \in Seq(Update)
    OBVIOUS
  <2> QED
    BY <1>1, <2>1 DEF Unloaded, ContextRecord
<1>9. contexts \in [Ctx -> ContextRecord] /\ contexts[c] = x /\ \A d \in Ctx \ {c} : contexts[d] = s.contexts[d]
  BY <1>2, <1>6, <1>8
<1>10. /\ u \in SessionRecord /\ u.objects = s.objects /\ u.contexts = contexts
       /\ u.minted = s.minted /\ u.revision = s.revision /\ u.bindings = s.bindings
  <2>1. selected \in Ctx \cup {None}
    BY <1>3, <1>6
  <2> QED
    BY <1>4, <1>6, <1>9, <2>1 DEF SessionRecord
<1>11. /\ t \in SessionRecord /\ t.objects = s.objects /\ t.contexts = contexts
       /\ t.minted = s.minted /\ t.revision = s.revision + 1 /\ t.bindings = s.bindings
  BY <1>5, <1>10, StepFields
<1>12. Numbered(t)
  BY <1>11 DEF Good, Numbered
<1>13. Protected(t) \subseteq Protected(s)
  BY <1>8, <1>9, <1>11 DEF Protected, Bound, Heads
<1>14. Protected(t) \subseteq Retained(t)
  BY <1>11, <1>13 DEF Good, Retained
<1>15. ASSUME NEW p \in ToSet(t.objects) PROVE Placed(t, p)
  <2>1. Placed(s, p) /\ p \in ObjectRecord
    BY <1>6, <1>11, SessionFields DEF Good
  <2>2. p.context \in Ctx \cup {None}
    BY <2>1 DEF ObjectRecord
  <2>3. p.context # None => p.context # c
    BY <1>7, <2>1 DEF Placed
  <2>4. p.context # None => t.contexts[p.context] = s.contexts[p.context]
    BY <1>9, <1>11, <2>2, <2>3
  <2> QED
    BY <2>1, <2>4, PlacedStays
<1>16. HeadsOwn(t)
  <2>1. ASSUME NEW d \in Ctx, NEW p \in ToSet(t.objects), p.id = t.contexts[d].head
        PROVE  Own(p.value, t.contexts[d].key, t.contexts[d].recipe)
    <3>1. CASE d = c
      BY <1>8, <1>9, <1>11, <3>1 DEF Own
    <3>2. CASE d # c
      BY <1>9, <1>11, <2>1, <3>2 DEF Good, HeadsOwn
    <3> QED
      BY <3>1, <3>2
  <2> QED
    BY <2>1 DEF HeadsOwn
<1>17. Vacant(t)
  BY <1>8, <1>9, <1>11 DEF Good, Vacant
<1>18. Limited(t)
  <2>1. LoadedContexts(t) = LoadedContexts(s) \cup {c} /\ LoadedContexts(s) \in SUBSET Ctx
        /\ c \notin LoadedContexts(s)
    BY <1>7, <1>8, <1>9, <1>11 DEF LoadedContexts
  <2>2. /\ Shares(s.contexts, LoadedContexts(s)) \in Nat
        /\ Shares(contexts, LoadedContexts(s) \cup {c}) = Shares(s.contexts, LoadedContexts(s)) + 1
    <3>1. s.contexts \in [Ctx -> ContextRecord] /\ contexts \in [Ctx -> ContextRecord]
      BY <1>6, <1>8, <1>9
    <3>2. PICK f : f = s.contexts
      OBVIOUS
    <3>3. PICK L : L = LoadedContexts(s)
      OBVIOUS
    <3>4. L \in SUBSET Ctx /\ c \notin L /\ f \in [Ctx -> ContextRecord]
      BY <2>1, <3>1, <3>2, <3>3
    <3>5. \A d \in L \ {c} : contexts[d].recipe = f[d].recipe
      BY <1>9, <3>2, <3>4
    <3>6. \/ c \in L /\ Len(contexts[c].recipe) = Len(f[c].recipe) + 1
          \/ c \notin L /\ contexts[c].recipe = <<>>
      BY <1>8, <1>9, <3>4
    <3>7. Shares(f, L) \in Nat /\ Shares(contexts, L \cup {c}) = Shares(f, L) + 1
      BY <3>1, <3>4, <3>5, <3>6, SharesOneMore
    <3> QED
      BY <3>2, <3>3, <3>7
  <2>3. /\ Bytes(s) = Weight(ToSet(s.objects)) + Shares(s.contexts, LoadedContexts(s))
        /\ Bytes(t) = Weight(ToSet(s.objects)) + Shares(contexts, LoadedContexts(s) \cup {c})
    BY <1>11, <2>1, BytesSplit, Zenon
  <2>4. Weight(ToSet(s.objects)) \in Nat
    BY <1>6, WeightType
  <2>5. Bytes(t) <= MaxBytes
    BY <1>7, <2>2, <2>3, <2>4 DEF Sound
  <2> QED
    BY <1>11, <2>5 DEF Good, Limited
<1>19. Good(t)
  BY <1>11, <1>12, <1>14, <1>15, <1>16, <1>17, <1>18 DEF Good
<1>20. \A d \in Ctx : s.contexts[d].loaded => t.contexts[d].loaded
  BY <1>8, <1>9, <1>11
<1>21. Moves(s, t)
  BY <1>11, <1>19, <1>20 DEF Moves
<1> QED
  BY <1>7, <1>21

\* The last of a sequence with one object more can be replaced.
LEMMA ReplaceLast ==
  ASSUME NEW R, NEW w \in Seq(R), NEW o \in R, NEW p \in R
  PROVE  /\ Len(Append(w, o)) = Len(w) + 1 /\ Append(w, o)[Len(w) + 1] = o
         /\ [Append(w, o) EXCEPT ![Len(w) + 1] = p] = Append(w, p)
<1>1. PICK z : z = Append(w, o)
  OBVIOUS
<1>2. PICK y : y = Append(w, p)
  OBVIOUS
<1>3. PICK x : x = [z EXCEPT ![Len(w) + 1] = p]
  OBVIOUS
<1>4. /\ z \in Seq(R) /\ y \in Seq(R) /\ Len(w) \in Nat /\ Len(z) = Len(w) + 1 /\ Len(y) = Len(w) + 1
      /\ DOMAIN z = 1..(Len(w) + 1) /\ DOMAIN y = 1..(Len(w) + 1)
      /\ \A i \in 1..Len(w) : z[i] = w[i] /\ y[i] = w[i]
      /\ z[Len(w) + 1] = o /\ y[Len(w) + 1] = p
  BY <1>1, <1>2
<1>5. x \in Seq(R) /\ Len(x) = Len(w) + 1 /\ \A i \in 1..(Len(w) + 1) : x[i] = y[i]
  <2>1. Len(w) + 1 \in 1..Len(z)
    BY <1>4
  <2>2. /\ x \in Seq(R) /\ Len(x) = Len(z)
        /\ \A i \in 1..Len(z) : x[i] = IF i = Len(w) + 1 THEN p ELSE z[i]
    BY <1>3, <1>4, <2>1, ExceptSeq
  <2> QED
    BY <1>4, <2>2
<1>6. x = y
  BY <1>4, <1>5, SeqEqual
<1> QED
  BY <1>1, <1>2, <1>3, <1>4, <1>6

\* Binding a field of an object keeps the provenance of the object.
LEMMA BindFieldMoves ==
  ASSUME Sound, NEW s, Good(s), NEW n \in Name, NEW id,
         NEW field, field \in FieldsOf(Stored(s, id).value), BindField(s, n, id, field).ok
  PROVE  Moves(s, BindField(s, n, id, field).s)
<1>1. PICK source : source = Stored(s, id)
  OBVIOUS
<1>2. PICK extra : extra = Len(source.recipe)
  OBVIOUS
<1>3. PICK r : r = Publish(s, field, None, n, FALSE, source.key, extra)
  OBVIOUS
<1>4. PICK object : object = [id |-> r.id, value |-> field, context |-> source.context,
                              key |-> source.key, recipe |-> source.recipe,
                              configuration |-> source.configuration]
  OBVIOUS
<1>5. PICK t : t = [r.s EXCEPT !.objects[Len(r.s.objects)] = object]
  OBVIOUS
<1>6. Resolves(s, id) /\ r.ok /\ BindField(s, n, id, field).s = t
  <2>1. BindField(s, n, id, field)
          = IF ~Resolves(s, id) \/ ~r.ok THEN Refused(s) ELSE Done(t, r.id)
    BY <1>1, <1>2, <1>3, <1>4, <1>5 DEF BindField
  <2>2. ~Refused(s).ok /\ Done(t, r.id).s = t
    BY DEF Refused, Done
  <2> QED
    BY <2>1, <2>2
<1>7. /\ source \in ToSet(s.objects) /\ Placed(s, source) /\ source.key \in Setting \cup {None}
      /\ source.value \in Value /\ source.recipe \in Seq(Update) /\ source.configuration \in Nat
      /\ source.context \in Ctx \cup {None}
  BY <1>1, <1>6, Lookup
<1>8. extra \in Nat
  BY <1>2, <1>7
<1>9. field \in Value /\ (field = source.value \/ field.kind \notin Memory)
  <2>1. Physical \in Value /\ Physical.kind \notin Memory
    BY DEF Physical, Value, Kind, Memory
  <2> QED
    BY <1>1, <1>7, <2>1 DEF FieldsOf
<1>10. \A recipe : Own(source.value, source.key, recipe) => Own(field, source.key, recipe)
  BY <1>9 DEF Own
<1>11. PICK w, o : /\ Room(s, w, SizeOf[field.kind] + Len(o.recipe) + extra)
                   /\ Added(s, r.s, w, o) /\ Issued(s, r.s, o, field, None, FALSE, source.key)
                   /\ r.id = o.id
  <2>1. PICK off \in BOOLEAN : off = FALSE
    OBVIOUS
  <2>2. PICK no \in Ctx \cup {None} : no = None
    OBVIOUS
  <2>3. r = Publish(s, field, no, n, off, source.key, extra) /\ (off => no # None)
    BY <1>3, <2>1, <2>2
  <2>4. \E w, o : /\ Room(s, w, SizeOf[field.kind] + Len(o.recipe) + extra)
                  /\ Added(s, r.s, w, o) /\ Issued(s, r.s, o, field, no, off, source.key)
                  /\ r.id = o.id
    BY <1>6, <1>7, <1>8, <1>9, <2>3, PublishAdds
  <2> QED
    BY <2>1, <2>2, <2>4
<1>12. o.recipe = <<>> /\ r.s.contexts = s.contexts
  BY <1>11 DEF Issued
<1>13. /\ r.s \in SessionRecord /\ r.s.objects = Append(w, o) /\ o \in ObjectRecord /\ o.id \in Nat
       /\ w \in Seq(ObjectRecord)
  BY <1>11 DEF Added, Room, ObjectRecord
<1>14. /\ object \in ObjectRecord /\ object.id = o.id /\ object.value = field
       /\ object.context = source.context /\ object.key = source.key
       /\ object.recipe = source.recipe /\ object.configuration = source.configuration
  BY <1>4, <1>7, <1>9, <1>11, <1>13 DEF ObjectRecord
<1>15. PICK objects : objects = Append(w, object)
  OBVIOUS
<1>16. objects \in Seq(ObjectRecord)
  BY <1>13, <1>14, <1>15, AppendSet
<1>17. t = [r.s EXCEPT !.objects = objects]
  <2>1. PICK q : q = r.s.objects
    OBVIOUS
  <2>2. Len(q) = Len(w) + 1 /\ [q EXCEPT ![Len(w) + 1] = object] = objects
    BY <1>13, <1>14, <1>15, <2>1, ReplaceLast
  <2>3. [q EXCEPT ![Len(q)] = object] = objects
    BY <2>2
  <2> QED
    BY <1>5, <1>13, <2>1, <2>3 DEF SessionRecord
<1>18. /\ t \in SessionRecord /\ t.objects = objects /\ t.contexts = s.contexts
       /\ t.minted = r.s.minted /\ t.revision = r.s.revision /\ t.bindings = r.s.bindings
  BY <1>12, <1>13, <1>16, <1>17 DEF SessionRecord
<1>19. Added(s, t, w, object)
  BY <1>11, <1>14, <1>15, <1>18 DEF Added
<1>20. PICK size : size = SizeOf[field.kind] + extra
  OBVIOUS
<1>21. StoredBytes(object) = size /\ size \in Nat /\ Room(s, w, size)
  <2>1. StoredBytes(object) = SizeOf[field.kind] + Len(source.recipe) /\ StoredBytes(object) \in Nat
    BY <1>14, BytesTypes
  <2>2. SizeOf[field.kind] \in Nat
    BY <1>9 DEF Value, Sound
  <2>3. SizeOf[field.kind] + Len(o.recipe) + extra = size
    BY <1>8, <1>12, <1>20, <2>2
  <2> QED
    BY <1>2, <1>11, <1>20, <2>1, <2>3
<1>22. s.contexts \in [Ctx -> ContextRecord] /\ ToSet(s.objects) \subseteq ObjectRecord
  BY SessionFields DEF Good
<1>23. ToSet(w) \subseteq ToSet(s.objects)
  BY <1>11 DEF Room
<1>24. ASSUME NEW p \in ToSet(w) \cup {object} PROVE Placed(t, p)
  <2>1. CASE p \in ToSet(w)
    BY <1>18, <1>23, <2>1 DEF Good, Placed
  <2>2. CASE p = object
    BY <1>7, <1>10, <1>14, <1>18, <2>2 DEF Placed
  <2> QED
    BY <2>1, <2>2
<1>25. HeadsOwn(t)
  <2>1. /\ ToSet(t.objects) = ToSet(w) \cup {object} /\ object.id \notin 1..s.minted
    BY <1>19, <1>21, AddedObjects
  <2>2. ASSUME NEW d \in Ctx, NEW p \in ToSet(t.objects), p.id = t.contexts[d].head
        PROVE  Own(p.value, t.contexts[d].key, t.contexts[d].recipe)
    <3>1. CASE p \in ToSet(w)
      BY <1>18, <1>23, <2>2, <3>1 DEF Good, HeadsOwn
    <3>2. CASE p = object
      <4>1. object.id \in Protected(s)
        BY <1>13, <1>14, <1>18, <2>2, <3>2 DEF Protected, Heads, Sound
      <4>2. object.id \in 1..s.minted
        BY <4>1 DEF Good, Numbered, Retained, ToSet
      <4> QED
        BY <2>1, <4>2
    <3> QED
      BY <2>1, <3>1, <3>2
  <2> QED
    BY <2>2 DEF HeadsOwn
<1>26. Vacant(t)
  BY <1>18 DEF Good, Vacant
<1>27. Bytes(t) <= MaxBytes
  <2>1. PICK a \in Nat, b \in Nat :
           /\ a + b + size <= MaxBytes
           /\ b = Shares(s.contexts, LoadedContexts(s))
           /\ Bytes(t) = a + StoredBytes(object) + Shares(t.contexts, LoadedContexts(s))
    BY <1>19, <1>21, AddedBytes
  <2> QED
    BY <1>18, <1>21, <2>1 DEF Sound
<1>28. Moves(s, t)
  BY <1>19, <1>21, <1>24, <1>25, <1>26, <1>27, AddedMoves
<1> QED
  BY <1>6, <1>28

\* Context c of t has the next configuration of s, no key, and recipe; the other contexts
\* are those of s.
Reconfigured(s, t, c, recipe) ==
  /\ \A d \in Ctx \ {c} : t.contexts[d] = s.contexts[d]
  /\ t.contexts[c].loaded = s.contexts[c].loaded
  /\ t.contexts[c].configuration = s.contexts[c].configuration + 1
  /\ t.contexts[c].key = None
  /\ t.contexts[c].recipe = recipe

\* An update leaves the objects placed, and heads own their memory: that of the context
\* updated has no key any more.
LEMMA ReconfiguredKeeps ==
  ASSUME NEW s, Good(s), NEW t, NEW c \in Ctx, NEW recipe, Reconfigured(s, t, c, recipe),
         NEW p \in ToSet(s.objects)
  PROVE  /\ Placed(t, p)
         /\ \A d \in Ctx : p.id = t.contexts[d].head /\ (d = c => t.contexts[d].key = None)
              => Own(p.value, t.contexts[d].key, t.contexts[d].recipe)
<1>1. /\ p \in ObjectRecord /\ Placed(s, p) /\ s.contexts[c] \in ContextRecord
  BY SessionFields DEF Good
<1>2. p.context \in Ctx \cup {None} /\ p.configuration \in Nat /\ s.contexts[c].configuration \in Nat
  BY <1>1 DEF ObjectRecord, ContextRecord
<1>3. Placed(t, p)
  <2>1. CASE p.context = c
    <3>1. p.context # None => /\ s.contexts[c].loaded /\ p.configuration <= s.contexts[c].configuration
      BY <1>1, <2>1 DEF Placed
    <3>2. p.context # None => /\ t.contexts[c].loaded
                              /\ p.configuration <= t.contexts[c].configuration
                              /\ p.configuration # t.contexts[c].configuration
      BY <1>2, <3>1 DEF Reconfigured
    <3> QED
      BY <2>1, <3>2 DEF Placed
  <2>2. CASE p.context # c
    <3>1. p.context # None => t.contexts[p.context] = s.contexts[p.context]
      BY <1>2, <2>2 DEF Reconfigured
    <3> QED
      BY <1>1, <3>1, PlacedStays
  <2> QED
    BY <2>1, <2>2
<1>4. ASSUME NEW d \in Ctx, p.id = t.contexts[d].head
      PROVE  Own(p.value, t.contexts[d].key, t.contexts[d].recipe)
  <2>1. CASE d = c
    BY <2>1 DEF Own, Reconfigured
  <2>2. CASE d # c
    BY <1>4, <2>2 DEF Reconfigured, Good, HeadsOwn
  <2> QED
    BY <2>1, <2>2
<1> QED
  BY <1>3, <1>4

\* The three changes of an update, to the contexts f and to the session s.
Reset(h, f, c, recipe) ==
  h = [f EXCEPT ![c].configuration = @ + 1, ![c].key = None, ![c].recipe = recipe]
ResetSession(t, s, c, recipe) ==
  t = [s EXCEPT !.contexts[c].configuration = @ + 1,
                !.contexts[c].key = None, !.contexts[c].recipe = recipe]

\* The two changes of an update, to an object and to the object k of the session s.
Moved(o, p, a, b) == o = [[p EXCEPT !.configuration = a] EXCEPT !.recipe = b]
MovedIn(t, s, k, a, b) ==
  t = [s EXCEPT !.objects[k].configuration = a, !.objects[k].recipe = b]
Put(z, q, k, o) == z = [q EXCEPT ![k] = o]

\* An update changes its context only, and no more of it than that.
LEMMA UpdatedContexts ==
  ASSUME NEW f \in [Ctx -> ContextRecord], NEW c \in Ctx, NEW recipe \in Seq(Update),
         NEW h, Reset(h, f, c, recipe)
  PROVE  /\ h \in [Ctx -> ContextRecord] /\ \A d \in Ctx \ {c} : h[d] = f[d]
         /\ h[c].loaded = f[c].loaded /\ h[c].configuration = f[c].configuration + 1
         /\ h[c].key = None /\ h[c].recipe = recipe /\ h[c].head = f[c].head
         /\ h[c].factory = f[c].factory
<1>1. f[c] \in ContextRecord
  OBVIOUS
<1>2. PICK configuration : configuration = f[c].configuration + 1
  OBVIOUS
<1>3. configuration \in Nat
  BY <1>1, <1>2 DEF ContextRecord
<1>4. PICK x : x = [[[f[c] EXCEPT !.configuration = configuration] EXCEPT !.key = None]
                      EXCEPT !.recipe = recipe]
  OBVIOUS
<1>5. h = [f EXCEPT ![c] = x]
  BY <1>1, <1>2, <1>4 DEF ContextRecord, Reset
<1>6. /\ x \in ContextRecord /\ x.loaded = f[c].loaded /\ x.configuration = configuration
      /\ x.key = None /\ x.recipe = recipe /\ x.head = f[c].head /\ x.factory = f[c].factory
  BY <1>1, <1>3, <1>4 DEF ContextRecord
<1>7. h \in [Ctx -> ContextRecord] /\ h[c] = x /\ \A d \in Ctx \ {c} : h[d] = f[d]
  BY <1>5, <1>6
<1> QED
  BY <1>2, <1>6, <1>7

\* Changes of one context of a session are changes of its contexts.
LEMMA ContextExcept ==
  ASSUME NEW s \in SessionRecord, NEW c, NEW recipe, NEW h, Reset(h, s.contexts, c, recipe),
         NEW t, ResetSession(t, s, c, recipe)
  PROVE  t = [s EXCEPT !.contexts = h]
BY DEF SessionRecord, Reset, ResetSession

\* Changes of one object of a session are changes of its objects.
LEMMA ObjectExcept ==
  ASSUME NEW s \in SessionRecord, NEW k \in DOMAIN s.objects, NEW a, NEW b,
         NEW o, Moved(o, s.objects[k], a, b), NEW t, MovedIn(t, s, k, a, b),
         NEW z, Put(z, s.objects, k, o)
  PROVE  t = [s EXCEPT !.objects = z]
BY DEF SessionRecord, Moved, MovedIn, Put

\* The steps of an update that succeeds.
LEMMA UpdateSteps ==
  ASSUME NEW s, NEW c, NEW u, UpdateContext(s, c, u).ok
  PROVE  \E old, recipe, r, updated, last, t :
           /\ old = s.contexts[c] /\ recipe = Append(old.recipe, u)
           /\ r = IF old.head = None THEN Done(Step(s), None)
                  ELSE Publish(s, Physical, c, None, TRUE, None, 2)
           /\ ResetSession(updated, r.s, c, recipe) /\ last = Len(r.s.objects)
           /\ old.head = None => t = updated
           /\ old.head # None => MovedIn(t, updated, last, old.configuration + 1, recipe)
           /\ old.factory /\ ~(Bytes(s) + 1 > MaxBytes) /\ r.ok /\ UpdateContext(s, c, u).s = t
<1> DEFINE old == s.contexts[c]
           recipe == Append(old.recipe, u)
           r == IF old.head = None THEN Done(Step(s), None)
                ELSE Publish(s, Physical, c, None, TRUE, None, 2)
           updated == [r.s EXCEPT !.contexts[c].configuration = @ + 1,
                                  !.contexts[c].key = None, !.contexts[c].recipe = recipe]
           last == Len(r.s.objects)
           t == IF old.head = None THEN updated
                ELSE [updated EXCEPT !.objects[last].configuration = old.configuration + 1,
                                     !.objects[last].recipe = recipe]
<1>1. UpdateContext(s, c, u)
          = IF ~old.factory \/ Bytes(s) + 1 > MaxBytes \/ ~r.ok THEN Refused(s) ELSE Done(t, None)
  BY Zenon DEF UpdateContext
<1> HIDE DEF old, recipe, r, updated, last, t
<1>2. ~Refused(s).ok /\ Done(t, None).s = t
  BY DEF Refused, Done
<1>3. old.factory /\ ~(Bytes(s) + 1 > MaxBytes) /\ r.ok /\ UpdateContext(s, c, u).s = t
  BY <1>1, <1>2
<1>4. ResetSession(updated, r.s, c, recipe)
  BY Zenon DEF updated, ResetSession
<1>5. /\ old.head = None => t = updated
      /\ old.head # None => MovedIn(t, updated, last, old.configuration + 1, recipe)
  BY Zenon DEF t, MovedIn
<1>6. /\ old = s.contexts[c] /\ recipe = Append(old.recipe, u) /\ last = Len(r.s.objects)
      /\ r = IF old.head = None THEN Done(Step(s), None)
             ELSE Publish(s, Physical, c, None, TRUE, None, 2)
  BY Zenon DEF old, recipe, last, r
<1> QED
  BY <1>3, <1>4, <1>5, <1>6, Zenon

\* An update leaves a good session: the input is retained under the new recipe, whose bytes
\* the publication made room for, and no memory of the context under the old one is continued.
LEMMA UpdateContextMoves ==
  ASSUME Sound, NEW s, Good(s), NEW c \in Ctx, NEW u \in Update, UpdateContext(s, c, u).ok
  PROVE  Moves(s, UpdateContext(s, c, u).s)
<1>1. PICK old, recipe, r, updated, last, t :
           /\ old = s.contexts[c] /\ recipe = Append(old.recipe, u)
           /\ r = IF old.head = None THEN Done(Step(s), None)
                  ELSE Publish(s, Physical, c, None, TRUE, None, 2)
           /\ ResetSession(updated, r.s, c, recipe) /\ last = Len(r.s.objects)
           /\ old.head = None => t = updated
           /\ old.head # None => MovedIn(t, updated, last, old.configuration + 1, recipe)
           /\ old.factory /\ ~(Bytes(s) + 1 > MaxBytes) /\ r.ok /\ UpdateContext(s, c, u).s = t
  BY UpdateSteps, Zenon
<1>2. recipe = Append(old.recipe, u) /\ old = s.contexts[c]
  BY <1>1
<1>3. r = IF old.head = None THEN Done(Step(s), None)
          ELSE Publish(s, Physical, c, None, TRUE, None, 2)
  BY <1>1
<1>4. PICK f : f = r.s.contexts
  OBVIOUS
<1>5. PICK contexts : Reset(contexts, f, c, recipe)
  BY DEF Reset
<1>6. r.s \in SessionRecord => updated = [r.s EXCEPT !.contexts = contexts]
  BY <1>1, <1>4, <1>5, ContextExcept
<1>7. /\ old.head = None => t = updated
      /\ old.head # None => MovedIn(t, updated, last, old.configuration + 1, recipe)
  BY <1>1
<1>8. old.factory /\ ~(Bytes(s) + 1 > MaxBytes) /\ r.ok /\ UpdateContext(s, c, u).s = t
  BY <1>1
<1>9. /\ s \in SessionRecord /\ s.contexts \in [Ctx -> ContextRecord] /\ old \in ContextRecord
      /\ ToSet(s.objects) \subseteq ObjectRecord /\ s.minted \in Nat
  BY <1>2, SessionFields DEF Good
<1>10. /\ recipe \in Seq(Update) /\ Len(recipe) = Len(old.recipe) + 1 /\ Len(old.recipe) \in Nat
       /\ old.configuration \in Nat
  <2>1. old.recipe \in Seq(Update) /\ old.configuration \in Nat
    BY <1>9 DEF ContextRecord
  <2> QED
    BY <1>2, <2>1
<1>11. old.loaded
  BY <1>2, <1>8 DEF Good, Vacant, Unloaded
<1>12. c \in LoadedContexts(s) /\ LoadedContexts(s) \in SUBSET Ctx
  BY <1>2, <1>11 DEF LoadedContexts
<1>13. CASE old.head = None
  <2>1. r.s = Step(s) /\ t = updated
    BY <1>3, <1>7, <1>13 DEF Done
  <2>2. /\ r.s \in SessionRecord /\ r.s.contexts = s.contexts /\ r.s.objects = s.objects
        /\ r.s.minted = s.minted /\ r.s.bindings = s.bindings /\ r.s.revision = s.revision + 1
    BY <1>9, <2>1, StepFields
  <2>3. updated = [r.s EXCEPT !.contexts = contexts] /\ f = s.contexts
    BY <1>4, <1>6, <2>2
  <2>4. /\ contexts \in [Ctx -> ContextRecord] /\ \A d \in Ctx \ {c} : contexts[d] = s.contexts[d]
        /\ contexts[c].loaded = old.loaded /\ contexts[c].configuration = old.configuration + 1
        /\ contexts[c].key = None /\ contexts[c].recipe = recipe /\ contexts[c].head = old.head
    <3>1. f \in [Ctx -> ContextRecord] /\ f = s.contexts /\ f[c] = old
      BY <1>2, <1>9, <2>3
    <3>2. /\ contexts \in [Ctx -> ContextRecord] /\ \A d \in Ctx \ {c} : contexts[d] = f[d]
          /\ contexts[c].loaded = f[c].loaded /\ contexts[c].configuration = f[c].configuration + 1
          /\ contexts[c].key = None /\ contexts[c].recipe = recipe /\ contexts[c].head = f[c].head
      BY <1>5, <1>10, <3>1, UpdatedContexts
    <3> QED
      BY <3>1, <3>2
  <2>5. /\ t \in SessionRecord /\ t.objects = s.objects /\ t.contexts = contexts
        /\ t.minted = s.minted /\ t.bindings = s.bindings /\ t.revision = s.revision + 1
    BY <2>1, <2>2, <2>3, <2>4 DEF SessionRecord
  <2>6. Reconfigured(s, t, c, recipe)
    BY <1>2, <2>4, <2>5 DEF Reconfigured
  <2>7. (\A p \in ToSet(t.objects) : Placed(t, p)) /\ HeadsOwn(t)
    BY <2>4, <2>5, <2>6, ReconfiguredKeeps DEF HeadsOwn
  <2>8. \A d \in Ctx : /\ contexts[d].head = s.contexts[d].head
                       /\ contexts[d].loaded = s.contexts[d].loaded
    BY <1>2, <2>4
  <2>9. Protected(t) \subseteq Retained(t) /\ Numbered(t) /\ LoadedContexts(t) = LoadedContexts(s)
    BY <2>5, <2>8 DEF Good, Numbered, Protected, Bound, Heads, Retained, LoadedContexts
  <2>10. Vacant(t)
    BY <1>2, <1>11, <2>4, <2>5, <2>8 DEF Good, Vacant
  <2>11. Bytes(t) <= MaxBytes
    <3>1. /\ Shares(s.contexts, LoadedContexts(s)) \in Nat
          /\ Shares(contexts, LoadedContexts(s) \cup {c}) = Shares(s.contexts, LoadedContexts(s)) + 1
      <4>1. Len(contexts[c].recipe) = Len(s.contexts[c].recipe) + 1
        BY <1>2, <1>10, <2>4
      <4>2. \A d \in LoadedContexts(s) \ {c} : contexts[d].recipe = s.contexts[d].recipe
        BY <1>12, <2>4
      <4> QED
        BY <1>9, <1>12, <2>4, <4>1, <4>2, SharesOneMore
    <3>2. LoadedContexts(s) \cup {c} = LoadedContexts(s)
      BY <1>12
    <3>3. /\ Bytes(s) = Weight(ToSet(s.objects)) + Shares(s.contexts, LoadedContexts(s))
          /\ Bytes(t) = Weight(ToSet(s.objects)) + Shares(contexts, LoadedContexts(s))
      BY <2>5, <2>9, BytesSplit, Zenon
    <3>4. Weight(ToSet(s.objects)) \in Nat /\ MaxBytes \in Nat
      BY <1>9, WeightType DEF Sound
    <3>5. Shares(contexts, LoadedContexts(s)) = Shares(s.contexts, LoadedContexts(s)) + 1
      BY <3>1, <3>2, Zenon
    <3> QED
      BY <1>8, <3>1, <3>3, <3>4, <3>5
  <2>12. Limited(t)
    BY <2>5, <2>11 DEF Good, Limited
  <2>13. Good(t)
    BY <2>5, <2>7, <2>9, <2>10, <2>12 DEF Good
  <2> QED
    BY <1>8, <2>5, <2>8, <2>13 DEF Moves
<1>14. CASE old.head # None
  <2>1. PICK value : value = Physical
    OBVIOUS
  <2>2. value \in Value /\ value.kind \notin Memory
    BY <2>1 DEF Physical, Value, Kind, Memory
  <2>3. r = Publish(s, value, c, None, TRUE, None, 2) /\ c # None
    BY <1>3, <1>14, <2>1 DEF Sound
  <2>4. PICK w, o : /\ Room(s, w, SizeOf[value.kind] + Len(o.recipe) + 2)
                    /\ Added(s, r.s, w, o) /\ Issued(s, r.s, o, value, c, TRUE, None)
    BY <1>8, <2>2, <2>3, PublishAdds
  <2>5. /\ r.s \in SessionRecord /\ r.s.objects = Append(w, o) /\ o \in ObjectRecord /\ o.id \in Nat
        /\ w \in Seq(ObjectRecord) /\ r.s.contexts \in [Ctx -> ContextRecord]
    BY <2>4 DEF Added, Room, ObjectRecord, SessionRecord
  <2>6. /\ o.recipe = old.recipe /\ o.configuration = old.configuration
        /\ o.value = value /\ o.context = c /\ o.key = None
        /\ \A d \in Ctx \ {c} : r.s.contexts[d] = s.contexts[d]
        /\ r.s.contexts[c].head = o.id
        /\ r.s.contexts[c].loaded = old.loaded
        /\ r.s.contexts[c].configuration = old.configuration
        /\ r.s.contexts[c].recipe = old.recipe
    BY <1>2, <2>3, <2>4 DEF Issued
  <2>7. PICK object : object = [[o EXCEPT !.configuration = old.configuration + 1]
                                  EXCEPT !.recipe = recipe]
    OBVIOUS
  <2>8. /\ object \in ObjectRecord /\ object.id = o.id /\ object.value = value
        /\ object.context = c /\ object.key = None /\ object.recipe = recipe
        /\ object.configuration = old.configuration + 1
    <3>1. old.configuration + 1 \in Nat
      BY <1>10
    <3> QED
      BY <1>10, <2>5, <2>6, <2>7, <3>1 DEF ObjectRecord
  <2>9. PICK objects : objects = Append(w, object)
    OBVIOUS
  <2>10. objects \in Seq(ObjectRecord)
    BY <2>5, <2>8, <2>9, AppendSet
  <2>11. /\ contexts \in [Ctx -> ContextRecord] /\ \A d \in Ctx \ {c} : contexts[d] = s.contexts[d]
         /\ contexts[c].loaded = old.loaded /\ contexts[c].configuration = old.configuration + 1
         /\ contexts[c].key = None /\ contexts[c].recipe = recipe /\ contexts[c].head = o.id
    <3>1. /\ f \in [Ctx -> ContextRecord] /\ \A d \in Ctx \ {c} : f[d] = s.contexts[d]
          /\ f[c].head = o.id /\ f[c].loaded = old.loaded
          /\ f[c].configuration = old.configuration
      BY <1>4, <2>5, <2>6
    <3>2. /\ contexts \in [Ctx -> ContextRecord] /\ \A d \in Ctx \ {c} : contexts[d] = f[d]
          /\ contexts[c].loaded = f[c].loaded /\ contexts[c].configuration = f[c].configuration + 1
          /\ contexts[c].key = None /\ contexts[c].recipe = recipe /\ contexts[c].head = f[c].head
      BY <1>5, <1>10, <3>1, UpdatedContexts
    <3> QED
      BY <3>1, <3>2
  <2>12. updated = [r.s EXCEPT !.contexts = contexts]
    BY <1>6, <2>5
  <2>13. /\ updated \in SessionRecord /\ updated.contexts = contexts
         /\ updated.minted = r.s.minted /\ updated.bindings = r.s.bindings
         /\ updated.revision = r.s.revision /\ updated.objects = r.s.objects
    BY <2>5, <2>11, <2>12 DEF SessionRecord
  <2>14. t = [updated EXCEPT !.objects = objects]
    <3>1. PICK q : q = r.s.objects
      OBVIOUS
    <3>2. /\ Len(q) = Len(w) + 1 /\ q[Len(w) + 1] = o
          /\ [q EXCEPT ![Len(w) + 1] = object] = objects
      BY <2>5, <2>8, <2>9, <3>1, ReplaceLast
    <3>3. last = Len(w) + 1 /\ updated.objects = q
      BY <1>1, <2>13, <3>1, <3>2
    <3>4. last \in DOMAIN q
      BY <2>5, <3>1, <3>2, <3>3
    <3>5. PICK next : next = old.configuration + 1
      OBVIOUS
    <3>6. q[last] = o /\ Moved(object, o, next, recipe)
      BY <2>7, <3>2, <3>3, <3>5 DEF Moved
    <3>7. MovedIn(t, updated, last, next, recipe)
      BY <1>7, <1>14, <3>5
    <3>8. Put(objects, q, last, object)
      BY <3>2, <3>3 DEF Put
    <3>9. /\ updated \in SessionRecord /\ last \in DOMAIN updated.objects
          /\ Moved(object, updated.objects[last], next, recipe)
          /\ Put(objects, updated.objects, last, object)
      BY <2>13, <3>3, <3>4, <3>6, <3>8
    <3> QED
      BY <3>7, <3>9, ObjectExcept
  <2>15. /\ t \in SessionRecord /\ t.objects = objects /\ t.contexts = contexts
         /\ t.minted = r.s.minted /\ t.bindings = r.s.bindings /\ t.revision = r.s.revision
    BY <2>10, <2>13, <2>14 DEF SessionRecord
  <2>16. Added(s, t, w, object)
    <3>1. \A d \in Ctx : /\ contexts[d].loaded = s.contexts[d].loaded
                         /\ contexts[d].head \in {s.contexts[d].head, object.id}
      BY <1>2, <2>8, <2>11
    <3> QED
      BY <2>4, <2>8, <2>9, <2>15, <3>1 DEF Added
  <2>17. Reconfigured(s, t, c, recipe)
    BY <1>2, <2>11, <2>15 DEF Reconfigured
  <2>18. PICK size : size = SizeOf[value.kind] + Len(o.recipe) + 2
    OBVIOUS
  <2>19. StoredBytes(object) + 1 = size /\ size \in Nat /\ Room(s, w, size) /\ StoredBytes(object) \in Nat
    <3>1. StoredBytes(object) = SizeOf[value.kind] + Len(recipe) /\ StoredBytes(object) \in Nat
      BY <2>8, BytesTypes
    <3>2. SizeOf[value.kind] \in Nat
      BY <2>2 DEF Value, Sound
    <3>3. PICK bytes : bytes = SizeOf[value.kind]
      OBVIOUS
    <3>4. size = bytes + Len(old.recipe) + 2 /\ StoredBytes(object) = bytes + (Len(old.recipe) + 1)
      BY <1>10, <2>6, <2>18, <3>1, <3>3
    <3>5. StoredBytes(object) + 1 = size /\ size \in Nat
      BY <1>10, <3>2, <3>3, <3>4
    <3>6. Room(s, w, size)
      BY <2>4, <2>18
    <3> QED
      BY <3>1, <3>5, <3>6
  <2>20. ToSet(w) \subseteq ToSet(s.objects)
    BY <2>4 DEF Room
  <2>21. ASSUME NEW p \in ToSet(w) \cup {object} PROVE Placed(t, p)
    <3>1. CASE p \in ToSet(w)
      BY <2>17, <2>20, <3>1, ReconfiguredKeeps
    <3>2. CASE p = object
      <4>1. t.contexts[c].loaded /\ t.contexts[c].configuration = object.configuration
            /\ object.configuration \in Nat
        <5>1. t.contexts[c].loaded = old.loaded
          BY <2>11, <2>15
        <5>2. t.contexts[c].configuration = object.configuration
          BY <2>8, <2>11, <2>15
        <5>3. object.configuration \in Nat
          BY <1>10, <2>8
        <5> QED
          BY <1>11, <5>1, <5>2, <5>3, Zenon
      <4>2. Own(object.value, object.key, t.contexts[c].recipe)
        BY <2>8 DEF Own
      <4> QED
        BY <2>8, <3>2, <4>1, <4>2 DEF Placed
    <3> QED
      BY <2>21, <3>1, <3>2
  <2>22. HeadsOwn(t)
    <3>1. /\ ToSet(t.objects) = ToSet(w) \cup {object} /\ object.id \notin 1..s.minted
      BY <2>16, <2>19, AddedObjects
    <3>2. ASSUME NEW d \in Ctx, NEW p \in ToSet(t.objects), p.id = t.contexts[d].head
          PROVE  Own(p.value, t.contexts[d].key, t.contexts[d].recipe)
      <4>1. CASE p \in ToSet(w)
        BY <2>11, <2>15, <2>17, <2>20, <3>2, <4>1, ReconfiguredKeeps
      <4>2. CASE p = object
        BY <2>2, <2>8, <4>2 DEF Own
      <4> QED
        BY <3>1, <4>1, <4>2
    <3> QED
      BY <3>2 DEF HeadsOwn
  <2>23. Vacant(t)
    BY <1>11, <2>11, <2>15 DEF Good, Vacant
  <2>24. Bytes(t) <= MaxBytes
    <3>1. PICK a \in Nat, b \in Nat :
             /\ a + b + size <= MaxBytes
             /\ b = Shares(s.contexts, LoadedContexts(s))
             /\ Bytes(t) = a + StoredBytes(object) + Shares(t.contexts, LoadedContexts(s))
      <4>1. Room(s, w, size) /\ size \in Nat
        BY <2>19
      <4> QED
        BY <2>16, <4>1, AddedBytes
    <3>2. Shares(contexts, LoadedContexts(s) \cup {c}) = Shares(s.contexts, LoadedContexts(s)) + 1
      <4>1. Len(contexts[c].recipe) = Len(s.contexts[c].recipe) + 1
        BY <1>2, <1>10, <2>11
      <4>2. \A d \in LoadedContexts(s) \ {c} : contexts[d].recipe = s.contexts[d].recipe
        BY <1>12, <2>11
      <4> QED
        BY <1>9, <1>12, <2>11, <4>1, <4>2, SharesOneMore
    <3>3. LoadedContexts(s) \cup {c} = LoadedContexts(s)
      BY <1>12
    <3>4. Shares(t.contexts, LoadedContexts(s)) = b + 1
      BY <2>15, <3>1, <3>2, <3>3, Zenon
    <3> QED
      BY <2>19, <3>1, <3>4 DEF Sound
  <2>25. Moves(s, t)
    BY <2>16, <2>19, <2>21, <2>22, <2>23, <2>24, AddedMoves
  <2> QED
    BY <1>8, <2>25
<1> QED
  BY <1>13, <1>14

-----------------------------------------------------------------------------
(* The behaviours of Session.                                              *)

\* Nothing has no bytes.
LEMMA NoBytes ==
  ASSUME NEW f
  PROVE  Weight({}) = 0 /\ Shares(f, {}) = 0
<1>1. PICK w : w = [o \in {} |-> 0]
  OBVIOUS
<1>2. w \in [{} -> Nat] /\ IsFiniteSet({})
  BY <1>1, FS_EmptySet
<1>3. PICK g : Sums(g, {}, w)
  BY <1>2, SumExists
<1>4. g[{}] = 0
  BY <1>2, <1>3, SumType
<1>5. Weight({}) = g[{}]
  BY <1>2, <1>3, WeightSums
<1>6. Shares(f, {}) = g[{}]
  BY <1>2, <1>3, ShareSums
<1> QED
  BY <1>4, <1>5, <1>6

\* An empty session is good.
LEMMA InitGood == Sound /\ Init => IndInv
<1> SUFFICES ASSUME Sound, Init PROVE IndInv
  OBVIOUS
<1>1. PICK s : s = EmptySession
  OBVIOUS
<1>2. Unloaded \in ContextRecord /\ ~Unloaded.loaded /\ Unloaded.head = None
  <2>1. <<>> \in Seq(Update)
    OBVIOUS
  <2> QED
    BY <2>1 DEF Unloaded, ContextRecord
<1>3. PICK contexts : contexts = [c \in Ctx |-> Unloaded]
  OBVIOUS
<1>4. PICK bindings : bindings = [n \in Name |-> None]
  OBVIOUS
<1>5. /\ s.contexts = contexts /\ s.objects = <<>> /\ s.bindings = bindings
      /\ s \in SessionRecord
  <2>1. /\ contexts \in [Ctx -> ContextRecord] /\ bindings \in [Name -> Nat \cup {None}]
        /\ <<>> \in Seq(ObjectRecord)
    BY <1>2, <1>3, <1>4
  <2>2. s = [contexts |-> contexts, objects |-> <<>>, bindings |-> bindings, pruned |-> {},
             selected |-> None, revision |-> 0, minted |-> 0]
    BY <1>1, <1>3, <1>4 DEF EmptySession
  <2> QED
    BY <2>1, <2>2 DEF SessionRecord
<1>6. \A c \in Ctx : contexts[c] = Unloaded
  BY <1>3
<1>7. ToSet(s.objects) = {} /\ Len(s.objects) = 0 /\ Distinct(s.objects)
  BY <1>5 DEF ToSet, Distinct
<1>8. Numbered(s)
  BY <1>7 DEF Numbered
<1>9. Protected(s) = {} /\ LoadedContexts(s) = {}
  <2>1. (\A n \in Name : s.bindings[n] = None) /\ \A c \in Ctx : s.contexts[c].head = None
    BY <1>2, <1>4, <1>5, <1>6
  <2>2. \A c \in Ctx : ~s.contexts[c].loaded
    BY <1>2, <1>5, <1>6
  <2>3. Bound(s) = {} /\ Heads(s) = {}
    BY <2>1 DEF Bound, Heads
  <2> QED
    BY <2>2, <2>3 DEF Protected, LoadedContexts
<1>10. Bytes(s) = 0
  <2>1. Bytes(s) = Weight({}) + Shares(s.contexts, {})
    BY <1>7, <1>9, BytesSplit, Zenon
  <2> QED
    BY <2>1, NoBytes
<1>11. Limited(s)
  BY <1>7, <1>10 DEF Limited, Sound
<1>12. HeadsOwn(s) /\ Vacant(s)
  BY <1>5, <1>6, <1>7 DEF HeadsOwn, Vacant
<1>13. Good(s)
  BY <1>5, <1>7, <1>8, <1>9, <1>11, <1>12 DEF Good
<1> QED
  BY <1>1, <1>13 DEF Init, IndInv, CallGood

\* A call in flight is as good after the session moved on: the revision tells.
LEMMA CallStays ==
  ASSUME NEW s, Good(s), NEW t, Moves(s, t), NEW k, CallGood(s, k)
  PROVE  CallGood(t, k)
<1>1. s.revision \in Nat /\ t.revision = s.revision + 1
  BY SessionFields DEF Good, Moves
<1>2. \A c \in Ctx : s.contexts[c].loaded => t.contexts[c].loaded
  BY DEF Moves
<1>3. CASE k = Idle
  BY <1>3 DEF CallGood
<1>4. CASE k \in LoadCall /\ k.revision <= s.revision
  <2>1. k.revision \in Nat
    BY <1>4 DEF LoadCall
  <2>2. k.revision <= t.revision
    BY <1>1, <1>4, <2>1
  <2> QED
    BY <1>4, <2>2 DEF CallGood
<1>5. CASE k \in UpdateCall /\ k.revision <= s.revision /\ s.contexts[k.context].loaded
  <2>1. k.revision \in Nat /\ k.context \in Ctx
    BY <1>5 DEF UpdateCall
  <2>2. k.revision <= t.revision /\ t.contexts[k.context].loaded
    BY <1>1, <1>2, <1>5, <2>1
  <2> QED
    BY <1>5, <2>2 DEF CallGood
<1>6. CASE /\ k \in ToolCall /\ k.revision <= s.revision /\ s.contexts[k.context].loaded
           /\ ToolGood(s, k)
  <2>1. k.revision \in Nat /\ k.context \in Ctx
    BY <1>6 DEF ToolCall
  <2>2. k.revision <= t.revision /\ t.contexts[k.context].loaded /\ k.revision # t.revision
    BY <1>1, <1>2, <1>6, <2>1
  <2>3. ToolGood(t, k)
    BY <1>6, <2>2 DEF ToolGood
  <2> QED
    BY <1>6, <2>2, <2>3 DEF CallGood
<1> QED
  BY <1>3, <1>4, <1>5, <1>6 DEF CallGood

\* A writer beside the call preserves the invariant.
LEMMA OutsideStep ==
  ASSUME IndInv, Moves(session, session'), UNCHANGED call
  PROVE  IndInv'
<1>1. CallGood(session', call)
  BY CallStays DEF IndInv
<1>2. Good(session')
  BY DEF Moves
<1>3. CallGood(session', call')
  BY <1>1
<1> QED
  BY <1>2, <1>3 DEF IndInv

\* The writers beside a call.
LEMMA WriterStep ==
  ASSUME Sound, IndInv,
         \/ \E c \in Ctx : Use(c) \/ SelectOne(c)
         \/ \E c \in Ctx, id \in Retained(session) : UseAgain(c, id)
         \/ \E n \in Name : Retain(n) \/ ReleaseName(n)
         \/ \E n \in Name, id \in Retained(session) : Bind(n, id) \/ BindPart(n, id)
         \/ \E c \in Ctx, u \in Update : UpdateAtOnce(c, u)
  PROVE  Moves(session, session') /\ UNCHANGED call
<1>1. Good(session)
  BY DEF IndInv
<1>2. ASSUME NEW c \in Ctx, Use(c) PROVE Moves(session, session') /\ UNCHANGED call
  <2>1. PICK n : Outside(UseValue(session, c, n)) /\ session.contexts[c].loaded
    BY <1>2 DEF Use
  <2> QED
    BY <1>1, <2>1, UseValueMoves DEF Outside, Apply
<1>3. ASSUME NEW c \in Ctx, SelectOne(c) PROVE Moves(session, session') /\ UNCHANGED call
  BY <1>1, <1>3, SelectMoves DEF SelectOne, Outside, Apply
<1>4. ASSUME NEW c \in Ctx, NEW id \in Retained(session), UseAgain(c, id)
      PROVE  Moves(session, session') /\ UNCHANGED call
  BY <1>1, <1>4, UseReferenceMoves DEF UseAgain, Outside, Apply
<1>5. ASSUME NEW n \in Name, Retain(n) PROVE Moves(session, session') /\ UNCHANGED call
  <2>1. PICK no \in Ctx \cup {None} : no = None
    OBVIOUS
  <2>2. PICK off \in BOOLEAN : off = FALSE
    OBVIOUS
  <2>3. PICK value : value = Report
    OBVIOUS
  <2>4. PICK r : r = Publish(session, value, no, n, off, None, 0)
    OBVIOUS
  <2>5. r.ok /\ session' = r.s /\ UNCHANGED call
    BY <1>5, <2>1, <2>2, <2>3, <2>4 DEF Retain, Outside, Apply
  <2>6. value \in Value
    BY <2>3 DEF Report, Value, Kind
  <2>7. Moves(session, r.s)
    BY <1>1, <2>1, <2>2, <2>4, <2>5, <2>6, PublishMoves
  <2> QED
    BY <2>5, <2>7
<1>6. ASSUME NEW n \in Name, ReleaseName(n) PROVE Moves(session, session') /\ UNCHANGED call
  BY <1>1, <1>6, ReleaseMoves DEF ReleaseName, Outside, Apply
<1>7. ASSUME NEW n \in Name, NEW id \in Retained(session), Bind(n, id)
      PROVE  Moves(session, session') /\ UNCHANGED call
  BY <1>1, <1>7, BindWholeMoves DEF Bind, Outside, Apply
<1>8. ASSUME NEW n \in Name, NEW id \in Retained(session), BindPart(n, id)
      PROVE  Moves(session, session') /\ UNCHANGED call
  <2>1. PICK field : /\ field \in FieldsOf(Stored(session, id).value)
                     /\ Outside(BindField(session, n, id, field))
    BY <1>8 DEF BindPart
  <2> QED
    BY <1>1, <2>1, BindFieldMoves DEF Outside, Apply
<1>9. ASSUME NEW c \in Ctx, NEW u \in Update, UpdateAtOnce(c, u)
      PROVE  Moves(session, session') /\ UNCHANGED call
  BY <1>1, <1>9, UpdateContextMoves DEF UpdateAtOnce, Outside, Apply
<1> QED
  BY <1>2, <1>3, <1>4, <1>5, <1>6, <1>7, <1>8, <1>9

\* A solver continues memory of its own settings and of the recipe it reads.
LEMMA ContinuationOwn ==
  ASSUME Sound, Good(session), NEW c \in Ctx, NEW setting \in Setting, NEW source,
         Accepts(c, setting, source), session.contexts[c].head # None,
         NEW v, v = Continuation(c, setting, source)
  PROVE  /\ v \in Value
         /\ v.kind \in Memory => v.by = setting /\ v.made = session.contexts[c].recipe
<1>1. setting # None /\ c # None
  BY DEF Sound
<1>2. Physical \in Value /\ Physical.kind \notin Memory
  BY DEF Physical, Value, Kind, Memory
<1>3. CASE source # None
  <2>1. PICK o : o = Stored(session, source)
    OBVIOUS
  <2>2. /\ Resolves(session, source) /\ o.value.kind \in Memory /\ o.key = setting
        /\ o.context = c /\ o.configuration = session.contexts[c].configuration
    BY <1>3, <2>1 DEF Accepts, SameConfiguration
  <2>3. Placed(session, o) /\ o.value \in Value
    BY <2>1, <2>2, Lookup
  <2>4. Own(o.value, o.key, session.contexts[c].recipe)
    BY <1>1, <2>2, <2>3 DEF Placed
  <2>5. v = o.value
    BY <1>3, <2>1 DEF Continuation
  <2> QED
    BY <1>1, <2>2, <2>3, <2>4, <2>5 DEF Own
<1>4. CASE source = None /\ Resumable(session, c) /\ session.contexts[c].key = setting
  <2>1. PICK o : o = Stored(session, session.contexts[c].head)
    OBVIOUS
  <2>2. v = o.value
    BY <1>4, <2>1 DEF Continuation
  <2>3. session.contexts[c].head \in Retained(session)
    BY DEF Good, Protected, Heads
  <2>4. o \in ToSet(session.objects) /\ o.id = session.contexts[c].head /\ o \in ObjectRecord
    BY <2>1, <2>3, StoredIs, SessionFields DEF Good, Numbered
  <2>5. Own(o.value, session.contexts[c].key, session.contexts[c].recipe)
    BY <2>4 DEF Good, HeadsOwn
  <2> QED
    BY <1>1, <1>4, <2>2, <2>4, <2>5 DEF Own, ObjectRecord
<1>5. CASE source = None /\ ~(Resumable(session, c) /\ session.contexts[c].key = setting)
  <2>1. v = Physical
    BY <1>5 DEF Continuation
  <2> QED
    BY <1>2, <2>1
<1> QED
  BY <1>3, <1>4, <1>5

\* A call that begins is good.
LEMMA BeginStep ==
  ASSUME Sound, IndInv,
         \/ \E c \in Ctx, factory, select \in BOOLEAN : BeginLoad(c, factory, select)
         \/ \E c \in Ctx, u \in Update : BeginUpdate(c, u)
         \/ \E c \in Ctx, e \in {"solve", "candidate", "read"}, k \in Setting \cup {None},
              id \in Retained(session) \cup {None}, activate \in BOOLEAN :
              BeginTool(c, e, k, id, activate)
  PROVE  CallGood(session, call') /\ UNCHANGED session /\ call = Idle
<1>1. /\ Good(session) /\ session.revision \in Nat /\ session.contexts \in [Ctx -> ContextRecord]
      /\ session.revision <= session.revision
  <2>1. Good(session)
    BY DEF IndInv
  <2>2. session.revision \in Nat /\ session.contexts \in [Ctx -> ContextRecord]
    BY <2>1, SessionFields DEF Good
  <2> QED
    BY <2>1, <2>2
<1>2. ASSUME NEW c \in Ctx, NEW factory \in BOOLEAN, NEW select \in BOOLEAN,
             BeginLoad(c, factory, select)
      PROVE  CallGood(session, call') /\ UNCHANGED session /\ call = Idle
  <2>1. call' = [kind |-> "load", context |-> c, revision |-> session.revision,
                 factory |-> factory, select |-> select] /\ UNCHANGED session /\ call = Idle
    BY <1>2 DEF BeginLoad
  <2>2. call' \in LoadCall /\ call'.revision <= session.revision
    BY <1>1, <2>1 DEF LoadCall
  <2> QED
    BY <2>1, <2>2 DEF CallGood
<1>3. ASSUME NEW c \in Ctx, NEW u \in Update, BeginUpdate(c, u)
      PROVE  CallGood(session, call') /\ UNCHANGED session /\ call = Idle
  <2>1. /\ call' = [kind |-> "update", context |-> c, revision |-> session.revision, update |-> u]
        /\ UNCHANGED session /\ call = Idle /\ session.contexts[c].loaded
    BY <1>3 DEF BeginUpdate
  <2>2. call' \in UpdateCall /\ call'.revision <= session.revision /\ call'.context = c
    BY <1>1, <2>1 DEF UpdateCall
  <2> QED
    BY <2>1, <2>2 DEF CallGood
<1>4. ASSUME NEW c \in Ctx, NEW e \in {"solve", "candidate", "read"}, NEW k \in Setting \cup {None},
             NEW id, NEW activate \in BOOLEAN, BeginTool(c, e, k, id, activate)
      PROVE  CallGood(session, call') /\ UNCHANGED session /\ call = Idle
  <2>1. PICK v : v = IF e = "solve" THEN Continuation(c, k, id) ELSE Physical
    OBVIOUS
  <2>2. PICK recipe : recipe = session.contexts[c].recipe
    OBVIOUS
  <2>3. PICK head : head = session.contexts[c].head
    OBVIOUS
  <2>4. /\ call' = [kind |-> "tool", context |-> c, revision |-> session.revision, effect |-> e,
                    setting |-> k, activate |-> activate, recipe |-> recipe, read |-> head,
                    memory |-> v]
        /\ UNCHANGED session /\ call = Idle /\ session.contexts[c].loaded
        /\ e = "solve" => k # None /\ head # None /\ Accepts(c, k, id)
        /\ e # "solve" => k = None
    BY <1>4, <2>1, <2>2, <2>3 DEF BeginTool
  <2>5. recipe \in Seq(Update) /\ head \in Nat \cup {None}
    BY <1>1, <2>2, <2>3 DEF ContextRecord
  <2>6. v \in Value /\ (v.kind \in Memory => v.by = k /\ v.made = recipe)
    <3>1. CASE e = "solve"
      <4>1. v = Continuation(c, k, id) /\ k \in Setting
        BY <2>1, <2>4, <3>1
      <4> QED
        BY <1>1, <2>2, <2>3, <2>4, <3>1, <4>1, ContinuationOwn
    <3>2. CASE e # "solve"
      BY <2>1, <3>2 DEF Physical, Value, Kind, Memory
    <3> QED
      BY <3>1, <3>2
  <2>7. /\ call' \in ToolCall /\ call'.revision = session.revision /\ call'.context = c
        /\ call'.effect = e /\ call'.setting = k /\ call'.recipe = recipe /\ call'.read = head
        /\ call'.memory = v
    BY <1>1, <2>4, <2>5, <2>6 DEF ToolCall
  <2>8. ToolGood(session, call')
    BY <2>2, <2>3, <2>4, <2>6, <2>7 DEF ToolGood
  <2> QED
    BY <1>1, <2>4, <2>7, <2>8 DEF CallGood
<1> QED
  BY <1>2, <1>3, <1>4

\* A call commits to a good session, and a tool against what it read.
LEMMA CommitStep ==
  ASSUME Sound, IndInv, Commit
  PROVE  /\ Moves(session, session') /\ call' = Idle
         /\ call.kind = "tool" => /\ session.contexts[call.context].head = call.read
                                  /\ session.contexts[call.context].recipe = call.recipe
<1>1. /\ Good(session) /\ CallGood(session, call) /\ session.revision = call.revision
      /\ call # Idle /\ call' = Idle
  BY DEF IndInv, Commit, Unchanged
<1>2. CASE call.kind = "load"
  <2>1. call \in LoadCall
    BY <1>1, <1>2 DEF CallGood, UpdateCall, ToolCall
  <2>2. /\ call.context \in Ctx /\ call.factory \in BOOLEAN /\ call.select \in BOOLEAN
        /\ Apply(LoadContext(session, call.context, call.factory, call.select))
    BY <1>2, <2>1 DEF Commit, LoadCall
  <2> QED
    BY <1>1, <1>2, <2>2, LoadContextMoves DEF Apply
<1>3. CASE call.kind = "update"
  <2>1. call \in UpdateCall
    BY <1>1, <1>3 DEF CallGood, LoadCall, ToolCall
  <2>2. /\ call.context \in Ctx /\ call.update \in Update
        /\ Apply(UpdateContext(session, call.context, call.update))
    BY <1>3, <2>1 DEF Commit, UpdateCall
  <2> QED
    BY <1>1, <1>3, <2>2, UpdateContextMoves DEF Apply
<1>4. CASE call.kind = "tool"
  <2>1. /\ call \in ToolCall /\ session.contexts[call.context].loaded /\ ToolGood(session, call)
    BY <1>1, <1>4 DEF CallGood, LoadCall, UpdateCall
  <2>2. PICK k : k = call
    OBVIOUS
  <2>3. PICK c : c = call.context
    OBVIOUS
  <2>4. /\ c \in Ctx /\ k.setting \in Setting \cup {None} /\ k.activate \in BOOLEAN
        /\ k.recipe \in Seq(Update) /\ session.contexts[c].loaded
    BY <2>1, <2>2, <2>3 DEF ToolCall
  <2>5. /\ session.contexts[c].head = k.read /\ session.contexts[c].recipe = k.recipe
        /\ k.effect = "solve" \/ k.setting = None
    BY <1>1, <2>1, <2>2, <2>3 DEF ToolGood
  <2>6. PICK r \in Results, n \in Name \cup {None} :
           Apply(Publish(session, r.value, call.context, n, call.activate /\ ~r.failed,
                         call.setting, 0))
    BY <1>4 DEF Commit
  <2>7. PICK value : value = r.value
    OBVIOUS
  <2>8. PICK activate \in BOOLEAN : activate = (call.activate /\ ~r.failed)
    OBVIOUS
  <2>9. PICK q : q = Publish(session, value, c, n, activate, k.setting, 0)
    OBVIOUS
  <2>10. q.ok /\ session' = q.s
    BY <2>2, <2>3, <2>6, <2>7, <2>8, <2>9 DEF Apply
  <2>11. value \in Value /\ Own(value, k.setting, session.contexts[c].recipe)
    <3>1. CASE k.effect = "solve"
      <4>1. PICK m \in Memory : value = Solved(m, k.recipe, k.setting)
        BY <2>2, <2>6, <2>7, <3>1 DEF Results
      <4> QED
        BY <2>4, <2>5, <4>1 DEF Solved, Value, Kind, Memory, Own
    <3>2. CASE k.effect # "solve"
      <4>1. value \in {Physical, Report}
        BY <2>2, <2>6, <2>7, <3>2 DEF Results
      <4>2. value \in Value
        BY <4>1 DEF Physical, Report, Value, Kind
      <4> QED
        BY <2>5, <3>2, <4>2 DEF Own
    <3> QED
      BY <3>1, <3>2
  <2>12. c # None
    BY <2>4 DEF Sound
  <2>13. Moves(session, q.s)
    BY <1>1, <2>4, <2>9, <2>10, <2>11, <2>12, PublishMoves
  <2> QED
    BY <1>1, <2>2, <2>3, <2>5, <2>10, <2>13
<1> QED
  BY <1>2, <1>3, <1>4 DEF Commit

\* Every step preserves the invariant.
LEMMA NextStep ==
  ASSUME Sound, IndInv, [Next]_svars
  PROVE  IndInv'
<1>1. CASE \/ \E c \in Ctx : Use(c) \/ SelectOne(c)
           \/ \E c \in Ctx, id \in Retained(session) : UseAgain(c, id)
           \/ \E n \in Name : Retain(n) \/ ReleaseName(n)
           \/ \E n \in Name, id \in Retained(session) : Bind(n, id) \/ BindPart(n, id)
           \/ \E c \in Ctx, u \in Update : UpdateAtOnce(c, u)
  BY <1>1, WriterStep, OutsideStep
<1>2. CASE \/ \E c \in Ctx, factory, select \in BOOLEAN : BeginLoad(c, factory, select)
           \/ \E c \in Ctx, u \in Update : BeginUpdate(c, u)
           \/ \E c \in Ctx, e \in {"solve", "candidate", "read"}, k \in Setting \cup {None},
                id \in Retained(session) \cup {None}, activate \in BOOLEAN :
                BeginTool(c, e, k, id, activate)
  <2>1. CallGood(session, call') /\ UNCHANGED session
    BY <1>2, BeginStep
  <2> QED
    BY <2>1 DEF IndInv
<1>3. CASE Commit
  <2>1. Moves(session, session') /\ call' = Idle
    BY <1>3, CommitStep
  <2> QED
    BY <2>1 DEF IndInv, Moves, CallGood
<1>4. CASE Abandon
  BY <1>4 DEF Abandon, IndInv, CallGood
<1>5. CASE UNCHANGED svars
  BY <1>5 DEF svars, IndInv
<1> QED
  BY <1>1, <1>2, <1>3, <1>4, <1>5 DEF Next

\* The session stays good, and so does the call, however calls, reentrant project code and
\* other writers interleave.
THEOREM SessionInvariant ==
  ASSUME Sound
  PROVE  SessionSpec => []IndInv
<1>1. Init => IndInv
  BY InitGood
<1>2. IndInv /\ [Next]_svars => IndInv'
  BY NextStep
<1> QED
  BY <1>1, <1>2, PTL DEF SessionSpec

\* Every object that a name or a head refers to is retained, and the limits bound the
\* objects and their bytes, whatever publications evict, names release and updates add
\* (session.py:271, :274, :410, :436).
THEOREM RetentionKept ==
  ASSUME Sound
  PROVE  SessionSpec => [](ProtectedKept /\ RetentionBounded)
<1>1. IndInv => ProtectedKept /\ RetentionBounded
  BY DEF IndInv, Good, Limited, ProtectedKept, RetentionBounded
<1> QED
  BY <1>1, SessionInvariant, PTL

\* Method memory is continued only by the settings that made it, on the system of the recipe
\* it was made on (session.py:399, service.py:333, :351).
THEOREM ResumesOwn ==
  ASSUME Sound
  PROVE  SessionSpec => []ResumesOwnMemory
<1>1. IndInv => ResumesOwnMemory
  <2> SUFFICES ASSUME IndInv PROVE ResumesOwnMemory
    OBVIOUS
  <2>1. ASSUME NEW c \in Ctx, Resumable(session, c) PROVE MadeHere(session, c)
    <3>1. PICK o : o = Stored(session, session.contexts[c].head)
      OBVIOUS
    <3>2. /\ session.contexts[c].head # None /\ session.contexts[c].key # None
          /\ o.value.kind \in Memory
      BY <2>1, <3>1 DEF Resumable
    <3>3. session.contexts[c].head \in Retained(session)
      BY <3>2 DEF IndInv, Good, Protected, Heads
    <3>4. o \in ToSet(session.objects) /\ o.id = session.contexts[c].head
      BY <3>1, <3>3, StoredIs DEF IndInv, Good, Numbered
    <3>5. Own(o.value, session.contexts[c].key, session.contexts[c].recipe)
      BY <3>4 DEF IndInv, Good, HeadsOwn
    <3> QED
      BY <3>1, <3>2, <3>5 DEF MadeHere, Own
  <2>2. ASSUME call.kind = "tool", call.memory.kind \in Memory
        PROVE  call.memory.by = call.setting /\ call.memory.made = call.recipe
    <3>1. ToolGood(session, call)
      BY <2>2 DEF IndInv, CallGood, Idle, LoadCall, UpdateCall
    <3> QED
      BY <2>2, <3>1 DEF ToolGood
  <2> QED
    BY <2>1, <2>2 DEF ResumesOwnMemory
<1> QED
  BY <1>1, SessionInvariant, PTL

\* A tool publishes only against the head and the recipe it read, although others wrote
\* while it computed without the lock (session.py:256, :288).
THEOREM CommitsRead ==
  ASSUME Sound
  PROVE  SessionSpec => CommitsWhatItRead
<1> DEFINE Action == (call.kind = "tool" /\ call' = Idle /\ session' # session) =>
                        /\ session.contexts[call.context].head = call.read
                        /\ session.contexts[call.context].recipe = call.recipe
<1>1. IndInv /\ [Next]_svars => [Action]_svars
  <2> SUFFICES ASSUME IndInv, Next, call.kind = "tool", call' = Idle, session' # session
               PROVE  /\ session.contexts[call.context].head = call.read
                      /\ session.contexts[call.context].recipe = call.recipe
    OBVIOUS
  <2>1. call # Idle
    BY DEF Idle
  <2>2. CASE Commit
    BY <2>2, CommitStep
  <2>3. CASE Abandon
    BY <2>3 DEF Abandon
  <2>4. CASE \/ \E c \in Ctx : Use(c) \/ SelectOne(c)
             \/ \E c \in Ctx, id \in Retained(session) : UseAgain(c, id)
             \/ \E n \in Name : Retain(n) \/ ReleaseName(n)
             \/ \E n \in Name, id \in Retained(session) : Bind(n, id) \/ BindPart(n, id)
             \/ \E c \in Ctx, u \in Update : UpdateAtOnce(c, u)
    BY <2>1, <2>4, WriterStep
  <2>5. CASE \/ \E c \in Ctx, factory, select \in BOOLEAN : BeginLoad(c, factory, select)
             \/ \E c \in Ctx, u \in Update : BeginUpdate(c, u)
             \/ \E c \in Ctx, e \in {"solve", "candidate", "read"}, k \in Setting \cup {None},
                  id \in Retained(session) \cup {None}, activate \in BOOLEAN :
                  BeginTool(c, e, k, id, activate)
    BY <2>5, BeginStep
  <2> QED
    BY <2>2, <2>3, <2>4, <2>5 DEF Next
<1> QED
  BY <1>1, SessionInvariant, PTL DEF SessionSpec, CommitsWhatItRead
=============================================================================
