-------------------------------- MODULE Sums --------------------------------
(***************************************************************************)
(* What a fold and a sum over a finite set compute.  The folds of the      *)
(* community modules are recursive functions over the subsets of a set;    *)
(* each fact about them is the absence of a smallest set that would refute *)
(* it.                                                                     *)
(***************************************************************************)
EXTENDS Integers, FiniteSets, FiniteSetsExt, FiniteSetTheorems, WellFoundedInduction, TLAPS

\* A family of subsets of a finite set has a member that contains no smaller one.
LEMMA SmallestSet ==
  ASSUME NEW U, IsFiniteSet(U), NEW B, B \subseteq SUBSET U, B # {}
  PROVE  \E s \in B : \A t \in B : t \subseteq s => t = s
<1>1. B \subseteq FiniteSubsetsOf(U)
  BY FS_Subset DEF FiniteSubsetsOf
<1>2. PICK s \in B : \A t \in B : <<t, s>> \notin StrictSubsetOrdering(U)
  BY <1>1, FS_StrictSubsetOrderingWellFounded, WFMin
<1>3. \A t \in B : t \subseteq s => t = s
  BY <1>2 DEF StrictSubsetOrdering
<1> QED
  BY <1>3

\* A set of natural numbers that is not empty has a smallest element.
LEMMA SmallestNumber ==
  ASSUME NEW B, B \subseteq Nat, B # {}
  PROVE  \E n \in B : \A m \in B : n <= m
<1>1. PICK top \in B : TRUE
  OBVIOUS
<1> DEFINE Below == {0 .. m : m \in {k \in B : k <= top}}
<1>2. top \in Nat /\ 0 \in Int /\ top \in Int
  BY <1>1
<1>3. IsFiniteSet(0 .. top)
  BY <1>2, FS_Interval
<1>4. Below \subseteq SUBSET (0 .. top)
  BY <1>2
<1>5. 0 .. top \in Below
  BY <1>2
<1>6. PICK U : U = 0 .. top
  OBVIOUS
<1>7. PICK F : F = Below
  OBVIOUS
<1>8. PICK s \in F : \A t \in F : t \subseteq s => t = s
  <2>1. IsFiniteSet(U) /\ F \subseteq SUBSET U /\ F # {}
    BY <1>3, <1>4, <1>5, <1>6, <1>7
  <2> QED
    BY <2>1, SmallestSet
<1>9. PICK n \in B : n <= top /\ s = 0 .. n
  BY <1>8, <1>7
<1>10. ASSUME NEW m \in B, m < n PROVE FALSE
  <2>1. 0 .. m \in Below /\ 0 .. m \subseteq s
    BY <1>9, <1>10, <1>7
  <2>2. 0 .. m = 0 .. n
    BY <1>8, <1>9, <2>1, <1>7
  <2> QED
    BY <1>9, <1>10, <2>2
<1> QED
  BY <1>9, <1>10

\* c chooses a member of every subset of S that has one.
Chooses(c, S) == \A s \in SUBSET S : s # {} => c[s] \in s

\* g folds the sets of a family: the empty set to base, any other by the operation of the
\* element chosen from it, applied to the fold of the rest.
Folds(g, family, base, c, op) ==
  g = [s \in family |-> IF s = {} THEN base ELSE op[c[s]][g[s \ {c[s]}]]]

\* The recursion of a fold over a finite set has a solution.
LEMMA FoldExists ==
  ASSUME NEW S, IsFiniteSet(S), NEW base, NEW c, Chooses(c, S), NEW op
  PROVE  \E g : Folds(g, SUBSET S, base, c, op)
<1> DEFINE Level(n) == {s \in SUBSET S : Cardinality(s) <= n}
           Solved(n) == \E g : Folds(g, Level(n), base, c, op)
           Open == {n \in Nat : ~Solved(n)}
<1>1. \A s \in SUBSET S : IsFiniteSet(s) /\ Cardinality(s) \in Nat
  BY FS_Subset, FS_CardinalityType
<1>2. Solved(0)
  <2>1. \A s \in Level(0) : s = {}
    BY <1>1, FS_EmptySet
  <2>2. Folds([s \in Level(0) |-> base], Level(0), base, c, op)
    BY <2>1 DEF Folds
  <2> QED
    BY <2>2
<1>3. ASSUME NEW n \in Nat, n # 0, Solved(n - 1) PROVE Solved(n)
  <2>1. PICK g : Folds(g, Level(n - 1), base, c, op)
    BY <1>3
  <2> DEFINE h == [s \in Level(n) |-> IF s = {} THEN base ELSE op[c[s]][g[s \ {c[s]}]]]
  <2>2. \A t \in Level(n - 1) : t \in Level(n) /\ h[t] = g[t]
    <3>1. \A t \in Level(n - 1) : t \in Level(n)
      BY <1>1
    <3>2. \A t \in Level(n - 1) :
            g[t] = IF t = {} THEN base ELSE op[c[t]][g[t \ {c[t]}]]
      <4> HIDE DEF Level
      <4> QED
        BY <2>1, Zenon DEF Folds
    <3> HIDE DEF Level
    <3> QED
      BY <3>1, <3>2
  <2>3. \A s \in Level(n) : s # {} => s \ {c[s]} \in Level(n - 1)
    <3> SUFFICES ASSUME NEW s \in Level(n), s # {} PROVE s \ {c[s]} \in Level(n - 1)
      OBVIOUS
    <3>1. c[s] \in s
      BY DEF Chooses
    <3>2. Cardinality(s \ {c[s]}) = Cardinality(s) - 1
      BY <1>1, <3>1, FS_RemoveElement
    <3> QED
      BY <1>1, <3>2
  <2>4. h = [s \in Level(n) |-> IF s = {} THEN base ELSE op[c[s]][h[s \ {c[s]}]]]
    <3> HIDE DEF Level
    <3> QED
      BY <2>2, <2>3
  <2> QED
    BY <2>4 DEF Folds
<1>4. Open = {}
  <2> SUFFICES ASSUME Open # {} PROVE FALSE
    OBVIOUS
  <2> HIDE DEF Solved
  <2>1. PICK n \in Open : \A m \in Open : n <= m
    <3>1. Open \subseteq Nat
      OBVIOUS
    <3> HIDE DEF Open
    <3> QED
      BY <3>1, SmallestNumber
  <2>2. n # 0
    BY <1>2
  <2>3. n - 1 \in Nat /\ n - 1 \notin Open
    BY <2>1, <2>2
  <2> QED
    BY <1>3, <2>2, <2>3
<1>5. Level(Cardinality(S)) = SUBSET S /\ Cardinality(S) \in Nat
  BY <1>1, FS_Subset, FS_CardinalityType
<1>6. Solved(Cardinality(S))
  <2> HIDE DEF Solved
  <2> QED
    BY <1>4, <1>5
<1> QED
  BY <1>5, <1>6

\* Folding stays in any set that holds the base and is closed under the operations.
LEMMA FoldType ==
  ASSUME NEW S, IsFiniteSet(S), NEW base, NEW c, Chooses(c, S), NEW op, NEW A,
         base \in A, \A x \in S, a \in A : op[x][a] \in A,
         NEW g, Folds(g, SUBSET S, base, c, op)
  PROVE  \A s \in SUBSET S : g[s] \in A
<1> SUFFICES ASSUME {s \in SUBSET S : g[s] \notin A} # {} PROVE FALSE
  OBVIOUS
<1>1. PICK B : B = {s \in SUBSET S : g[s] \notin A}
  OBVIOUS
<1>2. PICK s \in B : \A t \in B : t \subseteq s => t = s
  BY <1>1, SmallestSet
<1>3. s # {} /\ s \in SUBSET S /\ g[s] = op[c[s]][g[s \ {c[s]}]]
  BY <1>1 DEF Folds
<1>4. c[s] \in s /\ c[s] \in S
  BY <1>3 DEF Chooses
<1>5. s \ {c[s]} \notin B /\ s \ {c[s]} \in SUBSET S
  BY <1>2, <1>3, <1>4
<1> QED
  BY <1>1, <1>3, <1>4, <1>5

-----------------------------------------------------------------------------
(* Sums.                                                                   *)

\* g sums the weights w over the subsets of S.
Sums(g, S, w) ==
  g = [s \in SUBSET S |-> IF s = {} THEN 0
                          ELSE w[CHOOSE x \in s : TRUE] + g[s \ {CHOOSE x \in s : TRUE}]]

\* Weights over a finite set can be summed, and the sums are natural numbers.
LEMMA SumExists ==
  ASSUME NEW S, IsFiniteSet(S), NEW w \in [S -> Nat]
  PROVE  \E g : Sums(g, S, w)
<1> DEFINE c == [s \in SUBSET S |-> CHOOSE x \in s : TRUE]
           op == [x \in S |-> [a \in Nat |-> w[x] + a]]
<1>1. Chooses(c, S)
  BY DEF Chooses
<1>2. \A x \in S, a \in Nat : op[x][a] = w[x] + a /\ op[x][a] \in Nat
  OBVIOUS
<1>3. \A s \in SUBSET S : c[s] = CHOOSE x \in s : TRUE
  OBVIOUS
<1> HIDE DEF c, op
<1>4. PICK g : Folds(g, SUBSET S, 0, c, op)
  BY <1>1, FoldExists
<1>5. \A s \in SUBSET S : g[s] \in Nat
  BY <1>1, <1>2, <1>4, FoldType
<1>6. g = [s \in SUBSET S |-> IF s = {} THEN 0 ELSE w[c[s]] + g[s \ {c[s]}]]
  <2>1. ASSUME NEW s \in SUBSET S, s # {} PROVE op[c[s]][g[s \ {c[s]}]] = w[c[s]] + g[s \ {c[s]}]
    <3>1. c[s] \in S /\ s \ {c[s]} \in SUBSET S
      BY <1>1, <2>1 DEF Chooses
    <3> QED
      BY <1>2, <1>5, <3>1
  <2> QED
    BY <1>4, <2>1 DEF Folds
<1>7. \A s \in SUBSET S :
        g[s] = IF s = {} THEN 0
               ELSE w[CHOOSE x \in s : TRUE] + g[s \ {CHOOSE x \in s : TRUE}]
  BY <1>3, <1>6, Zenon
<1>8. DOMAIN g = SUBSET S /\ g = [s \in DOMAIN g |-> g[s]]
  BY <1>6, Zenon
<1>9. g = [s \in SUBSET S |-> g[s]]
  BY <1>8
<1>10. Sums(g, S, w)
  BY <1>7, <1>9, Zenon DEF Sums
<1> QED
  BY <1>10

\* A sum is a natural number.
LEMMA SumType ==
  ASSUME NEW S, IsFiniteSet(S), NEW w \in [S -> Nat], NEW g, Sums(g, S, w)
  PROVE  /\ \A s \in SUBSET S : g[s] \in Nat
         /\ g[{}] = 0
<1> SUFFICES ASSUME {s \in SUBSET S : g[s] \notin Nat} # {} PROVE FALSE
  BY DEF Sums
<1>1. PICK B : B = {s \in SUBSET S : g[s] \notin Nat}
  OBVIOUS
<1>2. PICK s \in B : \A t \in B : t \subseteq s => t = s
  BY <1>1, SmallestSet
<1>3. PICK x : x = CHOOSE z \in s : TRUE
  OBVIOUS
<1>4. s # {} /\ s \in SUBSET S /\ g[s] = w[x] + g[s \ {x}]
  BY <1>1, <1>3 DEF Sums
<1>5. x \in s /\ x \in S
  BY <1>3, <1>4
<1>6. s \ {x} \notin B /\ s \ {x} \in SUBSET S
  BY <1>2, <1>4, <1>5
<1> QED
  BY <1>1, <1>4, <1>5, <1>6

\* Two sums of the same weights agree, whatever larger sets they are defined over.
LEMMA SumAgrees ==
  ASSUME NEW S, IsFiniteSet(S), NEW U, S \subseteq U, NEW V, S \subseteq V,
         NEW w, NEW v, \A x \in S : w[x] = v[x],
         NEW g, Sums(g, U, w), NEW h, Sums(h, V, v)
  PROVE  g[S] = h[S]
<1> SUFFICES ASSUME {s \in SUBSET S : g[s] # h[s]} # {} PROVE FALSE
  OBVIOUS
<1>1. PICK B : B = {s \in SUBSET S : g[s] # h[s]}
  OBVIOUS
<1>2. PICK s \in B : \A t \in B : t \subseteq s => t = s
  BY <1>1, SmallestSet
<1>3. PICK x : x = CHOOSE z \in s : TRUE
  OBVIOUS
<1>4. s \in SUBSET U /\ s \in SUBSET V /\ g[{}] = h[{}] /\ g[s] # h[s]
  BY <1>1 DEF Sums
<1>5. s # {} /\ g[s] = w[x] + g[s \ {x}] /\ h[s] = v[x] + h[s \ {x}]
  BY <1>3, <1>4 DEF Sums
<1>6. x \in s /\ x \in S
  BY <1>1, <1>3, <1>5
<1>7. s \ {x} \notin B /\ s \ {x} \in SUBSET S
  BY <1>1, <1>2, <1>6
<1> QED
  BY <1>1, <1>4, <1>5, <1>6, <1>7

\* Any member can be taken out of a sum first, not only the one the recursion takes.
LEMMA SumTakes ==
  ASSUME NEW S, IsFiniteSet(S), NEW w \in [S -> Nat], NEW g, Sums(g, S, w)
  PROVE  \A s \in SUBSET S : \A y \in s : g[s] = w[y] + g[s \ {y}]
<1> DEFINE Wrong(s) == \E y \in s : g[s] # w[y] + g[s \ {y}]
<1> SUFFICES ASSUME {s \in SUBSET S : Wrong(s)} # {} PROVE FALSE
  OBVIOUS
<1>1. PICK B : B = {s \in SUBSET S : Wrong(s)}
  OBVIOUS
<1>2. PICK s \in B : \A t \in B : t \subseteq s => t = s
  <2> HIDE DEF Wrong
  <2> QED
    BY <1>1, SmallestSet
<1>3. s \in SUBSET S
  BY <1>1
<1>4. PICK y \in s : g[s] # w[y] + g[s \ {y}]
  BY <1>1
<1>5. PICK x : x = CHOOSE z \in s : TRUE
  OBVIOUS
<1>6. x \in s /\ x \in S /\ y \in S
  BY <1>3, <1>4, <1>5
<1>7. g[s] = w[x] + g[s \ {x}]
  BY <1>3, <1>4, <1>5 DEF Sums
<1>8. x # y
  BY <1>4, <1>7
<1>9. s \ {x} \in SUBSET S /\ s \ {y} \in SUBSET S /\ s \ {x} \notin B /\ s \ {y} \notin B
  BY <1>2, <1>3, <1>6, <1>4
<1>10. g[s \ {x}] = w[y] + g[(s \ {x}) \ {y}] /\ g[s \ {y}] = w[x] + g[(s \ {y}) \ {x}]
  BY <1>1, <1>4, <1>6, <1>8, <1>9
<1>11. (s \ {x}) \ {y} = (s \ {y}) \ {x} /\ (s \ {x}) \ {y} \in SUBSET S
  BY <1>3
<1>12. PICK d : d = g[(s \ {x}) \ {y}]
  OBVIOUS
<1>13. d \in Nat /\ w[x] \in Nat /\ w[y] \in Nat
  BY <1>6, <1>11, <1>12, SumType
<1>14. g[s] = w[x] + (w[y] + d) /\ g[s \ {y}] = w[x] + d
  BY <1>7, <1>10, <1>11, <1>12
<1> QED
  BY <1>4, <1>13, <1>14

\* A sum over more elements is not smaller.
LEMMA SumGrows ==
  ASSUME NEW S, IsFiniteSet(S), NEW w \in [S -> Nat], NEW g, Sums(g, S, w),
         NEW t \in SUBSET S, NEW s \in SUBSET t
  PROVE  g[s] <= g[t]
<1> SUFFICES ASSUME {u \in SUBSET t : s \subseteq u /\ ~(g[s] <= g[u])} # {} PROVE FALSE
  OBVIOUS
<1>1. PICK B : B = {u \in SUBSET t : s \subseteq u /\ ~(g[s] <= g[u])}
  OBVIOUS
<1>2. PICK u \in B : \A r \in B : r \subseteq u => r = u
  <2>1. B \subseteq SUBSET S
    BY <1>1
  <2> QED
    BY <1>1, <2>1, SmallestSet
<1>3. u \in SUBSET S /\ s \in SUBSET S /\ s \subseteq u /\ ~(g[s] <= g[u])
  BY <1>1
<1>4. g[s] \in Nat /\ g[u] \in Nat
  BY <1>3, SumType
<1>5. PICK y \in u : y \notin s
  BY <1>3, <1>4
<1>6. g[u] = w[y] + g[u \ {y}]
  BY <1>3, SumTakes
<1>7. u \ {y} \notin B /\ u \ {y} \in SUBSET t /\ s \subseteq u \ {y} /\ u \ {y} \in SUBSET S
  BY <1>1, <1>2, <1>3, <1>5
<1>8. g[s] <= g[u \ {y}] /\ g[u \ {y}] \in Nat /\ w[y] \in Nat
  BY <1>1, <1>3, <1>7, SumType
<1> QED
  BY <1>3, <1>4, <1>6, <1>8
=============================================================================
