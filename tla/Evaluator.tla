------------------------------ MODULE Evaluator ------------------------------
(***************************************************************************)
(* The evaluators of the engines (core/evaluate.py, core/runtime.py,       *)
(* core/_cache.py, shooting/evaluator.py): checked calls to a system with  *)
(* a store of recent answers and counters of the work done.                *)
(*                                                                         *)
(* A candidate is [layout, numbers, options]; what a hook h rightly says   *)
(* of it is <<h, candidate>>.  A checked call (Boundary) may be refused    *)
(* now and not later: the hooks that answer well are chosen at each call.  *)
(***************************************************************************)
EXTENDS Integers, FiniteSets, SequencesExt

CONSTANTS
    None, Candidates,
    CacheSize,          \* entries of each store; 0 without caches
    Systems,            \* records [family, combined, more, default]: whether an OLSS
                        \* system has the hook residuals_and_jacobian and declares
                        \* metrics beyond the norms; its verification options or None
    MaxCalls            \* for each family

VARIABLES
    system,
    stores,             \* of each store the entries [key, answer], oldest use first
    count,              \* the counters
    asked, served,      \* how often each hook was called, and answered well
    used,               \* of each store the keys used, in order
    calls,
    last                \* what the last call was about and what it returned
evars == <<system, stores, count, asked, served, used, calls, last>>

Stores == {"evaluations", "value_gradients", "residuals", "jacobians", "metrics", "verification"}
Hooks == {"evaluate", "value_and_gradient", "gradient", "residuals", "jacobian", "combined", "verify"}
Counters == {"evaluation", "gradient", "value_gradient", "residual", "jacobian", "combined", "verification"}

KeyOfNumbers(c) == <<c.numbers, c.options>>
Key(c) == <<c.layout, c.numbers, c.options>>
True(h, c) == <<h, c>>
Nothing == [call |-> None, of |-> None, answer |-> None]

Init ==
    /\ system \in Systems
    /\ stores = [s \in Stores |-> <<>>] /\ used = [s \in Stores |-> <<>>]
    /\ count = [n \in Counters |-> [attempt |-> 0, success |-> 0]]
    /\ asked = [h \in Hooks |-> 0] /\ served = [h \in Hooks |-> 0]
    /\ calls = 0 /\ last = Nothing

---------------------------------------------------------------------------
(* BoundedCache, on a record e of the evaluator's state *)

Now == [stores |-> stores, count |-> count, asked |-> asked, served |-> served, used |-> used]

Has(e, s, k) == \E i \in DOMAIN e.stores[s] : e.stores[s][i].key = k
PlaceOf(entries, k) == CHOOSE i \in DOMAIN entries : entries[i].key = k
Get(e, s, k) == e.stores[s][PlaceOf(e.stores[s], k)].answer
Others(entries, k) ==
    IF \E i \in DOMAIN entries : entries[i].key = k THEN RemoveAt(entries, PlaceOf(entries, k)) ELSE entries

\* Moves to the end; the oldest are dropped beyond the size.
Put(e, s, k, answer) ==
    LET all == Append(Others(e.stores[s], k), [key |-> k, answer |-> answer])
        kept == SubSeq(all, IF Len(all) > CacheSize THEN Len(all) - CacheSize + 1 ELSE 1, Len(all))
        filled == [e EXCEPT !.stores[s] = kept] IN
    [filled EXCEPT !.used[s] = Append(@, k)]

Touch(e, s, k) == Put(e, s, k, Get(e, s, k))

\* A call of a hook: the attempt is counted before it, the successes after it.
Called(e, h, attempt, successes, good) ==
    LET tried == [e EXCEPT !.asked[h] = @ + 1]
        answered == IF h \in good THEN [tried EXCEPT !.served[h] = @ + 1] ELSE tried
        counted == [n \in Counters |->
                       [attempt |-> e.count[n].attempt + (IF n = attempt THEN 1 ELSE 0),
                        success |-> e.count[n].success + (IF h \in good /\ n \in successes THEN 1 ELSE 0)]] IN
    [answered EXCEPT !.count = counted]

Outcome(e, answer) == [e |-> e, answer |-> answer]

\* An operation with one store: a hit is returned, a failure is not kept.
Stored(e, s, k, h, c, counter, good) ==
    IF Has(e, s, k) THEN Outcome(Touch(e, s, k), Get(e, s, k))
    ELSE LET after == Called(e, h, counter, {counter}, good) IN
         IF h \in good THEN Outcome(Put(after, s, k, True(h, c)), True(h, c)) ELSE Outcome(after, None)

---------------------------------------------------------------------------
(* SystemEvaluator *)

Evaluated(e, c, good) ==
    Stored(e, "evaluations", Key(c), "evaluate", c, "evaluation", good)

\* Served only when both halves are kept; otherwise both are asked for anew.
ValueAndGradient(e, c, good) ==
    LET k == Key(c) pair == True("value_and_gradient", c)
        after == Called(e, "value_and_gradient", "value_gradient", {"value_gradient", "evaluation", "gradient"},
                        good) IN
    IF Has(e, "value_gradients", k) /\ Has(e, "evaluations", k)
    THEN Outcome(Touch(Touch(e, "value_gradients", k), "evaluations", k),
                 <<Get(e, "evaluations", k), Get(e, "value_gradients", k)>>)
    ELSE IF "value_and_gradient" \notin good THEN Outcome(after, None)
    ELSE Outcome(Put(Put(after, "evaluations", k, pair), "value_gradients", k, pair), <<pair, pair>>)

\* _counted: the operations without a store.
Gradient(e, c, good) ==
    Outcome(Called(e, "gradient", "gradient", {"gradient"}, good),
            IF "gradient" \in good THEN True("gradient", c) ELSE None)

---------------------------------------------------------------------------
(* ShootingEvaluator *)

Residuals(e, c, good) ==
    Stored(e, "residuals", Key(c), "residuals", c, "residual", good)
Jacobian(e, c, good) ==
    Stored(e, "jacobians", Key(c), "jacobian", c, "jacobian", good)

\* Without the combined hook the residuals stay when the Jacobian fails.
ResidualsAndJacobian(e, c, good) ==
    LET k == Key(c) both == True("combined", c)
        after == Called(e, "combined", "combined", {"combined", "residual", "jacobian"}, good)
        first == Residuals(e, c, good)
        second == Jacobian(first.e, c, good) IN
    IF Has(e, "residuals", k) /\ Has(e, "jacobians", k)
    THEN Outcome(Touch(Touch(e, "residuals", k), "jacobians", k),
                 <<Get(e, "residuals", k), Get(e, "jacobians", k)>>)
    ELSE IF system.combined
    THEN IF "combined" \notin good THEN Outcome(after, None)
         ELSE Outcome(Put(Put(after, "residuals", k, both), "jacobians", k, both), <<both, both>>)
    ELSE IF first.answer = None THEN first
    ELSE Outcome(second.e, IF second.answer = None THEN None ELSE <<first.answer, second.answer>>)

\* The norms of the residuals at hand, with the declared metrics beyond them.
Metrics(e, c, held, good) ==
    LET k == Key(c)
        after == IF system.more THEN Called(e, "evaluate", "evaluation", {"evaluation"}, good) ELSE e
        metrics == <<held, IF system.more THEN True("evaluate", c) ELSE None>> IN
    IF Has(e, "metrics", k) THEN Outcome(Touch(e, "metrics", k), Get(e, "metrics", k))
    ELSE IF system.more /\ "evaluate" \notin good THEN Outcome(after, None)
    ELSE Outcome(Put(after, "metrics", k, metrics), metrics)

ShootingEvaluation(e, c, good) ==
    LET r == Residuals(e, c, good) m == Metrics(r.e, c, r.answer, good) IN
    IF r.answer = None THEN r ELSE Outcome(m.e, IF m.answer = None THEN None ELSE <<r.answer, m.answer>>)

\* resolve_verification_request: the caller's options, the declared ones or
\* those of the solve; evidence is independent when they differ from the latter.
Request(working, explicit) ==
    LET options == IF explicit # None THEN explicit ELSE IF system.default # None THEN system.default ELSE working
        chosen == explicit # None \/ system.default # None IN
    [options |-> options,
     independent |-> chosen /\ options # "empty" /\ options # working,
     source |-> IF explicit # None THEN "explicit" ELSE IF system.default # None THEN "default" ELSE "reused"]

\* The store tells independent evidence, and where its options are from, apart.
Verify(e, c, asks, good) ==
    LET at == [c EXCEPT !.options = asks.options] k == <<Key(at), asks.independent, asks.source>>
        answer == [found |-> True("verify", at), independent |-> asks.independent, source |-> asks.source]
        after == Called(e, "verify", "verification", {"verification"}, good) IN
    IF Has(e, "verification", k) THEN Outcome(Touch(e, "verification", k), Get(e, "verification", k))
    ELSE IF "verify" \notin good THEN Outcome(after, None)
    ELSE Outcome(Put(after, "verification", k, answer), answer)

---------------------------------------------------------------------------
(* The calls; attempt() turns what they raise into an outcome without value *)

Returned(call, of, outcome) ==
    /\ calls < MaxCalls[system.family] /\ calls' = calls + 1
    /\ stores' = outcome.e.stores /\ count' = outcome.e.count
    /\ asked' = outcome.e.asked /\ served' = outcome.e.served /\ used' = outcome.e.used
    /\ last' = [call |-> call, of |-> of, answer |-> outcome.answer]
    /\ UNCHANGED system

OlgsCall ==
    /\ system.family = "olgs"
    /\ \E c \in {d \in Candidates : d.options = "empty"}, good \in {Hooks, {}} :
          \/ Returned("evaluate", c, Evaluated(Now, c, good))
          \/ Returned("value_and_gradient", c, ValueAndGradient(Now, c, good))
          \/ Returned("gradient", c, Gradient(Now, c, good))

OlssCall ==
    /\ system.family = "olss"
    /\ \E c \in Candidates, good \in {Hooks, Hooks \ {"jacobian"}, Hooks \ {"evaluate"}, {}} :
          \/ Returned("residuals", c, Residuals(Now, c, good))
          \/ Returned("jacobian", c, Jacobian(Now, c, good))
          \/ Returned("residuals_and_jacobian", c, ResidualsAndJacobian(Now, c, good))
          \/ Returned("shooting_evaluation", c, ShootingEvaluation(Now, c, good))

VerifyCall ==
    /\ system.family = "olss"
    /\ \E c \in Candidates, explicit \in {None, "empty"} \cup {d.options : d \in Candidates}, good \in {Hooks, {}} :
          LET asks == Request(c.options, explicit) IN
          Returned("verify", [candidate |-> c, asks |-> asks], Verify(Now, c, asks, good))

ClearCache ==
    /\ stores' = [s \in Stores |-> <<>>] /\ used' = [s \in Stores |-> <<>>]
    /\ calls < MaxCalls[system.family] /\ calls' = calls + 1
    /\ last' = Nothing
    /\ UNCHANGED <<system, count, asked, served>>

Next == OlgsCall \/ OlssCall \/ VerifyCall \/ ClearCache

Spec == Init /\ [][Next]_evars

---------------------------------------------------------------------------
\* The keys among the last CacheSize different ones used, in the order of use.
Recent(keys, n) ==
    LET final == {i \in DOMAIN keys : \A j \in DOMAIN keys : j > i => keys[j] # keys[i]}
        after(i) == Cardinality({j \in final : j > i})
        kept == {i \in final : after(i) < n} IN
    [r \in 1..Cardinality(kept) |-> keys[CHOOSE i \in kept : after(i) = Cardinality(kept) - r]]

\* Every part of an answer is about the candidate asked about, under its layout
\* and options, whatever calls filled the stores; verification evidence called
\* independent was made with options other than those of the solve.
AnswersTheCandidate ==
    LET About(answer, c) == answer[1] \in Hooks /\ answer[2] = c
        c == last.of IN
    last.answer # None =>
        CASE last.call \in {"evaluate", "gradient", "residuals", "jacobian"} -> About(last.answer, c)
          [] last.call \in {"value_and_gradient", "residuals_and_jacobian"} ->
                About(last.answer[1], c) /\ About(last.answer[2], c)
          [] last.call = "shooting_evaluation" ->
                /\ About(last.answer[1], c) /\ About(last.answer[2][1], c)
                /\ system.more => About(last.answer[2][2], c)
          [] last.call = "verify" ->
                LET at == [c.candidate EXCEPT !.options = c.asks.options] IN
                /\ About(last.answer.found, at)
                /\ last.answer.independent = c.asks.independent /\ last.answer.source = c.asks.source
                /\ last.answer.independent => last.answer.found[2] # c.candidate

\* A store holds exactly the answers used last, and the counters are the work of
\* the system: attempts with the failed ones, successes once for each part a
\* combined answer serves (docs/CORE_EVALUATION.md:58-117).
StoresAndCounters ==
    /\ \A s \in Stores : [i \in DOMAIN stores[s] |-> stores[s][i].key] = Recent(used[s], CacheSize)
    /\ count["evaluation"] = [attempt |-> asked["evaluate"], success |-> served["evaluate"] + served["value_and_gradient"]]
    /\ count["gradient"] = [attempt |-> asked["gradient"], success |-> served["gradient"] + served["value_and_gradient"]]
    /\ count["residual"] = [attempt |-> asked["residuals"], success |-> served["residuals"] + served["combined"]]
    /\ count["jacobian"] = [attempt |-> asked["jacobian"], success |-> served["jacobian"] + served["combined"]]
    /\ count["verification"] = [attempt |-> asked["verify"], success |-> served["verify"]]
=============================================================================
