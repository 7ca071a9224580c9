--------------------------- MODULE MCTransactions ---------------------------
(***************************************************************************)
(* Systems and requests of an instance of Transactions.                    *)
(***************************************************************************)
EXTENDS Sequences, FiniteSets, TLC

CONSTANT None

---------------------------------------------------------------------------
(* Systems *)

Norms == {"residual_norm", "residual_max_abs"}

Answer(kind) ==
    [kind |-> kind, own |-> TRUE, finite |-> TRUE, ordered |-> TRUE,
     metrics |-> [m \in {"cost"} \cup Norms |-> "scalar"]]

\* The same with one fault.
Failing(a) ==
    {[a EXCEPT !.kind = "raises"], [a EXCEPT !.kind = "other"], [a EXCEPT !.own = FALSE],
     [a EXCEPT !.finite = FALSE], [a EXCEPT !.ordered = FALSE],
     [a EXCEPT !.metrics = [m \in {"residual_norm"} |-> "scalar"]],
     [a EXCEPT !.metrics["cost"] = "vector"], [a EXCEPT !.metrics["residual_norm"] = "nonfinite"],
     [a EXCEPT !.metrics = @ @@ "more" :> "vector"]}

Kinds(family) ==
    IF family = "olss"
    THEN "evaluate" :> "mapping" @@ "verify" :> "mapping" @@ "shooting_bounds" :> "pair"
         @@ "residuals_and_jacobian" :> "pair" @@ [h \in {"residuals", "jacobian", "cost_gradient"} |-> "array"]
    ELSE "evaluate" :> "mapping" @@ "value_and_gradient" :> "pair" @@ "control_bounds" :> "pair"
         @@ [h \in {"gradient", "smooth_gradient", "prox", "hvp"} |-> "Controls"]
         @@ [h \in {"residuals", "jacobian", "hessian"} |-> "array"]

Declares(family) ==
    [kind |-> "mapping", family |-> family, schema |-> family, identity |-> TRUE, objective |-> "cost",
     metrics |-> [m \in {"cost"} \cup (IF family = "olss" THEN Norms ELSE {}) |->
                     [required |-> TRUE, nonfinite |-> FALSE]],
     derivative |-> [source |-> "analytical", target |-> IF family = "olss" THEN "residuals" ELSE "cost"],
     variables |-> "own", additional |-> TRUE]

Sound(family, dtype) ==
    [declares |-> Declares(family), dtype |-> dtype,
     hooks |-> DOMAIN Kinds(family) \cup {"control_spec", "shooting_spec", "with_secondary"},
     answers |-> [h \in DOMAIN Kinds(family) |-> Answer(Kinds(family)[h])]]
Sounds == {Sound("olgs", d) : d \in {"real", "complex", "integral"}} \cup {Sound("olss", "real")}

Misdeclared(s) ==
    {[s EXCEPT !.declares = d] :
        d \in {[s.declares EXCEPT !.kind = "absent"], [s.declares EXCEPT !.identity = FALSE],
               [s.declares EXCEPT !.variables = "other"], [s.declares EXCEPT !.objective = "undeclared"],
               [s.declares EXCEPT !.additional = FALSE]}}
Incomplete(s) ==
    {[s EXCEPT !.hooks = @ \ {h}] : h \in {"residuals", "with_secondary", "residuals_and_jacobian"}}
Faulty(s) == UNION {{[s EXCEPT !.answers[h] = a] : a \in Failing(s.answers[h])} : h \in DOMAIN s.answers}

\* Beside sound systems, those with one fault in what they declare, have or answer.
SomeSystems ==
    UNION {{s} \cup Misdeclared(s) \cup Incomplete(s) : s \in Sounds}
        \cup Faulty(Sound("olgs", "complex")) \cup Faulty(Sound("olss", "real"))

---------------------------------------------------------------------------
(* Requests *)

Given(forms, data, specs) == [form : forms, data : data, fits : BOOLEAN, spec : specs]
Numeric == {"real", "whole", "complex"}
SomeValues ==
    Given({"object"}, Numeric, {None})
        \cup Given({"named", "list"}, Numeric \cup {"infinite", "infinite text"}, {None})
        \cup Given({"array"}, Numeric \cup {"infinite"}, {None})
        \cup Given({"whole"}, Numeric \cup {"infinite", "infinite text"}, {None, "own", "other"})
        \cup {[form |-> f, data |-> "complex", fits |-> TRUE, spec |-> None] : f \in {"pair", "text"}}

GoodValue == [form |-> "array", data |-> "whole", fits |-> TRUE, spec |-> None]
Asks(operation, payload) ==
    [sound |-> TRUE, family |-> None, operation |-> operation, payload |-> payload, options |-> "none"]
NoFields == [f \in {} |-> GoodValue]

\* Every form of a candidate; every operation on a good one; and requests with
\* one fault.
SomeRequests ==
    {Asks("evaluate", f :> v) : f \in {"controls", "variables"}, v \in SomeValues}
    \cup {Asks("hvp", "controls" :> GoodValue @@ "vector" :> v) : v \in {w \in SomeValues : w.form \in {"object", "named"}}}
    \cup {Asks(o, "controls" :> GoodValue) : o \in {"gradient", "value_and_gradient", "residuals", "jacobian",
                                                    "hessian", "smooth_gradient"}}
    \cup {[Asks(o, "variables" :> GoodValue) EXCEPT !.options = x] :
            o \in {"residuals", "jacobian", "residuals_and_jacobian", "evaluate", "verify", "cost_gradient"},
            x \in {"plain", "array"}}
    \cup {[Asks(o, NoFields) EXCEPT !.options = x] :
            o \in {"system_spec", "control_spec", "shooting_spec", "control_bounds", "shooting_bounds",
                   "residuals", "unknown"}, x \in {"none", "plain"}}
    \cup {Asks("prox", "controls" :> GoodValue @@ "step_size" :> x) : x \in {"positive", "nan"}}
    \cup {Asks("with_secondary", "update" :> x) : x \in {"plain", "array"}}
    \cup {Asks("residuals", "controls" :> GoodValue @@ "name" :> "plain"),
          [Asks("system_spec", NoFields) EXCEPT !.family = "olgs"],
          [Asks("system_spec", NoFields) EXCEPT !.sound = FALSE]}
=============================================================================
