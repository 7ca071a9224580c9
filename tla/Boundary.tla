------------------------------- MODULE Boundary -------------------------------
(***************************************************************************)
(* The checked calls between the library and a project system              *)
(* (system_olgs, system_olss, families.py, controls.py).                   *)
(*                                                                         *)
(* A system is a record: family and declares, its static specification;    *)
(* hooks, the callables it has; dtype, the kind of its layout; answers, of *)
(* each hook what it returns.  An answer is a record                       *)
(*   kind     "raises", "Controls", "array", "pair", "mapping", ...        *)
(*   own      whether it has the layout the system declares                *)
(*   finite, ordered  whether its numbers are finite, lower below upper    *)
(*   metrics  each metric it contains: "scalar", "vector" or "nonfinite"   *)
(* A checked call is None when its answer is accepted and otherwise the    *)
(* type of the exception.                                                  *)
(***************************************************************************)
EXTENDS Integers, Sequences, FiniteSets

CONSTANT None

Unless(holds, error) == IF holds THEN None ELSE error
First(errors) == LET raised == SelectSeq(errors, LAMBDA e : e # None) IN
                 IF raised = <<>> THEN None ELSE Head(raised)

---------------------------------------------------------------------------
(* Static declarations *)

OlgsRequired == {"control_spec", "evaluate", "gradient", "with_secondary"}
OlssRequired == {"shooting_spec", "residuals", "jacobian", "evaluate", "verify", "with_secondary"}

system_family(s) == First(<<Unless(s.declares.kind = "mapping", "TypeError"),
                            Unless(s.declares.family \in {None, "olgs", "olss"}, "ValueError")>>)

\* The objective is declared, it is what the analytical gradient differentiates.
validate_system_spec(d) ==
    Unless(/\ d.schema = "olgs" /\ d.identity
           /\ d.objective \in DOMAIN d.metrics
           /\ d.derivative = [source |-> "analytical", target |-> d.objective], "ValueError")

\* The residual norms are declared, and the metric that selects among roots.
validate_shooting_system_spec(d) ==
    Unless(/\ d.schema = "olss" /\ d.identity
           /\ {"residual_norm", "residual_max_abs"} \subseteq DOMAIN d.metrics
           /\ d.derivative.source \in {"analytical", "variational", "automatic", "numerical-declared"}
           /\ d.derivative.target = "residuals"
           /\ d.objective \in DOMAIN d.metrics \cup {None}, "ValueError")

\* The metrics every answer must hold, whatever their declarations say.
Required(s) ==
    {m \in DOMAIN s.declares.metrics : s.declares.metrics[m].required}
        \cup (IF s.declares.family = "olss" THEN {"residual_norm", "residual_max_abs"}
              ELSE {s.declares.objective})

require_system(s) ==
    First(<<Unless(OlgsRequired \subseteq s.hooks, "TypeError"), validate_system_spec(s.declares)>>)

\* The declared variables are those of shooting_spec().
validate_shooting_spec(s) ==
    First(<<Unless("shooting_spec" \in s.hooks, "TypeError"), validate_shooting_system_spec(s.declares),
            Unless(s.declares.variables = "own", "ValueError")>>)

require_shooting_system(s) ==
    First(<<Unless(OlssRequired \subseteq s.hooks, "TypeError"), validate_shooting_spec(s)>>)

---------------------------------------------------------------------------
(* Candidates.  Controls and variables are [own, finite] records. *)

\* Layout identity: keys, dimension, dtype, dt and scales, never metadata.
SameLayout(c) == Unless(c.own, "ValueError")
validate_controls_for_system(c) ==
    First(<<Unless(c.kind = "Controls", "TypeError"), SameLayout(c), Unless(c.finite, "ValueError")>>)
validate_variables(c) ==
    First(<<Unless(c.kind = "Variables", "TypeError"), SameLayout(c), Unless(c.finite, "ValueError")>>)

---------------------------------------------------------------------------
(* Answers *)

Raised(a) == Unless(a.kind # "raises", "Hook")
Finite(a) == Unless(a.finite, "ValueError")

\* A vector or matrix; whatever else the hook returned does not convert.
Array(a) == First(<<Raised(a), Unless(a.kind = "array", "TypeError")>>)
Laid(a) == First(<<Raised(a), Unless(a.kind = "Controls", "TypeError"), SameLayout(a), Finite(a)>>)

Unfit(s, a) ==
    \E m \in DOMAIN a.metrics \cap DOMAIN s.declares.metrics :
        \/ a.metrics[m] = "vector"
        \/ a.metrics[m] = "nonfinite" /\ ~s.declares.metrics[m].nonfinite

validate_declared_metrics(s, a) ==
    First(<<Unless(s.declares.additional \/ DOMAIN a.metrics \subseteq DOMAIN s.declares.metrics, "KeyError"),
            Unless(Required(s) \subseteq DOMAIN a.metrics, "KeyError"),
            Unless(~Unfit(s, a), "ValueError")>>)

\* float() refuses a vector as it refuses an infinity.
Scalar(a, m) == First(<<Unless(a.metrics[m] # "vector", "TypeError"),
                        Unless(a.metrics[m] # "nonfinite", "ValueError")>>)

validate_metrics(s, a) ==
    IF a.kind # "mapping" THEN "TypeError"
    ELSE IF s.declares.objective \notin DOMAIN a.metrics THEN "KeyError"
    ELSE First(<<Scalar(a, s.declares.objective), validate_declared_metrics(s, a)>>)

---------------------------------------------------------------------------
(* OLGS hooks *)

evaluate_system(s) == LET a == s.answers["evaluate"] IN
    IF a.kind = "raises" THEN "Hook" ELSE validate_metrics(s, a)
gradient_system(s) == Laid(s.answers["gradient"])
optional_smooth_gradient(s) == Laid(s.answers["smooth_gradient"])
optional_prox(s, step) == First(<<Unless(step = "positive", "ValueError"), Laid(s.answers["prox"])>>)

\* An answer [metrics, gradient] of either form.
value_and_gradient_system(s) == LET a == s.answers["value_and_gradient"] IN
    IF a.kind # "pair" THEN First(<<Raised(a), "TypeError">>)
    ELSE First(<<validate_metrics(s, [a EXCEPT !.kind = "mapping"]), SameLayout(a), Finite(a)>>)

\* The bounds of a ControlBounds may be infinite; crossed ones are refused.
optional_control_bounds(s) == LET a == s.answers["control_bounds"] IN
    First(<<Raised(a), Unless(a.kind \in {"ControlBounds", "pair"}, "TypeError"), SameLayout(a),
            Unless(a.kind = "ControlBounds" \/ a.finite, "ValueError"), Unless(a.ordered, "ValueError")>>)

\* Any length: the number of constraints is not declared.
optional_residuals(s) == LET a == s.answers["residuals"] IN First(<<Array(a), Finite(a)>>)
optional_jacobian(s) == LET a == s.answers["jacobian"] IN First(<<Array(a), SameLayout(a), Finite(a)>>)
optional_hessian(s) == LET a == s.answers["hessian"] IN First(<<Array(a), SameLayout(a), Finite(a)>>)
\* A bare vector takes the layout of the controls.
optional_hvp(s) == LET a == s.answers["hvp"] IN
    First(<<Raised(a), Unless(a.kind \in {"Controls", "array"}, "TypeError"), SameLayout(a), Finite(a)>>)

---------------------------------------------------------------------------
(* OLSS hooks *)

residuals_system(s) == LET a == s.answers["residuals"] IN First(<<Array(a), SameLayout(a), Finite(a)>>)
jacobian_system(s) == LET a == s.answers["jacobian"] IN First(<<Array(a), SameLayout(a), Finite(a)>>)

\* The combined hook when there is one, the separate ones otherwise.
residuals_and_jacobian_system(s) ==
    IF "residuals_and_jacobian" \in s.hooks
    THEN LET a == s.answers["residuals_and_jacobian"] IN
         First(<<Raised(a), Unless(a.kind = "pair", "TypeError"), SameLayout(a), Finite(a)>>)
    ELSE First(<<residuals_system(s), jacobian_system(s)>>)

evaluate_shooting_system(s) == LET a == s.answers["evaluate"] IN
    First(<<Raised(a), Unless(a.kind = "mapping", "TypeError"), validate_declared_metrics(s, a)>>)

\* The residuals of a verification are checked as those of the working call.
verify_shooting_system(s) == LET a == s.answers["verify"] IN
    First(<<Raised(a), Unless(a.kind \in {"mapping", "verification"}, "TypeError"),
            SameLayout(a), Finite(a), validate_declared_metrics(s, a)>>)

cost_gradient_system(s) == LET a == s.answers["cost_gradient"] IN
    First(<<Unless("cost_gradient" \in s.hooks, "TypeError"), Array(a), SameLayout(a), Finite(a)>>)

\* Infinite bounds are bounds; a system without the hook has none.
shooting_bounds_system(s) == LET a == s.answers["shooting_bounds"] IN
    IF "shooting_bounds" \notin s.hooks THEN None
    ELSE First(<<Raised(a), Unless(a.kind = "pair", "TypeError"), validate_shooting_spec(s), SameLayout(a),
                 Unless(a.ordered, "ValueError")>>)

---------------------------------------------------------------------------
\* The checked call of each operation on accepted candidates.
Checked(s, operation, step) ==
    IF s.declares.family = "olss"
    THEN CASE operation = "residuals" -> residuals_system(s)
           [] operation = "jacobian" -> jacobian_system(s)
           [] operation = "residuals_and_jacobian" -> residuals_and_jacobian_system(s)
           [] operation = "evaluate" -> evaluate_shooting_system(s)
           [] operation = "verify" -> verify_shooting_system(s)
           [] operation = "cost_gradient" -> cost_gradient_system(s)
           [] operation = "shooting_bounds" -> shooting_bounds_system(s)
           [] operation = "shooting_spec" -> validate_shooting_spec(s)
           [] OTHER -> None
    ELSE CASE operation = "evaluate" -> evaluate_system(s)
           [] operation = "gradient" -> gradient_system(s)
           [] operation = "value_and_gradient" -> value_and_gradient_system(s)
           [] operation = "residuals" -> optional_residuals(s)
           [] operation = "jacobian" -> optional_jacobian(s)
           [] operation = "hvp" -> optional_hvp(s)
           [] operation = "hessian" -> optional_hessian(s)
           [] operation = "smooth_gradient" -> optional_smooth_gradient(s)
           [] operation = "prox" -> optional_prox(s, step)
           [] operation = "control_bounds" -> optional_control_bounds(s)
           [] OTHER -> None
=============================================================================
