----------------------------- MODULE Transactions -----------------------------
(***************************************************************************)
(* One operation on a project system as a request and a response           *)
(* (transactions.py, serialization.py).  A request holds live objects or   *)
(* the plain data they turn into, which is decoded against the system's    *)
(* own layout, and a failure of any kind becomes a response.               *)
(*                                                                         *)
(* A request is [sound, family, operation, payload, options]; payload is a *)
(* function of the fields given.  Controls and variables are values        *)
(*   form   "object", "named" (by channel or block), "whole" (matrix, flat *)
(*          or values), "array", "list", "pair" (real and imag), "text"    *)
(*   data   "real", "whole", "complex", "infinite" or "infinite text"      *)
(*   fits   whether its shape, keys and field names are the system's       *)
(*   spec   the layout declared with it: None, "own" or "other"            *)
(* Other fields and options are "plain", "array" or a step size.           *)
(***************************************************************************)
EXTENDS Boundary, TLC

CONSTANTS Systems, Requests

VARIABLES
    system, request,
    reply,          \* the response to the request
    echo            \* the response to the same request after JSON
tvars == <<system, request, reply, echo>>

Response(ok, error, result) == [ok |-> ok, error |-> error, result |-> result]
Refused(error) == Response(FALSE, error, None)
Accepted(result) == Response(TRUE, None, result)

---------------------------------------------------------------------------
(* to_plain *)

PlainData(d) == IF d = "infinite" THEN "infinite text" ELSE d

\* A value given by itself loses its array: real arrays become lists, complex
\* ones a mapping of two arrays; a live object takes its layout along.
PlainValue(v) ==
    [v EXCEPT !.data = PlainData(@),
              !.form = CASE @ = "object" -> "whole"
                         [] @ = "array" /\ v.data = "complex" -> "pair"
                         [] @ = "array" -> "list"
                         [] OTHER -> @,
              !.spec = IF v.form = "object" THEN IF v.fits THEN "own" ELSE "other" ELSE @]

\* A step size and other plain data stay what they are.
PlainOther(x) == IF x = "array" THEN "list" ELSE x

Candidates == {"controls", "vector", "variables"}
Plain(r) ==
    [r EXCEPT !.payload = [f \in DOMAIN @ |-> IF f \in Candidates THEN PlainValue(@[f]) ELSE PlainOther(@[f])],
              !.options = PlainOther(@)]

---------------------------------------------------------------------------
(* Decoding *)

ArrayErrorCast(data, dtype) ==
    First(<<Unless(dtype = "integral" => data # "real", "ValueError"),
            Unless(~(dtype = "integral" /\ data = "infinite"), "OverflowError"),
            Unless(data \notin {"infinite", "infinite text"}, "ValueError")>>)
\* _array: complex numbers need a complex layout, an integral layout whole
\* numbers; int() of an infinity raises an OverflowError, of its text not.
ArrayError(data, dtype) ==
    First(<<Unless(data = "complex" => dtype = "complex", "ValueError"),
            Unless(dtype = "integral" => data # "real", "ValueError"),
            Unless(~(dtype = "integral" /\ data = "infinite"), "OverflowError"),
            Unless(data \notin {"infinite", "infinite text"}, "ValueError")>>)

\* The declared layout is compared before the numbers are read.
Decoding(v, dtype) ==
    CASE v.form = "object" -> Unless(v.fits, "ValueError")
      [] v.form \in {"named", "array", "list"} ->
            First(<<ArrayError(v.data, dtype), Unless(v.fits, "ValueError")>>)
      [] v.form = "whole" ->
            First(<<Unless(v.spec \in {None, "own"}, "ValueError"), ArrayError(v.data, dtype),
                    Unless(v.fits, "ValueError")>>)
      [] OTHER -> "ValueError"

Decoded(e) == IF e \in {"KeyError", "TypeError", "ValueError"} THEN "invalid_payload" ELSE e

\* What reaches the checked call: numbers laid out as the system declares.
Numbers(v) ==
    [numbers |-> v.data, own |-> v.fits /\ v.spec # "other", finite |-> v.data \notin {"infinite", "infinite text"}]
Laying(v, kind) == [own |-> Numbers(v).own, finite |-> Numbers(v).finite, kind |-> kind]

---------------------------------------------------------------------------
(* The operations of a family: the hooks each needs, its payload, and      *)
(* whether it takes options.                                               *)

Operation(hooks, required, optional, options) ==
    [hooks |-> hooks, required |-> required, optional |-> optional, options |-> options, static |-> FALSE]
Static == [Operation({}, {}, {}, FALSE) EXCEPT !.static = TRUE]
OnControls(hook) == Operation({hook}, {"controls"}, {}, FALSE)
OnVariables(hooks) == Operation(hooks, {"variables"}, {}, TRUE)

OlgsOperations ==
    [o \in {"system_spec", "control_spec"} |-> Static]
    @@ [o \in {"evaluate", "gradient", "value_and_gradient", "hessian", "smooth_gradient"} |-> OnControls(o)]
    @@ [o \in {"residuals", "jacobian"} |-> Operation({o}, {"controls"}, {"name"}, FALSE)]
    @@ "hvp" :> Operation({"hvp"}, {"controls", "vector"}, {}, FALSE)
    @@ "prox" :> Operation({"prox"}, {"controls", "step_size"}, {}, FALSE)
    @@ "control_bounds" :> Operation({"control_bounds"}, {}, {}, FALSE)

OlssOperations ==
    [o \in {"system_spec", "shooting_spec"} |-> Static]
    @@ [o \in {"residuals", "jacobian", "evaluate", "verify", "cost_gradient"} |-> OnVariables({o})]
    @@ "residuals_and_jacobian" :> OnVariables({"residuals", "jacobian"})
    @@ "shooting_bounds" :> Operation({"shooting_bounds"}, {}, {}, FALSE)

Family(s) == IF s.declares.family = "olss" THEN "olss" ELSE "olgs"
Operations(s) == IF Family(s) = "olss" THEN OlssOperations ELSE OlgsOperations

---------------------------------------------------------------------------
(* One transaction *)

\* with_secondary takes the payload as it came.
Updated(s, r) ==
    CASE r.options # "none" -> Refused("invalid_payload")
      [] "with_secondary" \notin s.hooks -> Refused("capability_missing")
      [] OTHER -> Accepted(r.payload)

\* The layout is asked for first, and what it raises is not the payload's
\* fault; the first candidate that does not decode names the failure.
Handled(s, r) ==
    LET given == DOMAIN r.payload \cap Candidates
        dtype == IF Family(s) = "olss" THEN "real" ELSE s.dtype
        layout == IF "variables" \in given THEN validate_shooting_spec(s) ELSE None
        undecoded == First(<<IF "controls" \in given THEN Decoding(r.payload["controls"], dtype) ELSE None,
                             IF "variables" \in given THEN Decoding(r.payload["variables"], dtype) ELSE None,
                             IF "vector" \in given THEN Decoding(r.payload["vector"], dtype) ELSE None>>)
        unlaid == First(<<IF "variables" \in given THEN validate_variables(Laying(r.payload["variables"], "Variables")) ELSE None,
                          IF "controls" \in given THEN validate_controls_for_system(Laying(r.payload["controls"], "Controls")) ELSE None>>)
        step == IF "step_size" \in DOMAIN r.payload THEN r.payload["step_size"] ELSE None
        error == First(<<layout, Decoded(undecoded), unlaid, Checked(s, r.operation, step)>>) IN
    IF error # None THEN Refused(error)
    ELSE Accepted([candidates |-> [f \in given |-> Numbers(r.payload[f])], options |-> r.options])

Executed(s, r) ==
    IF r.operation = "with_secondary" THEN Updated(s, r)
    ELSE IF r.operation \notin DOMAIN Operations(s) THEN Refused("unsupported_operation")
    ELSE LET o == Operations(s)[r.operation] IN
         CASE o.static /\ (DOMAIN r.payload # {} \/ r.options # "none") -> Refused("invalid_payload")
           [] r.options # "none" /\ ~o.options -> Refused("invalid_payload")
           [] ~(/\ o.required \subseteq DOMAIN r.payload
                /\ DOMAIN r.payload \subseteq o.required \cup o.optional) -> Refused("invalid_payload")
           [] ~(o.hooks \subseteq s.hooks) -> Refused("capability_missing")
           [] OTHER -> Handled(s, r)

ValidSpec(s) ==
    /\ system_family(s) = None
    /\ IF Family(s) = "olss" THEN validate_shooting_system_spec(s.declares) = None
       ELSE validate_system_spec(s.declares) = None

Transacted(s, r) ==
    CASE ~r.sound -> Refused("invalid_request")
      [] ~ValidSpec(s) -> Refused("invalid_system")
      [] r.family \notin {None, Family(s)} -> Refused("family_mismatch")
      [] OTHER -> Executed(s, r)

\* A live object of the system's own layout holds its kind of numbers.
Possible(s, v) ==
    v.form = "object" /\ v.fits =>
        /\ v.data = "complex" => s.dtype = "complex"
        /\ v.data = "real" => s.dtype # "integral"

Init ==
    /\ system \in Systems /\ request \in Requests
    /\ \A f \in DOMAIN request.payload \cap Candidates : Possible(system, request.payload[f])
    /\ reply = None /\ echo = None

Transact ==
    /\ reply = None
    /\ reply' = Transacted(system, request)
    /\ UNCHANGED <<system, request, echo>>

Resend ==
    /\ reply # None /\ echo = None
    /\ echo' = Transacted(system, Plain(request))
    /\ UNCHANGED <<system, request, reply>>

Next == Transact \/ Resend

Spec == Init /\ [][Next]_tvars

---------------------------------------------------------------------------
\* What passes through JSON undecoded, or is told apart by it: arrays among the
\* options or the updates, a bare complex array, an infinity for an integral
\* layout.
Apart(s, r) ==
    \/ r.options = "array" \/ (r.operation = "with_secondary" /\ \E f \in DOMAIN r.payload : r.payload[f] = "array")
    \/ \E f \in DOMAIN r.payload \cap Candidates :
          \/ r.payload[f].form = "array" /\ r.payload[f].data = "complex"
          \/ s.dtype = "integral" /\ r.payload[f].data = "infinite"

\* A request that passed through JSON executes unchanged (transactions.py:5-6):
\* the system sees the same numbers and the caller the same response, for every
\* form of the candidates that Apart does not name.  The system is only asked
\* about numbers it could represent, in its own layout.  And a system that meets
\* its contract lacks no capability its contract lists.
PlainExecutesAlike ==
    /\ echo # None /\ ~Apart(system, request) => echo = reply
    /\ \A answer \in {reply, echo} \ {None} :
          answer.ok /\ request.operation # "with_secondary" =>
             \A f \in DOMAIN answer.result.candidates :
                LET n == answer.result.candidates[f].numbers IN
                /\ n \notin {"infinite", "infinite text"}
                /\ n = "complex" => system.dtype = "complex"
    /\ reply # None /\ reply.error = "capability_missing" =>
          IF Family(system) = "olss"
          THEN require_shooting_system(system) # None \/ ~(Operations(system)[request.operation].hooks \subseteq OlssRequired)
          ELSE \/ require_system(system) # None
               \/ /\ request.operation # "with_secondary"
                  /\ ~(Operations(system)[request.operation].hooks \subseteq OlgsRequired)
=============================================================================
