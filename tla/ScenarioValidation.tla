------------------------- MODULE ScenarioValidation -------------------------
(***************************************************************************)
(* How scripts/run_real_world_complex_matrix.py judges a generated service:*)
(* _validate_generated_scenario imports the module and calls it, and       *)
(* _composite_acceptance_evaluation turns the checks it passed into the    *)
(* three acceptance lanes.                                                 *)
(*                                                                         *)
(* A service is what these calls can observe of it.  Payloads are the      *)
(* requests of _scenario_request_payloads, and the low one cut to its first*)
(* two details.                                                            *)
(***************************************************************************)
EXTENDS Naturals, FiniteSets

Payloads == {"low", "high", "malformed", "partial"}

ServiceRecord ==
  [compiles    : BOOLEAN,
   imports     : SUBSET {"stdlib", "future", "third_party", "relative"},
   load        : {"ok", "raises", "exits"},   \* how its import ends
   exposes     : BOOLEAN,                     \* both classes of the scenario are there
   constructor : {"ok", "arguments", "raises"},
   fields      : {"exact", "extended", "other"},  \* parameters of the request class
   accepts     : SUBSET Payloads,             \* the requests it can construct
   methods     : {"exact", "extended", "other"},  \* of validate_ and handle_request
   validate    : [Payloads -> {"true", "false", "raises"}],
   handle      : [Payloads -> {"returns", "rejects", "confused", "crashes"}],
   differs     : SUBSET {"outcome", "state"}, \* where low and high risk differ
   batch       : BOOLEAN,                     \* one instance handles both
   audits      : SUBSET {"outcome", "state"}] \* where it leaves an audit signal

\* What _function_explicitly_asserts_invalid_request_value_error looks for in a
\* test function: details that are no dict, an assertion that validate_request
\* is false, and handle_request under pytest.raises(ValueError).
Assertions == {"non_dict_details", "validate_false", "handle_raises"}

\* mutant: the assertions are collected over the whole suite
AssertsContract_AnyFunction(suite) == UNION suite = Assertions

\* _generated_tests_explicitly_assert_invalid_request_value_error, for a suite
\* given as the assertions of each of its test functions
AssertsContract(suite) == \E function \in suite : function = Assertions

\* _unsupported_non_stdlib_imports
StdlibOnly(s) == s.imports \subseteq {"stdlib", "future"}

\* _instantiate_service
Instantiable(s) == s.load = "ok" /\ s.exposes /\ s.constructor = "ok"

\* _callable_supports_leading_parameters.  zip(strict=True) raises for a
\* callable with more parameters, defaulted or not, and the raise fails it.
Supports(shape) == shape = "exact"

\* _invalid_request_is_rejected, or the request could not be constructed
Rejected(s) ==
  \/ "malformed" \notin s.accepts
  \/ s.validate["malformed"] # "true"
  \/ s.handle["malformed"] # "returns"

\* _handle_request_explicitly_rejects_malformed_request: a TypeError, NameError
\* or AttributeError is a defect of the code, and not a rejection.
RejectsExplicitly(s) == "malformed" \in s.accepts => s.handle["malformed"] = "rejects"

\* _handle_request_survives_invalid, for the partial payload
Survives(s) == "partial" \in s.accepts => s.handle["partial"] \in {"returns", "rejects"}

\* Between the check invalid_request_rejected and the next.  A strict scenario
\* (returns_abuse_screening) must construct every request.
Handled(strict, s) ==
  /\ RejectsExplicitly(s)
  /\ strict => "partial" \in s.accepts
  /\ Survives(s)

Rung(check, holds) == [check |-> check, holds |-> holds]

\* mutant: invalid requests are looked at when everything else is fine
Rungs_HandledLast(strict, s, asserted) ==
  << Rung("syntax_valid", s.compiles),
     Rung("stdlib_only", StdlibOnly(s)),
     Rung("service_constructor_supported", Instantiable(s)),
     Rung("request_signature_supported", Supports(s.fields)),
     Rung("validation_surface_supported", {"low", "high"} \subseteq s.accepts),
     Rung("valid_request_accepted", s.validate["low"] = "true"),
     Rung("invalid_request_rejected", Rejected(s)),
     Rung("generated_tests_assert_invalid_request_value_error", asserted),
     Rung("risk_signal_observable", s.differs # {}),
     Rung("batch_processing_supported", s.batch),
     Rung("audit_signal_present", s.audits # {}),
     Rung("invalid_request_handled", Handled(strict, s)) >>

\* The checks of _validate_generated_scenario in the order it makes them, each
\* with what must hold for it; the first that fails ends the validation.
Rungs(strict, s, asserted) ==
  << Rung("syntax_valid", s.compiles),
     Rung("stdlib_only", StdlibOnly(s)),
     Rung("service_constructor_supported", Instantiable(s)),
     Rung("request_signature_supported", Supports(s.fields)),
     Rung("validation_surface_supported",
          /\ {"low", "high"} \subseteq s.accepts
          /\ strict => "malformed" \in s.accepts
          /\ Supports(s.methods)),
     Rung("valid_request_accepted", s.validate["low"] = "true"),
     Rung("invalid_request_rejected", Rejected(s)),
     Rung("invalid_request_handled", Handled(strict, s)),
     Rung("generated_tests_assert_invalid_request_value_error", asserted),
     Rung("risk_signal_observable",
          /\ \A risk \in {"low", "high"} : s.handle[risk] = "returns"
          /\ s.differs # {}),
     Rung("batch_processing_supported", s.batch),
     Rung("audit_signal_present", s.audits # {}) >>

\* checks: the names that _validate_generated_scenario turns to True
Checks(strict, s, asserted) ==
  LET rungs == Rungs(strict, s, asserted)
  IN  {rungs[k].check : k \in {n \in DOMAIN rungs : \A m \in 1..n : rungs[m].holds}}

\* SystemExit passes every handler of the validation.
EndsTheProcess(s) == s.compiles /\ StdlibOnly(s) /\ s.load = "exits"

-----------------------------------------------------------------------------
ProductivityChecks ==
  {"syntax_valid", "service_constructor_supported", "request_signature_supported",
   "validation_surface_supported", "batch_processing_supported"}
RealWorkflowChecks ==
  {"valid_request_accepted", "invalid_request_rejected",
   "generated_tests_assert_invalid_request_value_error", "risk_signal_observable",
   "audit_signal_present"}
SafetyChecks == {"stdlib_only"}

\* _composite_acceptance_evaluation of a workflow that was accepted so far;
\* incident: a category with no tolerance was seen on the project or a task.
FailedLanes(passed, incident) ==
  {lane \in {"productivity", "real_workflow", "safety"} :
     CASE lane = "productivity"  -> ~(ProductivityChecks \subseteq passed)
       [] lane = "real_workflow" -> ~(RealWorkflowChecks \subseteq passed)
       [] lane = "safety"        -> ~(SafetyChecks \subseteq passed) \/ incident}

\* acceptance_evaluation["reason"]: of the first lane that failed
Reason(lanes) ==
  CASE "productivity" \in lanes  -> "productivity_validation_failed"
    [] "real_workflow" \in lanes -> "scenario_validation_failed"
    [] "safety" \in lanes        -> "safety_validation_failed"
    [] OTHER                     -> "accepted"
=============================================================================
