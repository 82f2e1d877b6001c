----------------------------- MODULE MCCampaign -----------------------------
(***************************************************************************)
(* The matrix workflow up to its suite, and services with one defect each. *)
(***************************************************************************)
EXTENDS Campaign, PackagedWorkflows

\* The suite's task and all that it needs.
CoreTasks == {"arch", "code", "deps", "tests"}
ASSUME CoreIsClosed ==
  \A t \in CoreTasks : MatrixProject[t].dependencies \subseteq CoreTasks

CoreDependencies == [o \in Original |-> MatrixProject[o].dependencies]
CoreRole         == [o \in Original |-> MatrixProject[o].role]
CoreRetryLimit   == [o \in Original |-> MatrixProject[o].retry_limit]

FullFailurePolicy == FullWorkflowConfig.failure
FullResumePolicy  == FullWorkflowConfig.resume
FullRepairCycles  == FullWorkflowConfig.cycles

Failing(category, evidence) == [category |-> category, evidence |-> evidence]
MCFailures ==
  {Failing("execution", {}), Failing("sandbox", {}), Failing("validation", {"code_at_fault"})}

Good ==
  [compiles |-> TRUE, imports |-> {"stdlib"}, load |-> "ok", exposes |-> TRUE,
   constructor |-> "ok", fields |-> "exact", accepts |-> Payloads, methods |-> "exact",
   validate |-> [p \in Payloads |-> IF p = "malformed" THEN "false" ELSE "true"],
   handle |-> [p \in Payloads |-> IF p = "malformed" THEN "rejects" ELSE "returns"],
   differs |-> {"outcome"}, batch |-> TRUE, audits |-> {"state"}]
Fragile == [Good EXCEPT !.handle["partial"] = "crashes"]
Exiting == [Good EXCEPT !.load = "exits"]
MCServices == {Good, Fragile, Exiting}

\* The contract asserted by one function, or by two that each assert a part
MCTestSuites ==
  { {Assertions}, {{"non_dict_details", "validate_false"}, {"handle_raises"}} }

AllRoles == Roles
=============================================================================
