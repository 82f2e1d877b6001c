-------------------------- MODULE MCWorkflowControl -------------------------
(***************************************************************************)
(* The workflows and the failures that the runs of WorkflowControl use.    *)
(***************************************************************************)
EXTENDS WorkflowProperties

CONSTANTS code, test, docs

\* A code task, its test suite, and a document that describes the code.
PipelineDependencies ==
  [o \in Original |-> IF o = code THEN {} ELSE {code}]
PipelineRole ==
  [o \in Original |-> IF o = code THEN "code_engineer"
                      ELSE IF o = test THEN "qa_tester" ELSE "other"]
\* The document depends on the tested code instead.
ChainDependencies ==
  [o \in Original |-> IF o = code THEN {} ELSE IF o = test THEN {code} ELSE {test}]

NoRetries    == [o \in Original |-> 0]
SuiteRetries == [o \in Original |-> IF o = test THEN 1 ELSE 0]

Failing(category, evidence) == [category |-> category, evidence |-> evidence]
TooLarge     == Failing("validation", {"over_budget"})
Rejecting    == {Failing("execution", {}), Failing("validation", {"code_at_fault"})}
OverBudget   == Rejecting \cup {TooLarge}
PlanOrRefuse == {TooLarge, Failing("sandbox", {})}

AllRoles    == Roles
NoArchitect == Roles \ {"architect"}
=============================================================================
