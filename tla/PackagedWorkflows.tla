------------------------- MODULE PackagedWorkflows -------------------------
(***************************************************************************)
(* The workflows that come with the package, as the graphs that            *)
(* ProjectState executes: the provider-comparison workflow                 *)
(* (provider_matrix.py), the compliance scenarios (workflows/compliance.py)*)
(* and the scenarios of the validation matrix                              *)
(* (scripts/run_real_world_complex_matrix.py).  Their prompts are left     *)
(* out; a role that nothing in the workflow depends on is "other".         *)
(***************************************************************************)

Task(role, dependencies) ==
  [role |-> role, dependencies |-> dependencies, retry_limit |-> 0]

\* build_full_workflow_project_with_budgets
FullWorkflow ==
  [arch   |-> Task("architect", {}),
   code   |-> Task("code_engineer", {"arch"}),
   deps   |-> Task("other", {"code"}),
   tests  |-> Task("qa_tester", {"code", "deps"}),
   review |-> Task("other", {"tests"}),
   docs   |-> Task("other", {"review"}),
   legal  |-> Task("other", {"docs"})]

\* build_compliance_project: the same tasks, about a scenario's domain.
ComplianceProject == FullWorkflow

\* build_project: the same tasks again, about a scenario with a fixed contract.
MatrixProject == FullWorkflow

\* build_full_workflow_config
FullWorkflowConfig ==
  [failure |-> "continue", resume |-> "resume_failed", cycles |-> 1]
=============================================================================
