--------------------------- MODULE RepairPlanning ---------------------------
(***************************************************************************)
(* Which corrective tasks a repair cycle adds to the workflow: the pure    *)
(* part of orchestration/workflow_control.py (configure_repair_attempts,   *)
(* repair_task_ids_for_cycle) with the ProjectState methods it calls.      *)
(*                                                                         *)
(* A failed task X of cycle c gets the repair "X__repair_c"; when its      *)
(* artifact broke its size budget, also the plan "X__repair_c__budget_plan"*)
(* that the repair depends on; and a failed test suite that blames the     *)
(* code gets a repair of the code task first, on which the suite and its   *)
(* own repair then depend.                                                 *)
(***************************************************************************)
EXTENDS ProjectState

IsRepairable(category) == category # "sandbox"

\* failed_task_ids_for_repair: failed tasks that are not repairs themselves
\* and that no repair is running, or ready to run, for.
FailedForRepair(p) ==
  LET active == {r \in DOMAIN p.tasks :
                   IsRepair(r) /\ (p.tasks[r].status = "running" \/ Ready(p, r))}
  IN  {i \in WithStatus(p, {"failed"}) :
         ~IsRepair(i) /\ \A r \in active : Origin(r) # i}

\* failed_test_requires_code_repair
BlamesCode(p, i) ==
  /\ RoleOf(i) = "qa_tester"
  /\ p.tasks[i].category = "validation"
  /\ "code_at_fault" \in p.tasks[i].evidence

\* upstream_code_task_for_test_failure.  Repairs of the code are appended to
\* the suite's dependencies as they are created, each one a repair of the one
\* before, so the last in the list is the one with the longest path.  The
\* suite's imports are taken to name a module of one of its dependencies.
CodeDeps(p, i) ==
  {d \in p.tasks[i].deps : d \in DOMAIN p.tasks /\ RoleOf(d) = "code_engineer"}
LastCode(p, i) ==
  {d \in CodeDeps(p, i) : \A e \in CodeDeps(p, i) : Len(e[2]) <= Len(d[2])}
HasUpstreamCode(p, i) == BlamesCode(p, i) /\ LastCode(p, i) # {}
UpstreamCode(p, i)    == CHOOSE d \in LastCode(p, i) : TRUE

-----------------------------------------------------------------------------
(* The plan of one cycle for a set F of failed tasks.  A workflow lists a  *)
(* task after the ones it depends on, so when a code task and its suite    *)
(* both failed, the code task is planned first and from its own failure.   *)

Suites(p, F)     == {t \in F : HasUpstreamCode(p, t)}
BlamedCode(p, F) == {UpstreamCode(p, t) : t \in Suites(p, F)} \ F
Targets(p, F)    == F \cup BlamedCode(p, F)

\* The suite whose failure the repair of a blamed code task answers.
SourceSuite(p, F, x) ==
  CHOOSE t \in Suites(p, F) : UpstreamCode(p, t) = x

\* repair_requires_budget_decomposition, on the context built for target x.  A
\* blamed code task is judged by the suite's report, to which
\* merge_prior_repair_context adds what x was itself created to repair.
NeedsPlan(p, F, x) ==
  IF x \in BlamedCode(p, F)
    THEN \/ "over_budget" \in p.tasks[SourceSuite(p, F, x)].evidence
         \/ IsRepair(x) /\ p.tasks[x].context.overBudget
    ELSE /\ p.tasks[x].category = "validation"
         /\ "over_budget" \in p.tasks[x].evidence

PlanIds(p, F, c)   == {PlanId(x, c) : x \in {y \in Targets(p, F) : NeedsPlan(p, F, y)}}
RepairIds(p, F, c) == {RepairId(x, c) : x \in Targets(p, F)}

\* mutant: the plans that repairs wait for are not created
CycleIds_NoPlans(p, F, c) == RepairIds(p, F, c)

CycleIds(p, F, c)  == PlanIds(p, F, c) \cup RepairIds(p, F, c)

\* The task that the plan or the repair i is for
TargetOf(p, F, c, i) ==
  CHOOSE x \in Targets(p, F) : i \in {RepairId(x, c), PlanId(x, c)}

\* mutant: a repair also waits for the task it repairs
InheritedDeps_OnTarget(p, x) == {x} \cup p.tasks[x].deps

\* Dependencies inherited from the target: those outside the repair lineage.
InheritedDeps(p, x) ==
  {d \in p.tasks[x].deps : d \notin DOMAIN p.tasks \/ ~IsLineage(d)}

\* mutant: a suite does not wait for the repair of the code that it blames
CodeRepairOf_None(p, F, c, t) == {}

\* The dependencies a cycle adds: a repair waits for its budget plan and for
\* the repair of the code its suite blames, and so does the suite.
CodeRepairOf(p, F, c, t) ==
  IF t \in Suites(p, F) THEN {RepairId(UpstreamCode(p, t), c)} ELSE {}
AddedDeps(p, F, c, i) ==
  IF i \in RepairIds(p, F, c)
    THEN ({PlanId(Origin(i), c)} \cap PlanIds(p, F, c))
           \cup CodeRepairOf(p, F, c, Origin(i))
    ELSE CodeRepairOf(p, F, c, i)

\* build_repair_context: a task that failed is its own evidence.
FailureContext(p, F, x) == [source |-> NoTask, overBudget |-> NeedsPlan(p, F, x)]

\* build_code_repair_context_from_test_failure: the suite is the code's evidence.
BlamedContext(p, F, x) ==
  [source |-> SourceSuite(p, F, x), overBudget |-> NeedsPlan(p, F, x)]

\* The context that a target keeps and its repair is created with.
NewContext(p, F, x) ==
  IF x \in BlamedCode(p, F) THEN BlamedContext(p, F, x) ELSE FailureContext(p, F, x)

\* configure_repair_attempts, then repair_task_ids_for_cycle: existing plans
\* and repairs are kept and only their context and dependencies are renewed.
\* (The context of a plan is never read again and is not kept.)
PlanRepairs(p, F, c) ==
  LET repairs == RepairIds(p, F, c)
      Base(i) == IF i \in DOMAIN p.tasks THEN p.tasks[i]
                 ELSE NewTask(InheritedDeps(p, TargetOf(p, F, c, i)))
      Context(i) == IF i \in repairs THEN NewContext(p, F, Origin(i))
                    ELSE IF i \in Targets(p, F) THEN NewContext(p, F, i)
                    ELSE Base(i).context
  IN  [p EXCEPT !.tasks = [i \in DOMAIN p.tasks \cup CycleIds(p, F, c) |->
         [Base(i) EXCEPT !.deps = @ \cup AddedDeps(p, F, c, i),
                         !.context = Context(i)]]]

\* What a repair cycle does for the failed tasks F: plan it and requeue.
RepairCycle(p, F, c) ==
  ResumeFailed(PlanRepairs(p, F, c), F, CycleIds(p, F, c))

\* has_repair_task_for_cycle, for the cycle of active_repair_cycle
RepairedInCycle(p, i) == RepairId(i, p.cycles) \in DOMAIN p.tasks

\* The conditions of queue_active_cycle_repair but for the resume policy
CanChainRepair(p, i) ==
  /\ ~IsRepair(i)
  /\ p.cycles > 0
  /\ ~RepairedInCycle(p, i)
=============================================================================
