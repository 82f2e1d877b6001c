---------------------------- MODULE ProjectState ----------------------------
(***************************************************************************)
(* The workflow state object of kycortex_agents/memory/project_state.py:   *)
(* a task table plus the workflow's own fields.  ProjectState is one       *)
(* mutable in-memory object, so it is modelled as ONE VALUE (a record) and *)
(* each of its methods as an operator from a record to a record; the       *)
(* orchestrator (module WorkflowControl) composes them into steps.         *)
(*                                                                         *)
(* Abstracted: texts, timestamps, the audit log, outputs and repair        *)
(* contexts, of which only what steers the repair planner is kept: the     *)
(* failure category, the validation evidence stored with a failed output,  *)
(* and of a repair context the failure it answers and whether that failure *)
(* broke a size budget.                                                    *)
(***************************************************************************)
EXTENDS Naturals, Sequences, FiniteSets

CONSTANTS
  Original,      \* the tasks the workflow is defined with
  Dependencies,  \* Dependencies[o]: the original tasks that o depends on
  Role,          \* Role[o]: assigned_to
  RetryLimit,    \* RetryLimit[o]: retry_limit
  Required       \* the tasks with required_for_acceptance

Roles == {"architect", "code_engineer", "qa_tester", "other"}

ASSUME WorkflowAssumption ==
  /\ IsFiniteSet(Original)
  /\ Dependencies \in [Original -> SUBSET Original]
  /\ Role \in [Original -> Roles]
  /\ RetryLimit \in [Original -> Nat]
  /\ Required \subseteq Original

(***************************************************************************)
(* Task identifiers.  "X__repair_2" and "X__repair_1__budget_plan" are     *)
(* kept as the original's name and the path of cycle numbers; a zero ends  *)
(* the path of a budget plan.  The names users choose do not contain       *)
(* "__repair_", so the encoding is injective as the strings are.           *)
(***************************************************************************)
Ids            == Original \X Seq(Nat)
NoTask         == << >>
OriginalId(o)  == <<o, << >>>>
RepairId(i, c) == <<i[1], Append(i[2], c)>>
PlanId(i, c)   == <<i[1], i[2] \o <<c, 0>>>>

IsLineage(i) == i[2] # << >>
IsRepair(i)  == IsLineage(i) /\ i[2][Len(i[2])] # 0
Origin(i)    == <<i[1], SubSeq(i[2], 1, Len(i[2]) - 1)>>

\* A plan, and any repair of a plan, is assigned to the architect.
RoleOf(i) ==
  IF \E k \in 1..Len(i[2]) : i[2][k] = 0 THEN "architect" ELSE Role[i[1]]

-----------------------------------------------------------------------------
Statuses   == {"pending", "running", "done", "failed", "skipped"}
Categories == {"none", "execution", "validation", "sandbox"}
Evidence   == {"code_at_fault", "over_budget"}
SkipReasons ==
  {"none", "manual", "dependency_failed", "workflow_cancelled", "superseded_repair"}
Phases   == {"init", "execution", "paused", "cancelled", "failed", "completed"}
Outcomes == {"none", "completed", "degraded", "failed", "cancelled"}
Failures == Categories \cup
  {"definition", "blocked", "cancelled", "repair_budget_exhausted", "scenario_validation"}

Contexts  == [source     : Ids \cup {NoTask},  \* source_failure_task_id
              overBudget : BOOLEAN]           \* validation_summary says so
NoContext == [source |-> NoTask, overBudget |-> FALSE]

TaskRecord ==
  [status   : Statuses,
   attempts : Nat,
   category : Categories,        \* last_error_category
   evidence : SUBSET Evidence,   \* what output_payload says of the failure
   skip     : SkipReasons,       \* skip_reason_type
   deps     : SUBSET Ids,        \* dependencies
   context  : Contexts]          \* repair_context

IsTable(T) == T \in [DOMAIN T -> TaskRecord] /\ DOMAIN T \subseteq Ids

ProjectRecord(tables) ==
  [tasks    : tables,
   phase    : Phases,
   outcome  : Outcomes,     \* terminal_outcome
   failure  : Failures,     \* failure_category
   started  : BOOLEAN,      \* workflow_started_at is set
   finished : BOOLEAN,      \* workflow_finished_at is set
   cycles   : Nat,          \* repair_cycle_count, and the last cycle of
                            \* repair_history: both grow together
   budget   : Nat]          \* repair_max_cycles

IsProject(p) == IsTable(p.tasks) /\ p \in ProjectRecord({p.tasks})

NewTask(deps) ==
  [status |-> "pending", attempts |-> 0, category |-> "none", evidence |-> {},
   skip |-> "none", deps |-> deps, context |-> NoContext]

InitialProject ==
  [tasks    |-> [i \in {OriginalId(o) : o \in Original} |->
                   NewTask({OriginalId(d) : d \in Dependencies[i[1]]})],
   phase    |-> "init", outcome |-> "none", failure |-> "none",
   started  |-> FALSE, finished |-> FALSE, cycles |-> 0, budget |-> 0]

-----------------------------------------------------------------------------
(* Queries.                                                                *)

WithStatus(p, S) == {i \in DOMAIN p.tasks : p.tasks[i].status \in S}
Pending(p)       == WithStatus(p, {"pending"})

Repairs(i, j)    == IsRepair(i) /\ j = Origin(i)
HasOrigin(p, i)  == IsRepair(i) /\ Origin(i) \in DOMAIN p.tasks
OriginDone(p, i) == HasOrigin(p, i) /\ p.tasks[Origin(i)].status = "done"

Paused(p)    == p.phase = "paused"
Cancelled(p) == p.phase = "cancelled" \/ p.outcome = "cancelled"

\* is_task_ready
Ready(p, i) ==
  /\ p.tasks[i].status = "pending"
  /\ \A d \in p.tasks[i].deps :
       d \in DOMAIN p.tasks /\ p.tasks[d].status = "done"

\* The ids reached from seed through dependents that all lie in via.
Reach(T, seed, via) ==
  LET Widen(near) == near \cup {j \in via : T[j].deps \cap near # {}}
      grow[n \in 0..Cardinality(via)] ==
        IF n = 0 THEN seed ELSE UNION {Widen(near) : near \in {grow[n - 1]}}
  IN  grow[Cardinality(via)]

\* execution_plan succeeds: no unknown dependency and no cycle.
PlanIsValid(p) ==
  LET known == DOMAIN p.tasks IN
  \A i \in known :
    /\ p.tasks[i].deps \subseteq known
    /\ p.tasks[i].deps \cap Reach(p.tasks, {i}, known) = {}

\* mutant: dependencies are not looked at
Runnable_Unordered(p) == Pending(p)

\* runnable_tasks (for a workflow that is neither paused nor cancelled); the
\* order in which the topological sort lists them is left open.
Runnable(p) == {i \in DOMAIN p.tasks : Ready(p, i)}

\* _workflow_status, with INIT and RUNNING taken together as "active".
WorkflowStatus(p) ==
  LET seen == {p.tasks[i].status : i \in DOMAIN p.tasks} IN
  IF Paused(p) THEN "paused"
  ELSE IF Cancelled(p) THEN "cancelled"
  ELSE IF p.finished /\ p.outcome \in {"completed", "failed"} THEN p.outcome
  ELSE IF "failed" \in seen THEN "failed"
  ELSE IF seen \subseteq {"done", "skipped"} THEN "completed"
  ELSE "active"

\* should_retry_task
ShouldRetry(p, i) ==
  /\ p.tasks[i].status = "pending"
  /\ p.tasks[i].attempts \in 1..RetryLimit[i[1]]

-----------------------------------------------------------------------------
(* Task life cycle.                                                        *)

StartedRecord(r) ==
  [r EXCEPT !.status = "running", !.attempts = @ + 1, !.category = "none"]
FailedRecord(r, status, category, evidence) ==
  [r EXCEPT !.status = status, !.category = category, !.evidence = evidence]

\* start_task and _sync_repair_origin_start
StartTask(p, i) ==
  [p EXCEPT !.tasks = [j \in DOMAIN p.tasks |->
     IF j = i THEN StartedRecord(p.tasks[j])
     ELSE IF Repairs(i, j) THEN [p.tasks[j] EXCEPT !.attempts = @ + 1]
     ELSE p.tasks[j]]]

\* mutant: one retry too many
RetriesLeft_OneMore(p, i) == p.tasks[i].attempts <= RetryLimit[i[1]] + 1

\* mutant: the failure of a repair is not passed on to the task it repairs
FailTask_KeepsOrigin(p, i, category, evidence) ==
  [p EXCEPT !.tasks[i] =
     FailedRecord(@, IF @.attempts <= RetryLimit[i[1]] THEN "pending" ELSE "failed",
                  category, evidence)]

\* fail_task and _sync_repair_origin_failure
RetriesLeft(p, i) == p.tasks[i].attempts <= RetryLimit[i[1]]
FailTask(p, i, category, evidence) ==
  LET final   == ~RetriesLeft(p, i)
      Left(j) == IF final THEN evidence ELSE p.tasks[j].evidence
  IN  [p EXCEPT !.tasks = [j \in DOMAIN p.tasks |->
         IF j = i
           THEN FailedRecord(p.tasks[j], IF final THEN "failed" ELSE "pending",
                             category, Left(j))
         ELSE IF Repairs(i, j)
           THEN FailedRecord(p.tasks[j], "failed", category, Left(j))
         ELSE p.tasks[j]]]

\* The record a task is left with when it is skipped; skip_task also clears the
\* repair context, the cancellation and supersession paths keep it.
SkippedRecord(r, reason, context) ==
  [r EXCEPT !.status = "skipped", !.category = "none", !.evidence = {},
            !.skip = reason, !.context = context]
DoneRecord(r, context) ==
  [r EXCEPT !.status = "done", !.category = "none", !.evidence = {},
            !.context = context]

\* complete_task and _sync_repair_origin_completion
CompleteTask(p, i) ==
  [p EXCEPT !.tasks = [j \in DOMAIN p.tasks |->
     IF j = i
       THEN DoneRecord(p.tasks[j], IF IsRepair(i) THEN p.tasks[j].context ELSE NoContext)
     ELSE IF Repairs(i, j)
       THEN DoneRecord(p.tasks[j], NoContext)
     ELSE IF /\ HasOrigin(p, i) /\ IsRepair(j) /\ Origin(j) = Origin(i)
             /\ p.tasks[j].status = "pending"
       THEN SkippedRecord(p.tasks[j], "superseded_repair", p.tasks[j].context)
     ELSE p.tasks[j]]]

\* skip_task
SkipTask(p, i, reason) ==
  [p EXCEPT !.tasks[i] = SkippedRecord(@, reason, NoContext)]

\* override_task
OverrideTask(p, i) ==
  [p EXCEPT !.tasks[i] = [DoneRecord(@, NoContext) EXCEPT !.skip = "none"]]

\* mutant: only the direct dependents
Descendants_Direct(p, i) == {j \in DOMAIN p.tasks : i \in p.tasks[j].deps}

\* skip_dependent_tasks: every pending descendant, also behind tasks that are
\* not pending themselves.
Descendants(p, i) == Reach(p.tasks, {i}, DOMAIN p.tasks) \ {i}
SkipDependents(p, i) ==
  LET doomed == Descendants(p, i) \cap Pending(p)
  IN  [p EXCEPT !.tasks = [j \in DOMAIN p.tasks |->
         IF j \in doomed
           THEN SkippedRecord(p.tasks[j], "dependency_failed", NoContext)
           ELSE p.tasks[j]]]

\* _pending_repair_is_still_required
StillRequired(p, i) ==
  LET source == p.tasks[i].context.source IN
  /\ source \in DOMAIN p.tasks
  /\ p.tasks[source].status \in {"failed", "pending", "running"}

\* skip_superseded_pending_repairs.  The scan skips only repairs that do not
\* still serve a failing source and whose origin is done.
SkipSuperseded(p) ==
  [p EXCEPT !.tasks = [j \in DOMAIN p.tasks |->
     IF /\ p.tasks[j].status = "pending"
        /\ OriginDone(p, j)
        /\ ~StillRequired(p, j)
       THEN SkippedRecord(p.tasks[j], "superseded_repair", p.tasks[j].context)
       ELSE p.tasks[j]]]

-----------------------------------------------------------------------------
(* Workflow life cycle.                                                    *)

\* mark_workflow_running
MarkRunning(p, budget) ==
  [p EXCEPT !.phase = "execution", !.started = TRUE, !.finished = FALSE,
            !.outcome = "none", !.failure = "none", !.budget = budget]

\* mark_workflow_finished
MarkFinished(p, phase, outcome, failure) ==
  [p EXCEPT !.phase = phase, !.finished = TRUE, !.outcome = outcome,
            !.failure = failure]

\* pause_workflow and resume_workflow; a finished workflow refuses to pause
CanPause(p)  == WorkflowStatus(p) \notin {"completed", "cancelled", "failed"}
PauseProject(p)  == [p EXCEPT !.phase = "paused", !.finished = FALSE]
ResumeProject(p) == [p EXCEPT !.phase = "execution", !.finished = FALSE]

\* cancel_workflow: running tasks are left to their agent
CanCancel(p) == WorkflowStatus(p) \notin {"completed", "cancelled", "failed"}
CancelProject(p) ==
  MarkFinished(
    [p EXCEPT !.tasks = [j \in DOMAIN p.tasks |->
       IF p.tasks[j].status = "pending"
         THEN SkippedRecord(p.tasks[j], "workflow_cancelled", p.tasks[j].context)
         ELSE p.tasks[j]]],
    "cancelled", "cancelled", "cancelled")

\* mutant: the count of cycles starts over, the repairs stay
ReplayProject_KeepsRepairs(p) ==
  [InitialProject EXCEPT
     !.tasks = [j \in DOMAIN p.tasks |-> NewTask(p.tasks[j].deps)]]

\* replay_workflow: repair lineage tasks are dropped, the others start over.
\* The surviving tasks keep their dependency lists as they are.
CanReplay(p) == WithStatus(p, {"running"}) = {}
ReplayProject(p) ==
  [InitialProject EXCEPT
     !.tasks = [j \in {i \in DOMAIN p.tasks : ~IsLineage(i)} |->
                  NewTask(p.tasks[j].deps)]]

\* mutant: the tasks left running are not requeued
ResumeInterrupted_Forgets(p) ==
  IF WithStatus(p, {"running"}) = {} THEN p ELSE [p EXCEPT !.finished = FALSE]

\* resume_interrupted_tasks
ResumeInterrupted(p) ==
  LET interrupted == WithStatus(p, {"running"}) IN
  IF interrupted = {} THEN p
  ELSE [p EXCEPT !.finished = FALSE,
                 !.tasks = [j \in DOMAIN p.tasks |->
                    IF j \in interrupted
                      THEN [p.tasks[j] EXCEPT !.status = "pending", !.category = "none"]
                      ELSE p.tasks[j]]]

\* The tasks skipped for the failure of a dependency
Waiting(p) ==
  {i \in WithStatus(p, {"skipped"}) : p.tasks[i].skip = "dependency_failed"}

\* mutant: only the direct dependents of a requeued task are requeued with it
Freed_Direct(p, seed) == {i \in Waiting(p) : p.tasks[i].deps \cap seed # {}}

\* resume_failed_tasks(include_failed_tasks=False, failed, extra): requeues the
\* named tasks that are at rest and, transitively, the dependency-skipped ones.
Freed(p, seed) == Waiting(p) \cap Reach(p.tasks, seed, Waiting(p))
ResumeFailed(p, failed, extra) ==
  LET named == extra \cap WithStatus(p, {"done", "failed", "skipped"})
      freed == Freed(p, failed \cup named)
  IN  [p EXCEPT !.finished = FALSE,
                !.tasks = [j \in DOMAIN p.tasks |->
                  IF j \in named \cup freed
                    THEN [p.tasks[j] EXCEPT
                            !.status = "pending", !.category = "none",
                            !.evidence = {}, !.skip = "none",
                            !.context = IF j \in named THEN @ ELSE NoContext]
                    ELSE p.tasks[j]]]

\* can_start_repair_cycle and start_repair_cycle
CanStartCycle(p) == p.cycles < p.budget
StartCycle(p)    == [p EXCEPT !.cycles = @ + 1]
=============================================================================
