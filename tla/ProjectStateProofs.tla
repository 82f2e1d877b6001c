------------------------- MODULE ProjectStateProofs -------------------------
(***************************************************************************)
(* Every method of ProjectState keeps the project well formed and, but for *)
(* replay and repair planning, keeps its task table's domain.  Planning a  *)
(* repair cycle keeps the project well formed and only adds tasks to it.   *)
(* What depends on what is what Reach computes, and every graph that the   *)
(* methods and the planner can build from a valid one is valid.            *)
(***************************************************************************)
EXTENDS RepairPlanning, NaturalLemmas

-----------------------------------------------------------------------------
(* Records and tables.  The sets of values are kept folded: a record update *)
(* is typed by the sets that its new fields belong to.                     *)

\* The values that the methods write belong to the sets of their fields.
LEMMA Vocabulary ==
  /\ {"pending", "running", "done", "failed", "skipped"} \subseteq Statuses
  /\ "none" \in Categories
  /\ {} \in SUBSET Evidence
  /\ {"none", "manual", "dependency_failed", "workflow_cancelled", "superseded_repair"}
       \subseteq SkipReasons
  /\ NoContext \in Contexts
BY DEF Statuses, Categories, SkipReasons, NoContext, Contexts

\* The record changes that the methods are made of.
LEMMA RecordUpdates ==
  ASSUME NEW r \in TaskRecord, NEW s \in Statuses, NEW n \in Nat,
         NEW c \in Categories, NEW e \in SUBSET Evidence, NEW k \in SkipReasons,
         NEW x \in Contexts
  PROVE  /\ [r EXCEPT !.status = s, !.attempts = n, !.category = c] \in TaskRecord
         /\ [r EXCEPT !.attempts = n] \in TaskRecord
         /\ [r EXCEPT !.status = s, !.category = c] \in TaskRecord
         /\ [r EXCEPT !.status = s, !.category = c, !.evidence = e] \in TaskRecord
         /\ [r EXCEPT !.status = s, !.category = c, !.evidence = e, !.skip = k,
                      !.context = x] \in TaskRecord
         /\ [r EXCEPT !.status = s, !.category = c, !.evidence = e,
                      !.context = x] \in TaskRecord
         /\ [r EXCEPT !.skip = k] \in TaskRecord
BY DEF TaskRecord

\* The fields that an update reads have their types.
LEMMA RecordFields ==
  ASSUME NEW r \in TaskRecord
  PROVE  /\ r.attempts + 1 \in Nat
         /\ r.evidence \in SUBSET Evidence
         /\ r.deps \in SUBSET Ids
         /\ r.context \in Contexts
         /\ r.category \in Categories
BY DEF TaskRecord

\* start_task, fail_task, skip_task and complete_task leave task records.
LEMMA RecordOperators ==
  ASSUME NEW r \in TaskRecord, NEW s \in Statuses, NEW c \in Categories,
         NEW e \in SUBSET Evidence, NEW k \in SkipReasons, NEW x \in Contexts
  PROVE  /\ StartedRecord(r) \in TaskRecord
         /\ FailedRecord(r, s, c, e) \in TaskRecord
         /\ SkippedRecord(r, k, x) \in TaskRecord
         /\ DoneRecord(r, x) \in TaskRecord
<1>1. StartedRecord(r) \in TaskRecord
  BY Vocabulary, RecordFields, RecordUpdates DEF StartedRecord
<1>2. FailedRecord(r, s, c, e) \in TaskRecord
  BY RecordUpdates DEF FailedRecord
<1>3. SkippedRecord(r, k, x) \in TaskRecord
  BY Vocabulary, RecordUpdates DEF SkippedRecord
<1>4. DoneRecord(r, x) \in TaskRecord
  BY Vocabulary, RecordUpdates DEF DoneRecord
<1> QED BY <1>1, <1>2, <1>3, <1>4

\* A fresh task is a task record.
LEMMA NewTaskType ==
  ASSUME NEW deps \in SUBSET Ids
  PROVE  NewTask(deps) \in TaskRecord
BY Vocabulary DEF NewTask, TaskRecord

\* A project whose task table is replaced by another table.
LEMMA Rebuilt ==
  ASSUME NEW p, IsProject(p), NEW T, IsTable(T)
  PROVE  /\ IsProject([p EXCEPT !.tasks = T])
         /\ [p EXCEPT !.tasks = T].tasks = T
BY DEF IsProject, ProjectRecord

\* Every entry of the task table is a task record under an identifier.
LEMMA Entry ==
  ASSUME NEW p, IsProject(p), NEW i \in DOMAIN p.tasks
  PROVE  p.tasks[i] \in TaskRecord /\ i \in Ids
BY DEF IsProject, IsTable

-----------------------------------------------------------------------------
(* The task life cycle.                                                    *)

\* start_task, with the attempt it counts for the origin of a repair.
LEMMA StartTaskType ==
  ASSUME NEW p, IsProject(p), NEW i
  PROVE  IsProject(StartTask(p, i)) /\ DOMAIN StartTask(p, i).tasks = DOMAIN p.tasks
<1> DEFINE E(j) == IF j = i THEN StartedRecord(p.tasks[j])
                   ELSE IF Repairs(i, j) THEN [p.tasks[j] EXCEPT !.attempts = @ + 1]
                   ELSE p.tasks[j]
           T == [j \in DOMAIN p.tasks |-> E(j)]
<1>1. ASSUME NEW j \in DOMAIN p.tasks PROVE E(j) \in TaskRecord
  <2>1. p.tasks[j] \in TaskRecord BY Entry
  <2>2. StartedRecord(p.tasks[j]) \in TaskRecord
    BY <2>1, Vocabulary, RecordOperators
  <2>3. [p.tasks[j] EXCEPT !.attempts = @ + 1] \in TaskRecord
    BY <2>1, Vocabulary, RecordFields, RecordUpdates
  <2> QED BY <2>1, <2>2, <2>3
<1> HIDE DEF E
<1>2. IsTable(T) /\ DOMAIN T = DOMAIN p.tasks
  BY <1>1, Entry DEF IsTable
<1>3. StartTask(p, i) = [p EXCEPT !.tasks = T]
  BY DEF StartTask, E
<1> QED BY <1>2, <1>3, Rebuilt

\* fail_task, with the failure it passes on to the origin of a repair.
LEMMA FailTaskType ==
  ASSUME NEW p, IsProject(p), NEW i,
         NEW category \in Categories, NEW evidence \in SUBSET Evidence
  PROVE  /\ IsProject(FailTask(p, i, category, evidence))
         /\ DOMAIN FailTask(p, i, category, evidence).tasks = DOMAIN p.tasks
<1> DEFINE status == IF ~RetriesLeft(p, i) THEN "failed" ELSE "pending"
           Left(j) == IF ~RetriesLeft(p, i) THEN evidence ELSE p.tasks[j].evidence
           E(j) == IF j = i THEN FailedRecord(p.tasks[j], status, category, Left(j))
                   ELSE IF Repairs(i, j)
                     THEN FailedRecord(p.tasks[j], "failed", category, Left(j))
                   ELSE p.tasks[j]
           T == [j \in DOMAIN p.tasks |-> E(j)]
<1>1. ASSUME NEW j \in DOMAIN p.tasks PROVE E(j) \in TaskRecord
  <2>1. p.tasks[j] \in TaskRecord BY Entry
  <2>2. Left(j) \in SUBSET Evidence BY <2>1, RecordFields
  <2>3. status \in Statuses /\ "failed" \in Statuses BY Vocabulary
  <2> HIDE DEF Left, status
  <2>4. /\ FailedRecord(p.tasks[j], status, category, Left(j)) \in TaskRecord
        /\ FailedRecord(p.tasks[j], "failed", category, Left(j)) \in TaskRecord
    BY <2>1, <2>2, <2>3, Vocabulary, RecordUpdates DEF FailedRecord
  <2> QED BY <2>1, <2>4
<1>2. FailTask(p, i, category, evidence) = [p EXCEPT !.tasks = T]
  BY DEF FailTask
<1> HIDE DEF E
<1>3. IsTable(T) /\ DOMAIN T = DOMAIN p.tasks
  BY <1>1, Entry DEF IsTable
<1> QED BY <1>2, <1>3, Rebuilt

\* complete_task, with the origin and the sibling repairs it settles.
LEMMA CompleteTaskType ==
  ASSUME NEW p, IsProject(p), NEW i
  PROVE  /\ IsProject(CompleteTask(p, i))
         /\ DOMAIN CompleteTask(p, i).tasks = DOMAIN p.tasks
<1> DEFINE E(j) ==
             IF j = i
               THEN DoneRecord(p.tasks[j], IF IsRepair(i) THEN p.tasks[j].context ELSE NoContext)
             ELSE IF Repairs(i, j)
               THEN DoneRecord(p.tasks[j], NoContext)
             ELSE IF /\ HasOrigin(p, i) /\ IsRepair(j) /\ Origin(j) = Origin(i)
                     /\ p.tasks[j].status = "pending"
               THEN SkippedRecord(p.tasks[j], "superseded_repair", p.tasks[j].context)
             ELSE p.tasks[j]
           T == [j \in DOMAIN p.tasks |-> E(j)]
<1>1. ASSUME NEW j \in DOMAIN p.tasks PROVE E(j) \in TaskRecord
  <2>1. p.tasks[j] \in TaskRecord /\ p.tasks[j].context \in Contexts
    BY Entry, RecordFields
  <2>2. ASSUME NEW x \in Contexts PROVE DoneRecord(p.tasks[j], x) \in TaskRecord
    BY <2>1, Vocabulary, RecordUpdates DEF DoneRecord
  <2>3. SkippedRecord(p.tasks[j], "superseded_repair", p.tasks[j].context) \in TaskRecord
    BY <2>1, Vocabulary, RecordUpdates DEF SkippedRecord
  <2> QED BY <2>1, <2>2, <2>3, Vocabulary
<1>2. CompleteTask(p, i) = [p EXCEPT !.tasks = T]
  BY DEF CompleteTask
<1> HIDE DEF E
<1>3. IsTable(T) /\ DOMAIN T = DOMAIN p.tasks
  BY <1>1, Entry DEF IsTable
<1> QED BY <1>2, <1>3, Rebuilt

\* skip_task, for any reason.
LEMMA SkipTaskType ==
  ASSUME NEW p, IsProject(p), NEW i \in DOMAIN p.tasks, NEW reason \in SkipReasons
  PROVE  /\ IsProject(SkipTask(p, i, reason))
         /\ DOMAIN SkipTask(p, i, reason).tasks = DOMAIN p.tasks
<1> DEFINE r == SkippedRecord(p.tasks[i], reason, NoContext)
           T == [p.tasks EXCEPT ![i] = r]
<1>1. r \in TaskRecord
  BY Entry, Vocabulary, RecordUpdates DEF SkippedRecord
<1>2. SkipTask(p, i, reason) = [p EXCEPT !.tasks = T]
  BY DEF SkipTask
<1> HIDE DEF r
<1>3. IsTable(T) /\ DOMAIN T = DOMAIN p.tasks
  BY <1>1 DEF IsProject, IsTable
<1> QED BY <1>2, <1>3, Rebuilt

\* override_task.
LEMMA OverrideTaskType ==
  ASSUME NEW p, IsProject(p), NEW i \in DOMAIN p.tasks
  PROVE  /\ IsProject(OverrideTask(p, i))
         /\ DOMAIN OverrideTask(p, i).tasks = DOMAIN p.tasks
<1> DEFINE r == [DoneRecord(p.tasks[i], NoContext) EXCEPT !.skip = "none"]
           T == [p.tasks EXCEPT ![i] = r]
<1>1. r \in TaskRecord
  <2>1. DoneRecord(p.tasks[i], NoContext) \in TaskRecord
    BY Entry, Vocabulary, RecordUpdates DEF DoneRecord
  <2> QED BY <2>1, Vocabulary, RecordUpdates
<1>2. OverrideTask(p, i) = [p EXCEPT !.tasks = T]
  BY DEF OverrideTask
<1> HIDE DEF r
<1>3. IsTable(T) /\ DOMAIN T = DOMAIN p.tasks
  BY <1>1 DEF IsProject, IsTable
<1> QED BY <1>2, <1>3, Rebuilt

\* skip_dependent_tasks.
LEMMA SkipDependentsType ==
  ASSUME NEW p, IsProject(p), NEW i
  PROVE  /\ IsProject(SkipDependents(p, i))
         /\ DOMAIN SkipDependents(p, i).tasks = DOMAIN p.tasks
<1> DEFINE doomed == Descendants(p, i) \cap Pending(p)
           E(j) == IF j \in doomed
                     THEN SkippedRecord(p.tasks[j], "dependency_failed", NoContext)
                     ELSE p.tasks[j]
           T == [j \in DOMAIN p.tasks |-> E(j)]
<1>1. ASSUME NEW j \in DOMAIN p.tasks PROVE E(j) \in TaskRecord
  <2>1. p.tasks[j] \in TaskRecord BY Entry
  <2>2. SkippedRecord(p.tasks[j], "dependency_failed", NoContext) \in TaskRecord
    BY <2>1, Vocabulary, RecordUpdates DEF SkippedRecord
  <2> QED BY <2>1, <2>2
<1>2. SkipDependents(p, i) = [p EXCEPT !.tasks = T]
  BY DEF SkipDependents
<1> HIDE DEF E
<1>3. IsTable(T) /\ DOMAIN T = DOMAIN p.tasks
  BY <1>1, Entry DEF IsTable
<1> QED BY <1>2, <1>3, Rebuilt

\* skip_superseded_pending_repairs.
LEMMA SkipSupersededType ==
  ASSUME NEW p, IsProject(p)
  PROVE  /\ IsProject(SkipSuperseded(p))
         /\ DOMAIN SkipSuperseded(p).tasks = DOMAIN p.tasks
<1> DEFINE E(j) == IF /\ p.tasks[j].status = "pending"
                      /\ OriginDone(p, j)
                      /\ ~StillRequired(p, j)
                     THEN SkippedRecord(p.tasks[j], "superseded_repair", p.tasks[j].context)
                     ELSE p.tasks[j]
           T == [j \in DOMAIN p.tasks |-> E(j)]
<1>1. ASSUME NEW j \in DOMAIN p.tasks PROVE E(j) \in TaskRecord
  <2>1. p.tasks[j] \in TaskRecord /\ p.tasks[j].context \in Contexts
    BY Entry, RecordFields
  <2>2. SkippedRecord(p.tasks[j], "superseded_repair", p.tasks[j].context) \in TaskRecord
    BY <2>1, Vocabulary, RecordUpdates DEF SkippedRecord
  <2> QED BY <2>1, <2>2
<1>2. SkipSuperseded(p) = [p EXCEPT !.tasks = T]
  BY DEF SkipSuperseded
<1> HIDE DEF E
<1>3. IsTable(T) /\ DOMAIN T = DOMAIN p.tasks
  BY <1>1, Entry DEF IsTable
<1> QED BY <1>2, <1>3, Rebuilt

-----------------------------------------------------------------------------
(* The workflow life cycle.                                                *)

\* mark_workflow_running.
LEMMA MarkRunningType ==
  ASSUME NEW p, IsProject(p), NEW budget \in Nat
  PROVE  /\ IsProject(MarkRunning(p, budget))
         /\ MarkRunning(p, budget).tasks = p.tasks
<1>1. "execution" \in Phases /\ "none" \in Outcomes /\ "none" \in Failures
  BY DEF Phases, Outcomes, Failures, Categories
<1> QED BY <1>1 DEF MarkRunning, IsProject, ProjectRecord

\* mark_workflow_finished.
LEMMA MarkFinishedType ==
  ASSUME NEW p, IsProject(p),
         NEW phase \in Phases, NEW outcome \in Outcomes, NEW failure \in Failures
  PROVE  /\ IsProject(MarkFinished(p, phase, outcome, failure))
         /\ MarkFinished(p, phase, outcome, failure).tasks = p.tasks
BY DEF MarkFinished, IsProject, ProjectRecord

\* pause_workflow and resume_workflow.
LEMMA PauseResumeType ==
  ASSUME NEW p, IsProject(p)
  PROVE  /\ IsProject(PauseProject(p)) /\ PauseProject(p).tasks = p.tasks
         /\ IsProject(ResumeProject(p)) /\ ResumeProject(p).tasks = p.tasks
<1>1. "paused" \in Phases /\ "execution" \in Phases
  BY DEF Phases
<1> QED BY <1>1 DEF PauseProject, ResumeProject, IsProject, ProjectRecord

\* cancel_workflow.
LEMMA CancelType ==
  ASSUME NEW p, IsProject(p)
  PROVE  /\ IsProject(CancelProject(p))
         /\ DOMAIN CancelProject(p).tasks = DOMAIN p.tasks
<1> DEFINE E(j) == IF p.tasks[j].status = "pending"
                     THEN SkippedRecord(p.tasks[j], "workflow_cancelled", p.tasks[j].context)
                     ELSE p.tasks[j]
           T == [j \in DOMAIN p.tasks |-> E(j)]
           q == [p EXCEPT !.tasks = T]
<1>1. ASSUME NEW j \in DOMAIN p.tasks PROVE E(j) \in TaskRecord
  <2>1. p.tasks[j] \in TaskRecord /\ p.tasks[j].context \in Contexts
    BY Entry, RecordFields
  <2>2. SkippedRecord(p.tasks[j], "workflow_cancelled", p.tasks[j].context) \in TaskRecord
    BY <2>1, Vocabulary, RecordUpdates DEF SkippedRecord
  <2> QED BY <2>1, <2>2
<1>2. CancelProject(p) = MarkFinished(q, "cancelled", "cancelled", "cancelled")
  BY DEF CancelProject
<1> HIDE DEF E
<1>3. IsTable(T) /\ DOMAIN T = DOMAIN p.tasks
  BY <1>1, Entry DEF IsTable
<1>4. IsProject(q) /\ q.tasks = T
  BY <1>3, Rebuilt
<1> HIDE DEF q, T
<1>5. "cancelled" \in Phases /\ "cancelled" \in Outcomes /\ "cancelled" \in Failures
  BY DEF Phases, Outcomes, Failures
<1> QED BY <1>2, <1>3, <1>4, <1>5, MarkFinishedType

\* The project that a workflow is defined with.
LEMMA InitialType ==
  IsProject(InitialProject)
<1> DEFINE T == InitialProject.tasks
<1>1. T = [i \in {OriginalId(o) : o \in Original} |->
             NewTask({OriginalId(d) : d \in Dependencies[i[1]]})]
  BY DEF InitialProject
<1>2. ASSUME NEW o \in Original
      PROVE  OriginalId(o) \in Ids /\ OriginalId(o)[1] = o
  <2>1. << >> \in Seq(Nat) OBVIOUS
  <2> QED BY <2>1 DEF OriginalId, Ids
<1>3. ASSUME NEW o \in Original
      PROVE  NewTask({OriginalId(d) : d \in Dependencies[o]}) \in TaskRecord
  <2>1. Dependencies[o] \subseteq Original BY WorkflowAssumption
  <2>2. {OriginalId(d) : d \in Dependencies[o]} \in SUBSET Ids BY <2>1, <1>2
  <2> QED BY <2>2, NewTaskType
<1>4. IsTable(T)
  BY <1>1, <1>2, <1>3 DEF IsTable
<1> QED BY <1>1, <1>4 DEF IsProject, ProjectRecord, InitialProject, Phases, Outcomes, Failures, Categories

\* replay_workflow, which drops the repair tasks.
LEMMA ReplayType ==
  ASSUME NEW p, IsProject(p)
  PROVE  IsProject(ReplayProject(p))
<1> DEFINE T == [j \in {i \in DOMAIN p.tasks : ~IsLineage(i)} |->
                  NewTask(p.tasks[j].deps)]
<1>1. ASSUME NEW j \in DOMAIN p.tasks
      PROVE  NewTask(p.tasks[j].deps) \in TaskRecord /\ j \in Ids
  BY Entry, RecordFields, NewTaskType
<1>2. IsTable(T)
  BY <1>1 DEF IsTable
<1>3. ReplayProject(p) = [InitialProject EXCEPT !.tasks = T]
  BY DEF ReplayProject
<1> HIDE DEF T
<1> QED BY <1>2, <1>3, InitialType, Rebuilt

\* resume_interrupted_tasks.
LEMMA ResumeInterruptedType ==
  ASSUME NEW p, IsProject(p)
  PROVE  /\ IsProject(ResumeInterrupted(p))
         /\ DOMAIN ResumeInterrupted(p).tasks = DOMAIN p.tasks
<1> DEFINE E(j) == IF j \in WithStatus(p, {"running"})
                     THEN [p.tasks[j] EXCEPT !.status = "pending", !.category = "none"]
                     ELSE p.tasks[j]
           T == [j \in DOMAIN p.tasks |-> E(j)]
           q == [p EXCEPT !.finished = FALSE, !.tasks = T]
<1>1. ASSUME NEW j \in DOMAIN p.tasks PROVE E(j) \in TaskRecord
  <2>1. p.tasks[j] \in TaskRecord BY Entry
  <2>2. [p.tasks[j] EXCEPT !.status = "pending", !.category = "none"] \in TaskRecord
    BY <2>1, Vocabulary, RecordUpdates
  <2> QED BY <2>1, <2>2
<1>2. ResumeInterrupted(p) \in {p, q}
  BY DEF ResumeInterrupted
<1> HIDE DEF E
<1>3. IsTable(T) /\ DOMAIN T = DOMAIN p.tasks
  BY <1>1, Entry DEF IsTable
<1>4. IsProject(q) /\ q.tasks = T
  BY <1>3 DEF IsProject, ProjectRecord
<1> QED BY <1>2, <1>3, <1>4

\* resume_failed_tasks, whatever tasks it is given.
LEMMA ResumeFailedType ==
  ASSUME NEW p, IsProject(p), NEW failed, NEW extra
  PROVE  /\ IsProject(ResumeFailed(p, failed, extra))
         /\ DOMAIN ResumeFailed(p, failed, extra).tasks = DOMAIN p.tasks
<1> DEFINE named == extra \cap WithStatus(p, {"done", "failed", "skipped"})
           freed == Freed(p, failed \cup named)
           C(j) == IF j \in named THEN p.tasks[j].context ELSE NoContext
           E(j) == IF j \in named \cup freed
                     THEN [p.tasks[j] EXCEPT
                             !.status = "pending", !.category = "none",
                             !.evidence = {}, !.skip = "none",
                             !.context = IF j \in named THEN @ ELSE NoContext]
                     ELSE p.tasks[j]
           T == [j \in DOMAIN p.tasks |-> E(j)]
           q == [p EXCEPT !.finished = FALSE, !.tasks = T]
<1>1. ASSUME NEW j \in DOMAIN p.tasks PROVE E(j) \in TaskRecord
  <2>1. p.tasks[j] \in TaskRecord /\ C(j) \in Contexts
    BY Entry, RecordFields, Vocabulary
  <2>2. E(j) = IF j \in named \cup freed
                 THEN [p.tasks[j] EXCEPT
                         !.status = "pending", !.category = "none",
                         !.evidence = {}, !.skip = "none", !.context = C(j)]
                 ELSE p.tasks[j]
    OBVIOUS
  <2> HIDE DEF C, E, named, freed
  <2>3. [p.tasks[j] EXCEPT !.status = "pending", !.category = "none", !.evidence = {},
                           !.skip = "none", !.context = C(j)] \in TaskRecord
    BY <2>1, Vocabulary, RecordUpdates
  <2> QED BY <2>1, <2>2, <2>3
<1>2. ResumeFailed(p, failed, extra) = q
  BY DEF ResumeFailed
<1> HIDE DEF E
<1>3. IsTable(T) /\ DOMAIN T = DOMAIN p.tasks
  BY <1>1, Entry DEF IsTable
<1>4. IsProject(q) /\ q.tasks = T
  BY <1>3 DEF IsProject, ProjectRecord
<1> QED BY <1>2, <1>3, <1>4

\* start_repair_cycle.
LEMMA StartCycleType ==
  ASSUME NEW p, IsProject(p)
  PROVE  /\ IsProject(StartCycle(p)) /\ StartCycle(p).tasks = p.tasks
         /\ StartCycle(p).cycles = p.cycles + 1
BY DEF StartCycle, IsProject, ProjectRecord

-----------------------------------------------------------------------------
(* Repair planning.                                                        *)

\* The identifiers that a cycle makes are identifiers.
LEMMA NewIds ==
  ASSUME NEW i \in Ids, NEW c \in Nat
  PROVE  RepairId(i, c) \in Ids /\ PlanId(i, c) \in Ids
<1>1. i[1] \in Original /\ i[2] \in Seq(Nat)
  BY DEF Ids
<1>2. Append(i[2], c) \in Seq(Nat)
  BY <1>1
<1>3. <<c, 0>> \in Seq(Nat)
  OBVIOUS
<1>4. i[2] \o <<c, 0>> \in Seq(Nat)
  BY <1>1, <1>3
<1> QED BY <1>1, <1>2, <1>4 DEF RepairId, PlanId, Ids

\* The code that a failed suite blames is a task of the workflow.
LEMMA UpstreamIsTask ==
  ASSUME NEW p, NEW i, HasUpstreamCode(p, i)
  PROVE  UpstreamCode(p, i) \in DOMAIN p.tasks
<1>1. UpstreamCode(p, i) \in LastCode(p, i)
  BY DEF HasUpstreamCode, UpstreamCode
<1> QED BY <1>1 DEF LastCode, CodeDeps

\* What a cycle repairs are tasks of the workflow.
LEMMA TargetsAreTasks ==
  ASSUME NEW p, NEW F \in SUBSET DOMAIN p.tasks
  PROVE  Targets(p, F) \subseteq DOMAIN p.tasks
BY UpstreamIsTask DEF Targets, BlamedCode, Suites

\* The plans and the repairs of a cycle have identifiers.
LEMMA CycleIdsType ==
  ASSUME NEW p, IsProject(p), NEW F \in SUBSET DOMAIN p.tasks, NEW c \in Nat
  PROVE  PlanIds(p, F, c) \subseteq Ids /\ RepairIds(p, F, c) \subseteq Ids
<1>1. Targets(p, F) \subseteq Ids
  BY TargetsAreTasks, Entry
<1> QED BY <1>1, NewIds DEF PlanIds, RepairIds

\* A new task is planned for some target.
LEMMA TargetOfType ==
  ASSUME NEW p, NEW F \in SUBSET DOMAIN p.tasks, NEW c, NEW i \in CycleIds(p, F, c)
  PROVE  TargetOf(p, F, c, i) \in DOMAIN p.tasks
<1>1. \E x \in Targets(p, F) : i \in {RepairId(x, c), PlanId(x, c)}
  BY DEF CycleIds, PlanIds, RepairIds
<1>2. TargetOf(p, F, c, i) \in Targets(p, F)
  BY <1>1 DEF TargetOf
<1> QED BY <1>2, TargetsAreTasks

\* The dependencies that a cycle adds are identifiers.
LEMMA AddedDepsType ==
  ASSUME NEW p, IsProject(p), NEW F \in SUBSET DOMAIN p.tasks, NEW c \in Nat, NEW i
  PROVE  AddedDeps(p, F, c, i) \in SUBSET Ids
<1>1. ASSUME NEW t PROVE CodeRepairOf(p, F, c, t) \in SUBSET Ids
  <2>1. CASE t \in Suites(p, F)
    <3>1. UpstreamCode(p, t) \in Ids
      BY <2>1, UpstreamIsTask, Entry DEF Suites
    <3> QED BY <2>1, <3>1, NewIds DEF CodeRepairOf
  <2>2. CASE t \notin Suites(p, F)
    BY <2>2 DEF CodeRepairOf
  <2> QED BY <2>1, <2>2
<1>2. PlanIds(p, F, c) \subseteq Ids
  BY CycleIdsType
<1> QED BY <1>1, <1>2 DEF AddedDeps

\* The context that a repair is created with is a repair context.
LEMMA NewContextType ==
  ASSUME NEW p, IsProject(p), NEW F \in SUBSET DOMAIN p.tasks, NEW x
  PROVE  NewContext(p, F, x) \in Contexts
<1>1. ASSUME x \in BlamedCode(p, F) PROVE SourceSuite(p, F, x) \in Ids
  <2>1. \E t \in Suites(p, F) : UpstreamCode(p, t) = x
    BY <1>1 DEF BlamedCode
  <2>2. SourceSuite(p, F, x) \in Suites(p, F)
    BY <2>1 DEF SourceSuite
  <2> QED BY <2>2, Entry DEF Suites
<1>2. NeedsPlan(p, F, x) \in BOOLEAN
  BY DEF NeedsPlan
<1> QED BY <1>1, <1>2 DEF NewContext, BlamedContext, FailureContext, Contexts

\* Planning a cycle adds its tasks to a well-formed project and drops none.
LEMMA PlanRepairsType ==
  ASSUME NEW p, IsProject(p), NEW F \in SUBSET DOMAIN p.tasks, NEW c \in Nat
  PROVE  /\ IsProject(PlanRepairs(p, F, c))
         /\ DOMAIN PlanRepairs(p, F, c).tasks = DOMAIN p.tasks \cup CycleIds(p, F, c)
<1> DEFINE D == DOMAIN p.tasks \cup CycleIds(p, F, c)
           repairs == RepairIds(p, F, c)
           Base(i) == IF i \in DOMAIN p.tasks THEN p.tasks[i]
                      ELSE NewTask(InheritedDeps(p, TargetOf(p, F, c, i)))
           Context(i) == IF i \in repairs THEN NewContext(p, F, Origin(i))
                         ELSE IF i \in Targets(p, F) THEN NewContext(p, F, i)
                         ELSE Base(i).context
           E(i) == [Base(i) EXCEPT !.deps = @ \cup AddedDeps(p, F, c, i),
                                   !.context = Context(i)]
           T == [i \in D |-> E(i)]
<1>1. D \subseteq Ids
  BY CycleIdsType, Entry DEF CycleIds
<1>2. ASSUME NEW i \in D PROVE E(i) \in TaskRecord
  <2>1. Base(i) \in TaskRecord
    <3>1. CASE i \in DOMAIN p.tasks
      BY <3>1, Entry
    <3>2. CASE i \notin DOMAIN p.tasks
      <4> DEFINE x == TargetOf(p, F, c, i)
      <4>1. x \in DOMAIN p.tasks
        BY <3>2, TargetOfType
      <4>2. InheritedDeps(p, x) \in SUBSET Ids
        BY <4>1, Entry, RecordFields DEF InheritedDeps
      <4> QED BY <3>2, <4>2, NewTaskType
    <3> QED BY <3>1, <3>2
  <2>2. Context(i) \in Contexts
    BY <2>1, NewContextType, RecordFields
  <2>3. Base(i).deps \cup AddedDeps(p, F, c, i) \in SUBSET Ids
    BY <2>1, AddedDepsType, RecordFields
  <2> HIDE DEF Base, Context
  <2> QED BY <2>1, <2>2, <2>3 DEF TaskRecord
<1>3. PlanRepairs(p, F, c) = [p EXCEPT !.tasks = T]
  BY DEF PlanRepairs
<1> HIDE DEF E, D
<1>4. IsTable(T) /\ DOMAIN T = D
  BY <1>1, <1>2 DEF IsTable
<1> QED BY <1>3, <1>4, Rebuilt DEF D

\* So does the cycle as a whole, with the tasks it requeues.
LEMMA RepairCycleType ==
  ASSUME NEW p, IsProject(p), NEW F, F \subseteq DOMAIN p.tasks, NEW c \in Nat
  PROVE  /\ IsProject(RepairCycle(p, F, c))
         /\ DOMAIN p.tasks \subseteq DOMAIN RepairCycle(p, F, c).tasks
         /\ DOMAIN RepairCycle(p, F, c).tasks = DOMAIN p.tasks \cup CycleIds(p, F, c)
<1> DEFINE q == PlanRepairs(p, F, c)
<1>1. F \in SUBSET DOMAIN p.tasks
  OBVIOUS
<1>2. IsProject(q) /\ DOMAIN q.tasks = DOMAIN p.tasks \cup CycleIds(p, F, c)
  BY <1>1, PlanRepairsType
<1> HIDE DEF q
<1>3. /\ IsProject(ResumeFailed(q, F, CycleIds(p, F, c)))
      /\ DOMAIN ResumeFailed(q, F, CycleIds(p, F, c)).tasks = DOMAIN q.tasks
  BY <1>2, ResumeFailedType
<1> QED BY <1>2, <1>3 DEF RepairCycle, q

-----------------------------------------------------------------------------
(* What depends on a task.  Reach is defined by recursion over the number  *)
(* of times that its set is widened: the recursion has a solution, its     *)
(* value is a closed set, and it lies in every other closed set.           *)

\* The set near with the tasks of via that depend on a task of near.
Wider(T, via, near) == near \cup {j \in via : T[j].deps \cap near # {}}

\* Nothing in via depends on the set S from outside of it.
IsClosed(T, via, S) == \A j \in via : T[j].deps \cap S # {} => j \in S

\* g widens seed up to m times.
Widens(g, T, seed, via, m) ==
  g = [n \in 0 .. m |-> IF n = 0 THEN seed ELSE Wider(T, via, g[n - 1])]

\* The recursion has a solution.
LEMMA WidensExists ==
  ASSUME NEW T, NEW seed, NEW via, NEW m \in Nat
  PROVE  \E g : Widens(g, T, seed, via, m)
<1> DEFINE Solved == {k \in 0 .. m : \E g : Widens(g, T, seed, via, k)}
<1>1. 0 \in Solved
  <2>1. Widens([n \in 0 .. 0 |-> seed], T, seed, via, 0)
    BY DEF Widens
  <2>2. 0 \in 0 .. m
    OBVIOUS
  <2> QED BY <2>1, <2>2
<1>2. ASSUME NEW k \in 0 .. m, k \in Solved, k < m
      PROVE  k + 1 \in Solved
  <2>1. PICK g : Widens(g, T, seed, via, k)
    BY <1>2
  <2> DEFINE h == [n \in 0 .. k + 1 |-> IF n = k + 1 THEN Wider(T, via, g[k]) ELSE g[n]]
  <2>2. ASSUME NEW n \in 0 .. k + 1
        PROVE  h[n] = IF n = 0 THEN seed ELSE Wider(T, via, h[n - 1])
    <3>1. CASE n = k + 1
      <4>1. n # 0 /\ n - 1 = k /\ k \in 0 .. k + 1 /\ k # k + 1
        BY <3>1
      <4> QED BY <3>1, <4>1
    <3>2. CASE n \in 1 .. k
      <4>1. n # 0 /\ n \in 0 .. k /\ n # k + 1 /\ n - 1 \in 0 .. k + 1 /\ n - 1 # k + 1
        BY <3>2
      <4>2. g[n] = Wider(T, via, g[n - 1])
        BY <2>1, <4>1 DEF Widens
      <4> QED BY <4>1, <4>2
    <3>3. CASE n = 0
      <4>1. g[0] = seed /\ 0 # k + 1
        BY <2>1 DEF Widens
      <4> QED BY <3>3, <4>1
    <3> QED BY <3>1, <3>2, <3>3
  <2>3. h = [n \in 0 .. k + 1 |-> h[n]]
    OBVIOUS
  <2>4. \E x : Widens(x, T, seed, via, k + 1)
    <3> HIDE DEF h
    <3>1. Widens(h, T, seed, via, k + 1)
      BY <2>2, <2>3 DEF Widens
    <3> QED BY <3>1
  <2>5. k + 1 \in 0 .. m
    BY <1>2
  <2> HIDE DEF h
  <2> QED BY <2>4, <2>5
<1>3. m \in Solved
  <2> HIDE DEF Solved
  <2>1. \A k \in 0 .. m : k \in Solved
    BY <1>1, <1>2, InductionUpTo
  <2> QED BY <2>1
<1> QED BY <1>3

\* Reach is the last value of such a solution.
LEMMA ReachWidens ==
  ASSUME NEW T, NEW seed, NEW via, IsFiniteSet(via)
  PROVE  \E g : /\ Widens(g, T, seed, via, Cardinality(via))
                /\ Reach(T, seed, via) = g[Cardinality(via)]
<1> DEFINE m == Cardinality(via)
           g == CHOOSE x : Widens(x, T, seed, via, m)
<1>1. m \in Nat
  BY FS_CardinalityType
<1>2. Widens(g, T, seed, via, m)
  <2> HIDE DEF m
  <2> QED BY <1>1, WidensExists
<1>3. Reach(T, seed, via) = g[m]
  BY DEF Reach, Widens, Wider
<1> HIDE DEF g
<1> QED BY <1>2, <1>3

\* Reach adds nothing that it need not: it lies in every closed set with its seed.
LEMMA ReachIsLeast ==
  ASSUME NEW T, NEW seed, NEW via, IsFiniteSet(via),
         NEW S, seed \subseteq S, IsClosed(T, via, S)
  PROVE  Reach(T, seed, via) \subseteq S
<1> DEFINE m == Cardinality(via)
<1>1. m \in Nat
  BY FS_CardinalityType
<1>2. PICK g : Widens(g, T, seed, via, m) /\ Reach(T, seed, via) = g[m]
  BY ReachWidens
<1> DEFINE Inside == {k \in 0 .. m : g[k] \subseteq S}
<1> HIDE DEF m
<1>3. 0 \in Inside
  BY <1>1, <1>2 DEF Widens
<1>4. ASSUME NEW k \in 0 .. m, k \in Inside, k < m
      PROVE  k + 1 \in Inside
  <2>1. k + 1 \in 0 .. m /\ k + 1 # 0 /\ k + 1 - 1 = k
    BY <1>1, <1>4
  <2>2. g[k + 1] = Wider(T, via, g[k])
    BY <1>2, <2>1 DEF Widens
  <2>3. g[k] \subseteq S
    BY <1>4
  <2>4. Wider(T, via, g[k]) \subseteq S
    BY <2>3 DEF Wider, IsClosed
  <2> QED BY <2>1, <2>2, <2>4
<1>5. m \in Inside
  <2> HIDE DEF Inside
  <2>1. \A k \in 0 .. m : k \in Inside
    BY <1>1, <1>3, <1>4, InductionUpTo
  <2> QED BY <1>1, <2>1
<1> QED BY <1>2, <1>5

\* Reach leaves nothing out: widening stops only when there is nothing to add,
\* since each time before it adds a task and via has no more tasks than times.
LEMMA ReachIsClosed ==
  ASSUME NEW T, NEW seed, NEW via, IsFiniteSet(via)
  PROVE  /\ seed \subseteq Reach(T, seed, via)
         /\ Reach(T, seed, via) \subseteq seed \cup via
         /\ IsClosed(T, via, Reach(T, seed, via))
<1> DEFINE m == Cardinality(via)
           Size(X) == Cardinality(X \cap via)
<1>1. m \in Nat
  BY FS_CardinalityType
<1>2. PICK g : Widens(g, T, seed, via, m) /\ Reach(T, seed, via) = g[m]
  BY ReachWidens
<1>3. ASSUME NEW X PROVE IsFiniteSet(X \cap via) /\ Size(X) \in Nat
  <2>1. IsFiniteSet(X \cap via)
    BY FS_Subset
  <2> QED BY <2>1, FS_CardinalityType
<1> DEFINE Good == {k \in 0 .. m : /\ seed \subseteq g[k]
                                   /\ g[k] \subseteq seed \cup via
                                   /\ IsClosed(T, via, g[k]) \/ Size(g[k]) >= k}
<1> HIDE DEF m
<1>4. 0 \in Good
  <2>1. g[0] = seed /\ 0 \in 0 .. m
    BY <1>1, <1>2 DEF Widens
  <2>2. Size(g[0]) >= 0
    <3>1. Size(g[0]) \in Nat
      BY <1>3
    <3> HIDE DEF Size
    <3> QED BY <3>1
  <2> QED BY <2>1, <2>2
<1>5. ASSUME NEW k \in 0 .. m, k \in Good, k < m
      PROVE  k + 1 \in Good
  <2>1. k + 1 \in 0 .. m /\ k + 1 # 0 /\ k + 1 - 1 = k
    BY <1>1, <1>5
  <2>2. g[k + 1] = Wider(T, via, g[k])
    BY <1>2, <2>1 DEF Widens
  <2>3. /\ seed \subseteq g[k]
        /\ g[k] \subseteq seed \cup via
        /\ IsClosed(T, via, g[k]) \/ Size(g[k]) >= k
    BY <1>5
  <2>4. seed \subseteq g[k + 1] /\ g[k + 1] \subseteq seed \cup via
    BY <2>2, <2>3 DEF Wider
  <2>5. CASE IsClosed(T, via, g[k])
    <3>1. g[k + 1] = g[k]
      BY <2>2, <2>5 DEF IsClosed, Wider
    <3> QED BY <2>1, <2>3, <2>5, <3>1
  <2>6. CASE ~IsClosed(T, via, g[k]) /\ Size(g[k]) >= k
    <3>1. PICK j \in via : T[j].deps \cap g[k] # {} /\ j \notin g[k]
      BY <2>6 DEF IsClosed
    <3>2. /\ g[k] \cap via \subseteq g[k + 1] \cap via
          /\ g[k] \cap via # g[k + 1] \cap via
      BY <2>2, <3>1 DEF Wider
    <3>3. Cardinality(g[k] \cap via) < Cardinality(g[k + 1] \cap via)
      <4> DEFINE A == g[k] \cap via
                 B == g[k + 1] \cap via
      <4>1. IsFiniteSet(A) /\ IsFiniteSet(B) /\ A \in SUBSET B /\ A # B
        BY <1>3, <3>2
      <4> HIDE DEF A, B
      <4>2. Cardinality(A) <= Cardinality(B) /\ Cardinality(A) # Cardinality(B)
        BY <4>1, FS_Subset
      <4>3. Cardinality(A) \in Nat /\ Cardinality(B) \in Nat
        BY <4>1, FS_CardinalityType
      <4>4. Cardinality(A) < Cardinality(B)
        BY <4>2, <4>3
      <4> QED BY <4>4 DEF A, B
    <3>4. Size(g[k]) < Size(g[k + 1])
      BY <3>3
    <3>5. Size(g[k + 1]) >= k + 1
      <4>1. Size(g[k]) \in Nat /\ Size(g[k + 1]) \in Nat
        BY <1>3
      <4> HIDE DEF Size
      <4> QED BY <2>6, <3>4, <4>1
    <3> HIDE DEF Size
    <3> QED BY <2>1, <2>4, <3>5
  <2> QED BY <2>3, <2>5, <2>6
<1>6. m \in Good
  <2> HIDE DEF Good
  <2>1. \A k \in 0 .. m : k \in Good
    BY <1>1, <1>4, <1>5, InductionUpTo
  <2> QED BY <1>1, <2>1
<1>7. CASE Size(g[m]) >= m
  <2>1. g[m] \cap via \subseteq via
    OBVIOUS
  <2>2. Cardinality(g[m] \cap via) <= Cardinality(via)
    BY <2>1, FS_Subset
  <2>3. Size(g[m]) <= m /\ Size(g[m]) \in Nat
    BY <1>3, <2>2 DEF m
  <2>4. Size(g[m]) = m
    <3> HIDE DEF Size
    <3> QED BY <1>1, <1>7, <2>3
  <2>5. g[m] \cap via = via
    BY <2>1, <2>4, FS_Subset DEF m
  <2>6. IsClosed(T, via, g[m])
    BY <2>5 DEF IsClosed
  <2> QED BY <1>2, <1>6, <2>6
<1>8. CASE IsClosed(T, via, g[m])
  BY <1>2, <1>6, <1>8
<1> QED BY <1>6, <1>7, <1>8

\* What depends on i depends on whatever i depends on, too.
LEMMA ReachGrowsBackwards ==
  ASSUME NEW T, NEW via, IsFiniteSet(via), NEW i \in via, NEW d \in T[i].deps
  PROVE  Reach(T, {i}, via) \subseteq Reach(T, {d}, via)
<1> DEFINE R == Reach(T, {d}, via)
<1>1. d \in R /\ IsClosed(T, via, R)
  BY ReachIsClosed
<1> HIDE DEF R
<1>2. i \in R
  BY <1>1 DEF IsClosed
<1>3. Reach(T, {i}, via) \subseteq R
  BY <1>1, <1>2, ReachIsLeast
<1> QED BY <1>3 DEF R

\* In a valid graph some task of P depends on no task of P.
LEMMA SomeTaskComesFirst ==
  ASSUME NEW p, IsFiniteSet(DOMAIN p.tasks), PlanIsValid(p),
         NEW P \in SUBSET DOMAIN p.tasks, P # {}
  PROVE  \E i \in P : p.tasks[i].deps \cap P = {}
<1> DEFINE known == DOMAIN p.tasks
           Below(i) == Reach(p.tasks, {i}, known)
           Rest(i) == known \ Below(i)
           R == StrictSubsetOrdering(known)
           F == {Rest(i) : i \in P}
<1>1. IsWellFoundedOn(R, FiniteSubsetsOf(known))
  BY FS_StrictSubsetOrderingWellFounded
<1>2. F \subseteq FiniteSubsetsOf(known)
  <2> HIDE DEF Below
  <2>1. ASSUME NEW i \in P PROVE IsFiniteSet(Rest(i)) /\ Rest(i) \in SUBSET known
    BY FS_Difference
  <2> QED BY <2>1 DEF FiniteSubsetsOf
<1>3. F # {}
  OBVIOUS
<1>4. \E x \in F : \A y \in F : ~ (<<y, x>> \in R)
  <2> HIDE DEF R, F, known
  <2> QED BY <1>1, <1>2, <1>3, WFMin
<1>5. PICK i \in P : \A j \in P : <<Rest(j), Rest(i)>> \notin R
  BY <1>4
<1>6. ASSUME NEW d \in p.tasks[i].deps, d \in P
      PROVE  FALSE
  <2>1. Below(i) \subseteq Below(d) /\ i \in Below(i) /\ d \in Below(d)
    BY ReachGrowsBackwards, ReachIsClosed
  <2>2. d \notin Below(i)
    BY DEF PlanIsValid
  <2>3. d \in Rest(i) /\ d \notin Rest(d) /\ Rest(d) \subseteq Rest(i)
    BY <1>6, <2>1, <2>2
  <2>4. <<Rest(d), Rest(i)>> \in R
    <3> HIDE DEF Below
    <3> QED BY <2>3 DEF StrictSubsetOrdering
  <2> QED BY <1>5, <1>6, <2>4
<1> QED BY <1>6

\* When nothing runs and nothing can, some pending task waits for one that is
\* over without being done.
LEMMA StuckHasCulprit ==
  ASSUME NEW p, IsProject(p), IsFiniteSet(DOMAIN p.tasks), PlanIsValid(p),
         WithStatus(p, {"running"}) = {}, Pending(p) # {}, Runnable(p) = {}
  PROVE  \E i \in Pending(p) : \E d \in p.tasks[i].deps :
           p.tasks[d].status \in {"failed", "skipped"}
<1>1. PICK i \in Pending(p) : p.tasks[i].deps \cap Pending(p) = {}
  <2>1. Pending(p) \in SUBSET DOMAIN p.tasks
    BY DEF Pending, WithStatus
  <2> QED BY <2>1, SomeTaskComesFirst
<1>2. i \in DOMAIN p.tasks /\ p.tasks[i].status = "pending"
  BY DEF Pending, WithStatus
<1>3. p.tasks[i].deps \subseteq DOMAIN p.tasks
  BY <1>2 DEF PlanIsValid
<1>4. PICK d \in p.tasks[i].deps : p.tasks[d].status # "done"
  BY <1>2, <1>3 DEF Runnable, Ready
<1>5. d \in DOMAIN p.tasks /\ p.tasks[d] \in TaskRecord
  BY <1>3, Entry
<1>6. p.tasks[d].status \in Statuses
  BY <1>5 DEF TaskRecord
<1>7. p.tasks[d].status # "running" /\ p.tasks[d].status # "pending"
  BY <1>1, <1>5 DEF Pending, WithStatus
<1> QED BY <1>4, <1>6, <1>7 DEF Statuses

-----------------------------------------------------------------------------
(* The dependency graph.  Only planning repairs and a replay change it.    *)

\* q has the tasks of p, with the dependencies they have in p.
SameGraph(p, q) ==
  /\ DOMAIN q.tasks = DOMAIN p.tasks
  /\ \A i \in DOMAIN p.tasks : q.tasks[i].deps = p.tasks[i].deps

\* The record changes that methods make keep a task's dependencies.
LEMMA DepsOfRecords ==
  ASSUME NEW r \in TaskRecord, NEW s, NEW c, NEW e, NEW k, NEW x
  PROVE  /\ StartedRecord(r).deps = r.deps
         /\ FailedRecord(r, s, c, e).deps = r.deps
         /\ SkippedRecord(r, k, x).deps = r.deps
         /\ DoneRecord(r, x).deps = r.deps
         /\ [r EXCEPT !.attempts = @ + 1].deps = r.deps
         /\ [r EXCEPT !.status = "pending", !.category = "none"].deps = r.deps
         /\ [DoneRecord(r, x) EXCEPT !.skip = k].deps = r.deps
         /\ [r EXCEPT !.status = "pending", !.category = "none", !.evidence = {},
                      !.skip = "none", !.context = x].deps = r.deps
BY DEF StartedRecord, FailedRecord, SkippedRecord, DoneRecord, TaskRecord

\* A project whose table was replaced has the new table.
LEMMA TableOf ==
  ASSUME NEW p, IsProject(p), NEW T
  PROVE  /\ [p EXCEPT !.tasks = T].tasks = T
         /\ [p EXCEPT !.finished = FALSE, !.tasks = T].tasks = T
BY DEF IsProject, ProjectRecord

\* The methods that work on a task keep the graph.
LEMMA TaskMethodsKeepGraph ==
  ASSUME NEW p, IsProject(p), NEW i, NEW c, NEW e, NEW k
  PROVE  /\ SameGraph(p, StartTask(p, i))
         /\ SameGraph(p, FailTask(p, i, c, e))
         /\ SameGraph(p, CompleteTask(p, i))
         /\ SameGraph(p, SkipTask(p, i, k))
         /\ SameGraph(p, OverrideTask(p, i))
         /\ SameGraph(p, SkipDependents(p, i))
         /\ SameGraph(p, SkipSuperseded(p))
<1>0. ASSUME NEW j \in DOMAIN p.tasks PROVE p.tasks[j] \in TaskRecord
  BY Entry
<1>1. SameGraph(p, StartTask(p, i))
  <2>1. StartTask(p, i).tasks =
          [j \in DOMAIN p.tasks |->
             IF j = i THEN StartedRecord(p.tasks[j])
             ELSE IF Repairs(i, j) THEN [p.tasks[j] EXCEPT !.attempts = @ + 1]
             ELSE p.tasks[j]]
    BY TableOf DEF StartTask
  <2> QED BY <1>0, <2>1, DepsOfRecords DEF SameGraph
<1>2. SameGraph(p, FailTask(p, i, c, e))
  <2> DEFINE status == IF ~RetriesLeft(p, i) THEN "failed" ELSE "pending"
             Left(j) == IF ~RetriesLeft(p, i) THEN e ELSE p.tasks[j].evidence
  <2>1. FailTask(p, i, c, e).tasks =
          [j \in DOMAIN p.tasks |->
             IF j = i THEN FailedRecord(p.tasks[j], status, c, Left(j))
             ELSE IF Repairs(i, j) THEN FailedRecord(p.tasks[j], "failed", c, Left(j))
             ELSE p.tasks[j]]
    BY TableOf DEF FailTask
  <2> HIDE DEF status, Left
  <2> QED BY <1>0, <2>1, DepsOfRecords DEF SameGraph
<1>3. SameGraph(p, CompleteTask(p, i))
  <2> DEFINE X(j) == IF IsRepair(i) THEN p.tasks[j].context ELSE NoContext
             sibling(j) == /\ HasOrigin(p, i) /\ IsRepair(j) /\ Origin(j) = Origin(i)
                           /\ p.tasks[j].status = "pending"
  <2>1. CompleteTask(p, i).tasks =
          [j \in DOMAIN p.tasks |->
             IF j = i THEN DoneRecord(p.tasks[j], X(j))
             ELSE IF Repairs(i, j) THEN DoneRecord(p.tasks[j], NoContext)
             ELSE IF sibling(j)
               THEN SkippedRecord(p.tasks[j], "superseded_repair", p.tasks[j].context)
             ELSE p.tasks[j]]
    BY TableOf DEF CompleteTask
  <2> HIDE DEF X, sibling
  <2> QED BY <1>0, <2>1, DepsOfRecords DEF SameGraph
<1>4. SameGraph(p, SkipTask(p, i, k))
  <2>1. SkipTask(p, i, k).tasks = [p.tasks EXCEPT ![i] = SkippedRecord(p.tasks[i], k, NoContext)]
    BY TableOf DEF SkipTask
  <2> QED BY <1>0, <2>1, DepsOfRecords DEF SameGraph
<1>5. SameGraph(p, OverrideTask(p, i))
  <2> DEFINE r == [DoneRecord(p.tasks[i], NoContext) EXCEPT !.skip = "none"]
  <2>1. OverrideTask(p, i).tasks = [p.tasks EXCEPT ![i] = r]
    BY TableOf DEF OverrideTask
  <2>2. i \in DOMAIN p.tasks => r.deps = p.tasks[i].deps
    BY <1>0, DepsOfRecords
  <2> HIDE DEF r
  <2> QED BY <2>1, <2>2 DEF SameGraph
<1>6. SameGraph(p, SkipDependents(p, i))
  <2> DEFINE doomed == Descendants(p, i) \cap Pending(p)
  <2>1. SkipDependents(p, i).tasks =
          [j \in DOMAIN p.tasks |->
             IF j \in doomed THEN SkippedRecord(p.tasks[j], "dependency_failed", NoContext)
             ELSE p.tasks[j]]
    BY TableOf DEF SkipDependents
  <2> HIDE DEF doomed
  <2> QED BY <1>0, <2>1, DepsOfRecords DEF SameGraph
<1>7. SameGraph(p, SkipSuperseded(p))
  <2> DEFINE over(j) == p.tasks[j].status = "pending" /\ OriginDone(p, j) /\ ~StillRequired(p, j)
  <2>1. SkipSuperseded(p).tasks =
          [j \in DOMAIN p.tasks |->
             IF over(j) THEN SkippedRecord(p.tasks[j], "superseded_repair", p.tasks[j].context)
             ELSE p.tasks[j]]
    BY TableOf DEF SkipSuperseded
  <2>2. ASSUME NEW j \in DOMAIN p.tasks
        PROVE  SkippedRecord(p.tasks[j], "superseded_repair", p.tasks[j].context).deps = p.tasks[j].deps
    BY <1>0 DEF SkippedRecord, TaskRecord
  <2> HIDE DEF over
  <2> QED BY <2>1, <2>2 DEF SameGraph
<1> QED BY <1>1, <1>2, <1>3, <1>4, <1>5, <1>6, <1>7

\* So do the methods that work on the whole workflow, but for a replay.
LEMMA WorkflowMethodsKeepGraph ==
  ASSUME NEW p, IsProject(p), NEW a, NEW b, NEW c
  PROVE  /\ SameGraph(p, p)
         /\ SameGraph(p, MarkRunning(p, a))
         /\ SameGraph(p, MarkFinished(p, a, b, c))
         /\ SameGraph(p, PauseProject(p))
         /\ SameGraph(p, ResumeProject(p))
         /\ SameGraph(p, CancelProject(p))
         /\ SameGraph(p, StartCycle(p))
         /\ SameGraph(p, [p EXCEPT !.budget = a])
         /\ SameGraph(p, ResumeInterrupted(p))
         /\ SameGraph(p, ResumeFailed(p, a, b))
<1>0. ASSUME NEW j \in DOMAIN p.tasks PROVE p.tasks[j] \in TaskRecord
  BY Entry
<1>1. /\ SameGraph(p, p)
      /\ SameGraph(p, MarkRunning(p, a))
      /\ SameGraph(p, MarkFinished(p, a, b, c))
      /\ SameGraph(p, PauseProject(p))
      /\ SameGraph(p, ResumeProject(p))
      /\ SameGraph(p, StartCycle(p))
      /\ SameGraph(p, [p EXCEPT !.budget = a])
  BY DEF SameGraph, MarkRunning, MarkFinished, PauseProject, ResumeProject, StartCycle,
         IsProject, ProjectRecord
<1>2. SameGraph(p, CancelProject(p))
  <2> DEFINE T == [j \in DOMAIN p.tasks |->
                     IF p.tasks[j].status = "pending"
                       THEN SkippedRecord(p.tasks[j], "workflow_cancelled", p.tasks[j].context)
                       ELSE p.tasks[j]]
  <2>1. CancelProject(p).tasks = T
    BY DEF CancelProject, MarkFinished, IsProject, ProjectRecord
  <2>2. ASSUME NEW j \in DOMAIN p.tasks
        PROVE  SkippedRecord(p.tasks[j], "workflow_cancelled", p.tasks[j].context).deps = p.tasks[j].deps
    BY <1>0 DEF SkippedRecord, TaskRecord
  <2> QED BY <2>1, <2>2 DEF SameGraph
<1>3. SameGraph(p, ResumeInterrupted(p))
  <2> DEFINE T == [j \in DOMAIN p.tasks |->
                     IF j \in WithStatus(p, {"running"})
                       THEN [p.tasks[j] EXCEPT !.status = "pending", !.category = "none"]
                       ELSE p.tasks[j]]
  <2>1. CASE WithStatus(p, {"running"}) = {}
    BY <1>1, <2>1 DEF ResumeInterrupted
  <2>2. CASE WithStatus(p, {"running"}) # {}
    <3>1. ResumeInterrupted(p).tasks = T
      BY <2>2, TableOf DEF ResumeInterrupted
    <3> QED BY <1>0, <3>1, DepsOfRecords DEF SameGraph
  <2> QED BY <2>1, <2>2
<1>4. SameGraph(p, ResumeFailed(p, a, b))
  <2> DEFINE named == b \cap WithStatus(p, {"done", "failed", "skipped"})
             again == named \cup Freed(p, a \cup named)
             x(j) == IF j \in named THEN p.tasks[j].context ELSE NoContext
             r(j) == [p.tasks[j] EXCEPT
                        !.status = "pending", !.category = "none", !.evidence = {},
                        !.skip = "none", !.context = IF j \in named THEN @ ELSE NoContext]
  <2>1. ResumeFailed(p, a, b).tasks =
          [j \in DOMAIN p.tasks |-> IF j \in again THEN r(j) ELSE p.tasks[j]]
    BY TableOf DEF ResumeFailed
  <2>2. ASSUME NEW j \in DOMAIN p.tasks PROVE r(j).deps = p.tasks[j].deps
    BY <1>0 DEF TaskRecord
  <2> HIDE DEF again, r
  <2> QED BY <2>1, <2>2 DEF SameGraph
<1> QED BY <1>1, <1>2, <1>3, <1>4

-----------------------------------------------------------------------------
(* What planning does to the graph.  Every dependency is either one that   *)
(* the workflow was defined with, between whatever repairs of the two      *)
(* tasks, or that of a repair on the budget plan made for it.              *)

\* How i may come to depend on j.
MayDependOn(i, j) ==
  \/ j[1] \in Dependencies[i[1]]
  \/ IsRepair(i) /\ IsLineage(j) /\ ~IsRepair(j) /\ j[1] = i[1]

\* The tasks of p are those of the definition and tasks made for them.
IsStructured(p) ==
  /\ IsFiniteSet(DOMAIN p.tasks)
  /\ \A o \in Original :
       /\ OriginalId(o) \in DOMAIN p.tasks
       /\ {OriginalId(d) : d \in Dependencies[o]} \subseteq p.tasks[OriginalId(o)].deps
  /\ \A i \in DOMAIN p.tasks : \A j \in p.tasks[i].deps : MayDependOn(i, j)

\* No task of p depends on one that p does not have.
DepsExist(p) == \A i \in DOMAIN p.tasks : p.tasks[i].deps \subseteq DOMAIN p.tasks

\* The values of a function on finitely many arguments are finitely many.
LEMMA ImageIsFinite ==
  ASSUME NEW S, IsFiniteSet(S), NEW f
  PROVE  IsFiniteSet({f[x] : x \in S})
<1> DEFINE T == {f[x] : x \in S}
           g == [x \in S |-> f[x]]
<1>1. g \in [S -> T] /\ \A t \in T : \E x \in S : g[x] = t
  OBVIOUS
<1> HIDE DEF T, g
<1>2. g \in Surjection(S, T)
  BY <1>1 DEF Surjection
<1>3. IsFiniteSet(T)
  BY <1>2, FS_Surjection
<1> QED BY <1>3 DEF T

\* The definition has this structure.
LEMMA InitialIsStructured ==
  /\ IsStructured(InitialProject)
  /\ DepsExist(InitialProject)
  /\ DOMAIN InitialProject.tasks = {OriginalId(o) : o \in Original}
  /\ \A o \in Original :
       InitialProject.tasks[OriginalId(o)] = NewTask({OriginalId(d) : d \in Dependencies[o]})
<1> DEFINE T == InitialProject.tasks
           D == {OriginalId(o) : o \in Original}
<1>1. T = [i \in D |-> NewTask({OriginalId(d) : d \in Dependencies[i[1]]})]
  BY DEF InitialProject
<1>2. \A o \in Original : OriginalId(o)[1] = o
  BY DEF OriginalId
<1>3. ASSUME NEW o \in Original
      PROVE  /\ OriginalId(o) \in D
             /\ T[OriginalId(o)] = NewTask({OriginalId(d) : d \in Dependencies[o]})
             /\ T[OriginalId(o)].deps = {OriginalId(d) : d \in Dependencies[o]}
             /\ Dependencies[o] \subseteq Original
  <2>1. T[OriginalId(o)] = NewTask({OriginalId(d) : d \in Dependencies[o]})
    BY <1>1, <1>2
  <2> HIDE DEF T
  <2> QED BY <2>1, WorkflowAssumption DEF NewTask
<1>4. IsFiniteSet(D)
  <2> DEFINE f == [o \in Original |-> OriginalId(o)]
  <2>1. D = {f[o] : o \in Original}
    OBVIOUS
  <2> HIDE DEF f
  <2> QED BY <2>1, WorkflowAssumption, ImageIsFinite
<1>5. DOMAIN T = D
  BY <1>1
<1>6. ASSUME NEW i \in DOMAIN T, NEW j \in T[i].deps
      PROVE  MayDependOn(i, j) /\ j \in DOMAIN T
  <2>1. PICK o \in Original : i = OriginalId(o)
    BY <1>5
  <2>2. PICK d \in Dependencies[o] : j = OriginalId(d)
    BY <1>3, <1>6, <2>1
  <2> HIDE DEF T
  <2> QED BY <1>2, <1>3, <1>5, <2>1, <2>2 DEF MayDependOn
<1> HIDE DEF T
<1>7. IsStructured(InitialProject) /\ DepsExist(InitialProject)
  BY <1>3, <1>4, <1>5, <1>6 DEF IsStructured, DepsExist, T
<1> QED BY <1>3, <1>5, <1>7 DEF T

\* The structure is one of the graph.
LEMMA StructureKept ==
  ASSUME NEW p, NEW q, SameGraph(p, q)
  PROVE  /\ IsStructured(p) => IsStructured(q)
         /\ DepsExist(p) => DepsExist(q)
BY DEF SameGraph, IsStructured, DepsExist

\* A replay keeps the structure, but the tasks that it keeps may depend on
\* repairs that it drops.
LEMMA ReplayIsStructured ==
  ASSUME NEW p, IsStructured(p)
  PROVE  IsStructured(ReplayProject(p))
<1> DEFINE D == {i \in DOMAIN p.tasks : ~IsLineage(i)}
           T == [j \in D |-> NewTask(p.tasks[j].deps)]
<1>1. ReplayProject(p).tasks = T
  BY DEF ReplayProject, InitialProject
<1>2. \A j \in D : T[j].deps = p.tasks[j].deps
  BY DEF NewTask
<1>3. IsFiniteSet(D)
  BY FS_Subset DEF IsStructured
<1>4. \A o \in Original : OriginalId(o) \in D
  BY DEF IsStructured, OriginalId, IsLineage
<1>5. DOMAIN T = D /\ D \subseteq DOMAIN p.tasks
  OBVIOUS
<1> HIDE DEF D, T
<1> QED BY <1>1, <1>2, <1>3, <1>4, <1>5 DEF IsStructured

\* The repair and the plan that a cycle makes for a task.
LEMMA NewIdsAre ==
  ASSUME NEW x \in Ids, NEW c \in Nat, c > 0
  PROVE  /\ RepairId(x, c)[1] = x[1] /\ PlanId(x, c)[1] = x[1]
         /\ Origin(RepairId(x, c)) = x
         /\ IsRepair(RepairId(x, c))
         /\ IsLineage(PlanId(x, c)) /\ ~IsRepair(PlanId(x, c))
<1> DEFINE s == x[2]
<1>1. x = <<x[1], s>> /\ s \in Seq(Nat)
  BY DEF Ids
<1> HIDE DEF s
<1>2. /\ Append(s, c) \in Seq(Nat) /\ Len(Append(s, c)) = Len(s) + 1
      /\ Append(s, c)[Len(s) + 1] = c /\ Len(s) \in Nat
      /\ SubSeq(Append(s, c), 1, Len(s)) = s
  BY <1>1
<1>3. RepairId(x, c) = <<x[1], Append(s, c)>> /\ PlanId(x, c) = <<x[1], s \o <<c, 0>>>>
  BY DEF RepairId, PlanId, s
<1>4. Append(s, c) # << >> /\ Len(s) + 1 - 1 = Len(s)
  BY <1>2
<1>5. Origin(RepairId(x, c)) = x /\ IsRepair(RepairId(x, c))
  BY <1>1, <1>2, <1>3, <1>4 DEF Origin, IsRepair, IsLineage
<1>6. /\ Len(s \o <<c, 0>>) = Len(s) + 2 /\ (s \o <<c, 0>>)[Len(s) + 2] = 0
      /\ s \o <<c, 0>> # << >>
  <2>1. <<c, 0>> \in Seq(Nat) /\ Len(<<c, 0>>) = 2 /\ <<c, 0>>[2] = 0
    OBVIOUS
  <2>2. Len(s \o <<c, 0>>) = Len(s) + 2 /\ s \o <<c, 0>> \in Seq(Nat)
    BY <1>1, <2>1
  <2>3. (s \o <<c, 0>>)[Len(s) + 2] = <<c, 0>>[2]
    BY <1>1, <2>1, <2>2
  <2> QED BY <1>2, <2>1, <2>2, <2>3
<1> QED BY <1>3, <1>5, <1>6 DEF IsRepair, IsLineage

\* The code that a failed suite blames is a task, or a repair of one, that the
\* suite was defined to depend on: no budget plan is assigned to an engineer.
LEMMA BlamedCodeIsUpstream ==
  ASSUME NEW p, IsProject(p), IsStructured(p), NEW i \in DOMAIN p.tasks, HasUpstreamCode(p, i)
  PROVE  UpstreamCode(p, i)[1] \in Dependencies[i[1]]
<1> DEFINE u == UpstreamCode(p, i)
<1>1. u \in LastCode(p, i)
  BY DEF HasUpstreamCode, UpstreamCode
<1> HIDE DEF u
<1>2. u \in p.tasks[i].deps /\ u \in DOMAIN p.tasks /\ RoleOf(u) = "code_engineer"
  BY <1>1 DEF LastCode, CodeDeps
<1>3. MayDependOn(i, u)
  BY <1>2 DEF IsStructured
<1>4. ~(IsLineage(u) /\ ~IsRepair(u))
  <2>1. SUFFICES ASSUME IsLineage(u), ~IsRepair(u) PROVE FALSE
    OBVIOUS
  <2>2. u[2] \in Seq(Nat) /\ u[2] # << >> /\ u[2][Len(u[2])] = 0
    BY <1>2, <2>1, Entry DEF Ids, IsRepair, IsLineage
  <2>3. Len(u[2]) \in 1 .. Len(u[2])
    BY <2>2
  <2>4. RoleOf(u) = "architect"
    BY <2>2, <2>3 DEF RoleOf
  <2> QED BY <1>2, <2>4
<1> QED BY <1>3, <1>4 DEF MayDependOn, u

\* What a cycle makes tasks wait for exists and fits the structure.
LEMMA AddedDepsFit ==
  ASSUME NEW p, IsProject(p), IsStructured(p), NEW F \in SUBSET DOMAIN p.tasks,
         NEW c \in Nat, c > 0, NEW i \in DOMAIN p.tasks \cup CycleIds(p, F, c),
         NEW j \in AddedDeps(p, F, c, i)
  PROVE  MayDependOn(i, j) /\ j \in CycleIds(p, F, c)
<1>1. Targets(p, F) \subseteq DOMAIN p.tasks /\ Targets(p, F) \subseteq Ids
  BY TargetsAreTasks, Entry
<1>2. ASSUME NEW t, j \in CodeRepairOf(p, F, c, t), NEW k, k[1] = t[1]
      PROVE  MayDependOn(k, j) /\ j \in CycleIds(p, F, c)
  <2> DEFINE u == UpstreamCode(p, t)
  <2>1. t \in Suites(p, F) /\ j = RepairId(u, c)
    BY <1>2 DEF CodeRepairOf
  <2>2. t \in DOMAIN p.tasks /\ HasUpstreamCode(p, t)
    BY <2>1 DEF Suites
  <2>3. u[1] \in Dependencies[t[1]]
    BY <2>2, BlamedCodeIsUpstream
  <2>4. u \in Targets(p, F)
    BY <2>1 DEF Targets, BlamedCode
  <2> HIDE DEF u
  <2>5. j \in RepairIds(p, F, c)
    BY <2>1, <2>4 DEF RepairIds
  <2>6. j[1] = u[1]
    BY <2>1 DEF RepairId
  <2> QED BY <1>2, <2>3, <2>5, <2>6 DEF MayDependOn, CycleIds
<1>3. CASE i \in RepairIds(p, F, c)
  <2>1. PICK x \in Targets(p, F) : i = RepairId(x, c)
    BY <1>3 DEF RepairIds
  <2>2. x \in Ids
    BY <1>1
  <2>3. Origin(i) = x /\ i[1] = x[1] /\ IsRepair(i)
    BY <2>1, <2>2, NewIdsAre
  <2>4. CASE j \in {PlanId(x, c)} \cap PlanIds(p, F, c)
    <3>1. IsLineage(j) /\ ~IsRepair(j) /\ j[1] = x[1]
      BY <2>2, <2>4, NewIdsAre
    <3> QED BY <2>3, <2>4, <3>1 DEF MayDependOn, CycleIds
  <2>5. CASE j \in CodeRepairOf(p, F, c, x)
    BY <1>2, <2>3, <2>5
  <2> QED BY <1>3, <2>3, <2>4, <2>5 DEF AddedDeps
<1>4. CASE i \notin RepairIds(p, F, c)
  <2>1. j \in CodeRepairOf(p, F, c, i)
    BY <1>4 DEF AddedDeps
  <2> QED BY <1>2, <2>1
<1> QED BY <1>3, <1>4

\* A new task inherits what it may depend on, from a project without dangling
\* dependencies.
LEMMA InheritedDepsFit ==
  ASSUME NEW p, IsProject(p), IsStructured(p), DepsExist(p),
         NEW F \in SUBSET DOMAIN p.tasks, NEW c \in Nat,
         NEW i \in CycleIds(p, F, c), NEW j \in InheritedDeps(p, TargetOf(p, F, c, i))
  PROVE  MayDependOn(i, j) /\ j \in DOMAIN p.tasks
<1> DEFINE x == TargetOf(p, F, c, i)
<1>1. \E y \in Targets(p, F) : i \in {RepairId(y, c), PlanId(y, c)}
  BY DEF CycleIds, PlanIds, RepairIds
<1>2. x \in Targets(p, F) /\ i \in {RepairId(x, c), PlanId(x, c)}
  BY <1>1 DEF TargetOf
<1> HIDE DEF x
<1>3. i[1] = x[1]
  BY <1>2 DEF RepairId, PlanId
<1>4. x \in DOMAIN p.tasks
  BY <1>2, TargetsAreTasks
<1>5. j \in p.tasks[x].deps /\ (j \notin DOMAIN p.tasks \/ ~IsLineage(j))
  BY DEF InheritedDeps, x
<1>6. j \in DOMAIN p.tasks /\ MayDependOn(x, j)
  BY <1>4, <1>5 DEF DepsExist, IsStructured
<1> QED BY <1>3, <1>5, <1>6 DEF MayDependOn

\* A cycle adds finitely many tasks.
LEMMA CycleIdsFinite ==
  ASSUME NEW p, IsFiniteSet(DOMAIN p.tasks), NEW F \in SUBSET DOMAIN p.tasks, NEW c
  PROVE  IsFiniteSet(CycleIds(p, F, c))
<1> DEFINE X == Targets(p, F)
           Y == {y \in X : NeedsPlan(p, F, y)}
           f == [x \in X |-> RepairId(x, c)]
           g == [x \in Y |-> PlanId(x, c)]
<1>1. IsFiniteSet(X)
  BY TargetsAreTasks, FS_Subset
<1>2. IsFiniteSet(Y)
  BY <1>1, FS_Subset
<1>3. RepairIds(p, F, c) = {f[x] : x \in X} /\ PlanIds(p, F, c) = {g[x] : x \in Y}
  BY DEF RepairIds, PlanIds
<1> HIDE DEF X, Y, f, g
<1>4. IsFiniteSet(RepairIds(p, F, c)) /\ IsFiniteSet(PlanIds(p, F, c))
  BY <1>1, <1>2, <1>3, ImageIsFinite
<1> QED BY <1>4, FS_Union DEF CycleIds

\* Planning a cycle keeps the structure and leaves no dependency dangling.
LEMMA PlanRepairsIsStructured ==
  ASSUME NEW p, IsProject(p), IsStructured(p), DepsExist(p),
         NEW F \in SUBSET DOMAIN p.tasks, NEW c \in Nat, c > 0
  PROVE  IsStructured(PlanRepairs(p, F, c)) /\ DepsExist(PlanRepairs(p, F, c))
<1> DEFINE D == DOMAIN p.tasks \cup CycleIds(p, F, c)
           Base(i) == IF i \in DOMAIN p.tasks THEN p.tasks[i]
                      ELSE NewTask(InheritedDeps(p, TargetOf(p, F, c, i)))
           Context(i) == IF i \in RepairIds(p, F, c) THEN NewContext(p, F, Origin(i))
                         ELSE IF i \in Targets(p, F) THEN NewContext(p, F, i)
                         ELSE Base(i).context
           E(i) == [Base(i) EXCEPT !.deps = @ \cup AddedDeps(p, F, c, i),
                                   !.context = Context(i)]
           T == [i \in D |-> E(i)]
           q == PlanRepairs(p, F, c)
<1>1. q.tasks = T
  <2>1. q = [p EXCEPT !.tasks = T]
    BY DEF PlanRepairs
  <2> HIDE DEF q, T
  <2> QED BY <2>1, TableOf
<1>2. ASSUME NEW i \in D
      PROVE  T[i].deps = Base(i).deps \cup AddedDeps(p, F, c, i)
  <2>1. CASE i \in DOMAIN p.tasks
    <3>1. Base(i) \in TaskRecord
      BY <2>1, Entry
    <3> HIDE DEF Base, Context
    <3> QED BY <3>1 DEF TaskRecord
  <2>2. CASE i \notin DOMAIN p.tasks
    <3>1. "deps" \in DOMAIN Base(i) /\ "context" \in DOMAIN Base(i)
      BY <2>2 DEF NewTask
    <3> HIDE DEF Base, Context
    <3> QED BY <3>1
  <2> QED BY <2>1, <2>2
<1>3. ASSUME NEW i \in D, NEW j \in Base(i).deps
      PROVE  MayDependOn(i, j) /\ j \in DOMAIN p.tasks
  <2>1. CASE i \in DOMAIN p.tasks
    BY <1>3, <2>1 DEF IsStructured, DepsExist
  <2>2. CASE i \notin DOMAIN p.tasks
    <3>1. j \in InheritedDeps(p, TargetOf(p, F, c, i)) /\ i \in CycleIds(p, F, c)
      BY <1>3, <2>2 DEF NewTask
    <3> QED BY <3>1, InheritedDepsFit
  <2> QED BY <2>1, <2>2
<1>4. \A i \in DOMAIN p.tasks : Base(i) = p.tasks[i]
  OBVIOUS
<1> HIDE DEF E, T, Base, q
<1>5. ASSUME NEW i \in D, NEW j \in T[i].deps
      PROVE  MayDependOn(i, j) /\ j \in D
  BY <1>2, <1>3, <1>5, AddedDepsFit
<1>6. IsFiniteSet(D)
  BY CycleIdsFinite, FS_Union DEF IsStructured
<1>7. DOMAIN T = D
  BY DEF T
<1>8. ASSUME NEW o \in Original
      PROVE  /\ OriginalId(o) \in D
             /\ {OriginalId(d) : d \in Dependencies[o]} \subseteq T[OriginalId(o)].deps
  BY <1>2, <1>4 DEF IsStructured
<1> QED BY <1>1, <1>5, <1>6, <1>7, <1>8 DEF IsStructured, DepsExist, q

\* So does the cycle as a whole.
LEMMA RepairCycleIsStructured ==
  ASSUME NEW p, IsProject(p), IsStructured(p), DepsExist(p),
         NEW F, F \subseteq DOMAIN p.tasks, NEW c \in Nat, c > 0
  PROVE  IsStructured(RepairCycle(p, F, c)) /\ DepsExist(RepairCycle(p, F, c))
<1> DEFINE q == PlanRepairs(p, F, c)
<1>1. F \in SUBSET DOMAIN p.tasks
  OBVIOUS
<1>2. IsProject(q) /\ IsStructured(q) /\ DepsExist(q)
  BY <1>1, PlanRepairsType, PlanRepairsIsStructured
<1> HIDE DEF q
<1>3. SameGraph(q, ResumeFailed(q, F, CycleIds(p, F, c)))
  BY <1>2, WorkflowMethodsKeepGraph
<1> QED BY <1>2, <1>3, StructureKept DEF RepairCycle, q

\* A project whose graph is valid was defined with a valid graph.
LEMMA DefinitionIsValid ==
  ASSUME NEW p, IsProject(p), IsStructured(p), PlanIsValid(p)
  PROVE  PlanIsValid(InitialProject)
<1> DEFINE T == InitialProject.tasks
           D == DOMAIN T
           known == DOMAIN p.tasks
<1>1. /\ D = {OriginalId(o) : o \in Original} /\ IsFiniteSet(D)
      /\ \A i \in D : T[i].deps \subseteq D
  BY InitialIsStructured DEF IsStructured, DepsExist
<1>2. ASSUME NEW i \in D PROVE i \in known /\ T[i].deps \subseteq p.tasks[i].deps
  <2>1. PICK o \in Original : i = OriginalId(o)
    BY <1>1
  <2> DEFINE S == {OriginalId(d) : d \in Dependencies[o]}
  <2>2. T[i].deps = S
    <3>1. T[i] = NewTask(S)
      BY <2>1, InitialIsStructured
    <3>2. NewTask(S).deps = S
      BY DEF NewTask
    <3> HIDE DEF T, S
    <3> QED BY <3>1, <3>2
  <2> HIDE DEF T, D
  <2> QED BY <2>1, <2>2 DEF IsStructured
<1> HIDE DEF T, D
<1>3. ASSUME NEW i \in D PROVE T[i].deps \cap Reach(T, {i}, D) = {}
  <2> DEFINE R == Reach(p.tasks, {i}, known)
  <2>1. i \in R /\ IsClosed(p.tasks, known, R)
    BY ReachIsClosed DEF IsStructured
  <2>2. p.tasks[i].deps \cap R = {}
    BY <1>2 DEF PlanIsValid
  <2> HIDE DEF R
  <2>3. IsClosed(T, D, R)
    BY <1>2, <2>1 DEF IsClosed
  <2>4. Reach(T, {i}, D) \subseteq R
    BY <1>1, <2>1, <2>3, ReachIsLeast
  <2> QED BY <1>2, <2>2, <2>4
<1> QED BY <1>1, <1>3 DEF PlanIsValid, T, D

\* A project with the structure of its definition, without dangling dependencies,
\* has a valid graph if the definition has one.  What may depend on a task of p
\* is a task made for one that is defined to depend on its original, or else, if
\* the task is no repair, a repair of the same original.
LEMMA StructureIsValid ==
  ASSUME NEW p, IsProject(p), IsStructured(p), DepsExist(p), PlanIsValid(InitialProject)
  PROVE  PlanIsValid(p)
<1> DEFINE T == InitialProject.tasks
           D == DOMAIN T
           known == DOMAIN p.tasks
           Below(o) == Reach(T, {OriginalId(o)}, D)
<1>1. /\ D = {OriginalId(o) : o \in Original} /\ IsFiniteSet(D)
      /\ \A o \in Original : T[OriginalId(o)].deps = {OriginalId(d) : d \in Dependencies[o]}
      /\ \A o \in Original : Dependencies[o] \subseteq Original
  <2>1. ASSUME NEW o \in Original
        PROVE  T[OriginalId(o)].deps = {OriginalId(d) : d \in Dependencies[o]}
    <3> DEFINE S == {OriginalId(d) : d \in Dependencies[o]}
    <3>1. T[OriginalId(o)] = NewTask(S)
      BY InitialIsStructured
    <3>2. NewTask(S).deps = S
      BY DEF NewTask
    <3> HIDE DEF T, S
    <3>3. T[OriginalId(o)].deps = S
      BY <3>1, <3>2
    <3> QED BY <3>3 DEF S
  <2> QED BY <2>1, InitialIsStructured, WorkflowAssumption DEF IsStructured
<1>2. \A i \in known : i[1] \in Original
  BY Entry DEF Ids
<1>3. ASSUME NEW o \in Original
      PROVE  /\ OriginalId(o) \in Below(o)
             /\ \A a \in Original : \A b \in Dependencies[a] :
                  OriginalId(b) \in Below(o) => OriginalId(a) \in Below(o)
             /\ \A d \in Dependencies[o] : OriginalId(d) \notin Below(o)
  <2>1. OriginalId(o) \in Below(o) /\ IsClosed(T, D, Below(o))
    BY <1>1, ReachIsClosed
  <2>2. T[OriginalId(o)].deps \cap Below(o) = {}
    BY <1>1 DEF PlanIsValid
  <2> HIDE DEF T, D, Below
  <2> QED BY <1>1, <2>1, <2>2 DEF IsClosed
<1> HIDE DEF T, D, Below
<1>4. ASSUME NEW i \in known, NEW j \in p.tasks[i].deps
      PROVE  j \notin Reach(p.tasks, {i}, known)
  <2> DEFINE o == i[1]
             Strict(k) == k[1] # o /\ OriginalId(k[1]) \in Below(o)
             S == {k \in known : k = i \/ Strict(k) \/ (~IsRepair(i) /\ IsRepair(k) /\ k[1] = o)}
  <2>1. o \in Original /\ i \in S
    BY <1>2
  <2>2. ASSUME NEW k \in known, p.tasks[k].deps \cap S # {}
        PROVE  k \in S
    <3>1. PICK d \in p.tasks[k].deps : d \in S
      BY <2>2
    <3>2. MayDependOn(k, d) /\ k[1] \in Original /\ d[1] \in Original
      BY <1>2, <3>1 DEF IsStructured
    <3>3. OriginalId(d[1]) \in Below(o)
      BY <1>3, <2>1, <3>1
    <3>4. CASE d[1] \in Dependencies[k[1]]
      <4>1. OriginalId(k[1]) \in Below(o)
        BY <1>3, <2>1, <3>2, <3>3, <3>4
      <4>2. k[1] # o
        BY <1>3, <2>1, <3>3, <3>4
      <4> QED BY <4>1, <4>2
    <3>5. CASE IsRepair(k) /\ IsLineage(d) /\ ~IsRepair(d) /\ d[1] = k[1]
      <4>1. CASE d[1] = o
        <5>1. d = i
          BY <3>1, <3>5, <4>1
        <5> QED BY <3>5, <4>1, <5>1
      <4>2. CASE d[1] # o
        BY <3>3, <3>5, <4>2
      <4> QED BY <4>1, <4>2
    <3> QED BY <3>2, <3>4, <3>5 DEF MayDependOn
  <2>3. Reach(p.tasks, {i}, known) \subseteq S
    <3>1. IsClosed(p.tasks, known, S)
      <4> HIDE DEF S
      <4> QED BY <2>2 DEF IsClosed
    <3>2. IsFiniteSet(known) /\ {i} \subseteq S
      BY <2>1 DEF IsStructured
    <3> HIDE DEF S, known
    <3> QED BY <3>1, <3>2, ReachIsLeast
  <2>4. j \notin S
    <3>1. MayDependOn(i, j)
      BY DEF IsStructured
    <3>2. CASE j[1] \in Dependencies[o]
      <4>1. OriginalId(j[1]) \notin Below(o) /\ OriginalId(o) \in Below(o)
        BY <1>3, <2>1, <3>2
      <4>2. j[1] # o
        BY <4>1
      <4> QED BY <4>1, <4>2
    <3>3. CASE IsRepair(i) /\ ~IsRepair(j) /\ j[1] = o
      BY <3>3
    <3> QED BY <3>1, <3>2, <3>3 DEF MayDependOn
  <2> QED BY <2>3, <2>4
<1> QED BY <1>4 DEF PlanIsValid, DepsExist
=============================================================================
