--------------------------- MODULE WorkflowProofs ---------------------------
(***************************************************************************)
(* What holds of WorkflowControl for every workflow, policy and bound: its *)
(* state stays well formed, it implements WorkflowLifecycle, and an        *)
(* operator's word is durable; no task is left marked running, an idle     *)
(* workflow is durable, repairs stay within their budget and keep the graph*)
(* valid, a workflow is blocked only for a reason and completed only in    *)
(* earnest; a repair cycle releases what was skipped and leaves something  *)
(* to do; and, until a cycle is counted, retries are bounded, tasks start  *)
(* in order and nothing blocks.                                            *)
(*                                                                         *)
(* And what holds of the campaigns that execute workflows (Campaign), for  *)
(* every service and bound: executions keep what they keep without a       *)
(* campaign around them, and no campaign reports a success that it cannot  *)
(* show.                                                                   *)
(***************************************************************************)
EXTENDS Campaign, WorkflowProperties, ProjectStateProofs, SequenceTheorems

\* The frontier is only kept while its tasks are worked off.
FrontierIsLocal == pc \notin {"frontier", "agent"} => frontier = {}

\* What is inductive: replay may only drop tasks that no frontier lists.
TypeInv == TypeOK /\ FrontierIsLocal

-----------------------------------------------------------------------------
(* Steps.                                                                  *)

\* The absence of a task is not mistaken for one.
LEMMA IdIsNotNoTask ==
  ASSUME NEW i \in Ids
  PROVE  i # NoTask
BY DEF Ids, NoTask

\* An execution that stops: any project may be left.
LEMMA StopType ==
  ASSUME TypeInv, NEW p, IsProject(p), SaveAs(p), Stop
  PROVE  TypeInv'
BY DEF TypeInv, TypeOK, FrontierIsLocal, SaveAs, Stop, Goto, Points

\* An execution that ends with the workflow failed.
LEMMA StopFailedType ==
  ASSUME TypeInv, NEW p, IsProject(p), NEW f \in Failures, StopFailed(p, f)
  PROVE  TypeInv'
<1>1. "failed" \in Phases /\ "failed" \in Outcomes
  BY DEF Phases, Outcomes
<1> QED BY <1>1, MarkFinishedType, StopType DEF StopFailed

\* The end of an attempt after which the frontier is worked off further.
LEMMA ContinueWithType ==
  ASSUME TypeInv, NEW p, IsProject(p), DOMAIN project.tasks \subseteq DOMAIN p.tasks,
         NEW left \in SUBSET frontier, ContinueWith(p, left)
  PROVE  TypeInv'
BY DEF TypeInv, TypeOK, FrontierIsLocal, ContinueWith, SaveAs, Goto, Points

\* The execution moves on without leaving its loop.
LEMMA MoveType ==
  ASSUME TypeInv, NEW p, IsProject(p), DOMAIN project.tasks \subseteq DOMAIN p.tasks,
         SaveAs(p) \/ Keep(p), NEW point \in {"idle", "resume", "activate", "loop"},
         Goto(point), UNCHANGED <<frontier, current>>,
         pc \in {"idle", "resume", "activate", "loop"}
  PROVE  TypeInv'
BY DEF TypeInv, TypeOK, FrontierIsLocal, SaveAs, Keep, Goto, Points

\* An operator's call that keeps the tasks there are.
LEMMA OperateType ==
  ASSUME TypeInv, NEW p, IsProject(p), DOMAIN project.tasks \subseteq DOMAIN p.tasks,
         Operate(Callable, p)
  PROVE  TypeInv'
BY PolicyAssumption DEF TypeInv, TypeOK, FrontierIsLocal, Operate, SaveAs

\* Every way in which dispatch_task_failure may decide.
LEMMA HandleFailureType ==
  ASSUME TypeInv, NEW p, IsProject(p), DOMAIN p.tasks = DOMAIN project.tasks,
         NEW t \in DOMAIN p.tasks, NEW category \in Categories,
         NEW left \in SUBSET frontier, HandleFailure(p, t, category, left)
  PROVE  TypeInv'
<1>1. CASE ContinueWith(p, left)
  BY <1>1, ContinueWithType
<1>2. CASE ContinueWith(RepairCycle(p, {t}, p.cycles), left)
  <2>1. p.cycles \in Nat BY DEF IsProject, ProjectRecord
  <2>2. /\ IsProject(RepairCycle(p, {t}, p.cycles))
        /\ DOMAIN p.tasks \subseteq DOMAIN RepairCycle(p, {t}, p.cycles).tasks
    <3>1. {t} \subseteq DOMAIN p.tasks OBVIOUS
    <3> QED BY <2>1, <3>1, RepairCycleType
  <2> QED BY <1>2, <2>2, ContinueWithType
<1>3. CASE ContinueWith(SkipDependents(p, t), left)
  BY <1>3, SkipDependentsType, ContinueWithType
<1>4. CASE StopFailed(p, category)
  BY <1>4, StopFailedType DEF Failures
<1> QED BY <1>1, <1>2, <1>3, <1>4 DEF HandleFailure

-----------------------------------------------------------------------------
\* Every step keeps the strengthened type invariant.
LEMMA TypeStep ==
  ASSUME TypeInv, [Next]_vars
  PROVE  TypeInv'
<1>1. IsProject(project) /\ IsProject(disk)
  BY DEF TypeInv, TypeOK
<1>2. /\ MaxRepairCycles \in Nat /\ MaxCalls \in Nat /\ MaxCrashes \in Nat
      /\ FailureModes \subseteq AllFailures
  BY PolicyAssumption
<1> DEFINE p == ResumeInterrupted(project)
           s == SkipSuperseded(project)
<1>3. /\ IsProject(p) /\ DOMAIN p.tasks = DOMAIN project.tasks
      /\ IsProject(s) /\ DOMAIN s.tasks = DOMAIN project.tasks
  BY <1>1, ResumeInterruptedType, SkipSupersededType
<1>4. {"sandbox", "repair_budget_exhausted", "blocked", "definition", "none"} \subseteq Failures
  BY DEF Failures, Categories
<1> HIDE DEF p, s
<1>5. CASE Execute
  <2> DEFINE q == [project EXCEPT !.budget = MaxRepairCycles]
  <2>1. IsProject(q) /\ q.tasks = project.tasks
    BY <1>1, <1>2 DEF IsProject, ProjectRecord
  <2>2. CASE SaveAs(project) /\ Goto("idle")
    BY <1>1, <1>5, <2>2, MoveType DEF Execute
  <2>3. CASE Keep(q) /\ Goto("resume")
    BY <2>1, <1>5, <2>3, MoveType DEF Execute
  <2> QED BY <1>5, <2>2, <2>3 DEF Execute
<1>6. CASE ResumeWithoutRepair
  BY <1>3, <1>6, MoveType DEF ResumeWithoutRepair, p
<1>7. CASE RefuseRepair
  BY <1>3, <1>4, <1>7, StopFailedType DEF RefuseRepair, p
<1>8. CASE ResumeWithRepair
  <2> DEFINE F == FailedForRepair(p)
             q == StartCycle(p)
  <2>1. IsProject(q) /\ q.tasks = p.tasks /\ q.cycles \in Nat
    BY <1>3, StartCycleType DEF IsProject, ProjectRecord
  <2>2. F \subseteq DOMAIN q.tasks
    BY <2>1 DEF FailedForRepair, WithStatus
  <2>3. /\ SaveAs(RepairCycle(q, F, q.cycles)) /\ pc = "resume"
        /\ Goto("activate") /\ UNCHANGED <<frontier, current>>
    BY <1>8 DEF ResumeWithRepair, p
  <2> HIDE DEF F, q
  <2>4. IsProject(RepairCycle(q, F, q.cycles))
        /\ DOMAIN q.tasks \subseteq DOMAIN RepairCycle(q, F, q.cycles).tasks
    BY <2>1, <2>2, RepairCycleType
  <2> QED BY <1>3, <2>1, <2>3, <2>4, MoveType
<1>9. CASE Activate
  <2>1. IsProject(MarkRunning(project, MaxRepairCycles))
        /\ MarkRunning(project, MaxRepairCycles).tasks = project.tasks
    BY <1>1, <1>2, MarkRunningType
  <2>2. CASE Stopped(project)
    BY <1>1, <1>9, <2>2, StopType DEF Activate
  <2>3. CASE ~Stopped(project)
    BY <1>1, <2>1, <1>9, <2>3, MoveType DEF Activate, EnsureRunning
  <2> QED BY <2>2, <2>3
<1>10. CASE LoopExit
  BY <1>1, <1>3, <1>10, StopType DEF LoopExit, s
<1>11. CASE Finish
  <2> DEFINE outcome == IF Accepted(s) THEN "completed" ELSE "degraded"
  <2>1. "completed" \in Phases /\ outcome \in Outcomes
    BY DEF Phases, Outcomes
  <2>2. SaveAs(MarkFinished(s, "completed", outcome, "none")) /\ Stop
    BY <1>11 DEF Finish, s
  <2> HIDE DEF outcome
  <2> QED BY <1>3, <1>4, <2>1, <2>2, MarkFinishedType, StopType
<1>12. CASE Blocked
  BY <1>3, <1>4, <1>12, StopFailedType DEF Blocked, s
<1>13. CASE SelectFrontier
  <2>1. Runnable(s) \subseteq DOMAIN s.tasks
    BY DEF Runnable
  <2> QED BY <1>3, <1>13, <2>1
      DEF SelectFrontier, s, TypeInv, TypeOK, FrontierIsLocal, Keep, Goto, Points
<1>14. CASE FrontierDone
  BY <1>14 DEF FrontierDone, TypeInv, TypeOK, FrontierIsLocal, Goto, Points
<1>15. CASE FrontierExit
  BY <1>1, <1>15, StopType DEF FrontierExit
<1>16. ASSUME NEW t \in frontier, Dispatch(t) PROVE TypeInv'
  <2>1. t \in DOMAIN project.tasks /\ t # NoTask
    BY <1>1, Entry, IdIsNotNoTask DEF TypeInv, TypeOK
  <2>2. IsProject(StartTask(project, t))
        /\ DOMAIN StartTask(project, t).tasks = DOMAIN project.tasks
    BY <1>1, StartTaskType
  <2> QED BY <1>16, <2>1, <2>2
      DEF Dispatch, TypeInv, TypeOK, FrontierIsLocal, Keep, Goto, Points
<1>17. ASSUME NEW t \in frontier, DispatchUnknownAgent(t) PROVE TypeInv'
  <2>1. t \in DOMAIN project.tasks /\ "execution" \in Categories
    BY DEF TypeInv, TypeOK, Categories
  <2> QED BY <1>1, <1>17, <2>1, HandleFailureType DEF DispatchUnknownAgent
<1>18. CASE AgentSucceeds
  BY <1>1, <1>18, CompleteTaskType, ContinueWithType DEF AgentSucceeds
<1>19. ASSUME NEW f \in FailureModes, AgentFails(f) PROVE TypeInv'
  <2> DEFINE q == FailTask(project, current, f.category, f.evidence)
  <2>1. f.category \in Categories /\ f.evidence \in SUBSET Evidence
    BY <1>2 DEF AllFailures, Categories
  <2>2. IsProject(q) /\ DOMAIN q.tasks = DOMAIN project.tasks
    BY <1>1, <2>1, FailTaskType
  <2>3. current \in DOMAIN project.tasks
    BY <1>19 DEF AgentFails, TypeInv, TypeOK
  <2>4. (SaveAs(q) /\ Stop) \/ HandleFailure(q, current, f.category, frontier)
    BY <1>19 DEF AgentFails
  <2> HIDE DEF q
  <2> QED BY <2>1, <2>2, <2>3, <2>4, StopType, HandleFailureType
<1>20. CASE Interrupt
  BY <1>1, <1>2, <1>20 DEF Interrupt, TypeInv, TypeOK, FrontierIsLocal, Points
<1>21. CASE Crash
  BY <1>1, <1>2, <1>21 DEF Crash, TypeInv, TypeOK, FrontierIsLocal, Points
<1>22. CASE Pause
  BY <1>1, <1>22, PauseResumeType, OperateType DEF Pause
<1>23. CASE Resume
  BY <1>1, <1>23, PauseResumeType, OperateType DEF Resume
<1>24. CASE Cancel
  BY <1>1, <1>24, CancelType, OperateType DEF Cancel
<1>25. CASE Replay
  <2>1. IsProject(ReplayProject(project))
    BY <1>1, ReplayType
  <2> QED BY <1>2, <1>25, <2>1
      DEF Replay, Operate, SaveAs, TypeInv, TypeOK, FrontierIsLocal, Points
<1>26. ASSUME NEW t \in DOMAIN project.tasks, Skip(t) PROVE TypeInv'
  BY <1>1, <1>26, SkipTaskType, OperateType, Vocabulary DEF Skip
<1>27. ASSUME NEW t \in DOMAIN project.tasks, Override(t) PROVE TypeInv'
  BY <1>1, <1>27, OverrideTaskType, OperateType DEF Override
<1>28. CASE UNCHANGED vars
  BY <1>28 DEF vars, TypeInv, TypeOK, FrontierIsLocal
<1> QED
  BY <1>5, <1>6, <1>7, <1>8, <1>9, <1>10, <1>11, <1>12, <1>13, <1>14, <1>15, <1>16,
     <1>17, <1>18, <1>19, <1>20, <1>21, <1>22, <1>23, <1>24, <1>25, <1>26, <1>27, <1>28
  DEF Next, Runtime, Agent, Fault, Operator

\* The strengthened type invariant holds of every behaviour.
LEMMA TypeInvHolds == Spec => []TypeInv
<1>1. Init => TypeInv
  <2> SUFFICES ASSUME Init PROVE TypeInv OBVIOUS
  <2> QED BY InitialType, PolicyAssumption DEF Init, TypeInv, TypeOK, FrontierIsLocal, Points
<1>2. TypeInv /\ [Next]_vars => TypeInv'
  BY TypeStep
<1> QED BY <1>1, <1>2, PTL DEF Spec

\* The state is well formed whatever happens (TypeOK): the tasks that a frontier
\* lists or an agent works on are tasks of the workflow even after a replay or a
\* crash, and every value that the methods store is of its kind.
THEOREM TypeCorrect == Spec => []TypeOK
<1>1. TypeInv => TypeOK
  BY DEF TypeInv
<1> QED BY <1>1, TypeInvHolds, PTL

-----------------------------------------------------------------------------
(* The life cycle.  Only the phase and the outcome of a project decide its *)
(* stage, and most methods leave both alone.                               *)

\* The stage of q is that of p.
SameStage(p, q) == q.phase = p.phase /\ q.outcome = p.outcome

\* A project whose phase and outcome are kept stays in its stage.
LEMMA StageKept ==
  ASSUME NEW p, NEW q, SameStage(p, q)
  PROVE  /\ StageOf(q) = StageOf(p)
         /\ Cancelled(q) = Cancelled(p) /\ Paused(q) = Paused(p)
BY DEF SameStage, StageOf, Cancelled, Paused

\* The stages that a pause, a cancellation and the rest amount to.
LEMMA StagesOfStatuses ==
  ASSUME NEW p
  PROVE  /\ StageOf(p) = "cancelled" <=> Cancelled(p)
         /\ StageOf(p) = "paused" <=> Paused(p) /\ ~Cancelled(p)
         /\ StageOf(p) \in {"open", "closed"} <=> ~Stopped(p)
         /\ StageOf(p) = "closed" <=> ~Stopped(p) /\ p.phase \in {"failed", "completed"}
         /\ StageOf(p) \in {"open", "paused", "cancelled", "closed"}
BY DEF StageOf, Stopped, Paused, Cancelled

-----------------------------------------------------------------------------
(* The methods that work on tasks leave the stage alone.                   *)

\* Replacing the task table alone keeps the stage.
LEMMA TasksKeepStage ==
  ASSUME NEW p, IsProject(p), NEW T
  PROVE  /\ SameStage(p, [p EXCEPT !.tasks = T])
         /\ SameStage(p, [p EXCEPT !.finished = FALSE, !.tasks = T])
         /\ SameStage(p, [p EXCEPT !.budget = MaxRepairCycles])
         /\ SameStage(p, StartCycle(p))
BY DEF SameStage, IsProject, ProjectRecord, StartCycle

\* The methods that move tasks keep the stage.
LEMMA TaskMethodsKeepStage ==
  ASSUME NEW p, IsProject(p), NEW i, NEW x, NEW y
  PROVE  /\ SameStage(p, StartTask(p, i))
         /\ SameStage(p, FailTask(p, i, x, y))
         /\ SameStage(p, CompleteTask(p, i))
         /\ SameStage(p, SkipTask(p, i, x))
         /\ SameStage(p, OverrideTask(p, i))
         /\ SameStage(p, SkipDependents(p, i))
         /\ SameStage(p, SkipSuperseded(p))
         /\ SameStage(p, ResumeInterrupted(p))
<1>1. SameStage(p, StartTask(p, i))      BY TasksKeepStage DEF StartTask
<1>2. SameStage(p, FailTask(p, i, x, y)) BY TasksKeepStage DEF FailTask
<1>3. SameStage(p, CompleteTask(p, i))   BY TasksKeepStage DEF CompleteTask
<1>4. SameStage(p, SkipTask(p, i, x))    BY TasksKeepStage DEF SkipTask
<1>5. SameStage(p, OverrideTask(p, i))   BY TasksKeepStage DEF OverrideTask
<1>6. SameStage(p, SkipDependents(p, i)) BY TasksKeepStage DEF SkipDependents
<1>7. SameStage(p, SkipSuperseded(p))    BY TasksKeepStage DEF SkipSuperseded
<1>8. SameStage(p, ResumeInterrupted(p))
  BY TasksKeepStage DEF ResumeInterrupted, SameStage
<1> QED BY <1>1, <1>2, <1>3, <1>4, <1>5, <1>6, <1>7, <1>8

\* Planning a repair cycle keeps the stage.
LEMMA RepairCycleKeepsStage ==
  ASSUME NEW p, IsProject(p), NEW F, F \subseteq DOMAIN p.tasks, NEW c \in Nat
  PROVE  SameStage(p, RepairCycle(p, F, c))
<1> DEFINE q == PlanRepairs(p, F, c)
<1>1. SameStage(p, q)
  BY TasksKeepStage DEF PlanRepairs
<1>2. IsProject(q)
  BY PlanRepairsType
<1> HIDE DEF q
<1>3. SameStage(q, ResumeFailed(q, F, CycleIds(p, F, c)))
  BY <1>2, TasksKeepStage DEF ResumeFailed
<1> QED BY <1>1, <1>3 DEF SameStage, RepairCycle, q

\* The methods that move the workflow move its stage as their names say.
LEMMA WorkflowMethodsMoveStage ==
  ASSUME NEW p, IsProject(p), NEW f
  PROVE  /\ StageOf(MarkRunning(p, MaxRepairCycles)) = "open"
         /\ StageOf(MarkFinished(p, "failed", "failed", f)) = "closed"
         /\ \A o \in {"completed", "degraded"} :
              StageOf(MarkFinished(p, "completed", o, f)) = "closed"
         /\ ~Cancelled(p) => StageOf(PauseProject(p)) = "paused"
         /\ Cancelled(p) /\ Paused(p) => StageOf(PauseProject(p)) = "cancelled"
         /\ ~Cancelled(p) => StageOf(ResumeProject(p)) = "open"
         /\ Cancelled(p) /\ Paused(p) => StageOf(ResumeProject(p)) = "cancelled"
         /\ StageOf(CancelProject(p)) = "cancelled"
         /\ StageOf(ReplayProject(p)) = "open"
<1>1. /\ StageOf(MarkRunning(p, MaxRepairCycles)) = "open"
      /\ StageOf(MarkFinished(p, "failed", "failed", f)) = "closed"
      /\ \A o \in {"completed", "degraded"} :
           StageOf(MarkFinished(p, "completed", o, f)) = "closed"
  BY DEF StageOf, MarkRunning, MarkFinished, Cancelled, Paused, IsProject, ProjectRecord
<1>2. /\ ~Cancelled(p) => StageOf(PauseProject(p)) = "paused"
      /\ Cancelled(p) /\ Paused(p) => StageOf(PauseProject(p)) = "cancelled"
  BY DEF StageOf, PauseProject, Cancelled, Paused, IsProject, ProjectRecord
<1>3. /\ ~Cancelled(p) => StageOf(ResumeProject(p)) = "open"
      /\ Cancelled(p) /\ Paused(p) => StageOf(ResumeProject(p)) = "cancelled"
  BY DEF StageOf, ResumeProject, Cancelled, Paused, IsProject, ProjectRecord
<1>4. StageOf(CancelProject(p)) = "cancelled"
  BY DEF StageOf, CancelProject, MarkFinished, Cancelled, IsProject, ProjectRecord
<1>5. StageOf(ReplayProject(p)) = "open"
  BY DEF StageOf, ReplayProject, InitialProject, Cancelled, Paused
<1> QED BY <1>1, <1>2, <1>3, <1>4, <1>5

-----------------------------------------------------------------------------
(* The refinement.  Two facts about the program points are needed besides  *)
(* types: repairs are never refused in a cancelled workflow, and agents are *)
(* only started in a workflow that the execution has opened.               *)

\* What the program points say of the stage.
PointsMatchStage ==
  /\ pc = "resume" => ~Cancelled(project)
  /\ pc \in {"loop", "frontier", "agent"} => StageOf(project) # "closed"

\* What is inductive.
StageInv == TypeInv /\ PointsMatchStage

\* A step of the life cycle, or a stutter.
AbstractStep == [Lifecycle!LifecycleNext]_(Lifecycle!lifecycle)

\* A step and what it leaves behind.
Refines == AbstractStep /\ PointsMatchStage'

\* A checkpoint of the runtime in an unchanged stage.
LEMMA SaveRefines ==
  ASSUME StageInv, NEW p, StageOf(p) = StageOf(project), SaveAs(p), pc # "idle",
         \/ pc' = "activate"
         \/ pc' = "frontier" /\ pc \in {"frontier", "agent"}
  PROVE  Refines
<1>1. Lifecycle!SaveProgress
  BY DEF Lifecycle!SaveProgress, SaveAs
<1>2. PointsMatchStage'
  BY DEF StageInv, PointsMatchStage, SaveAs
<1> QED BY <1>1, <1>2 DEF Refines, AbstractStep, Lifecycle!LifecycleNext

\* A step of the runtime that neither saves nor changes the stage.
LEMMA KeepRefines ==
  ASSUME StageInv, NEW p, StageOf(p) = StageOf(project), Keep(p),
         pc \notin {"idle", "agent"}, pc' \notin {"idle", "agent", "resume"},
         pc' \in {"loop", "frontier"} => StageOf(project) # "closed"
  PROVE  Refines
<1>1. UNCHANGED Lifecycle!lifecycle
  BY DEF Lifecycle!lifecycle, Keep
<1>2. PointsMatchStage'
  BY DEF PointsMatchStage, Keep
<1> QED BY <1>1, <1>2 DEF Refines, AbstractStep

\* The end of an execution.
LEMMA StopRefines ==
  ASSUME StageInv, NEW p, SaveAs(p), Stop, pc # "idle",
         \/ StageOf(p) = StageOf(project) /\ Stopped(project)
         \/ StageOf(p) = "closed" /\ ~Cancelled(project)
  PROVE  Refines
<1>1. Lifecycle!End
  BY StagesOfStatuses DEF Lifecycle!End, SaveAs, Stop, Goto, Stopped
<1>2. PointsMatchStage'
  BY DEF PointsMatchStage, Stop, Goto
<1> QED BY <1>1, <1>2 DEF Refines, AbstractStep, Lifecycle!LifecycleNext

\* The end of an execution with the workflow failed.
LEMMA StopFailedRefines ==
  ASSUME StageInv, NEW p, IsProject(p), NEW f, StopFailed(p, f), pc # "idle",
         ~Cancelled(project)
  PROVE  Refines
BY WorkflowMethodsMoveStage, StopRefines DEF StopFailed

\* An operator's call that moves the stage as a command may.
LEMMA OperateRefines ==
  ASSUME StageInv, NEW p, NEW points, points \subseteq Callable, Operate(points, p),
         \/ StageOf(p) = StageOf(project)
         \/ ~Cancelled(project) /\ StageOf(p) \in {"paused", "cancelled"}
         \/ StageOf(project) = "paused" /\ StageOf(p) = "open"
         \/ pc = "idle" /\ StageOf(p) = "open"
  PROVE  Refines
<1>1. Lifecycle!Command
  BY StagesOfStatuses DEF Lifecycle!Command, Operate, SaveAs
<1>2. PointsMatchStage'
  BY DEF StageInv, PointsMatchStage, Operate, SaveAs, Callable
<1> QED BY <1>1, <1>2 DEF Refines, AbstractStep, Lifecycle!LifecycleNext

\* Every way in which dispatch_task_failure may decide.
LEMMA HandleFailureRefines ==
  ASSUME StageInv, NEW p, IsProject(p), SameStage(project, p), ~Cancelled(project),
         NEW t \in DOMAIN p.tasks, NEW category, NEW left,
         HandleFailure(p, t, category, left), pc \in {"frontier", "agent"}
  PROVE  Refines
<1>1. ASSUME NEW q, ContinueWith(q, left), SameStage(p, q) PROVE Refines
  <2>1. StageOf(q) = StageOf(project)
    BY <1>1, StageKept
  <2> QED BY <1>1, <2>1, SaveRefines DEF ContinueWith, Goto
<1>2. SameStage(p, p)
  BY DEF SameStage
<1>3. SameStage(p, RepairCycle(p, {t}, p.cycles))
  <2>1. {t} \subseteq DOMAIN p.tasks /\ p.cycles \in Nat
    BY DEF IsProject, ProjectRecord
  <2> QED BY <2>1, RepairCycleKeepsStage
<1>4. SameStage(p, SkipDependents(p, t))
  BY TaskMethodsKeepStage
<1>5. CASE StopFailed(p, category)
  BY <1>5, StopFailedRefines
<1> QED BY <1>1, <1>2, <1>3, <1>4, <1>5 DEF HandleFailure

\* Every step is a step or a stutter of the life cycle.
LEMMA StepRefines ==
  ASSUME StageInv, [Next]_vars
  PROVE  Refines
<1> DEFINE p == ResumeInterrupted(project)
           s == SkipSuperseded(project)
<1>1. IsProject(project) /\ IsProject(disk)
  BY DEF StageInv, TypeInv, TypeOK
<1>2. /\ IsProject(p) /\ SameStage(project, p) /\ DOMAIN p.tasks = DOMAIN project.tasks
      /\ IsProject(s) /\ SameStage(project, s)
  BY <1>1, ResumeInterruptedType, SkipSupersededType, TaskMethodsKeepStage
<1>3. /\ StageOf(p) = StageOf(project) /\ Cancelled(p) = Cancelled(project)
      /\ StageOf(s) = StageOf(project)
  BY <1>2, StageKept
<1> HIDE DEF p, s
<1>4. CASE Execute
  <2> DEFINE q == [project EXCEPT !.budget = MaxRepairCycles]
  <2>1. StageOf(q) = StageOf(project) /\ Cancelled(q) = Cancelled(project)
    BY <1>1, TasksKeepStage, StageKept
  <2> HIDE DEF q
  <2>2. CASE SaveAs(project) /\ Goto("idle") /\ pc = "idle"
    <3>1. Lifecycle!Command
      BY <2>2 DEF Lifecycle!Command, SaveAs, Goto
    <3>2. PointsMatchStage'
      BY <2>2 DEF PointsMatchStage, Goto
    <3> QED BY <3>1, <3>2 DEF Refines, AbstractStep, Lifecycle!LifecycleNext
  <2>3. CASE ~Cancelled(project) /\ Keep(q) /\ Goto("resume") /\ pc = "idle"
    <3>1. Lifecycle!Begin
      BY <2>1, <2>3, StagesOfStatuses DEF Lifecycle!Begin, Keep, Goto
    <3>2. PointsMatchStage'
      BY <2>1, <2>3 DEF PointsMatchStage, Keep, Goto
    <3> QED BY <3>1, <3>2 DEF Refines, AbstractStep, Lifecycle!LifecycleNext
  <2> QED BY <1>4, <2>2, <2>3 DEF Execute, q
<1>5. CASE ResumeWithoutRepair
  <2>1. pc = "resume" /\ pc' = "activate" /\ (Keep(p) \/ SaveAs(p))
    BY <1>5 DEF ResumeWithoutRepair, Goto, p
  <2> QED BY <1>3, <2>1, SaveRefines, KeepRefines
<1>6. CASE RefuseRepair
  <2>1. pc = "resume" /\ (StopFailed(p, "sandbox") \/ StopFailed(p, "repair_budget_exhausted"))
    BY <1>6 DEF RefuseRepair, p
  <2>2. ~Cancelled(project)
    BY <2>1 DEF StageInv, PointsMatchStage
  <2> QED BY <1>2, <2>1, <2>2, StopFailedRefines
<1>7. CASE ResumeWithRepair
  <2> DEFINE F == FailedForRepair(p)
             q == StartCycle(p)
             r == RepairCycle(q, F, q.cycles)
  <2>1. IsProject(q) /\ q.tasks = p.tasks /\ q.cycles \in Nat /\ SameStage(p, q)
    BY <1>2, StartCycleType, TasksKeepStage DEF IsProject, ProjectRecord
  <2>2. F \subseteq DOMAIN q.tasks
    BY <2>1 DEF FailedForRepair, WithStatus
  <2>3. pc = "resume" /\ pc' = "activate" /\ SaveAs(r)
    BY <1>7 DEF ResumeWithRepair, Goto, p
  <2> HIDE DEF F, q
  <2>4. SameStage(q, r)
    BY <2>1, <2>2, RepairCycleKeepsStage
  <2>5. StageOf(r) = StageOf(project)
    BY <1>3, <2>1, <2>4, StageKept
  <2> HIDE DEF r
  <2> QED BY <2>3, <2>5, SaveRefines
<1>8. CASE Activate
  <2>1. CASE Stopped(project)
    BY <1>8, <2>1, StopRefines DEF Activate
  <2>2. CASE /\ ~Stopped(project) /\ project.phase = "execution"
             /\ Keep(project) /\ pc = "activate" /\ pc' = "loop"
    <3>1. StageOf(project) # "closed"
      BY <2>2, StagesOfStatuses
    <3> QED BY <2>2, <3>1, KeepRefines
  <2>3. CASE /\ ~Stopped(project) /\ pc = "activate" /\ pc' = "loop"
             /\ Keep(MarkRunning(project, MaxRepairCycles))
    <3>1. StageOf(project)' = "open"
      BY <1>1, <2>3, WorkflowMethodsMoveStage DEF Keep
    <3>2. PointsMatchStage'
      BY <2>3, <3>1 DEF PointsMatchStage
    <3>3. StageOf(project) \in {"open", "closed"} /\ UNCHANGED StageOf(disk)
      BY <2>3, StagesOfStatuses DEF Keep
    <3>4. Lifecycle!Reopen \/ UNCHANGED Lifecycle!lifecycle
      BY <2>3, <3>1, <3>3 DEF Lifecycle!Reopen, Lifecycle!lifecycle
    <3> QED BY <3>2, <3>4 DEF Refines, AbstractStep, Lifecycle!LifecycleNext
  <2> QED BY <1>8, <2>1, <2>2, <2>3 DEF Activate, EnsureRunning, Goto
<1>9. CASE LoopExit
  <2>1. pc = "loop" /\ Stop /\ Stopped(project) /\ (SaveAs(project) \/ SaveAs(s))
    BY <1>9 DEF LoopExit, Stopped, s
  <2> QED BY <1>3, <2>1, StopRefines
<1>10. CASE Finish
  <2> DEFINE outcome == IF Accepted(s) THEN "completed" ELSE "degraded"
             q == MarkFinished(s, "completed", outcome, "none")
  <2>1. pc = "loop" /\ ~Cancelled(project) /\ SaveAs(q) /\ Stop
    BY <1>10 DEF Finish, s
  <2>2. StageOf(q) = "closed"
    BY <1>2, WorkflowMethodsMoveStage
  <2> HIDE DEF q
  <2> QED BY <2>1, <2>2, StopRefines
<1>11. CASE Blocked
  <2>1. pc = "loop" /\ ~Cancelled(project) /\ \E f \in {"blocked", "definition"} : StopFailed(s, f)
    BY <1>11 DEF Blocked, Stopped, s
  <2> QED BY <1>2, <2>1, StopFailedRefines
<1>12. CASE SelectFrontier
  <2>1. pc = "loop" /\ pc' = "frontier" /\ Keep(s)
    BY <1>12 DEF SelectFrontier, Goto, s
  <2> QED BY <1>3, <2>1, KeepRefines DEF StageInv, PointsMatchStage
<1>13. CASE FrontierDone
  <2>1. pc = "frontier" /\ pc' = "loop" /\ Keep(project)
    BY <1>13 DEF FrontierDone, Goto, Keep
  <2> QED BY <2>1, KeepRefines DEF StageInv, PointsMatchStage
<1>14. CASE FrontierExit
  BY <1>14, StopRefines DEF FrontierExit
<1>15. ASSUME NEW t \in frontier, Dispatch(t) PROVE Refines
  <2>1. StageOf(StartTask(project, t)) = StageOf(project)
    BY <1>1, TaskMethodsKeepStage, StageKept
  <2>2. StageOf(project) = "open"
    BY <1>15, StagesOfStatuses DEF Dispatch, StageInv, PointsMatchStage
  <2>3. Lifecycle!StartAgent /\ PointsMatchStage'
    BY <1>15, <2>1, <2>2 DEF Dispatch, Lifecycle!StartAgent, Keep, Goto, PointsMatchStage
  <2> QED BY <2>3 DEF Refines, AbstractStep, Lifecycle!LifecycleNext
<1>16. ASSUME NEW t \in frontier, DispatchUnknownAgent(t) PROVE Refines
  <2>1. t \in DOMAIN project.tasks /\ SameStage(project, project)
    BY DEF StageInv, TypeInv, TypeOK, SameStage
  <2> QED BY <1>1, <1>16, <2>1, HandleFailureRefines DEF DispatchUnknownAgent, Stopped
<1>17. CASE AgentSucceeds
  <2>1. StageOf(CompleteTask(project, current)) = StageOf(project)
    BY <1>1, TaskMethodsKeepStage, StageKept
  <2> QED BY <1>17, <2>1, SaveRefines DEF AgentSucceeds, ContinueWith, Goto
<1>18. ASSUME NEW f \in FailureModes, AgentFails(f) PROVE Refines
  <2> DEFINE q == FailTask(project, current, f.category, f.evidence)
  <2>1. f.category \in Categories /\ f.evidence \in SUBSET Evidence
    BY PolicyAssumption DEF AllFailures, Categories
  <2>2. /\ IsProject(q) /\ SameStage(project, q)
        /\ StageOf(q) = StageOf(project) /\ Cancelled(q) = Cancelled(project)
        /\ DOMAIN q.tasks = DOMAIN project.tasks
    BY <1>1, <2>1, FailTaskType, TaskMethodsKeepStage, StageKept
  <2>3. pc = "agent" /\ current \in DOMAIN project.tasks
    BY <1>18 DEF AgentFails, StageInv, TypeInv, TypeOK
  <2>4. \/ Cancelled(q) /\ SaveAs(q) /\ Stop
        \/ ~Cancelled(q) /\ HandleFailure(q, current, f.category, frontier)
    BY <1>18 DEF AgentFails
  <2> HIDE DEF q
  <2> QED BY <2>2, <2>3, <2>4, StopRefines, HandleFailureRefines DEF Stopped
<1>19. CASE Interrupt \/ Crash
  <2>1. Lifecycle!Abort /\ PointsMatchStage'
    BY <1>19 DEF Interrupt, Crash, Lifecycle!Abort, PointsMatchStage
  <2> QED BY <2>1 DEF Refines, AbstractStep, Lifecycle!LifecycleNext
<1>20. CASE Pause
  <2>1. Cancelled(project) => Paused(project)
    BY <1>20 DEF Pause, CanPause, WorkflowStatus
  <2>2. \/ StageOf(PauseProject(project)) = StageOf(project)
        \/ ~Cancelled(project) /\ StageOf(PauseProject(project)) = "paused"
    BY <1>1, <2>1, WorkflowMethodsMoveStage, StagesOfStatuses
  <2> QED BY <1>20, <2>2, OperateRefines DEF Pause
<1>21. CASE Resume
  <2>1. \/ StageOf(ResumeProject(project)) = StageOf(project)
        \/ StageOf(project) = "paused" /\ StageOf(ResumeProject(project)) = "open"
    BY <1>1, <1>21, WorkflowMethodsMoveStage, StagesOfStatuses DEF Resume
  <2> QED BY <1>21, <2>1, OperateRefines DEF Resume
<1>22. CASE Cancel
  <2>1. \/ StageOf(CancelProject(project)) = StageOf(project)
        \/ ~Cancelled(project) /\ StageOf(CancelProject(project)) = "cancelled"
    BY <1>1, WorkflowMethodsMoveStage, StagesOfStatuses
  <2> QED BY <1>22, <2>1, OperateRefines DEF Cancel
<1>23. CASE Replay
  <2>1. StageOf(ReplayProject(project)) = "open"
    BY <1>1, WorkflowMethodsMoveStage
  <2>2. pc = "idle" /\ Operate({"idle"}, ReplayProject(project)) /\ {"idle"} \subseteq Callable
    BY <1>23 DEF Replay, Operate, Callable
  <2> QED BY <2>1, <2>2, OperateRefines
<1>24. ASSUME NEW t, Skip(t) \/ Override(t) PROVE Refines
  <2>1. /\ StageOf(SkipTask(project, t, "manual")) = StageOf(project)
        /\ StageOf(OverrideTask(project, t)) = StageOf(project)
    BY <1>1, TaskMethodsKeepStage, StageKept
  <2> QED BY <1>24, <2>1, OperateRefines DEF Skip, Override
<1>25. CASE UNCHANGED vars
  BY <1>25 DEF vars, Refines, AbstractStep, Lifecycle!lifecycle, StageInv, PointsMatchStage
<1> QED
  BY <1>4, <1>5, <1>6, <1>7, <1>8, <1>9, <1>10, <1>11, <1>12, <1>13, <1>14, <1>15, <1>16,
     <1>17, <1>18, <1>19, <1>20, <1>21, <1>22, <1>23, <1>24, <1>25
  DEF Next, Runtime, Agent, Fault, Operator

-----------------------------------------------------------------------------
\* The runtime implements the life cycle: whatever the tasks, the policies and
\* the bounds, execute_workflow, the operator's calls, interrupts and crashes
\* move the stage in memory and the stage on disk as WorkflowLifecycle allows.
THEOREM Refinement == Spec => ImplementsLifecycle
<1>1. Init => Lifecycle!LifecycleInit /\ PointsMatchStage
  BY DEF Init, Lifecycle!LifecycleInit, PointsMatchStage, InitialProject,
         StageOf, Cancelled, Paused
<1>2. TypeInv /\ PointsMatchStage /\ [Next]_vars => AbstractStep /\ PointsMatchStage'
  BY StepRefines DEF StageInv, Refines
<1> QED
  BY <1>1, <1>2, TypeInvHolds, PTL
  DEF Spec, ImplementsLifecycle, Lifecycle!LifecycleSpec, AbstractStep

\* A pause or a cancellation that was acknowledged is in the state file, and so
\* survives every crash; a cancellation that was undone is not left there.
THEOREM OperatorWord == Spec => []OperatorWordIsDurable
<1>1. Lifecycle!LifecycleInit => OperatorWordIsDurable
  BY DEF Lifecycle!LifecycleInit, OperatorWordIsDurable, Lifecycle!OperatorWordIsDurable
<1>2. OperatorWordIsDurable /\ AbstractStep => OperatorWordIsDurable'
  BY DEF OperatorWordIsDurable, AbstractStep, Lifecycle!OperatorWordIsDurable,
         Lifecycle!LifecycleNext, Lifecycle!lifecycle, Lifecycle!Begin, Lifecycle!Reopen,
         Lifecycle!StartAgent, Lifecycle!SaveProgress, Lifecycle!End,
         Lifecycle!Command, Lifecycle!Abort
<1> QED
  BY <1>1, <1>2, Refinement, PTL
  DEF ImplementsLifecycle, Lifecycle!LifecycleSpec, AbstractStep

-----------------------------------------------------------------------------
(* Safety of executions.                                                   *)

\* The tasks that are marked running.
Running(p) == WithStatus(p, {"running"})

-----------------------------------------------------------------------------
(* Which methods mark a task running: only starting it.                    *)

\* The status that each change of a record leaves.
LEMMA StatusOfRecords ==
  ASSUME NEW r \in TaskRecord, NEW s \in Statuses, NEW c, NEW e, NEW k, NEW x
  PROVE  /\ StartedRecord(r).status = "running"
         /\ FailedRecord(r, s, c, e).status = s
         /\ SkippedRecord(r, k, x).status = "skipped"
         /\ DoneRecord(r, x).status = "done"
         /\ [r EXCEPT !.attempts = @ + 1].status = r.status
         /\ [r EXCEPT !.status = "pending", !.category = "none"].status = "pending"
         /\ [r EXCEPT !.deps = e, !.context = x].status = r.status
         /\ [DoneRecord(r, x) EXCEPT !.skip = k].status = "done"
         /\ [r EXCEPT !.status = "pending", !.category = "none", !.evidence = {},
                      !.skip = "none", !.context = x].status = "pending"
BY DEF StartedRecord, FailedRecord, SkippedRecord, DoneRecord, TaskRecord

\* A table is replaced by one in which only the tasks of S may be newly running.
LEMMA RunningOfTable ==
  ASSUME NEW p, IsProject(p), NEW T, NEW q, q.tasks = T, NEW S,
         \A j \in DOMAIN T :
           T[j].status = "running" => j \in S
  PROVE  Running(q) \subseteq S
BY DEF Running, WithStatus

\* start_task marks the task it starts, and no other.
LEMMA StartRuns ==
  ASSUME NEW p, IsProject(p), NEW i
  PROVE  /\ Running(StartTask(p, i)) \subseteq Running(p) \cup {i}
         /\ i \in DOMAIN p.tasks => i \in Running(StartTask(p, i))
<1> DEFINE T == [j \in DOMAIN p.tasks |->
                   IF j = i THEN StartedRecord(p.tasks[j])
                   ELSE IF Repairs(i, j) THEN [p.tasks[j] EXCEPT !.attempts = @ + 1]
                   ELSE p.tasks[j]]
<1>1. StartTask(p, i).tasks = T
  BY TableOf DEF StartTask
<1>2. ASSUME NEW j \in DOMAIN p.tasks
      PROVE  /\ j = i => T[j].status = "running"
             /\ j # i => T[j].status = p.tasks[j].status
  <2>1. p.tasks[j] \in TaskRecord BY Entry
  <2> QED BY <2>1, StatusOfRecords, Vocabulary
<1> HIDE DEF T
<1>3. DOMAIN T = DOMAIN p.tasks BY DEF T
<1> QED BY <1>1, <1>2, <1>3 DEF Running, WithStatus

\* fail_task and complete_task unmark the task they end.
LEMMA EndOfAttemptRuns ==
  ASSUME NEW p, IsProject(p), NEW i, NEW category, NEW evidence
  PROVE  /\ Running(FailTask(p, i, category, evidence)) \subseteq Running(p) \ {i}
         /\ Running(CompleteTask(p, i)) \subseteq Running(p) \ {i}
<1>1. Running(FailTask(p, i, category, evidence)) \subseteq Running(p) \ {i}
  <2> DEFINE T == FailTask(p, i, category, evidence).tasks
             status == IF ~RetriesLeft(p, i) THEN "failed" ELSE "pending"
             Left(j) == IF ~RetriesLeft(p, i) THEN evidence ELSE p.tasks[j].evidence
  <2>1. T = [j \in DOMAIN p.tasks |->
               IF j = i THEN FailedRecord(p.tasks[j], status, category, Left(j))
               ELSE IF Repairs(i, j) THEN FailedRecord(p.tasks[j], "failed", category, Left(j))
               ELSE p.tasks[j]]
    BY TableOf DEF FailTask
  <2>2. ASSUME NEW j \in DOMAIN T, T[j].status = "running"
        PROVE  j \in Running(p) \ {i}
    <3>1. j \in DOMAIN p.tasks BY <2>1
    <3>2. p.tasks[j] \in TaskRecord BY <3>1, Entry
    <3>3. status \in {"failed", "pending"} /\ status \in Statuses /\ "failed" \in Statuses
      BY Vocabulary
    <3> HIDE DEF T, status, Left
    <3>4. /\ FailedRecord(p.tasks[j], status, category, Left(j)).status = status
          /\ FailedRecord(p.tasks[j], "failed", category, Left(j)).status = "failed"
      BY <3>2, <3>3, StatusOfRecords
    <3> QED BY <2>1, <2>2, <3>1, <3>3, <3>4 DEF Running, WithStatus
  <2> QED BY <2>2, RunningOfTable
<1>2. Running(CompleteTask(p, i)) \subseteq Running(p) \ {i}
  <2> DEFINE T == CompleteTask(p, i).tasks
             X(j) == IF IsRepair(i) THEN p.tasks[j].context ELSE NoContext
  <2>1. T = [j \in DOMAIN p.tasks |->
               IF j = i THEN DoneRecord(p.tasks[j], X(j))
               ELSE IF Repairs(i, j) THEN DoneRecord(p.tasks[j], NoContext)
               ELSE IF /\ HasOrigin(p, i) /\ IsRepair(j) /\ Origin(j) = Origin(i)
                       /\ p.tasks[j].status = "pending"
                 THEN SkippedRecord(p.tasks[j], "superseded_repair", p.tasks[j].context)
               ELSE p.tasks[j]]
    BY TableOf DEF CompleteTask
  <2>2. ASSUME NEW j \in DOMAIN T, T[j].status = "running"
        PROVE  j \in Running(p) \ {i}
    <3>1. j \in DOMAIN p.tasks BY <2>1
    <3>2. p.tasks[j] \in TaskRecord BY <3>1, Entry
    <3> HIDE DEF T, X
    <3>3. /\ DoneRecord(p.tasks[j], X(j)).status = "done"
          /\ DoneRecord(p.tasks[j], NoContext).status = "done"
          /\ SkippedRecord(p.tasks[j], "superseded_repair", p.tasks[j].context).status = "skipped"
      BY <3>2 DEF DoneRecord, SkippedRecord, TaskRecord
    <3> QED BY <2>1, <2>2, <3>1, <3>3 DEF Running, WithStatus
  <2> QED BY <2>2, RunningOfTable
<1> QED BY <1>1, <1>2

\* The other methods mark no task running.
LEMMA OthersRun ==
  ASSUME NEW p, IsProject(p), NEW i, NEW x, NEW y
  PROVE  /\ Running(SkipTask(p, i, x)) \subseteq Running(p)
         /\ Running(OverrideTask(p, i)) \subseteq Running(p)
         /\ Running(SkipDependents(p, i)) \subseteq Running(p)
         /\ Running(SkipSuperseded(p)) \subseteq Running(p)
         /\ Running(CancelProject(p)) \subseteq Running(p)
         /\ Running(ResumeInterrupted(p)) = {}
<1>0. ASSUME NEW j \in DOMAIN p.tasks PROVE p.tasks[j] \in TaskRecord
  BY Entry
<1>1. Running(SkipTask(p, i, x)) \subseteq Running(p)
  <2>1. SkipTask(p, i, x).tasks = [p.tasks EXCEPT ![i] = SkippedRecord(p.tasks[i], x, NoContext)]
    BY TableOf DEF SkipTask
  <2>2. i \in DOMAIN p.tasks => SkippedRecord(p.tasks[i], x, NoContext).status = "skipped"
    BY <1>0 DEF SkippedRecord, TaskRecord
  <2> QED BY <2>1, <2>2 DEF Running, WithStatus
<1>2. Running(OverrideTask(p, i)) \subseteq Running(p)
  <2> DEFINE r == [DoneRecord(p.tasks[i], NoContext) EXCEPT !.skip = "none"]
  <2>1. OverrideTask(p, i).tasks = [p.tasks EXCEPT ![i] = r]
    BY TableOf DEF OverrideTask
  <2>2. i \in DOMAIN p.tasks => r.status = "done"
    BY <1>0 DEF DoneRecord, TaskRecord
  <2> HIDE DEF r
  <2> QED BY <2>1, <2>2 DEF Running, WithStatus
<1>3. Running(SkipDependents(p, i)) \subseteq Running(p)
  <2> DEFINE doomed == Descendants(p, i) \cap Pending(p)
  <2>1. SkipDependents(p, i).tasks =
          [j \in DOMAIN p.tasks |->
             IF j \in doomed THEN SkippedRecord(p.tasks[j], "dependency_failed", NoContext)
             ELSE p.tasks[j]]
    BY TableOf DEF SkipDependents
  <2>2. ASSUME NEW j \in DOMAIN p.tasks
        PROVE  SkippedRecord(p.tasks[j], "dependency_failed", NoContext).status = "skipped"
    BY <1>0 DEF SkippedRecord, TaskRecord
  <2> HIDE DEF doomed
  <2> QED BY <2>1, <2>2 DEF Running, WithStatus
<1>4. Running(SkipSuperseded(p)) \subseteq Running(p)
  <2> DEFINE over(j) == p.tasks[j].status = "pending" /\ OriginDone(p, j) /\ ~StillRequired(p, j)
  <2>1. SkipSuperseded(p).tasks =
          [j \in DOMAIN p.tasks |->
             IF over(j) THEN SkippedRecord(p.tasks[j], "superseded_repair", p.tasks[j].context)
             ELSE p.tasks[j]]
    BY TableOf DEF SkipSuperseded
  <2>2. ASSUME NEW j \in DOMAIN p.tasks
        PROVE  SkippedRecord(p.tasks[j], "superseded_repair", p.tasks[j].context).status = "skipped"
    BY <1>0 DEF SkippedRecord, TaskRecord
  <2> HIDE DEF over
  <2> QED BY <2>1, <2>2 DEF Running, WithStatus
<1>5. Running(CancelProject(p)) \subseteq Running(p)
  <2> DEFINE T == [j \in DOMAIN p.tasks |->
                     IF p.tasks[j].status = "pending"
                       THEN SkippedRecord(p.tasks[j], "workflow_cancelled", p.tasks[j].context)
                       ELSE p.tasks[j]]
  <2>1. CancelProject(p).tasks = T
    BY DEF CancelProject, MarkFinished, IsProject, ProjectRecord
  <2>2. ASSUME NEW j \in DOMAIN p.tasks
        PROVE  SkippedRecord(p.tasks[j], "workflow_cancelled", p.tasks[j].context).status = "skipped"
    BY <1>0 DEF SkippedRecord, TaskRecord
  <2> QED BY <2>1, <2>2 DEF Running, WithStatus
<1>6. Running(ResumeInterrupted(p)) = {}
  <2> DEFINE T == [j \in DOMAIN p.tasks |->
                     IF j \in WithStatus(p, {"running"})
                       THEN [p.tasks[j] EXCEPT !.status = "pending", !.category = "none"]
                       ELSE p.tasks[j]]
  <2>1. CASE Running(p) = {}
    BY <2>1 DEF Running, ResumeInterrupted
  <2>2. CASE Running(p) # {}
    <3>1. ResumeInterrupted(p).tasks = T
      BY <2>2, TableOf DEF ResumeInterrupted, Running
    <3>2. ASSUME NEW j \in DOMAIN p.tasks
          PROVE  [p.tasks[j] EXCEPT !.status = "pending", !.category = "none"].status = "pending"
      BY <1>0 DEF TaskRecord
    <3> QED BY <3>1, <3>2 DEF Running, WithStatus
  <2> QED BY <2>1, <2>2
<1> QED BY <1>1, <1>2, <1>3, <1>4, <1>5, <1>6

\* Requeuing tasks makes them pending, and nothing else.
LEMMA ResumeFailedRequeues ==
  ASSUME NEW p, IsProject(p), NEW x, NEW y, NEW S, "pending" \notin S
  PROVE  WithStatus(ResumeFailed(p, x, y), S) \subseteq WithStatus(p, S)
<1> DEFINE named == y \cap WithStatus(p, {"done", "failed", "skipped"})
           again == named \cup Freed(p, x \cup named)
           r(j) == [p.tasks[j] EXCEPT
                      !.status = "pending", !.category = "none", !.evidence = {},
                      !.skip = "none", !.context = IF j \in named THEN @ ELSE NoContext]
<1>1. ResumeFailed(p, x, y).tasks =
        [j \in DOMAIN p.tasks |-> IF j \in again THEN r(j) ELSE p.tasks[j]]
  BY TableOf DEF ResumeFailed
<1>2. ASSUME NEW j \in DOMAIN p.tasks PROVE r(j).status = "pending"
  BY Entry DEF TaskRecord
<1> HIDE DEF again, r
<1> QED BY <1>1, <1>2 DEF WithStatus

\* So does a repair cycle, whose new tasks are pending, too.
LEMMA RepairCycleRequeues ==
  ASSUME NEW p, IsProject(p), NEW F, F \subseteq DOMAIN p.tasks, NEW c \in Nat,
         NEW S, "pending" \notin S
  PROVE  WithStatus(RepairCycle(p, F, c), S) \subseteq WithStatus(p, S)
<1> DEFINE q == PlanRepairs(p, F, c)
           D == DOMAIN p.tasks \cup CycleIds(p, F, c)
           Base(i) == IF i \in DOMAIN p.tasks THEN p.tasks[i]
                      ELSE NewTask(InheritedDeps(p, TargetOf(p, F, c, i)))
           Context(i) == IF i \in RepairIds(p, F, c) THEN NewContext(p, F, Origin(i))
                         ELSE IF i \in Targets(p, F) THEN NewContext(p, F, i)
                         ELSE Base(i).context
           E(i) == [Base(i) EXCEPT !.deps = @ \cup AddedDeps(p, F, c, i),
                                   !.context = Context(i)]
           T == [i \in D |-> E(i)]
<1>1. IsProject(q)
  <2>1. F \in SUBSET DOMAIN p.tasks OBVIOUS
  <2> QED BY <2>1, PlanRepairsType
<1>2. q.tasks = T
  <2>1. q = [p EXCEPT !.tasks = T]
    BY DEF PlanRepairs
  <2> HIDE DEF T, q
  <2> QED BY <2>1, TableOf
<1>3. ASSUME NEW i \in D
      PROVE  E(i).status = IF i \in DOMAIN p.tasks THEN p.tasks[i].status ELSE "pending"
  <2>1. CASE i \in DOMAIN p.tasks
    <3>1. Base(i) \in TaskRecord /\ Base(i) = p.tasks[i]
      BY <2>1, Entry
    <3> HIDE DEF Base, Context
    <3> QED BY <2>1, <3>1 DEF TaskRecord
  <2>2. CASE i \notin DOMAIN p.tasks
    <3>1. Base(i).status = "pending" /\ "status" \in DOMAIN Base(i)
      BY <2>2 DEF NewTask
    <3> HIDE DEF Base, Context
    <3> QED BY <2>2, <3>1
  <2> QED BY <2>1, <2>2
<1> HIDE DEF E, q
<1>4. WithStatus(q, S) \subseteq WithStatus(p, S)
  BY <1>2, <1>3 DEF WithStatus
<1>5. WithStatus(ResumeFailed(q, F, CycleIds(p, F, c)), S) \subseteq WithStatus(q, S)
  BY <1>1, ResumeFailedRequeues
<1> QED BY <1>4, <1>5 DEF RepairCycle, q

\* In particular, it marks no task running.
LEMMA RepairCycleRuns ==
  ASSUME NEW p, IsProject(p), NEW F, F \subseteq DOMAIN p.tasks, NEW c \in Nat
  PROVE  Running(RepairCycle(p, F, c)) \subseteq Running(p)
BY RepairCycleRequeues DEF Running

-----------------------------------------------------------------------------
(* Tasks marked running.                                                   *)

\* A task is marked running only while its agent is: what an interrupt leaves
\* behind is unsaved until the next execution requeues it.
AttemptsInv ==
  /\ NoOrphanRunning
  /\ IdleIsDurable
  /\ pc = "agent" => project = disk \/ current \in Running(project)

\* The end of an attempt after which nothing is left running.
LEMMA ContinueWithAttempts ==
  ASSUME TypeInv, AttemptsInv, NEW p, NEW left, ContinueWith(p, left), Running(p) = {}
  PROVE  AttemptsInv'
BY DEF AttemptsInv, NoOrphanRunning, IdleIsDurable, ContinueWith, SaveAs, Goto, Running, WithStatus

\* The end of an execution, which saves.
LEMMA StopAttempts ==
  ASSUME NEW p, SaveAs(p), Stop
  PROVE  AttemptsInv'
BY DEF AttemptsInv, NoOrphanRunning, IdleIsDurable, SaveAs, Stop, Goto

\* A step of the runtime between two attempts.
LEMMA MoveAttempts ==
  ASSUME NEW p, SaveAs(p) \/ Keep(p), Running(p) = {},
         NEW point \in {"resume", "activate", "loop", "frontier"}, Goto(point)
  PROVE  AttemptsInv'
BY DEF AttemptsInv, NoOrphanRunning, IdleIsDurable, SaveAs, Keep, Goto, Running, WithStatus

\* An operator's call that marks no task running.
LEMMA OperateAttempts ==
  ASSUME AttemptsInv, NEW p, NEW points, Operate(points, p), points \subseteq Callable,
         Running(p) \subseteq Running(project)
  PROVE  AttemptsInv'
BY DEF AttemptsInv, NoOrphanRunning, IdleIsDurable, SaveAs, Operate, Callable, Running, WithStatus

\* Every way in which dispatch_task_failure may decide.
LEMMA HandleFailureAttempts ==
  ASSUME TypeInv, AttemptsInv, NEW p, IsProject(p), Running(p) = {},
         NEW t \in DOMAIN p.tasks, NEW category, NEW left, HandleFailure(p, t, category, left)
  PROVE  AttemptsInv'
<1>1. CASE ContinueWith(p, left)
  BY <1>1, ContinueWithAttempts
<1>2. CASE ContinueWith(RepairCycle(p, {t}, p.cycles), left)
  <2>1. {t} \subseteq DOMAIN p.tasks /\ p.cycles \in Nat
    BY DEF IsProject, ProjectRecord
  <2>2. Running(RepairCycle(p, {t}, p.cycles)) \subseteq Running(p)
    BY <2>1, RepairCycleRuns
  <2> QED BY <1>2, <2>2, ContinueWithAttempts
<1>3. CASE ContinueWith(SkipDependents(p, t), left)
  <2>1. Running(SkipDependents(p, t)) \subseteq Running(p)
    BY OthersRun
  <2> QED BY <1>3, <2>1, ContinueWithAttempts
<1>4. CASE StopFailed(p, category)
  BY <1>4, StopAttempts DEF StopFailed
<1> QED BY <1>1, <1>2, <1>3, <1>4 DEF HandleFailure

\* Every step keeps the invariant of attempts.
LEMMA AttemptsStep ==
  ASSUME TypeInv, AttemptsInv, [Next]_vars
  PROVE  AttemptsInv'
<1> DEFINE p == ResumeInterrupted(project)
           s == SkipSuperseded(project)
<1>1. IsProject(project) /\ IsProject(disk)
  BY DEF TypeInv, TypeOK
<1>2. IsProject(p) /\ Running(p) = {} /\ IsProject(s) /\ Running(s) \subseteq Running(project)
  BY <1>1, ResumeInterruptedType, SkipSupersededType, OthersRun
<1>3. pc \in {"activate", "loop", "frontier"} => Running(project) = {}
  <2>1. NoTask \notin DOMAIN project.tasks
    BY <1>1, Entry, IdIsNotNoTask
  <2> QED BY <2>1 DEF AttemptsInv, NoOrphanRunning, TypeInv, TypeOK, Running, WithStatus
<1> HIDE DEF p, s
<1>4. CASE Execute
  BY <1>4 DEF Execute, AttemptsInv, NoOrphanRunning, IdleIsDurable, SaveAs, Keep, Goto
<1>5. CASE ResumeWithoutRepair
  BY <1>2, <1>5, MoveAttempts DEF ResumeWithoutRepair, p
<1>6. CASE RefuseRepair
  BY <1>6, StopAttempts DEF RefuseRepair, StopFailed
<1>7. CASE ResumeWithRepair
  <2> DEFINE F == FailedForRepair(p)
             q == StartCycle(p)
  <2>1. IsProject(q) /\ q.tasks = p.tasks /\ q.cycles \in Nat
    BY <1>2, StartCycleType DEF IsProject, ProjectRecord
  <2>2. F \subseteq DOMAIN q.tasks /\ Running(q) = {}
    BY <1>2, <2>1 DEF FailedForRepair, WithStatus, Running
  <2>3. SaveAs(RepairCycle(q, F, q.cycles)) /\ Goto("activate")
    BY <1>7 DEF ResumeWithRepair, p
  <2> HIDE DEF F, q
  <2>4. Running(RepairCycle(q, F, q.cycles)) \subseteq Running(q)
    BY <2>1, <2>2, RepairCycleRuns
  <2> QED BY <2>2, <2>3, <2>4, MoveAttempts
<1>8. CASE Activate
  <2>1. Running(MarkRunning(project, MaxRepairCycles)) = Running(project)
    BY <1>1, PolicyAssumption, MarkRunningType DEF Running, WithStatus
  <2>2. CASE Stopped(project)
    BY <1>8, <2>2, StopAttempts DEF Activate
  <2>3. CASE ~Stopped(project)
    BY <1>3, <1>8, <2>1, <2>3, MoveAttempts DEF Activate, EnsureRunning
  <2> QED BY <2>2, <2>3
<1>9. CASE LoopExit
  BY <1>9, StopAttempts DEF LoopExit
<1>10. CASE Finish
  BY <1>10, StopAttempts DEF Finish
<1>11. CASE Blocked
  BY <1>11, StopAttempts DEF Blocked, StopFailed
<1>12. CASE SelectFrontier
  <2>1. Keep(s) /\ Goto("frontier") /\ pc = "loop"
    BY <1>12 DEF SelectFrontier, s
  <2> QED BY <1>2, <1>3, <2>1, MoveAttempts
<1>13. CASE FrontierDone
  <2>1. Keep(project) /\ Goto("loop") /\ pc = "frontier"
    BY <1>13 DEF FrontierDone, Keep
  <2> QED BY <1>3, <2>1, MoveAttempts
<1>14. CASE FrontierExit
  BY <1>14, StopAttempts DEF FrontierExit
<1>15. ASSUME NEW t \in frontier, Dispatch(t) PROVE AttemptsInv'
  <2>1. t \in DOMAIN project.tasks
    BY DEF TypeInv, TypeOK
  <2>2. Running(StartTask(project, t)) = {t}
    BY <1>1, <1>3, <1>15, <2>1, StartRuns DEF Dispatch
  <2> QED BY <1>15, <2>2
      DEF Dispatch, AttemptsInv, NoOrphanRunning, IdleIsDurable, Keep, Goto, Running, WithStatus
<1>16. ASSUME NEW t \in frontier, DispatchUnknownAgent(t) PROVE AttemptsInv'
  <2>1. t \in DOMAIN project.tasks
    BY DEF TypeInv, TypeOK
  <2> QED BY <1>1, <1>3, <1>16, <2>1, HandleFailureAttempts DEF DispatchUnknownAgent
<1>17. CASE AgentSucceeds \/ \E f \in FailureModes : AgentFails(f)
  <2>1. pc = "agent" /\ Running(project) \subseteq {current}
    BY <1>17 DEF AgentSucceeds, AgentFails, AttemptsInv, NoOrphanRunning, Running
  <2>2. current \in DOMAIN project.tasks
    BY <2>1 DEF TypeInv, TypeOK
  <2>3. CASE AgentSucceeds
    <3>1. Running(CompleteTask(project, current)) = {}
      BY <1>1, <2>1, EndOfAttemptRuns
    <3> QED BY <2>3, <3>1, ContinueWithAttempts DEF AgentSucceeds
  <2>4. ASSUME NEW f \in FailureModes, AgentFails(f) PROVE AttemptsInv'
    <3> DEFINE q == FailTask(project, current, f.category, f.evidence)
    <3>1. f.category \in Categories /\ f.evidence \in SUBSET Evidence
      BY PolicyAssumption DEF AllFailures, Categories
    <3>2. IsProject(q) /\ Running(q) = {} /\ current \in DOMAIN q.tasks
      BY <1>1, <2>1, <2>2, <3>1, FailTaskType, EndOfAttemptRuns
    <3>3. (SaveAs(q) /\ Stop) \/ HandleFailure(q, current, f.category, frontier)
      BY <2>4 DEF AgentFails
    <3> HIDE DEF q
    <3> QED BY <3>2, <3>3, StopAttempts, HandleFailureAttempts
  <2> QED BY <1>17, <2>3, <2>4
<1>18. CASE Interrupt
  BY <1>18 DEF Interrupt, AttemptsInv, NoOrphanRunning, IdleIsDurable, Running
<1>19. CASE Crash
  BY <1>19 DEF Crash, AttemptsInv, NoOrphanRunning, IdleIsDurable
<1>20. CASE Pause \/ Resume
  <2>1. /\ Running(PauseProject(project)) = Running(project)
        /\ Running(ResumeProject(project)) = Running(project)
    BY <1>1, PauseResumeType DEF Running, WithStatus
  <2> QED BY <1>20, <2>1, OperateAttempts DEF Pause, Resume
<1>21. CASE Cancel
  BY <1>1, <1>21, OthersRun, OperateAttempts DEF Cancel
<1>22. CASE Replay
  BY <1>22 DEF Replay, Operate, SaveAs, AttemptsInv, NoOrphanRunning, IdleIsDurable
<1>23. ASSUME NEW t, Skip(t) \/ Override(t) PROVE AttemptsInv'
  BY <1>1, <1>23, OthersRun, OperateAttempts DEF Skip, Override
<1>24. CASE UNCHANGED vars
  BY <1>24 DEF vars, AttemptsInv, NoOrphanRunning, IdleIsDurable, Running
<1> QED
  BY <1>4, <1>5, <1>6, <1>7, <1>8, <1>9, <1>10, <1>11, <1>12, <1>13, <1>14, <1>15, <1>16,
     <1>17, <1>18, <1>19, <1>20, <1>21, <1>22, <1>23, <1>24
  DEF Next, Runtime, Agent, Fault, Operator

\* The invariant of attempts holds of every behaviour.
LEMMA AttemptsInvHolds == Spec => []AttemptsInv
<1>1. Init => AttemptsInv
  BY DEF Init, AttemptsInv, NoOrphanRunning, IdleIsDurable
<1>2. TypeInv /\ AttemptsInv /\ [Next]_vars => AttemptsInv'
  BY AttemptsStep
<1> QED BY <1>1, <1>2, TypeInvHolds, PTL DEF Spec

\* Whatever interrupts, crashes, operators and failed attempts do, an execution
\* that has resumed has no task marked running but the one its agent works on.
THEOREM NoOrphans == Spec => []NoOrphanRunning
<1>1. AttemptsInv => NoOrphanRunning
  BY DEF AttemptsInv
<1> QED BY <1>1, AttemptsInvHolds, PTL

\* Whatever way an execution or an operator's call ends, nothing but the task
\* of an interrupted agent call is left unsaved.
THEOREM Durability == Spec => []IdleIsDurable
<1>1. AttemptsInv => IdleIsDurable
  BY DEF AttemptsInv
<1> QED BY <1>1, AttemptsInvHolds, PTL

-----------------------------------------------------------------------------
(* The repair budget, across executions, crashes and replays.  Cycles are  *)
(* counted by start_repair_cycle alone; the tasks that a cycle adds carry  *)
(* its number; and the budget that resume_workflow_tasks compares with is  *)
(* the configured one, set when the execution began.                       *)

\* The tasks of S belong to cycles up to c.
PathsWithin(S, c) == \A i \in S : \A k \in 1..Len(i[2]) : i[2][k] <= c

\* The cycles of p and of its repairs are within the budget.
WithinBudget(p) ==
  /\ p.cycles <= MaxRepairCycles
  /\ PathsWithin(DOMAIN p.tasks, p.cycles)

\* What is inductive: the state file is within the budget as well, since a crash
\* brings it back, and a cycle is started with the configured budget in force.
BudgetInv ==
  /\ WithinBudget(project)
  /\ WithinBudget(disk)
  /\ pc = "resume" => project.budget = MaxRepairCycles

-----------------------------------------------------------------------------
(* Methods.                                                                *)

\* q has the tasks and the cycles of p.
SameCycles(p, q) == q.cycles = p.cycles /\ DOMAIN q.tasks = DOMAIN p.tasks

\* A project with the same tasks and cycles is within the budget, too.
LEMMA WithinKept ==
  ASSUME NEW p, NEW q, SameCycles(p, q), WithinBudget(p)
  PROVE  WithinBudget(q)
BY DEF SameCycles, WithinBudget

\* Replacing the task table alone keeps the cycles.
LEMMA TasksKeepCycles ==
  ASSUME NEW p, IsProject(p), NEW T
  PROVE  /\ [p EXCEPT !.tasks = T].cycles = p.cycles
         /\ [p EXCEPT !.finished = FALSE, !.tasks = T].cycles = p.cycles
         /\ [p EXCEPT !.finished = FALSE, !.tasks = T].budget = p.budget
BY DEF IsProject, ProjectRecord

\* The methods that move tasks neither count a cycle nor add a task.
LEMMA TaskMethodsKeepCycles ==
  ASSUME NEW p, IsProject(p), NEW i, NEW x \in Categories, NEW y \in SUBSET Evidence,
         NEW z \in SkipReasons
  PROVE  /\ SameCycles(p, StartTask(p, i))
         /\ SameCycles(p, FailTask(p, i, x, y))
         /\ SameCycles(p, CompleteTask(p, i))
         /\ SameCycles(p, SkipTask(p, i, z))
         /\ SameCycles(p, OverrideTask(p, i))
         /\ SameCycles(p, SkipDependents(p, i))
         /\ SameCycles(p, SkipSuperseded(p))
         /\ SameCycles(p, ResumeInterrupted(p))
         /\ ResumeInterrupted(p).budget = p.budget
<1>1. SameCycles(p, StartTask(p, i))
  BY StartTaskType, TasksKeepCycles DEF SameCycles, StartTask
<1>2. SameCycles(p, FailTask(p, i, x, y))
  BY FailTaskType, TasksKeepCycles DEF SameCycles, FailTask
<1>3. SameCycles(p, CompleteTask(p, i))
  BY CompleteTaskType, TasksKeepCycles DEF SameCycles, CompleteTask
<1>4. SameCycles(p, SkipTask(p, i, z))
  BY SkipTaskType, TasksKeepCycles DEF SameCycles, SkipTask
<1>5. SameCycles(p, OverrideTask(p, i))
  BY OverrideTaskType, TasksKeepCycles DEF SameCycles, OverrideTask
<1>6. SameCycles(p, SkipDependents(p, i))
  BY SkipDependentsType, TasksKeepCycles DEF SameCycles, SkipDependents
<1>7. SameCycles(p, SkipSuperseded(p))
  BY SkipSupersededType, TasksKeepCycles DEF SameCycles, SkipSuperseded
<1>8. SameCycles(p, ResumeInterrupted(p)) /\ ResumeInterrupted(p).budget = p.budget
  BY ResumeInterruptedType, TasksKeepCycles DEF SameCycles, ResumeInterrupted
<1> QED BY <1>1, <1>2, <1>3, <1>4, <1>5, <1>6, <1>7, <1>8

\* The methods that move the workflow do not, either.
LEMMA WorkflowMethodsKeepCycles ==
  ASSUME NEW p, IsProject(p), NEW a, NEW b, NEW c
  PROVE  /\ SameCycles(p, MarkRunning(p, a))
         /\ SameCycles(p, MarkFinished(p, a, b, c))
         /\ SameCycles(p, PauseProject(p))
         /\ SameCycles(p, ResumeProject(p))
         /\ SameCycles(p, CancelProject(p))
         /\ SameCycles(p, [p EXCEPT !.budget = MaxRepairCycles])
<1>1. DOMAIN CancelProject(p).tasks = DOMAIN p.tasks
  BY CancelType
<1>2. CancelProject(p).cycles = p.cycles
  BY DEF CancelProject, MarkFinished, IsProject, ProjectRecord
<1> QED
  BY <1>1, <1>2
  DEF SameCycles, MarkRunning, MarkFinished, PauseProject, ResumeProject, IsProject, ProjectRecord

\* A replay keeps only tasks that belong to no cycle.
LEMMA ReplayWithin ==
  ASSUME NEW p, IsProject(p)
  PROVE  WithinBudget(ReplayProject(p))
<1>1. /\ ReplayProject(p).cycles = 0
      /\ DOMAIN ReplayProject(p).tasks = {i \in DOMAIN p.tasks : ~IsLineage(i)}
  BY DEF ReplayProject, InitialProject
<1>2. \A i : ~IsLineage(i) => Len(i[2]) = 0
  BY DEF IsLineage
<1> QED BY <1>1, <1>2, PolicyAssumption DEF WithinBudget, PathsWithin

-----------------------------------------------------------------------------
(* Repair cycles.                                                          *)

\* The tasks that cycle c adds for a task belong to that cycle and to those of
\* the task.
LEMMA NewPathsWithin ==
  ASSUME NEW i \in Ids, NEW n \in Nat, NEW c \in Nat, n <= c, PathsWithin({i}, n)
  PROVE  PathsWithin({RepairId(i, c), PlanId(i, c)}, c)
<1> DEFINE s == i[2]
<1>1. s \in Seq(Nat)
  BY DEF Ids
<1>2. \A k \in 1..Len(s) : s[k] <= c
  BY <1>1 DEF PathsWithin
<1> HIDE DEF s
<1>3. \A k \in 1..Len(Append(s, c)) : Append(s, c)[k] <= c
  BY <1>1, <1>2
<1>4. /\ Len(s \o <<c, 0>>) = Len(s) + 2
      /\ \A k \in 1..Len(s \o <<c, 0>>) :
           (s \o <<c, 0>>)[k] = IF k <= Len(s) THEN s[k] ELSE <<c, 0>>[k - Len(s)]
  BY <1>1
<1>5. \A k \in 1..Len(s \o <<c, 0>>) : (s \o <<c, 0>>)[k] <= c
  BY <1>1, <1>2, <1>4
<1>6. RepairId(i, c)[2] = Append(s, c) /\ PlanId(i, c)[2] = s \o <<c, 0>>
  BY DEF RepairId, PlanId, s
<1> QED BY <1>3, <1>5, <1>6 DEF PathsWithin

\* A repair cycle adds only tasks of cycles that were counted.
LEMMA RepairCycleWithin ==
  ASSUME NEW p, IsProject(p), NEW F, F \subseteq DOMAIN p.tasks,
         p.cycles <= MaxRepairCycles,
         NEW n \in Nat, n <= p.cycles, PathsWithin(DOMAIN p.tasks, n)
  PROVE  WithinBudget(RepairCycle(p, F, p.cycles))
<1> DEFINE c == p.cycles
           q == PlanRepairs(p, F, c)
<1>1. c \in Nat /\ F \in SUBSET DOMAIN p.tasks
  BY DEF IsProject, ProjectRecord
<1>2. PathsWithin(DOMAIN p.tasks, c)
  <2>1. ASSUME NEW i \in DOMAIN p.tasks, NEW k \in 1..Len(i[2]) PROVE i[2][k] <= c
    <3>1. i[2] \in Seq(Nat) BY Entry DEF Ids
    <3>2. i[2][k] \in Nat /\ i[2][k] <= n BY <3>1 DEF PathsWithin
    <3> QED BY <1>1, <3>2
  <2> QED BY <2>1 DEF PathsWithin
<1>3. PathsWithin(CycleIds(p, F, c), c)
  <2>1. ASSUME NEW i \in CycleIds(p, F, c) PROVE PathsWithin({i}, c)
    <3>1. PICK x \in Targets(p, F) : i \in {RepairId(x, c), PlanId(x, c)}
      BY DEF CycleIds, PlanIds, RepairIds
    <3>2. x \in DOMAIN p.tasks /\ x \in Ids
      BY <1>1, TargetsAreTasks, Entry
    <3>3. PathsWithin({x}, n)
      BY <3>2 DEF PathsWithin
    <3>4. PathsWithin({RepairId(x, c), PlanId(x, c)}, c)
      BY <1>1, <3>2, <3>3, NewPathsWithin
    <3> QED BY <3>1, <3>4 DEF PathsWithin
  <2> QED BY <2>1 DEF PathsWithin
<1>4. DOMAIN RepairCycle(p, F, c).tasks = DOMAIN p.tasks \cup CycleIds(p, F, c)
  BY <1>1, RepairCycleType
<1>5. IsProject(q) /\ q.cycles = c
  <2>1. IsProject(q)
    BY <1>1, PlanRepairsType
  <2>2. \E T : q = [p EXCEPT !.tasks = T]
    BY DEF PlanRepairs
  <2> QED BY <2>1, <2>2, TasksKeepCycles
<1> HIDE DEF q
<1>6. ResumeFailed(q, F, CycleIds(p, F, c)).cycles = q.cycles
  BY <1>5, TasksKeepCycles DEF ResumeFailed
<1>7. RepairCycle(p, F, c).cycles = c
  BY <1>5, <1>6 DEF RepairCycle, q
<1> QED BY <1>2, <1>3, <1>4, <1>7 DEF WithinBudget, PathsWithin

-----------------------------------------------------------------------------
(* Steps.                                                                  *)

\* A step that leaves a project within the budget and does not enter "resume".
LEMMA StepWithin ==
  ASSUME BudgetInv, NEW p, WithinBudget(p), SaveAs(p) \/ Keep(p), pc' # "resume"
  PROVE  BudgetInv'
BY DEF BudgetInv, WithinBudget, SaveAs, Keep

\* An execution that ends with the workflow failed.
LEMMA StopFailedWithin ==
  ASSUME BudgetInv, NEW p, IsProject(p), WithinBudget(p), NEW f, StopFailed(p, f)
  PROVE  BudgetInv'
<1>1. WithinBudget(MarkFinished(p, "failed", "failed", f))
  BY WorkflowMethodsKeepCycles, WithinKept
<1> QED BY <1>1, StepWithin DEF StopFailed, Stop, Goto

\* Every way in which dispatch_task_failure may decide.
LEMMA HandleFailureWithin ==
  ASSUME BudgetInv, NEW p, IsProject(p), WithinBudget(p), NEW t \in DOMAIN p.tasks,
         NEW category, NEW left, HandleFailure(p, t, category, left)
  PROVE  BudgetInv'
<1>1. ASSUME NEW q, WithinBudget(q), ContinueWith(q, left) PROVE BudgetInv'
  BY <1>1, StepWithin DEF ContinueWith, Goto
<1>2. WithinBudget(RepairCycle(p, {t}, p.cycles))
  <2>1. p.cycles \in Nat /\ p.cycles <= p.cycles
    BY DEF IsProject, ProjectRecord
  <2> QED BY <2>1, RepairCycleWithin DEF WithinBudget
<1>3. WithinBudget(SkipDependents(p, t))
  <2>1. SameCycles(p, SkipDependents(p, t))
    BY SkipDependentsType, TasksKeepCycles DEF SameCycles, SkipDependents
  <2> QED BY <2>1, WithinKept
<1> QED BY <1>1, <1>2, <1>3, StopFailedWithin DEF HandleFailure

\* Every step keeps the project and its state file within the budget.
LEMMA BudgetStep ==
  ASSUME TypeInv, BudgetInv, [Next]_vars
  PROVE  BudgetInv'
<1> DEFINE p == ResumeInterrupted(project)
           s == SkipSuperseded(project)
<1>1. IsProject(project) /\ IsProject(disk) /\ WithinBudget(project) /\ WithinBudget(disk)
  BY DEF TypeInv, TypeOK, BudgetInv
<1>2. "execution" \in Categories /\ "none" \in Categories /\ {} \in SUBSET Evidence
      /\ "manual" \in SkipReasons
  BY DEF Categories, SkipReasons
<1>3. IsProject(p) /\ WithinBudget(p) /\ p.budget = project.budget
  BY <1>1, <1>2, ResumeInterruptedType, TaskMethodsKeepCycles, WithinKept
<1>4. IsProject(s) /\ WithinBudget(s)
  BY <1>1, <1>2, SkipSupersededType, TaskMethodsKeepCycles, WithinKept
<1> HIDE DEF p, s
<1>5. CASE Execute
  <2>1. CASE SaveAs(project) /\ Goto("idle")
    BY <1>1, <2>1, StepWithin DEF Goto
  <2>2. CASE Keep([project EXCEPT !.budget = MaxRepairCycles])
    <3>1. WithinBudget([project EXCEPT !.budget = MaxRepairCycles])
      BY <1>1, WorkflowMethodsKeepCycles, WithinKept
    <3>2. [project EXCEPT !.budget = MaxRepairCycles].budget = MaxRepairCycles
      BY <1>1 DEF IsProject, ProjectRecord
    <3> QED BY <1>1, <2>2, <3>1, <3>2 DEF Keep, BudgetInv, WithinBudget
  <2> QED BY <1>5, <2>1, <2>2 DEF Execute
<1>6. CASE ResumeWithoutRepair
  BY <1>3, <1>6, StepWithin DEF ResumeWithoutRepair, Goto, p
<1>7. CASE RefuseRepair
  BY <1>3, <1>7, StopFailedWithin DEF RefuseRepair, p
<1>8. CASE ResumeWithRepair
  <2> DEFINE F == FailedForRepair(p)
             q == StartCycle(p)
  <2>1. /\ CanStartCycle(p) /\ SaveAs(RepairCycle(q, F, q.cycles))
        /\ pc = "resume" /\ pc' = "activate"
    BY <1>8 DEF ResumeWithRepair, Goto, p
  <2>2. IsProject(q) /\ q.tasks = p.tasks /\ q.cycles = p.cycles + 1 /\ p.cycles \in Nat
    BY <1>3, StartCycleType DEF IsProject, ProjectRecord
  <2>3. F \subseteq DOMAIN q.tasks
    BY <2>2 DEF FailedForRepair, WithStatus
  <2>4. q.cycles <= MaxRepairCycles
    BY <1>3, <2>1, <2>2, PolicyAssumption DEF CanStartCycle, BudgetInv
  <2>5. PathsWithin(DOMAIN q.tasks, p.cycles) /\ p.cycles <= q.cycles
    BY <1>3, <2>2 DEF WithinBudget
  <2> HIDE DEF F, q
  <2>6. WithinBudget(RepairCycle(q, F, q.cycles))
    BY <2>2, <2>3, <2>4, <2>5, RepairCycleWithin
  <2> QED BY <2>1, <2>6, StepWithin
<1>9. CASE Activate
  <2>1. WithinBudget(EnsureRunning(project))
    BY <1>1, WorkflowMethodsKeepCycles, WithinKept DEF EnsureRunning
  <2> QED BY <1>1, <1>9, <2>1, StepWithin DEF Activate, Stop, Goto
<1>10. CASE LoopExit
  BY <1>1, <1>4, <1>10, StepWithin DEF LoopExit, Stop, Goto, s
<1>11. CASE Finish
  <2>1. \A o : WithinBudget(MarkFinished(s, "completed", o, "none"))
    BY <1>4, WorkflowMethodsKeepCycles, WithinKept
  <2>2. /\ SaveAs(MarkFinished(s, "completed", IF Accepted(s) THEN "completed" ELSE "degraded", "none"))
        /\ pc' = "idle"
    BY <1>11 DEF Finish, Stop, Goto, s
  <2> QED BY <2>1, <2>2, StepWithin
<1>12. CASE Blocked
  BY <1>4, <1>12, StopFailedWithin DEF Blocked, s
<1>13. CASE SelectFrontier
  BY <1>4, <1>13, StepWithin DEF SelectFrontier, Goto, s
<1>14. CASE FrontierDone
  BY <1>14 DEF FrontierDone, Goto, BudgetInv, WithinBudget
<1>15. CASE FrontierExit
  BY <1>1, <1>15, StepWithin DEF FrontierExit, Stop, Goto
<1>16. ASSUME NEW t \in frontier, Dispatch(t) PROVE BudgetInv'
  <2>1. WithinBudget(StartTask(project, t))
    BY <1>1, <1>2, TaskMethodsKeepCycles, WithinKept
  <2> QED BY <1>16, <2>1, StepWithin DEF Dispatch, Goto
<1>17. ASSUME NEW t \in frontier, DispatchUnknownAgent(t) PROVE BudgetInv'
  <2>1. t \in DOMAIN project.tasks
    BY DEF TypeInv, TypeOK
  <2> QED BY <1>1, <1>17, <2>1, HandleFailureWithin DEF DispatchUnknownAgent
<1>18. CASE AgentSucceeds
  <2>1. WithinBudget(CompleteTask(project, current))
    BY <1>1, <1>2, TaskMethodsKeepCycles, WithinKept
  <2> QED BY <1>18, <2>1, StepWithin DEF AgentSucceeds, ContinueWith, Goto
<1>19. ASSUME NEW f \in FailureModes, AgentFails(f) PROVE BudgetInv'
  <2> DEFINE q == FailTask(project, current, f.category, f.evidence)
  <2>1. f.category \in Categories /\ f.evidence \in SUBSET Evidence
    BY PolicyAssumption DEF AllFailures, Categories
  <2>2. current \in DOMAIN project.tasks
    BY <1>19 DEF AgentFails, TypeInv, TypeOK
  <2>3. IsProject(q) /\ WithinBudget(q) /\ current \in DOMAIN q.tasks
    <3>1. IsProject(q) /\ DOMAIN q.tasks = DOMAIN project.tasks
      BY <1>1, <2>1, FailTaskType
    <3>2. SameCycles(project, q)
      BY <1>1, <1>2, <2>1, TaskMethodsKeepCycles
    <3> HIDE DEF q
    <3> QED BY <1>1, <2>2, <3>1, <3>2, WithinKept
  <2>4. (SaveAs(q) /\ Stop) \/ HandleFailure(q, current, f.category, frontier)
    BY <1>19 DEF AgentFails
  <2> HIDE DEF q
  <2> QED BY <2>3, <2>4, StepWithin, HandleFailureWithin DEF Stop, Goto
<1>20. CASE Interrupt
  BY <1>20 DEF Interrupt, BudgetInv, WithinBudget
<1>21. CASE Crash
  BY <1>21 DEF Crash, BudgetInv, WithinBudget
<1>22. ASSUME NEW q, WithinBudget(q), NEW points, points \subseteq Callable, Operate(points, q)
       PROVE  BudgetInv'
  BY <1>22, StepWithin DEF Operate, Callable
<1>23. CASE Pause \/ Resume \/ Cancel
  <2>1. /\ WithinBudget(PauseProject(project)) /\ WithinBudget(ResumeProject(project))
        /\ WithinBudget(CancelProject(project))
    BY <1>1, WorkflowMethodsKeepCycles, WithinKept
  <2> QED BY <1>22, <1>23, <2>1 DEF Pause, Resume, Cancel
<1>24. CASE Replay
  BY <1>1, <1>22, <1>24, ReplayWithin DEF Replay, Callable
<1>25. ASSUME NEW t, Skip(t) \/ Override(t) PROVE BudgetInv'
  <2>1. WithinBudget(SkipTask(project, t, "manual")) /\ WithinBudget(OverrideTask(project, t))
    BY <1>1, <1>2, TaskMethodsKeepCycles, WithinKept
  <2> QED BY <1>22, <1>25, <2>1 DEF Skip, Override
<1>26. CASE UNCHANGED vars
  BY <1>26 DEF vars, BudgetInv, WithinBudget
<1> QED
  BY <1>5, <1>6, <1>7, <1>8, <1>9, <1>10, <1>11, <1>12, <1>13, <1>14, <1>15, <1>16, <1>17,
     <1>18, <1>19, <1>20, <1>21, <1>23, <1>24, <1>25, <1>26
  DEF Next, Runtime, Agent, Fault, Operator

\* The invariant of the budget holds of every behaviour.
LEMMA BudgetInvHolds == Spec => []BudgetInv
<1>1. Init => BudgetInv
  <2>1. \A i \in DOMAIN InitialProject.tasks : Len(i[2]) = 0
    BY DEF InitialProject, OriginalId
  <2>2. WithinBudget(InitialProject)
    BY <2>1, PolicyAssumption DEF WithinBudget, PathsWithin, InitialProject
  <2> QED BY <2>2 DEF Init, BudgetInv
<1>2. TypeInv /\ BudgetInv /\ [Next]_vars => BudgetInv'
  BY BudgetStep
<1> QED BY <1>1, <1>2, TypeInvHolds, PTL DEF Spec

\* No more repair cycles than configured are ever started, whatever is executed,
\* chained, replayed, interrupted and reloaded, and every repair that exists
\* belongs to a cycle that was counted.
THEOREM RepairBudget == Spec => []RepairsWithinBudget
<1>1. BudgetInv => RepairsWithinBudget
  BY DEF BudgetInv, WithinBudget, PathsWithin, RepairsWithinBudget
<1> QED BY <1>1, BudgetInvHolds, PTL

-----------------------------------------------------------------------------
(* The dependency graph.  A step keeps it, or restores the saved one, or is *)
(* a replay between two executions, or a repair cycle within one.          *)

\* The project becomes q, which has the graph it had, with a cycle of repairs.
CycleStep(q, F, c) ==
  /\ IsProject(q) /\ SameGraph(project, q) /\ F \subseteq DOMAIN q.tasks
  /\ c = q.cycles /\ c \in Nat /\ c > 0 /\ c <= MaxRepairCycles
  /\ SaveAs(RepairCycle(q, F, c))

\* What a step does to the graph.
GraphStep ==
  \/ /\ SameGraph(project, project')
     /\ UNCHANGED disk \/ disk' = project'
     /\ pc = "idle" /\ pc' # "idle" => PlanIsValid(project)
  \/ project' = disk /\ UNCHANGED disk /\ pc' = "idle"
  \/ /\ pc = "idle" /\ pc' = "idle" /\ calls' = calls + 1
     /\ SaveAs(ReplayProject(project))
  \/ pc # "idle" /\ \E q, F, c : CycleStep(q, F, c)

\* A project is replaced by one with the same graph.
LEMMA SameGraphStep ==
  ASSUME NEW p, SameGraph(project, p), SaveAs(p) \/ Keep(p), pc # "idle" \/ pc' = "idle"
  PROVE  GraphStep
BY DEF GraphStep, SaveAs, Keep

\* What has the graph of a project with the same graph has it, too.
LEMMA SameGraphTwice ==
  ASSUME NEW p, NEW q, NEW r, SameGraph(p, q), SameGraph(q, r)
  PROVE  SameGraph(p, r)
BY DEF SameGraph

\* The end of an execution with the workflow failed.
LEMMA StopFailedGraph ==
  ASSUME NEW p, IsProject(p), SameGraph(project, p), NEW f, StopFailed(p, f)
  PROVE  GraphStep
<1>1. SameGraph(p, MarkFinished(p, "failed", "failed", f))
  BY WorkflowMethodsKeepGraph
<1>2. SameGraph(project, MarkFinished(p, "failed", "failed", f))
  BY <1>1, SameGraphTwice
<1> QED BY <1>2, SameGraphStep DEF StopFailed, Stop, Goto

\* Every way in which dispatch_task_failure may decide.
LEMMA HandleFailureGraph ==
  ASSUME BudgetInv, NEW p, IsProject(p), SameGraph(project, p), p.cycles = project.cycles,
         NEW t \in DOMAIN p.tasks, NEW category, NEW left, HandleFailure(p, t, category, left),
         pc # "idle"
  PROVE  GraphStep
<1>1. CASE ContinueWith(p, left)
  BY <1>1, SameGraphStep DEF ContinueWith
<1>2. CASE CanChainRepair(p, t) /\ ContinueWith(RepairCycle(p, {t}, p.cycles), left)
  <2>1. p.cycles \in Nat /\ p.cycles > 0 /\ p.cycles <= MaxRepairCycles
    BY <1>2 DEF IsProject, ProjectRecord, CanChainRepair, BudgetInv, WithinBudget
  <2>2. CycleStep(p, {t}, p.cycles)
    BY <1>2, <2>1 DEF CycleStep, ContinueWith
  <2> QED BY <2>2 DEF GraphStep
<1>3. CASE ContinueWith(SkipDependents(p, t), left)
  <2>1. SameGraph(p, SkipDependents(p, t))
    BY TaskMethodsKeepGraph
  <2>2. SameGraph(project, SkipDependents(p, t))
    BY <2>1, SameGraphTwice
  <2> QED BY <1>3, <2>2, SameGraphStep DEF ContinueWith
<1>4. CASE StopFailed(p, category)
  BY <1>4, StopFailedGraph
<1> QED BY <1>1, <1>2, <1>3, <1>4 DEF HandleFailure

\* Every step treats the graph in one of these ways.
LEMMA GraphOfSteps ==
  ASSUME TypeInv, BudgetInv, [Next]_vars
  PROVE  GraphStep
<1> DEFINE p == ResumeInterrupted(project)
           s == SkipSuperseded(project)
<1>1. IsProject(project) /\ IsProject(disk) /\ SameGraph(project, project)
  BY WorkflowMethodsKeepGraph DEF TypeInv, TypeOK
<1>2. "execution" \in Categories /\ {} \in SUBSET Evidence
  BY DEF Categories
<1>3. /\ IsProject(p) /\ SameGraph(project, p) /\ p.cycles = project.cycles
      /\ p.budget = project.budget
  BY <1>1, ResumeInterruptedType, WorkflowMethodsKeepGraph, TasksKeepCycles DEF ResumeInterrupted
<1>4. IsProject(s) /\ SameGraph(project, s)
  BY <1>1, SkipSupersededType, TaskMethodsKeepGraph
<1> HIDE DEF p, s
<1>5. CASE Execute
  <2>1. CASE SaveAs(project) /\ Goto("idle")
    BY <1>1, <2>1, SameGraphStep DEF Goto
  <2>2. CASE PlanIsValid(project) /\ Keep([project EXCEPT !.budget = MaxRepairCycles])
    <3>1. SameGraph(project, [project EXCEPT !.budget = MaxRepairCycles])
      BY <1>1, WorkflowMethodsKeepGraph
    <3> QED BY <2>2, <3>1 DEF Keep, GraphStep
  <2> QED BY <1>5, <2>1, <2>2 DEF Execute
<1>6. CASE ResumeWithoutRepair
  BY <1>3, <1>6, SameGraphStep DEF ResumeWithoutRepair, p
<1>7. CASE RefuseRepair
  BY <1>3, <1>7, StopFailedGraph DEF RefuseRepair, p
<1>8. CASE ResumeWithRepair
  <2> DEFINE F == FailedForRepair(p)
             q == StartCycle(p)
  <2>1. CanStartCycle(p) /\ SaveAs(RepairCycle(q, F, q.cycles)) /\ pc = "resume"
    BY <1>8 DEF ResumeWithRepair, p
  <2>2. /\ IsProject(q) /\ q.tasks = p.tasks /\ q.cycles = p.cycles + 1 /\ p.cycles \in Nat
        /\ SameGraph(p, q)
    BY <1>3, StartCycleType, WorkflowMethodsKeepGraph DEF IsProject, ProjectRecord
  <2>3. F \subseteq DOMAIN q.tasks
    BY <2>2 DEF FailedForRepair, WithStatus
  <2>4. q.cycles <= MaxRepairCycles /\ q.cycles > 0 /\ q.cycles \in Nat
    BY <1>3, <2>1, <2>2, PolicyAssumption DEF CanStartCycle, BudgetInv
  <2> HIDE DEF F, q
  <2>5. CycleStep(q, F, q.cycles)
    BY <1>3, <2>1, <2>2, <2>3, <2>4, SameGraphTwice DEF CycleStep
  <2> QED BY <2>1, <2>5 DEF GraphStep
<1>9. CASE Activate
  <2>1. SameGraph(project, EnsureRunning(project))
    BY <1>1, WorkflowMethodsKeepGraph DEF EnsureRunning
  <2> QED BY <1>1, <1>9, <2>1, SameGraphStep DEF Activate
<1>10. CASE LoopExit
  BY <1>1, <1>4, <1>10, SameGraphStep DEF LoopExit, s
<1>11. CASE Finish
  <2>1. \A o : SameGraph(s, MarkFinished(s, "completed", o, "none"))
    BY <1>4, WorkflowMethodsKeepGraph
  <2>2. \A o : SameGraph(project, MarkFinished(s, "completed", o, "none"))
    BY <1>4, <2>1, SameGraphTwice
  <2>3. pc = "loop" /\ \E o : SaveAs(MarkFinished(s, "completed", o, "none"))
    BY <1>11 DEF Finish, s
  <2> QED BY <2>2, <2>3, SameGraphStep
<1>12. CASE Blocked
  BY <1>4, <1>12, StopFailedGraph DEF Blocked, s
<1>13. CASE SelectFrontier
  BY <1>4, <1>13, SameGraphStep DEF SelectFrontier, s
<1>14. CASE FrontierDone
  BY <1>1, <1>14, SameGraphStep DEF FrontierDone, Keep
<1>15. CASE FrontierExit
  BY <1>1, <1>15, SameGraphStep DEF FrontierExit
<1>16. ASSUME NEW t \in frontier, Dispatch(t) PROVE GraphStep
  BY <1>1, <1>16, TaskMethodsKeepGraph, SameGraphStep DEF Dispatch
<1>17. ASSUME NEW t \in frontier, DispatchUnknownAgent(t) PROVE GraphStep
  <2>1. t \in DOMAIN project.tasks
    BY DEF TypeInv, TypeOK
  <2> QED BY <1>1, <1>17, <2>1, HandleFailureGraph DEF DispatchUnknownAgent
<1>18. CASE AgentSucceeds
  BY <1>1, <1>18, TaskMethodsKeepGraph, SameGraphStep DEF AgentSucceeds, ContinueWith
<1>19. ASSUME NEW f \in FailureModes, AgentFails(f) PROVE GraphStep
  <2> DEFINE q == FailTask(project, current, f.category, f.evidence)
  <2>1. f.category \in Categories /\ f.evidence \in SUBSET Evidence
    BY PolicyAssumption DEF AllFailures, Categories
  <2>2. current \in DOMAIN project.tasks /\ pc = "agent"
    BY <1>19 DEF AgentFails, TypeInv, TypeOK
  <2>3. /\ IsProject(q) /\ SameGraph(project, q) /\ current \in DOMAIN q.tasks
        /\ q.cycles = project.cycles
    <3>1. IsProject(q) /\ SameGraph(project, q) /\ DOMAIN q.tasks = DOMAIN project.tasks
      BY <1>1, <2>1, FailTaskType, TaskMethodsKeepGraph
    <3>2. q.cycles = project.cycles
      BY <1>1, TasksKeepCycles DEF FailTask
    <3> HIDE DEF q
    <3> QED BY <2>2, <3>1, <3>2
  <2>4. SaveAs(q) \/ HandleFailure(q, current, f.category, frontier)
    BY <1>19 DEF AgentFails
  <2> HIDE DEF q
  <2> QED BY <2>2, <2>3, <2>4, SameGraphStep, HandleFailureGraph
<1>20. CASE Interrupt
  BY <1>1, <1>20 DEF Interrupt, GraphStep
<1>21. CASE Crash
  BY <1>21 DEF Crash, GraphStep
<1>22. ASSUME NEW q, SameGraph(project, q), NEW points, Operate(points, q)
       PROVE  GraphStep
  BY <1>22 DEF Operate, SaveAs, GraphStep
<1>23. CASE Pause \/ Resume \/ Cancel
  <2>1. /\ SameGraph(project, PauseProject(project)) /\ SameGraph(project, ResumeProject(project))
        /\ SameGraph(project, CancelProject(project))
    BY <1>1, WorkflowMethodsKeepGraph
  <2> QED BY <1>22, <1>23, <2>1 DEF Pause, Resume, Cancel
<1>24. CASE Replay
  BY <1>24 DEF Replay, Operate, SaveAs, GraphStep
<1>25. ASSUME NEW t, Skip(t) \/ Override(t) PROVE GraphStep
  <2>1. SameGraph(project, SkipTask(project, t, "manual")) /\ SameGraph(project, OverrideTask(project, t))
    BY <1>1, TaskMethodsKeepGraph
  <2> QED BY <1>22, <1>25, <2>1 DEF Skip, Override
<1>26. CASE UNCHANGED vars
  BY <1>1, <1>26 DEF vars, GraphStep
<1> QED
  BY <1>5, <1>6, <1>7, <1>8, <1>9, <1>10, <1>11, <1>12, <1>13, <1>14, <1>15, <1>16, <1>17,
     <1>18, <1>19, <1>20, <1>21, <1>23, <1>24, <1>25, <1>26
  DEF Next, Runtime, Agent, Fault, Operator

\* Both copies of the project keep the structure of the definition, and the one
\* that is executed has a valid graph.
GraphInv ==
  /\ IsStructured(project)
  /\ IsStructured(disk)
  /\ pc # "idle" => PlanIsValid(project)

\* A project with the graph of a valid one has a valid graph.
LEMMA ValidKept ==
  ASSUME NEW p, IsProject(p), IsStructured(p), PlanIsValid(p),
         NEW q, IsProject(q), SameGraph(p, q)
  PROVE  PlanIsValid(q)
<1>1. PlanIsValid(InitialProject) /\ DepsExist(p)
  BY DefinitionIsValid DEF PlanIsValid, DepsExist
<1> QED BY <1>1, StructureKept, StructureIsValid

\* Planning repairs leaves a valid graph valid.
LEMMA CycleStepIsStructured ==
  ASSUME IsProject(project), IsStructured(project), PlanIsValid(project),
         NEW q, NEW F, NEW c, CycleStep(q, F, c)
  PROVE  /\ IsStructured(project') /\ PlanIsValid(project')
         /\ disk' = project'
<1>1. PlanIsValid(InitialProject) /\ DepsExist(project)
  BY DefinitionIsValid DEF PlanIsValid, DepsExist
<1>2. IsProject(q) /\ IsStructured(q) /\ DepsExist(q)
  BY <1>1, StructureKept DEF CycleStep
<1>3. F \subseteq DOMAIN q.tasks /\ c \in Nat /\ c > 0 /\ SaveAs(RepairCycle(q, F, c))
  BY DEF CycleStep
<1>4. /\ IsProject(RepairCycle(q, F, c)) /\ IsStructured(RepairCycle(q, F, c))
      /\ DepsExist(RepairCycle(q, F, c))
  BY <1>2, <1>3, RepairCycleType, RepairCycleIsStructured
<1>5. PlanIsValid(RepairCycle(q, F, c))
  BY <1>1, <1>4, StructureIsValid
<1> QED BY <1>3, <1>4, <1>5 DEF SaveAs

\* Every step keeps the graph structured, and valid while it is executed.
LEMMA GraphInvStep ==
  ASSUME TypeInv, TypeInv', GraphInv, GraphStep
  PROVE  GraphInv'
<1>1. /\ IsProject(project) /\ IsProject(project')
      /\ IsStructured(project) /\ IsStructured(disk)
      /\ pc # "idle" => PlanIsValid(project)
  BY DEF TypeInv, TypeOK, GraphInv
<1>2. CASE /\ SameGraph(project, project')
           /\ UNCHANGED disk \/ disk' = project'
           /\ pc = "idle" /\ pc' # "idle" => PlanIsValid(project)
  <2>1. IsStructured(project')
    BY <1>1, <1>2, StructureKept
  <2>2. pc' # "idle" => PlanIsValid(project')
    BY <1>1, <1>2, ValidKept
  <2> QED BY <1>1, <1>2, <2>1, <2>2 DEF GraphInv
<1>3. CASE project' = disk /\ UNCHANGED disk /\ pc' = "idle"
  BY <1>1, <1>3 DEF GraphInv
<1>4. CASE pc' = "idle" /\ SaveAs(ReplayProject(project))
  BY <1>1, <1>4, ReplayIsStructured DEF GraphInv, SaveAs
<1>5. CASE pc # "idle" /\ \E q, F, c : CycleStep(q, F, c)
  BY <1>1, <1>5, CycleStepIsStructured DEF GraphInv
<1> QED BY <1>2, <1>3, <1>4, <1>5 DEF GraphStep

\* The invariant of the graph holds of every behaviour.
LEMMA GraphInvHolds == Spec => []GraphInv
<1>1. Init => GraphInv
  BY InitialIsStructured DEF Init, GraphInv
<1>2. TypeInv /\ TypeInv' /\ BudgetInv /\ GraphInv /\ [Next]_vars => GraphInv'
  BY GraphOfSteps, GraphInvStep
<1> QED BY <1>1, <1>2, TypeInvHolds, BudgetInvHolds, PTL DEF Spec

\* When a workflow is declared blocked, some pending task waits for one that failed
\* or was skipped: repairs close no cycle and leave no dependency dangling
\* (GraphInv), no task is left running (AttemptsInv), and in a valid graph some
\* pending task waits for none that is pending.
LEMMA BlockedBySomeTask ==
  ASSUME TypeInv, AttemptsInv, GraphInv, Blocked
  PROVE  \E t \in Pending(project') : \E d \in project'.tasks[t].deps :
           StatusOf(project', d) \in {"failed", "skipped"}
<1> DEFINE s == SkipSuperseded(project)
<1>1. /\ IsProject(project) /\ IsStructured(project) /\ PlanIsValid(project)
      /\ current = NoTask /\ pc = "loop"
  BY DEF TypeInv, TypeOK, GraphInv, Blocked
<1>2. IsProject(s) /\ SameGraph(project, s) /\ Running(s) \subseteq Running(project)
  BY <1>1, SkipSupersededType, TaskMethodsKeepGraph, OthersRun
<1>3. IsStructured(s) /\ PlanIsValid(s)
  BY <1>1, <1>2, StructureKept, ValidKept
<1>4. WithStatus(s, {"running"}) = {}
  <2>1. Running(project) \subseteq {NoTask}
    BY <1>1 DEF AttemptsInv, NoOrphanRunning, Running
  <2>2. NoTask \notin Running(project)
    BY <1>1, Entry, IdIsNotNoTask DEF Running, WithStatus
  <2> QED BY <1>2, <2>1, <2>2 DEF Running
<1>5. /\ Pending(s) # {} /\ Runnable(s) = {}
      /\ \E f : project' = MarkFinished(s, "failed", "failed", f)
  BY <1>3 DEF Blocked, StopFailed, SaveAs, s
<1> HIDE DEF s
<1>6. \E t \in Pending(s) : \E d \in s.tasks[t].deps : s.tasks[d].status \in {"failed", "skipped"}
  <2>1. IsFiniteSet(DOMAIN s.tasks)
    BY <1>3 DEF IsStructured
  <2> QED BY <1>2, <1>3, <1>4, <1>5, <2>1, StuckHasCulprit
<1>7. project'.tasks = s.tasks
  BY <1>2, <1>5 DEF MarkFinished, IsProject, ProjectRecord
<1> QED BY <1>6, <1>7 DEF Pending, WithStatus, StatusOf

\* A workflow is declared blocked only for a task that failed or was skipped.
THEOREM BlockedHasReason == Spec => BlockedHasCulprit
<1>1. TypeInv /\ AttemptsInv /\ GraphInv =>
        [Blocked => \E t \in Pending(project') : \E d \in project'.tasks[t].deps :
                      StatusOf(project', d) \in {"failed", "skipped"}]_vars
  BY BlockedBySomeTask
<1> QED BY <1>1, TypeInvHolds, AttemptsInvHolds, GraphInvHolds, PTL DEF BlockedHasCulprit

\* Only an operator's call is counted.
LEMMA CallsCount ==
  ASSUME [Next]_vars
  PROVE  calls' = calls \/ (calls' = calls + 1 /\ Operator)
<1>1. ASSUME NEW p, NEW t, NEW category, NEW left, HandleFailure(p, t, category, left)
      PROVE  calls' = calls
  BY <1>1 DEF HandleFailure, ContinueWith, StopFailed, Stop, Goto
<1>2. CASE Execute \/ Runtime
  BY <1>1, <1>2
  DEF Execute, Runtime, ResumeWithoutRepair, RefuseRepair, ResumeWithRepair, Activate, LoopExit,
      Finish, Blocked, SelectFrontier, FrontierDone, FrontierExit, Dispatch, DispatchUnknownAgent,
      StopFailed, Stop, Goto
<1>3. CASE Agent \/ Fault
  BY <1>1, <1>3
  DEF Agent, AgentSucceeds, AgentFails, ContinueWith, Fault, Interrupt, Crash, Stop, Goto
<1>4. CASE Operator
  BY <1>4 DEF Operator, Pause, Resume, Cancel, Replay, Skip, Override, Operate
<1>5. CASE UNCHANGED vars
  BY <1>5 DEF vars
<1> QED BY <1>2, <1>3, <1>4, <1>5 DEF Next

\* Until an operator calls, no dependency dangles.
DepsExistInv == calls = 0 => DepsExist(project) /\ DepsExist(disk)

\* Every step keeps dependencies from dangling.
LEMMA DepsExistStep ==
  ASSUME TypeInv, GraphInv, DepsExistInv, GraphStep, calls' = calls \/ calls' = calls + 1
  PROVE  DepsExistInv'
<1> SUFFICES ASSUME calls' = 0 PROVE DepsExist(project') /\ DepsExist(disk')
  BY DEF DepsExistInv
<1>1. /\ IsProject(project) /\ IsStructured(project)
      /\ pc # "idle" => PlanIsValid(project)
      /\ calls \in Nat
  BY PolicyAssumption DEF TypeInv, TypeOK, GraphInv
<1>2. calls' = calls /\ calls' # calls + 1
  BY <1>1
<1>3. DepsExist(project) /\ DepsExist(disk)
  BY <1>2 DEF DepsExistInv
<1>4. CASE SameGraph(project, project') /\ (UNCHANGED disk \/ disk' = project')
  BY <1>3, <1>4, StructureKept
<1>5. CASE project' = disk /\ UNCHANGED disk
  BY <1>3, <1>5
<1>6. CASE pc # "idle" /\ \E q, F, c : CycleStep(q, F, c)
  <2>1. PlanIsValid(project') /\ disk' = project'
    BY <1>1, <1>6, CycleStepIsStructured
  <2> QED BY <2>1 DEF PlanIsValid, DepsExist
<1> QED BY <1>2, <1>4, <1>5, <1>6 DEF GraphStep

\* Until an operator calls, no dependency of any behaviour dangles.
LEMMA DepsExistInvHolds == Spec => []DepsExistInv
<1>1. Init => DepsExistInv
  BY InitialIsStructured DEF Init, DepsExistInv
<1>2. TypeInv /\ BudgetInv /\ GraphInv /\ DepsExistInv /\ [Next]_vars => DepsExistInv'
  BY GraphOfSteps, CallsCount, DepsExistStep
<1> QED BY <1>1, <1>2, TypeInvHolds, BudgetInvHolds, GraphInvHolds, PTL DEF Spec

\* A workflow that was defined with a valid graph keeps one, whatever repairs are
\* planned and whatever is interrupted and reloaded; only a replay, an operator's
\* call, may leave the tasks that it keeps depending on repairs that it dropped.
THEOREM GraphIsKept ==
  ASSUME PlanIsValid(InitialProject)
  PROVE  Spec => [](calls = 0 => GraphStaysValid)
<1>1. TypeInv /\ GraphInv /\ DepsExistInv => (calls = 0 => GraphStaysValid)
  BY StructureIsValid DEF TypeInv, TypeOK, GraphInv, DepsExistInv, GraphStaysValid
<1> QED BY <1>1, TypeInvHolds, GraphInvHolds, DepsExistInvHolds, PTL

-----------------------------------------------------------------------------
(* The count of cycles.  A resume raises it and a replay takes it back, each *)
(* with a save: a crash never changes it.                                   *)

\* The state file has counted the cycles that the project has.
CyclesSaved == disk.cycles = project.cycles

\* Planning and requeueing leave the count of cycles alone.
LEMMA RepairCycleKeepsCycles ==
  ASSUME NEW p, IsProject(p), NEW F, F \subseteq DOMAIN p.tasks, NEW c \in Nat
  PROVE  RepairCycle(p, F, c).cycles = p.cycles
<1> DEFINE q == PlanRepairs(p, F, c)
<1>1. IsProject(q)
  <2>1. F \in SUBSET DOMAIN p.tasks OBVIOUS
  <2> QED BY <2>1, PlanRepairsType
<1>2. q.cycles = p.cycles
  <2>1. \E T : q = [p EXCEPT !.tasks = T]
    BY DEF PlanRepairs
  <2> QED BY <2>1, TasksKeepCycles
<1> HIDE DEF q
<1>3. ResumeFailed(q, F, CycleIds(p, F, c)).cycles = q.cycles
  BY <1>1, TasksKeepCycles DEF ResumeFailed
<1> QED BY <1>2, <1>3 DEF RepairCycle, q

\* A failure that is handled counts no cycle.
LEMMA HandleFailureCycles ==
  ASSUME NEW p, IsProject(p), NEW t \in DOMAIN p.tasks,
         NEW category, NEW left, HandleFailure(p, t, category, left)
  PROVE  project'.cycles = p.cycles /\ disk'.cycles = p.cycles
<1>1. RepairCycle(p, {t}, p.cycles).cycles = p.cycles
  BY RepairCycleKeepsCycles DEF IsProject, ProjectRecord
<1>2. SkipDependents(p, t).cycles = p.cycles
  BY TasksKeepCycles DEF SkipDependents
<1>3. MarkFinished(p, "failed", "failed", category).cycles = p.cycles
  BY WorkflowMethodsKeepCycles DEF SameCycles
<1> QED BY <1>1, <1>2, <1>3 DEF HandleFailure, ContinueWith, StopFailed, SaveAs

\* A resume that repairs saves the cycle that it counts.
LEMMA ResumeCounts ==
  ASSUME TypeInv, ResumeWithRepair
  PROVE  project'.cycles > 0 /\ disk' = project'
<1> DEFINE p == ResumeInterrupted(project)
           F == FailedForRepair(p)
           q == StartCycle(p)
<1>1. SaveAs(RepairCycle(q, F, q.cycles))
  BY DEF ResumeWithRepair
<1>2. IsProject(p)
  BY ResumeInterruptedType DEF TypeInv, TypeOK
<1>3. IsProject(q) /\ q.tasks = p.tasks /\ q.cycles = p.cycles + 1 /\ p.cycles \in Nat
  BY <1>2, StartCycleType DEF IsProject, ProjectRecord
<1>4. F \subseteq DOMAIN q.tasks
  BY <1>3 DEF FailedForRepair, WithStatus
<1> HIDE DEF F, q, p
<1>5. RepairCycle(q, F, q.cycles).cycles = q.cycles /\ q.cycles > 0
  BY <1>3, <1>4, RepairCycleKeepsCycles
<1> QED BY <1>1, <1>5 DEF SaveAs

\* Only a resume counts a cycle, and only a replay forgets those that were counted.
LEMMA OnlyResumeCountsCycles ==
  ASSUME TypeInv, CyclesSaved, [Next]_vars
  PROVE  /\ \/ ResumeWithRepair
            \/ Replay /\ project'.cycles = 0
            \/ project'.cycles = project.cycles
         /\ CyclesSaved'
<1> DEFINE p == ResumeInterrupted(project)
           s == SkipSuperseded(project)
           Goal == /\ \/ ResumeWithRepair
                      \/ Replay /\ project'.cycles = 0
                      \/ project'.cycles = project.cycles
                   /\ CyclesSaved'
<1> SUFFICES Goal
  OBVIOUS
<1>1. /\ IsProject(project) /\ IsProject(disk)
      /\ project.cycles \in Nat /\ disk.cycles = project.cycles
  BY DEF TypeInv, TypeOK, CyclesSaved, IsProject, ProjectRecord
<1>2. "execution" \in Categories /\ "none" \in Categories /\ {} \in SUBSET Evidence
      /\ "manual" \in SkipReasons
  BY DEF Categories, SkipReasons
<1>3. IsProject(p) /\ p.cycles = project.cycles
  BY <1>1, <1>2, ResumeInterruptedType, TaskMethodsKeepCycles DEF SameCycles
<1>4. IsProject(s) /\ s.cycles = project.cycles
  BY <1>1, <1>2, SkipSupersededType, TaskMethodsKeepCycles DEF SameCycles
<1> HIDE DEF p, s
<1>5. ASSUME NEW q, q.cycles = project.cycles, SaveAs(q) \/ Keep(q) PROVE Goal
  BY <1>1, <1>5 DEF SaveAs, Keep, CyclesSaved
<1>6. ASSUME NEW q, IsProject(q), q.cycles = project.cycles, NEW f, StopFailed(q, f) PROVE Goal
  <2>1. MarkFinished(q, "failed", "failed", f).cycles = project.cycles
    BY <1>6, WorkflowMethodsKeepCycles DEF SameCycles
  <2> QED BY <1>5, <1>6, <2>1 DEF StopFailed
<1>7. ASSUME NEW q, IsProject(q), q.cycles = project.cycles, NEW t \in DOMAIN q.tasks,
             NEW c, NEW l, HandleFailure(q, t, c, l)
      PROVE  Goal
  BY <1>1, <1>7, HandleFailureCycles DEF CyclesSaved
<1> HIDE DEF Goal
<1>8. CASE Execute
  <2>1. [project EXCEPT !.budget = MaxRepairCycles].cycles = project.cycles
    BY <1>1, WorkflowMethodsKeepCycles DEF SameCycles
  <2> QED BY <1>5, <1>8, <2>1 DEF Execute
<1>9. CASE ResumeWithoutRepair
  BY <1>3, <1>5, <1>9 DEF ResumeWithoutRepair, p
<1>10. CASE RefuseRepair
  BY <1>3, <1>6, <1>10 DEF RefuseRepair, p
<1>11. CASE ResumeWithRepair
  BY <1>11, ResumeCounts DEF CyclesSaved, Goal
<1>12. CASE Activate
  <2>1. EnsureRunning(project).cycles = project.cycles
    BY <1>1, WorkflowMethodsKeepCycles DEF EnsureRunning, SameCycles
  <2> QED BY <1>5, <1>12, <2>1 DEF Activate
<1>13. CASE LoopExit
  BY <1>4, <1>5, <1>13 DEF LoopExit, s
<1>14. CASE Finish
  <2>1. \A o : MarkFinished(s, "completed", o, "none").cycles = project.cycles
    BY <1>4, WorkflowMethodsKeepCycles DEF SameCycles
  <2>2. \E o : SaveAs(MarkFinished(s, "completed", o, "none"))
    BY <1>14 DEF Finish, s
  <2> QED BY <1>5, <2>1, <2>2
<1>15. CASE Blocked
  BY <1>4, <1>6, <1>15 DEF Blocked, s
<1>16. CASE SelectFrontier
  BY <1>4, <1>5, <1>16 DEF SelectFrontier, s
<1>17. CASE FrontierDone
  BY <1>1, <1>17 DEF FrontierDone, CyclesSaved, Goal
<1>18. CASE FrontierExit
  BY <1>5, <1>18 DEF FrontierExit
<1>19. ASSUME NEW t \in frontier, Dispatch(t) PROVE Goal
  <2>1. StartTask(project, t).cycles = project.cycles
    BY <1>1, <1>2, TaskMethodsKeepCycles DEF SameCycles
  <2> QED BY <1>5, <1>19, <2>1 DEF Dispatch
<1>20. ASSUME NEW t \in frontier, DispatchUnknownAgent(t) PROVE Goal
  <2>1. t \in DOMAIN project.tasks
    BY DEF TypeInv, TypeOK
  <2> QED BY <1>1, <1>7, <1>20, <2>1 DEF DispatchUnknownAgent
<1>21. CASE AgentSucceeds
  <2>1. CompleteTask(project, current).cycles = project.cycles
    BY <1>1, <1>2, TaskMethodsKeepCycles DEF SameCycles
  <2> QED BY <1>5, <1>21, <2>1 DEF AgentSucceeds, ContinueWith
<1>22. ASSUME NEW f \in FailureModes, AgentFails(f) PROVE Goal
  <2> DEFINE q == FailTask(project, current, f.category, f.evidence)
  <2>1. f.category \in Categories /\ f.evidence \in SUBSET Evidence
    BY PolicyAssumption DEF AllFailures, Categories
  <2>2. current \in DOMAIN project.tasks
    BY <1>22 DEF AgentFails, TypeInv, TypeOK
  <2>3. IsProject(q) /\ current \in DOMAIN q.tasks /\ q.cycles = project.cycles
    <3>1. IsProject(q) /\ DOMAIN q.tasks = DOMAIN project.tasks
      BY <1>1, <2>1, FailTaskType
    <3>2. SameCycles(project, q)
      BY <1>1, <1>2, <2>1, TaskMethodsKeepCycles
    <3> HIDE DEF q
    <3> QED BY <2>2, <3>1, <3>2 DEF SameCycles
  <2>4. SaveAs(q) \/ HandleFailure(q, current, f.category, frontier)
    BY <1>22 DEF AgentFails
  <2> HIDE DEF q
  <2> QED BY <1>5, <1>7, <2>3, <2>4
<1>23. CASE Interrupt
  BY <1>1, <1>23 DEF Interrupt, CyclesSaved, Goal
<1>24. CASE Crash
  BY <1>1, <1>24 DEF Crash, CyclesSaved, Goal
<1>25. ASSUME NEW q, q.cycles = project.cycles, NEW points, Operate(points, q) PROVE Goal
  BY <1>5, <1>25 DEF Operate
<1>26. CASE Pause \/ Resume \/ Cancel
  <2>1. /\ PauseProject(project).cycles = project.cycles
        /\ ResumeProject(project).cycles = project.cycles
        /\ CancelProject(project).cycles = project.cycles
    BY <1>1, WorkflowMethodsKeepCycles DEF SameCycles
  <2> QED BY <1>25, <1>26, <2>1 DEF Pause, Resume, Cancel
<1>27. CASE Replay
  <2>1. ReplayProject(project).cycles = 0
    BY DEF ReplayProject, InitialProject
  <2> QED BY <1>1, <1>27, <2>1 DEF Replay, Operate, SaveAs, CyclesSaved, Goal
<1>28. ASSUME NEW t, Skip(t) \/ Override(t) PROVE Goal
  <2>1. /\ SkipTask(project, t, "manual").cycles = project.cycles
        /\ OverrideTask(project, t).cycles = project.cycles
    <3>1. SameCycles(project, SkipTask(project, t, "manual")) /\ SameCycles(project, OverrideTask(project, t))
      BY <1>1, <1>2, TaskMethodsKeepCycles
    <3> QED BY <3>1 DEF SameCycles
  <2> QED BY <1>25, <1>28, <2>1 DEF Skip, Override
<1>29. CASE UNCHANGED vars
  BY <1>1, <1>29 DEF vars, CyclesSaved, Goal
<1> QED
  BY <1>8, <1>9, <1>10, <1>11, <1>12, <1>13, <1>14, <1>15, <1>16, <1>17, <1>18, <1>19, <1>20,
     <1>21, <1>22, <1>23, <1>24, <1>26, <1>27, <1>28, <1>29
  DEF Next, Runtime, Agent, Fault, Operator

-----------------------------------------------------------------------------
(* Workflows before their first repair cycle.  Until it is counted, no task  *)
(* is a repair, and a crash or a replay brings none back.                   *)

\* No task of p is a repair.
Plain(p) == \A i \in DOMAIN p.tasks : ~IsLineage(i)

\* Both copies of the project are plain until a cycle is counted.
PlainInv == project.cycles = 0 => Plain(project) /\ Plain(disk)

\* A task of a plain project repairs no other.
LEMMA PlainTasks ==
  ASSUME NEW p, Plain(p), NEW i \in DOMAIN p.tasks
  PROVE  /\ ~IsRepair(i)
         /\ \A j : ~Repairs(i, j)
         /\ ~HasOrigin(p, i) /\ ~OriginDone(p, i)
BY DEF Plain, IsRepair, Repairs, HasOrigin, OriginDone

\* Being plain is a matter of the graph.
LEMMA PlainKept ==
  ASSUME NEW p, NEW q, Plain(p), SameGraph(p, q)
  PROVE  Plain(q)
BY DEF Plain, SameGraph

\* The state file counts the cycles of every behaviour.
LEMMA CyclesSavedHolds == Spec => []CyclesSaved
<1>1. Init => CyclesSaved
  BY DEF Init, CyclesSaved
<1>2. TypeInv /\ CyclesSaved /\ [Next]_vars => CyclesSaved'
  BY OnlyResumeCountsCycles
<1> QED BY <1>1, <1>2, TypeInvHolds, PTL DEF Spec

\* Every step leaves a plain workflow plain or counts a cycle.
LEMMA PlainStep ==
  ASSUME TypeInv, BudgetInv, CyclesSaved, PlainInv, [Next]_vars
  PROVE  PlainInv'
<1> SUFFICES ASSUME project'.cycles = 0 PROVE Plain(project') /\ Plain(disk')
  BY DEF PlainInv
<1>1. GraphStep
  BY GraphOfSteps
<1>2. Plain(ReplayProject(project))
  BY DEF Plain, ReplayProject, InitialProject
<1>3. ASSUME NEW q, NEW F, NEW c, CycleStep(q, F, c) PROVE FALSE
  <2>1. RepairCycle(q, F, c).cycles = c /\ c > 0
    BY <1>3, RepairCycleKeepsCycles DEF CycleStep
  <2> QED BY <1>3, <2>1 DEF CycleStep, SaveAs
<1>4. CASE SaveAs(ReplayProject(project))
  BY <1>2, <1>4 DEF SaveAs
<1>5. CASE ~SaveAs(ReplayProject(project))
  <2>1. project'.cycles = project.cycles
    BY <1>5, ResumeCounts, OnlyResumeCountsCycles DEF Replay, Operate
  <2>2. Plain(project) /\ Plain(disk)
    BY <2>1 DEF PlainInv
  <2>3. CASE SameGraph(project, project') /\ (UNCHANGED disk \/ disk' = project')
    BY <2>2, <2>3, PlainKept
  <2>4. CASE project' = disk /\ UNCHANGED disk
    BY <2>2, <2>4
  <2> QED BY <1>1, <1>3, <1>5, <2>3, <2>4 DEF GraphStep
<1> QED BY <1>4, <1>5

\* Until a cycle is counted, a workflow is plain in every behaviour.
LEMMA PlainInvHolds == Spec => []PlainInv
<1>1. Init => PlainInv
  BY InitialIsStructured DEF Init, PlainInv, Plain, OriginalId, IsLineage
<1>2. TypeInv /\ BudgetInv /\ CyclesSaved /\ PlainInv /\ [Next]_vars => PlainInv'
  BY PlainStep
<1> QED BY <1>1, <1>2, TypeInvHolds, BudgetInvHolds, CyclesSavedHolds, PTL DEF Spec

\* In a plain project there is no repair to supersede.
LEMMA NothingSuperseded ==
  ASSUME NEW p, IsProject(p), Plain(p)
  PROVE  SkipSuperseded(p).tasks = p.tasks
<1> DEFINE over(j) == p.tasks[j].status = "pending" /\ OriginDone(p, j) /\ ~StillRequired(p, j)
<1>1. SkipSuperseded(p).tasks =
        [j \in DOMAIN p.tasks |->
           IF over(j) THEN SkippedRecord(p.tasks[j], "superseded_repair", p.tasks[j].context)
           ELSE p.tasks[j]]
  BY TableOf DEF SkipSuperseded
<1>2. \A j \in DOMAIN p.tasks : ~over(j)
  BY PlainTasks
<1>3. p.tasks = [j \in DOMAIN p.tasks |-> p.tasks[j]]
  BY DEF IsProject, IsTable
<1> HIDE DEF over
<1> QED BY <1>1, <1>2, <1>3

\* In a plain project the methods that work on a task change no other: start_task.
LEMMA PlainStart ==
  ASSUME NEW p, IsProject(p), Plain(p), NEW i \in DOMAIN p.tasks
  PROVE  StartTask(p, i).tasks = [p.tasks EXCEPT ![i] = StartedRecord(p.tasks[i])]
<1>1. StartTask(p, i).tasks =
        [j \in DOMAIN p.tasks |->
           IF j = i THEN StartedRecord(p.tasks[j])
           ELSE IF Repairs(i, j) THEN [p.tasks[j] EXCEPT !.attempts = @ + 1]
           ELSE p.tasks[j]]
  BY TableOf DEF StartTask
<1>2. p.tasks = [j \in DOMAIN p.tasks |-> p.tasks[j]]
  BY DEF IsProject, IsTable
<1> QED BY <1>1, <1>2, PlainTasks

\* Nor does complete_task.
LEMMA PlainCompletion ==
  ASSUME NEW p, IsProject(p), Plain(p), NEW i \in DOMAIN p.tasks
  PROVE  CompleteTask(p, i).tasks = [p.tasks EXCEPT ![i] = DoneRecord(p.tasks[i], NoContext)]
<1> DEFINE X(j) == IF IsRepair(i) THEN p.tasks[j].context ELSE NoContext
           sibling(j) == /\ HasOrigin(p, i) /\ IsRepair(j) /\ Origin(j) = Origin(i)
                         /\ p.tasks[j].status = "pending"
<1>1. CompleteTask(p, i).tasks =
        [j \in DOMAIN p.tasks |->
           IF j = i THEN DoneRecord(p.tasks[j], X(j))
           ELSE IF Repairs(i, j) THEN DoneRecord(p.tasks[j], NoContext)
           ELSE IF sibling(j)
             THEN SkippedRecord(p.tasks[j], "superseded_repair", p.tasks[j].context)
           ELSE p.tasks[j]]
  BY TableOf DEF CompleteTask
<1>2. p.tasks = [j \in DOMAIN p.tasks |-> p.tasks[j]]
  BY DEF IsProject, IsTable
<1>3. X(i) = NoContext /\ \A j : ~sibling(j) /\ ~Repairs(i, j)
  BY PlainTasks
<1> HIDE DEF X, sibling
<1> QED BY <1>1, <1>2, <1>3

\* The table of p with the record that fail_task leaves of its task.
FailedTable(p, i, c, e) ==
  [p.tasks EXCEPT ![i] =
     FailedRecord(p.tasks[i], IF ~RetriesLeft(p, i) THEN "failed" ELSE "pending", c,
                  IF ~RetriesLeft(p, i) THEN e ELSE p.tasks[i].evidence)]

\* Nor does fail_task: it leaves the task pending or failed.
LEMMA PlainFailure ==
  ASSUME NEW p, IsProject(p), Plain(p), NEW i \in DOMAIN p.tasks, NEW c, NEW e
  PROVE  FailTask(p, i, c, e).tasks = FailedTable(p, i, c, e)
<1> DEFINE status == IF ~RetriesLeft(p, i) THEN "failed" ELSE "pending"
           Left(j) == IF ~RetriesLeft(p, i) THEN e ELSE p.tasks[j].evidence
<1>1. FailTask(p, i, c, e).tasks =
        [j \in DOMAIN p.tasks |->
           IF j = i THEN FailedRecord(p.tasks[j], status, c, Left(j))
           ELSE IF Repairs(i, j) THEN FailedRecord(p.tasks[j], "failed", c, Left(j))
           ELSE p.tasks[j]]
  BY TableOf DEF FailTask
<1>2. p.tasks = [j \in DOMAIN p.tasks |-> p.tasks[j]]
  BY DEF IsProject, IsTable
<1>3. \A j : ~Repairs(i, j)
  BY PlainTasks
<1>4. FailedTable(p, i, c, e) = [p.tasks EXCEPT ![i] = FailedRecord(p.tasks[i], status, c, Left(i))]
  BY DEF FailedTable
<1> HIDE DEF status, Left
<1> QED BY <1>1, <1>2, <1>3, <1>4

-----------------------------------------------------------------------------
(* Attempts, before the first repair cycle.                                *)

\* How many attempts task i, with record r, may have had by the n-th crash.  One
\* more may be open for a task that is about to run: it has been counted unless
\* the task is pending, or running without an agent (busy) since a crash.
RecordWithin(i, r, n, busy) ==
  /\ r.attempts <= RetryLimit[i[1]] + 1 + n
  /\ r.status = "pending" \/ (r.status = "running" /\ i # busy)
       => r.attempts <= RetryLimit[i[1]] + n
\* So it is for every task of p.
AttemptsWithin(p, n, busy) ==
  \A i \in DOMAIN p.tasks : RecordWithin(i, p.tasks[i], n, busy)

\* What is inductive: the state file is within the bound, too, and what is listed has
\* an attempt left.
Bounded ==
  /\ AttemptsWithin(project, crashes, current)
  /\ AttemptsWithin(disk, crashes, current)
  /\ \A i \in frontier : project.tasks[i].attempts <= RetryLimit[i[1]] + crashes
\* It is so until a cycle is counted, and again once a replay has forgotten them.
BoundInv == project.cycles = 0 => Bounded

\* q has the attempts of p, and its open tasks are open in p, too, or may retry.
Calms(p, q) ==
  /\ DOMAIN q.tasks = DOMAIN p.tasks
  /\ \A i \in DOMAIN p.tasks :
       /\ q.tasks[i].attempts = p.tasks[i].attempts
       /\ \/ q.tasks[i].status \in {p.tasks[i].status, "done", "failed", "skipped"}
          \/ q.tasks[i].status = "pending" /\ RetriesLeft(p, i)

\* The attempts and the status that record changes leave.
LEMMA AttemptsOfRecords ==
  ASSUME NEW r \in TaskRecord, NEW s \in {"pending", "failed"}, NEW c, NEW e, NEW k, NEW x
  PROVE  /\ StartedRecord(r).attempts = r.attempts + 1 /\ StartedRecord(r).status = "running"
         /\ FailedRecord(r, s, c, e).attempts = r.attempts /\ FailedRecord(r, s, c, e).status = s
         /\ SkippedRecord(r, k, x).attempts = r.attempts /\ SkippedRecord(r, k, x).status = "skipped"
         /\ DoneRecord(r, x).attempts = r.attempts /\ DoneRecord(r, x).status = "done"
         /\ [DoneRecord(r, x) EXCEPT !.skip = k].attempts = r.attempts
         /\ [DoneRecord(r, x) EXCEPT !.skip = k].status = "done"
         /\ [r EXCEPT !.status = "pending", !.category = "none"].attempts = r.attempts
         /\ [r EXCEPT !.status = "pending", !.category = "none"].status = "pending"
BY DEF StartedRecord, FailedRecord, SkippedRecord, DoneRecord, TaskRecord

\* The methods that settle tasks count no attempt and open none.
LEMMA MethodsCalm ==
  ASSUME NEW p, IsProject(p), Plain(p), NEW i, NEW a, NEW b, NEW c
  PROVE  /\ i \in DOMAIN p.tasks => Calms(p, CompleteTask(p, i)) /\ Calms(p, FailTask(p, i, a, b))
         /\ Calms(p, SkipTask(p, i, a))
         /\ Calms(p, OverrideTask(p, i))
         /\ Calms(p, SkipDependents(p, i))
         /\ Calms(p, SkipSuperseded(p))
         /\ Calms(p, CancelProject(p))
         /\ Calms(p, MarkFinished(p, a, b, c))
         /\ Calms(p, MarkRunning(p, a))
         /\ Calms(p, PauseProject(p)) /\ Calms(p, ResumeProject(p))
         /\ Calms(p, [p EXCEPT !.budget = a])
         /\ Calms(p, p)
<1>0. ASSUME NEW j \in DOMAIN p.tasks PROVE p.tasks[j] \in TaskRecord
  BY Entry
<1>1. ASSUME i \in DOMAIN p.tasks PROVE Calms(p, CompleteTask(p, i)) /\ Calms(p, FailTask(p, i, a, b))
  <2>1. CompleteTask(p, i).tasks = [p.tasks EXCEPT ![i] = DoneRecord(p.tasks[i], NoContext)]
    BY <1>1, PlainCompletion
  <2>2. FailTask(p, i, a, b).tasks = FailedTable(p, i, a, b)
    BY <1>1, PlainFailure
  <2>3. Calms(p, CompleteTask(p, i))
    BY <1>0, <1>1, <2>1, AttemptsOfRecords DEF Calms
  <2>4. Calms(p, FailTask(p, i, a, b))
    BY <1>0, <1>1, <2>2, AttemptsOfRecords DEF Calms, FailedTable
  <2> QED BY <2>3, <2>4
<1>2. Calms(p, SkipTask(p, i, a))
  <2>1. SkipTask(p, i, a).tasks = [p.tasks EXCEPT ![i] = SkippedRecord(p.tasks[i], a, NoContext)]
    BY TableOf DEF SkipTask
  <2> QED BY <1>0, <2>1, AttemptsOfRecords DEF Calms
<1>3. Calms(p, OverrideTask(p, i))
  <2> DEFINE r == [DoneRecord(p.tasks[i], NoContext) EXCEPT !.skip = "none"]
  <2>1. OverrideTask(p, i).tasks = [p.tasks EXCEPT ![i] = r]
    BY TableOf DEF OverrideTask
  <2>2. i \in DOMAIN p.tasks => r.attempts = p.tasks[i].attempts /\ r.status = "done"
    BY <1>0, AttemptsOfRecords
  <2> HIDE DEF r
  <2> QED BY <2>1, <2>2 DEF Calms
<1>4. Calms(p, SkipDependents(p, i))
  <2> DEFINE doomed == Descendants(p, i) \cap Pending(p)
             r(j) == SkippedRecord(p.tasks[j], "dependency_failed", NoContext)
  <2>1. SkipDependents(p, i).tasks =
          [j \in DOMAIN p.tasks |-> IF j \in doomed THEN r(j) ELSE p.tasks[j]]
    BY TableOf DEF SkipDependents
  <2>2. ASSUME NEW j \in DOMAIN p.tasks
        PROVE  r(j).attempts = p.tasks[j].attempts /\ r(j).status = "skipped"
    BY <1>0, AttemptsOfRecords
  <2> HIDE DEF doomed, r
  <2> QED BY <2>1, <2>2 DEF Calms
<1>5. Calms(p, CancelProject(p))
  <2> DEFINE r(j) == SkippedRecord(p.tasks[j], "workflow_cancelled", p.tasks[j].context)
  <2>1. CancelProject(p).tasks =
          [j \in DOMAIN p.tasks |-> IF p.tasks[j].status = "pending" THEN r(j) ELSE p.tasks[j]]
    BY DEF CancelProject, MarkFinished, IsProject, ProjectRecord
  <2>2. ASSUME NEW j \in DOMAIN p.tasks
        PROVE  r(j).attempts = p.tasks[j].attempts /\ r(j).status = "skipped"
    BY <1>0 DEF SkippedRecord, TaskRecord
  <2> HIDE DEF r
  <2> QED BY <2>1, <2>2 DEF Calms
<1>6. SkipSuperseded(p).tasks = p.tasks
  BY NothingSuperseded
<1>7. \A q : q.tasks = p.tasks => Calms(p, q)
  BY DEF Calms
<1>8. /\ MarkFinished(p, a, b, c).tasks = p.tasks /\ MarkRunning(p, a).tasks = p.tasks
      /\ PauseProject(p).tasks = p.tasks /\ ResumeProject(p).tasks = p.tasks
      /\ [p EXCEPT !.budget = a].tasks = p.tasks
  BY DEF MarkFinished, MarkRunning, PauseProject, ResumeProject, IsProject, ProjectRecord
<1> QED BY <1>1, <1>2, <1>3, <1>4, <1>5, <1>6, <1>7, <1>8

\* Calming twice is calming.
LEMMA CalmsTwice ==
  ASSUME NEW p, NEW q, NEW r, Calms(p, q), Calms(q, r)
  PROVE  Calms(p, r)
BY DEF Calms, RetriesLeft

\* What calms a project keeps its attempts within their bound, for an agent that
\* is still at work or whose task is no longer marked running.
LEMMA CalmWithin ==
  ASSUME NEW p, IsProject(p), NEW q, NEW n \in Nat, NEW b, NEW d,
         AttemptsWithin(p, n, b), Calms(p, q), b = d \/ b \notin Running(q)
  PROVE  AttemptsWithin(q, n, d)
<1>1. ASSUME NEW i \in DOMAIN q.tasks PROVE RecordWithin(i, q.tasks[i], n, d)
  <2>1. i \in DOMAIN p.tasks /\ p.tasks[i] \in TaskRecord /\ i[1] \in Original
    BY Entry DEF Calms, Ids
  <2>2. p.tasks[i].attempts \in Nat /\ RetryLimit[i[1]] \in Nat
    BY <2>1, WorkflowAssumption DEF TaskRecord
  <2>3. q.tasks[i].attempts = p.tasks[i].attempts /\ RecordWithin(i, p.tasks[i], n, b)
    BY <2>1 DEF Calms, AttemptsWithin
  <2>4. CASE q.tasks[i].status \in {p.tasks[i].status, "done", "failed", "skipped"}
    <3>1. q.tasks[i].status = "running" => i # b \/ b = d
      BY DEF Running, WithStatus
    <3> QED BY <2>3, <2>4, <3>1 DEF RecordWithin
  <2>5. CASE q.tasks[i].status = "pending" /\ RetriesLeft(p, i)
    BY <2>2, <2>3, <2>5 DEF RecordWithin, RetriesLeft
  <2> QED BY <2>1, <2>4, <2>5 DEF Calms
<1> QED BY <1>1 DEF AttemptsWithin

\* A step that starts nothing.
LEMMA CalmStep ==
  ASSUME TypeInv, Bounded, NEW p, Calms(project, p),
         SaveAs(p) \/ (Keep(p) /\ current' = current),
         frontier' \subseteq frontier, crashes' = crashes,
         current' = current \/ current \notin Running(p)
  PROVE  Bounded'
<1>1. /\ IsProject(project) /\ IsProject(disk) /\ crashes \in Nat
      /\ frontier \subseteq DOMAIN project.tasks
  BY PolicyAssumption DEF TypeInv, TypeOK
<1>2. AttemptsWithin(p, crashes, current')
  BY <1>1, CalmWithin DEF Bounded
<1>3. \A i \in frontier' : p.tasks[i].attempts <= RetryLimit[i[1]] + crashes
  BY <1>1 DEF Bounded, Calms
<1>4. project' = p /\ (disk' = p \/ (disk' = disk /\ current' = current))
  BY DEF SaveAs, Keep
<1> QED BY <1>2, <1>3, <1>4 DEF Bounded

\* The end of an execution with the workflow failed.
LEMMA StopFailedCalm ==
  ASSUME TypeInv, Bounded, NEW p, IsProject(p), Plain(p), Calms(project, p), NEW f,
         StopFailed(p, f), current \notin Running(p)
  PROVE  Bounded'
<1> DEFINE q == MarkFinished(p, "failed", "failed", f)
<1>1. Calms(p, q)
  BY MethodsCalm
<1>2. q.tasks = p.tasks
  BY DEF MarkFinished, IsProject, ProjectRecord
<1>3. SaveAs(q) /\ frontier' = {} /\ crashes' = crashes
  BY DEF StopFailed, Stop, Goto
<1> HIDE DEF q
<1>4. Calms(project, q)
  BY <1>1, CalmsTwice
<1>5. current \notin Running(q)
  BY <1>2 DEF Running, WithStatus
<1> QED BY <1>3, <1>4, <1>5, CalmStep

\* Every way in which dispatch_task_failure may decide before a cycle is counted.
LEMMA HandleFailureCalm ==
  ASSUME TypeInv, Bounded, NEW p, IsProject(p), Plain(p), Calms(project, p), p.cycles = 0,
         NEW t \in DOMAIN p.tasks, NEW category, NEW left, left \subseteq frontier,
         HandleFailure(p, t, category, left), current \notin Running(p)
  PROVE  Bounded'
<1>1. ~CanChainRepair(p, t)
  BY DEF CanChainRepair
<1>2. ASSUME NEW q, Calms(project, q), current \notin Running(q), ContinueWith(q, left)
      PROVE  Bounded'
  BY <1>2, CalmStep DEF ContinueWith, Goto
<1>3. Calms(project, SkipDependents(p, t)) /\ current \notin Running(SkipDependents(p, t))
  BY MethodsCalm, CalmsTwice, OthersRun
<1> QED BY <1>1, <1>2, <1>3, StopFailedCalm DEF HandleFailure

\* A replay forgets all attempts.
LEMMA ReplayBounded ==
  ASSUME TypeInv, Replay
  PROVE  Bounded'
<1> DEFINE D == {i \in DOMAIN project.tasks : ~IsLineage(i)}
           q == ReplayProject(project)
<1>1. q.tasks = [j \in D |-> NewTask(project.tasks[j].deps)]
  BY DEF ReplayProject, InitialProject
<1>2. /\ SaveAs(q) /\ UNCHANGED <<frontier, current, crashes>> /\ frontier = {}
      /\ IsProject(project) /\ crashes \in Nat
  BY PolicyAssumption DEF Replay, Operate, TypeInv, TypeOK, FrontierIsLocal
<1>3. ASSUME NEW i \in DOMAIN q.tasks PROVE RecordWithin(i, q.tasks[i], crashes, current)
  <2>1. i \in DOMAIN project.tasks /\ q.tasks[i] = NewTask(project.tasks[i].deps)
    BY <1>1
  <2>2. q.tasks[i].attempts = 0
    BY <2>1 DEF NewTask
  <2>3. RetryLimit[i[1]] \in Nat
    BY <1>2, <2>1, Entry, WorkflowAssumption DEF Ids
  <2> HIDE DEF q
  <2> QED BY <1>2, <2>2, <2>3 DEF RecordWithin
<1> HIDE DEF q
<1> QED BY <1>2, <1>3 DEF Bounded, AttemptsWithin, SaveAs

\* Every step that counts no cycle keeps attempts within their bound.
LEMMA BoundStep ==
  ASSUME TypeInv, project.cycles = 0, PlainInv, Bounded, ~ResumeWithRepair, [Next]_vars
  PROVE  Bounded'
<1> DEFINE p == ResumeInterrupted(project)
           s == SkipSuperseded(project)
<1>1. /\ IsProject(project) /\ IsProject(disk) /\ Plain(project) /\ Plain(disk)
      /\ crashes \in Nat /\ frontier \subseteq DOMAIN project.tasks
      /\ pc = "agent" <=> current # NoTask
      /\ pc \notin {"frontier", "agent"} => frontier = {}
  BY PolicyAssumption DEF TypeInv, TypeOK, FrontierIsLocal, PlainInv
<1>2. ASSUME NEW q, IsProject(q) PROVE NoTask \notin Running(q)
  BY <1>2, Entry, IdIsNotNoTask DEF Running, WithStatus
<1>3. ASSUME NEW i \in DOMAIN project.tasks
      PROVE  /\ project.tasks[i] \in TaskRecord /\ project.tasks[i].attempts \in Nat
             /\ RetryLimit[i[1]] \in Nat /\ RecordWithin(i, project.tasks[i], crashes, current)
  BY <1>1, Entry, WorkflowAssumption DEF TaskRecord, Ids, Bounded, AttemptsWithin
<1>4. IsProject(s) /\ Plain(s) /\ Calms(project, s)
  BY <1>1, SkipSupersededType, TaskMethodsKeepGraph, PlainKept, MethodsCalm
<1>5. ASSUME pc = "resume"
      PROVE  /\ IsProject(p) /\ AttemptsWithin(p, crashes, NoTask) /\ current = NoTask
             /\ frontier = {}
  <2>1. IsProject(p) /\ current = NoTask /\ frontier = {}
    BY <1>1, <1>5, ResumeInterruptedType
  <2>2. CASE Running(project) = {}
    BY <1>1, <2>1, <2>2 DEF ResumeInterrupted, Running, Bounded
  <2>3. CASE Running(project) # {}
    <3> DEFINE r(i) == [project.tasks[i] EXCEPT !.status = "pending", !.category = "none"]
    <3>1. p.tasks = [i \in DOMAIN project.tasks |->
                       IF i \in Running(project) THEN r(i) ELSE project.tasks[i]]
      BY <1>1, <2>3, TableOf DEF ResumeInterrupted, Running
    <3>2. ASSUME NEW i \in DOMAIN project.tasks
          PROVE  r(i).attempts = project.tasks[i].attempts /\ r(i).status = "pending"
      BY <1>3, AttemptsOfRecords
    <3>3. ASSUME NEW i \in Running(project)
          PROVE  i \in DOMAIN project.tasks /\ project.tasks[i].status = "running" /\ i # NoTask
      BY <1>1, <1>2 DEF Running, WithStatus
    <3> HIDE DEF r, p
    <3>4. ASSUME NEW i \in DOMAIN p.tasks PROVE RecordWithin(i, p.tasks[i], crashes, NoTask)
      <4>1. i \in DOMAIN project.tasks
        BY <3>1
      <4>2. RecordWithin(i, project.tasks[i], crashes, NoTask)
        BY <1>3, <2>1, <4>1
      <4>3. CASE i \in Running(project)
        BY <3>1, <3>2, <3>3, <4>1, <4>2, <4>3 DEF RecordWithin
      <4>4. CASE i \notin Running(project)
        BY <3>1, <4>1, <4>2, <4>4
      <4> QED BY <4>3, <4>4
    <3> QED BY <2>1, <3>4 DEF AttemptsWithin
  <2> QED BY <2>1, <2>2, <2>3
<1>6. ASSUME NEW q, q.tasks = p.tasks, pc = "resume", SaveAs(q) \/ Keep(q), crashes' = crashes,
             frontier' = {}, current' = NoTask
      PROVE  Bounded'
  <2>1. AttemptsWithin(q, crashes, NoTask) /\ AttemptsWithin(disk, crashes, NoTask)
    BY <1>5, <1>6 DEF AttemptsWithin, Bounded
  <2> QED BY <1>6, <2>1 DEF Bounded, SaveAs, Keep
<1>7. ASSUME NEW q, Calms(project, q), SaveAs(q) \/ Keep(q), crashes' = crashes,
             frontier' \subseteq frontier, current' = NoTask, pc # "agent"
      PROVE  Bounded'
  BY <1>1, <1>7, CalmStep
<1> HIDE DEF p, s
<1>8. CASE Execute
  <2>1. Calms(project, project) /\ Calms(project, [project EXCEPT !.budget = MaxRepairCycles])
    BY <1>1, MethodsCalm
  <2> QED BY <1>1, <1>7, <1>8, <2>1 DEF Execute, Goto
<1>9. CASE ResumeWithoutRepair
  BY <1>5, <1>6, <1>9 DEF ResumeWithoutRepair, Goto, p
<1>10. CASE RefuseRepair
  <2>1. pc = "resume" /\ \E f : StopFailed(p, f)
    BY <1>10 DEF RefuseRepair, p
  <2>2. PICK f : StopFailed(p, f)
    BY <2>1
  <2>3. MarkFinished(p, "failed", "failed", f).tasks = p.tasks
    BY <1>5, <2>1 DEF MarkFinished, IsProject, ProjectRecord
  <2> QED BY <1>6, <2>1, <2>2, <2>3 DEF StopFailed, Stop, Goto
<1>11. CASE Activate
  <2>1. Calms(project, project) /\ Calms(project, EnsureRunning(project))
    BY <1>1, MethodsCalm DEF EnsureRunning
  <2> QED BY <1>1, <1>7, <1>11, <2>1 DEF Activate, Stop, Goto
<1>12. CASE LoopExit
  <2>1. Calms(project, project)
    BY <1>1, MethodsCalm
  <2> QED BY <1>4, <1>7, <1>12, <2>1 DEF LoopExit, Stop, Goto, s
<1>13. CASE Finish
  <2>1. \A o : Calms(project, MarkFinished(s, "completed", o, "none"))
    BY <1>4, MethodsCalm, CalmsTwice
  <2>2. /\ pc = "loop" /\ \E o : SaveAs(MarkFinished(s, "completed", o, "none"))
        /\ frontier' = {} /\ current' = NoTask /\ crashes' = crashes
    BY <1>13 DEF Finish, Stop, Goto, s
  <2> QED BY <1>7, <2>1, <2>2
<1>14. CASE Blocked
  <2>1. pc = "loop" /\ \E f : StopFailed(s, f)
    BY <1>14 DEF Blocked, s
  <2>2. current \notin Running(s)
    BY <1>1, <1>2, <1>4, <2>1
  <2> QED BY <1>4, <2>1, <2>2, StopFailedCalm
<1>15. CASE SelectFrontier
  <2>1. /\ Keep(s) /\ crashes' = crashes /\ current' = current /\ frontier' = Runnable(s)
        /\ pc = "loop"
    BY <1>15 DEF SelectFrontier, Goto, s
  <2>2. AttemptsWithin(s, crashes, current)
    BY <1>1, <1>4, CalmWithin DEF Bounded
  <2>3. \A i \in Runnable(s) : s.tasks[i].attempts <= RetryLimit[i[1]] + crashes
    BY <2>2 DEF Runnable, Ready, AttemptsWithin, RecordWithin
  <2> QED BY <2>1, <2>2, <2>3 DEF Bounded, Keep
<1>16. CASE FrontierDone
  BY <1>16 DEF FrontierDone, Goto, Bounded
<1>17. CASE FrontierExit
  <2>1. Calms(project, project)
    BY <1>1, MethodsCalm
  <2> QED BY <1>1, <1>7, <1>17, <2>1 DEF FrontierExit, Stop, Goto
<1>18. ASSUME NEW t \in frontier, Dispatch(t) PROVE Bounded'
  <2> DEFINE q == StartTask(project, t)
             r == StartedRecord(project.tasks[t])
  <2>1. /\ Keep(q) /\ crashes' = crashes /\ current' = t /\ frontier' = frontier \ {t}
        /\ pc = "frontier" /\ current = NoTask
    BY <1>1, <1>18 DEF Dispatch, Goto
  <2>2. t \in DOMAIN project.tasks /\ q.tasks = [project.tasks EXCEPT ![t] = r]
    BY <1>1, PlainStart
  <2>3. /\ r.attempts = project.tasks[t].attempts + 1 /\ r.status = "running"
        /\ project.tasks[t].attempts <= RetryLimit[t[1]] + crashes
    BY <1>3, <2>2, AttemptsOfRecords DEF Bounded
  <2>4. RecordWithin(t, r, crashes, t)
    BY <1>1, <1>3, <2>2, <2>3 DEF RecordWithin
  <2>5. \A i \in DOMAIN project.tasks : i # NoTask
    BY <1>1, Entry, IdIsNotNoTask
  <2>6. \A i \in DOMAIN disk.tasks : i # NoTask
    BY <1>1, Entry, IdIsNotNoTask
  <2> HIDE DEF r, q
  <2>7. AttemptsWithin(q, crashes, t)
    BY <1>3, <2>1, <2>2, <2>4, <2>5 DEF AttemptsWithin, RecordWithin
  <2>8. AttemptsWithin(disk, crashes, t)
    BY <2>1, <2>6 DEF AttemptsWithin, RecordWithin, Bounded
  <2>9. \A i \in frontier \ {t} : q.tasks[i].attempts <= RetryLimit[i[1]] + crashes
    BY <1>1, <2>2 DEF Bounded
  <2> QED BY <2>1, <2>7, <2>8, <2>9 DEF Bounded, Keep
<1>19. ASSUME NEW t \in frontier, DispatchUnknownAgent(t) PROVE Bounded'
  <2>1. /\ HandleFailure(project, t, "execution", frontier \ {t}) /\ pc = "frontier"
        /\ t \in DOMAIN project.tasks /\ frontier \ {t} \subseteq frontier
    BY <1>1, <1>19 DEF DispatchUnknownAgent
  <2>2. current \notin Running(project) /\ Calms(project, project)
    BY <1>1, <1>2, <2>1, MethodsCalm
  <2> QED BY <1>1, <2>1, <2>2, HandleFailureCalm
<1>20. CASE AgentSucceeds
  <2> DEFINE q == CompleteTask(project, current)
  <2>1. current \in DOMAIN project.tasks /\ ContinueWith(q, frontier)
    BY <1>1, <1>20 DEF AgentSucceeds, TypeInv, TypeOK
  <2>2. Calms(project, q) /\ current \notin Running(q)
    BY <1>1, <2>1, MethodsCalm, EndOfAttemptRuns
  <2> HIDE DEF q
  <2> QED BY <2>1, <2>2, CalmStep DEF ContinueWith, Goto
<1>21. ASSUME NEW f \in FailureModes, AgentFails(f) PROVE Bounded'
  <2> DEFINE q == FailTask(project, current, f.category, f.evidence)
  <2>1. f.category \in Categories /\ f.evidence \in SUBSET Evidence
    BY PolicyAssumption DEF AllFailures, Categories
  <2>2. current \in DOMAIN project.tasks /\ pc = "agent"
    BY <1>21 DEF AgentFails, TypeInv, TypeOK
  <2>3. /\ IsProject(q) /\ DOMAIN q.tasks = DOMAIN project.tasks /\ SameGraph(project, q)
        /\ Calms(project, q) /\ current \notin Running(q)
    BY <1>1, <2>1, <2>2, FailTaskType, TaskMethodsKeepGraph, MethodsCalm, EndOfAttemptRuns
  <2>4. q.cycles = project.cycles
    BY <1>1, TasksKeepCycles DEF FailTask
  <2>5. (SaveAs(q) /\ Stop) \/ HandleFailure(q, current, f.category, frontier)
    BY <1>21 DEF AgentFails
  <2> HIDE DEF q
  <2>6. Plain(q)
    BY <1>1, <2>3, PlainKept
  <2>7. CASE SaveAs(q) /\ Stop
    BY <2>3, <2>7, CalmStep DEF Stop, Goto
  <2>8. CASE HandleFailure(q, current, f.category, frontier)
    BY <2>2, <2>3, <2>4, <2>6, <2>8, HandleFailureCalm
  <2> QED BY <2>5, <2>7, <2>8
<1>22. ASSUME NEW q, IsProject(q), AttemptsWithin(q, crashes, current)
       PROVE  AttemptsWithin(q, crashes + 1, NoTask)
  <2>1. ASSUME NEW i \in DOMAIN q.tasks PROVE RecordWithin(i, q.tasks[i], crashes + 1, NoTask)
    <3>1. q.tasks[i].attempts \in Nat /\ RetryLimit[i[1]] \in Nat
      BY <1>22, Entry, WorkflowAssumption DEF TaskRecord, Ids
    <3> QED BY <1>1, <1>22, <3>1 DEF AttemptsWithin, RecordWithin
  <2> QED BY <2>1 DEF AttemptsWithin
<1>23. CASE Interrupt \/ Crash
  <2>1. /\ crashes' = crashes + 1 /\ current' = NoTask /\ frontier' = {}
        /\ project' \in {project, disk} /\ disk' = disk
    BY <1>23 DEF Interrupt, Crash
  <2>2. AttemptsWithin(project', crashes', NoTask) /\ AttemptsWithin(disk', crashes', NoTask)
    BY <1>1, <1>22, <2>1 DEF Bounded
  <2> QED BY <2>1, <2>2 DEF Bounded
<1>24. ASSUME NEW q, Calms(project, q), NEW points, Operate(points, q)
       PROVE  Bounded'
  BY <1>24, CalmStep DEF Operate
<1>25. CASE Pause \/ Resume \/ Cancel
  <2>1. /\ Calms(project, PauseProject(project)) /\ Calms(project, ResumeProject(project))
        /\ Calms(project, CancelProject(project))
    BY <1>1, MethodsCalm
  <2> QED BY <1>24, <1>25, <2>1 DEF Pause, Resume, Cancel
<1>26. CASE Replay
  BY <1>26, ReplayBounded
<1>27. ASSUME NEW t, Skip(t) \/ Override(t) PROVE Bounded'
  <2>1. Calms(project, SkipTask(project, t, "manual")) /\ Calms(project, OverrideTask(project, t))
    BY <1>1, MethodsCalm
  <2> QED BY <1>24, <1>27, <2>1 DEF Skip, Override
<1>28. CASE UNCHANGED vars
  BY <1>28 DEF vars, Bounded
<1> QED
  BY <1>8, <1>9, <1>10, <1>11, <1>12, <1>13, <1>14, <1>15, <1>16, <1>17, <1>18, <1>19,
     <1>20, <1>21, <1>23, <1>25, <1>26, <1>27, <1>28
  DEF Next, Runtime, Agent, Fault, Operator

\* Retries are bounded across executions, restarts and operators' calls: until a
\* first repair cycle is counted, a task is tried once, as often again as it may be
\* retried, and once more for every crash or interrupt, whatever the state file held
\* when it came.
THEOREM RetriesAreBounded == Spec => []AttemptsBounded
<1>1. Init => BoundInv
  <2>1. ASSUME NEW i \in DOMAIN InitialProject.tasks
        PROVE  InitialProject.tasks[i].attempts = 0 /\ RetryLimit[i[1]] \in Nat
    <3>1. PICK o \in Original : i = OriginalId(o)
      BY InitialIsStructured
    <3>2. InitialProject.tasks[i] = NewTask({OriginalId(d) : d \in Dependencies[o]})
      BY <3>1, InitialIsStructured
    <3> QED BY <3>1, <3>2, WorkflowAssumption DEF NewTask, OriginalId
  <2> QED BY <2>1 DEF Init, BoundInv, Bounded, AttemptsWithin, RecordWithin
<1>2. TypeInv /\ CyclesSaved /\ PlainInv /\ BoundInv /\ [Next]_vars => BoundInv'
  <2> SUFFICES ASSUME TypeInv, CyclesSaved, PlainInv, BoundInv, [Next]_vars, project'.cycles = 0
               PROVE  Bounded'
    BY DEF BoundInv
  <2>1. CASE Replay
    BY <2>1, ReplayBounded
  <2>2. CASE ~Replay
    <3>1. ~ResumeWithRepair
      BY ResumeCounts
    <3>2. project.cycles = 0
      BY <2>2, <3>1, OnlyResumeCountsCycles
    <3> QED BY <3>1, <3>2, BoundStep DEF BoundInv
  <2> QED BY <2>1, <2>2
<1>3. BoundInv => AttemptsBounded
  BY DEF BoundInv, Bounded, AttemptsWithin, RecordWithin, AttemptsBounded
<1> QED BY <1>1, <1>2, <1>3, TypeInvHolds, CyclesSavedHolds, PlainInvHolds, PTL DEF Spec

-----------------------------------------------------------------------------
(* The order of work, before the first repair cycle.                       *)

\* The tasks that are done.
Done(p) == WithStatus(p, {"done"})
\* The tasks that are over without being done.
Over(p) == WithStatus(p, {"failed", "skipped"})

\* What is done, or being done, depends on nothing that is not done.
Ordered(p) ==
  \A i \in Done(p) \cup Running(p) : p.tasks[i].deps \subseteq Done(p)

\* What is pending waits for nothing that is over without being done, but for
\* the tasks of X.
WaitsForNothingOver(p, X) ==
  \A i \in Pending(p) : p.tasks[i].deps \cap Over(p) \subseteq X

\* What holds of a project, as long as no operator intervenes, when the failure
\* of the tasks of X has not yet been dealt with.
Sound(p, X) ==
  /\ Ordered(p)
  /\ ~Cancelled(p)
  /\ FailurePolicy = "continue" => /\ WaitsForNothingOver(p, X)
                                   /\ p.failure # "blocked"

\* The runnable tasks, in terms of what is pending and what is done.
LEMMA RunnableMeans ==
  ASSUME NEW p
  PROVE  Runnable(p) = {i \in Pending(p) : p.tasks[i].deps \subseteq Done(p)}
BY DEF Runnable, Ready, Pending, Done, WithStatus

\* Where the tasks stand once one of them has been given a new record.
LEMMA OneTaskMoves ==
  ASSUME NEW p, IsProject(p), NEW t \in DOMAIN p.tasks, NEW r, NEW q,
         q.tasks = [p.tasks EXCEPT ![t] = r]
  PROVE  \A S : WithStatus(q, S) = (WithStatus(p, S) \ {t}) \cup (IF r.status \in S THEN {t} ELSE {})
<1>1. p.tasks = [j \in DOMAIN p.tasks |-> p.tasks[j]]
  BY DEF IsProject, IsTable
<1>2. /\ DOMAIN q.tasks = DOMAIN p.tasks
      /\ \A j \in DOMAIN p.tasks : q.tasks[j] = IF j = t THEN r ELSE p.tasks[j]
  BY <1>1
<1> QED BY <1>2 DEF WithStatus

\* A project stays in order when nothing that was done is undone, and only what
\* depends on nothing but done tasks comes to be done or running.
LEMMA OrderKept ==
  ASSUME NEW p, NEW q, SameGraph(p, q), Ordered(p), Done(p) \subseteq Done(q),
         \A i \in Done(q) \cup Running(q) :
           i \in Done(p) \cup Running(p) \/ p.tasks[i].deps \subseteq Done(p)
  PROVE  /\ Ordered(q)
         /\ \A i \in Runnable(p) : i \in Pending(q) => i \in Runnable(q)
<1>1. \A i \in DOMAIN q.tasks : q.tasks[i].deps = p.tasks[i].deps
  BY DEF SameGraph
<1>2. Ordered(q)
  BY <1>1 DEF Ordered, Done, Running, WithStatus
<1>3. \A i \in Runnable(p) : i \in Pending(q) => i \in Runnable(q)
  BY <1>1, RunnableMeans DEF Pending, WithStatus
<1> QED BY <1>2, <1>3

\* No task has two statuses.
LEMMA OneStatus ==
  ASSUME NEW p
  PROVE  /\ Done(p) \cap Running(p) = {} /\ Done(p) \cap Pending(p) = {}
         /\ Done(p) \cap Over(p) = {} /\ Pending(p) \cap Running(p) = {}
         /\ Pending(p) \cap Over(p) = {} /\ Running(p) \cap Over(p) = {}
BY DEF Done, Over, Running, Pending, WithStatus

\* A runnable task is started in order.
LEMMA StartInOrder ==
  ASSUME NEW p, IsProject(p), Plain(p), NEW t \in Runnable(p), Sound(p, {}),
         NEW q, q = StartTask(p, t)
  PROVE  /\ Sound(q, {}) /\ t \in Running(q)
         /\ Runnable(p) \ {t} \subseteq Runnable(q)
<1>1. t \in DOMAIN p.tasks /\ t \in Pending(p) /\ p.tasks[t].deps \subseteq Done(p)
  BY RunnableMeans DEF Pending, WithStatus
<1>2. q.tasks = [p.tasks EXCEPT ![t] = StartedRecord(p.tasks[t])]
  BY <1>1, PlainStart
<1>3. StartedRecord(p.tasks[t]).status = "running"
  BY <1>1, Entry, AttemptsOfRecords
<1>4. /\ Done(q) = Done(p) /\ Running(q) = Running(p) \cup {t}
      /\ Pending(q) = Pending(p) \ {t} /\ Over(q) = Over(p)
  <2>1. \A S : WithStatus(q, S) = (WithStatus(p, S) \ {t}) \cup (IF "running" \in S THEN {t} ELSE {})
    BY <1>1, <1>2, <1>3, OneTaskMoves
  <2>2. t \notin Done(p) /\ t \notin Over(p)
    BY <1>1, OneStatus
  <2> QED BY <2>1, <2>2 DEF Done, Running, Pending, Over
<1>5. SameGraph(p, q)
  BY TaskMethodsKeepGraph
<1>6. Ordered(q) /\ \A i \in Runnable(p) : i \in Pending(q) => i \in Runnable(q)
  BY <1>1, <1>4, <1>5, OrderKept DEF Sound
<1>7. Runnable(p) \ {t} \subseteq Runnable(q)
  BY <1>4, <1>6, RunnableMeans
<1>8. q.phase = p.phase /\ q.outcome = p.outcome /\ q.failure = p.failure
  BY DEF StartTask, IsProject, ProjectRecord
<1>9. WaitsForNothingOver(p, {}) => WaitsForNothingOver(q, {})
  BY <1>4, <1>5 DEF WaitsForNothingOver, SameGraph, Pending, WithStatus
<1> QED BY <1>4, <1>6, <1>7, <1>8, <1>9 DEF Sound, Cancelled

\* So is a running one completed.
LEMMA CompleteInOrder ==
  ASSUME NEW p, IsProject(p), Plain(p), NEW t \in Running(p), Sound(p, {}),
         NEW q, q = CompleteTask(p, t)
  PROVE  Sound(q, {}) /\ Runnable(p) \subseteq Runnable(q)
<1>1. t \in DOMAIN p.tasks
  BY DEF Running, WithStatus
<1>2. q.tasks = [p.tasks EXCEPT ![t] = DoneRecord(p.tasks[t], NoContext)]
  BY <1>1, PlainCompletion
<1>3. DoneRecord(p.tasks[t], NoContext).status = "done"
  <2>1. p.tasks[t] \in TaskRecord
    BY <1>1, Entry
  <2> QED BY <2>1 DEF DoneRecord, TaskRecord
<1>4. /\ Done(q) = Done(p) \cup {t} /\ Running(q) = Running(p) \ {t}
      /\ Pending(q) = Pending(p) /\ Over(q) = Over(p)
  <2>1. \A S : WithStatus(q, S) = (WithStatus(p, S) \ {t}) \cup (IF "done" \in S THEN {t} ELSE {})
    BY <1>1, <1>2, <1>3, OneTaskMoves
  <2>2. t \notin Pending(p) /\ t \notin Over(p)
    BY <1>1, OneStatus
  <2>3. Done(q) = Done(p) \cup {t} /\ Running(q) = Running(p) \ {t}
    BY <2>1 DEF Done, Running
  <2>4. Pending(q) = Pending(p) /\ Over(q) = Over(p)
    BY <2>1, <2>2 DEF Pending, Over
  <2> QED BY <2>3, <2>4
<1>5. SameGraph(p, q)
  BY TaskMethodsKeepGraph
<1>6. Ordered(q) /\ \A i \in Runnable(p) : i \in Pending(q) => i \in Runnable(q)
  BY <1>4, <1>5, OrderKept DEF Sound
<1>7. Runnable(p) \subseteq Runnable(q)
  BY <1>4, <1>6, RunnableMeans
<1>8. q.phase = p.phase /\ q.outcome = p.outcome /\ q.failure = p.failure
  BY DEF CompleteTask, IsProject, ProjectRecord
<1>9. WaitsForNothingOver(p, {}) => WaitsForNothingOver(q, {})
  BY <1>4, <1>5 DEF WaitsForNothingOver, SameGraph, Pending, WithStatus
<1> QED BY <1>6, <1>7, <1>8, <1>9 DEF Sound, Cancelled

\* So does it fail, but what waits for it may now wait for ever.
LEMMA FailInOrder ==
  ASSUME NEW p, IsProject(p), Plain(p), NEW t \in Running(p), Sound(p, {}), NEW c, NEW e,
         NEW q, q = FailTask(p, t, c, e)
  PROVE  /\ Sound(q, {t}) /\ Runnable(p) \subseteq Runnable(q)
         /\ t \notin Done(q)
         /\ t \in Pending(q) => t \in Runnable(q) /\ Sound(q, {})
<1> DEFINE s == IF ~RetriesLeft(p, t) THEN "failed" ELSE "pending"
           r == FailedRecord(p.tasks[t], s, c, IF ~RetriesLeft(p, t) THEN e ELSE p.tasks[t].evidence)
<1>1. t \in DOMAIN p.tasks /\ p.tasks[t].deps \subseteq Done(p)
  BY DEF Running, WithStatus, Sound, Ordered
<1>2. q.tasks = [p.tasks EXCEPT ![t] = r]
  BY <1>1, PlainFailure DEF FailedTable
<1>3. r.status = s /\ s \in {"failed", "pending"}
  BY <1>1, Entry, AttemptsOfRecords
<1>4. \A S : WithStatus(q, S) = (WithStatus(p, S) \ {t}) \cup (IF s \in S THEN {t} ELSE {})
  <2> HIDE DEF r, s
  <2> QED BY <1>1, <1>2, <1>3, OneTaskMoves
<1>5. /\ q.phase = p.phase /\ q.outcome = p.outcome /\ q.failure = p.failure
      /\ SameGraph(p, q)
  BY TaskMethodsKeepGraph DEF FailTask, IsProject, ProjectRecord
<1> HIDE DEF s, r
<1>6. /\ Done(q) = Done(p) /\ Running(q) = Running(p) \ {t}
      /\ s = "pending" => Pending(q) = Pending(p) \cup {t} /\ Over(q) = Over(p)
      /\ s = "failed" => Pending(q) = Pending(p) /\ Over(q) = Over(p) \cup {t}
  <2>1. t \notin Pending(p) /\ t \notin Over(p) /\ t \notin Done(p)
    BY OneStatus
  <2> QED BY <1>3, <1>4, <2>1 DEF Done, Running, Pending, Over
<1>7. Ordered(q) /\ \A i \in Runnable(p) : i \in Pending(q) => i \in Runnable(q)
  BY <1>5, <1>6, OrderKept DEF Sound
<1>8. Runnable(p) \subseteq Runnable(q) /\ t \notin Done(q)
  BY <1>3, <1>6, <1>7, OneStatus, RunnableMeans
<1>9. q.tasks[t].deps = p.tasks[t].deps /\ \A i \in Pending(p) : q.tasks[i].deps = p.tasks[i].deps
  BY <1>1, <1>5 DEF SameGraph, Pending, WithStatus
<1>10. t \in Pending(q) => t \in Runnable(q) /\ s = "pending"
  BY <1>1, <1>3, <1>6, <1>9, OneStatus, RunnableMeans
<1>11. WaitsForNothingOver(p, {}) => WaitsForNothingOver(q, {t})
  BY <1>1, <1>3, <1>6, <1>9, OneStatus DEF WaitsForNothingOver
<1>12. s = "pending" /\ WaitsForNothingOver(p, {}) => WaitsForNothingOver(q, {})
  BY <1>1, <1>6, <1>9, OneStatus DEF WaitsForNothingOver
<1> QED BY <1>5, <1>7, <1>8, <1>10, <1>11, <1>12 DEF Sound, Cancelled

\* Skipping what depends on a failed task skips nothing that could run, for what
\* is skipped has an undone dependency, and leaves nothing waiting for what is
\* over.
LEMMA SkipInOrder ==
  ASSUME NEW p, IsProject(p), IsFiniteSet(DOMAIN p.tasks), NEW t \in DOMAIN p.tasks,
         t \notin Done(p), t \in Pending(p) => t \in Runnable(p), Sound(p, {t}),
         NEW q, q = SkipDependents(p, t)
  PROVE  Sound(q, {}) /\ Runnable(p) \subseteq Runnable(q)
<1> DEFINE known == DOMAIN p.tasks
           R == Reach(p.tasks, {t}, known)
           doomed == (R \ {t}) \cap Pending(p)
           S == {t} \cup {j \in known : ~(p.tasks[j].deps \subseteq Done(p))}
           r(j) == SkippedRecord(p.tasks[j], "dependency_failed", NoContext)
<1>1. IsFiniteSet(known)
  OBVIOUS
<1>2. R \subseteq S
  <2>1. IsClosed(p.tasks, known, S)
    <3>1. \A d \in S : d \notin Done(p)
      BY DEF Sound, Ordered
    <3> QED BY <3>1 DEF IsClosed
  <2> QED BY <1>1, <2>1, ReachIsLeast
<1>3. t \in R /\ IsClosed(p.tasks, known, R)
  BY <1>1, ReachIsClosed
<1>4. q.tasks = [j \in known |-> IF j \in doomed THEN r(j) ELSE p.tasks[j]]
  BY TableOf DEF SkipDependents, Descendants
<1>5. ASSUME NEW j \in known PROVE r(j).status = "skipped"
  BY <1>5, Entry, AttemptsOfRecords
<1>6. q.phase = p.phase /\ q.outcome = p.outcome /\ q.failure = p.failure /\ SameGraph(p, q)
  BY TaskMethodsKeepGraph DEF SkipDependents, IsProject, ProjectRecord
<1>7. doomed \cap Runnable(p) = {}
  BY <1>2, RunnableMeans
<1> HIDE DEF r, R, S
<1>8. \A V : WithStatus(q, V) = (WithStatus(p, V) \ doomed) \cup (IF "skipped" \in V THEN doomed ELSE {})
  <2>1. doomed \subseteq known
    BY DEF Pending, WithStatus
  <2>2. DOMAIN q.tasks = known
    BY <1>4
  <2>3. \A j \in known : q.tasks[j].status = IF j \in doomed THEN "skipped" ELSE p.tasks[j].status
    BY <1>4, <1>5
  <2> HIDE DEF doomed
  <2> QED BY <2>1, <2>2, <2>3 DEF WithStatus
<1>9. doomed \cap Done(p) = {} /\ doomed \cap Running(p) = {}
  BY OneStatus
<1>10. doomed \subseteq Pending(p) /\ doomed \subseteq R
  OBVIOUS
<1>11. \A i \in Pending(p) : i \in R => i \in doomed \/ i = t
  OBVIOUS
<1> HIDE DEF doomed
<1>12. Done(q) = Done(p) /\ Running(q) = Running(p)
  BY <1>8, <1>9 DEF Done, Running
<1>13. Pending(q) = Pending(p) \ doomed /\ Over(q) = Over(p) \cup doomed
  <2>1. Pending(q) = Pending(p) \ doomed
    BY <1>8 DEF Pending
  <2>2. doomed \cap Over(p) = {}
    BY <1>10, OneStatus
  <2>3. Over(q) = Over(p) \cup doomed
    BY <1>8, <2>2 DEF Over
  <2> QED BY <2>1, <2>3
<1>14. Ordered(q) /\ \A i \in Runnable(p) : i \in Pending(q) => i \in Runnable(q)
  BY <1>6, <1>12, OrderKept DEF Sound
<1>15. Runnable(p) \subseteq Runnable(q)
  BY <1>7, <1>13, <1>14, RunnableMeans
<1>16. ASSUME WaitsForNothingOver(p, {t}), NEW i \in Pending(q), NEW d \in q.tasks[i].deps, d \in Over(q)
       PROVE  FALSE
  <2>1. i \in Pending(p) /\ i \notin doomed /\ i \in known
    BY <1>13, <1>16 DEF Pending, WithStatus
  <2>2. d \in p.tasks[i].deps
    BY <1>6, <1>16, <2>1 DEF SameGraph
  <2>3. d \in R /\ (d = t \/ d \in doomed)
    BY <1>3, <1>10, <1>13, <1>16, <2>1, <2>2 DEF WaitsForNothingOver
  <2>4. i \in R
    BY <1>3, <2>1, <2>2, <2>3 DEF IsClosed
  <2>5. i = t /\ t \in Pending(p) /\ d \in Done(p)
    BY <1>11, <2>1, <2>2, <2>4, RunnableMeans
  <2>6. d \in Pending(p)
    BY <1>10, <2>3, <2>5
  <2> QED BY <2>5, <2>6, OneStatus
<1>17. WaitsForNothingOver(p, {t}) => WaitsForNothingOver(q, {})
  BY <1>16 DEF WaitsForNothingOver
<1> QED BY <1>6, <1>14, <1>15, <1>17 DEF Sound, Cancelled

\* Requeuing what an interruption left running is sound: its dependencies were
\* done when it started.
LEMMA ResumeInOrder ==
  ASSUME NEW p, IsProject(p), Sound(p, {}), NEW q, q = ResumeInterrupted(p)
  PROVE  Sound(q, {})
<1>1. CASE Running(p) = {}
  BY <1>1 DEF ResumeInterrupted, Running
<1>2. CASE Running(p) # {}
  <2> DEFINE r(j) == [p.tasks[j] EXCEPT !.status = "pending", !.category = "none"]
  <2>1. q.tasks = [j \in DOMAIN p.tasks |-> IF j \in Running(p) THEN r(j) ELSE p.tasks[j]]
    BY <1>2, TableOf DEF ResumeInterrupted, Running
  <2>2. ASSUME NEW j \in DOMAIN p.tasks PROVE r(j).status = "pending"
    BY <2>2, Entry, AttemptsOfRecords
  <2>3. q.phase = p.phase /\ q.outcome = p.outcome /\ q.failure = p.failure /\ SameGraph(p, q)
    BY WorkflowMethodsKeepGraph DEF ResumeInterrupted, IsProject, ProjectRecord
  <2> HIDE DEF r
  <2>4. \A V : WithStatus(q, V) = (WithStatus(p, V) \ Running(p)) \cup (IF "pending" \in V THEN Running(p) ELSE {})
    BY <2>1, <2>2 DEF Running, WithStatus
  <2>5. Running(p) \cap Done(p) = {} /\ Running(p) \cap Over(p) = {}
    BY OneStatus
  <2>6. Done(q) = Done(p) /\ Over(q) = Over(p)
    BY <2>4, <2>5 DEF Done, Over
  <2>7. Running(q) = {} /\ Pending(q) = Pending(p) \cup Running(p)
    <3>1. Running(q) = {}
      BY <2>4 DEF Running
    <3>2. Running(p) \cap Pending(p) = {}
      BY OneStatus
    <3>3. Pending(q) = Pending(p) \cup Running(p)
      BY <2>4, <3>2 DEF Pending
    <3> QED BY <3>1, <3>3
  <2>8. Ordered(q)
    BY <2>3, <2>6, <2>7, OrderKept DEF Sound
  <2>9. \A i \in Pending(q) : q.tasks[i].deps = p.tasks[i].deps
    BY <2>3 DEF SameGraph, Pending, WithStatus
  <2>10. WaitsForNothingOver(p, {}) => WaitsForNothingOver(q, {})
    BY <2>5, <2>6, <2>7, <2>9, OneStatus DEF WaitsForNothingOver, Sound, Ordered
  <2> QED BY <2>3, <2>8, <2>10 DEF Sound, Cancelled
<1> QED BY <1>1, <1>2

\* A project with the same tasks that was not cancelled or blocked is as sound.
LEMMA SoundTable ==
  ASSUME NEW p, NEW X, Sound(p, X), NEW q, q.tasks = p.tasks, ~Cancelled(q),
         q.failure # "blocked" \/ FailurePolicy # "continue" \/ q.failure = p.failure
  PROVE  Sound(q, X) /\ Runnable(q) = Runnable(p) /\ Running(q) = Running(p)
<1>1. \A S : WithStatus(q, S) = WithStatus(p, S)
  BY DEF WithStatus
<1>2. /\ Done(q) = Done(p) /\ Running(q) = Running(p) /\ Pending(q) = Pending(p)
      /\ Over(q) = Over(p)
  BY <1>1 DEF Done, Running, Pending, Over
<1>3. Runnable(q) = Runnable(p)
  BY <1>2, RunnableMeans
<1>4. Ordered(p) => Ordered(q)
  BY <1>2 DEF Ordered
<1>5. WaitsForNothingOver(p, X) => WaitsForNothingOver(q, X)
  BY <1>2 DEF WaitsForNothingOver
<1> QED BY <1>2, <1>3, <1>4, <1>5 DEF Sound

\* The project that a run of execute_workflow keeps in order until an operator
\* intervenes or a cycle is counted: what it has listed can run, and what its agent
\* works on is running.
OrderInv ==
  calls = 0 /\ project.cycles = 0 =>
    /\ Sound(project, {})
    /\ Sound(disk, {})
    /\ frontier \subseteq Runnable(project)
    /\ pc = "agent" => current \in Running(project)

\* A step that replaces a sound project by a sound one.
LEMMA SoundStep ==
  ASSUME NEW q, Sound(q, {}), Sound(disk, {}), SaveAs(q) \/ Keep(q),
         frontier' \subseteq Runnable(q), pc' = "agent" => current' \in Running(q)
  PROVE  OrderInv'
BY DEF OrderInv, SaveAs, Keep

\* A workflow finishes soundly, unless it is cancelled or blocked.
LEMMA FinishInOrder ==
  ASSUME NEW p, IsProject(p), NEW X, Sound(p, X), NEW a, NEW b, NEW c,
         a # "cancelled", b # "cancelled", c # "blocked" \/ FailurePolicy # "continue"
  PROVE  Sound(MarkFinished(p, a, b, c), X)
<1> DEFINE q == MarkFinished(p, a, b, c)
<1>1. q.tasks = p.tasks /\ q.phase = a /\ q.outcome = b /\ q.failure = c
  BY DEF MarkFinished, IsProject, ProjectRecord
<1> HIDE DEF q
<1> QED BY <1>1, SoundTable DEF Cancelled, q

\* The end of an execution with a sound workflow failed.
LEMMA StopFailedInOrder ==
  ASSUME NEW p, IsProject(p), Sound(p, {}), Sound(disk, {}), NEW f,
         f # "blocked" \/ FailurePolicy # "continue", StopFailed(p, f)
  PROVE  OrderInv'
<1>1. Sound(MarkFinished(p, "failed", "failed", f), {})
  BY FinishInOrder
<1>2. frontier' = {} /\ pc' = "idle" /\ SaveAs(MarkFinished(p, "failed", "failed", f))
  BY DEF StopFailed, Stop, Goto
<1> QED BY <1>1, <1>2, SoundStep

\* Every way in which dispatch_task_failure may decide before a cycle is counted.
LEMMA HandleFailureInOrder ==
  ASSUME Sound(disk, {}), NEW p, IsProject(p), IsFiniteSet(DOMAIN p.tasks), p.cycles = 0,
         NEW t \in DOMAIN p.tasks, t \notin Done(p), Sound(p, {t}),
         t \in Pending(p) => t \in Runnable(p) /\ Sound(p, {}),
         NEW category \in Categories, NEW left, left \subseteq Runnable(p),
         HandleFailure(p, t, category, left)
  PROVE  OrderInv'
<1>1. ~CanChainRepair(p, t)
  BY DEF CanChainRepair
<1>2. ASSUME NEW q, Sound(q, {}), Runnable(p) \subseteq Runnable(q), ContinueWith(q, left)
      PROVE  OrderInv'
  <2>1. SaveAs(q) /\ frontier' = left /\ pc' = "frontier"
    BY <1>2 DEF ContinueWith, Goto
  <2> QED BY <1>2, <2>1, SoundStep
<1>3. CASE ShouldRetry(p, t) /\ ContinueWith(p, left)
  <2>1. t \in Pending(p)
    BY <1>3 DEF ShouldRetry, Pending, WithStatus
  <2> QED BY <1>2, <1>3, <2>1
<1>4. CASE ContinueWith(SkipDependents(p, t), left)
  BY <1>2, <1>4, SkipInOrder
<1>5. CASE FailurePolicy = "fail_fast" /\ StopFailed(p, category)
  <2>1. Sound(p, {})
    BY <1>5 DEF Sound
  <2> QED BY <1>5, <2>1, StopFailedInOrder
<1> QED BY <1>1, <1>3, <1>4, <1>5 DEF HandleFailure

\* Every step of an execution keeps its workflow in order.
LEMMA OrderStep ==
  ASSUME TypeInv, AttemptsInv, GraphInv, DepsExistInv, CyclesSaved, PlainInv, OrderInv,
         [Next]_vars
  PROVE  OrderInv'
<1> SUFFICES ASSUME calls' = 0, project'.cycles = 0 PROVE OrderInv'
  BY DEF OrderInv
<1> DEFINE p == ResumeInterrupted(project)
           s == SkipSuperseded(project)
<1>1. /\ IsProject(project) /\ IsProject(disk) /\ calls \in Nat
      /\ IsFiniteSet(DOMAIN project.tasks)
      /\ frontier \subseteq DOMAIN project.tasks
      /\ pc \notin {"frontier", "agent"} => frontier = {}
  BY PolicyAssumption DEF TypeInv, TypeOK, FrontierIsLocal, GraphInv, IsStructured
<1>2. calls = 0 /\ ~Operator
  <2>1. Operator => calls' = calls + 1
    BY DEF Operator, Pause, Resume, Cancel, Replay, Skip, Override, Operate
  <2> QED BY <1>1, <2>1, CallsCount
<1>3. ~ResumeWithRepair /\ project.cycles = 0
  BY <1>2, ResumeCounts, OnlyResumeCountsCycles DEF Operator
<1>4. /\ Sound(project, {}) /\ Sound(disk, {}) /\ ~Cancelled(project)
      /\ frontier \subseteq Runnable(project)
      /\ pc = "agent" => current \in Running(project)
      /\ Plain(project) /\ DepsExist(project)
  BY <1>2, <1>3 DEF OrderInv, Sound, PlainInv, DepsExistInv
<1>5. IsProject(p) /\ Sound(p, {})
  BY <1>1, <1>4, ResumeInOrder, ResumeInterruptedType
<1>6. IsProject(s) /\ s.tasks = project.tasks /\ Sound(s, {})
  <2>1. IsProject(s) /\ s.tasks = project.tasks
    BY <1>1, <1>4, SkipSupersededType, NothingSuperseded
  <2>2. s.phase = project.phase /\ s.outcome = project.outcome /\ s.failure = project.failure
    BY <1>1 DEF SkipSuperseded, IsProject, ProjectRecord
  <2> HIDE DEF s
  <2> QED BY <1>4, <2>1, <2>2, SoundTable DEF Cancelled
<1>7. ASSUME NEW q, Sound(q, {}), SaveAs(q) \/ Keep(q), frontier' = {}, pc' # "agent"
      PROVE  OrderInv'
  BY <1>4, <1>7, SoundStep
<1> HIDE DEF p, s
<1>8. CASE Execute
  <2> DEFINE q == [project EXCEPT !.budget = MaxRepairCycles]
  <2>1. Keep(q) /\ frontier' = {} /\ pc' = "resume"
    BY <1>1, <1>4, <1>8 DEF Execute, Goto
  <2>2. /\ q.tasks = project.tasks /\ q.phase = project.phase /\ q.outcome = project.outcome
        /\ q.failure = project.failure
    BY <1>1 DEF IsProject, ProjectRecord
  <2> HIDE DEF q
  <2>3. Sound(q, {})
    BY <1>4, <2>2, SoundTable DEF Cancelled
  <2> QED BY <1>7, <2>1, <2>3
<1>9. CASE ResumeWithoutRepair
  <2>1. (SaveAs(p) \/ Keep(p)) /\ frontier' = {} /\ pc' = "activate"
    BY <1>1, <1>9 DEF ResumeWithoutRepair, Goto, p
  <2> QED BY <1>5, <1>7, <2>1
<1>10. CASE RefuseRepair
  <2>1. StopFailed(p, "sandbox") \/ StopFailed(p, "repair_budget_exhausted")
    BY <1>10 DEF RefuseRepair, p
  <2> QED BY <1>4, <1>5, <2>1, StopFailedInOrder
<1>11. CASE Activate
  <2> DEFINE q == EnsureRunning(project)
  <2>1. Sound(q, {})
    <3> DEFINE m == MarkRunning(project, MaxRepairCycles)
    <3>1. m.tasks = project.tasks /\ m.phase = "execution" /\ m.outcome = "none" /\ m.failure = "none"
      BY <1>1 DEF MarkRunning, IsProject, ProjectRecord
    <3> HIDE DEF m
    <3>2. Sound(m, {})
      BY <1>4, <3>1, SoundTable DEF Cancelled
    <3> QED BY <1>4, <3>2 DEF EnsureRunning, m
  <2>2. (SaveAs(project) \/ Keep(q)) /\ frontier' = {} /\ pc' # "agent"
    BY <1>1, <1>11 DEF Activate, Stop, Goto
  <2> QED BY <1>4, <1>7, <2>1, <2>2
<1>12. CASE LoopExit
  BY <1>4, <1>6, <1>7, <1>12 DEF LoopExit, Stop, Goto, s
<1>13. CASE Finish
  <2>1. \A o \in {"completed", "degraded"} : Sound(MarkFinished(s, "completed", o, "none"), {})
    BY <1>6, FinishInOrder
  <2>2. /\ \E o \in {"completed", "degraded"} : SaveAs(MarkFinished(s, "completed", o, "none"))
        /\ frontier' = {} /\ pc' = "idle"
    BY <1>13 DEF Finish, Stop, Goto, s
  <2> QED BY <1>7, <2>1, <2>2
<1>14. CASE Blocked
  <2>1. PICK f : StopFailed(s, f)
    BY <1>14 DEF Blocked, s
  <2>2. project'.tasks = project.tasks
    BY <1>6, <2>1 DEF StopFailed, SaveAs, MarkFinished, IsProject, ProjectRecord
  <2>3. PICK i \in Pending(project') : \E d \in project'.tasks[i].deps :
               StatusOf(project', d) \in {"failed", "skipped"}
    BY <1>14, BlockedBySomeTask
  <2>4. PICK d \in project.tasks[i].deps : project.tasks[d].status \in {"failed", "skipped"}
    BY <2>2, <2>3 DEF StatusOf
  <2>5. i \in Pending(project) /\ i \in DOMAIN project.tasks
    BY <2>2, <2>3 DEF Pending, WithStatus
  <2>6. d \in Over(project)
    BY <1>4, <2>4, <2>5 DEF Over, WithStatus, DepsExist
  <2>7. FailurePolicy # "continue"
    BY <1>4, <2>4, <2>5, <2>6 DEF Sound, WaitsForNothingOver
  <2> QED BY <1>4, <1>6, <2>1, <2>7, StopFailedInOrder
<1>15. CASE SelectFrontier
  <2>1. Keep(s) /\ frontier' = Runnable(s) /\ pc' = "frontier"
    BY <1>15 DEF SelectFrontier, Goto, s
  <2> QED BY <1>4, <1>6, <2>1, SoundStep
<1>16. CASE FrontierDone
  <2>1. Keep(project) /\ frontier' = {} /\ pc' = "loop"
    BY <1>16 DEF FrontierDone, Goto, Keep
  <2> QED BY <1>4, <1>7, <2>1
<1>17. CASE FrontierExit
  BY <1>4, <1>7, <1>17 DEF FrontierExit, Stop, Goto
<1>18. ASSUME NEW t \in frontier, Dispatch(t) PROVE OrderInv'
  <2> DEFINE q == StartTask(project, t)
  <2>1. Keep(q) /\ frontier' = frontier \ {t} /\ current' = t /\ pc' = "agent"
    BY <1>18 DEF Dispatch, Goto
  <2>2. Sound(q, {}) /\ t \in Running(q) /\ Runnable(project) \ {t} \subseteq Runnable(q)
    BY <1>1, <1>4, StartInOrder
  <2> HIDE DEF q
  <2>3. frontier \ {t} \subseteq Runnable(q)
    BY <1>4, <2>2
  <2> QED BY <1>4, <2>1, <2>2, <2>3, SoundStep
<1>19. ASSUME NEW t \in frontier, DispatchUnknownAgent(t) PROVE OrderInv'
  <2>1. HandleFailure(project, t, "execution", frontier \ {t}) /\ "execution" \in Categories
    BY <1>19 DEF DispatchUnknownAgent, Categories
  <2>2. t \in Runnable(project) /\ t \in DOMAIN project.tasks /\ t \notin Done(project)
    BY <1>1, <1>4, RunnableMeans, OneStatus
  <2>3. Sound(project, {t})
    BY <1>4 DEF Sound, WaitsForNothingOver
  <2>4. frontier \ {t} \subseteq Runnable(project)
    BY <1>4
  <2> QED BY <1>1, <1>4, <1>3, <2>1, <2>2, <2>3, <2>4, HandleFailureInOrder
<1>20. CASE AgentSucceeds
  <2> DEFINE q == CompleteTask(project, current)
  <2>1. pc = "agent" /\ ContinueWith(q, frontier)
    BY <1>20 DEF AgentSucceeds
  <2>2. Sound(q, {}) /\ Runnable(project) \subseteq Runnable(q)
    BY <1>1, <1>4, <2>1, CompleteInOrder
  <2> HIDE DEF q
  <2>3. SaveAs(q) /\ frontier' \subseteq Runnable(q) /\ pc' = "frontier"
    BY <1>4, <2>1, <2>2 DEF ContinueWith, Goto
  <2> QED BY <1>4, <2>2, <2>3, SoundStep
<1>21. ASSUME NEW f \in FailureModes, AgentFails(f) PROVE OrderInv'
  <2> DEFINE q == FailTask(project, current, f.category, f.evidence)
  <2>1. f.category \in Categories /\ f.evidence \in SUBSET Evidence
    BY PolicyAssumption DEF AllFailures, Categories
  <2>2. current \in Running(project) /\ current \in DOMAIN project.tasks
    BY <1>4, <1>21 DEF AgentFails, Running, WithStatus
  <2>3. IsProject(q) /\ DOMAIN q.tasks = DOMAIN project.tasks
    BY <1>1, <2>1, <2>2, FailTaskType
  <2>4. /\ Sound(q, {current}) /\ Runnable(project) \subseteq Runnable(q)
        /\ current \notin Done(q)
        /\ current \in Pending(q) => current \in Runnable(q) /\ Sound(q, {})
    BY <1>1, <1>4, <2>2, FailInOrder
  <2>5. q.cycles = 0
    BY <1>1, <1>3, TasksKeepCycles DEF FailTask
  <2>6. Cancelled(q) \/ HandleFailure(q, current, f.category, frontier)
    BY <1>21 DEF AgentFails
  <2> HIDE DEF q
  <2>7. HandleFailure(q, current, f.category, frontier) /\ frontier \subseteq Runnable(q)
    BY <1>4, <2>4, <2>6 DEF Sound
  <2> QED BY <1>1, <1>4, <2>1, <2>2, <2>3, <2>4, <2>5, <2>7, HandleFailureInOrder
<1>22. CASE Interrupt \/ Crash
  <2>1. project' \in {project, disk} /\ disk' = disk /\ frontier' = {} /\ pc' = "idle"
    BY <1>22 DEF Interrupt, Crash
  <2> QED BY <1>4, <2>1 DEF OrderInv
<1>23. CASE UNCHANGED vars
  BY <1>23 DEF vars, OrderInv
<1> QED
  BY <1>2, <1>8, <1>9, <1>10, <1>3, <1>11, <1>12, <1>13, <1>14, <1>15, <1>16, <1>17, <1>18, <1>19,
     <1>20, <1>21, <1>22, <1>23
  DEF Next, Runtime, Agent, Fault

\* The order of work holds of every behaviour.
LEMMA OrderInvHolds == Spec => []OrderInv
<1>1. Init => OrderInv
  <2>1. \A i \in DOMAIN InitialProject.tasks : InitialProject.tasks[i].status = "pending"
    BY DEF InitialProject, NewTask
  <2>2. Done(InitialProject) = {} /\ Running(InitialProject) = {} /\ Over(InitialProject) = {}
    BY <2>1 DEF Done, Running, Over, WithStatus
  <2>3. ~Cancelled(InitialProject) /\ InitialProject.failure = "none"
    BY DEF InitialProject, Cancelled
  <2>4. Sound(InitialProject, {})
    BY <2>2, <2>3 DEF Sound, Ordered, WaitsForNothingOver
  <2> QED BY <2>4 DEF Init, OrderInv
<1>2. /\ TypeInv /\ AttemptsInv /\ GraphInv /\ DepsExistInv /\ CyclesSaved /\ PlainInv
      /\ OrderInv /\ [Next]_vars
      => OrderInv'
  BY OrderStep
<1> QED
  BY <1>1, <1>2, TypeInvHolds, AttemptsInvHolds, GraphInvHolds, DepsExistInvHolds,
     CyclesSavedHolds, PlainInvHolds, PTL
  DEF Spec

\* Until an operator intervenes or a repair cycle is counted, a task is started only
\* when it is pending and all it depends on is done, although the list it comes from
\* is older than the attempts made since, crashes and interrupts included.
THEOREM StartsInOrder == Spec => StartsReady
<1>1. OrderInv /\ [Next]_vars =>
        [pc = "frontier" /\ pc' = "agent" /\ calls = 0 /\ project.cycles = 0 =>
           Ready(project, current')]_vars
  <2> SUFFICES ASSUME OrderInv, Next, pc = "frontier", pc' = "agent", calls = 0,
                      project.cycles = 0
               PROVE  Ready(project, current')
    OBVIOUS
  <2>1. ASSUME NEW p, NEW t, NEW category, NEW left, HandleFailure(p, t, category, left)
        PROVE  pc' # "agent"
    BY <2>1 DEF HandleFailure, ContinueWith, StopFailed, Stop, Goto
  <2>2. PICK t \in frontier : Dispatch(t)
    BY <2>1
    DEF Next, Execute, Runtime, ResumeWithoutRepair, RefuseRepair, ResumeWithRepair, Activate,
        LoopExit, Finish, Blocked, SelectFrontier, FrontierDone, FrontierExit,
        DispatchUnknownAgent, StopFailed, Stop, Goto, Agent, AgentSucceeds, AgentFails, Fault,
        Interrupt, Crash, Operator, Pause, Resume, Cancel, Replay, Skip, Override, Operate
  <2>3. t \in Runnable(project) /\ current' = t
    BY <2>2 DEF OrderInv, Dispatch
  <2> QED BY <2>3 DEF Runnable
<1> QED BY <1>1, OrderInvHolds, PTL DEF Spec, StartsReady

\* Under the continue policy no workflow is ever blocked until an operator
\* intervenes or a repair cycle is counted: a failure skips, in the same save,
\* whatever would wait for the failed task, however far behind it.
THEOREM ContinueNeverBlocks ==
  ASSUME FailurePolicy = "continue"
  PROVE  Spec => []NeverBlocked
<1>1. TypeInv /\ OrderInv => NeverBlocked
  <2> SUFFICES ASSUME TypeInv, OrderInv, project.failure = "blocked", project.cycles = 0
               PROVE  calls > 0
    BY DEF NeverBlocked, TypeInv, TypeOK, IsProject, ProjectRecord
  <2>1. calls # 0 /\ calls \in Nat
    BY PolicyAssumption DEF OrderInv, Sound, TypeInv, TypeOK
  <2> QED BY <2>1
<1> QED BY <1>1, TypeInvHolds, OrderInvHolds, PTL

-----------------------------------------------------------------------------
(* What a repair cycle releases.                                           *)

\* What planning leaves of a task, and what it makes.
LEMMA PlannedTable ==
  ASSUME NEW p, IsProject(p), NEW F, F \subseteq DOMAIN p.tasks, NEW c \in Nat,
         NEW i \in DOMAIN p.tasks \cup CycleIds(p, F, c)
  PROVE  LET r == PlanRepairs(p, F, c).tasks[i]
         IN  IF i \in DOMAIN p.tasks
               THEN /\ r.status = p.tasks[i].status
                    /\ r.deps = p.tasks[i].deps \cup AddedDeps(p, F, c, i)
                    /\ r.skip = p.tasks[i].skip
                    /\ r.attempts = p.tasks[i].attempts
               ELSE /\ r.status = "pending"
                    /\ r.deps = InheritedDeps(p, TargetOf(p, F, c, i)) \cup AddedDeps(p, F, c, i)
                    /\ r.attempts = 0
<1> DEFINE q == PlanRepairs(p, F, c)
           D == DOMAIN p.tasks \cup CycleIds(p, F, c)
           Base(j) == IF j \in DOMAIN p.tasks THEN p.tasks[j]
                      ELSE NewTask(InheritedDeps(p, TargetOf(p, F, c, j)))
           Context(j) == IF j \in RepairIds(p, F, c) THEN NewContext(p, F, Origin(j))
                         ELSE IF j \in Targets(p, F) THEN NewContext(p, F, j)
                         ELSE Base(j).context
           E(j) == [Base(j) EXCEPT !.deps = @ \cup AddedDeps(p, F, c, j),
                                   !.context = Context(j)]
           T == [j \in D |-> E(j)]
<1>1. q.tasks = T
  <2>1. q = [p EXCEPT !.tasks = T]
    BY DEF PlanRepairs
  <2> HIDE DEF T, q
  <2> QED BY <2>1, TableOf
<1>2. q.tasks[i] = E(i)
  BY <1>1
<1>3. CASE i \in DOMAIN p.tasks
  <2>1. Base(i) \in TaskRecord /\ Base(i) = p.tasks[i]
    BY <1>3, Entry
  <2>2. /\ E(i).status = Base(i).status /\ E(i).skip = Base(i).skip
        /\ E(i).attempts = Base(i).attempts
        /\ E(i).deps = Base(i).deps \cup AddedDeps(p, F, c, i)
    <3> HIDE DEF Base, Context
    <3> QED BY <2>1 DEF TaskRecord
  <2> HIDE DEF E, Base, q
  <2>3. /\ q.tasks[i].status = p.tasks[i].status /\ q.tasks[i].skip = p.tasks[i].skip
        /\ q.tasks[i].attempts = p.tasks[i].attempts
        /\ q.tasks[i].deps = p.tasks[i].deps \cup AddedDeps(p, F, c, i)
    BY <1>2, <2>1, <2>2
  <2> QED BY <1>3, <2>3 DEF q
<1>4. CASE i \notin DOMAIN p.tasks
  <2>1. /\ Base(i).status = "pending" /\ Base(i).attempts = 0
        /\ Base(i).deps = InheritedDeps(p, TargetOf(p, F, c, i))
        /\ DOMAIN Base(i) = {"status", "attempts", "category", "evidence", "skip", "deps", "context"}
    BY <1>4 DEF NewTask
  <2>2. /\ E(i).status = Base(i).status /\ E(i).attempts = Base(i).attempts
        /\ E(i).deps = Base(i).deps \cup AddedDeps(p, F, c, i)
    <3> HIDE DEF Base, Context
    <3> QED BY <2>1
  <2> HIDE DEF E, Base, q
  <2>3. /\ q.tasks[i].status = "pending" /\ q.tasks[i].attempts = 0
        /\ q.tasks[i].deps = InheritedDeps(p, TargetOf(p, F, c, i)) \cup AddedDeps(p, F, c, i)
    BY <1>2, <2>1, <2>2
  <2> QED BY <1>4, <2>3 DEF q
<1> QED BY <1>3, <1>4

\* The same for the tasks that there were, and for the new ones.
LEMMA PlannedOld ==
  ASSUME NEW p, IsProject(p), NEW F, F \subseteq DOMAIN p.tasks, NEW c \in Nat,
         NEW i \in DOMAIN p.tasks
  PROVE  /\ PlanRepairs(p, F, c).tasks[i].status = p.tasks[i].status
         /\ PlanRepairs(p, F, c).tasks[i].deps = p.tasks[i].deps \cup AddedDeps(p, F, c, i)
BY PlannedTable
LEMMA PlannedNew ==
  ASSUME NEW p, IsProject(p), NEW F, F \subseteq DOMAIN p.tasks, NEW c \in Nat,
         NEW i \in CycleIds(p, F, c), i \notin DOMAIN p.tasks
  PROVE  /\ PlanRepairs(p, F, c).tasks[i].status = "pending"
         /\ PlanRepairs(p, F, c).tasks[i].deps =
              InheritedDeps(p, TargetOf(p, F, c, i)) \cup AddedDeps(p, F, c, i)
BY PlannedTable

\* What is requeued: the named tasks that are at rest, and what waits for them or
\* for the failed ones.
Requeued(p, failed, extra) ==
  LET named == extra \cap WithStatus(p, {"done", "failed", "skipped"})
  IN  named \cup Freed(p, failed \cup named)

\* Requeueing makes these tasks pending and leaves the others alone.
LEMMA RequeuedTable ==
  ASSUME NEW p, IsProject(p), NEW x, NEW y, NEW j \in DOMAIN p.tasks
  PROVE  LET q == ResumeFailed(p, x, y)
         IN  /\ j \in Requeued(p, x, y) => q.tasks[j].status = "pending"
             /\ j \notin Requeued(p, x, y) => q.tasks[j] = p.tasks[j]
             /\ q.tasks[j].deps = p.tasks[j].deps
             /\ j \in Requeued(p, x, y) => p.tasks[j].status \in {"done", "failed", "skipped"}
<1> DEFINE named == y \cap WithStatus(p, {"done", "failed", "skipped"})
           again == named \cup Freed(p, x \cup named)
           r(k) == [p.tasks[k] EXCEPT
                      !.status = "pending", !.category = "none", !.evidence = {},
                      !.skip = "none", !.context = IF k \in named THEN @ ELSE NoContext]
           q == ResumeFailed(p, x, y)
<1>1. q.tasks = [k \in DOMAIN p.tasks |-> IF k \in again THEN r(k) ELSE p.tasks[k]]
  BY TableOf DEF ResumeFailed
<1>2. r(j).status = "pending" /\ r(j).deps = p.tasks[j].deps
  BY Entry DEF TaskRecord
<1>3. again = Requeued(p, x, y)
  BY DEF Requeued
<1>4. j \in again => p.tasks[j].status \in {"done", "failed", "skipped"}
  BY DEF Freed, Waiting, WithStatus
<1> HIDE DEF again, r, q
<1>5. /\ j \in again => q.tasks[j].status = "pending"
      /\ j \notin again => q.tasks[j] = p.tasks[j]
      /\ q.tasks[j].deps = p.tasks[j].deps
  BY <1>1, <1>2
<1> QED BY <1>3, <1>4, <1>5 DEF q

\* A cycle leaves nothing skipped that waits for what it answers or requeues: the
\* requeued tasks are all that can be reached from there.
LEMMA RepairCycleReleases ==
  ASSUME NEW p, IsProject(p), IsFiniteSet(DOMAIN p.tasks), NEW F, F \subseteq DOMAIN p.tasks,
         NEW c \in Nat,
         NEW i \in Waiting(RepairCycle(p, F, c)),
         NEW d \in RepairCycle(p, F, c).tasks[i].deps,
         d \in F \/ (d \in WithStatus(p, {"done", "failed", "skipped"})
                       /\ RepairCycle(p, F, c).tasks[d].status = "pending")
  PROVE  FALSE
<1> DEFINE q == PlanRepairs(p, F, c)
           y == CycleIds(p, F, c)
           r == ResumeFailed(q, F, y)
           named == y \cap WithStatus(q, {"done", "failed", "skipped"})
           R == Reach(q.tasks, F \cup named, Waiting(q))
<1>1. F \in SUBSET DOMAIN p.tasks
  OBVIOUS
<1>2. IsProject(q) /\ DOMAIN q.tasks = DOMAIN p.tasks \cup y
  BY <1>1, PlanRepairsType
<1>3. r = RepairCycle(p, F, c)
  BY DEF RepairCycle
<1>4. DOMAIN r.tasks = DOMAIN q.tasks
  BY <1>2, ResumeFailedType
<1>5. IsFiniteSet(Waiting(q))
  <2>1. IsFiniteSet(DOMAIN p.tasks \cup y)
    BY <1>1, CycleIdsFinite, FS_Union
  <2>2. Waiting(q) \subseteq DOMAIN q.tasks
    BY DEF Waiting, WithStatus
  <2> QED BY <1>2, <2>1, <2>2, FS_Subset
<1>6. Requeued(q, F, y) = named \cup (Waiting(q) \cap R)
  BY DEF Requeued, Freed
<1>7. /\ F \cup named \subseteq R
      /\ \A j \in Waiting(q) : q.tasks[j].deps \cap R # {} => j \in R
  BY <1>5, ReachIsClosed DEF IsClosed
<1>8. d \in WithStatus(p, {"done", "failed", "skipped"}) =>
        d \in DOMAIN p.tasks /\ q.tasks[d].status # "pending"
  BY PlannedTable DEF WithStatus
<1> HIDE DEF q, y, r, R, named
<1>9. i \in DOMAIN q.tasks /\ r.tasks[i].status = "skipped"
  BY <1>3, <1>4 DEF Waiting, WithStatus
<1>10. /\ i \notin Requeued(q, F, y) /\ r.tasks[i] = q.tasks[i]
  BY <1>2, <1>9, RequeuedTable DEF r
<1>11. i \in Waiting(q)
  BY <1>3, <1>9, <1>10 DEF Waiting, WithStatus
<1>12. d \in R
  <2>1. CASE d \in F
    BY <1>7, <2>1
  <2>2. CASE /\ d \in WithStatus(p, {"done", "failed", "skipped"})
             /\ RepairCycle(p, F, c).tasks[d].status = "pending"
    <3>1. d \in DOMAIN q.tasks /\ r.tasks[d] # q.tasks[d]
      BY <1>2, <1>3, <1>8, <2>2
    <3>2. d \in Requeued(q, F, y)
      BY <1>2, <3>1, RequeuedTable DEF r
    <3> QED BY <1>6, <1>7, <3>2
  <2> QED BY <2>1, <2>2
<1>13. d \in q.tasks[i].deps
  BY <1>3, <1>10
<1> QED BY <1>6, <1>7, <1>10, <1>11, <1>12, <1>13

\* What an interrupt left running is requeued, and nothing else is touched.
LEMMA InterruptedKeep ==
  ASSUME NEW p, IsProject(p), NEW j \in DOMAIN p.tasks
  PROVE  LET q == ResumeInterrupted(p)
         IN  /\ p.tasks[j].status = "running" => q.tasks[j].status = "pending"
             /\ p.tasks[j].status # "running" => q.tasks[j] = p.tasks[j]
             /\ q.tasks[j].deps = p.tasks[j].deps
             /\ q.tasks[j].attempts = p.tasks[j].attempts
<1> DEFINE r(k) == [p.tasks[k] EXCEPT !.status = "pending", !.category = "none"]
           T == [k \in DOMAIN p.tasks |->
                   IF k \in WithStatus(p, {"running"}) THEN r(k) ELSE p.tasks[k]]
           q == ResumeInterrupted(p)
<1>1. q.tasks = T
  <2>1. CASE WithStatus(p, {"running"}) = {}
    <3>1. T = [k \in DOMAIN p.tasks |-> p.tasks[k]]
      BY <2>1
    <3>2. p.tasks = [k \in DOMAIN p.tasks |-> p.tasks[k]]
      BY DEF IsProject, IsTable
    <3> QED BY <2>1, <3>1, <3>2 DEF ResumeInterrupted
  <2>2. CASE WithStatus(p, {"running"}) # {}
    BY <2>2, TableOf DEF ResumeInterrupted
  <2> QED BY <2>1, <2>2
<1>2. /\ r(j).status = "pending" /\ r(j).deps = p.tasks[j].deps
      /\ r(j).attempts = p.tasks[j].attempts
  BY Entry DEF TaskRecord
<1> HIDE DEF r, q
<1>3. q.tasks[j] = IF p.tasks[j].status = "running" THEN r(j) ELSE p.tasks[j]
  BY <1>1 DEF WithStatus
<1> QED BY <1>2, <1>3 DEF q

\* The first step of a cycle, on its parts.
LEMMA CycleOfResume ==
  ASSUME TypeInv, ResumeWithRepair
  PROVE  \E p, q, F :
           /\ p = ResumeInterrupted(project) /\ IsProject(p)
           /\ F = FailedForRepair(p) /\ F # {} /\ F \subseteq DOMAIN q.tasks
           /\ IsProject(q) /\ q.tasks = p.tasks /\ q.cycles = project.cycles + 1
           /\ q.cycles \in Nat /\ q.cycles > 0
           /\ DOMAIN q.tasks = DOMAIN project.tasks
           /\ project' = RepairCycle(q, F, q.cycles)
<1> DEFINE p == ResumeInterrupted(project)
           F == FailedForRepair(p)
           q == StartCycle(p)
<1>1. IsProject(project) /\ "none" \in Categories /\ {} \in SUBSET Evidence
      /\ "manual" \in SkipReasons
  BY DEF TypeInv, TypeOK, Categories, SkipReasons
<1>2. IsProject(p) /\ DOMAIN p.tasks = DOMAIN project.tasks /\ p.cycles = project.cycles
  BY <1>1, ResumeInterruptedType, TaskMethodsKeepCycles DEF SameCycles
<1>3. IsProject(q) /\ q.tasks = p.tasks /\ q.cycles = p.cycles + 1 /\ p.cycles \in Nat
  BY <1>2, StartCycleType DEF IsProject, ProjectRecord
<1>4. F \subseteq DOMAIN q.tasks
  BY <1>3 DEF FailedForRepair, WithStatus
<1>5. F # {} /\ project' = RepairCycle(q, F, q.cycles)
  BY DEF ResumeWithRepair, SaveAs
<1> HIDE DEF p, F, q
<1> QED BY <1>2, <1>3, <1>4, <1>5 DEF p, F

\* Whatever a cycle leaves skipped for the failure of a dependency waits for none of
\* the tasks that it answers or requeues, however far behind them it is.
THEOREM CyclesReleaseSkipped == Spec => CycleReleasesSkipped
<1> DEFINE Released ==
             LET answered == FailedForRepair(ResumeInterrupted(project))
                 requeued == WithStatus(project, {"done", "failed", "skipped"}) \cap Pending(project')
             IN  \A i \in Waiting(project') :
                   project'.tasks[i].deps \cap (answered \cup requeued) = {}
<1>1. TypeInv /\ GraphInv /\ ResumeWithRepair => Released
  <2> SUFFICES ASSUME TypeInv, GraphInv, ResumeWithRepair,
                      NEW i \in Waiting(project'), NEW d \in project'.tasks[i].deps,
                      \/ d \in FailedForRepair(ResumeInterrupted(project))
                      \/ d \in WithStatus(project, {"done", "failed", "skipped"}) \cap Pending(project')
               PROVE  FALSE
    OBVIOUS
  <2>1. PICK p, q, F :
           /\ p = ResumeInterrupted(project) /\ IsProject(p)
           /\ F = FailedForRepair(p) /\ F # {} /\ F \subseteq DOMAIN q.tasks
           /\ IsProject(q) /\ q.tasks = p.tasks /\ q.cycles = project.cycles + 1
           /\ q.cycles \in Nat /\ q.cycles > 0
           /\ DOMAIN q.tasks = DOMAIN project.tasks
           /\ project' = RepairCycle(q, F, q.cycles)
    BY CycleOfResume
  <2>2. IsFiniteSet(DOMAIN q.tasks)
    BY <2>1 DEF GraphInv, IsStructured
  <2>3. WithStatus(project, {"done", "failed", "skipped"}) \subseteq
          WithStatus(q, {"done", "failed", "skipped"})
    BY <2>1, InterruptedKeep DEF TypeInv, TypeOK, WithStatus
  <2> QED BY <2>1, <2>2, <2>3, RepairCycleReleases DEF Pending, WithStatus
<1>2. TypeInv /\ TypeInv' /\ CyclesSaved /\ GraphInv /\ [Next]_vars =>
        [project'.cycles > project.cycles => Released]_vars
  <2> SUFFICES ASSUME TypeInv, TypeInv', CyclesSaved, GraphInv, [Next]_vars,
                      project'.cycles > project.cycles
               PROVE  Released
    OBVIOUS
  <2>1. project.cycles \in Nat /\ project'.cycles \in Nat
    BY DEF TypeInv, TypeOK, IsProject, ProjectRecord
  <2>2. ResumeWithRepair
    BY <2>1, OnlyResumeCountsCycles
  <2> HIDE DEF Released
  <2> QED BY <1>1, <2>2
<1> QED
  BY <1>2, TypeInvHolds, CyclesSavedHolds, GraphInvHolds, PTL DEF Spec, CycleReleasesSkipped

-----------------------------------------------------------------------------
(* What repairs can count on.  A repair inherits the dependencies of its    *)
(* target, so it can run only if they are done, and they are: a task of the *)
(* definition is attempted when the ones it depends on have been, and what  *)
(* has been attempted to the end is done or failed from then on.            *)

Attempted(p) == WithStatus(p, {"done", "failed"})

\* The tasks made by repair cycles, and those that have been started.
Engaged(p) ==
  {i \in DOMAIN p.tasks : IsLineage(i)} \cup WithStatus(p, {"running", "done", "failed"})

\* All that i was defined to depend on has been attempted.
Founded(p, i) == \A t \in p.tasks[i].deps : IsLineage(t) \/ t \in Attempted(p)

\* Whatever is engaged is founded, and made for a task that has been attempted.
Settled(p) ==
  \A i \in Engaged(p) :
    /\ Founded(p, i)
    /\ IsLineage(i) => OriginalId(i[1]) \in Attempted(p)

\* The tasks of X are founded, and those of the definition have not been started.
Fresh(p, X) == \A i \in X : Founded(p, i) /\ (IsLineage(i) \/ i \notin Engaged(p))

\* What is inductive, until an operator intervenes.  Only the roles of tasks that
\* were made since the execution began can be unknown.
SettledInv ==
  calls = 0 =>
    /\ Settled(project) /\ Settled(disk) /\ Fresh(project, frontier)
    /\ pc = "agent" => /\ project.tasks[current].status = "running"
                       /\ project.tasks[current].attempts > 0
    /\ pc # "idle" => \A o \in Original : Role[o] \in Registered

\* A step of the status of a task that was defined: it does not undo an attempt,
\* and does not start one.
Follows(s, t) ==
  /\ s \in {"done", "failed"} => t \in {"done", "failed"}
  /\ t \in {"running", "done", "failed"} => s \in {"running", "done", "failed"}

\* q has the graph of p, and no task that was defined is started or undone.
KeepsGround(p, q) ==
  /\ SameGraph(p, q)
  /\ \A i \in DOMAIN p.tasks :
       IsLineage(i) \/ Follows(p.tasks[i].status, q.tasks[i].status)

\* What is settled remains so.
LEMMA GroundKept ==
  ASSUME NEW p, NEW q, KeepsGround(p, q)
  PROVE  /\ Settled(p) => Settled(q)
         /\ \A X \in SUBSET DOMAIN p.tasks : Fresh(p, X) => Fresh(q, X)
<1>1. /\ DOMAIN q.tasks = DOMAIN p.tasks
      /\ \A i \in DOMAIN p.tasks : q.tasks[i].deps = p.tasks[i].deps
  BY DEF KeepsGround, SameGraph
<1>2. ASSUME NEW i, ~IsLineage(i)
      PROVE  /\ i \in Attempted(p) => i \in Attempted(q)
             /\ i \in Engaged(q) => i \in Engaged(p)
  BY <1>1, <1>2 DEF KeepsGround, Follows, Attempted, Engaged, WithStatus
<1>3. \A i : i \in Engaged(q) => i \in Engaged(p)
  BY <1>1, <1>2 DEF Engaged, WithStatus
<1>4. \A i \in DOMAIN p.tasks : Founded(p, i) => Founded(q, i)
  BY <1>1, <1>2 DEF Founded
<1>5. \A i \in Engaged(p) : i \in DOMAIN p.tasks
  BY DEF Engaged, WithStatus
<1>6. \A o : ~IsLineage(OriginalId(o))
  BY DEF IsLineage, OriginalId
<1>7. Settled(p) => Settled(q)
  BY <1>2, <1>3, <1>4, <1>5, <1>6 DEF Settled
<1>8. \A X \in SUBSET DOMAIN p.tasks : Fresh(p, X) => Fresh(q, X)
  BY <1>2, <1>4 DEF Fresh
<1> QED BY <1>7, <1>8

\* What keeps the tasks keeps the ground.
LEMMA SameTasksKeepGround ==
  ASSUME NEW p, NEW q, q.tasks = p.tasks
  PROVE  KeepsGround(p, q)
BY DEF KeepsGround, SameGraph, Follows

\* Skipping what is pending, and requeueing what was left running.
LEMMA ScansKeepGround ==
  ASSUME NEW p, IsProject(p), NEW i
  PROVE  /\ KeepsGround(p, SkipDependents(p, i))
         /\ KeepsGround(p, SkipSuperseded(p))
         /\ KeepsGround(p, ResumeInterrupted(p))
<1>0. ASSUME NEW j \in DOMAIN p.tasks, NEW k, NEW x
      PROVE  SkippedRecord(p.tasks[j], k, x).status = "skipped"
  BY Entry, StatusOfRecords, Vocabulary
<1>1. KeepsGround(p, SkipDependents(p, i))
  <2> DEFINE doomed == Descendants(p, i) \cap Pending(p)
             r(j) == SkippedRecord(p.tasks[j], "dependency_failed", NoContext)
             q == SkipDependents(p, i)
  <2>1. q.tasks = [j \in DOMAIN p.tasks |-> IF j \in doomed THEN r(j) ELSE p.tasks[j]]
    BY TableOf DEF SkipDependents
  <2>2. \A j \in DOMAIN p.tasks : r(j).status = "skipped"
    BY <1>0
  <2>3. \A j \in doomed : p.tasks[j].status = "pending"
    BY DEF Pending, WithStatus
  <2>4. SameGraph(p, q)
    BY TaskMethodsKeepGraph
  <2> HIDE DEF doomed, r, q
  <2>5. ASSUME NEW j \in DOMAIN p.tasks PROVE Follows(p.tasks[j].status, q.tasks[j].status)
    BY <2>1, <2>2, <2>3 DEF Follows
  <2>6. KeepsGround(p, q)
    BY <2>4, <2>5 DEF KeepsGround
  <2> QED BY <2>6 DEF q
<1>2. KeepsGround(p, SkipSuperseded(p))
  <2> DEFINE over(j) == p.tasks[j].status = "pending" /\ OriginDone(p, j) /\ ~StillRequired(p, j)
             r(j) == SkippedRecord(p.tasks[j], "superseded_repair", p.tasks[j].context)
             q == SkipSuperseded(p)
  <2>1. q.tasks = [j \in DOMAIN p.tasks |-> IF over(j) THEN r(j) ELSE p.tasks[j]]
    BY TableOf DEF SkipSuperseded
  <2>2. \A j \in DOMAIN p.tasks : r(j).status = "skipped"
    BY <1>0
  <2>3. \A j : over(j) => p.tasks[j].status = "pending"
    OBVIOUS
  <2>4. SameGraph(p, q)
    BY TaskMethodsKeepGraph
  <2> HIDE DEF over, r, q
  <2>5. ASSUME NEW j \in DOMAIN p.tasks PROVE Follows(p.tasks[j].status, q.tasks[j].status)
    BY <2>1, <2>2, <2>3 DEF Follows
  <2>6. KeepsGround(p, q)
    BY <2>4, <2>5 DEF KeepsGround
  <2> QED BY <2>6 DEF q
<1>3. KeepsGround(p, ResumeInterrupted(p))
  <2> DEFINE q == ResumeInterrupted(p)
  <2>1. SameGraph(p, q)
    BY WorkflowMethodsKeepGraph
  <2>2. ASSUME NEW j \in DOMAIN p.tasks PROVE Follows(p.tasks[j].status, q.tasks[j].status)
    <3>1. /\ p.tasks[j].status = "running" => q.tasks[j].status = "pending"
          /\ p.tasks[j].status # "running" => q.tasks[j] = p.tasks[j]
      BY InterruptedKeep
    <3> HIDE DEF q
    <3> QED BY <3>1 DEF Follows
  <2> HIDE DEF q
  <2>3. KeepsGround(p, q)
    BY <2>1, <2>2 DEF KeepsGround
  <2> QED BY <2>3 DEF q
<1> QED BY <1>1, <1>2, <1>3

\* The task of the definition that a task was made to repair.
LEMMA OriginIsOriginal ==
  ASSUME NEW i \in Ids, NEW j \in Ids, Repairs(i, j), ~IsLineage(j)
  PROVE  IsLineage(i) /\ j = OriginalId(i[1])
BY DEF Repairs, IsRepair, IsLineage, Origin, OriginalId, Ids

\* The end of an attempt.
LEMMA AttemptsKeepGround ==
  ASSUME NEW p, IsProject(p), Settled(p), NEW i \in DOMAIN p.tasks,
         p.tasks[i].status = "running", NEW c \in Categories, NEW e \in SUBSET Evidence
  PROVE  /\ KeepsGround(p, CompleteTask(p, i))
         /\ KeepsGround(p, FailTask(p, i, c, e))
<1>0. ASSUME NEW j \in DOMAIN p.tasks, NEW x
      PROVE  /\ DoneRecord(p.tasks[j], x).status = "done"
             /\ FailedRecord(p.tasks[j], "failed", c, x).status = "failed"
  BY Entry DEF DoneRecord, FailedRecord, TaskRecord
<1>1. ASSUME NEW j \in DOMAIN p.tasks, Repairs(i, j), ~IsLineage(j)
      PROVE  p.tasks[j].status \in {"done", "failed"}
  <2>1. IsLineage(i) /\ j = OriginalId(i[1])
    BY <1>1, Entry, OriginIsOriginal
  <2>2. i \in Engaged(p)
    BY DEF Engaged, WithStatus
  <2> QED BY <2>1, <2>2 DEF Settled, Attempted, WithStatus
<1>2. KeepsGround(p, CompleteTask(p, i))
  <2> DEFINE q == CompleteTask(p, i)
             a(j) == DoneRecord(p.tasks[j], IF IsRepair(i) THEN p.tasks[j].context ELSE NoContext)
             b(j) == DoneRecord(p.tasks[j], NoContext)
             d(j) == SkippedRecord(p.tasks[j], "superseded_repair", p.tasks[j].context)
             late(j) == /\ HasOrigin(p, i) /\ IsRepair(j) /\ Origin(j) = Origin(i)
                        /\ p.tasks[j].status = "pending"
  <2>1. q.tasks = [j \in DOMAIN p.tasks |->
                     IF j = i THEN a(j) ELSE IF Repairs(i, j) THEN b(j)
                     ELSE IF late(j) THEN d(j) ELSE p.tasks[j]]
    BY TableOf DEF CompleteTask
  <2>2. \A j \in DOMAIN p.tasks : a(j).status = "done" /\ b(j).status = "done"
    BY <1>0
  <2>3. \A j : late(j) => IsLineage(j)
    BY DEF IsRepair
  <2>4. SameGraph(p, q)
    BY TaskMethodsKeepGraph
  <2> HIDE DEF q, a, b, d, late
  <2>5. ASSUME NEW j \in DOMAIN p.tasks, ~IsLineage(j)
        PROVE  Follows(p.tasks[j].status, q.tasks[j].status)
    BY <1>1, <2>1, <2>2, <2>3, <2>5 DEF Follows
  <2>6. KeepsGround(p, q)
    BY <2>4, <2>5 DEF KeepsGround
  <2> QED BY <2>6 DEF q
<1>3. KeepsGround(p, FailTask(p, i, c, e))
  <2> DEFINE q == FailTask(p, i, c, e)
             final == ~RetriesLeft(p, i)
             left(j) == IF final THEN e ELSE p.tasks[j].evidence
             a(j) == FailedRecord(p.tasks[j], IF final THEN "failed" ELSE "pending", c, left(j))
             b(j) == FailedRecord(p.tasks[j], "failed", c, left(j))
  <2>1. q.tasks = [j \in DOMAIN p.tasks |->
                     IF j = i THEN a(j) ELSE IF Repairs(i, j) THEN b(j) ELSE p.tasks[j]]
    BY TableOf DEF FailTask
  <2>2. \A j \in DOMAIN p.tasks : b(j).status = "failed"
    BY <1>0
  <2>3. SameGraph(p, q)
    BY TaskMethodsKeepGraph
  <2> HIDE DEF q, a, b
  <2>4. ASSUME NEW j \in DOMAIN p.tasks, ~IsLineage(j)
        PROVE  Follows(p.tasks[j].status, q.tasks[j].status)
    BY <1>1, <2>1, <2>2, <2>4 DEF Follows
  <2>5. KeepsGround(p, q)
    BY <2>3, <2>4 DEF KeepsGround
  <2> QED BY <2>5 DEF q
<1> QED BY <1>2, <1>3

\* The beginning of one.
LEMMA StartSettles ==
  ASSUME NEW p, IsProject(p), Settled(p), NEW X, X \subseteq DOMAIN p.tasks, Fresh(p, X),
         NEW t \in X
  PROVE  LET q == StartTask(p, t)
         IN  /\ Settled(q) /\ Fresh(q, X \ {t})
             /\ q.tasks[t].status = "running" /\ q.tasks[t].attempts > 0
<1> DEFINE q == StartTask(p, t)
           a(j) == StartedRecord(p.tasks[j])
           b(j) == [p.tasks[j] EXCEPT !.attempts = @ + 1]
<1>1. q.tasks = [j \in DOMAIN p.tasks |->
                   IF j = t THEN a(j) ELSE IF Repairs(t, j) THEN b(j) ELSE p.tasks[j]]
  BY TableOf DEF StartTask
<1>2. \A j \in DOMAIN p.tasks : b(j).status = p.tasks[j].status
  BY Entry, StatusOfRecords, Vocabulary
<1>3. a(t).status = "running" /\ a(t).attempts > 0
  BY Entry DEF StartedRecord, TaskRecord
<1>4. SameGraph(p, q)
  BY TaskMethodsKeepGraph
<1> HIDE DEF q, a, b
<1>5. /\ q.tasks[t].status = "running" /\ q.tasks[t].attempts > 0
      /\ \A j \in DOMAIN p.tasks : j # t => q.tasks[j].status = p.tasks[j].status
  BY <1>1, <1>2, <1>3
<1>6. /\ DOMAIN q.tasks = DOMAIN p.tasks
      /\ \A i \in DOMAIN p.tasks : q.tasks[i].deps = p.tasks[i].deps
  BY <1>4 DEF SameGraph
<1>7. ASSUME NEW i, ~IsLineage(i)
      PROVE  /\ i \in Attempted(p) => i \in Attempted(q)
             /\ i \in Engaged(q) => i \in Engaged(p) \cup {t}
  BY <1>5, <1>6, <1>7 DEF Fresh, Attempted, Engaged, WithStatus
<1>8. \A i \in DOMAIN p.tasks : Founded(p, i) => Founded(q, i)
  BY <1>6, <1>7 DEF Founded
<1>9. \A i \in Engaged(q) : i \in DOMAIN p.tasks /\ (i \in Engaged(p) \/ i = t)
  BY <1>6, <1>7 DEF Engaged, WithStatus
<1>10. \A o : ~IsLineage(OriginalId(o))
  BY DEF IsLineage, OriginalId
<1>11. IsLineage(t) => t \in Engaged(p)
  BY DEF Engaged
<1>12. Settled(q)
  BY <1>7, <1>8, <1>9, <1>10, <1>11 DEF Settled, Fresh
<1>13. Fresh(q, X \ {t})
  BY <1>7, <1>8 DEF Fresh
<1> QED BY <1>5, <1>12, <1>13 DEF q

\* The code that a suite blames is one of its dependencies.
LEMMA BlamedCodeIsDep ==
  ASSUME NEW p, NEW i, HasUpstreamCode(p, i)
  PROVE  /\ UpstreamCode(p, i) \in p.tasks[i].deps
         /\ UpstreamCode(p, i) \in DOMAIN p.tasks
         /\ RoleOf(UpstreamCode(p, i)) = "code_engineer"
<1> DEFINE u == UpstreamCode(p, i)
<1>1. u \in LastCode(p, i)
  BY DEF HasUpstreamCode, UpstreamCode
<1> HIDE DEF u
<1>2. u \in p.tasks[i].deps /\ u \in DOMAIN p.tasks /\ RoleOf(u) = "code_engineer"
  BY <1>1 DEF LastCode, CodeDeps
<1> QED BY <1>2 DEF u

\* What a cycle makes belongs to no definition.
LEMMA CycleIdsAreLineage ==
  ASSUME NEW p, IsProject(p), NEW F \in SUBSET DOMAIN p.tasks, NEW c \in Nat, c > 0,
         NEW i \in CycleIds(p, F, c)
  PROVE  IsLineage(i)
<1>1. PICK x \in Targets(p, F) : i \in {RepairId(x, c), PlanId(x, c)}
  BY DEF CycleIds, PlanIds, RepairIds
<1>2. x \in Ids
  BY TargetsAreTasks, Entry
<1>3. IsLineage(RepairId(x, c)) /\ IsLineage(PlanId(x, c))
  BY <1>2, NewIdsAre DEF IsRepair
<1> QED BY <1>1, <1>3

\* Whatever a cycle is planned for has been attempted, and so has all that the new
\* tasks inherit.
LEMMA TargetsAreSettled ==
  ASSUME NEW p, IsProject(p), Settled(p), NEW F \in SUBSET DOMAIN p.tasks,
         \A x \in F : IsLineage(x) \/ x \in Attempted(p),
         NEW x \in Targets(p, F)
  PROVE  /\ x \in DOMAIN p.tasks /\ Founded(p, x)
         /\ IsLineage(x) \/ x \in Attempted(p)
         /\ OriginalId(x[1]) \in Attempted(p)
<1>1. \A y \in DOMAIN p.tasks : IsLineage(y) \/ y \in Attempted(p) => y \in Engaged(p)
  BY DEF Engaged, Attempted, WithStatus
<1>2. x \in DOMAIN p.tasks
  BY TargetsAreTasks
<1>3. IsLineage(x) \/ x \in Attempted(p)
  <2>1. CASE x \in BlamedCode(p, F)
    <3>1. PICK t \in F : HasUpstreamCode(p, t) /\ x = UpstreamCode(p, t)
      BY <2>1 DEF BlamedCode, Suites
    <3>2. x \in p.tasks[t].deps
      BY <3>1, BlamedCodeIsDep
    <3>3. Founded(p, t)
      BY <1>1 DEF Settled
    <3> QED BY <3>2, <3>3 DEF Founded
  <2> QED BY <2>1 DEF Targets
<1>4. x \in Engaged(p)
  BY <1>1, <1>2, <1>3
<1>5. ~IsLineage(x) => x = OriginalId(x[1])
  BY <1>2, Entry DEF IsLineage, OriginalId, Ids
<1> QED BY <1>2, <1>3, <1>4, <1>5 DEF Settled

\* A cycle leaves the ground settled.
LEMMA CycleSettles ==
  ASSUME NEW p, IsProject(p), IsStructured(p), DepsExist(p), Settled(p),
         NEW F, F \subseteq DOMAIN p.tasks, NEW c \in Nat, c > 0,
         \A x \in F : IsLineage(x) \/ x \in Attempted(p),
         NEW X, X \subseteq DOMAIN p.tasks, Fresh(p, X)
  PROVE  Settled(RepairCycle(p, F, c)) /\ Fresh(RepairCycle(p, F, c), X)
<1> DEFINE y == CycleIds(p, F, c)
           r == PlanRepairs(p, F, c)
           q == ResumeFailed(r, F, y)
<1>1. F \in SUBSET DOMAIN p.tasks
  OBVIOUS
<1>2. IsProject(r) /\ DOMAIN r.tasks = DOMAIN p.tasks \cup y
  BY <1>1, PlanRepairsType
<1>3. q = RepairCycle(p, F, c)
  BY DEF RepairCycle
<1>4. DOMAIN q.tasks = DOMAIN p.tasks \cup y
  BY <1>2, ResumeFailedType
<1>5. \A i \in y : IsLineage(i)
  BY <1>1, CycleIdsAreLineage
<1>6. ASSUME NEW i \in DOMAIN p.tasks \cup y, NEW j \in AddedDeps(p, F, c, i)
      PROVE  IsLineage(j)
  BY <1>1, <1>5, AddedDepsFit
<1>7. ASSUME NEW j \in DOMAIN p.tasks, ~IsLineage(j)
      PROVE  Follows(p.tasks[j].status, q.tasks[j].status)
  <2>1. j \in DOMAIN r.tasks /\ r.tasks[j].status = p.tasks[j].status
    <3>1. PlanRepairs(p, F, c).tasks[j].status = p.tasks[j].status
      <4> HIDE DEF q, r, y
      <4>1. j \in DOMAIN p.tasks
        OBVIOUS
      <4>2. c \in Nat /\ IsProject(p) /\ F \subseteq DOMAIN p.tasks
        OBVIOUS
      <4> QED BY ONLY <4>1, <4>2, PlannedOld
    <3>2. j \in DOMAIN r.tasks
      <4> HIDE DEF r, y
      <4> QED BY <1>2
    <3> QED BY <3>1, <3>2
  <2>2. CASE j \in Requeued(r, F, y)
    <3>1. j \notin y
      BY <1>5, <1>7
    <3>2. j \in Waiting(r)
      BY <2>2, <3>1 DEF Requeued, Freed
    <3>3. p.tasks[j].status = "skipped"
      BY <2>1, <3>2 DEF Waiting, WithStatus
    <3>4. q.tasks[j].status = "pending"
      BY <1>2, <2>1, <2>2, RequeuedTable
    <3> HIDE DEF q
    <3> QED BY <3>3, <3>4 DEF Follows
  <2>3. CASE j \notin Requeued(r, F, y)
    <3>1. q.tasks[j] = r.tasks[j]
      BY <1>2, <2>1, <2>3, RequeuedTable
    <3> HIDE DEF q, r
    <3> QED BY <2>1, <3>1 DEF Follows
  <2> QED BY <2>2, <2>3
<1>8. ASSUME NEW j \in DOMAIN p.tasks, NEW t \in q.tasks[j].deps
      PROVE  IsLineage(t) \/ t \in p.tasks[j].deps
  <2>1. q.tasks[j].deps = r.tasks[j].deps
    BY <1>2, RequeuedTable
  <2>2. r.tasks[j].deps = p.tasks[j].deps \cup AddedDeps(p, F, c, j)
    BY PlannedTable
  <2> HIDE DEF q, r
  <2> QED BY <1>6, <1>8, <2>1, <2>2
<1>9. ASSUME NEW j \in y, j \notin DOMAIN p.tasks
      PROVE  \E x \in Targets(p, F) :
               /\ j[1] = x[1]
               /\ \A t \in q.tasks[j].deps : IsLineage(t) \/ t \in p.tasks[x].deps
  <2> DEFINE x == TargetOf(p, F, c, j)
  <2>1. \E z \in Targets(p, F) : j \in {RepairId(z, c), PlanId(z, c)}
    BY DEF CycleIds, PlanIds, RepairIds
  <2>2. x \in Targets(p, F) /\ j \in {RepairId(x, c), PlanId(x, c)}
    BY <2>1 DEF TargetOf
  <2>3. q.tasks[j].deps = r.tasks[j].deps
    BY <1>2, RequeuedTable
  <2>4. r.tasks[j].deps = InheritedDeps(p, x) \cup AddedDeps(p, F, c, j)
    BY <1>9, PlannedTable
  <2> HIDE DEF x, q, r
  <2>5. \A t \in InheritedDeps(p, x) : t \in p.tasks[x].deps
    BY DEF InheritedDeps
  <2>6. j[1] = x[1]
    BY <2>2 DEF RepairId, PlanId
  <2> QED BY <1>6, <2>2, <2>3, <2>4, <2>5, <2>6
<1> HIDE DEF q, r, y
<1>10. ASSUME NEW i, ~IsLineage(i)
       PROVE  /\ i \in Attempted(p) => i \in Attempted(q)
              /\ i \in Engaged(q) => i \in Engaged(p)
  BY <1>4, <1>5, <1>7, <1>10 DEF Follows, Attempted, Engaged, WithStatus
<1>11. \A i \in DOMAIN p.tasks : Founded(p, i) => Founded(q, i)
  BY <1>8, <1>10 DEF Founded
<1>12. \A o : ~IsLineage(OriginalId(o))
  BY DEF IsLineage, OriginalId
<1>13. ASSUME NEW i \in Engaged(q)
       PROVE  Founded(q, i) /\ (IsLineage(i) => OriginalId(i[1]) \in Attempted(q))
  <2>1. i \in DOMAIN q.tasks
    BY DEF Engaged, WithStatus
  <2>2. CASE i \in DOMAIN p.tasks
    <3>1. i \in Engaged(p)
      BY <1>10, <2>2 DEF Engaged
    <3> QED BY <1>10, <1>11, <1>12, <2>2, <3>1 DEF Settled
  <2>3. CASE i \notin DOMAIN p.tasks
    <3>1. PICK x \in Targets(p, F) :
            /\ i[1] = x[1]
            /\ \A t \in q.tasks[i].deps : IsLineage(t) \/ t \in p.tasks[x].deps
      BY <1>4, <1>9, <2>1, <2>3
    <3>2. Founded(p, x) /\ OriginalId(x[1]) \in Attempted(p)
      BY <1>1, TargetsAreSettled
    <3> QED BY <1>10, <1>12, <3>1, <3>2 DEF Founded
  <2> QED BY <2>2, <2>3
<1>14. Settled(q)
  BY <1>13 DEF Settled
<1>15. Fresh(q, X)
  BY <1>10, <1>11 DEF Fresh
<1> QED BY <1>3, <1>14, <1>15

-----------------------------------------------------------------------------
(* Steps.                                                                  *)

\* What a step must leave, with the tasks of X still to be started.
StepSettles(X) == Settled(project') /\ Settled(disk') /\ Fresh(project', X)

\* A project that is saved or kept.
LEMMA SaveSettles ==
  ASSUME Settled(disk), NEW p, Settled(p), NEW X, Fresh(p, X), SaveAs(p) \/ Keep(p)
  PROVE  StepSettles(X)
BY DEF StepSettles, SaveAs, Keep

\* Every way in which dispatch_task_failure may decide.
LEMMA HandleFailureSettles ==
  ASSUME NEW p, IsProject(p), IsStructured(p), DepsExist(p), Settled(disk), Settled(p),
         NEW t \in DOMAIN p.tasks, IsLineage(t) \/ t \in Attempted(p) \/ ShouldRetry(p, t),
         NEW category, NEW left, left \subseteq DOMAIN p.tasks, Fresh(p, left),
         HandleFailure(p, t, category, left)
  PROVE  StepSettles(frontier') /\ pc' # "agent"
<1>1. ASSUME NEW q, Settled(q), Fresh(q, left), ContinueWith(q, left)
      PROVE  StepSettles(frontier') /\ pc' # "agent"
  BY <1>1, SaveSettles DEF ContinueWith, Goto
<1>2. CASE ContinueWith(p, left)
  BY <1>1, <1>2
<1>3. CASE ~ShouldRetry(p, t) /\ CanChainRepair(p, t) /\ ContinueWith(RepairCycle(p, {t}, p.cycles), left)
  <2>1. p.cycles \in Nat /\ p.cycles > 0
    BY <1>3 DEF IsProject, ProjectRecord, CanChainRepair
  <2>2. Settled(RepairCycle(p, {t}, p.cycles)) /\ Fresh(RepairCycle(p, {t}, p.cycles), left)
    BY <1>3, <2>1, CycleSettles
  <2> QED BY <1>1, <1>3, <2>2
<1>4. CASE ContinueWith(SkipDependents(p, t), left)
  <2>1. Settled(SkipDependents(p, t)) /\ Fresh(SkipDependents(p, t), left)
    BY ScansKeepGround, GroundKept
  <2> QED BY <1>1, <1>4, <2>1
<1>5. CASE StopFailed(p, category)
  <2> DEFINE q == MarkFinished(p, "failed", "failed", category)
  <2>1. q.tasks = p.tasks
    BY DEF MarkFinished, IsProject, ProjectRecord
  <2>2. SaveAs(q) /\ frontier' = {} /\ pc' = "idle"
    BY <1>5 DEF StopFailed, Stop, Goto
  <2> HIDE DEF q
  <2>3. Settled(q) /\ Fresh(q, {})
    BY <2>1, SameTasksKeepGround, GroundKept DEF Fresh
  <2> QED BY <2>2, <2>3, SaveSettles
<1> QED BY <1>2, <1>3, <1>4, <1>5 DEF HandleFailure

\* An attempt that failed is over or is retried.
LEMMA FailedOrRetried ==
  ASSUME NEW p, IsProject(p), NEW i \in DOMAIN p.tasks, p.tasks[i].attempts > 0,
         NEW c \in Categories, NEW e \in SUBSET Evidence
  PROVE  LET q == FailTask(p, i, c, e)
         IN  i \in Attempted(q) \/ ShouldRetry(q, i)
<1> DEFINE q == FailTask(p, i, c, e)
           final == ~RetriesLeft(p, i)
           x == IF final THEN e ELSE p.tasks[i].evidence
           s == IF final THEN "failed" ELSE "pending"
           a == FailedRecord(p.tasks[i], s, c, x)
<1>1. q.tasks[i] = a /\ DOMAIN q.tasks = DOMAIN p.tasks
  <2>1. DOMAIN q.tasks = DOMAIN p.tasks
    BY FailTaskType
  <2>2. q.tasks[i] = a
    BY TableOf DEF FailTask
  <2> QED BY <2>1, <2>2
<1>2. p.tasks[i] \in TaskRecord /\ i \in Ids
  BY Entry
<1>3. a.status = s /\ a.attempts = p.tasks[i].attempts
  <2> HIDE DEF s, x
  <2> QED BY <1>2 DEF FailedRecord, TaskRecord
<1>4. p.tasks[i].attempts \in Nat /\ RetryLimit[i[1]] \in Nat
  BY <1>2, WorkflowAssumption DEF TaskRecord, Ids
<1> HIDE DEF q, a
<1>5. CASE final
  BY <1>1, <1>3, <1>5 DEF Attempted, WithStatus, q
<1>6. CASE ~final
  <2>1. p.tasks[i].attempts \in 1..RetryLimit[i[1]]
    BY <1>4, <1>6 DEF RetriesLeft
  <2>2. q.tasks[i].status = "pending" /\ q.tasks[i].attempts = p.tasks[i].attempts
    BY <1>1, <1>3, <1>6
  <2>3. ShouldRetry(q, i)
    BY <2>1, <2>2 DEF ShouldRetry
  <2> QED BY <2>3 DEF q
<1> QED BY <1>5, <1>6

\* What a task of the definition is assigned to.
LEMMA RoleOfOriginal ==
  ASSUME NEW i \in Ids, ~IsLineage(i)
  PROVE  i = OriginalId(i[1]) /\ RoleOf(i) = Role[i[1]] /\ i[1] \in Original
BY DEF Ids, IsLineage, OriginalId, RoleOf

\* Nothing has been started in the workflow as it was defined.
LEMMA InitialIsSettled ==
  /\ Settled(InitialProject)
  /\ \A o \in Original : ~IsLineage(OriginalId(o))
<1>1. \A i \in DOMAIN InitialProject.tasks :
        ~IsLineage(i) /\ InitialProject.tasks[i].status = "pending"
  BY DEF InitialProject, OriginalId, IsLineage, NewTask
<1>2. Engaged(InitialProject) = {}
  BY <1>1 DEF Engaged, WithStatus
<1> QED BY <1>2 DEF Settled, IsLineage, OriginalId

\* Every step keeps the ground of repairs settled.
LEMMA SettledStep ==
  ASSUME TypeInv, TypeInv', GraphInv, DepsExistInv, SettledInv, [Next]_vars
  PROVE  SettledInv'
<1> DEFINE p == ResumeInterrupted(project)
           s == SkipSuperseded(project)
           Known == \A o \in Original : Role[o] \in Registered
           Goal == /\ StepSettles(frontier')
                   /\ pc' = "agent" => /\ project'.tasks[current'].status = "running"
                                       /\ project'.tasks[current'].attempts > 0
                   /\ pc' # "idle" => Known
<1> SUFFICES ASSUME calls' = 0 PROVE Goal
  BY DEF SettledInv, StepSettles
<1>1. calls = 0 /\ ~Operator
  <2>1. calls \in Nat
    BY PolicyAssumption DEF TypeInv, TypeOK
  <2>2. Operator => calls' = calls + 1
    BY DEF Operator, Pause, Resume, Cancel, Replay, Skip, Override, Operate
  <2> QED BY <2>1, <2>2, CallsCount
<1>2. /\ IsProject(project) /\ IsProject(disk) /\ frontier \subseteq DOMAIN project.tasks
      /\ Settled(project) /\ Settled(disk) /\ Fresh(project, frontier)
      /\ IsStructured(project) /\ DepsExist(project)
      /\ pc # "idle" => Known
      /\ pc \notin {"frontier", "agent"} => frontier = {}
  BY <1>1 DEF TypeInv, TypeOK, FrontierIsLocal, GraphInv, DepsExistInv, SettledInv
<1>3. "execution" \in Categories /\ {} \in SUBSET Evidence
  BY DEF Categories
<1>4. \A q : Fresh(q, {})
  BY DEF Fresh
<1> HIDE DEF Known
<1>5. ASSUME NEW q, Settled(q), SaveAs(q) \/ Keep(q), Fresh(q, frontier'), pc' # "agent",
             pc' # "idle" => Known
      PROVE  Goal
  BY <1>2, <1>5, SaveSettles
<1>6. /\ IsProject(p) /\ Settled(p) /\ DOMAIN p.tasks = DOMAIN project.tasks
      /\ IsStructured(p) /\ DepsExist(p)
  <2>1. SameGraph(project, p) /\ KeepsGround(project, p)
    BY <1>2, ScansKeepGround, WorkflowMethodsKeepGraph
  <2> QED BY <1>2, <2>1, GroundKept, StructureKept, ResumeInterruptedType
<1>7. IsProject(s) /\ Settled(s)
  BY <1>2, ScansKeepGround, GroundKept, SkipSupersededType
<1> HIDE DEF p, s
<1>8. ASSUME NEW q, IsProject(q), Settled(q), NEW f, StopFailed(q, f) PROVE Goal
  <2> DEFINE e == MarkFinished(q, "failed", "failed", f)
  <2>1. e.tasks = q.tasks
    BY <1>8 DEF MarkFinished, IsProject, ProjectRecord
  <2>2. SaveAs(e) /\ frontier' = {} /\ pc' = "idle"
    BY <1>8 DEF StopFailed, Stop, Goto
  <2> HIDE DEF e, Goal
  <2>3. Settled(e)
    BY <1>8, <2>1, SameTasksKeepGround, GroundKept
  <2> QED BY <1>4, <1>5, <2>2, <2>3
<1> HIDE DEF Goal
<1>9. CASE Execute
  <2> DEFINE q == [project EXCEPT !.budget = MaxRepairCycles]
  <2>0. frontier' = {}
    BY <1>2, <1>9 DEF Execute
  <2>1. CASE SaveAs(project) /\ Goto("idle")
    BY <1>2, <1>4, <1>5, <2>0, <2>1 DEF Goto
  <2>2. CASE (\A i \in DOMAIN project.tasks : Resolvable(i)) /\ Keep(q) /\ Goto("resume")
    <3>1. q.tasks = project.tasks
      BY <1>2 DEF IsProject, ProjectRecord
    <3>2. Keep(q) /\ pc' = "resume"
      BY <2>2 DEF Goto
    <3> HIDE DEF q
    <3>3. Settled(q)
      BY <1>2, <3>1, SameTasksKeepGround, GroundKept
    <3>4. Known
      <4>1. ASSUME NEW o \in Original PROVE Role[o] \in Registered
        <5>1. OriginalId(o) \in DOMAIN project.tasks /\ OriginalId(o) \in Ids
          BY <1>2, Entry DEF IsStructured
        <5>2. RoleOf(OriginalId(o)) = Role[OriginalId(o)[1]] /\ OriginalId(o)[1] = o
          BY <5>1, RoleOfOriginal, InitialIsSettled DEF OriginalId
        <5> QED BY <2>2, <5>1, <5>2 DEF Resolvable
      <4> QED BY <4>1 DEF Known
    <3> QED BY <1>4, <1>5, <2>0, <3>2, <3>3, <3>4
  <2> QED BY <1>9, <2>1, <2>2 DEF Execute
<1>10. CASE ResumeWithoutRepair
  <2>1. frontier' = {} /\ pc' = "activate" /\ Known /\ (SaveAs(p) \/ Keep(p))
    BY <1>2, <1>10 DEF ResumeWithoutRepair, p, Goto
  <2> QED BY <1>4, <1>5, <1>6, <2>1
<1>11. CASE RefuseRepair
  BY <1>6, <1>8, <1>11 DEF RefuseRepair, p
<1>12. CASE ResumeWithRepair
  <2> DEFINE F == FailedForRepair(p)
             q == StartCycle(p)
  <2>1. /\ SaveAs(RepairCycle(q, F, q.cycles)) /\ pc' = "activate" /\ frontier' = {} /\ Known
    BY <1>2, <1>12 DEF ResumeWithRepair, p, Goto
  <2>2. IsProject(q) /\ q.tasks = p.tasks /\ q.cycles \in Nat /\ q.cycles > 0 /\ SameGraph(p, q)
    <3>1. q.cycles = p.cycles + 1 /\ p.cycles \in Nat
      BY <1>6, StartCycleType DEF IsProject, ProjectRecord
    <3>2. IsProject(q) /\ q.tasks = p.tasks
      BY <1>6, StartCycleType
    <3> HIDE DEF q
    <3>3. SameGraph(p, q)
      BY <3>2 DEF SameGraph
    <3> QED BY <3>1, <3>2, <3>3
  <2>3. F \subseteq Attempted(q) /\ F \subseteq DOMAIN q.tasks
    BY <2>2 DEF FailedForRepair, Attempted, WithStatus
  <2> HIDE DEF F, q
  <2>4. Settled(q) /\ IsStructured(q) /\ DepsExist(q)
    BY <1>6, <2>2, SameTasksKeepGround, GroundKept, StructureKept
  <2>5. Settled(RepairCycle(q, F, q.cycles))
    BY <1>4, <2>2, <2>3, <2>4, CycleSettles
  <2> QED BY <1>4, <1>5, <2>1, <2>5
<1>13. CASE Activate
  <2> DEFINE q == EnsureRunning(project)
  <2>1. q.tasks = project.tasks
    BY <1>2 DEF EnsureRunning, MarkRunning, IsProject, ProjectRecord
  <2>2. frontier' = {} /\ pc' \in {"idle", "loop"} /\ Known /\ (SaveAs(project) \/ Keep(q))
    BY <1>2, <1>13 DEF Activate, Stop, Goto
  <2> HIDE DEF q
  <2>3. Settled(q)
    BY <1>2, <2>1, SameTasksKeepGround, GroundKept
  <2> QED BY <1>2, <1>4, <1>5, <2>2, <2>3
<1>14. CASE LoopExit
  <2>1. frontier' = {} /\ pc' = "idle" /\ (SaveAs(project) \/ SaveAs(s))
    BY <1>14 DEF LoopExit, Stop, Goto, s
  <2> QED BY <1>2, <1>4, <1>5, <1>7, <2>1
<1>15. CASE Finish
  <2>1. PICK o : SaveAs(MarkFinished(s, "completed", o, "none"))
    BY <1>15 DEF Finish, s
  <2> DEFINE q == MarkFinished(s, "completed", o, "none")
  <2>2. q.tasks = s.tasks
    BY <1>7 DEF MarkFinished, IsProject, ProjectRecord
  <2>3. frontier' = {} /\ pc' = "idle"
    BY <1>15 DEF Finish, Stop, Goto
  <2>4. SaveAs(q)
    BY <2>1
  <2> HIDE DEF q
  <2>5. Settled(q)
    BY <1>7, <2>2, SameTasksKeepGround, GroundKept
  <2> QED BY <1>4, <1>5, <2>3, <2>4, <2>5
<1>16. CASE Blocked
  BY <1>7, <1>8, <1>16 DEF Blocked, s
<1>17. CASE SelectFrontier
  <2>1. /\ frontier' = Runnable(s) /\ Keep(s) /\ pc' = "frontier" /\ Known
    BY <1>2, <1>17 DEF SelectFrontier, Goto, s
  <2>2. Fresh(s, Runnable(s))
    BY DEF Fresh, Founded, Runnable, Ready, Attempted, Engaged, WithStatus
  <2> QED BY <1>5, <1>7, <2>1, <2>2
<1>18. CASE FrontierDone
  <2>1. UNCHANGED <<project, disk, frontier>> /\ pc' = "loop" /\ Known
    BY <1>2, <1>18 DEF FrontierDone, Goto
  <2> QED BY <1>2, <1>5, <2>1 DEF Keep
<1>19. CASE FrontierExit
  BY <1>2, <1>4, <1>5, <1>19 DEF FrontierExit, Stop, Goto
<1>20. ASSUME NEW t \in frontier, Dispatch(t) PROVE Goal
  <2> DEFINE q == StartTask(project, t)
  <2>1. Settled(q) /\ Fresh(q, frontier \ {t}) /\ q.tasks[t].status = "running" /\ q.tasks[t].attempts > 0
    BY <1>2, StartSettles
  <2>2. Keep(q) /\ frontier' = frontier \ {t} /\ current' = t /\ Known
    BY <1>2, <1>20 DEF Dispatch
  <2> HIDE DEF q
  <2>3. StepSettles(frontier')
    BY <1>2, <2>1, <2>2, SaveSettles
  <2> QED BY <2>1, <2>2, <2>3 DEF Goal, Keep
<1>21. ASSUME NEW t \in frontier, DispatchUnknownAgent(t) PROVE Goal
  <2>1. /\ pc = "frontier" /\ ~Resolvable(t)
        /\ HandleFailure(project, t, "execution", frontier \ {t})
    BY <1>21 DEF DispatchUnknownAgent
  <2>2. IsLineage(t)
    <3>1. SUFFICES ASSUME ~IsLineage(t) PROVE FALSE
      OBVIOUS
    <3>2. RoleOf(t) = Role[t[1]] /\ t[1] \in Original
      BY <1>2, <3>1, Entry, RoleOfOriginal
    <3> QED BY <1>2, <2>1, <3>2 DEF Known, Resolvable
  <2>3. frontier \ {t} \subseteq DOMAIN project.tasks /\ Fresh(project, frontier \ {t})
    BY <1>2 DEF Fresh
  <2>4. StepSettles(frontier') /\ pc' # "agent"
    BY <1>2, <2>1, <2>2, <2>3, HandleFailureSettles
  <2> QED BY <1>2, <2>1, <2>4 DEF Goal
<1>22. CASE AgentSucceeds
  <2> DEFINE q == CompleteTask(project, current)
  <2>1. pc = "agent" /\ current \in DOMAIN project.tasks /\ project.tasks[current].status = "running"
    <3>1. pc = "agent"
      BY <1>22 DEF AgentSucceeds
    <3>2. current \in DOMAIN project.tasks
      BY <3>1 DEF TypeInv, TypeOK
    <3> QED BY <1>1, <3>1, <3>2 DEF SettledInv
  <2>2. KeepsGround(project, q)
    BY <1>2, <1>3, <2>1, AttemptsKeepGround
  <2>3. SaveAs(q) /\ frontier' = frontier /\ pc' = "frontier"
    BY <1>22 DEF AgentSucceeds, ContinueWith, Goto
  <2> HIDE DEF q
  <2>4. Settled(q) /\ Fresh(q, frontier)
    BY <1>2, <2>2, GroundKept
  <2> QED BY <1>2, <1>5, <2>1, <2>3, <2>4
<1>23. ASSUME NEW f \in FailureModes, AgentFails(f) PROVE Goal
  <2> DEFINE q == FailTask(project, current, f.category, f.evidence)
  <2>1. f.category \in Categories /\ f.evidence \in SUBSET Evidence
    BY PolicyAssumption DEF AllFailures, Categories
  <2>2. /\ pc = "agent" /\ current \in DOMAIN project.tasks
        /\ project.tasks[current].status = "running" /\ project.tasks[current].attempts > 0
    <3>1. pc = "agent"
      BY <1>23 DEF AgentFails
    <3>2. current \in DOMAIN project.tasks
      BY <3>1 DEF TypeInv, TypeOK
    <3> QED BY <1>1, <3>1, <3>2 DEF SettledInv
  <2>3. IsProject(q) /\ DOMAIN q.tasks = DOMAIN project.tasks /\ KeepsGround(project, q)
    BY <1>2, <2>1, <2>2, AttemptsKeepGround, FailTaskType
  <2>4. current \in Attempted(q) \/ ShouldRetry(q, current)
    BY <1>2, <2>1, <2>2, FailedOrRetried
  <2>5. (SaveAs(q) /\ Stop) \/ HandleFailure(q, current, f.category, frontier)
    BY <1>23 DEF AgentFails
  <2> HIDE DEF q
  <2>6. /\ Settled(q) /\ Fresh(q, frontier) /\ IsStructured(q) /\ DepsExist(q)
        /\ current \in DOMAIN q.tasks /\ frontier \subseteq DOMAIN q.tasks
    BY <1>2, <2>2, <2>3, GroundKept, StructureKept DEF KeepsGround
  <2>7. CASE SaveAs(q) /\ Stop
    BY <1>4, <1>5, <2>6, <2>7 DEF Stop, Goto
  <2>8. CASE HandleFailure(q, current, f.category, frontier)
    <3>1. StepSettles(frontier') /\ pc' # "agent"
      BY <1>2, <2>3, <2>4, <2>6, <2>8, HandleFailureSettles
    <3> QED BY <1>2, <2>2, <3>1 DEF Goal
  <2> QED BY <2>5, <2>7, <2>8
<1>24. CASE Interrupt
  BY <1>2, <1>4, <1>5, <1>24 DEF Interrupt, Keep
<1>25. CASE Crash
  BY <1>2, <1>4, <1>25 DEF Crash, Goal, StepSettles
<1>26. CASE UNCHANGED vars
  BY <1>1, <1>2, <1>26 DEF vars, Goal, StepSettles, SettledInv
<1> QED
  BY <1>1, <1>9, <1>10, <1>11, <1>12, <1>13, <1>14, <1>15, <1>16, <1>17, <1>18, <1>19, <1>20,
     <1>21, <1>22, <1>23, <1>24, <1>25, <1>26
  DEF Next, Runtime, Agent, Fault

-----------------------------------------------------------------------------
(* What a new cycle leaves ready.  Its tasks are new, so that it restarts   *)
(* nothing that is done and stops nothing that is ready.                    *)

\* The cycle c is new to p, and answers the tasks of F.
NewCycle(p, F, c) ==
  /\ IsProject(p) /\ DepsExist(p)
  /\ F \in SUBSET DOMAIN p.tasks
  /\ c \in Nat /\ c > 0
  /\ \A i \in DOMAIN p.tasks : \A k \in 1..Len(i[2]) : i[2][k] < c

\* From the identifier of a repair or a plan one can tell its target.
LEMMA TargetIsKnown ==
  ASSUME NEW p, NEW F, NEW c, NewCycle(p, F, c), NEW x \in Targets(p, F)
  PROVE  /\ TargetOf(p, F, c, RepairId(x, c)) = x
         /\ TargetOf(p, F, c, PlanId(x, c)) = x
         /\ PlanId(x, c) \notin RepairIds(p, F, c)
         /\ PlanId(x, c) \in PlanIds(p, F, c) => NeedsPlan(p, F, x)
<1>1. Targets(p, F) \subseteq Ids /\ c \in Nat /\ c > 0
  BY TargetsAreTasks, Entry DEF NewCycle
<1>2. ASSUME NEW y \in Targets(p, F)
      PROVE  /\ RepairId(y, c) = RepairId(x, c) => y = x
             /\ PlanId(y, c) = PlanId(x, c) => y = x
             /\ RepairId(y, c) # PlanId(x, c)
             /\ PlanId(y, c) # RepairId(x, c)
  <2>1. x \in Ids /\ y \in Ids
    BY <1>1
  <2>2. /\ Origin(RepairId(x, c)) = x /\ Origin(RepairId(y, c)) = y
        /\ IsRepair(RepairId(x, c)) /\ IsRepair(RepairId(y, c))
        /\ ~IsRepair(PlanId(x, c)) /\ ~IsRepair(PlanId(y, c))
    BY <1>1, <2>1, NewIdsAre
  <2>3. ASSUME PlanId(y, c) = PlanId(x, c) PROVE y = x
    <3> DEFINE s == x[2]
               t == y[2]
    <3>1. x = <<x[1], s>> /\ y = <<y[1], t>> /\ s \in Seq(Nat) /\ t \in Seq(Nat)
      BY <2>1 DEF Ids
    <3>2. x[1] = y[1] /\ s \o <<c, 0>> = t \o <<c, 0>>
      BY <2>3 DEF PlanId
    <3> HIDE DEF s, t
    <3>3. /\ Len(s \o <<c, 0>>) = Len(s) + 2 /\ Len(t \o <<c, 0>>) = Len(t) + 2
          /\ Len(s) \in Nat /\ Len(t) \in Nat
      BY <1>1, <3>1
    <3>4. Len(s) = Len(t)
      BY <3>2, <3>3
    <3>5. /\ SubSeq(s \o <<c, 0>>, 1, Len(s)) = s
          /\ SubSeq(t \o <<c, 0>>, 1, Len(t)) = t
      BY <1>1, <3>1
    <3>6. s = t
      BY <3>2, <3>4, <3>5
    <3> QED BY <3>1, <3>2, <3>6
  <2> QED BY <2>2, <2>3
<1>3. TargetOf(p, F, c, RepairId(x, c)) = x
  BY <1>2 DEF TargetOf
<1>4. TargetOf(p, F, c, PlanId(x, c)) = x
  BY <1>2 DEF TargetOf
<1>5. PlanId(x, c) \notin RepairIds(p, F, c)
  BY <1>2 DEF RepairIds
<1>6. PlanId(x, c) \in PlanIds(p, F, c) => NeedsPlan(p, F, x)
  BY <1>2 DEF PlanIds
<1> QED BY <1>3, <1>4, <1>5, <1>6

\* The tasks of a new cycle are new.
LEMMA CycleIdsAreNew ==
  ASSUME NEW p, NEW F, NEW c, NewCycle(p, F, c), NEW i \in CycleIds(p, F, c)
  PROVE  i \notin DOMAIN p.tasks
<1>1. PICK x \in Targets(p, F) : i \in {RepairId(x, c), PlanId(x, c)}
  BY DEF CycleIds, PlanIds, RepairIds
<1> DEFINE s == x[2]
<1>2. s \in Seq(Nat) /\ c \in Nat
  BY TargetsAreTasks, Entry DEF NewCycle, Ids
<1>3. RepairId(x, c)[2] = Append(s, c) /\ PlanId(x, c)[2] = s \o <<c, 0>>
  BY DEF RepairId, PlanId
<1> HIDE DEF s
<1>4. /\ Len(s) + 1 \in 1..Len(Append(s, c)) /\ Append(s, c)[Len(s) + 1] = c
      /\ Len(s) + 1 \in 1..Len(s \o <<c, 0>>) /\ (s \o <<c, 0>>)[Len(s) + 1] = c
  BY <1>2
<1>5. \E k \in 1..Len(i[2]) : i[2][k] = c
  BY <1>1, <1>3, <1>4
<1> QED BY <1>2, <1>5 DEF NewCycle

\* What the cycle leaves: only what was skipped is requeued.
LEMMA NewCycleTable ==
  ASSUME NEW p, NEW F, NEW c, NewCycle(p, F, c)
  PROVE  /\ \A j \in DOMAIN p.tasks :
              /\ j \in DOMAIN RepairCycle(p, F, c).tasks
              /\ p.tasks[j].status \in {"pending", "done"} =>
                   RepairCycle(p, F, c).tasks[j].status = p.tasks[j].status
              /\ RepairCycle(p, F, c).tasks[j].deps = p.tasks[j].deps \cup AddedDeps(p, F, c, j)
         /\ \A j \in CycleIds(p, F, c) :
              /\ j \in DOMAIN RepairCycle(p, F, c).tasks
              /\ RepairCycle(p, F, c).tasks[j].status = "pending"
              /\ RepairCycle(p, F, c).tasks[j].deps =
                   InheritedDeps(p, TargetOf(p, F, c, j)) \cup AddedDeps(p, F, c, j)
<1> DEFINE y == CycleIds(p, F, c)
           r == PlanRepairs(p, F, c)
           q == ResumeFailed(r, F, y)
<1>0. /\ IsProject(p) /\ F \in SUBSET DOMAIN p.tasks /\ F \subseteq DOMAIN p.tasks /\ c \in Nat
      /\ c > 0
  BY DEF NewCycle
<1>1. IsProject(r) /\ DOMAIN r.tasks = DOMAIN p.tasks \cup y
  BY <1>0, PlanRepairsType
<1>2. q = RepairCycle(p, F, c)
  BY DEF RepairCycle
<1>3. DOMAIN q.tasks = DOMAIN p.tasks \cup y
  BY <1>1, ResumeFailedType
<1>4. \A j \in y : j \notin DOMAIN p.tasks
  BY CycleIdsAreNew
<1>5. ASSUME NEW j \in DOMAIN p.tasks
      PROVE  /\ r.tasks[j].status = p.tasks[j].status
             /\ r.tasks[j].deps = p.tasks[j].deps \cup AddedDeps(p, F, c, j)
  <2> HIDE DEF q, y
  <2> QED BY ONLY <1>0, <1>5, PlannedOld DEF r
<1>6. ASSUME NEW j \in y
      PROVE  /\ r.tasks[j].status = "pending"
             /\ r.tasks[j].deps = InheritedDeps(p, TargetOf(p, F, c, j)) \cup AddedDeps(p, F, c, j)
  <2> HIDE DEF q
  <2> QED BY ONLY <1>0, <1>4, <1>6, PlannedNew DEF r, y
<1>7. ASSUME NEW j \in Requeued(r, F, y)
      PROVE  r.tasks[j].status = "skipped"
  <2> HIDE DEF q, r, y
  <2>1. j \notin y \cap WithStatus(r, {"done", "failed", "skipped"})
    BY <1>6 DEF WithStatus
  <2>2. j \in Waiting(r)
    BY <2>1 DEF Requeued, Freed
  <2> QED BY <2>2 DEF Waiting, WithStatus
<1>8. ASSUME NEW j \in DOMAIN r.tasks
      PROVE  /\ j \notin Requeued(r, F, y) => q.tasks[j] = r.tasks[j]
             /\ q.tasks[j].deps = r.tasks[j].deps
  BY <1>1, RequeuedTable
<1> HIDE DEF q, r, y
<1>9. ASSUME NEW j \in DOMAIN p.tasks
      PROVE  /\ j \in DOMAIN q.tasks
             /\ p.tasks[j].status \in {"pending", "done"} => q.tasks[j].status = p.tasks[j].status
             /\ q.tasks[j].deps = p.tasks[j].deps \cup AddedDeps(p, F, c, j)
  BY <1>1, <1>3, <1>5, <1>7, <1>8
<1>10. ASSUME NEW j \in y
       PROVE  /\ j \in DOMAIN q.tasks
              /\ q.tasks[j].status = "pending"
              /\ q.tasks[j].deps = InheritedDeps(p, TargetOf(p, F, c, j)) \cup AddedDeps(p, F, c, j)
  BY <1>1, <1>3, <1>6, <1>7, <1>8
<1> QED BY <1>2, <1>9, <1>10 DEF y

\* What is ready stays so, unless the cycle makes it wait for the code it blames.
LEMMA ReadyStays ==
  ASSUME NEW p, NEW F, NEW c, NewCycle(p, F, c),
         NEW i \in DOMAIN p.tasks, Ready(p, i), i \notin F
  PROVE  Runnable(RepairCycle(p, F, c)) # {}
<1> DEFINE q == RepairCycle(p, F, c)
<1>1. AddedDeps(p, F, c, i) = {}
  <2>1. i \notin RepairIds(p, F, c)
    BY CycleIdsAreNew DEF CycleIds
  <2> QED BY <2>1 DEF AddedDeps, CodeRepairOf, Suites
<1>2. /\ i \in DOMAIN q.tasks /\ q.tasks[i].status = "pending" /\ q.tasks[i].deps = p.tasks[i].deps
      /\ \A d \in p.tasks[i].deps : d \in DOMAIN q.tasks /\ q.tasks[d].status = "done"
  <2>1. /\ i \in DOMAIN q.tasks
        /\ p.tasks[i].status = "pending" => q.tasks[i].status = "pending"
        /\ q.tasks[i].deps = p.tasks[i].deps \cup AddedDeps(p, F, c, i)
    BY NewCycleTable
  <2>2. \A d \in DOMAIN p.tasks :
          d \in DOMAIN q.tasks /\ (p.tasks[d].status = "done" => q.tasks[d].status = "done")
    BY NewCycleTable
  <2> HIDE DEF q
  <2> QED BY <1>1, <2>1, <2>2 DEF Ready
<1> HIDE DEF q
<1>3. i \in Runnable(q)
  BY <1>2 DEF Runnable, Ready
<1> QED BY <1>3 DEF q

\* The repair of a target whose inherited dependencies are done is ready, or the plan
\* that the repair waits for is.
LEMMA RepairIsReady ==
  ASSUME NEW p, NEW F, NEW c, NewCycle(p, F, c),
         NEW x \in Targets(p, F), x \notin Suites(p, F),
         \A d \in p.tasks[x].deps : ~IsLineage(d) => p.tasks[d].status = "done"
  PROVE  Runnable(RepairCycle(p, F, c)) # {}
<1> DEFINE q == RepairCycle(p, F, c)
<1>1. ASSUME NEW i \in CycleIds(p, F, c), TargetOf(p, F, c, i) = x, AddedDeps(p, F, c, i) = {}
      PROVE  Runnable(q) # {}
  <2>1. x \in DOMAIN p.tasks
    BY TargetsAreTasks DEF NewCycle
  <2>2. \A d \in InheritedDeps(p, x) : d \in DOMAIN p.tasks /\ p.tasks[d].status = "done"
    BY <2>1 DEF InheritedDeps, NewCycle, DepsExist
  <2>3. /\ i \in DOMAIN q.tasks /\ q.tasks[i].status = "pending"
        /\ q.tasks[i].deps = InheritedDeps(p, x)
    <3>1. /\ i \in DOMAIN q.tasks /\ q.tasks[i].status = "pending"
          /\ q.tasks[i].deps =
               InheritedDeps(p, TargetOf(p, F, c, i)) \cup AddedDeps(p, F, c, i)
      BY NewCycleTable
    <3> HIDE DEF q
    <3> QED BY <1>1, <3>1
  <2>4. \A d \in InheritedDeps(p, x) : d \in DOMAIN q.tasks /\ q.tasks[d].status = "done"
    BY <2>2, NewCycleTable
  <2> HIDE DEF q
  <2>5. i \in Runnable(q)
    BY <2>3, <2>4 DEF Runnable, Ready
  <2> QED BY <2>5
<1> HIDE DEF q
<1>2. CASE NeedsPlan(p, F, x)
  <2> DEFINE i == PlanId(x, c)
  <2>1. i \in PlanIds(p, F, c) /\ i \in CycleIds(p, F, c)
    BY <1>2 DEF PlanIds, CycleIds
  <2>2. i \notin RepairIds(p, F, c) /\ TargetOf(p, F, c, i) = x
    BY TargetIsKnown
  <2>3. i \notin Suites(p, F)
    BY <2>1, CycleIdsAreNew DEF Suites, NewCycle
  <2> HIDE DEF i
  <2>4. AddedDeps(p, F, c, i) = {}
    BY <2>2, <2>3 DEF AddedDeps, CodeRepairOf
  <2> QED BY <1>1, <2>1, <2>2, <2>4 DEF q
<1>3. CASE ~NeedsPlan(p, F, x)
  <2> DEFINE i == RepairId(x, c)
  <2>1. i \in RepairIds(p, F, c) /\ i \in CycleIds(p, F, c)
    BY DEF RepairIds, CycleIds
  <2>2. TargetOf(p, F, c, i) = x /\ PlanId(x, c) \notin PlanIds(p, F, c)
    BY <1>3, TargetIsKnown
  <2>3. Origin(i) = x
    BY TargetsAreTasks, Entry, NewIdsAre DEF NewCycle
  <2> HIDE DEF i
  <2>4. AddedDeps(p, F, c, i) = {}
    BY <2>1, <2>2, <2>3 DEF AddedDeps, CodeRepairOf
  <2> QED BY <1>1, <2>1, <2>2, <2>4 DEF q
<1> QED BY <1>2, <1>3 DEF q

\* Of the tasks of the definition that failed, one waits for no other, not even
\* through tasks that have not been attempted.
LEMMA SomeFailureComesFirst ==
  ASSUME NEW p, IsFiniteSet(DOMAIN p.tasks), PlanIsValid(p),
         NEW P \in SUBSET DOMAIN p.tasks, P # {}
  PROVE  \E i \in P : /\ p.tasks[i].deps \cap P = {}
                      /\ \A u \in p.tasks[i].deps \cap DOMAIN p.tasks :
                           p.tasks[u].deps \cap P = {}
<1> DEFINE U == Reach(p.tasks, P, DOMAIN p.tasks)
<1>1. P \subseteq U /\ U \subseteq DOMAIN p.tasks /\ IsClosed(p.tasks, DOMAIN p.tasks, U)
  BY ReachIsClosed
<1>2. U # {} /\ U \in SUBSET DOMAIN p.tasks
  BY <1>1
<1>3. PICK i \in U : p.tasks[i].deps \cap U = {}
  BY <1>2, SomeTaskComesFirst
<1>4. i \in P
  <2>1. SUFFICES ASSUME i \notin P PROVE FALSE
    OBVIOUS
  <2>2. IsClosed(p.tasks, DOMAIN p.tasks, U \ {i})
    BY <1>1, <1>3 DEF IsClosed
  <2>3. P \subseteq U \ {i}
    BY <1>1, <2>1
  <2>4. Reach(p.tasks, P, DOMAIN p.tasks) \subseteq U \ {i}
    BY <2>2, <2>3, ReachIsLeast
  <2> QED BY <1>3, <2>4
<1> HIDE DEF U
<1>5. ASSUME NEW u \in p.tasks[i].deps \cap DOMAIN p.tasks
      PROVE  p.tasks[u].deps \cap P = {}
  BY <1>1, <1>3, <1>5 DEF IsClosed
<1> QED BY <1>1, <1>3, <1>4, <1>5

\* A new cycle for whatever failed leaves some task ready to run.
LEMMA CycleHasReady ==
  ASSUME NEW p, NEW c, NewCycle(p, FailedForRepair(p), c), IsFiniteSet(DOMAIN p.tasks),
         PlanIsValid(p), Settled(p), Running(p) = {}, FailedForRepair(p) # {}
  PROVE  Runnable(RepairCycle(p, FailedForRepair(p), c)) # {}
<1> DEFINE F == FailedForRepair(p)
           P == {i \in WithStatus(p, {"failed"}) : ~IsLineage(i)}
           q == RepairCycle(p, F, c)
<1>1. /\ IsProject(p) /\ F \subseteq DOMAIN p.tasks
      /\ \A i \in F : p.tasks[i].status = "failed" /\ ~IsRepair(i)
      /\ P \in SUBSET DOMAIN p.tasks
  BY DEF FailedForRepair, WithStatus, NewCycle
<1>2. \A i \in Engaged(p) : Founded(p, i)
  BY DEF Settled
<1>3. \A i \in DOMAIN p.tasks :
        IsLineage(i) \/ p.tasks[i].status = "failed" \/ i \in Attempted(p) => i \in Engaged(p)
  BY DEF Engaged, Attempted, WithStatus
<1>4. ASSUME NEW i \in Engaged(p), p.tasks[i].deps \cap P = {},
             NEW d \in p.tasks[i].deps, ~IsLineage(d)
      PROVE  p.tasks[d].status = "done"
  BY <1>2, <1>4 DEF Founded, Attempted, WithStatus
<1>5. CASE P = {}
  <2>1. PICK f \in F : TRUE
    OBVIOUS
  <2>2. f \in Ids /\ IsLineage(f) /\ ~IsRepair(f)
    BY <1>1, <1>5, Entry DEF WithStatus
  <2>3. RoleOf(f) = "architect"
    <3>1. f[2] \in Seq(Nat) /\ f[2] # << >> /\ f[2][Len(f[2])] = 0
      BY <2>2 DEF Ids, IsRepair, IsLineage
    <3>2. Len(f[2]) \in 1 .. Len(f[2])
      BY <3>1
    <3> QED BY <3>1, <3>2 DEF RoleOf
  <2>4. f \notin Suites(p, F)
    BY <2>3 DEF Suites, HasUpstreamCode, BlamesCode
  <2>5. f \in Engaged(p) /\ f \in Targets(p, F)
    BY <1>1, <1>3, <2>2 DEF Targets
  <2>6. \A d \in p.tasks[f].deps : ~IsLineage(d) => p.tasks[d].status = "done"
    BY <1>4, <1>5, <2>5
  <2> HIDE DEF F, P
  <2> QED BY <2>4, <2>5, <2>6, RepairIsReady DEF F
<1>6. CASE P # {}
  <2>1. PICK i \in P : /\ p.tasks[i].deps \cap P = {}
                       /\ \A u \in p.tasks[i].deps \cap DOMAIN p.tasks :
                            p.tasks[u].deps \cap P = {}
    <3> HIDE DEF P, F
    <3> QED BY <1>1, <1>6, SomeFailureComesFirst
  <2>2. /\ i \in DOMAIN p.tasks /\ p.tasks[i].status = "failed" /\ ~IsLineage(i)
        /\ ~IsRepair(i) /\ i \in Engaged(p)
    BY <1>3 DEF WithStatus, IsRepair
  <2>3. \A d \in p.tasks[i].deps : ~IsLineage(d) => p.tasks[d].status = "done"
    BY <1>4, <2>1, <2>2
  <2>4. CASE i \in F /\ i \notin Suites(p, F)
    BY <2>3, <2>4, RepairIsReady DEF Targets
  <2>5. CASE i \in F /\ i \in Suites(p, F)
    <3> DEFINE u == UpstreamCode(p, i)
    <3>1. /\ u \in p.tasks[i].deps /\ u \in DOMAIN p.tasks /\ RoleOf(u) = "code_engineer"
      BY <2>5, BlamedCodeIsDep DEF Suites
    <3>2. u \in Targets(p, F)
      BY <2>5 DEF Targets, BlamedCode
    <3> HIDE DEF u, F
    <3>3. u \notin Suites(p, F)
      BY <3>1 DEF Suites, HasUpstreamCode, BlamesCode
    <3>4. u \in Engaged(p)
      BY <1>2, <1>3, <2>2, <3>1 DEF Founded
    <3>5. \A d \in p.tasks[u].deps : ~IsLineage(d) => p.tasks[d].status = "done"
      BY <1>4, <2>1, <3>1, <3>4
    <3> QED BY <3>2, <3>3, <3>5, RepairIsReady DEF F
  <2>6. CASE i \notin F
    <3>1. PICK r \in DOMAIN p.tasks :
            IsRepair(r) /\ (p.tasks[r].status = "running" \/ Ready(p, r))
      BY <2>2, <2>6 DEF FailedForRepair, WithStatus
    <3>2. Ready(p, r) /\ r \notin F
      BY <1>1, <3>1 DEF Running, WithStatus
    <3> QED BY <3>2, ReadyStays
  <2> QED BY <2>4, <2>5, <2>6
<1> QED BY <1>5, <1>6

\* Projects with the same tasks are the same to the planner of repairs.
LEMMA SameTasksSamePlan ==
  ASSUME NEW p, NEW q, q.tasks = p.tasks
  PROVE  /\ FailedForRepair(q) = FailedForRepair(p)
         /\ Running(q) = Running(p)
         /\ PlanIsValid(p) => PlanIsValid(q)
         /\ SameGraph(p, q)
<1>1. FailedForRepair(q) = FailedForRepair(p)
  BY DEF FailedForRepair, WithStatus, Ready
<1>2. Running(q) = Running(p)
  BY DEF Running, WithStatus
<1>3. PlanIsValid(p) => PlanIsValid(q)
  BY DEF PlanIsValid
<1>4. SameGraph(p, q)
  BY DEF SameGraph
<1> QED BY <1>1, <1>2, <1>3, <1>4

\* The cycle that a resume starts leaves some task ready.
LEMMA ResumeMakesProgress ==
  ASSUME TypeInv, BudgetInv, GraphInv, DepsExistInv, SettledInv, calls = 0, ResumeWithRepair
  PROVE  Runnable(project') # {}
<1>1. PICK p, q, F :
         /\ p = ResumeInterrupted(project) /\ IsProject(p)
         /\ F = FailedForRepair(p) /\ F # {} /\ F \subseteq DOMAIN q.tasks
         /\ IsProject(q) /\ q.tasks = p.tasks /\ q.cycles = project.cycles + 1
         /\ q.cycles \in Nat /\ q.cycles > 0
         /\ DOMAIN q.tasks = DOMAIN project.tasks
         /\ project' = RepairCycle(q, F, q.cycles)
  BY CycleOfResume
<1>2. /\ IsProject(project) /\ project.cycles \in Nat
      /\ IsStructured(project) /\ PlanIsValid(project) /\ DepsExist(project) /\ Settled(project)
      /\ PathsWithin(DOMAIN project.tasks, project.cycles)
  BY DEF TypeInv, TypeOK, GraphInv, DepsExistInv, SettledInv, ResumeWithRepair, IsProject,
         ProjectRecord, BudgetInv, WithinBudget
<1>3. SameGraph(project, p) /\ Settled(p)
  BY <1>1, <1>2, ScansKeepGround, GroundKept DEF KeepsGround
<1>4. PlanIsValid(p) /\ IsStructured(p) /\ DepsExist(p)
  BY <1>1, <1>2, <1>3, ValidKept, StructureKept
<1>5. Running(p) = {}
  <2>1. DOMAIN p.tasks = DOMAIN project.tasks
    BY <1>3 DEF SameGraph
  <2> QED BY <1>1, <1>2, <2>1, InterruptedKeep DEF Running, WithStatus
<1>6. /\ FailedForRepair(q) = F /\ Running(q) = {}
      /\ PlanIsValid(q) /\ IsStructured(q) /\ DepsExist(q) /\ Settled(q)
  BY <1>1, <1>3, <1>4, <1>5, SameTasksSamePlan, SameTasksKeepGround, GroundKept, StructureKept
<1>7. \A i \in DOMAIN q.tasks : \A k \in 1..Len(i[2]) : i[2][k] < q.cycles
  <2> SUFFICES ASSUME NEW i \in DOMAIN q.tasks, NEW k \in 1..Len(i[2])
               PROVE  i[2][k] < q.cycles
    OBVIOUS
  <2>1. i[2][k] <= project.cycles
    BY <1>1, <1>2 DEF PathsWithin
  <2>2. i \in Ids
    BY <1>1, Entry
  <2>3. i[2][k] \in Nat
    BY <2>2 DEF Ids
  <2> QED BY <1>1, <1>2, <2>1, <2>3
<1>8. NewCycle(q, FailedForRepair(q), q.cycles) /\ IsFiniteSet(DOMAIN q.tasks)
  BY <1>1, <1>6, <1>7 DEF NewCycle, IsStructured
<1>9. Runnable(RepairCycle(q, FailedForRepair(q), q.cycles)) # {}
  BY <1>1, <1>6, <1>8, CycleHasReady
<1> QED BY <1>1, <1>6, <1>9

\* A repair cycle is not spent for nothing: of the tasks that failed, one waits for no
\* other; what its repair inherits is done, and so is what is inherited by the repair
\* of the code that it blames.
THEOREM CyclesMakeProgress == Spec => CycleMakesProgress
<1>1. Init => SettledInv
  BY InitialIsSettled DEF Init, SettledInv, Fresh
<1>2. TypeInv /\ TypeInv' /\ GraphInv /\ DepsExistInv /\ SettledInv /\ [Next]_vars => SettledInv'
  BY SettledStep
<1>3. /\ TypeInv /\ TypeInv' /\ CyclesSaved /\ BudgetInv /\ GraphInv /\ DepsExistInv
      /\ SettledInv /\ [Next]_vars
      => [project'.cycles > project.cycles /\ calls = 0 => Runnable(project') # {}]_vars
  <2> SUFFICES ASSUME TypeInv, TypeInv', CyclesSaved, BudgetInv, GraphInv, DepsExistInv,
                      SettledInv, [Next]_vars, project'.cycles > project.cycles, calls = 0
               PROVE  Runnable(project') # {}
    OBVIOUS
  <2>1. project.cycles \in Nat /\ project'.cycles \in Nat
    BY DEF TypeInv, TypeOK, IsProject, ProjectRecord
  <2>2. ResumeWithRepair
    BY <2>1, OnlyResumeCountsCycles
  <2> QED BY <2>2, ResumeMakesProgress
<1> QED
  BY <1>1, <1>2, <1>3, TypeInvHolds, CyclesSavedHolds, BudgetInvHolds, GraphInvHolds, DepsExistInvHolds, PTL
  DEF Spec, CycleMakesProgress

-----------------------------------------------------------------------------
(* Which methods complete a task: only completing it.                      *)

\* The tasks that come to be done when the attempt at i succeeds.
Completes(i) == {i} \cup {j \in Ids : Repairs(i, j)}

\* No method but complete_task completes a task.
LEMMA MethodsComplete ==
  ASSUME NEW p, IsProject(p), NEW i, NEW category, NEW evidence
  PROVE  /\ Done(StartTask(p, i)) \subseteq Done(p)
         /\ Done(FailTask(p, i, category, evidence)) \subseteq Done(p)
         /\ Done(CompleteTask(p, i)) \subseteq Done(p) \cup Completes(i)
         /\ Done(SkipDependents(p, i)) \subseteq Done(p)
         /\ Done(SkipSuperseded(p)) \subseteq Done(p)
         /\ Done(ResumeInterrupted(p)) \subseteq Done(p)
<1>0. ASSUME NEW j \in DOMAIN p.tasks PROVE p.tasks[j] \in TaskRecord /\ j \in Ids
  BY Entry
<1>1. Done(StartTask(p, i)) \subseteq Done(p)
  <2> DEFINE T == StartTask(p, i).tasks
  <2>1. T = [j \in DOMAIN p.tasks |->
               IF j = i THEN StartedRecord(p.tasks[j])
               ELSE IF Repairs(i, j) THEN [p.tasks[j] EXCEPT !.attempts = @ + 1]
               ELSE p.tasks[j]]
    BY TableOf DEF StartTask
  <2>2. ASSUME NEW j \in DOMAIN p.tasks
        PROVE  /\ StartedRecord(p.tasks[j]).status = "running"
               /\ [p.tasks[j] EXCEPT !.attempts = @ + 1].status = p.tasks[j].status
    BY <1>0, StatusOfRecords, Vocabulary
  <2> HIDE DEF T
  <2> QED BY <2>1, <2>2 DEF Done, WithStatus, T
<1>2. Done(FailTask(p, i, category, evidence)) \subseteq Done(p)
  <2> DEFINE T == FailTask(p, i, category, evidence).tasks
             status == IF ~RetriesLeft(p, i) THEN "failed" ELSE "pending"
             Left(j) == IF ~RetriesLeft(p, i) THEN evidence ELSE p.tasks[j].evidence
  <2>1. T = [j \in DOMAIN p.tasks |->
               IF j = i THEN FailedRecord(p.tasks[j], status, category, Left(j))
               ELSE IF Repairs(i, j) THEN FailedRecord(p.tasks[j], "failed", category, Left(j))
               ELSE p.tasks[j]]
    BY TableOf DEF FailTask
  <2>2. status \in {"failed", "pending"}
    OBVIOUS
  <2> HIDE DEF status, Left
  <2>3. ASSUME NEW j \in DOMAIN p.tasks
        PROVE  /\ FailedRecord(p.tasks[j], status, category, Left(j)).status = status
               /\ FailedRecord(p.tasks[j], "failed", category, Left(j)).status = "failed"
    BY <1>0 DEF FailedRecord, TaskRecord
  <2> HIDE DEF T
  <2> QED BY <2>1, <2>2, <2>3 DEF Done, WithStatus, T
<1>3. Done(CompleteTask(p, i)) \subseteq Done(p) \cup Completes(i)
  <2> DEFINE T == CompleteTask(p, i).tasks
             over(j) == /\ HasOrigin(p, i) /\ IsRepair(j) /\ Origin(j) = Origin(i)
                        /\ p.tasks[j].status = "pending"
             X(j) == IF IsRepair(i) THEN p.tasks[j].context ELSE NoContext
  <2>1. T = [j \in DOMAIN p.tasks |->
               IF j = i THEN DoneRecord(p.tasks[j], X(j))
               ELSE IF Repairs(i, j) THEN DoneRecord(p.tasks[j], NoContext)
               ELSE IF over(j)
                 THEN SkippedRecord(p.tasks[j], "superseded_repair", p.tasks[j].context)
               ELSE p.tasks[j]]
    BY TableOf DEF CompleteTask
  <2>2. ASSUME NEW j \in DOMAIN p.tasks
        PROVE  SkippedRecord(p.tasks[j], "superseded_repair", p.tasks[j].context).status = "skipped"
    BY <1>0 DEF SkippedRecord, TaskRecord
  <2>3. \A j \in DOMAIN p.tasks : j = i \/ Repairs(i, j) => j \in Completes(i)
    BY <1>0 DEF Completes
  <2> HIDE DEF T, over, X
  <2> QED BY <2>1, <2>2, <2>3 DEF Done, WithStatus, T
<1>4. Done(SkipDependents(p, i)) \subseteq Done(p)
  <2> DEFINE doomed == Descendants(p, i) \cap Pending(p)
  <2>1. SkipDependents(p, i).tasks =
          [j \in DOMAIN p.tasks |->
             IF j \in doomed THEN SkippedRecord(p.tasks[j], "dependency_failed", NoContext)
             ELSE p.tasks[j]]
    BY TableOf DEF SkipDependents
  <2>2. ASSUME NEW j \in DOMAIN p.tasks
        PROVE  SkippedRecord(p.tasks[j], "dependency_failed", NoContext).status = "skipped"
    BY <1>0 DEF SkippedRecord, TaskRecord
  <2> HIDE DEF doomed
  <2> QED BY <2>1, <2>2 DEF Done, WithStatus
<1>5. Done(SkipSuperseded(p)) \subseteq Done(p)
  <2> DEFINE over(j) == p.tasks[j].status = "pending" /\ OriginDone(p, j) /\ ~StillRequired(p, j)
  <2>1. SkipSuperseded(p).tasks =
          [j \in DOMAIN p.tasks |->
             IF over(j) THEN SkippedRecord(p.tasks[j], "superseded_repair", p.tasks[j].context)
             ELSE p.tasks[j]]
    BY TableOf DEF SkipSuperseded
  <2>2. ASSUME NEW j \in DOMAIN p.tasks
        PROVE  SkippedRecord(p.tasks[j], "superseded_repair", p.tasks[j].context).status = "skipped"
    BY <1>0 DEF SkippedRecord, TaskRecord
  <2> HIDE DEF over
  <2> QED BY <2>1, <2>2 DEF Done, WithStatus
<1>6. Done(ResumeInterrupted(p)) \subseteq Done(p)
  <2> DEFINE T == [j \in DOMAIN p.tasks |->
                     IF j \in WithStatus(p, {"running"})
                       THEN [p.tasks[j] EXCEPT !.status = "pending", !.category = "none"]
                       ELSE p.tasks[j]]
  <2>1. ResumeInterrupted(p) = p \/ ResumeInterrupted(p).tasks = T
    BY TableOf DEF ResumeInterrupted
  <2>2. ASSUME NEW j \in DOMAIN p.tasks
        PROVE  [p.tasks[j] EXCEPT !.status = "pending", !.category = "none"].status = "pending"
    BY <1>0 DEF TaskRecord
  <2> QED BY <2>1, <2>2 DEF Done, WithStatus
<1> QED BY <1>1, <1>2, <1>3, <1>4, <1>5, <1>6

\* A repair cycle completes no task.
LEMMA RepairCycleCompletes ==
  ASSUME NEW p, IsProject(p), NEW F, F \subseteq DOMAIN p.tasks, NEW c \in Nat
  PROVE  Done(RepairCycle(p, F, c)) \subseteq Done(p)
BY RepairCycleRequeues DEF Done

-----------------------------------------------------------------------------
(* Executions that no operator intervenes in.                              *)

\* Nobody has paused or cancelled p.
Undisturbed(p) == p.phase \notin {"paused", "cancelled"} /\ p.outcome # "cancelled"

\* If p says that it was completed, then it was accepted and all work is over.
Honest(p) ==
  p.outcome = "completed" =>
    p.phase = "completed" /\ Accepted(p) /\ WithStatus(p, {"pending", "running"}) = {}

\* What is inductive while executions are left alone.
ExecutionInv ==
  /\ Undisturbed(project) /\ Undisturbed(disk)
  /\ Honest(project) /\ Honest(disk)
  /\ pc \in {"loop", "frontier", "agent"} => project.phase = "execution"
  /\ pc = "idle" => project = disk

\* What the runtime may complete and leave in a step: nothing but the tasks of S.
DoneWithin(S) == Done(project') \subseteq S /\ Done(disk') \subseteq S \cup Done(disk)

\* The workflow's own invariants, which hold under every use of it.
WorkInv == TypeInv /\ BudgetInv /\ AttemptsInv /\ GraphInv

\* Every step of the workflow keeps them.
LEMMA WorkInvStep ==
  ASSUME WorkInv, [Next]_vars
  PROVE  WorkInv'
<1>1. TypeInv'      BY TypeStep DEF WorkInv
<1>2. BudgetInv'    BY BudgetStep DEF WorkInv
<1>3. AttemptsInv'  BY AttemptsStep DEF WorkInv
<1>4. GraphStep     BY GraphOfSteps DEF WorkInv
<1>5. GraphInv'     BY <1>1, <1>4, GraphInvStep DEF WorkInv
<1> QED BY <1>1, <1>2, <1>3, <1>5 DEF WorkInv

\* They hold to begin with.
LEMMA InitImpliesWorkInv ==
  ASSUME Init
  PROVE  WorkInv
<1>1. TypeInv
  BY InitialType, PolicyAssumption DEF Init, TypeInv, TypeOK, FrontierIsLocal, Points
<1>2. BudgetInv
  <2>1. \A i \in DOMAIN InitialProject.tasks : Len(i[2]) = 0
    BY DEF InitialProject, OriginalId
  <2> QED BY <2>1, PolicyAssumption
      DEF Init, BudgetInv, WithinBudget, PathsWithin, InitialProject
<1>3. AttemptsInv
  BY DEF Init, AttemptsInv, NoOrphanRunning, IdleIsDurable
<1>4. GraphInv
  BY InitialIsStructured DEF Init, GraphInv
<1> QED BY <1>1, <1>2, <1>3, <1>4 DEF WorkInv

\* Acceptance depends on the tasks and on whether the sandbox was violated.
LEMMA AcceptedKept ==
  ASSUME NEW p, NEW q, Accepted(p), q.tasks = p.tasks, q.failure # "sandbox"
  PROVE  Accepted(q)
BY DEF Accepted, OriginDone, HasOrigin

\* An accepted workflow has nothing to repair.
LEMMA NothingToRepair ==
  ASSUME NEW p, Accepted(p)
  PROVE  FailedForRepair(p) = {}
BY DEF Accepted, FailedForRepair, WithStatus, OriginDone, HasOrigin

\* In an execution that is under way, a project in the same stage replaces another.
LEMMA GoOn ==
  ASSUME ExecutionInv, project.phase = "execution",
         NEW p, SameStage(project, p), NEW S, Done(p) \subseteq S,
         SaveAs(p) \/ Keep(p), pc' # "idle" \/ SaveAs(p)
  PROVE  ExecutionInv' /\ DoneWithin(S)
BY DEF ExecutionInv, Undisturbed, Honest, SameStage, DoneWithin, SaveAs, Keep

\* An execution ends with the workflow failed.
LEMMA EndFailed ==
  ASSUME ExecutionInv, NEW p, IsProject(p), NEW f, NEW S, Done(p) \subseteq S, StopFailed(p, f)
  PROVE  ExecutionInv' /\ DoneWithin(S)
<1> DEFINE q == MarkFinished(p, "failed", "failed", f)
<1>1. q.phase = "failed" /\ q.outcome = "failed" /\ q.tasks = p.tasks
  BY DEF MarkFinished, IsProject, ProjectRecord
<1>2. SaveAs(q) /\ pc' = "idle"
  BY DEF StopFailed, Stop, Goto
<1> HIDE DEF q
<1> QED BY <1>1, <1>2
    DEF ExecutionInv, Undisturbed, Honest, DoneWithin, SaveAs, Done, WithStatus

\* Every way in which dispatch_task_failure may decide.
LEMMA HandleFailureInv ==
  ASSUME ExecutionInv, project.phase = "execution",
         NEW p, IsProject(p), SameStage(project, p), NEW S, Done(p) \subseteq S,
         NEW t \in DOMAIN p.tasks, NEW category, NEW left, HandleFailure(p, t, category, left)
  PROVE  ExecutionInv' /\ DoneWithin(S)
<1>1. ASSUME NEW q, SameStage(p, q), Done(q) \subseteq Done(p), ContinueWith(q, left)
      PROVE  ExecutionInv' /\ DoneWithin(S)
  <2>1. SameStage(project, q) /\ Done(q) \subseteq S
    BY <1>1 DEF SameStage
  <2> QED BY <1>1, <2>1, GoOn DEF ContinueWith, Goto
<1>2. CASE ContinueWith(p, left)
  BY <1>1, <1>2 DEF SameStage
<1>3. CASE ContinueWith(RepairCycle(p, {t}, p.cycles), left)
  <2>1. {t} \subseteq DOMAIN p.tasks /\ p.cycles \in Nat
    BY DEF IsProject, ProjectRecord
  <2> QED BY <1>1, <1>3, <2>1, RepairCycleKeepsStage, RepairCycleCompletes
<1>4. CASE ContinueWith(SkipDependents(p, t), left)
  BY <1>1, <1>4, TaskMethodsKeepStage, MethodsComplete
<1>5. CASE StopFailed(p, category)
  BY <1>5, EndFailed
<1> QED BY <1>2, <1>3, <1>4, <1>5 DEF HandleFailure

\* The steps of a campaign's execution, and those that deliver nothing.
ExecutionStep == Execute \/ Runtime \/ Agent
EmptyStep     == Execute \/ Runtime \/ \E f \in FailureModes : AgentFails(f)

\* Every step of an execution keeps the invariant, and only the success of an
\* agent completes tasks: its own and the one it was to repair.
LEMMA ExecutionInvStep ==
  ASSUME WorkInv, ExecutionInv, ExecutionStep
  PROVE  /\ ExecutionInv'
         /\ EmptyStep => DoneWithin(Done(project))
         /\ AgentSucceeds => DoneWithin(Done(project) \cup Completes(current))
<1> DEFINE p == ResumeInterrupted(project)
           s == SkipSuperseded(project)
           S == Done(project)
           Goal == ExecutionInv' /\ DoneWithin(Done(project))
<1>1. /\ IsProject(project) /\ SameStage(project, project)
      /\ frontier \subseteq DOMAIN project.tasks
  BY DEF WorkInv, TypeInv, TypeOK, SameStage
<1>2. /\ IsProject(p) /\ SameStage(project, p) /\ Done(p) \subseteq S
      /\ IsProject(s) /\ SameStage(project, s) /\ Done(s) \subseteq S
  BY <1>1, ResumeInterruptedType, SkipSupersededType, TaskMethodsKeepStage, MethodsComplete
<1>3. ~Stopped(project) /\ ~Cancelled(project)
  BY DEF ExecutionInv, Undisturbed, Stopped, Paused, Cancelled
<1>4. project.outcome = "completed" => p = project /\ FailedForRepair(p) = {}
  <2> SUFFICES ASSUME project.outcome = "completed"
               PROVE  p = project /\ FailedForRepair(p) = {}
    OBVIOUS
  <2>1. Accepted(project) /\ WithStatus(project, {"running"}) = {}
    BY DEF ExecutionInv, Honest, WithStatus
  <2>2. p = project
    BY <2>1 DEF ResumeInterrupted
  <2> HIDE DEF p
  <2> QED BY <2>1, <2>2, NothingToRepair
<1>5. project.phase = "execution" => project.outcome # "completed"
  BY DEF ExecutionInv, Honest
<1> HIDE DEF p, s
<1>6. ASSUME Execute PROVE Goal
  <2> DEFINE q == [project EXCEPT !.budget = MaxRepairCycles]
  <2>1. /\ q.tasks = project.tasks /\ q.failure = project.failure /\ SameStage(project, q)
    BY <1>1 DEF IsProject, ProjectRecord, SameStage
  <2>2. Keep(q) /\ pc' = "resume"
    BY <1>3, <1>6 DEF Execute, Goto
  <2> HIDE DEF q
  <2>3. Accepted(project) => Accepted(q)
    BY <2>1, AcceptedKept DEF Accepted
  <2>4. Honest(q) /\ Undisturbed(q)
    BY <2>1, <2>3 DEF ExecutionInv, Honest, SameStage, WithStatus, Undisturbed
  <2> QED BY <2>1, <2>2, <2>4 DEF Keep, ExecutionInv, DoneWithin, Done, WithStatus
<1>7. ASSUME NEW q, SameStage(project, q), Done(q) \subseteq S, SaveAs(q) \/ Keep(q),
             pc' = "activate", project.outcome = "completed" => q = project
      PROVE  Goal
  <2>1. Honest(q) /\ Undisturbed(q)
    BY <1>7 DEF ExecutionInv, Honest, Undisturbed, SameStage
  <2> QED BY <1>7, <2>1 DEF SaveAs, Keep, ExecutionInv, DoneWithin
<1>8. ASSUME ResumeWithoutRepair PROVE Goal
  BY <1>2, <1>4, <1>7, <1>8 DEF ResumeWithoutRepair, Goto, p
<1>9. ASSUME RefuseRepair PROVE Goal
  BY <1>2, <1>9, EndFailed DEF RefuseRepair, p
<1>10. ASSUME ResumeWithRepair PROVE Goal
  <2> DEFINE F == FailedForRepair(p)
             q == StartCycle(p)
  <2>1. IsProject(q) /\ q.tasks = p.tasks /\ q.cycles \in Nat /\ SameStage(p, q)
    BY <1>2, StartCycleType, TasksKeepStage DEF IsProject, ProjectRecord
  <2>2. F \subseteq DOMAIN q.tasks
    BY <2>1 DEF FailedForRepair, WithStatus
  <2>3. F # {} /\ SaveAs(RepairCycle(q, F, q.cycles)) /\ pc' = "activate"
    BY <1>10 DEF ResumeWithRepair, Goto, p
  <2>4. project.outcome # "completed"
    BY <1>4, <2>3
  <2> HIDE DEF F, q
  <2>5. /\ SameStage(q, RepairCycle(q, F, q.cycles))
        /\ Done(RepairCycle(q, F, q.cycles)) \subseteq Done(q)
    BY <2>1, <2>2, RepairCycleKeepsStage, RepairCycleCompletes
  <2>6. /\ SameStage(project, RepairCycle(q, F, q.cycles))
        /\ Done(RepairCycle(q, F, q.cycles)) \subseteq S
    BY <1>2, <2>1, <2>5 DEF SameStage, Done, WithStatus
  <2> QED BY <1>7, <2>3, <2>4, <2>6
<1>11. ASSUME Activate PROVE Goal
  <2> DEFINE q == EnsureRunning(project)
  <2>1. /\ q.phase = "execution" /\ q.outcome \notin {"completed", "cancelled"}
        /\ q.tasks = project.tasks
    BY <1>1, <1>3, <1>5
    DEF EnsureRunning, MarkRunning, IsProject, ProjectRecord, Cancelled
  <2>2. Keep(q) /\ pc' = "loop"
    BY <1>3, <1>11 DEF Activate, Goto
  <2> HIDE DEF q
  <2> QED BY <2>1, <2>2
      DEF Keep, ExecutionInv, Honest, Undisturbed, DoneWithin, Done, WithStatus
<1>12. ~LoopExit /\ ~FrontierExit
  BY <1>3 DEF LoopExit, FrontierExit, Stopped
<1>13. ASSUME Finish PROVE Goal
  <2> DEFINE o == IF Accepted(s) THEN "completed" ELSE "degraded"
             q == MarkFinished(s, "completed", o, "none")
  <2>1. /\ q.phase = "completed" /\ q.outcome = o /\ q.failure = "none" /\ q.tasks = s.tasks
    BY <1>2 DEF MarkFinished, IsProject, ProjectRecord
  <2>2. SaveAs(q) /\ pc' = "idle" /\ pc = "loop" /\ Pending(s) = {}
    BY <1>13 DEF Finish, Stop, Goto, s
  <2>3. Running(s) = {}
    <3>1. Running(s) \subseteq Running(project)
      BY <1>1, OthersRun DEF s
    <3>2. Running(project) \subseteq {NoTask}
      BY <2>2 DEF WorkInv, AttemptsInv, NoOrphanRunning, TypeInv, TypeOK, Running
    <3>3. NoTask \notin Running(project)
      BY <1>1, Entry, IdIsNotNoTask DEF Running, WithStatus
    <3> QED BY <3>1, <3>2, <3>3
  <2>4. WithStatus(q, {"pending", "running"}) = {}
    BY <2>1, <2>2, <2>3 DEF Pending, Running, WithStatus
  <2>5. o \in {"completed", "degraded"} /\ (o = "completed" => Accepted(s))
    OBVIOUS
  <2> HIDE DEF q, o
  <2>6. Accepted(s) => Accepted(q)
    BY <2>1, AcceptedKept
  <2>7. Honest(q) /\ Undisturbed(q)
    BY <2>1, <2>4, <2>5, <2>6 DEF Honest, Undisturbed
  <2>8. Done(q) \subseteq S
    BY <1>2, <2>1 DEF Done, WithStatus
  <2> QED BY <2>2, <2>7, <2>8 DEF SaveAs, ExecutionInv, DoneWithin
<1>14. ASSUME Blocked PROVE Goal
  BY <1>2, <1>14, EndFailed DEF Blocked, s
<1>15. pc \in {"loop", "frontier", "agent"} => project.phase = "execution"
  BY DEF ExecutionInv
<1>16. ASSUME SelectFrontier PROVE Goal
  BY <1>2, <1>15, <1>16, GoOn DEF SelectFrontier, Goto, s
<1>17. ASSUME FrontierDone PROVE Goal
  BY <1>1, <1>15, <1>17, GoOn DEF FrontierDone, Goto, Keep
<1>18. ASSUME NEW t \in frontier, Dispatch(t) PROVE Goal
  BY <1>1, <1>15, <1>18, TaskMethodsKeepStage, MethodsComplete, GoOn DEF Dispatch, Goto
<1>19. ASSUME NEW t \in frontier, DispatchUnknownAgent(t) PROVE Goal
  <2>1. t \in DOMAIN project.tasks
    BY <1>1
  <2> QED BY <1>1, <1>15, <1>19, <2>1, HandleFailureInv DEF DispatchUnknownAgent
<1>20. ASSUME NEW f \in FailureModes, AgentFails(f) PROVE Goal
  <2> DEFINE q == FailTask(project, current, f.category, f.evidence)
  <2>1. f.category \in Categories /\ f.evidence \in SUBSET Evidence
    BY PolicyAssumption DEF AllFailures, Categories
  <2>2. /\ IsProject(q) /\ DOMAIN q.tasks = DOMAIN project.tasks
        /\ SameStage(project, q) /\ Done(q) \subseteq S
    BY <1>1, <2>1, FailTaskType, TaskMethodsKeepStage, MethodsComplete
  <2>3. current \in DOMAIN project.tasks /\ pc = "agent"
    BY <1>20 DEF AgentFails, WorkInv, TypeInv, TypeOK
  <2>4. (SaveAs(q) /\ Stop) \/ HandleFailure(q, current, f.category, frontier)
    BY <1>20 DEF AgentFails
  <2> HIDE DEF q
  <2> QED BY <1>15, <2>2, <2>3, <2>4, GoOn, HandleFailureInv
<1>21. ASSUME AgentSucceeds
       PROVE  ExecutionInv' /\ DoneWithin(Done(project) \cup Completes(current))
  <2> DEFINE q == CompleteTask(project, current)
  <2>1. /\ SameStage(project, q)
        /\ Done(q) \subseteq Done(project) \cup Completes(current)
    BY <1>1, TaskMethodsKeepStage, MethodsComplete
  <2>2. SaveAs(q) /\ pc = "agent" /\ pc' = "frontier"
    BY <1>21 DEF AgentSucceeds, ContinueWith, Goto
  <2> HIDE DEF q
  <2> QED BY <1>15, <2>1, <2>2, GoOn
<1>22. EmptyStep => Goal
  BY <1>6, <1>8, <1>9, <1>10, <1>11, <1>12, <1>13, <1>14, <1>16, <1>17, <1>18, <1>19, <1>20
  DEF EmptyStep, Runtime
<1> QED BY <1>21, <1>22 DEF ExecutionStep, EmptyStep, Agent

-----------------------------------------------------------------------------
(* What the judgement of a service means.                                  *)

\* No lane fails, for the service that would be judged now.
Passes == FailedLanes(Checks(Strict, Judged, TestsAssert), FALSE) = {}

\* The last check was passed only if every rung before it holds.
LEMMA LastCheckIsPassed ==
  ASSUME NEW strict, NEW s, NEW asserted,
         "audit_signal_present" \in Checks(strict, s, asserted)
  PROVE  \A m \in 1..12 : Rungs(strict, s, asserted)[m].holds
<1> DEFINE rungs == Rungs(strict, s, asserted)
<1>1. DOMAIN rungs = 1..12
  BY DEF Rungs
<1>2. \A k \in 1..11 : rungs[k].check # "audit_signal_present"
  BY DEF Rungs, Rung
<1>3. PICK k \in DOMAIN rungs :
        rungs[k].check = "audit_signal_present" /\ \A m \in 1..k : rungs[m].holds
  BY DEF Checks
<1> HIDE DEF rungs
<1>4. k = 12
  BY <1>1, <1>2, <1>3
<1> QED BY <1>3, <1>4 DEF rungs

\* A service that fails no lane keeps the contract that its engineer was given.
LEMMA PassingServices ==
  ASSUME Passes
  PROVE  KeepsItsContract(Judged)
<1> DEFINE checks == Checks(Strict, Judged, TestsAssert)
           rungs  == Rungs(Strict, Judged, TestsAssert)
<1>1. RealWorkflowChecks \subseteq checks
  BY DEF Passes, FailedLanes
<1>2. \A m \in 1..12 : rungs[m].holds
  BY <1>1, LastCheckIsPassed DEF RealWorkflowChecks
<1>3. /\ rungs[1].holds = Judged.compiles
      /\ rungs[2].holds = StdlibOnly(Judged)
      /\ rungs[3].holds = Instantiable(Judged)
      /\ rungs[5].holds = (/\ {"low", "high"} \subseteq Judged.accepts
                           /\ Strict => "malformed" \in Judged.accepts
                           /\ Supports(Judged.methods))
      /\ rungs[6].holds = (Judged.validate["low"] = "true")
      /\ rungs[8].holds = Handled(Strict, Judged)
      /\ rungs[9].holds = TestsAssert
      /\ rungs[10].holds = (/\ \A risk \in {"low", "high"} : Judged.handle[risk] = "returns"
                            /\ Judged.differs # {})
      /\ rungs[12].holds = (Judged.audits # {})
  BY DEF Rungs, Rung
<1> HIDE DEF rungs
<1>4. /\ rungs[1].holds /\ rungs[2].holds /\ rungs[3].holds /\ rungs[5].holds /\ rungs[6].holds
      /\ rungs[8].holds /\ rungs[9].holds /\ rungs[10].holds /\ rungs[12].holds
  BY <1>2
<1>5. /\ Judged.compiles /\ StdlibOnly(Judged) /\ Instantiable(Judged)
      /\ {"low", "high"} \subseteq Judged.accepts
      /\ Judged.validate["low"] = "true" /\ Handled(Strict, Judged) /\ TestsAssert
      /\ \A risk \in {"low", "high"} : Judged.handle[risk] = "returns"
      /\ Judged.differs # {} /\ Judged.audits # {}
  BY <1>3, <1>4, Zenon
<1>6. /\ "malformed" \in Judged.accepts => Judged.handle["malformed"] = "rejects"
      /\ "partial" \in Judged.accepts => Judged.handle["partial"] \notin {"confused", "crashes"}
  BY <1>5 DEF Handled, RejectsExplicitly, Survives
<1>7. \E i \in DOMAIN suites : \E function \in suites[i] : Assertions \subseteq function
  BY <1>5 DEF TestsAssert, AssertsContract
<1> QED BY <1>5, <1>6, <1>7 DEF KeepsItsContract, Instantiable

\* Where a workflow was accepted, no task shows an incident.
LEMMA AcceptedIsSafe ==
  ASSUME NEW p, Accepted(p)
  PROVE  Incident(p) = FALSE
BY DEF Accepted, Incident

-----------------------------------------------------------------------------
(* Rows.                                                                   *)

\* The code task of the definition, and what p says of it is true of artifacts/.
Code == OriginalId(CodeTask)
CodeIsDelivered(p) == Code \in Done(p) => Code \in DOMAIN modules

\* What stands behind an accepted row, from the moment it is composed and for as
\* long as it can be read, whatever is opened, interrupted or executed meanwhile.
Backed ==
  /\ Accepts(disk) /\ Accepted(disk)
  /\ project.tasks = disk.tasks /\ project.failure # "sandbox"
  /\ pc \notin {"frontier", "agent"}
  /\ Code \in DOMAIN modules /\ Passes

\* The row r says what the project p says.
RowMatches(r, p) ==
  /\ r.accepted = AcceptanceMet(p) /\ r.failure = p.failure
  /\ r.summary = Summary(p)
  /\ (r.status = "execution_error" <=> p.phase = "failed")

\* What is known of the campaign's driver, and of the row that is there to read.
RowInv ==
  /\ driver \in [at : {"idle", "execute", "running", "write"}, before : Nat, row : Rows \cup {NoRow}]
  /\ row \in Rows \cup {NoRow}
  /\ ~At("running") => pc = "idle"
  /\ row # NoRow => (row.accepted => Backed)
  /\ At("write") => (driver.row.accepted => Backed) /\ RowMatches(driver.row, disk)
  /\ At("idle") /\ crashes = 0 /\ row # NoRow /\ row.status # "skipped" =>
       RowMatches(row, disk) \/ EndsTheProcess(Judged)

\* What is inductive.
CampaignInv ==
  /\ WorkInv /\ ExecutionInv
  /\ CodeIsDelivered(project) /\ CodeIsDelivered(disk)
  /\ RowInv

\* What stands behind a row stands as long as nothing that it names changes.
LEMMA BackedKept ==
  ASSUME Backed, project'.tasks = project.tasks, project'.failure # "sandbox",
         disk' = disk, pc' \notin {"frontier", "agent"}, UNCHANGED <<modules, suites>>
  PROVE  Backed'
BY DEF Backed, Passes, Judged, TestsAssert

\* An execution of a workflow that was accepted has nothing to do: it finds
\* every task at rest and arrives at the same verdict.
LEMMA BackedStep ==
  ASSUME WorkInv, ExecutionInv, Backed, ExecutionStep
  PROVE  /\ ~Agent
         /\ UNCHANGED <<modules, suites>> => Backed'
<1> DEFINE p == ResumeInterrupted(project)
           s == SkipSuperseded(project)
<1>1. IsProject(project) /\ IsProject(disk)
  BY DEF WorkInv, TypeInv, TypeOK
<1>2. ~Stopped(project) /\ ~Cancelled(project)
  BY DEF ExecutionInv, Undisturbed, Stopped, Paused, Cancelled
<1>3. WithStatus(project, {"pending", "running"}) = {} /\ Accepted(project)
  <2>1. disk.outcome = "completed"
    BY DEF Backed, Accepts, AcceptanceMet
  <2>2. WithStatus(disk, {"pending", "running"}) = {} /\ Accepted(disk)
    BY <2>1 DEF ExecutionInv, Honest
  <2>3. project.tasks = disk.tasks /\ project.failure # "sandbox"
    BY DEF Backed
  <2> QED BY <2>2, <2>3, AcceptedKept DEF WithStatus
<1>4. p = project /\ FailedForRepair(p) = {}
  <2>1. p = project
    BY <1>3 DEF ResumeInterrupted, WithStatus
  <2> HIDE DEF p
  <2> QED BY <1>3, <2>1, NothingToRepair
<1>5. s.tasks = project.tasks /\ s.failure = project.failure /\ IsProject(s)
  <2>1. \A j \in DOMAIN project.tasks : project.tasks[j].status # "pending"
    BY <1>3 DEF WithStatus
  <2>2. s.tasks = [j \in DOMAIN project.tasks |-> project.tasks[j]]
    BY <1>1, <2>1, TableOf DEF SkipSuperseded
  <2>3. project.tasks = [j \in DOMAIN project.tasks |-> project.tasks[j]]
    BY <1>1 DEF IsProject, IsTable
  <2>4. s.failure = project.failure
    BY <1>1 DEF SkipSuperseded, IsProject, ProjectRecord
  <2> QED BY <1>1, <2>2, <2>3, <2>4, SkipSupersededType
<1> HIDE DEF p, s
<1>6. Pending(s) = {} /\ Runnable(s) = {} /\ Accepted(s)
  <2>1. Pending(s) = {}
    BY <1>3, <1>5 DEF Pending, WithStatus
  <2>2. Accepted(s)
    BY <1>3, <1>5, AcceptedKept DEF Backed
  <2> QED BY <2>1, <2>2, RunnableMeans
<1>7. pc \notin {"frontier", "agent"} /\ frontier = {}
  BY DEF Backed, WorkInv, TypeInv, FrontierIsLocal
<1>8. ~Agent
  BY <1>7 DEF Agent, AgentSucceeds, AgentFails
<1> SUFFICES ASSUME UNCHANGED <<modules, suites>>
             PROVE  Backed'
  BY <1>8
<1>9. project.failure # "sandbox" /\ project.tasks = disk.tasks
  BY DEF Backed
<1>10. CASE Execute
  <2> DEFINE q == [project EXCEPT !.budget = MaxRepairCycles]
  <2>1. q.tasks = project.tasks /\ q.failure = project.failure
    BY <1>1 DEF IsProject, ProjectRecord
  <2>2. Keep(q) /\ pc' = "resume"
    BY <1>2, <1>10 DEF Execute, Goto
  <2> HIDE DEF q
  <2> QED BY <1>9, <2>1, <2>2, BackedKept DEF Keep
<1>11. CASE ResumeWithoutRepair
  BY <1>4, <1>9, <1>11, BackedKept DEF ResumeWithoutRepair, Keep, Goto, p
<1>12. ~RefuseRepair /\ ~ResumeWithRepair
  BY <1>4 DEF RefuseRepair, ResumeWithRepair, p
<1>13. CASE Activate
  <2> DEFINE q == EnsureRunning(project)
  <2>1. q.tasks = project.tasks /\ q.failure # "sandbox"
    BY <1>1, <1>9 DEF EnsureRunning, MarkRunning, IsProject, ProjectRecord
  <2>2. Keep(q) /\ pc' = "loop"
    BY <1>2, <1>13 DEF Activate, Goto
  <2> HIDE DEF q
  <2> QED BY <2>1, <2>2, BackedKept DEF Keep
<1>14. ~LoopExit /\ ~Blocked /\ ~SelectFrontier /\ ~FrontierDone /\ ~FrontierExit
  BY <1>2, <1>6, <1>7 DEF LoopExit, Blocked, SelectFrontier, FrontierDone, FrontierExit, Stopped, s
<1>15. CASE Finish
  <2> DEFINE q == MarkFinished(s, "completed", "completed", "none")
  <2>1. /\ q.phase = "completed" /\ q.outcome = "completed" /\ q.failure = "none"
        /\ q.tasks = s.tasks
    BY <1>5 DEF MarkFinished, IsProject, ProjectRecord
  <2>2. SaveAs(q) /\ pc' = "idle"
    BY <1>6, <1>15 DEF Finish, Stop, Goto, s
  <2> HIDE DEF q
  <2>3. Accepted(q) /\ Accepts(q)
    BY <1>6, <2>1, AcceptedKept DEF Accepts, AcceptanceMet
  <2> QED BY <2>1, <2>2, <2>3 DEF SaveAs, Backed, Passes, Judged, TestsAssert
<1> QED
  BY <1>7, <1>8, <1>10, <1>11, <1>12, <1>13, <1>14, <1>15 DEF ExecutionStep, Runtime

\* A row that is composed of a project is a row.
LEMMA RowOfType ==
  ASSUME NEW p, IsProject(p), NEW status \in RowStatuses
  PROVE  RowOf(status, p) \in Rows /\ RowOf(status, p) # NoRow
<1>1. /\ p.outcome \in Outcomes /\ p.failure \in Failures /\ DOMAIN p.tasks \subseteq Ids
      /\ \A i \in DOMAIN p.tasks : p.tasks[i].status \in Statuses
  BY Entry DEF IsProject, IsTable, ProjectRecord, TaskRecord
<1>2. [i \in DOMAIN p.tasks |-> p.tasks[i].status] \in UNION {[ids -> Statuses] : ids \in SUBSET Ids}
  BY <1>1
<1>3. Summary(p) \in [outcome : Outcomes, statuses : UNION {[ids -> Statuses] : ids \in SUBSET Ids}]
  BY <1>1, <1>2 DEF Summary
<1>4. AcceptanceMet(p) \in BOOLEAN
  BY DEF AcceptanceMet
<1>5. RowOf(status, p) \in Rows
  BY <1>1, <1>3, <1>4 DEF RowOf, Rows
<1>6. status # "none"
  BY DEF RowStatuses
<1> QED BY <1>5, <1>6 DEF RowOf, NoRow

\* The row of a provider that is not available is a row.
LEMMA SkippedRowType ==
  [status |-> "skipped", accepted |-> FALSE, failure |-> "none", summary |-> NoSummary] \in Rows
<1>1. << >> \in [{} -> Statuses]
  OBVIOUS
<1>2. << >> \in UNION {[ids -> Statuses] : ids \in SUBSET Ids}
  BY <1>1
<1>3. "none" \in Outcomes /\ "none" \in Failures /\ "skipped" \in RowStatuses
  BY DEF Outcomes, Failures, Categories, RowStatuses
<1>4. NoSummary \in [outcome : Outcomes, statuses : UNION {[ids -> Statuses] : ids \in SUBSET Ids}]
  BY <1>2, <1>3 DEF NoSummary
<1> QED BY <1>3, <1>4 DEF Rows

\* Between two executions the project may be replaced by one with its tasks, in
\* memory and in the state file.
LEMMA WorkInvAside ==
  ASSUME WorkInv, pc = "idle", pc' = "idle", UNCHANGED <<frontier, current, calls>>,
         crashes' \in 0..MaxCrashes,
         IsProject(project'), disk' = project',
         project'.tasks = project.tasks, project'.cycles = project.cycles
  PROVE  WorkInv'
<1>1. TypeInv'
  BY DEF WorkInv, TypeInv, TypeOK, FrontierIsLocal
<1>2. BudgetInv'
  BY DEF WorkInv, BudgetInv, WithinBudget
<1>3. AttemptsInv'
  BY DEF AttemptsInv, NoOrphanRunning, IdleIsDurable
<1>4. GraphInv'
  BY DEF WorkInv, GraphInv, IsStructured
<1> QED BY <1>1, <1>2, <1>3, <1>4 DEF WorkInv

\* Where the state is left alone, whatever is known of it stays known.
LEMMA StateKept ==
  ASSUME CampaignInv, UNCHANGED vars, UNCHANGED <<modules, suites>>
  PROVE  /\ WorkInv' /\ ExecutionInv'
         /\ CodeIsDelivered(project)' /\ CodeIsDelivered(disk)'
         /\ Backed => Backed'
         /\ Judged' = Judged
         /\ disk' = disk
<1>1. WorkInv'
  BY WorkInvStep DEF CampaignInv
<1>2. ExecutionInv'
  BY DEF CampaignInv, ExecutionInv, vars
<1>3. CodeIsDelivered(project)' /\ CodeIsDelivered(disk)'
  BY DEF CampaignInv, CodeIsDelivered, vars, Done
<1>4. Backed => Backed'
  BY DEF Backed, Passes, Judged, TestsAssert, vars
<1>5. Judged' = Judged
  BY DEF Judged
<1>6. disk' = disk
  BY DEF vars
<1> QED BY <1>1, <1>2, <1>3, <1>4, <1>5, <1>6

\* An agent that completes the code task, or a repair of it, leaves its service
\* where the code task's is looked for.
LEMMA CodeIsWritten ==
  ASSUME WorkInv, AgentSucceeds, Delivers
  PROVE  /\ DOMAIN modules \subseteq DOMAIN modules'
         /\ Code \in Completes(current) => Code \in DOMAIN modules'
<1>1. \A ids, value : DOMAIN Put(modules, ids, value) = DOMAIN modules \cup ids
  BY DEF Put
<1>2. /\ \/ modules' = modules
         \/ \E value : modules' = Put(modules, Delivered(current), value)
      /\ RoleOf(current) = "code_engineer" =>
           \E value : modules' = Put(modules, Delivered(current), value)
  BY DEF Delivers, Validating
<1>3. /\ DOMAIN modules \subseteq DOMAIN modules'
      /\ RoleOf(current) = "code_engineer" => Delivered(current) \subseteq DOMAIN modules'
  BY <1>1, <1>2
<1>4. ASSUME Code \in Completes(current) PROVE Code \in DOMAIN modules'
  <2>1. /\ Code \in DOMAIN project.tasks /\ Role[CodeTask] = "code_engineer"
        /\ current \in Ids
    <3>1. IsStructured(project) /\ CodeTask \in Original
      BY CampaignAssumption DEF WorkInv, GraphInv
    <3>2. current \in DOMAIN project.tasks /\ IsProject(project)
      BY DEF WorkInv, TypeInv, TypeOK, AgentSucceeds
    <3> QED BY <3>1, <3>2, CampaignAssumption, Entry DEF IsStructured, Code
  <2>2. CASE current = Code
    <3>1. RoleOf(current) = "code_engineer"
      BY <2>1, <2>2 DEF RoleOf, Code, OriginalId
    <3>2. current \in Delivered(current)
      BY DEF Delivered
    <3> QED BY <1>3, <2>2, <3>1, <3>2
  <2>3. CASE Repairs(current, Code)
    <3> DEFINE path == current[2]
    <3>1. /\ current = <<current[1], path>> /\ path \in Seq(Nat)
          /\ path # << >> /\ path[Len(path)] # 0
          /\ <<CodeTask, << >>>> = <<current[1], SubSeq(path, 1, Len(path) - 1)>>
      BY <2>1, <2>3 DEF Ids, Repairs, IsRepair, IsLineage, Origin, Code, OriginalId
    <3> HIDE DEF path
    <3>2. SubSeq(path, 1, Len(path) - 1) = << >> /\ current[1] = CodeTask
      BY <3>1
    <3>3. Len(path) = 1
      <4> DEFINE rest == SubSeq(path, 1, Len(path) - 1)
                 n    == Len(path)
      <4>1. n \in Nat /\ n > 0
        BY <3>1
      <4>2. Len(rest) = IF 1 <= n - 1 THEN n - 1 - 1 + 1 ELSE 0
        BY <3>1, <4>1, SubSeqProperties
      <4>3. rest = << >>
        BY <3>2
      <4> HIDE DEF rest, n
      <4>4. Len(rest) = 0
        BY <4>3
      <4>5. n = 1
        BY <4>1, <4>2, <4>4
      <4> QED BY <4>5 DEF n
    <3>4. RoleOf(current) = "code_engineer"
      BY <2>1, <3>1, <3>2, <3>3 DEF RoleOf, path
    <3>5. Code \in Delivered(current)
      BY <2>1, <2>3 DEF Delivered, HasOrigin, Repairs
    <3> QED BY <1>3, <3>4, <3>5
  <2> QED BY <1>4, <2>2, <2>3 DEF Completes
<1> QED BY <1>3, <1>4

-----------------------------------------------------------------------------
(* Steps of a campaign.                                                    *)

\* A campaign begins, and reuses a row, skips the provider, or opens the project.
LEMMA BeginStep ==
  ASSUME CampaignInv, Reuse \/ Unavailable \/ Open
  PROVE  CampaignInv'
<1>1. Begin /\ At("idle") /\ pc = "idle"
  BY DEF Reuse, Unavailable, Open, Begin, CampaignInv, RowInv, At
<1>2. UNCHANGED vars /\ UNCHANGED <<modules, suites>>
  BY <1>1 DEF Begin, vars, CampaignInv, ExecutionInv
<1>3. /\ WorkInv' /\ ExecutionInv'
      /\ CodeIsDelivered(project)' /\ CodeIsDelivered(disk)'
      /\ Backed => Backed'
      /\ Judged' = Judged
      /\ disk' = disk
  BY <1>2, StateKept
<1>4. pc' = "idle" /\ crashes' = crashes
  BY <1>1, <1>2 DEF vars
<1>5. CASE Reuse
  <2>1. UNCHANGED <<driver, row>>
    BY <1>5 DEF Reuse
  <2>2. RowInv'
    BY <1>1, <1>3, <1>4, <2>1 DEF CampaignInv, RowInv, At
  <2> QED BY <1>3, <2>2 DEF CampaignInv
<1>6. CASE Unavailable
  <2>1. /\ row' = [status |-> "skipped", accepted |-> FALSE, failure |-> "none",
                   summary |-> NoSummary]
        /\ driver' = driver
    BY <1>6 DEF Unavailable
  <2>2. row' \in Rows /\ row'.accepted = FALSE /\ row'.status = "skipped"
    BY <2>1, SkippedRowType
  <2>3. RowInv'
    BY <1>1, <1>4, <2>1, <2>2 DEF CampaignInv, RowInv, At
  <2> QED BY <1>3, <2>3 DEF CampaignInv
<1>7. CASE Open
  <2>1. driver' = [driver EXCEPT !.at = "execute"] /\ row' = row
    BY <1>7 DEF Open
  <2>2. RowInv'
    BY <1>1, <1>3, <1>4, <2>1 DEF CampaignInv, RowInv, At
  <2> QED BY <1>3, <2>2 DEF CampaignInv
<1> QED BY <1>5, <1>6, <1>7

\* The workflow is executed, and its agents deliver.
LEMMA WorkStep ==
  ASSUME CampaignInv, Enter \/ Work
  PROVE  CampaignInv'
<1>1. ExecutionStep /\ row' = row
  BY DEF Enter, Work, ExecutionStep, Agent
<1>2. [Next]_vars
  BY <1>1 DEF ExecutionStep, Next
<1>3. WorkInv'
  BY <1>2, WorkInvStep DEF CampaignInv
<1>4. /\ ExecutionInv'
      /\ EmptyStep => DoneWithin(Done(project))
      /\ AgentSucceeds => DoneWithin(Done(project) \cup Completes(current))
  BY <1>1, ExecutionInvStep DEF CampaignInv
<1>5. \/ EmptyStep /\ UNCHANGED <<modules, suites>>
      \/ AgentSucceeds /\ Delivers
  BY DEF Enter, Work, EmptyStep
<1>6. CodeIsDelivered(project)' /\ CodeIsDelivered(disk)'
  <2>1. \/ DoneWithin(Done(project)) /\ DOMAIN modules' = DOMAIN modules
        \/ /\ DoneWithin(Done(project) \cup Completes(current))
           /\ DOMAIN modules \subseteq DOMAIN modules'
           /\ Code \in Completes(current) => Code \in DOMAIN modules'
    BY <1>4, <1>5, CodeIsWritten DEF CampaignInv
  <2>2. /\ Code \in Done(project) => Code \in DOMAIN modules
        /\ Code \in Done(disk) => Code \in DOMAIN modules
    BY DEF CampaignInv, CodeIsDelivered
  <2> QED BY <2>1, <2>2 DEF CodeIsDelivered, DoneWithin, Done
<1>7. Backed => ~Agent /\ (UNCHANGED <<modules, suites>> => Backed')
  BY <1>1, BackedStep DEF CampaignInv
<1>8. Backed => Backed'
  BY <1>5, <1>7 DEF Agent
<1>9. driver' \in [at : {"running"}, before : Nat, row : Rows \cup {NoRow}]
  <2>1. project.cycles \in Nat
    BY DEF CampaignInv, WorkInv, TypeInv, TypeOK, IsProject, ProjectRecord
  <2> QED BY <2>1 DEF CampaignInv, RowInv, Enter, Work, InExecution, At
<1>10. RowInv'
  BY <1>1, <1>8, <1>9 DEF CampaignInv, RowInv, At
<1> QED BY <1>3, <1>4, <1>6, <1>10 DEF CampaignInv

\* The loop around executions goes on, or ends without anything to judge.
LEMMA ConcludeStep ==
  ASSUME CampaignInv, Again \/ Conclude
  PROVE  CampaignInv'
<1>1. /\ UNCHANGED vars /\ UNCHANGED <<row, modules, suites>>
      /\ Executed /\ pc = "idle" /\ pc' = "idle"
  BY DEF Again, Conclude, Executed, vars
<1>2. /\ WorkInv' /\ ExecutionInv'
      /\ CodeIsDelivered(project)' /\ CodeIsDelivered(disk)'
      /\ Backed => Backed'
      /\ disk' = disk
  BY <1>1, StateKept
<1>3. CASE Again
  <2>1. driver' = [driver EXCEPT !.at = "execute"]
    BY <1>3 DEF Again
  <2>2. RowInv'
    BY <1>1, <1>2, <2>1 DEF CampaignInv, RowInv, At
  <2> QED BY <1>2, <2>2 DEF CampaignInv
<1>4. CASE Conclude
  <2> DEFINE status == IF Raised(project) THEN "execution_error" ELSE "completed"
             r == RowOf(status, project)
  <2>1. driver' = [Idle EXCEPT !.at = "write", !.row = r]
    BY <1>4 DEF Conclude, ToWrite
  <2>2. IsProject(project) /\ status \in RowStatuses
    BY DEF CampaignInv, WorkInv, TypeInv, TypeOK, RowStatuses
  <2>3. r \in Rows
    BY <2>2, RowOfType
  <2>4. project = disk
    BY <1>1 DEF CampaignInv, ExecutionInv
  <2>5. RowMatches(r, disk)
    BY <2>4 DEF RowMatches, RowOf, Raised
  <2>6. r.accepted = FALSE
    <3>1. ~Accepts(project) /\ Honest(project)
      BY <1>4 DEF Conclude, CampaignInv, ExecutionInv
    <3> QED BY <3>1 DEF RowOf, Accepts, AcceptanceMet, Honest
  <2> HIDE DEF r, status
  <2>7. /\ driver' \in [at : {"write"}, before : Nat, row : Rows \cup {NoRow}]
        /\ driver'.row = r
    BY <2>1, <2>3 DEF Idle
  <2>8. RowInv'
    BY <1>1, <1>2, <2>5, <2>6, <2>7 DEF CampaignInv, RowInv, At
  <2> QED BY <1>2, <2>8 DEF CampaignInv
<1> QED BY <1>3, <1>4

\* The service of an accepted workflow is judged.
LEMMA JudgeStep ==
  ASSUME CampaignInv, Judge
  PROVE  CampaignInv'
<1> DEFINE lanes == FailedLanes(Checks(Strict, Judged, TestsAssert), Incident(project))
           worse == MarkFinished(project, "completed", "degraded", "scenario_validation")
           p     == IF lanes = {} THEN project ELSE worse
           r     == RowOf(IF lanes = {} THEN "completed" ELSE "validation_error", p)
<1>1. /\ SaveAs(p) /\ driver' = [Idle EXCEPT !.at = "write", !.row = r]
      /\ UNCHANGED <<pc, frontier, current, calls, crashes, row, modules, suites>>
      /\ pc = "idle" /\ At("running") /\ Accepts(project)
  BY DEF Judge, ToWrite, ToJudge, Executed
<1>2. /\ IsProject(project) /\ project = disk /\ crashes \in 0..MaxCrashes
      /\ Honest(project)
  BY <1>1 DEF CampaignInv, WorkInv, TypeInv, TypeOK, ExecutionInv
<1>3. Accepted(project) /\ Code \in DOMAIN modules
  <2>1. Accepted(project)
    BY <1>1, <1>2 DEF Honest, Accepts, AcceptanceMet
  <2>2. CodeTask \in Original /\ IsStructured(project)
    BY CampaignAssumption DEF CampaignInv, WorkInv, GraphInv
  <2>3. Code \in DOMAIN project.tasks /\ ~OriginDone(project, Code)
    BY <2>2 DEF IsStructured, Code, OriginDone, HasOrigin, IsRepair, IsLineage, OriginalId
  <2>4. Code \in Done(project)
    BY <2>1, <2>3 DEF Accepted, Done, WithStatus
  <2> QED BY <2>1, <2>4 DEF CampaignInv, CodeIsDelivered
<1>4. lanes = {} <=> Passes
  BY <1>3, AcceptedIsSafe DEF Passes
<1>5. /\ worse.phase = "completed" /\ worse.outcome = "degraded"
      /\ worse.tasks = project.tasks /\ worse.cycles = project.cycles
      /\ IsProject(worse)
  <2>1. "completed" \in Phases /\ "degraded" \in Outcomes /\ "scenario_validation" \in Failures
    BY DEF Phases, Outcomes, Failures
  <2>2. IsProject(worse)
    BY <1>2, <2>1, MarkFinishedType
  <2> QED BY <1>2, <2>2 DEF MarkFinished, IsProject, ProjectRecord
<1> HIDE DEF worse, lanes
<1>6. /\ p.phase = "completed" /\ p.tasks = project.tasks /\ p.cycles = project.cycles
      /\ IsProject(p)
      /\ p.outcome \in {"completed", "degraded"}
      /\ p.outcome = "completed" => p = project /\ lanes = {}
  BY <1>1, <1>2, <1>5 DEF Accepts, AcceptanceMet
<1>7. r \in Rows
  <2>1. (IF lanes = {} THEN "completed" ELSE "validation_error") \in RowStatuses
    BY DEF RowStatuses
  <2> QED BY <1>6, <2>1, RowOfType
<1>8. r.accepted = (p.outcome = "completed") /\ RowMatches(r, disk')
  <2>1. disk' = p
    BY <1>1 DEF SaveAs
  <2> QED BY <1>6, <2>1 DEF RowMatches, RowOf, AcceptanceMet
<1> HIDE DEF p, r
<1>9. WorkInv'
  BY <1>1, <1>2, <1>6, WorkInvAside DEF SaveAs, CampaignInv
<1>10. ExecutionInv'
  BY <1>1, <1>2, <1>6 DEF SaveAs, CampaignInv, ExecutionInv, Undisturbed, Honest
<1>11. CodeIsDelivered(project)' /\ CodeIsDelivered(disk)'
  BY <1>1, <1>3 DEF CodeIsDelivered
<1>12. Backed => lanes = {}
  BY <1>4 DEF Backed
<1>13. lanes = {} => Backed'
  <2> SUFFICES ASSUME lanes = {} PROVE Backed'
    OBVIOUS
  <2>1. project' = project /\ disk' = project
    BY <1>1 DEF SaveAs, p
  <2>2. Passes /\ project.failure # "sandbox"
    BY <1>3, <1>4 DEF Accepted
  <2> QED BY <1>1, <1>3, <2>1, <2>2
      DEF Backed, Passes, Judged, TestsAssert, Accepts, AcceptanceMet, Accepted, OriginDone, HasOrigin
<1>14. /\ driver' \in [at : {"write"}, before : Nat, row : Rows \cup {NoRow}]
       /\ driver'.row = r
  BY <1>1, <1>7 DEF Idle
<1>15. RowInv'
  BY <1>1, <1>6, <1>8, <1>12, <1>13, <1>14 DEF CampaignInv, RowInv, At
<1> QED BY <1>9, <1>10, <1>11, <1>15 DEF CampaignInv

\* The campaign ends: its row is written, or an import of the service ends it.
LEMMA EndStep ==
  ASSUME CampaignInv, WriteRow \/ JudgeExits
  PROVE  CampaignInv'
<1>1. pc = "idle" /\ driver' = Idle /\ UNCHANGED <<modules, suites>>
  BY DEF WriteRow, JudgeExits, ToJudge, Executed, CampaignInv, RowInv, At
<1>2. UNCHANGED vars
  BY <1>1 DEF WriteRow, JudgeExits, vars, CampaignInv, ExecutionInv
<1>3. /\ WorkInv' /\ ExecutionInv'
      /\ CodeIsDelivered(project)' /\ CodeIsDelivered(disk)'
      /\ Backed => Backed'
      /\ Judged' = Judged
      /\ disk' = disk
  BY <1>1, <1>2, StateKept
<1>4. /\ driver' \in [at : {"idle"}, before : Nat, row : Rows \cup {NoRow}]
      /\ pc' = "idle"
  BY <1>1, <1>2 DEF Idle, vars
<1>5. CASE WriteRow
  <2>1. row' = driver.row /\ At("write")
    BY <1>5 DEF WriteRow
  <2>2. RowInv'
    BY <1>3, <1>4, <2>1 DEF CampaignInv, RowInv, At
  <2> QED BY <1>3, <2>2 DEF CampaignInv
<1>6. CASE JudgeExits
  <2>1. row' = row /\ EndsTheProcess(Judged)
    BY <1>6 DEF JudgeExits
  <2>2. RowInv'
    BY <1>3, <1>4, <2>1 DEF CampaignInv, RowInv, At
  <2> QED BY <1>3, <2>2 DEF CampaignInv
<1> QED BY <1>5, <1>6

\* The process dies, and the next one finds the state file as it was.
LEMMA DieStep ==
  ASSUME CampaignInv, Die
  PROVE  CampaignInv'
<1>1. /\ project' = disk /\ disk' = disk /\ pc' = "idle" /\ driver' = Idle
      /\ row' \in {row, NoRow} /\ UNCHANGED <<modules, suites>>
      /\ crashes' = crashes + 1 /\ crashes \in Nat /\ crashes < MaxCrashes
  BY PolicyAssumption DEF Die, CampaignInv, WorkInv, TypeInv, TypeOK
<1>2. WorkInv'
  <2>1. CASE pc = "idle"
    <3>1. project' = project /\ IsProject(project) /\ frontier = {} /\ current = NoTask
      BY <1>1, <2>1 DEF CampaignInv, ExecutionInv, WorkInv, TypeInv, TypeOK, FrontierIsLocal
    <3>2. crashes' \in 0..MaxCrashes
      BY <1>1, PolicyAssumption
    <3> QED BY <1>1, <2>1, <3>1, <3>2, WorkInvAside DEF Die, CampaignInv
  <2>2. CASE pc # "idle"
    <3>1. Crash
      BY <2>2 DEF Crash, Die
    <3> QED BY <3>1, WorkInvStep DEF Next, Fault, CampaignInv
  <2> QED BY <2>1, <2>2
<1>3. ExecutionInv'
  BY <1>1 DEF CampaignInv, ExecutionInv
<1>4. CodeIsDelivered(project)' /\ CodeIsDelivered(disk)'
  BY <1>1 DEF CampaignInv, CodeIsDelivered, Done
<1>5. Backed => Backed'
  BY <1>1 DEF Backed, Passes, Judged, TestsAssert, Accepted
<1>6. driver' \in [at : {"idle"}, before : Nat, row : Rows \cup {NoRow}] /\ crashes' # 0
  BY <1>1 DEF Idle
<1>7. RowInv'
  BY <1>1, <1>5, <1>6 DEF CampaignInv, RowInv, At
<1> QED BY <1>2, <1>3, <1>4, <1>7 DEF CampaignInv

\* The invariant holds of every behaviour.
LEMMA CampaignInvHolds == CampaignSpec => []CampaignInv
<1>1. CampaignInit => CampaignInv
  <2> SUFFICES ASSUME CampaignInit PROVE CampaignInv
    OBVIOUS
  <2>1. WorkInv
    BY InitImpliesWorkInv DEF CampaignInit
  <2>2. /\ project = InitialProject /\ disk = InitialProject /\ pc = "idle"
        /\ driver = Idle /\ row = NoRow
    BY DEF CampaignInit, Init
  <2>3. ExecutionInv
    BY <2>2 DEF ExecutionInv, Undisturbed, Honest, InitialProject
  <2>4. Done(InitialProject) = {}
    BY DEF Done, WithStatus, InitialProject, NewTask
  <2>5. RowInv
    BY <2>2 DEF RowInv, Idle, At
  <2> QED BY <2>1, <2>2, <2>3, <2>4, <2>5 DEF CampaignInv, CodeIsDelivered
<1>2. CampaignInv /\ [CampaignNext]_campaignVars => CampaignInv'
  <2> SUFFICES ASSUME CampaignInv, [CampaignNext]_campaignVars PROVE CampaignInv'
    OBVIOUS
  <2>1. CASE Reuse \/ Unavailable \/ Open  BY <2>1, BeginStep
  <2>2. CASE Enter \/ Work                 BY <2>2, WorkStep
  <2>3. CASE Again \/ Conclude             BY <2>3, ConcludeStep
  <2>4. CASE Judge                         BY <2>4, JudgeStep
  <2>5. CASE WriteRow \/ JudgeExits        BY <2>5, EndStep
  <2>6. CASE Die                           BY <2>6, DieStep
  <2>7. CASE UNCHANGED campaignVars
    <3>1. UNCHANGED vars /\ UNCHANGED <<driver, row, modules, suites>>
      BY <2>7 DEF campaignVars
    <3>2. /\ WorkInv' /\ ExecutionInv'
          /\ CodeIsDelivered(project)' /\ CodeIsDelivered(disk)'
          /\ Backed => Backed'
          /\ Judged' = Judged
          /\ disk' = disk
      BY <3>1, StateKept
    <3>3. RowInv'
      BY <3>1, <3>2 DEF CampaignInv, RowInv, At, vars
    <3> QED BY <3>2, <3>3 DEF CampaignInv
  <2> QED BY <2>1, <2>2, <2>3, <2>4, <2>5, <2>6, <2>7 DEF CampaignNext, Drive
<1> QED BY <1>1, <1>2, PTL DEF CampaignSpec

\* No campaign reports a success that it cannot show, whatever was reused,
\* interrupted or repaired before: behind an accepted row there is a state file in
\* which everything that counts is done, and a delivered service that keeps its
\* contract; and without crashes a row says what the state file says.
THEOREM RowsCanBeTrusted == CampaignSpec => []RowsAreTrue
<1>1. CampaignInv => RowsAreTrue
  <2> SUFFICES ASSUME CampaignInv, row # NoRow, At("idle")
               PROVE  /\ row.accepted =>
                           /\ Accepts(disk) /\ Accepted(disk)
                           /\ Code \in DOMAIN modules /\ KeepsItsContract(Judged)
                      /\ crashes = 0 /\ row.status # "skipped" =>
                           RowMatches(row, disk) \/ EndsTheProcess(Judged)
    BY DEF RowsAreTrue, RowMatches, Code
  <2>1. row.accepted => Backed
    BY DEF CampaignInv, RowInv
  <2>2. crashes = 0 /\ row.status # "skipped" =>
          RowMatches(row, disk) \/ EndsTheProcess(Judged)
    BY DEF CampaignInv, RowInv
  <2> QED BY <2>1, <2>2, PassingServices DEF Backed
<1> QED BY <1>1, CampaignInvHolds, PTL

\* The executions of a campaign are executions of the workflow: nothing that the
\* campaign does around them, or that a death between its steps leaves behind,
\* breaks what the workflow keeps by itself.
THEOREM CampaignsKeepTheWorkflow ==
  CampaignSpec => [](TypeOK /\ NoOrphanRunning /\ IdleIsDurable /\ RepairsWithinBudget)
<1>1. CampaignInv => TypeOK /\ NoOrphanRunning /\ IdleIsDurable /\ RepairsWithinBudget
  BY DEF CampaignInv, WorkInv, TypeInv, AttemptsInv, BudgetInv, WithinBudget, PathsWithin,
     RepairsWithinBudget
<1> QED BY <1>1, CampaignInvHolds, PTL
=============================================================================
