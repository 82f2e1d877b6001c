--------------------------- MODULE WorkflowControl --------------------------
(***************************************************************************)
(* Orchestrator.execute_workflow and the control loop it delegates to in   *)
(* orchestration/workflow_control.py, with the operator calls that may     *)
(* arrive while an agent runs or between executions, and with crashes.     *)
(*                                                                         *)
(* The runtime is single-threaded: the only points where other code runs   *)
(* are the agent calls (an agent may call back into the control surface)   *)
(* and the time between two executions.  Each action below is one segment  *)
(* of the runtime between two such points or between two saves.            *)
(***************************************************************************)
EXTENDS RepairPlanning

CONSTANTS
  FailurePolicy,     \* workflow_failure_policy: "fail_fast" or "continue"
  ResumePolicy,      \* workflow_resume_policy: "interrupted_only", "resume_failed"
  AcceptancePolicy,  \* "all_tasks" or "required_tasks"
  MaxRepairCycles,   \* workflow_max_repair_cycles
  Registered,        \* the roles the agent registry can resolve
  FailureModes,      \* the failures agents may show, a subset of AllFailures
  MaxCalls,          \* bound: operator calls in a behaviour
  MaxCrashes         \* bound: crashes and interrupts in a behaviour

Validating == {"code_engineer", "qa_tester"}

\* A failure: its category (classify_task_failure) and what the validation
\* payload of the rejected output says.
AllFailures == [category : {"execution", "validation", "sandbox"},
                evidence : SUBSET Evidence]

ASSUME PolicyAssumption ==
  /\ FailurePolicy \in {"fail_fast", "continue"}
  /\ ResumePolicy \in {"interrupted_only", "resume_failed"}
  /\ AcceptancePolicy \in {"all_tasks", "required_tasks"}
  /\ MaxRepairCycles \in Nat /\ MaxCalls \in Nat /\ MaxCrashes \in Nat
  /\ Registered \subseteq Roles
  /\ FailureModes \subseteq AllFailures

VARIABLES
  project,   \* the in-memory ProjectState
  disk,      \* the state file: project as it was last saved
  pc,        \* where execute_workflow is; "idle" when it is not running
  frontier,  \* the runnable list being worked off (a snapshot, as in the code)
  current,   \* the task whose agent is running, or NoTask
  calls,     \* operator calls so far
  crashes    \* crashes and interrupts so far

vars == <<project, disk, pc, frontier, current, calls, crashes>>

Points == {"idle", "resume", "activate", "loop", "frontier", "agent"}

TypeOK ==
  /\ IsProject(project)
  /\ IsProject(disk)
  /\ pc \in Points
  /\ frontier \subseteq DOMAIN project.tasks
  /\ current \in DOMAIN project.tasks \cup {NoTask}
  /\ pc = "agent" <=> current # NoTask
  /\ calls \in 0..MaxCalls
  /\ crashes \in 0..MaxCrashes

Init ==
  /\ project = InitialProject
  /\ disk = InitialProject
  /\ pc = "idle"
  /\ frontier = {}
  /\ current = NoTask
  /\ calls = 0
  /\ crashes = 0

-----------------------------------------------------------------------------
(* Steps end by saving the project, or by leaving the state file alone.    *)

SaveAs(p) == project' = p /\ disk' = p
Keep(p)   == project' = p /\ UNCHANGED disk

Goto(point) == pc' = point /\ UNCHANGED <<calls, crashes>>
Stop        == Goto("idle") /\ frontier' = {} /\ current' = NoTask

\* mutant: the verdict is not saved
StopFailed_Unsaved(p, failure) ==
  Keep(MarkFinished(p, "failed", "failed", failure)) /\ Stop

\* Leave execute_workflow with the workflow failed for the given reason.
StopFailed(p, failure) == SaveAs(MarkFinished(p, "failed", "failed", failure)) /\ Stop

\* mutant: the pause is not looked at
Stopped_ForgetsPause(p) == Cancelled(p)

Stopped(p)    == Paused(p) \/ Cancelled(p)
Resolvable(i) == RoleOf(i) \in Registered

\* mutant: whatever is over is accepted
Accepted_Ended(p) == WithStatus(p, {"pending", "running"}) = {}

\* evaluate_workflow_acceptance: a repair counts only while its origin is open
\* and a sandbox violation on any task refuses acceptance.
Accepted(p) ==
  LET counted == {i \in DOMAIN p.tasks : ~OriginDone(p, i)} IN
  /\ counted # {}
  /\ \A i \in counted : p.tasks[i].status = "done"
  /\ AcceptancePolicy = "required_tasks" =>
       \E o \in Required : OriginalId(o) \in counted
  /\ p.failure # "sandbox"
  /\ \A i \in DOMAIN p.tasks : p.tasks[i].category # "sandbox"

-----------------------------------------------------------------------------
(* Entering an execution.                                                  *)

\* prepare_workflow_execution, first half.  An invalid plan or an unknown
\* agent raises before anything has changed.
Execute ==
  /\ pc = "idle"
  /\ UNCHANGED <<frontier, current>>
  /\ \/ /\ Cancelled(project)
        /\ SaveAs(project)
        /\ Goto("idle")
     \/ /\ ~Cancelled(project)
        /\ PlanIsValid(project)
        /\ \A i \in DOMAIN project.tasks : Resolvable(i)
        /\ Keep([project EXCEPT !.budget = MaxRepairCycles])
        /\ Goto("resume")

\* resume_workflow_tasks when there is no failed task to repair
ResumeWithoutRepair ==
  LET p == ResumeInterrupted(project) IN
  /\ pc = "resume"
  /\ ResumePolicy = "interrupted_only" \/ FailedForRepair(p) = {}
  /\ IF p = project THEN Keep(p) ELSE SaveAs(p)
  /\ Goto("activate")
  /\ UNCHANGED <<frontier, current>>

\* resume_workflow_tasks refusing: a failed task is not repairable, or the
\* repair budget is spent.  The workflow ends failed and an error is raised.
RefuseRepair ==
  LET p == ResumeInterrupted(project)
      F == FailedForRepair(p)
      hopeless == {i \in F : ~IsRepairable(p.tasks[i].category)}
  IN  /\ pc = "resume"
      /\ ResumePolicy = "resume_failed"
      /\ F # {}
      /\ \/ hopeless # {} /\ StopFailed(p, "sandbox")
         \/ /\ hopeless = {}
            /\ ~CanStartCycle(p)
            /\ StopFailed(p, "repair_budget_exhausted")

\* resume_workflow_tasks starting a repair cycle
ResumeWithRepair ==
  LET p == ResumeInterrupted(project)
      F == FailedForRepair(p)
      q == StartCycle(p)
  IN  /\ pc = "resume"
      /\ ResumePolicy = "resume_failed"
      /\ F # {}
      /\ \A i \in F : IsRepairable(p.tasks[i].category)
      /\ CanStartCycle(p)
      /\ SaveAs(RepairCycle(q, F, q.cycles))
      /\ Goto("activate")
      /\ UNCHANGED <<frontier, current>>

\* ensure_workflow_running
EnsureRunning(p) ==
  IF p.started /\ p.phase = "execution" THEN p ELSE MarkRunning(p, MaxRepairCycles)

\* run_active_workflow up to its loop
Activate ==
  /\ pc = "activate"
  /\ \/ /\ Stopped(project)
        /\ SaveAs(project)
        /\ Stop
     \/ /\ ~Stopped(project)
        /\ Keep(EnsureRunning(project))
        /\ Goto("loop")
        /\ UNCHANGED <<frontier, current>>

-----------------------------------------------------------------------------
(* The loop: execute_workflow_loop and execute_runnable_frontier.          *)

\* exit_if_workflow_cancelled at the top of the loop, and the later exits
\* that follow the supersession scan.
LoopExit ==
  LET p == SkipSuperseded(project) IN
  /\ pc = "loop"
  /\ \/ Cancelled(project) /\ SaveAs(project)
     \/ Paused(project) /\ ~Cancelled(project) /\ Pending(p) # {} /\ SaveAs(p)
  /\ Stop

\* finish_workflow_if_no_pending_tasks
Finish ==
  LET p == SkipSuperseded(project) IN
  /\ pc = "loop"
  /\ ~Cancelled(project)
  /\ Pending(p) = {}
  /\ SaveAs(MarkFinished(p, "completed",
                         IF Accepted(p) THEN "completed" ELSE "degraded", "none"))
  /\ Stop

\* fail_workflow_when_blocked and fail_workflow_for_definition_error
Blocked ==
  LET p == SkipSuperseded(project) IN
  /\ pc = "loop"
  /\ ~Stopped(project)
  /\ Pending(p) # {}
  /\ PlanIsValid(p) => Runnable(p) = {}
  /\ StopFailed(p, IF PlanIsValid(p) THEN "blocked" ELSE "definition")

\* mutant: an empty frontier is worked off like any other
SelectFrontier_Empty ==
  /\ pc = "loop"
  /\ ~Stopped(project)
  /\ frontier' = Runnable(SkipSuperseded(project))
  /\ Keep(SkipSuperseded(project))
  /\ Goto("frontier")
  /\ UNCHANGED current

\* runnable_tasks has listed the frontier
SelectFrontier ==
  LET p == SkipSuperseded(project) IN
  /\ pc = "loop"
  /\ ~Stopped(project)
  /\ PlanIsValid(p)
  /\ Runnable(p) # {}
  /\ frontier' = Runnable(p)
  /\ Keep(p)
  /\ Goto("frontier")
  /\ UNCHANGED current

FrontierDone ==
  /\ pc = "frontier"
  /\ frontier = {}
  /\ Goto("loop")
  /\ UNCHANGED <<project, disk, frontier, current>>

\* The checks at the head of execute_workflow_task
FrontierExit ==
  /\ pc = "frontier"
  /\ frontier # {}
  /\ Stopped(project)
  /\ SaveAs(project)
  /\ Stop

\* execute_workflow_task up to the agent call: run_task starts the task in
\* memory and does not save.
Dispatch(t) ==
  /\ pc = "frontier"
  /\ t \in frontier
  /\ ~Stopped(project)
  /\ Resolvable(t)
  /\ Keep(StartTask(project, t))
  /\ frontier' = frontier \ {t}
  /\ current' = t
  /\ Goto("agent")

-----------------------------------------------------------------------------
(* The end of an attempt.                                                  *)

\* mutant: the finished task remains the current one
ContinueWith_KeepsCurrent(p, left) ==
  SaveAs(p) /\ frontier' = left /\ UNCHANGED current /\ Goto("frontier")

ContinueWith(p, left) ==
  SaveAs(p) /\ frontier' = left /\ current' = NoTask /\ Goto("frontier")

\* dispatch_task_failure, for a failed attempt at t whose effect on the task is
\* already in p; left is what remains of the frontier.
HandleFailure(p, t, category, left) ==
  LET chain == /\ IsRepairable(category)
               /\ ResumePolicy = "resume_failed"
               /\ CanChainRepair(p, t)
  IN  \/ ShouldRetry(p, t) /\ ContinueWith(p, left)
      \/ /\ ~ShouldRetry(p, t)
         /\ chain
         /\ ContinueWith(RepairCycle(p, {t}, p.cycles), left)
      \/ /\ ~ShouldRetry(p, t)
         /\ ~chain
         /\ FailurePolicy = "continue"
         /\ ContinueWith(SkipDependents(p, t), left)
      \/ /\ ~ShouldRetry(p, t)
         /\ ~chain
         /\ FailurePolicy = "fail_fast"
         /\ StopFailed(p, category)

\* run_task returning: complete_task, progress, save
AgentSucceeds ==
  /\ pc = "agent"
  /\ ContinueWith(CompleteTask(project, current), frontier)

\* The failures that an agent of the task's role can show
FailuresOf(t) ==
  {f \in FailureModes :
     /\ f.evidence # {} => f.category = "validation"
     /\ f.category = "validation" => RoleOf(t) \in Validating
     /\ "code_at_fault" \in f.evidence => RoleOf(t) = "qa_tester"}

\* run_task raising: fail_task, then either the workflow has been cancelled
\* meanwhile or dispatch_task_failure decides.
AgentFails(f) ==
  LET p == FailTask(project, current, f.category, f.evidence) IN
  /\ pc = "agent"
  /\ f \in FailuresOf(current)
  /\ \/ Cancelled(p) /\ SaveAs(p) /\ Stop
     \/ ~Cancelled(p) /\ HandleFailure(p, current, f.category, frontier)

\* mutant: the failure to find an agent is swallowed
DispatchUnknownAgent_Swallowed(t) ==
  /\ pc = "frontier"
  /\ t \in frontier
  /\ ~Stopped(project)
  /\ ~Resolvable(t)
  /\ ContinueWith(project, frontier \ {t})

\* run_task looks the agent up before start_task, so an unknown agent fails the
\* attempt and leaves the task as it was.  Only the architect of a budget plan
\* can be unknown here: Execute has looked up every other role.
DispatchUnknownAgent(t) ==
  /\ pc = "frontier"
  /\ t \in frontier
  /\ ~Stopped(project)
  /\ ~Resolvable(t)
  /\ HandleFailure(project, t, "execution", frontier \ {t})

\* The agent call is left by a BaseException (Ctrl-C), which nothing catches:
\* the execution is over, the task still marked running, nothing saved.
Interrupt ==
  /\ pc = "agent"
  /\ crashes < MaxCrashes
  /\ crashes' = crashes + 1
  /\ pc' = "idle" /\ frontier' = {} /\ current' = NoTask
  /\ UNCHANGED <<project, disk, calls>>

\* The process dies and another one loads the state file.
Crash ==
  /\ pc # "idle" \/ project # disk
  /\ crashes < MaxCrashes
  /\ crashes' = crashes + 1
  /\ project' = disk
  /\ pc' = "idle" /\ frontier' = {} /\ current' = NoTask
  /\ UNCHANGED <<disk, calls>>

-----------------------------------------------------------------------------
(* The operator's control surface.  Every call saves what it changed.      *)

\* mutant: the call is not saved
Operate_Unsaved(points, p) ==
  /\ pc \in points
  /\ calls < MaxCalls
  /\ calls' = calls + 1
  /\ Keep(p)
  /\ UNCHANGED <<pc, frontier, current, crashes>>

Operate(points, p) ==
  /\ pc \in points
  /\ calls < MaxCalls
  /\ calls' = calls + 1
  /\ SaveAs(p)
  /\ UNCHANGED <<pc, frontier, current, crashes>>

Callable == {"idle", "agent"}

Pause  == CanPause(project) /\ Operate(Callable, PauseProject(project))
Resume == Paused(project) /\ Operate(Callable, ResumeProject(project))
Cancel == CanCancel(project) /\ Operate(Callable, CancelProject(project))
Replay == CanReplay(project) /\ Operate({"idle"}, ReplayProject(project))
Skip(t)     == t \in DOMAIN project.tasks /\ Operate(Callable, SkipTask(project, t, "manual"))
Override(t) == t \in DOMAIN project.tasks /\ Operate(Callable, OverrideTask(project, t))

-----------------------------------------------------------------------------
Runtime ==
  \/ ResumeWithoutRepair \/ RefuseRepair \/ ResumeWithRepair \/ Activate
  \/ LoopExit \/ Finish \/ Blocked \/ SelectFrontier
  \/ FrontierDone \/ FrontierExit
  \/ \E t \in frontier : Dispatch(t) \/ DispatchUnknownAgent(t)

Agent    == AgentSucceeds \/ \E f \in FailureModes : AgentFails(f)
Fault    == Interrupt \/ Crash
Operator ==
  \/ Pause \/ Resume \/ Cancel \/ Replay
  \/ \E t \in DOMAIN project.tasks : Skip(t) \/ Override(t)

Next == Execute \/ Runtime \/ Agent \/ Fault \/ Operator

Spec == Init /\ [][Next]_vars

\* The runtime keeps going and every agent call returns or raises (providers
\* are called with a timeout); nobody has to call execute_workflow.
Fairness == WF_vars(Runtime) /\ WF_vars(Agent)
FairSpec == Spec /\ Fairness
=============================================================================
