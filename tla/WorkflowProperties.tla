------------------------- MODULE WorkflowProperties -------------------------
(***************************************************************************)
(* What the workflow runtime must guarantee, stated over WorkflowControl.  *)
(***************************************************************************)
EXTENDS WorkflowControl

StatusOf(p, i) == p.tasks[i].status

-----------------------------------------------------------------------------
(* Interruption and durability.                                            *)

\* Once an execution has resumed, the only task marked running is the one its
\* agent is working on: whatever an interrupt, a crash or an operator left
\* running has been requeued (resume_interrupted_tasks), or it would block the
\* workflow for ever.
NoOrphanRunning ==
  pc \in {"activate", "loop", "frontier", "agent"} =>
    WithStatus(project, {"running"}) \subseteq {current}

\* Whatever way an execution or an operator's call ends, the state file holds
\* the project as it is in memory; only an interrupted agent call, whose task
\* is still marked running, leaves something unsaved behind.
IdleIsDurable ==
  pc = "idle" /\ project # disk => WithStatus(project, {"running"}) # {}

\* Retries are bounded across executions, restarts and operator calls: a task
\* gets its first attempt, its retries, and one more for every interruption.
\* (Until the first repair cycle: repairs count their attempts at what they repair.)
AttemptsBounded ==
  project.cycles = 0 =>
    \A i \in DOMAIN project.tasks :
      project.tasks[i].attempts <= RetryLimit[i[1]] + 1 + crashes

-----------------------------------------------------------------------------
(* The operator's view.                                                    *)

StageOf(p) ==
  IF Cancelled(p) THEN "cancelled"
  ELSE IF Paused(p) THEN "paused"
  ELSE IF p.phase \in {"failed", "completed"} THEN "closed"
  ELSE "open"

Lifecycle == INSTANCE WorkflowLifecycle WITH
  stage   <- StageOf(project),
  saved   <- StageOf(disk),
  running <- pc # "idle",
  active  <- pc = "agent"

\* The runtime implements the life cycle that operators rely on: no agent is
\* started in a paused or cancelled workflow, a cancellation is undone by a
\* replay between executions and by nothing else, and stages move no other way.
ImplementsLifecycle == Lifecycle!LifecycleSpec

\* A pause or a cancellation that was acknowledged survives every crash.
OperatorWordIsDurable == Lifecycle!OperatorWordIsDurable

-----------------------------------------------------------------------------
(* Scheduling and failure policies.                                        *)

\* A task is started only if it is still pending and its dependencies are still
\* done, although the frontier it was listed in is older than the attempts made
\* since.  (Until an operator intervenes or a repair cycle begins, either of which
\* can reopen a dependency behind the frontier's back.)
StartsReady ==
  [][pc = "frontier" /\ pc' = "agent" /\ calls = 0 /\ project.cycles = 0 =>
       Ready(project, current')]_vars

\* Under the continue policy a failure skips what depends on it, so pending work
\* is never stuck behind it, whatever crashes in between.  docs/workflows.md:142
\* promises it of every workflow; it holds until an operator skips a task that
\* others wait for or a repair cycle begins, for a failed repair leaves work stuck
\* behind the task it was for.
NeverBlocked == project.failure = "blocked" => calls > 0 \/ project.cycles > 0

\* A workflow is declared blocked only when some pending task waits for one
\* that is over without being done: never because of a task left running, of a
\* repair that was forgotten, or of a dependency that does not exist.
BlockedHasCulprit ==
  [][Blocked => \E t \in Pending(project') : \E d \in project'.tasks[t].deps :
                  StatusOf(project', d) \in {"failed", "skipped"}]_vars

-----------------------------------------------------------------------------
(* Repair cycles.                                                          *)

\* The tasks that repair planning adds never make the workflow undefined: their
\* dependencies exist and close no cycle, so it can always be executed again.
GraphStaysValid == PlanIsValid(project)

\* No more repair cycles than configured are ever started, and every repair
\* that exists belongs to a cycle that was counted.
RepairsWithinBudget ==
  /\ project.cycles <= MaxRepairCycles
  /\ \A i \in DOMAIN project.tasks :
       \A k \in 1..Len(i[2]) : i[2][k] <= project.cycles

\* A repair cycle is not spent for nothing: once it is counted, some task of the
\* workflow is ready to run.  (Until an operator intervenes, who may skip what a
\* repair inherits from the task it is for.)
CycleMakesProgress ==
  [][project'.cycles > project.cycles /\ calls = 0 => Runnable(project') # {}]_vars

\* A cycle releases what the failures it answers had skipped, however far behind
\* them: whatever it leaves skipped for the failure of a dependency waits for none
\* of the tasks that it answers or requeues.
CycleReleasesSkipped ==
  [][project'.cycles > project.cycles =>
       LET answered == FailedForRepair(ResumeInterrupted(project))
           requeued == WithStatus(project, {"done", "failed", "skipped"}) \cap Pending(project')
       IN  \A i \in Waiting(project') :
             project'.tasks[i].deps \cap (answered \cup requeued) = {}]_vars

\* After a resume no task of the definition is still skipped for the failure of a
\* dependency although all its dependencies are done: resuming is to "re-queue
\* failed tasks and dependency-skipped descendants" (docs/workflows.md:151).
\* The code does not keep this with three cycles: see finding_stranded.
NothingIsStranded ==
  pc = "activate" =>
    \A i \in Waiting(project) : ~IsLineage(i) =>
      \E d \in project.tasks[i].deps : StatusOf(project, d) # "done"

-----------------------------------------------------------------------------
(* Progress.                                                               *)

\* Every execution ends, if agents do: retries, chained repairs and requeued
\* work cannot keep the loop going for ever.
ExecutionEnds == pc # "idle" ~> pc = "idle"
=============================================================================
