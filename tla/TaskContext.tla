----------------------------- MODULE TaskContext ----------------------------
(***************************************************************************)
(* What an agent is told about the work of others: the prompt context that *)
(* orchestration/context_building.py collects for a task when it is        *)
(* started, composed with the workflow whose repairs replace that work.    *)
(*                                                                         *)
(* Of all outputs only the code is followed.  Each completion of a code    *)
(* task makes a new version, and output[i] is the version that task i      *)
(* holds; a repair hands its version to the task it repairs, and to no     *)
(* other.  A context is abstracted to the version it shows as the code     *)
(* under test and to the task that gives the module its name.              *)
(***************************************************************************)
EXTENDS WorkflowProperties

VARIABLES
  output,  \* the version of the code that a task holds, 0 for none
  saved,   \* output as of the last save
  tested,  \* the version that a suite was last run against
  place,   \* where a task is in the list project.tasks
  made     \* versions made so far

contextVars == <<output, saved, tested, place, made>>

IsCode(i)  == RoleOf(i) = "code_engineer"
IsSuite(i) == RoleOf(i) = "qa_tester"

-----------------------------------------------------------------------------
(* What a task sees.                                                       *)

\* The plan that its repair context names, if it was to be preceded by one
PlanOf(p, i) ==
  IF IsRepair(i) /\ p.tasks[i].context.overBudget
    THEN {PlanId(Origin(i), i[2][Len(i[2])])} ELSE {}

\* task_dependency_closure_ids: the origin and the plan count as dependencies
\* of the task itself, but the origin of a dependency does not.
Seed(p, i) ==
  p.tasks[i].deps \cup PlanOf(p, i) \cup (IF IsRepair(i) THEN {Origin(i)} ELSE {})
Closure(p, i) ==
  LET Known == DOMAIN p.tasks
      Wider(S) == S \cup UNION {p.tasks[j].deps : j \in S \cap Known}
      grow[n \in 0..Cardinality(Known)] ==
        IF n = 0 THEN Seed(p, i) ELSE Wider(grow[n - 1])
  IN  {i} \cup grow[Cardinality(Known)]

\* Whether task i comes after task j in project.tasks
After(i, j) == place[i] > place[j]

\* mutant: the first completed code task wins instead of the last
Sources_First(p, i) ==
  LET done == {j \in Closure(p, i) \cap WithStatus(p, {"done"}) :
                 IsCode(j) /\ output[j] > 0}
  IN  {j \in done : \A k \in done \ {j} : After(k, j)}

\* apply_completed_tasks_to_context: every completed code task in sight
\* overwrites what the context says of the code, so the last one stays.
Sources(p, i) ==
  LET done == {j \in Closure(p, i) \cap WithStatus(p, {"done"}) :
                 IsCode(j) /\ output[j] > 0}
  IN  {j \in done : \A k \in done \ {j} : After(j, k)}

ShownCode(p, i) == IF Sources(p, i) = {} THEN 0
                   ELSE output[CHOOSE j \in Sources(p, i) : TRUE]

\* context_module_task_runtime: the task that plans the module's name
ModuleTasks(p, i) ==
  LET coders == {j \in Closure(p, i) \cap DOMAIN p.tasks : IsCode(j)}
      roots  == {j \in coders : ~IsRepair(j)}
  IN  IF IsRepair(i) /\ IsCode(Origin(i)) THEN {Origin(i)}
      ELSE IF roots # {} THEN roots
      ELSE IF IsCode(i) THEN {i}
      ELSE coders

\* mutant: an artifact is named for the task that wrote it
RootOf_Self(i) == i

\* code_artifact_context_runtime names an artifact for the first task of its
\* line of repairs.
RootOf(i) == OriginalId(i[1])

\* The tasks whose name the module has in the context
ModuleNames(p, i) ==
  IF Sources(p, i) # {} THEN {RootOf(j) : j \in Sources(p, i)}
  ELSE ModuleTasks(p, i)

-----------------------------------------------------------------------------
(* How the outputs follow the workflow's steps.                            *)

\* complete_task hands the output of a repair to its direct origin.
Receivers(i) == {i} \cup (IF IsRepair(i) THEN {Origin(i)} ELSE {})

\* Requeued and skipped tasks lose their output; a final failure replaces it,
\* in the task and in the one it repairs.
Lost(i) ==
  LET was == project.tasks[i].status
      is  == project'.tasks[i].status
  IN  \/ is = "skipped" /\ was # "skipped"
      \/ is = "pending" /\ was \in {"done", "failed", "skipped"}
      \/ pc = "agent" /\ i \in Receivers(current) /\ project'.tasks[current].status = "failed"

Left == [i \in DOMAIN project'.tasks |->
           IF i \notin DOMAIN project.tasks \/ Lost(i) THEN 0 ELSE output[i]]

Writes(i) ==
  IF IsCode(i)
    THEN /\ made' = made + 1
         /\ output' = [j \in DOMAIN project'.tasks |->
                         IF j \in Receivers(i) THEN made + 1 ELSE Left[j]]
    ELSE made' = made /\ output' = Left

\* The context is built when the task is started; the suite's output will be
\* validated against the code it shows.
Reads(i) ==
  tested' = [j \in DOMAIN project'.tasks |->
               IF j \in Receivers(i) /\ IsSuite(i) THEN ShownCode(project, i)
               ELSE tested[j]]

\* A cycle appends its repairs in the order of the failed tasks that they answer:
\* the code's, if its failure is that of a suite, at the place of the suite.
Answered(r) ==
  LET source == project'.tasks[r].context.source
  IN  IF source = NoTask THEN OriginalId(r[1]) ELSE source
Appended ==
  LET new == DOMAIN project'.tasks \ DOMAIN project.tasks
  IN  [r \in new |-> Cardinality(DOMAIN project.tasks)
                      + Cardinality({s \in new : place[Answered(s)] <= place[Answered(r)]})]

Keeps ==
  /\ tested' = [j \in DOMAIN project'.tasks |->
                  IF j \in DOMAIN project.tasks THEN tested[j] ELSE 0]
  /\ place' = [j \in DOMAIN project'.tasks |->
                  IF j \in DOMAIN project.tasks THEN place[j] ELSE Appended[j]]
Saves == saved' = IF project' = disk' THEN output' ELSE saved

-----------------------------------------------------------------------------
ContextTypeOK ==
  /\ made \in Nat
  /\ output \in [DOMAIN project.tasks -> 0..made]
  /\ saved \in [DOMAIN disk.tasks -> 0..made]
  /\ tested \in [DOMAIN project.tasks -> 0..made]
  /\ place \in [DOMAIN project.tasks -> 1..Cardinality(DOMAIN project.tasks)]

\* A workflow lists a task after the ones that it depends on.
Listings ==
  LET T == DOMAIN project.tasks
  IN  {at \in [T -> 1..Cardinality(T)] :
         /\ \A i, j \in T : at[i] = at[j] => i = j
         /\ \A i \in T : \A d \in project.tasks[i].deps \cap T : at[d] < at[i]}

ContextInit ==
  /\ Init
  /\ made = 0
  /\ output = [i \in DOMAIN project.tasks |-> 0]
  /\ saved = output
  /\ tested = output
  /\ place \in Listings

Start    == \E t \in frontier : Dispatch(t) /\ Reads(t) /\ UNCHANGED <<output, place, made>>
Complete == AgentSucceeds /\ Writes(current) /\ Keeps
Store(t) == Override(t) /\ Writes(t) /\ Keeps
Reload   == /\ Crash
            /\ output' = saved
            /\ tested' = [i \in DOMAIN project'.tasks |-> tested[i]]
            /\ place' = [i \in DOMAIN project'.tasks |-> place[i]]
            /\ UNCHANGED made
Other ==
  /\ \/ Execute \/ Interrupt \/ Pause \/ Resume \/ Cancel \/ Replay
     \/ ResumeWithoutRepair \/ RefuseRepair \/ ResumeWithRepair \/ Activate
     \/ LoopExit \/ Finish \/ Blocked \/ SelectFrontier
     \/ FrontierDone \/ FrontierExit
     \/ \E t \in frontier : DispatchUnknownAgent(t)
     \/ \E f \in FailureModes : AgentFails(f)
     \/ \E t \in DOMAIN project.tasks : Skip(t)
  /\ output' = Left
  /\ Keeps
  /\ UNCHANGED made

ContextNext ==
  /\ Start \/ Complete \/ Other \/ Reload
     \/ \E t \in DOMAIN project.tasks : Store(t)
  /\ Saves

ContextSpec == ContextInit /\ [][ContextNext]_<<vars, contextVars>>

-----------------------------------------------------------------------------
(* What the contexts must be good for.                                     *)

Starts(i) == pc = "frontier" /\ pc' = "agent" /\ current' = i

\* When a suite runs again, itself or through its repair, its context shows the
\* code as the repairs left it that were made because the suite blamed it,
\* through however many cycles, and never an older version.
ShowsItsRepairs(i) ==
  Starts(i) /\ IsSuite(i) =>
    \A r \in WithStatus(project, {"done"}) :
      IsCode(r) /\ IsRepair(r) /\ project.tasks[r].context.source \in Receivers(i)
        => output[r] <= ShownCode(project, i)

\* When a failed suite blames the code, the repair of the code is given no older
\* version than the one that the suite was run against, although the suite's
\* failure and the code are read from two tasks, perhaps executions later; or,
\* when an attempt to repair it has failed since, no version at all.
GivesNoOlderCode(r) ==
  /\ r \notin DOMAIN project.tasks /\ IsRepair(r) /\ IsCode(r)
  /\ project'.tasks[r].context.source # NoTask
  => output[Origin(r)] = 0 \/ output[Origin(r)] >= tested[project'.tasks[r].context.source]

\* However often and in however many steps the code has been repaired, a suite
\* is told to import the module by the name that the code task was defined with
\* (and not by that of the repair which wrote it, where nothing would be found).
KnowsModule(i) ==
  Starts(i) /\ IsSuite(i) =>
    ModuleNames(project, i) \subseteq {OriginalId(o) : o \in Original}

\* Of one code task with one suite, as all packaged workflows are
OneOfEach ==
  \A role \in {"code_engineer", "qa_tester"} :
    Cardinality({o \in Original : Role[o] = role}) <= 1

\* The three together, over well-formed contexts: what an agent is shown of the
\* code is not older than what its task is about, under the module's own name.  The
\* versions are right while the list of tasks and the line of repairs agree on what
\* is newest, which they need not for two suites of one code task.
ContextsAreCurrent ==
  /\ []ContextTypeOK
  /\ [][/\ \A i \in frontier : KnowsModule(i)
        /\ OneOfEach => /\ \A i \in frontier : ShowsItsRepairs(i)
                        /\ \A r \in DOMAIN project'.tasks : GivesNoOlderCode(r)]_<<vars, contextVars>>

\* What a task that counts as done leaves behind: the code task a version, a suite
\* a run against the version that its context would show it now.
Delivered(i) ==
  /\ IsCode(i)  => output[i] > 0
  /\ IsSuite(i) => tested[i] = ShownCode(project, i)

\* When the loop ends, what is done has been delivered: no repair changed the code
\* in a suite's sight after the run that the suite passed, no failed repair left a
\* code task done that it emptied, over all cycles and crashes; and a workflow
\* accepted as completed delivers all it was defined with, for the repairs and the
\* repaired that acceptance leaves out hide no unfinished work.  (Until an operator
\* intervenes; a second suite of the same code is not rerun when it is repaired.)
DoneIsDelivered ==
  [][Finish /\ OneOfEach /\ calls = 0 =>
       \A i \in {OriginalId(o) : o \in Original} :
         StatusOf(project, i) = "done" \/ project'.outcome = "completed"
           => Delivered(i)]_<<vars, contextVars>>
=============================================================================
