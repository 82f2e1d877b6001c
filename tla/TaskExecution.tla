--------------------------- MODULE TaskExecution ---------------------------
(***************************************************************************)
(* One task from its start to its end: Orchestrator.run_task, the agent's  *)
(* execute() (agents/base_agent.py), the validation of what it returns, and*)
(* what start_task, fail_task, complete_task and record_task_provider_calls*)
(* (memory/project_state.py) write down.                                   *)
(*                                                                         *)
(* Tasks of one role share an agent, and with it the log of its provider   *)
(* calls and the metadata of the last one.  A BaseException such as a      *)
(* KeyboardInterrupt leaves run_task without its handler.                  *)
(***************************************************************************)
EXTENDS OutputValidation, SequencesExt

CONSTANTS
  Tasks,
  Workloads,      \* the settings explored; each has tasks, texts, answers of its own
  Role,           \* [Tasks -> role], the normalized key of the agent
  Spelled,        \* the tasks whose assigned_to is the key itself, in lower case
  Dependencies,   \* [Tasks -> SUBSET Tasks], the transitive ones included
  Works,          \* [Workloads -> SUBSET Tasks], the tasks that the workflow has
  Text,           \* [Workloads -> [Tasks -> what the task's description asks for]]
  Drafts,         \* [Workloads -> [Tasks -> what an agent may answer]]
  PytestRuns,     \* [Workloads -> how the generated tests may end in the sandbox]
  RetryLimit,     \* [Workloads -> [Tasks -> Nat]]
  MaxInterrupts   \* [Workloads -> bound: executions cut short by a BaseException]

ASSUME ExecutionAssumption ==
  /\ Spelled \subseteq Tasks
  /\ RetryLimit \in [Workloads -> [Tasks -> Nat]] /\ MaxInterrupts \in [Workloads -> Nat]
  /\ Works \in [Workloads -> SUBSET Tasks]
  /\ Dependencies \in [Tasks -> SUBSET Tasks]

\* What is known of the texts that agents answer with, of the budgets that a task
\* asks for, and of what a run of pytest shows.
SuiteKeys == BlockingKeys \cup WarningKeys \cup {"tests_without_assertions", "helper_surface_usages"}

IsModule(text) ==
  /\ {"syntax", "tail", "badFields", "lines", "missing", "imports"} \subseteq DOMAIN text
  /\ {text.syntax, text.tail, text.badFields} \subseteq BOOLEAN
  /\ text.lines \in Nat /\ IsFiniteSet(text.missing)
  /\ text.imports \in {"works", "fails", "hangs"}

IsSuite(text) ==
  /\ {"syntax", "tail", "lines", "tests", "fixtures", "keys", "fixable"} \subseteq DOMAIN text
  /\ {text.syntax, text.tail} \subseteq BOOLEAN
  /\ {text.lines, text.tests, text.fixtures} \subseteq Nat
  /\ text.keys \subseteq SuiteKeys

IsRequest(text) ==
  {text.lines, text.exactTests, text.maxTests, text.fixtures} \subseteq Nat \cup {Unlimited}

PytestRun == [ran : BOOLEAN, passed : BOOLEAN, files : SUBSET {"module", "tests"},
              failures : SUBSET {"values", "labels", "action_map", "attribute", "setup", "error"}]

ASSUME TextAssumption ==
  /\ Unlimited \notin Nat
  /\ PytestRuns \in [Workloads -> SUBSET PytestRun]
  /\ \A w \in Workloads : \A t \in Works[w] :
       /\ IsRequest(Text[w][t])
       /\ \A text \in Drafts[w][t] :
            /\ Role[t] = "code_engineer" => IsModule(text)
            /\ Role[t] = "qa_tester" => IsSuite(text)

VARIABLES
  work,       \* the workload: chosen once
  tasks,      \* what the project records of each task
  agents,     \* per role: the log of provider calls and the last metadata
  disk,       \* the artifact file of each task
  run,        \* the locals of run_task
  interrupts  \* how often it was interrupted

vars == <<work, tasks, agents, disk, run, interrupts>>

Validated == {"code_engineer", "qa_tester", "dependency_manager"}
Statuses  == {"pending", "running", "done", "failed"}
Calls     == [by : Tasks, n : Nat, end : {"complete", "cut", "error"}]

TypeOK ==
  /\ work \in Workloads
  /\ \A t \in Tasks :
       /\ tasks[t].status \in Statuses /\ tasks[t].attempts \in Nat
       /\ \A i \in DOMAIN tasks[t].calls : tasks[t].calls[i] \in Calls
       /\ tasks[t].last \in Calls \cup {Absent}
       /\ tasks[t].mode \in {Absent, "provider", "deterministic"}
  /\ \A r \in DOMAIN agents : agents[r].last \in Calls \cup {Absent}
  /\ run.pc \in {"idle", "input", "output", "accepted"}
  /\ interrupts \in 0..MaxInterrupts[work]

NewTask == [status |-> "pending", attempts |-> 0, calls |-> <<>>, last |-> Absent,
            mode |-> Absent, category |-> Absent, output |-> Absent, pytest |-> Absent]
NotRunning == [pc |-> "idle", task |-> Absent, start |-> 0, output |-> Absent, pytest |-> Absent]

Init ==
  /\ work \in Workloads
  /\ tasks = [t \in Tasks |-> NewTask]
  /\ agents = [r \in {Role[t] : t \in Tasks} |-> [log |-> <<>>, last |-> Absent]]
  /\ disk = [t \in Tasks |-> Absent]
  /\ run = NotRunning
  /\ interrupts = 0

\* The outputs of role in the context of t
Available(t, role) ==
  {tasks[d].output.text : d \in {u \in Dependencies[t] : Role[u] = role /\ tasks[u].status = "done"}}

\* The module in the context of t: the output of a code task it depends on.
CodeOf(t) ==
  LET modules == Available(t, "code_engineer")
  IN  IF modules = {} THEN Absent ELSE CHOOSE m \in modules : TRUE

Agent(t) == agents[Role[t]]
Task  == run.task

-----------------------------------------------------------------------------
(* The ends of an execution                                                *)

\* mutant: the whole log of the agent is recorded for the task
OwnCalls_All(t, log) == log

\* The calls that were logged since the task started.
OwnCalls(t, log) == SubSeq(log, run.start + 1, Len(log))

\* provider_call_metadata: what the output carries, or the agent's last call
LastCall(agent, output) == IF output # Absent THEN output.call ELSE agent.last

Mode(call) == IF call = Absent THEN "deterministic" ELSE "provider"

\* classify_task_failure: kind is "agent" for an AgentExecutionError, else the
\* category itself.  assigned_to is compared in lower case, not normalized.
Category(t, kind) ==
  IF kind # "agent" THEN kind
  ELSE IF t \notin Spelled THEN "task_execution"
  ELSE CASE Role[t] = "code_engineer" -> "code_validation"
         [] Role[t] = "qa_tester" -> "test_validation"
         [] Role[t] = "dependency_manager" -> "dependency_validation"
         [] OTHER -> "task_execution"

\* mutant: the calls of a failed attempt are not recorded
Failed_NoCalls(t, agent, output, pytest, kind) ==
  [tasks EXCEPT ![t].last = LastCall(agent, output), ![t].mode = Mode(LastCall(agent, output)),
     ![t].category = Category(t, kind), ![t].status = "failed"]

\* The handler of run_task: record the calls, then fail_task.
Failed(t, agent, output, pytest, kind) ==
  LET last    == LastCall(agent, output)
      retried == tasks[t].attempts <= RetryLimit[work][t]
  IN  [tasks EXCEPT
         ![t].calls = @ \o OwnCalls(t, agent.log),
         ![t].last = last,
         ![t].mode = Mode(last),
         ![t].category = Category(t, kind),
         ![t].status = IF retried THEN "pending" ELSE "failed",
         ![t].output = IF retried THEN @ ELSE output,
         ![t].pytest = IF retried THEN @ ELSE pytest]

Fails(output, pytest, kind) ==
  /\ tasks' = Failed(Task, Agent(Task), output, pytest, kind)
  /\ run' = NotRunning

-----------------------------------------------------------------------------
(* Actions                                                                 *)

\* start_task
Start(t) ==
  /\ t \in Works[work] /\ run.pc = "idle" /\ tasks[t].status = "pending"
  /\ \A d \in Dependencies[t] : tasks[d].status = "done"
  /\ tasks' = [tasks EXCEPT ![t].status = "running", ![t].attempts = @ + 1,
                            ![t].category = Absent]
  /\ run' = [NotRunning EXCEPT !.pc = "input", !.task = t, !.start = Len(Agent(t).log)]
  /\ UNCHANGED <<work, agents, disk, interrupts>>

\* validate_input: what an agent's required_context_keys ask for is in its context.
Needs(role) ==
  CASE role = "code_engineer" -> {"architect"}
    [] role \in {"qa_tester", "dependency_manager", "code_reviewer"} -> {"code_engineer"}
    [] OTHER -> {}

HasInput == run.pc = "input" /\ \A role \in Needs(Role[Task]) : Available(Task, role) # {}

RejectInput ==
  /\ run.pc = "input" /\ ~HasInput
  /\ Fails(Absent, Absent, "agent")
  /\ UNCHANGED <<work, agents, disk, interrupts>>

\* The provider that is configured cannot be created: nothing is called.
NoProvider ==
  /\ HasInput
  /\ Fails(Absent, Absent, "agent")
  /\ UNCHANGED <<work, agents, disk, interrupts>>

\* chat(): the call is logged whether it succeeds or not.
Logged(end) ==
  LET call == [by |-> Task, n |-> Len(Agent(Task).log) + 1, end |-> end]
  IN  [log |-> Append(Agent(Task).log, call), last |-> call]

ChatFails(kind) ==
  /\ HasInput
  /\ agents' = [agents EXCEPT ![Role[Task]] = Logged("error")]
  /\ tasks' = Failed(Task, Logged("error"), Absent, Absent, kind)
  /\ run' = NotRunning
  /\ UNCHANGED <<work, disk, interrupts>>

\* A model replies with nothing but blanks: the call was logged as a success.
\* The dependency manager takes this for a manifest without dependencies.
BlankReply(end) ==
  /\ HasInput /\ Role[Task] # "dependency_manager"
  /\ agents' = [agents EXCEPT ![Role[Task]] = Logged(end)]
  /\ tasks' = Failed(Task, Logged(end), Absent, Absent, "agent")
  /\ run' = NotRunning
  /\ UNCHANGED <<work, disk, interrupts>>

\* How a reply holds its text: alone, in fenced blocks, after some prose, or
\* with prose after it.  Only the agents that write code look for it this way.
Wrappings(t) ==
  IF Role[t] \in {"code_engineer", "qa_tester"} THEN {"bare", "fenced", "preface", "trailing"}
  ELSE {"bare"}

\* _extract_code_content takes what the fences hold, else everything from the
\* first line on that looks like code: prose after it makes it unreadable.
Extracted(text, wrapping) ==
  IF wrapping = "trailing" THEN [text EXCEPT !.syntax = FALSE]
  ELSE IF Role[Task] = "dependency_manager" THEN Requirements(text) ELSE text

\* run_with_input, normalization and _finalize_output: the output carries the
\* metadata of the agent's last call.
Answer(text, wrapping, end) ==
  /\ HasInput /\ wrapping \in Wrappings(Task)
  /\ agents' = [agents EXCEPT ![Role[Task]] = Logged(end)]
  /\ run' = [run EXCEPT !.pc = "output",
                        !.output = [text |-> Extracted(text, wrapping), call |-> Logged(end).last]]
  /\ UNCHANGED <<work, tasks, disk, interrupts>>

\* The fixes that validation makes are written back into the output.
Fixed(output) ==
  CASE Role[Task] = "code_engineer" -> [output EXCEPT !.text = FixedCode(@)]
    [] Role[Task] = "qa_tester" -> [output EXCEPT !.text = FixedSuite(@)]
    [] OTHER -> output

\* The imports of the module that its manifest must declare
ImportsOf(code) == IF code = Absent \/ ~code.syntax THEN {} ELSE code.thirdParty

ModuleRejected(t, output) == CodeIssues(output.text, Text[work][t], output.call.end) # {}
SuiteIsRejected(t, output, pytest) ==
  SuiteRejected(output.text, Text[work][t], pytest, output.call.end)
ManifestRejected(t, output) == ManifestIssues(output.text, ImportsOf(CodeOf(t))) # {}

\* validate_task_output by the role of the agent that executed
Rejected(t, output, pytest) ==
  \/ Role[t] = "code_engineer" /\ ModuleRejected(t, output)
  \/ Role[t] = "qa_tester" /\ SuiteIsRejected(t, output, pytest)
  \/ Role[t] = "dependency_manager" /\ ManifestRejected(t, output)

NoPytest == [ran |-> FALSE, passed |-> FALSE, files |-> {}, failures |-> {}]
PytestChoices == IF Role[Task] = "qa_tester" THEN PytestRuns[work] ELSE {NoPytest}

\* mutant: the fixed text is judged but the answer is stored
Judge_StoresAnswer(pytest) ==
  /\ run.pc = "output" /\ pytest \in PytestChoices
  /\ IF Rejected(Task, Fixed(run.output), pytest)
       THEN Fails(Fixed(run.output), pytest, "agent")
       ELSE /\ run' = [run EXCEPT !.pc = "accepted", !.pytest = pytest]
            /\ UNCHANGED tasks
  /\ UNCHANGED <<work, agents, disk, interrupts>>

Judge(pytest) ==
  /\ run.pc = "output" /\ pytest \in PytestChoices
  /\ LET output == Fixed(run.output)
     IN  IF Rejected(Task, output, pytest)
           THEN Fails(output, pytest, "agent")
           ELSE /\ run' = [run EXCEPT !.pc = "accepted", !.output = output, !.pytest = pytest]
                /\ UNCHANGED tasks
  /\ UNCHANGED <<work, agents, disk, interrupts>>

PersistFails ==
  /\ run.pc = "accepted"
  /\ Fails(run.output, run.pytest, "task_execution")
  /\ UNCHANGED <<work, agents, disk, interrupts>>

\* What the default artifact of an output holds: the legal advisor's begins
\* with a disclaimer that the output itself has not.
Written(t, text) == IF Role[t] = "legal_advisor" THEN <<"disclaimer", text>> ELSE text

\* persist_artifacts, the records, and complete_task
Complete ==
  /\ run.pc = "accepted"
  /\ disk' = [disk EXCEPT ![Task] = Written(Task, run.output.text)]
  /\ tasks' = [tasks EXCEPT ![Task].calls = @ \o OwnCalls(Task, Agent(Task).log),
                            ![Task].last = LastCall(Agent(Task), run.output),
                            ![Task].mode = Mode(LastCall(Agent(Task), run.output)),
                            ![Task].category = Absent, ![Task].status = "done",
                            ![Task].output = run.output, ![Task].pytest = run.pytest]
  /\ run' = NotRunning
  /\ UNCHANGED <<work, agents, interrupts>>

\* KeyboardInterrupt and its like pass the handler of run_task, in chat() after
\* the call was logged.
Interrupt ==
  /\ run.pc # "idle" /\ interrupts < MaxInterrupts[work]
  /\ interrupts' = interrupts + 1
  /\ \/ UNCHANGED agents
     \/ HasInput /\ agents' = [agents EXCEPT ![Role[Task]] = Logged("error")]
  /\ run' = NotRunning
  /\ UNCHANGED <<work, tasks, disk>>

\* resume_interrupted_tasks, when the workflow is executed again
Resume ==
  /\ run.pc = "idle" /\ \E t \in Tasks : tasks[t].status = "running"
  /\ tasks' = [t \in Tasks |->
       IF tasks[t].status = "running"
         THEN [tasks[t] EXCEPT !.status = "pending", !.last = Absent] ELSE tasks[t]]
  /\ UNCHANGED <<work, agents, disk, run, interrupts>>

\* build_repair_validation_summary: by the category of the failure, a summary of
\* what its validation recorded, if it got that far.  (That of a manifest holds
\* nothing that is read back.)
RepairSummary(t) ==
  LET text == tasks[t].output.text  end == tasks[t].output.call.end
  IN  CASE tasks[t].output = Absent -> MessageOnly
        [] tasks[t].category = "code_validation" -> CodeSummary(text, Text[work][t], end)
        [] tasks[t].category = "test_validation" ->
             SuiteSummary(text, Text[work][t], tasks[t].pytest, end)
        [] OTHER -> MessageOnly

GetsPlan(t) == NeedsBudgetPlan(RepairSummary(t), tasks[t].category)

Next ==
  \/ \E t \in Tasks : Start(t)
  \/ RejectInput
  \/ NoProvider
  \/ \E kind \in {"agent", "provider_transient"} : ChatFails(kind)
  \/ /\ run.pc = "input"
     /\ \E end \in {"complete", "cut"} :
          \/ BlankReply(end)
          \/ \E text \in Drafts[work][Task], wrapping \in Wrappings(Task) :
               Answer(text, wrapping, end)
  \/ \E pytest \in PytestRuns[work] \cup {NoPytest} : Judge(pytest)
  \/ PersistFails
  \/ Complete
  \/ Interrupt
  \/ Resume

Spec == Init /\ [][Next]_vars

-----------------------------------------------------------------------------
(* Properties                                                              *)

\* Every provider call in a task's history was made for that task, and the
\* history is in the order of the calls, although agents and their logs are
\* shared by tasks, retries and interrupted executions.
CallsAreOwn ==
  \A t \in Tasks : \A i \in DOMAIN tasks[t].calls :
    /\ tasks[t].calls[i].by = t
    /\ i > 1 => tasks[t].calls[i - 1].n < tasks[t].calls[i].n

\* Between executions every logged call is in the history of its task, unless
\* some execution was interrupted.
Kept ==
  \A r \in DOMAIN agents : \A i \in DOMAIN agents[r].log :
    Contains(tasks[agents[r].log[i].by].calls, agents[r].log[i])
CallsAreKept == run.pc = "idle" /\ interrupts = 0 => Kept

\* A finished task's artifact file is its stored output, under the disclaimer when
\* it is legal advice, wherever the reply held it; what is stored would
\* pass validation as it stands, imports whatever it needs, and a suite that
\* was not confirmed by a passing pytest run has neither failed one nor has it
\* issues that pytest was to decide about.
DoneIsSound ==
  \A t \in {u \in Tasks : tasks[u].status = "done"} :
    LET text == tasks[t].output.text
    IN  /\ disk[t] = Written(t, text)
        /\ Role[t] = "code_engineer" =>
             /\ text.syntax /\ text.missing = {} /\ ~text.badFields
             /\ text.thirdParty = {} => text.imports = "works"
             /\ Text[work][t].lines # Unlimited => text.lines * 20 < Text[work][t].lines * 23 + 20
        /\ Role[t] = "qa_tester" =>
             /\ text.syntax /\ text.keys \cap BlockingKeys = {}
             /\ ~PytestFailed(tasks[t].pytest)
             /\ PytestPassed(tasks[t].pytest) \/ text.keys \subseteq {"type_mismatches", "helper_surface_usages"}
        /\ Role[t] = "dependency_manager" =>
             \A l \in text : l.kind = "package"

FailedWith(role) ==
  {t \in Tasks : Role[t] = role /\ tasks[t].status = "failed" /\ tasks[t].output # Absent}

\* The repair of a rejected suite starts with a plan to make it smaller exactly
\* when it was cut off or is above one of its budgets: the category of the failure,
\* the summary for that category and what is read back from it agree on that.
PlanMatchesSuite ==
  \A t \in FailedWith("qa_tester") \cap Spelled :
    LET text == tasks[t].output.text  end == tasks[t].output.call.end
    IN  GetsPlan(t)
          <=> \/ BrokenBudgets(text, Text[work][t]) \ {"exact_tests"} # {}
              \/ Text[work][t].exactTests # Unlimited /\ text.tests > Text[work][t].exactTests
              \/ ~text.syntax /\ (end = "cut" \/ text.tail)

\* When a failed suite has the module rewritten although the failure was not
\* raised inside the module, some test disagreed with it about a value, no test
\* could not be set up or asked for what no contract says, and the suite itself
\* would be accepted as it is once its tests pass; except for helpers it uses
\* against a budget.
BlamedOnlyIfSuiteIsFine ==
  \A t \in FailedWith("qa_tester") :
    LET text == tasks[t].output.text  pytest == tasks[t].pytest
        passing == [ran |-> TRUE, passed |-> TRUE, files |-> {}, failures |-> {}]
    IN  BlamesCode(text, Text[work][t], pytest) /\ "module" \notin pytest.files
          => /\ "values" \in pytest.failures /\ pytest.failures \subseteq {"values", "error"}
             /\ \/ "helper_surface_usages" \in text.keys
                \/ ~Rejected(t, tasks[t].output, passing)

\* A rejected suite is described as failing in the summary that its repair is given,
\* whatever combination of issues, budgets and pytest decided it: the two are
\* computed separately.  (Helpers used against a budget are left out by one.)
VerdictAgrees ==
  \A t \in FailedWith("qa_tester") :
    LET text == tasks[t].output.text
    IN  /\ "helper_surface_usages" \notin text.keys
        /\ Rejected(t, tasks[t].output, tasks[t].pytest)
        => Verdict(text, Text[work][t], tasks[t].pytest)
             \in {"FAIL", "FAIL (warnings without pytest confirmation)"}

\* A module that was rejected for its size or cut off has a plan made before its
\* repair, although the budget it is held to and the one its summary shows differ.
OversizeGetsPlan ==
  \A t \in FailedWith("code_engineer") \cap Spelled :
    CodeIssues(tasks[t].output.text, Text[work][t], tasks[t].output.call.end)
      \cap {"lines", "truncated"} # {} => GetsPlan(t)

\* Together: the call history of a task holds its own calls, and all of them.
HistoryIsOwn == TypeOK /\ CallsAreOwn /\ CallsAreKept

\* Together: the summary that is stored for a rejected output and parsed again
\* when its repair is planned says what the validation had decided.
SummaryIsFaithful == PlanMatchesSuite /\ VerdictAgrees /\ OversizeGetsPlan
=============================================================================
