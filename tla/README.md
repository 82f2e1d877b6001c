# Verification of the KYCortex workflow runtime

KYCortex runs a graph of tasks, each worked on by an LLM agent: code is
written, tested, repaired when its tests fail, and documented. This directory
holds TLA+ modules of the runtime around the agents: the loop that executes the
graph, the state object it works on and the files that object is kept in, the
plan of provider calls, the judgement of what agents return, the evidence kept
of it all, and the campaigns that validate whole workflows. TLC checks them on
small instances; TLAPS proves most of their safety properties for all of them.

- `PROJECT.json`: components, runs, mutants, theorems, hazards, findings, and
  the source lines behind each definition.
- `tlc -config <run>.cfg <Module>` runs a configuration of section 4,
  `tlapm <Module>.tla` checks the proofs of section 6.

## 1. The system

| Component | State | Operations | Modules |
|---|---|---|---|
| Workflow control loop (`orchestrator.py`, `orchestration/workflow_control.py`) | position in `execute_workflow`, the runnable list, the running task | prepare, resume, loop, run a task, decide on a failure, finish | `WorkflowControl`, `WorkflowLifecycle` |
| Workflow state object (`memory/project_state.py`) | task table, phase, outcome, failure category, repair counters, histories, events, call records | about thirty methods that move a task or the workflow; views of it | `ProjectState`, `AuditTrail`, `WorkflowTelemetry`, `WorkflowViews`, `CallRecords` |
| Repair planning (`workflow_control.py`, `repair_*.py`, `task_constraints.py`) | none; adds tasks and dependencies to the state object | configure attempts, create repairs and budget plans, chain a repair | `RepairPlanning` |
| Acceptance (`workflow_acceptance.py`) | none | verdict of a finishing workflow | `WorkflowControl` |
| Agent registry (`agents/registry.py`) | static map of roles | resolve | constant `Registered` |
| Configuration and types (`config.py`, `types.py`) | settings | normalise, validate, plan of candidates | `ProviderSettings` |
| Provider call plan (`agents/base_agent.py`, `providers/factory.py`) | circuits, health cache, call counters, clock | probe, call, retry, back off, fall back, cancel | `ProviderPlan`, `CircuitBreaker` |
| Provider clients (`providers/`) | whether a client still sends a temperature | health check, generate, classify failures | `ProviderClients` |
| State store (`memory/state_store.py`, `ProjectState.save/load`) | state file, lock file, sidecar, snapshots | save, load, prune, legal hold | `StateStore`, `DurableState` |
| Event chain (`project_state.py`, `evidence.py`) | hash-chained execution events | record, save, load, migrate, verify | `EventChain` |
| Agents (`agents/base_agent.py`, `agents/*.py`) | log of provider calls, last call metadata | `execute`, parsing of replies, normalisation of manifests | `TaskExecution`, `OutputValidation` |
| Sandbox and validation runtime (`orchestration/validation_*.py`, `sandbox_*.py`) | none | validate modules, suites and manifests; summaries and their readers | `OutputValidation` |
| Context building and artifacts (`context_building.py`, `artifacts.py`) | artifact files, manifest | build a context, persist artifacts | `TaskContext`, `ArtifactEvidence` |
| Observability, evidence and compliance (`evidence.py`, `scripts/`) | evidence bundles | audit, export a bundle | `ArtifactEvidence`, `StateStore`, `EventChain` |
| Validation campaigns (`provider_matrix.py`, `workflows/`, `scripts/run_real_world_complex_matrix.py`) | `run_result.json`, the output directory | reuse, open, execute, resume, judge, report | `PackagedWorkflows`, `ScenarioValidation`, `Campaign` |
| Generated-code analysis (`*_ast_analysis.py`) | none | verdicts about Python source | not modelled (section 8) |

**How they interact.** A workflow runs in one thread and by plain calls. The
orchestrator takes a `ProjectState`, mutates it, and saves it at fixed points;
it calls one agent at a time. An agent call is a callback boundary: the
agent, its context, or a progress hook may call the orchestrator's control
surface (pause, resume, cancel, skip, override) on the very object that the
loop is working on. Between executions an operator may call the same methods,
and replay, and execute again. Inside its call the agent asks one provider after
the other, sharing a health cache with every agent of the process; another
thread may request a cancellation there at any moment. A process may die
anywhere and another one loads the file; several processes may save to one
file; an interrupt (`KeyboardInterrupt`, not an `Exception`) leaves the same
process with a half-finished state in memory. A campaign drives whole workflows
and builds on what an earlier campaign left in the output directory.

**What is hard.** The state after an agent call is not the state before it; the
runnable list is a snapshot used across attempts that change the graph; the
start of a task is not saved while its end is; repairs are tasks themselves
that change the status and the attempts of the task they are for; three sources
of repeated work (retries, chained repairs, resumed repair cycles) meet in one
`while True`; an answer of a provider changes a streak, a circuit and a cached
probe that later chats read; a save is several file operations; an output is
changed after it was validated, and read back from a text later on.

**What makes each component correct.**

- *Control loop*: nothing stays marked running; the state file is up to date
  whenever control is handed back; a pause or a cancellation is obeyed and not
  lost; each execution ends; a workflow is called blocked only for a
  reason, and completed only when its work is done.
- *State object*: retries are bounded; skipping and requeueing reach everything
  behind a task, and nothing else; what was recorded tells what happened, and
  the internal and the public view of it tell the same.
- *Repair planning*: the graph stays executable; the budget of cycles is
  kept; a counted cycle has something to run; a repair is given what was blamed.
- *Provider call plan*: nothing is sent while a circuit is open; budgets hold
  across chats; every candidate is used or leaves a trace; a reliable candidate
  answers if the chat comes to it; a cancellation wins over a backoff; every chat ends.
- *State store*: the file is replaced in one step; state, sidecar and history
  belong together at rest; nothing is lost under a legal hold.
- *Event chain*: an honest chain verifies, whatever was loaded and migrated;
  a removed, reordered or altered event is noticed.
- *Agents and validation*: a task's history holds its own calls; what is stored
  as done stands a second look; code is blamed only for what it did.
- *Artifacts and evidence*: an audit finds exactly what changed, of what the manifest
  has not lost; a bundle holds what it lists.
- *Campaigns*: a row reports the project that it names, as judged.

## 2. Modules

```
ProjectState               the state object: records and methods as operators
  RepairPlanning           which tasks a repair cycle adds
    WorkflowControl        execute_workflow, agents, operators, crashes
      WorkflowProperties   instantiates WorkflowLifecycle, the abstract specification
        TaskContext        composes the workflow with the code that agents are shown
      Campaign             composes it with a campaign; EXTENDS ScenarioValidation
  WorkflowTelemetry        the views of a project; EXTENDS CallRecords
    AuditTrail             the events that the methods record
      WorkflowViews        the methods in any legal order, events and views

ProviderSettings           configuration, and the plan of candidates it makes
  ProviderClients          what clients make of a service's replies
    ProviderPlan           chat(): the state machine
      ProviderProperties   instantiates CircuitBreaker, one per provider

StateStore                 save and load, write by write
  StateStoreProperties     instantiates DurableState, the register it implements

EventChain                 recording, saving, migrating, verifying, editing
ArtifactEvidence           persisting, auditing, bundling
OutputValidation           judging outputs, summaries, repairs
  TaskExecution            one task from start to end
PackagedWorkflows          the graphs that come with the package
```

Each `MC...` module holds the values that TLC uses for one of them. The theorems
are in modules of their own:

```
NaturalLemmas              least and greatest numbers, induction, folds
  ProjectStateProofs       the methods, the planner, what Reach computes, valid graphs
    WorkflowProofs         types, refinement, safety of executions and of campaigns
    ViewsProofs            what readers of a project may rely on
  ProviderProofs, StateStoreProofs, EvidenceProofs (event chain, artifacts)
TaskExecutionProofs
```

### The workflow

`ProjectState` has no variables: the Python object is one mutable value, so it
is one record here and each method an operator from a record to a record.
`WorkflowControl` composes them into steps, as the orchestrator composes the
method calls.

| State | In the code |
|---|---|
| `project` | the `ProjectState` in memory; `tasks` maps an identifier to its `Task` |
| `disk` | the state file, as the last `save()` left it |
| `pc` | where `execute_workflow` is: `idle`, `resume` (`resume_workflow_tasks`), `activate` (`run_active_workflow` before its loop), `loop` (the head of `execute_workflow_loop`), `frontier` (between two tasks of `execute_runnable_frontier`), `agent` (inside `run_task`'s agent call) |
| `frontier` | the tasks of the runnable list not yet reached |
| `current` | the task whose agent runs |
| `calls`, `crashes` | counters for the bounds |

Identifiers such as `X__repair_2__budget_plan` are a pair of the original name
and the path of cycle numbers, a plan ending in zero. Of a task's texts, outputs
and repair context only what the planner branches on is kept: the failure
category, whether a test report puts the code at fault, whether a budget was
exceeded, and which failure a repair answers.

| Action | Code |
|---|---|
| `Execute` | `execute_workflow` up to `resume_workflow_tasks`: cancelled exit, plan check, registry check, budget |
| `ResumeWithoutRepair`, `RefuseRepair`, `ResumeWithRepair` | the outcomes of `resume_workflow_tasks` |
| `Activate` | `run_active_workflow`, `ensure_workflow_running` |
| `LoopExit`, `Finish`, `Blocked`, `SelectFrontier` | one round of `execute_workflow_loop`, by its exits |
| `FrontierDone`, `FrontierExit`, `Dispatch`, `DispatchUnknownAgent` | one step of `execute_runnable_frontier` |
| `AgentSucceeds`, `AgentFails` | the return and the raise of `run_task`, with the whole of `dispatch_task_failure` and the save |
| `Interrupt`, `Crash` | a `BaseException` through the agent call; the process dies and the file is loaded |
| `Pause`, `Resume`, `Cancel`, `Replay`, `Skip`, `Override` | the operator's calls, each with its save |

`WorkflowLifecycle` is what an operator may rely on whatever the tasks are: four
stages (open, paused, cancelled, closed) in memory and on disk, whether an
execution is in progress and whether an agent runs. `WorkflowProperties` maps
the detailed state to it (`StageOf`) and checks and proves that `Spec`
implements it.

`TaskContext` adds to each step of the workflow which version of the code each
task holds, which version `build_context` would show to the next agent, and the
place of each task in the list (`place`), since the context is filled in the order
of the list and what comes later replaces what came before.

`WorkflowViews` takes the same methods as an interface, in any legal order,
where any task may be skipped or overridden, whatever its status. (That an attempt
ends after its task was skipped or overridden is left to `WorkflowControl`; here it
ends while the task runs.) It adds what `ProjectState` leaves out: the last history
entry of each task, the
events of the last call (`AuditTrail`), the record of each provider call
(`CallRecords`) and the views computed from them (`WorkflowTelemetry`). The code
computes internal and public telemetry in two passes; so do the modules.

### The provider plan

| State | In the code |
|---|---|
| `clock`, `cache` | `perf_counter` and `_HEALTH_PROBE_CACHE`, shared by the process |
| `calls`, `callsOf` | `_provider_call_count`, `_provider_call_counts` |
| `streak`, `openUntil`, `last`, `checks` | the transient-failure streaks, circuits, last outcomes and last health checks per provider |
| `learned` | clients that have found out that their model takes no temperature |
| `chat` | the locals of `chat()`: candidate, attempt, trail of left candidates |

A step ends where the code waits: in a health check, a generate call or a slice
of a backoff. Only there does the clock advance, and another thread can cancel.
What comes back is any reply that the clients tell apart (`ProviderClients`).
`CircuitBreaker` says what a breaker promises of one provider; `ImplementsBreaker`
is its refinement for each of them. `ProviderSettings` is the validation that
`KYCortexConfig.__post_init__` does: only plans of valid settings are run.

### Files

`StateStore` has one action per write of a save, two where a file is opened in
place and then written, for both backends; each can fail or be the last of its
process. `DurableState` is the register that `WorkflowControl` takes `save()`
for. In `EventChain` a hash is the content it was computed of, so equal hashes
are equal contents; texts that look like secrets are what redaction replaces.
`ArtifactEvidence` has the same two steps per file for artifacts and manifest, in
one tree of files (`output`), for the code keeps no path for the manifest; a manifest
that cannot be read, after which the call goes on without the entries of before; and
edits from outside against which the audit is checked. `forgotten` remembers which
entries a call went on without.

### Tasks

`TaskExecution` is `run_task` around an agent's `execute()`: input, provider
calls, parsing of the reply, validation, artifacts, completion, each with its
failures, for tasks that share one agent per role. `OutputValidation` has the
decisions: a text is a record of the facts they are made of (whether it parses,
how long it is, which issues the analyses would report), and a pytest run is
the set of the kinds of failures in it.

### Campaigns

`Campaign` composes `WorkflowControl` (its `Spec` does the executing) with the
driver: reuse or open what an earlier campaign left, execute while a repair
budget and a resumable failure are left, judge the service that was delivered
(`ScenarioValidation`), write the row. A service is what the judging calls can
observe of it.

## 3. Assumptions

- *One thread* runs a workflow. Operator calls come in while an agent runs or
  while nothing executes, the only points where the code hands control away.
  Replay is called between executions only; nothing in the repository calls it
  from an agent. The cancellation of a chat does come from another thread.
- *Save is atomic* in `WorkflowControl`, `TaskContext` and `Campaign`: `disk`
  changes in one step. This is what `StateStore` is shown to implement.
- *Locks.* `flock` excludes the processes that use it, and is released by the
  death of its holder. Hosts without `fcntl`, where the code goes on without a
  lock, are not modelled.
- *A replace is atomic* (`os.replace`, an SQLite commit); a write in place is
  not.
- *Identifiers.* Users do not put `__repair_` into their task names.
- *Order of definition.* A task is listed after the tasks it depends on, as
  the repository's examples do, so a code task is planned before its suite; and
  what a test suite imports is among its dependencies.
- *The order within a runnable list* is left open. The code uses the order of
  its topological sort, so the model has all its behaviours and some more.
- *An agent* of `WorkflowControl` succeeds, or fails with one of the categories
  and the evidence that its role can show. Where they come from is the subject
  of `TaskExecution` and `ProviderPlan`. A rejected dependency manifest steers
  nothing that an execution failure does not, and counts as one; so do the
  categories of failed provider calls.
- *A campaign* runs alone, and agents of a workflow under a campaign return.

## 4. Runs

| Run | Question | Instance and bounds | States |
|---|---|---|---|
| `everything` | Does a workflow survive operators, interrupts, crashes, retries, repairs and replays in one behaviour, and does each execution end? | code, and its suite and a document that both depend on it; `fail_fast`, one retry of the suite, one cycle with budget plans, oversized artifacts and sandbox failures (the one kind that no repair follows), no architect registered; two operator calls, one crash or interrupt; fair | 23,618 |
| `repairs` | Do repair cycles keep the graph executable, undo what a failure skipped, show everybody the right code, and leave nothing done that was not tested as it is? | code, its suite and a document in a chain; `continue`, two cycles, rejected and oversized code; one crash or interrupt | 218,407 |
| `campaign` | Does a row say what the campaign found, after crashes and reuse, and does the driver end? | the packaged matrix workflow up to its suite, with its own policies and budget; three services, two suites; three campaigns, one crash; fair | 38,460 |
| `provider` | Does `chat()` keep circuits, budgets, cancellations and reliable candidates apart? | five candidates of three providers (below), two chats, one cancellation; fair | 789,588 |
| `store` | Is the state file a register, and do sidecar and history follow it? | two processes, both backends, history limits 0 to 2, two changes, four saves, one failing write, one crash | 497,463 |
| `chain` | Does an honest chain verify, and does an edited one not? | any file of versions 0 and 1 with up to two events; four events, two loads, two edits | 199,555 |
| `artifacts` | Do audits and bundles tell the truth about interrupted writes and edits? | three paths, two with one file name and one the manifest's own, two contents; two calls, one stop, one manifest that cannot be read, one edit | 660,388 |
| `execution` | Is what a task records its own, sound, and a fair basis for its repair? | four workloads (below) | 366,155 |
| `views` | Do events, histories and the two kinds of views agree with what happened? | code and suite, one retry of the suite, one cycle, one intervention, five kinds of call records | 70,397 |
| `finding_livelock`, `finding_stranded`, `finding_redaction` | the findings of section 5 | one code task; the chain with three cycles; an event of a task with a secret-like name | |

What the properties say is stated with each definition, and `PROJECT.json` lists
which hazard each was chosen for. Each has a mutant: a plausible bug in the code
it is about, under which TLC finds it violated.

**What the runs show.**

- *Workflow.* `NoOrphanRunning`, `IdleIsDurable` and `AttemptsBounded` are about
  crashes and interrupts around the unsaved start of a task;
  `ImplementsLifecycle` and `OperatorWordIsDurable` about operators racing
  attempts; `StartsReady` about the stale runnable list; `NeverBlocked`,
  `BlockedHasCulprit` and `CycleReleasesSkipped` about skipping and requeueing;
  `GraphStaysValid` and `CycleMakesProgress` about repair planning;
  `RepairsWithinBudget` about the count of cycles, in the run where a workflow may be
  paused while it is executed again and again; `ExecutionEnds` about the loop.
  `ContextsAreCurrent` adds the data: a suite is told the module's name by which it
  can be found and, if every code task has one suite, is rerun against the repair
  made for it, and the repair is given no older version than the one blamed.
  `DoneIsDelivered` is about the end of the loop: a suite that counts as done, or any
  suite of a workflow that acceptance calls completed, was last run against the very
  version that it would be shown then, and a code task that counts as done holds one,
  through failed repairs, superseded ones and crashes.
- *Provider plan.* `BooksAreKept` (call budgets across chats, a trail entry for
  every candidate left, circuits that have seen a streak), `ImplementsBreaker`
  (the refinement of `CircuitBreaker` for each provider), `ReliableAnswers` (no
  chat goes past a candidate that can be depended on, nor ends before it for what a
  fallback is there for; one that comes to it ends with the answer, a cancellation, or
  a spent budget of the agent), `CancelIsPrompt`, `SleepIsUseful` and `ChatEnds`. That
  property promises no more: an earlier candidate can end the chat by refusing the
  request (`base_agent.py:518-563`), by an unexpected reply to its probe or for want of
  credentials, and can use up the agent's calls and time. No candidate of the run lacks
  its credentials; that case is in the theorem only. The assumption `PlansAreOrdered` of the same run
  compares the plan of every small setting with what it has to be.
- *Files.* `ImplementsRegister`, `StoreIsConsistent`, `HistoryIsKept` and
  `VersionsAreUnique` for the store; `ChainVerifies`, `SequencesIncrease` and
  `EditsAreFound` for the event chain; `EvidenceIsExact` and `BundleIsComplete` for
  artifacts.
- *Tasks.* `HistoryIsOwn` (no task is charged for another's calls, but for the
  case in section 7), `DoneIsSound` (what is stored passes when validated again),
  `BlamedOnlyIfSuiteIsFine` (a module is repaired only for a suite that did not
  itself fail), `SummaryIsFaithful` (what is read back from a rendered summary
  is what was put in).
- *Views.* `TrailIsComplete` (events and histories reproduce every task's
  status), `EventsHideTexts` (published events keep no text and lose no fact), and
  `ViewsAgree`, in parts: internal and public telemetry tell the same (`SameFacts`),
  records of this and of older versions clean to the same view and without a
  credential (`CleansWell`), attempts and retries fit together (`CountsWell`), the
  progress is that of the graph (`ProgressIsTrue`), and failed tasks tell of what they
  failed (`FailureIsTold`).
- *Campaigns.* `RowsAreTrue`, `CampaignEnds`.

**Why the bounds are enough.**

- *Workflow.* Three tasks give every relation between a task and those it
  depends on: a dependency, a dependent of a dependent, and a suite with the
  code it blames. What they do not give is two suites that blame one module,
  each through a repair of its own. On a workflow of five tasks with these
  (section 7) `CycleMakesProgress` and the names of modules were found to hold as
  well (two cycles, 249,126 states), but not what `ContextsAreCurrent` and
  `DoneIsDelivered` say of versions, which say so (`OneOfEach`). Two cycles
  give a repair of a repair and a plan that is itself repaired. A third gives
  repairs of two cycles that wait at once and one that runs after its successor,
  which is where the finding `finding_stranded` and the first divergence of
  section 7 lie; otherwise the same properties held with three and four cycles,
  in runs too long to be kept (up to 1,630,000 states). Two operator calls are a
  pause and its resume, or a call on what another left, with work of two tasks
  ready; one crash or interrupt puts a restart between any two steps. A suite
  that blames the code is left to `repairs`; with it and two tasks, dependent or
  not, the properties of `everything` held as well (160,522 and 200,159 states).
  `AttemptsBounded`, `StartsReady` and `NeverBlocked` say nothing after the
  first repair cycle: it may reopen what others build on, and a finished repair
  starts counting where it stood. Termination under `continue` with repairs is
  part of `CampaignEnds`, which has the workflow's executions inside.
- *Provider.* The five candidates are two of one provider, which share a circuit and a
  budget of calls, one probed through a live request, one that always answers but takes
  no temperature, and one behind it, which no chat may reach. Two attempts with a threshold of two make a streak that spans
  candidates; a backoff longer than the check interval is cut into slices; a
  cool-down longer than a latency may outlast a chat, so that the second chat meets
  an open circuit, a half-open one, or a cached probe. The counters count budget,
  time and calls up to the first value over each limit.
- *Store.* A save that was cut short, one that follows it, and one of the other
  process in between need three saves; the fourth is the one whose pruning takes
  what the third wrote. The two processes are symmetric.
- *Chain.* An older file brings two events without hashes, with no number or one;
  two hashed ones follow, before or after a save, a load and a migration. Two edits
  reorder, remove, rewrite or strip any of them, and cover each other up.
- *Views.* Of the records one was answered after a retry and by another provider, one
  was refused, and three are from older files: counters instead of flags, a call whose
  every attempt failed in a way that passes, and one that was not made.
- *Execution.* One workload shares an agent between tasks with rejected inputs,
  failing calls, retries and an interrupt; one has 22 modules and 8 manifests, with
  each fact that the code branches on alone and with those it interacts with, in
  four wrappings; two have 168 suites under a maximum and under an exact number of
  tests, with 42 ways in which a pytest run may end.
- *Campaign.* Three campaigns are one that dies, one that builds on what it left,
  and one that reuses the result. The whole seven-task matrix did not finish in
  five minutes; the tasks left out are documents behind the suite. Variants with
  two cycles, with `continue` and with `fail_fast`, and with budget plans were run
  on two tasks, with the same result.

**Deadlock** is checked in `repairs`. In the other runs the system may stop: in
`everything` after a replay that follows a repair cycle (the graph is undefined,
section 7), or after a plan for an unregistered architect, when the operator
calls are used up; in the rest when the bounded number of chats, saves, events,
edits or campaigns is used up, or every task is over.

**Fairness.** In `everything`, `FairSpec` assumes weak fairness of the runtime (the
interpreter keeps executing) and of agent calls (they return or raise: provider
calls carry timeouts). In `provider` it is weak fairness of the chat's own steps:
requests carry a timeout, so `Work` includes the end of each. In `campaign` the
driver is fair, for the same reasons. Nothing obliges anybody to call
`execute_workflow`, a chat, a campaign or an operator's method; faults,
cancellations and the other threads of the process are not fair.

## 5. Findings

Three runs expect a violation; each checks a statement of the repository's docs or
tests that the code does not keep.

| Run | What happens |
|---|---|
| `finding_livelock` | Under `continue`, a budget plan whose architect is not registered is dispatched for ever: the attempt fails before the task is started, so nothing changes. Replayed on the Python code with stub agents. |
| `finding_stranded` | Code, suite and document in a chain, three cycles. The suite blames the code; the repair of the code fails. In the second cycle a new repair fails and the repair of the first one succeeds, but the suite's repairs wait for the failed one as well. In the third cycle one repair of the code succeeds and another one fails and skips, through the failed suite, the document (`project_state.py:1670`); then the suite's first repair runs and completes the suite. The document stays skipped for a failed dependency though its only dependency is done, and no resume finds it, because `resume_failed_tasks` looks behind failed and requeued tasks only. Replayed on the Python code. |
| `finding_redaction` | An event is hashed with only its details redacted, and saved with everything redacted: when a task's identifier looks like a secret, the chain of an untouched file does not verify and a reload renames the task. |

## 6. Proofs

The theorems hold for every value of the constants that the assumptions of the
modules admit: every set of tasks, dependency relation, role assignment, retry
limit, policy, failure mode and budget; every set of answers, budgets and ends of
a test run; every set of processes, history limit and backend; every set of texts
and older files; every set of paths; every configuration, latency and way in which
services answer; and every bound.

**Assumptions.** Most only type the constants. Those that say more, and why the
code justifies them; TLC evaluates all of them in every run of their modules:

| Assumption | Says | Because |
|---|---|---|
| `WorkflowAssumption` | the defined tasks are finitely many | they are a list |
| `SentinelAssumption` (store), `Blank` of `SettingsAssumption` | what stands for "nothing" is no value | they are `None`, a missing file, a blank string |
| `SentinelAssumption` (artifacts) | an artifact, a torn file and a missing one are not manifests | artifacts are code, suites and documents; one that is itself such a JSON object is left out |
| `StatusAssumption` | what arrives with a status code is an HTTP error | SDK errors carry one, and nothing else does |
| `TextAssumption` | counts and budgets are numbers; what the analyses report of modules, suites and runs of pytest is of the kinds that the model tells apart | the analyses return counts, flags and lists under fixed keys |
| `OlderNumbersAssumption` | the numbers in a file of an older version increase | that version counted events upwards |
| `GoodCallAssumption` | an attempt that ends well does not end with a failed call | `chat()` raises when the last call failed |
| `CallAssumption` | a call is a record as agents write it, or wrote it (`IsCall`) | `_chat_with_provider_plan` builds all of them, from the same parts; cleaning keeps the form |
| `FailureAssumption` | a failure has a category | `fail_task` stores "task execution" for none |

Four theorems have hypotheses besides. They are part of what is true: without
them TLC finds counterexamples, which section 7 or section 5 describes.

| Hypothesis | Theorems | Without it |
|---|---|---|
| `TaskIds \cap SecretLike = {}` | `UneditedChains` | finding `finding_redaction` |
| `CountsAgree`: no description asks for more tests than it allows | `SummariesAreFaithful` | a suite between the two numbers breaks its budget and gets no plan |
| `PlanIsValid(InitialProject)` | `GraphIsKept` | nothing to keep |
| `FailurePolicy = "continue"` | `ContinueNeverBlocks` | under `fail_fast` the workflow fails, and its dependents stay pending |

| Theorem | Statement |
|---|---|
| *Workflow* | |
| `TypeCorrect` | `[]TypeOK` |
| `Refinement` | `ImplementsLifecycle`: the runtime implements `WorkflowLifecycle` |
| `OperatorWord` | `[]OperatorWordIsDurable` |
| `NoOrphans` | `[]NoOrphanRunning` |
| `Durability` | `[]IdleIsDurable` |
| `RepairBudget` | `[]RepairsWithinBudget` |
| `BlockedHasReason` | `BlockedHasCulprit` |
| `GraphIsKept` | `GraphStaysValid`, for a graph that was valid when defined |
| `CyclesReleaseSkipped` | `CycleReleasesSkipped` |
| `CyclesMakeProgress` | `CycleMakesProgress` |
| `RetriesAreBounded` | `[]AttemptsBounded` |
| `StartsInOrder` | `StartsReady` |
| `ContinueNeverBlocks` | `[]NeverBlocked`, under `continue` |
| *Tasks* | |
| `CallHistoriesAreOwn` | `[]HistoryIsOwn` |
| `DoneTasksAreSound` | `[]DoneIsSound` |
| `SuitesBlameFairly` | `[]BlamedOnlyIfSuiteIsFine` |
| `SummariesAreFaithful` | `[]SummaryIsFaithful`, if the counts of descriptions agree |
| *Provider plan* | |
| `PlanIsSound` | the plan names every configured pair once, the configured model first, and nothing else |
| `BooksKept` | `[]BooksAreKept` |
| `BreakerIsImplemented` | `ImplementsBreaker`: each provider's circuit implements `CircuitBreaker` |
| `SleepPays` | `SleepIsUseful` |
| `CancelledInTime` | `CancelIsPrompt` |
| `DependableAnswers` | `[]ReliableAnswers` |
| *State store* | |
| `StoreIsRegister` | `ImplementsRegister`: the store implements `DurableState` |
| `SavedStateStays` | `[]SavedStays`, a part of `StoreIsConsistent` |
| `Consistency` | `[]StoreIsConsistent` |
| `HistorySurvives` | `HistoryIsKept` |
| `VersionsMeanOneState` | `VersionsAreUnique` |
| *Event chain* | |
| `NumbersIncrease` | `[]SequencesIncrease` |
| `UneditedChains` | `[]ChainVerifies`, if no task is called like a secret |
| `EditsFound` | `[]EditsAreFound` |
| *Artifacts* | |
| `ExactEvidence` | `[]EvidenceIsExact` |
| `CompleteBundles` | `[]BundleIsComplete` |
| *Views* | |
| `TrailIsAlwaysComplete` | `[]TrailIsComplete` |
| `EventsAlwaysHideTexts` | `[]EventsHideTexts` |
| `ViewsAlwaysAgree` | `[]ViewsAgree` |
| *Campaigns* | |
| `RowsCanBeTrusted` | `[]RowsAreTrue` |
| `CampaignsKeepTheWorkflow` | `TypeOK`, `NoOrphanRunning`, `IdleIsDurable`, `RepairsWithinBudget` under `CampaignSpec` |

The theorem of `GraphStaysValid`, and `CycleMakesProgress`, `StartsReady` and
`NeverBlocked` themselves, speak of a workflow in which no operator has intervened yet
(`calls = 0`): an operator may skip or override a task that others wait for. The last
two and `AttemptsBounded` end with the first repair cycle that is counted
(`project.cycles = 0`), whatever the budget is; a replay starts `AttemptsBounded`
again.

**How they are argued.**

- *Types.* `ProjectStateProofs` has one lemma per method: it leaves a well-formed
  project and, but for replay and planning, the same tasks. `TypeOK` alone is not
  inductive: a replay removes tasks and would leave a frontier with unknown ones.
  `TypeInv` adds that the frontier is empty outside `frontier` and `agent`, and
  replay is called when idle.
- *Refinement.* Only `phase` and `outcome` decide the stage, and most methods
  leave both alone (one lemma each). What is needed beside `TypeInv` is
  `PointsMatchStage`: at `resume` and after, a stage the abstract step does not
  allow cannot be met, for example no agent starts in a closed workflow because
  `Activate` has opened it. `StepRefines` then takes the actions one by one.
- *Running tasks and durability.* They are proved together (`AttemptsInv`),
  because neither is inductive: that nothing but `current` runs at the end of an
  attempt depends on `resume_interrupted_tasks` having cleared what an interrupt
  left, and that an idle execution is saved depends on `current` being marked
  running whenever an agent call is left with unsaved changes.
- *Repair budget.* `BudgetInv` adds two things to `RepairsWithinBudget`: the state
  file is within the budget as well, since a crash brings it back; and at
  `resume` the budget in force is the configured one, since `Execute` has set it
  (a project that was loaded may carry another). The rest is that methods keep
  the cycle count, and that a cycle's tasks end their path with its number.
- *Graph.* `Reach` is a recursive function of how far to go. `ReachIsClosed` and
  `ReachIsLeast` say that over a finite set it is the least closed set: its values
  grow until they stand still, which they must. So a set that everything leads
  back into, all tasks on a cycle for instance, is stuck, and in a graph without
  cycles some task of every set comes first (`SomeTaskComesFirst`). That cycles of
  repairs close no cycle of dependencies rests on a shape (`IsStructured`): a task
  of the definition depends on tasks of the definition, a repair or plan on these
  and on repairs with paths of the same cycle that come before it.
- *Blocked.* A workflow is called blocked when something is pending and nothing
  runnable. In a valid graph some pending task waits for no pending one, so for
  one that is running, failed or skipped, and `AttemptsInv` excludes the first
  (`BlockedBySomeTask`). The argument also shows that the code's reason
  "invalid definition" is never given: the plan was checked before.
- *Completion.* Acceptance is decided from statuses alone, in the step that
  finishes; what is shown is that a task which is not done is superseded there, and
  that this is only said of a task whose repair is done.
- *Repair cycles.* Only a resume counts a cycle, with a save, so that no crash takes it
  back (`OnlyResumeCountsCycles`). What it requeues is the set that is reached from the
  failed tasks through what they had skipped, and this set is closed: what stays
  skipped waits for none of it. That something is ready then takes more: a repair
  inherits what its task depended on, and these must be done. `SettledInv` says that
  whatever has been engaged had its defined dependencies attempted (`Settled`,
  `Founded`), and that the names of a new cycle are new (`Fresh`), so its repairs are
  added and not found among older ones. Of the failed tasks of the definition one waits
  for no other (`SomeFailureComesFirst`); its repair, the plan before it, the repair of
  the code that it blames, or an older repair is ready.
- *Attempts.* Until a cycle is counted no task is a repair (`PlainInv`), also after a
  replay, which drops them, and a crash, which brings back a file with the same count
  (`CyclesSaved`). Then every
  method either leaves a task's attempts alone or starts the one task at hand
  (`Calms`), and what a failed attempt leaves pending has a retry left. The state file
  has its own bound: it may be one attempt behind, which a crash counts
  (`BoundInv`).
- *Order.* `OrderInv` says of the project and of the file that what is done or
  running has its dependencies done, and that nothing pending waits for what
  failed or was skipped; and of the frontier that its tasks are runnable still.
  Completing one task disables no other; skipping dependents takes away a closed
  set, so what is left waits for nothing in it. The runnable list is a snapshot, and
  this is why it does not go stale.
- *Histories.* An agent's log is shared, and a task's calls are cut out of it by
  where the log ended when the task started. `HistoryInv` says that the log numbers its
  calls, that all since that place are the running task's (`AtHand`), that what a task
  has is in order and lies before that place (`Histories`), and that what lies before it
  is kept by somebody unless an execution was interrupted (`AllKept`). An attempt lets
  its log grow by own calls (`Grown`), and every end of one appends exactly these
  (`Recorded`, `NumberedOn`).
- *Outputs.* `SoundInv` says of each stored output that it is what validation judged, with
  its fixes (`IsJudged`), and that it was accepted if the task is done or failed
  outside the validation (`IsAccepted`), otherwise has the category that its role gives.
  That much holds by steps; the rest is about the operators of `OutputValidation`: what
  is not an issue of an accepted output, that a budget with its tolerance is not below
  the budget and at most 15 per cent above (`BudgetIs`), and that the verdict, the
  summary and what is read back from it find the same budgets broken.
- *Store.* The register rests on one fact, `Exclusive`: a process is at one of
  the writing points exactly when it holds the lock. With the types of the few
  variables it mentions (`Locked`) it is inductive. Each action is
  then one of three kinds (a step within a save, a step that ends it, a step
  outside), with one lemma per kind for the invariant and one for the mapping, and
  only `ReplaceFile` and `CommitState` map to the abstract replacement. Consistency
  needs a statement per writing point about what has been written so far and by
  whom (`Stages`), that version numbers are given out in order (`Ordered`), and that
  pruning has left what it may (`Tidied`). History and versions follow from the same
  invariant (`Stored`) step by step: the snapshot being written has the greatest
  number, and pruning keeps the newest.
- *Event chain.* In `Books` the lists are sequences of events, in `Numbered` their
  numbers increase and lie below the counter, in `Chained` they verify and are a
  fixed point of redaction and migration, so that a save and a load change nothing.
  That edits are found is a fact about two verifying chains: from the same head one
  goes back through both, and equal hashes mean equal events with equal previous
  hashes (`SameHeadSameChain`), down to the events without hashes.
- *Artifacts.* `Honest` (an entry is of something written under its path, in the
  manifest and in the one being written) holds at every step. `Exact` says, while
  nothing was cut short, that a manifest that can be parsed, or the one about to be
  written, lists what was persisted last at every path, but for what is `forgotten`, and
  nothing else. `Kept` says that as long as no artifact was written over it there is such
  a manifest as soon as something was persisted, so that only one that cannot be read
  is forgotten.
- *Campaigns.* The workflow's own invariants are taken over as they are (`WorkInv`), each
  step of a campaign being one of the workflow's or one that leaves it alone or at rest.
  On them stands `RowInv`: wherever the driver is, the row of the last campaign, if
  accepted, is `Backed`, so whatever is about to be written must not take away from an
  accepted project on disk. It does not: an execution of such a project has nothing to
  do, and the judgement only demotes a service that fails a check, which this one had
  passed. For this `ExecutionInv` says that no operator touches an execution of a
  campaign, and `CodeIsDelivered` that the code is only done when there is a service.
- *Views.* `ViewsInv` says that the trail and the histories are functions of the project,
  and which calls and errors a task of each status may show (`Shown`). Each method
  has a lemma of what it changes: the tasks it names, in the way its events say
  (`Covered`), and no other. Then the last event about a task gives its status
  (`LastEventsTell`) and a reader who follows them is never behind (`Records`). That
  events hide their texts is decided event by event, from the fields each one has.
- *Agreement of the views.* About calls, three lemmas: cleaning a record gives a record
  (`CleanIsCall`), cleaning it again, in either mode, gives the strict form
  (`CleanAgain`), and the public view depends on nothing that cleaning removes
  (`CleanIsSame`, `SamePublicView`). Sums over tasks are folds that are positive if a
  part is (`PositiveSum`), so a flag agrees with the sum that the other pass takes
  (`ViewsHaveSameFacts`). For this `ViewsStrongInv` adds to `ViewsInv` that every task
  has at most one call, a record that an agent writes, and that histories and resumes
  are finite (`SoundFacts`); and that a failed task has a category and no try left, or
  is failed because its repair is (`FailuresExplained`).
- *Provider plan.* The plan is computed by folds; what is distinct and complete of
  every prefix is proved by induction over prefixes. `BooksAreKept` is nearly
  inductive: what is added says that a success ends the streak and that a backoff
  leaves an attempt. For the breaker every step is of one of a few kinds for each
  provider (`StepKind`) and each kind is a step of its circuit; that an open circuit
  is left alone needs `AskedIsNotOpen`, since the state of a circuit is read at one
  step and the provider asked at a later one. `CancelIsPrompt` rests on a count of
  requests since the cancellation (`Noticed`), `SleepIsUseful` on the check that is
  made before a backoff and is still true after it (`SleepFits`), `ReliableAnswers`
  on circuits of dependable providers that have never seen a failure (`Untouched`) and on
  their never being left behind (`NonePassed`), which also says that a chat at work has
  no outcome yet.
- *Recursion.* The induction theorems of the library take a predicate as a
  parameter, which the provers cannot instantiate. `NaturalLemmas` replaces them by
  facts about sets: every set of numbers has a least member (`LeastNatural`), so the
  set of counterexamples has. A fold is proved to exist (`FoldExists`) and to go from
  prefix to prefix (`FoldSteps`), which gives `Reach`, the plan and the greatest number
  of a chain.

**Only model-checked.**

- *Liveness* (`ExecutionEnds`, `ChatEnds`, `CampaignEnds`): fairness and `ENABLED`
  are outside the prover's reach.
- *Which code is shown and was tested* (`ContextsAreCurrent`, `DoneIsDelivered`): they relate the places of repairs in
  the task list, the order in which repairs of several cycles run, and the versions of
  code that each has left. No inductive invariant has been found for them. The search for
  one has shown that they need the hypothesis `OneOfEach`, and the divergences with three
  cycles of sections 5 and 7.
- *Attempts, order and blocking after a repair cycle*: nothing is claimed of them, for
  what one would claim is not true (section 7).

## 7. Divergences met while modelling

The modules do what the code does. Where that differs from what a doc, a comment
or the name of a function suggests, or from what the author of a property would
first write down, the property says what holds; these are the differences.
The three of section 5 have runs of their own.

*Workflow.*

- With three cycles, the repair of blamed code may be given a version that no suite was
  run against. From the start of `finding_stranded`, the third cycle plans the repair of
  the code from the suite's old report, but gives it what the last repair has produced
  since (`workflow_control.py:1405`), although "the repair context includes the failing
  artifact content" (`docs/workflows.md:131`). Replayed on the Python code.
- With two cycles a workflow can be completed with code that no suite was run against.
  In a chain of code, suite and document the suite blames the code and the first repair
  of the code fails. The second cycle answers both failures: it repairs the code
  (`code__repair_2`) and, for the suite, the repair (`code__repair_1__repair_2`). Each
  makes a version, and each hands it to its own origin. The suite is shown the last of
  the list, the latter, and passes; the code task holds the former. Replayed on the
  Python code. `DoneIsDelivered` speaks of what is shown, for that reason, and not of
  what the code task holds.
- With two suites of one module, the one that passed is not run again when the code is
  repaired for the other (`OneOfEach`).
- A failing repair turns its origin from done to failed; dependents listed in
  the same runnable list are started all the same. (`StartsReady` leaves repairs
  out.)
- Under `continue`, when a repair fails, its own dependents are skipped and not
  those of the task it was for, which were requeued; the workflow ends blocked.
- `cancel_workflow` refuses an executing workflow as finished once any task has
  failed, because the status is derived from the tasks.
- Two suites of one module do not go well with repairs. Take a `code` task, its suite
  `test`, a second suite `contract` behind both, a document `docs` behind `test`, and
  `site` behind `docs`, under `continue` and `resume_failed` with two cycles. The first
  two of these were replayed on the Python code with stub agents:
  - `contract` blames the code when `docs` is done, and the repair of the code fails. Its
    dependents are skipped through done tasks (`project_state.py:1670`), so `site` is
    skipped behind the done `docs`. A resume looks behind failed and requeued tasks only
    (line 773), so `site` stays skipped even when every repair succeeds, although
    "dependency-skipped descendants" are to be requeued (`docs/workflows.md:151`).
  - A completed repair hands its output to the task it repairs and no further, so after
    a repair of a repair the first code task holds an older version. `contract` is shown
    the newest and blames the code, and the repair is given the older output
    (`workflow_control.py:1405`), although it is to be given "the failing artifact
    content" (`docs/workflows.md:131`).
  - A suite that is rerun may be shown an older version than the one made for it: later
    tasks of the list win, and a requeued repair stands before those of later cycles
    but may run after them.
- The attempts of a repair are counted for its origin as well (`project_state.py:947`),
  which is shown as tried more often than its own agent ran.
- A replay (`project_state.py:620`) removes repair tasks and keeps the dependencies
  on them, so the workflow cannot be executed again.
- The last attempt of a call counts as a retry when it failed in a way that passes,
  though nothing was tried after it (`project_state.py`, `_provider_retry_attempt_count`;
  `base_agent.py:420`): a single such attempt shows one retry.
- The reasons of skipping and resuming are published as they are stored; other
  texts of events are not. Failed tasks are shown as retryable only as origins of
  repairs.

*Tasks.*

- What an extension changes in `after_execute`, documented as the place "to shape
  the final `AgentOutput`" (`docs/extensions.md:54`), never reaches the project: the
  orchestrator replaces the output by the copy that was made before
  (`base_agent.py:988`, `orchestrator.py:112`).
- An interrupt loses the provider call that was logged during the attempt, and a
  call that fails before it is logged leaves the metadata of an earlier call, which
  may be another task's.
- The role "QA Tester" is resolved to the tester, but the category of its failures is
  looked up by the name as written, so its suites get no budget plan. A budget plan
  is made for a module over its budget also where the validation tolerates it.
- A description may ask for an exact number of tests and for fewer at most
  (`task_constraints.py:242-257`). A suite with a number between them breaks the maximum,
  but its summary shows the exact number only (`validation_reporting.py:306-311`), so
  its repair gets no budget plan.
- A summary can say PASS for the helper surface of a suite that was not looked
  at; "cli" is found in "client" when a task is searched for an entry point; a
  requirement with extras is another package to the manifest check.
- One failing test that reaches too far, or whose setup fails, shields the code from
  blame even when another one shows a genuine difference in values.
- Prose behind code without fences makes an answer unparseable; a blank answer to the
  dependency manager is stored as an empty manifest.

*Providers.*

- `model_capabilities.py:4-7` promises requests without "runtime trial-and-error
  retries". For models outside the registry the clients do resend a request that was
  refused for its temperature; the second request is not counted as a call and
  neither cancellation nor budgets are looked at before it.
- The system role is sent to models that are declared not to support it.
- A malformed reply to Ollama's probe (`"models": null`, bytes that are not UTF-8)
  escapes `chat()` without a fallback. Anthropic's live probe does not look at the
  reply. A candidate without credentials ends the chat even if later ones are
  usable.

*Files.*

- Audits take no lock (`evidence.py:150`), so one that overlaps a save may report
  failed evidence. A snapshot is written in place and can be left truncated.
- A manifest that a crash tore, or that exists and cannot be read, counts as an empty
  one (`artifacts.py:84-89`). The call goes on, lists its own artifacts only and returns
  as usual; what earlier calls persisted is never audited again, although "artifact
  substitution is detectable" (`docs/evidence.md:34`).
- An artifact called `artifacts_manifest.json` is not refused (`artifacts.py:127-148`).
  It is written over the manifest, whose entries are lost; then the manifest is written
  over it, with an entry for itself whose digest is the artifact's, so that every audit
  fails from then on. `AuditIsExact` and `EntriesAreKept` say what remains.
- A bundle keeps artifacts under names of its own, so it cannot be audited like an
  output directory.

*Campaigns.*

- A campaign that dies between the last save of the project and `run_result.json`
  leaves an older row, which later campaigns report again: an execution error or
  "skipped", for a project that is completed and was never judged.
- With two repair cycles, the repair of a repair updates the first repair's payload
  and not the original's, and the older module is judged.
- `sys.exit` in a generated module ends the campaign, and the next one as well.
- Additional parameters with defaults make a service fail in `zip(strict=True)`,
  although the loop behind it means to tolerate them.
- The ladder of checks stops at the first failure, and batch processing, of the first
  lane, is near its end: nearly every failure is reported as
  "productivity_validation_failed". The safety lane fails for a missing artifact too.

## 8. Not modelled

- *Texts*: prompts, repair instructions, the wording of summaries, rendering of HTML
  and Markdown, totals of campaigns. Only where code reads a text back (suite
  summaries, reports of pytest, fences around answers) is it modelled, by what is
  found in it.
- *Verdicts about generated code* (`test_ast_analysis.py`,
  `module_ast_analysis.py`, most of `agents/qa_tester.py` and `repair_analysis.py`):
  pure functions of Python source that walk syntax trees and rewrite suites; their
  results are inputs of `OutputValidation`. This is about a third of the code.
- *The sandboxed processes*: they return a module's import or a pytest run, in
  any way that is told apart.
- *The services behind the clients*, but for the replies they can send.
- *Acceptance lanes of the workflow record*, and the filtering of the view that agents
  get of a project; the lanes of a campaign are modelled.
- *Threads on one state object*: it has no lock, and the repository uses it from one
  thread.
- *History limits that change during a run*, the hardening of permissions (a failing
  write like others), and hosts without `fcntl`.

## 9. Plan

Done: all components above that have modules, their runs, and the theorems of
section 6. Next, in order of importance:

1. An invariant for the versions of code behind `ContextsAreCurrent`.
2. The acceptance lanes of the workflow record, composed with `WorkflowViews`.
3. The loop of `qa_tester.py` that repairs a suite rule by rule: whether its passes
   reach a fixpoint on the facts that the rules test for.
