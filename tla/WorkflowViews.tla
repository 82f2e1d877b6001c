---------------------------- MODULE WorkflowViews ----------------------------
(***************************************************************************)
(* ProjectState (memory/project_state.py) under any order of legal calls of*)
(* its methods, with everything a reader of the project sees: the task     *)
(* histories, the recorded events, the provider calls of the tasks and the *)
(* views computed from them.                                               *)
(*                                                                         *)
(* WorkflowControl drives the same methods in the order of the control     *)
(* loop; here they are an interface, and each call is one step.            *)
(***************************************************************************)
EXTENDS AuditTrail

CONSTANTS
  FailureKinds,   \* the failures that can occur: [category, evidence]
  GoodCalls,      \* options: the calls with which a task may end well
  BadCalls,       \* options: the calls with which an attempt may fail
  OlderCalls,     \* options: calls as an older state file may hold them
  CycleBudget,    \* repair_max_cycles
  MaxInterventions   \* bound: how often somebody steps in

\* An option is a set of at most one call record; an attempt that ends well does
\* not end with a failed call, and a failure has a category.
ASSUME CallAssumption ==
  \A call \in GoodCalls \cup BadCalls \cup OlderCalls :
    IsOption(call) /\ \A c \in call : IsCall(c)
ASSUME GoodCallAssumption == \A call \in GoodCalls : \A c \in call : ~Failing(c)
ASSUME FailureAssumption ==
  \A kind \in FailureKinds :
    kind.category \in Categories \ {"none"} /\ kind.evidence \subseteq Evidence
ASSUME BoundAssumption == CycleBudget \in Nat /\ MaxInterventions \in Nat

VARIABLES
  project,   \* the project
  facts,     \* what of it ProjectState leaves out, and the views need
  noted,     \* task -> status and attempts of its last history entry
  trail,     \* task -> status of the last event about it
  batch,     \* the events recorded by the last call
  interventions   \* how often somebody stepped in

vars == <<project, facts, noted, trail, batch, interventions>>
p    == project
f    == facts

Fresh == [status |-> "pending", attempts |-> 0]
Noted(r) == [status |-> r.status, attempts |-> r.attempts]

NoFacts(T) ==
  [calls |-> [i \in T |-> {}], errors |-> [i \in T |-> FALSE],
   evaluation |-> {}, accepted |-> FALSE, resumed |-> << >>, cycles |-> << >>]

\* A project as it is created, or loaded from an older file in which one task
\* was already done.
Init ==
  /\ \/ /\ project = InitialProject
        /\ facts = NoFacts(DOMAIN project.tasks)
     \/ \E i \in DOMAIN InitialProject.tasks, call \in OlderCalls :
          /\ Ready(InitialProject, i)
          /\ project = [InitialProject EXCEPT !.tasks[i].status = "done",
                                              !.tasks[i].attempts = 1]
          /\ facts = [NoFacts(DOMAIN project.tasks) EXCEPT !.calls[i] = call]
  /\ noted = [i \in DOMAIN project.tasks |-> Noted(project.tasks[i])]
  /\ trail = [i \in DOMAIN project.tasks |-> project.tasks[i].status]
  /\ batch = << >>
  /\ interventions = 0

-----------------------------------------------------------------------------
(* What a call of a method writes: the project q, the facts g, the events,  *)
(* and a history entry for each task of S.                                 *)

IsTaskEvent(e) == e.event \notin
  {"workflow_started", "workflow_finished", "workflow_progress", "workflow_paused",
   "workflow_resumed", "workflow_cancelled", "workflow_repair_cycle_started",
   "workflow_replayed", "policy_enforcement"}

\* A reader who follows the events about each task
Followed(q, events) ==
  LET About(i)  == {k \in DOMAIN events : IsTaskEvent(events[k]) /\ events[k].task = i}
      restarted == \E k \in DOMAIN events : events[k].event = "workflow_replayed"
  IN  [i \in DOMAIN q.tasks |->
         IF About(i) # {} THEN events[Max(About(i))].status
         ELSE IF restarted \/ i \notin DOMAIN trail THEN "pending" ELSE trail[i]]

Spread(g, q) ==
  [g EXCEPT !.calls  = [i \in DOMAIN q.tasks |-> IF i \in DOMAIN @ THEN @[i] ELSE {}],
            !.errors = [i \in DOMAIN q.tasks |-> IF i \in DOMAIN @ THEN @[i] ELSE FALSE]]

Do(q, g, events, S) ==
  /\ project' = q
  /\ facts' = Spread(g, q)
  /\ batch' = events
  /\ trail' = Followed(q, events)
  /\ noted' = [i \in DOMAIN q.tasks |->
                 IF i \in S THEN Noted(q.tasks[i])
                 ELSE IF i \in DOMAIN noted THEN noted[i] ELSE Fresh]

WithCalls(g, S, call)   == [g EXCEPT !.calls  = [i \in DOMAIN @ |-> IF i \in S THEN call ELSE @[i]]]
WithErrors(g, S, there) == [g EXCEPT !.errors = [i \in DOMAIN @ |-> IF i \in S THEN there ELSE @[i]]]

\* mutant: the call of the last attempt survives
Cleared_Kept(g, S) == WithErrors(g, S, TRUE)

\* Every method that skips or requeues a task notes why and drops its call.
Cleared(g, S) == WithErrors(WithCalls(g, S, {}), S, TRUE)

\* last_provider_call as it is stored
Stored(call)   == {Strict(c) : c \in call}
Origins(i)     == IF HasOrigin(p, i) THEN {Origin(i)} ELSE {}
Resumed(g, reason, ids) == [g EXCEPT !.resumed = Append(@, [reason |-> reason, tasks |-> ids])]

Tasks == DOMAIN p.tasks

-----------------------------------------------------------------------------
(* Tasks                                                                   *)

Start(i) ==
  /\ p.phase = "execution" /\ Ready(p, i)
  /\ LET q == StartTask(p, i)
     IN  Do(q, WithErrors(f, {i}, FALSE), StartEvents(p, q, i), {i} \cup Origins(i))

Fail(i, kind, call) ==
  /\ p.tasks[i].status = "running"
  /\ LET q == FailTask(p, i, kind.category, kind.evidence)
         S == {i} \cup Origins(i)
     IN  Do(q, WithErrors(WithCalls(f, S, Stored(call)), S, TRUE),
            FailEvents(p, q, i, kind.category, call), S)

Complete(i, call) ==
  /\ p.tasks[i].status = "running"
  /\ LET q     == CompleteTask(p, i)
         S     == {i} \cup Origins(i)
         swept == IF HasOrigin(p, i) THEN Superseded(p, q) ELSE {}
     IN  Do(q, Cleared(WithErrors(WithCalls(f, S, Stored(call)), S, FALSE), swept),
            CompleteEvents(p, q, i, call), S \cup swept)

\* skip_task and override_task take a task in any status.
Skip(i) ==
  LET q == SkipTask(p, i, "manual")
  IN  Do(q, Cleared(f, {i}), SkipEvents(q, {i}), {i})

SkipBehind(i) ==
  /\ p.tasks[i].status = "failed"
  /\ LET doomed == Descendants(p, i) \cap Pending(p)
         q == SkipDependents(p, i)
     IN  /\ doomed # {}
         /\ Do(q, Cleared(f, doomed), SkipEvents(q, doomed), doomed)

Override(i) ==
  LET q == OverrideTask(p, i)
  IN  Do(q, WithErrors(WithCalls(f, {i}, {}), {i}, FALSE), OverrideEvents(q, i), {i})

SkipServed ==
  LET q == SkipSuperseded(p) IN
  /\ Superseded(p, q) # {}
  /\ Do(q, Cleared(f, Superseded(p, q)), SupersededEvents(p, q), Superseded(p, q))

-----------------------------------------------------------------------------
(* The workflow                                                            *)

Run ==
  /\ p.phase # "execution" /\ ~Paused(p) /\ ~Cancelled(p)
  /\ LET q == MarkRunning(p, CycleBudget)
     IN  Do(q, [f EXCEPT !.evaluation = {}, !.accepted = FALSE], WorkflowStarted(q), {})

\* record_workflow_progress is called after an attempt has ended.
Report(i) ==
  /\ \E k \in DOMAIN batch :
       /\ batch[k].task = i
       /\ batch[k].event \in {"task_completed", "task_failed", "task_retry_scheduled"}
  /\ Do(p, f, WorkflowProgressed(p, i), {})

\* evaluate_workflow_acceptance and _cancelled_acceptance_evaluation list the tasks.
Evaluation(q) ==
  [reason |-> "plain",
   tasks |-> [evaluated |-> DOMAIN q.tasks,
              required  |-> {i \in DOMAIN q.tasks : ~IsLineage(i) /\ i[1] \in Required},
              completed |-> WithStatus(q, {"done"}), failed |-> WithStatus(q, {"failed"}),
              skipped   |-> WithStatus(q, {"skipped"}),
              pending   |-> WithStatus(q, {"pending", "running"})]]

Finish ==
  /\ p.phase = "execution" /\ WithStatus(p, {"running"}) = {}
  /\ \E failure \in {p.tasks[i].category : i \in WithStatus(p, {"failed"})}
                    \cup (IF Terminal(p) = Tasks /\ WithStatus(p, {"failed"}) = {}
                          THEN {"none"} ELSE {}) :
       LET good == failure = "none"
           q == MarkFinished(p, IF good THEN "completed" ELSE "failed",
                             IF good THEN "completed" ELSE "failed", failure)
           g == [f EXCEPT !.evaluation = {Evaluation(p)}, !.accepted = good]
           culprits == IF good THEN {} ELSE Culprits(p, f, failure)
       IN  IF culprits = {}
             THEN Do(q, g, WorkflowFinished(q, g, {}), {})
             ELSE \E i \in culprits : Do(q, g, WorkflowFinished(q, g, {i}), {})

Pause ==
  /\ CanPause(p) /\ ~Paused(p)
  /\ LET q == PauseProject(p) IN Do(q, f, WorkflowPaused(q), {})

Resume ==
  /\ Paused(p)
  /\ LET q == ResumeProject(p)
     IN  Do(q, Resumed(f, "paused_workflow", {}), WorkflowResumed(q, {}), {})

Cancel ==
  /\ CanCancel(p)
  /\ LET q == CancelProject(p)
         g == [Cleared(f, Pending(p)) EXCEPT !.evaluation = {Evaluation(q)}, !.accepted = FALSE]
     IN  Do(q, g, CancelEvents(p, q, g), Pending(p))

Replay ==
  /\ CanReplay(p)
  /\ LET q == ReplayProject(p)
     IN  Do(q, [NoFacts(DOMAIN q.tasks) EXCEPT !.resumed = f.resumed],
            ReplayEvents(p, q), DOMAIN q.tasks)

\* After an interrupted execution
Recover ==
  LET left == WithStatus(p, {"running"})
      q    == ResumeInterrupted(p)
  IN  /\ left # {}
      /\ Do(q, Resumed(Cleared(f, left), "interrupted_tasks", left),
            ResumedEvents(q, left) \o WorkflowResumed(q, left), left)

\* start_repair_cycle, the planning of the cycle, and resume_failed_tasks
Repair ==
  LET F == FailedForRepair(p)
      c == p.cycles + 1
      started == StartCycle(p)
      planned == PlanRepairs(started, F, c)
      q       == ResumeFailed(planned, F, CycleIds(p, F, c))
      freed   == {i \in Tasks : p.tasks[i].status # "pending" /\ q.tasks[i].status = "pending"}
      ids     == freed \cup CycleIds(p, F, c)
      created == {Origin(i) : i \in {r \in CycleIds(p, F, c) \ Tasks : IsRepair(r)}}
      g       == [f EXCEPT !.cycles = Append(@,
                    [reason |-> "resume_failed_tasks", failed |-> F,
                     category |-> p.tasks[CHOOSE i \in F : TRUE].category])]
  IN  /\ F # {} /\ CanStartCycle(p)
      /\ ~Cancelled(p)
      /\ Do(q, Resumed(Cleared(Spread(g, q), freed), "failed_workflow", ids),
            CycleStarted(started, F) \o PlanEvents(started, planned, F, c, f)
              \o RequeuedEvents(q, freed) \o WorkflowResumed(q, ids),
            freed \cup created)

\* The control loop at work
Work ==
  \/ \E i \in Tasks :
       \/ Start(i) \/ SkipBehind(i) \/ Report(i)
       \/ \E kind \in FailureKinds, call \in BadCalls : Fail(i, kind, call)
       \/ \E call \in GoodCalls : Complete(i, call)
  \/ SkipServed \/ Run \/ Finish \/ Resume \/ Repair

\* Somebody, or an interruption of the process
Intervention ==
  \/ \E i \in Tasks : Skip(i) \/ Override(i)
  \/ Pause \/ Cancel \/ Replay \/ Recover

Next ==
  \/ Work /\ UNCHANGED interventions
  \/ /\ Intervention /\ interventions < MaxInterventions
     /\ interventions' = interventions + 1

Spec == Init /\ [][Next]_vars

-----------------------------------------------------------------------------
(* What a reader may rely on                                               *)

\* Reading only the recorded events, or only the histories, one knows the status
\* of every task: no method changes a task without a trace (project_state.py,
\* every method that records).  A call that a task shows is the one of the
\* outcome it shows: none for a task that was skipped or sent back to start
\* over, and not a failed one for a task that is done (or one that an older file
\* came with).  A task that waits for a retry still shows its last failure.
TrailIsComplete ==
  \A i \in Tasks :
    LET r == p.tasks[i] IN
    /\ trail[i] = r.status
    /\ noted[i] = Noted(r)
    /\ r.status = "skipped" => f.calls[i] = {} /\ f.errors[i]
    /\ r.status = "failed" => f.errors[i]
    /\ r.status = "done" => \A c \in f.calls[i] : Failing(c) => c \in UNION OlderCalls
    /\ r.status = "pending" /\ f.calls[i] # {} => r.category # "none" /\ f.errors[i]

\* The public view tells of each count of the internal one whether it is zero, or
\* whether it is more than one (_workflow_telemetry_summary and
\* _internal_workflow_telemetry_summary count in passes of their own).  Only a
\* duration may be public that is not in the internal view: the latency.
SameFacts(v, w) ==
  /\ v.statuses = Known(w.statuses)
  /\ v.called = (w.called > 0) /\ v.uncalled = (w.uncalled > 0)
  /\ v.tasks = (w.tasks > 1)
  /\ v.final = (Cardinality(w.final) > 1) /\ v.observed = (Cardinality(w.observed) > 1)
  /\ v.attempts = (w.attempts > 0) /\ v.retries = (w.retries > 0)
  /\ v.usage = DOMAIN w.usage
  /\ w.duration.count > 0 => v.duration.some
  /\ w.duration.count > 1 => v.duration.several
  /\ v.errors = [final |-> w.errors.final > 0, fallback |-> w.errors.fallback > 0]
  /\ v.fallback.entries = (w.fallback.entries > 0)
  /\ v.acceptance.accepted = w.acceptance.accepted
  /\ v.acceptance.reason = Present(w.acceptance.reason)
  /\ v.resumes.events = (w.resumes.events > 1)
  /\ v.resumes.unique => v.resumes.tasks
  /\ v.repairs.left = w.repairs.left
  /\ v.repairs.entries = (w.repairs.entries > 1)
  /\ v.repairs.failed = (w.repairs.failed > 0)
  /\ DOMAIN v.providers = DOMAIN w.providers
  /\ \A q \in DOMAIN v.providers :
       LET public == v.providers[q]
           internal == w.providers[q]
       IN  /\ public.failures = (internal.failures > 0)
           /\ public.successes = (internal.successes > 0)
           /\ public.retries = (internal.retries > 0)
  /\ \A q \in DOMAIN v.health :
       LET public == v.health[q]
           internal == w.health[q]
       IN  /\ public.statuses = Known(internal.statuses)
           /\ public.retryable = (internal.retryable > 0)

Cleaned(g) == [g EXCEPT !.calls = [i \in DOMAIN @ |-> Stored(@[i])]]

ShownTexts(c) ==
  {c.error, c.message, c.reason}
    \cup UNION {{e.error : e \in Elements(h)} : h \in c.history \cup {c.fallback}}

\* Cleaning a record twice changes nothing, no mode lets a credential through, and
\* the counters of an earlier version become the flags that this one would have
\* written.
CleansWell(c) ==
  /\ Strict(Audit(c)) = Strict(c) /\ Audit(Strict(c)) = Strict(c)
  /\ "secret" \notin ShownTexts(Audit(c))
  /\ ShownTexts(Strict(c)) \subseteq {"none", "flag"}
  /\ \A n \in c.counters :
       BudgetSummary(c) = BudgetFlags(n.perAgent, n.max, n.perAgent - n.left,
                            [q \in DOMAIN n.max |-> n.max[q] - n.leftOf[q]])
  /\ \A k \in c.clock : \A left \in k.left : CleanElapsed(c) = ElapsedFlags(k.max, k.max - left)

\* A task has at most as many retries as attempts, and as many only if it has none,
\* or if every attempt failed in a way that passes: then the last of them counts as
\* a retry too, though nothing was tried after it (_provider_retry_attempt_count).
CountsWell(told, c) ==
  /\ told.retries <= told.attempts
  /\ told.retries = told.attempts /\ told.attempts > 0 =>
       \E h \in c.history : \A k \in DOMAIN h : ~h[k].success /\ h[k].retryable

\* The progress is that of the graph.
ProgressIsTrue(shown) ==
  /\ shown.all => ~shown.runnable /\ ~shown.blocked /\ ~shown.running
  /\ ~shown.pending /\ ~shown.running => (shown.all <=> Tasks # {})
  /\ shown.terminal <=> \E i \in Tasks : p.tasks[i].status \notin {"pending", "running"}

\* A failed task tells of what it failed, and one that could be tried again is
\* failed because its repair is.
FailureIsTold(i, result) ==
  \A failure \in result.failure :
    /\ failure.category # "none" /\ result.error
    /\ failure.retryable => \E j \in Tasks : Repairs(j, i)

\* The views agree with each other and with the graph, and do not depend on
\* whether a record was cleaned before it was stored, as new ones are, or is only
\* cleaned when it is read, as those of older files (providers/base.py).
ViewsAgree ==
  /\ SameFacts(PublicView(p, f), InternalView(p, f))
  /\ Cleaned(f) = f \/ PublicView(p, Cleaned(f)) = PublicView(p, f)
  /\ \A i \in Called(f) :
       CleansWell(Call(f, i)) /\ CountsWell(TaskTelemetry(p, f, i), Call(f, i))
  /\ ProgressIsTrue(Progress(p))
  /\ \A i \in Tasks : FailureIsTold(i, TaskResult(p, f, i))

\* What could carry a text of a task, a failure or an artifact
Sensitive ==
  {"error_message", "failure_message", "message", "failed_output", "existing_tests",
   "failed_artifact_content", "instruction", "validation_summary", "helper_surface_usages",
   "error_type", "failure_error_type", "provider_call", "task_ids", "failure_task_id"}

\* A snapshot publishes no such text of an event, yet tells of each that there is
\* one (_redacted_execution_event and the _public_* details of project_state.py).
EventsHideTexts ==
  \A k \in DOMAIN batch :
    LET e == batch[k]
        shown == Published(e)
        there == {x \in DOMAIN e.details \cap Sensitive : e.details[x] # "none"}
    IN  /\ DOMAIN shown.kept \cap Sensitive = {}
        /\ \A x \in there : <<x, "present">> \in shown.flags
        /\ {y[1] : y \in shown.flags} \subseteq {x \in DOMAIN e.details : e.details[x] # "none"}
=============================================================================
