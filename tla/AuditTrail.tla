------------------------------ MODULE AuditTrail ------------------------------
(***************************************************************************)
(* The events that the methods of memory/project_state.py record, and what *)
(* a snapshot publishes of them (_redacted_execution_event).               *)
(*                                                                         *)
(* An event's details map a field to a token: "none" for an empty value    *)
(* (or the number 0), "plain" and "other" for two values that a reader     *)
(* could tell apart, "one" and "many" for lists and counts, and for a field*)
(* that is published as it is, its value.  Sequences, hashes and timestamps*)
(* are in EventChain.                                                      *)
(***************************************************************************)
EXTENDS RepairPlanning, WorkflowTelemetry, SequencesExt

If(there, token) == IF there THEN token ELSE "none"
Number(n)        == If(n > 0, "plain")
Listed(S)        == If(S # {}, IF Cardinality(S) = 1 THEN "one" ELSE "many")

\* The details d and, where they say nothing, the details e.  (This is @@ of module
\* TLC, whose definition the proofs cannot use.)
With(d, e) ==
  [x \in DOMAIN d \cup DOMAIN e |-> IF x \in DOMAIN d THEN d[x] ELSE e[x]]

\* _record_execution_event: an event that carries a call says what of the
\* call's budget was used.
Event(name, task, status, details) ==
  [event |-> name, task |-> task, status |-> status,
   details |-> With(details, [provider_budget |->
     If("provider_call" \in DOMAIN details /\ details["provider_call"] # "none", "budget")])]

\* An event about a task, recorded after the project became q
TaskEvent(name, q, i, details)  == <<Event(name, i, q.tasks[i].status, details)>>
WorkflowEvent(name, q, details) == <<Event(name, NoTask, q.phase, details)>>

\* The events lists[x] of each x, one after the other in some order
ForEach(lists) ==
  LET order == SetToSeq(DOMAIN lists)
  IN  FlattenSeq([k \in 1..Cardinality(DOMAIN lists) |-> lists[order[k]]])

-----------------------------------------------------------------------------
(* Events of the task life cycle, from the project p to the project q      *)

RepairDetails(i) == [repair_task_id |-> "plain", repair_attempt |-> "plain",
                     assigned_to |-> "plain"]

\* start_task and _sync_repair_origin_start
StartEvents(p, q, i) ==
  TaskEvent("task_started", q, i, [attempts |-> Number(q.tasks[i].attempts), assigned_to |-> "plain"])
  \o IF HasOrigin(p, i) THEN TaskEvent("task_repair_started", q, Origin(i), RepairDetails(i))
     ELSE << >>

\* _policy_area_for_category and _record_policy_enforcement_event.  (Failures of a
\* dependency manifest, the other policy area, are not told apart here.)
PolicyAreas(category) == IF category = "sandbox" THEN {"sandbox"} ELSE {}
PolicyEvents(category, source, task, status, details) ==
  ForEach([area \in PolicyAreas(category) |->
    <<Event("policy_enforcement", task, status,
            With(details, [policy_area |-> area, source_event |-> source,
                           failure_category |-> category]))>>])

\* fail_task and _sync_repair_origin_failure
FailEvents(p, q, i, category, call) ==
  LET retried == q.tasks[i].status = "pending"
      name    == IF retried THEN "task_retry_scheduled" ELSE "task_failed"
      called  == If(call # {}, "plain")
      Common  == [attempts |-> Number(q.tasks[i].attempts), error_type |-> "plain",
                  error_category |-> "plain", provider_call |-> called,
                  last_attempt_duration_ms |-> "plain"]
  IN  PolicyEvents(category, name, i, q.tasks[i].status,
         [message |-> "plain", error_type |-> "plain", provider_call |-> called,
          retryable |-> IF retried THEN "true" ELSE "false"])
      \o TaskEvent(name, q, i,
           With(Common, IF retried THEN [retry_limit |-> Number(RetryLimit[i[1]])]
                        ELSE [error_message |-> "plain"]))
      \o IF HasOrigin(p, i)
           THEN TaskEvent(IF retried THEN "task_repair_retry_scheduled" ELSE "task_repair_failed",
                  q, Origin(i), [repair_task_id |-> "plain", repair_attempt |-> "plain",
                                 error_type |-> "plain", error_category |-> "plain"])
           ELSE << >>

\* The pending repairs that a completed repair makes superfluous
Superseded(p, q) == {j \in Pending(p) : q.tasks[j].skip = "superseded_repair"}

\* mutant: the task that was repaired is changed without a trace
CompleteEvents_Silent(p, q, i, call) ==
  TaskEvent("task_completed", q, i,
    [attempts |-> Number(q.tasks[i].attempts), assigned_to |-> "plain",
     provider_call |-> If(call # {}, "plain"), execution_mode |-> "provider",
     last_attempt_duration_ms |-> "plain", task_duration_ms |-> "plain"])

\* complete_task and _sync_repair_origin_completion
CompleteEvents(p, q, i, call) ==
  TaskEvent("task_completed", q, i,
    [attempts |-> Number(q.tasks[i].attempts), assigned_to |-> "plain",
     provider_call |-> If(call # {}, "plain"),
     execution_mode |-> IF call # {} THEN "provider" ELSE "deterministic",
     last_attempt_duration_ms |-> "plain", task_duration_ms |-> "plain"])
  \o IF ~HasOrigin(p, i) THEN << >>
     ELSE TaskEvent("task_repaired", q, Origin(i), RepairDetails(i))
          \o ForEach([j \in Superseded(p, q) |->
               TaskEvent("task_repair_superseded", q, j,
                 [repair_origin_task_id |-> "plain", repair_task_id |-> "plain"])])

\* skip_superseded_pending_repairs
SupersededEvents(p, q) ==
  ForEach([j \in Superseded(p, q) |->
    TaskEvent("task_repair_superseded", q, j, [repair_origin_task_id |-> "plain"])])

Because(name, q, i) == TaskEvent(name, q, i, [reason |-> "plain"])

\* skip_task and skip_dependent_tasks, override_task, cancel_workflow's tasks,
\* and the tasks of resume_interrupted_tasks and resume_failed_tasks
SkipEvents(q, S)      == ForEach([i \in S |-> Because("task_skipped", q, i)])
OverrideEvents(q, i)  == Because("task_overridden", q, i)
ResumedEvents(q, S)   == ForEach([i \in S |-> Because("task_resumed", q, i)])
RequeuedEvents(q, S)  == ForEach([i \in S |-> Because("task_requeued", q, i)])

-----------------------------------------------------------------------------
(* Events of the workflow life cycle                                       *)

\* _record_workflow_resumed
WorkflowResumed(q, ids) ==
  WorkflowEvent("workflow_resumed", q, [reason |-> "plain", task_ids |-> Listed(ids)])

WorkflowPaused(q) == WorkflowEvent("workflow_paused", q, [reason |-> "plain"])

\* mark_workflow_running
WorkflowStarted(q) ==
  WorkflowEvent("workflow_started", q,
    [repair_cycle_count |-> Number(q.cycles), repair_max_cycles |-> Number(q.budget)])

\* record_workflow_progress: the status of the event is the phase
WorkflowProgressed(q, i) ==
  <<Event("workflow_progress", i, q.phase, [task_status |-> q.tasks[i].status])>>

\* _terminal_failure_context: of the tasks with the category of the failure, one
\* with the latest completed_at.  A task that will be retried has none.
Culprits(p, f, failure) ==
  LET matching == {i \in DOMAIN p.tasks : p.tasks[i].category = failure}
  IN  {i \in matching : \A j \in matching : p.tasks[j].status = "failed" => p.tasks[i].status = "failed"}

\* mark_workflow_finished, blaming the tasks of culprit (at most one)
FinishedDetails(f, culprit) ==
  LET called == \E i \in culprit : f.calls[i] # {} IN
  [failure_task_id |-> If(culprit # {}, "plain"), failure_message |-> If(culprit # {}, "plain"),
   failure_error_type |-> If(culprit # {}, "plain"), provider_call |-> If(called, "plain")]
WorkflowFinished(q, f, culprit) ==
  (IF q.failure \notin Categories THEN << >>
   ELSE PolicyEvents(q.failure, "workflow_finished",
          IF culprit = {} THEN NoTask ELSE The(culprit), q.phase,
          [message |-> If(culprit # {}, "plain"), error_type |-> If(culprit # {}, "plain"),
           provider_call |-> FinishedDetails(f, culprit).provider_call,
           terminal_outcome |-> q.outcome]))
  \o WorkflowEvent("workflow_finished", q,
       With(FinishedDetails(f, culprit),
            [workflow_duration_ms |-> If(q.started, "plain"), acceptance_policy |-> "plain",
             terminal_outcome |-> q.outcome, failure_category |-> q.failure,
             acceptance_criteria_met |-> "plain", acceptance_evaluation |-> "public"]))

\* cancel_workflow
CancelEvents(p, q, f) ==
  ForEach([i \in Pending(p) |-> Because("task_cancelled", q, i)])
  \o WorkflowFinished(q, f, {})
  \o WorkflowEvent("workflow_cancelled", q,
       [reason |-> "plain", cancelled_task_ids |-> Listed(Pending(p)),
        terminal_outcome |-> q.outcome])

\* replay_workflow
ReplayEvents(p, q) ==
  WorkflowEvent("workflow_replayed", q,
    [reason |-> "plain", replayed_task_ids |-> Listed(DOMAIN q.tasks),
     removed_task_ids |-> Listed(DOMAIN p.tasks \ DOMAIN q.tasks)])

\* start_repair_cycle
CycleStarted(q, F) ==
  WorkflowEvent("workflow_repair_cycle_started", q,
    [cycle |-> "number", reason |-> "plain", failure_category |-> "plain",
     failed_task_ids |-> Listed(F), budget_remaining |-> Number(BudgetLeft(q))])

\* _plan_task_repair: the details are the context (build_repair_context, or
\* build_code_repair_context_from_test_failure for blamed code)
ContextDetails(p, F, x, called) ==
  LET own   == [cycle |-> "number", failure_category |-> "validation",
                failure_message |-> "plain", failure_error_type |-> "plain",
                instruction |-> "plain", repair_owner |-> "plain",
                original_assigned_to |-> "plain", failed_output |-> "plain",
                validation_summary |-> "plain", failed_artifact_content |-> "plain",
                provider_call |-> If(called, "plain")]
      suite == [source_failure_task_id |-> "plain", existing_tests |-> "plain",
                source_failure_category |-> "validation"]
      used  == [helper_surface_usages |-> "plain", helper_surface_symbols |-> "plain"]
  IN  IF x \in BlamedCode(p, F) THEN With(own, suite)
      ELSE IF RoleOf(x) = "qa_tester" /\ p.tasks[x].category = "validation" THEN With(own, used)
      ELSE own

\* configure_repair_attempts records a plan for every target; then
\* repair_task_ids_for_cycle creates the tasks that are new.
PlanEvents(p, q, F, c, f) ==
  LET new == CycleIds(p, F, c) \ DOMAIN p.tasks
      plans   == new \cap PlanIds(p, F, c)
      repairs == new \cap RepairIds(p, F, c)
  IN  ForEach([x \in Targets(p, F) |->
        TaskEvent("task_repair_planned", p, x, ContextDetails(p, F, x, f.calls[x] # {}))])
      \o ForEach([i \in plans |-> TaskEvent("task_budget_decomposition_created", q, i,
           [decomposition_target_task_id |-> "plain", repair_attempt |-> "plain",
            assigned_to |-> "plain"])])
      \o ForEach([i \in repairs |->
           TaskEvent("task_repair_created", q, i,
             [repair_origin_task_id |-> "plain", repair_attempt |-> "plain", assigned_to |-> "plain"])
           \o TaskEvent("task_requeued", q, Origin(i),
             [reason |-> "plain", repair_task_id |-> "plain"])])

-----------------------------------------------------------------------------
(* What a snapshot publishes                                               *)

Calling  == {"provider_call"}
Timing   == {"last_attempt_duration_ms", "task_duration_ms"}
Blaming  == {"error_type", "error_category"}
Reason   == {"reason"}
Repairing == {"repair_attempt", "assigned_to", "repair_task_id"}

\* The fields of which an event publishes only that they were there, for the
\* events about the workflow,
WorkflowFields(name) ==
  CASE name = "workflow_paused"    -> Reason
    [] name = "workflow_resumed"   -> Reason \cup {"task_ids"}
    [] name = "workflow_cancelled" -> Reason \cup {"cancelled_task_ids"}
    [] name = "workflow_replayed"  -> Reason \cup {"replayed_task_ids", "removed_task_ids"}
    [] name = "workflow_repair_cycle_started" ->
         Reason \cup {"failure_category", "failed_task_ids", "budget_remaining"}
    [] OTHER -> {}

\* for attempts of tasks,
\* mutant: the message of a failure is left in place
AttemptFields_WithMessage(name) ==
  CASE name = "task_started"   -> {"attempts", "assigned_to"}
    [] name = "task_completed" -> {"attempts", "assigned_to"} \cup Timing \cup Calling
    [] name = "task_retry_scheduled" ->
         {"attempts", "retry_limit"} \cup Timing \cup Blaming \cup Calling
    [] name = "task_failed"    -> {"attempts"} \cup Timing \cup Blaming \cup Calling
    [] OTHER -> {}
AttemptFields(name) ==
  CASE name = "task_started"   -> {"attempts", "assigned_to"}
    [] name = "task_completed" -> {"attempts", "assigned_to"} \cup Timing \cup Calling
    [] name = "task_retry_scheduled" ->
         {"attempts", "retry_limit"} \cup Timing \cup Blaming \cup Calling
    [] name = "task_failed" ->
         {"attempts", "error_message"} \cup Timing \cup Blaming \cup Calling
    [] OTHER -> {}

\* for repairs and decisions about tasks,
RepairFields(name) ==
  CASE name \in {"task_cancelled", "task_overridden"} -> Reason
    [] name = "task_requeued" -> Reason \cup {"repair_task_id"}
    [] name = "task_repair_created" ->
         {"repair_attempt", "assigned_to", "repair_origin_task_id"}
    [] name = "task_budget_decomposition_created" ->
         {"repair_attempt", "assigned_to", "decomposition_target_task_id"}
    [] name \in {"task_repair_started", "task_repaired"} -> Repairing
    [] name \in {"task_repair_failed", "task_repair_retry_scheduled"} ->
         {"repair_attempt", "repair_task_id"} \cup Blaming
    [] OTHER -> {}

\* for what ends a workflow, or tells how it gets on,
OutcomeFields(name) ==
  CASE name = "policy_enforcement" -> {"message", "error_type"} \cup Calling
    [] name = "workflow_progress"  -> {"task_status"}
    [] name = "workflow_finished" ->
         {"workflow_duration_ms", "failure_task_id", "failure_message",
          "failure_error_type"} \cup Calling
    [] OTHER -> {}

\* and for the context of a repair.
ContextFields ==
  {"source_failure_task_id", "budget_decomposition_plan_task_id",
   "decomposition_target_task_id", "failure_message", "failure_error_type",
   "failed_artifact_content", "validation_summary", "existing_tests", "instruction",
   "repair_owner", "original_assigned_to", "helper_surface_usages",
   "helper_surface_symbols", "decomposition_mode", "decomposition_target_agent",
   "decomposition_failure_category", "failed_output"} \cup Calling

Minimized(name) ==
  WorkflowFields(name) \cup AttemptFields(name) \cup RepairFields(name)
    \cup OutcomeFields(name) \cup (IF name = "task_repair_planned" THEN ContextFields ELSE {})

\* Events published as they are stored
AsStored == {"workflow_started", "task_skipped", "task_resumed", "task_repair_superseded"}

\* Events whose public details are a copy without some fields; the details of the
\* other ones are built from nothing and keep what is listed.
Dropped(name) ==
  CASE name \in {"task_started", "workflow_progress", "task_repair_planned"} -> {"provider_budget"}
    [] name = "workflow_finished" ->
         {"acceptance_policy", "terminal_outcome", "failure_category", "acceptance_criteria_met"}
    [] OTHER -> {}
Copied ==
  {"task_started", "task_retry_scheduled", "task_completed", "task_failed", "workflow_finished",
   "policy_enforcement", "workflow_progress", "task_repair_planned"}
Listing(name) ==
  CASE name = "workflow_cancelled" -> {"terminal_outcome"}
    [] name = "workflow_repair_cycle_started" -> {"cycle"}
    [] OTHER -> {}

\* Lists and counts also tell whether they have several elements.
Plural == {"task_ids", "cancelled_task_ids", "replayed_task_ids", "removed_task_ids"}

\* A flag is named by the field it stands for and by what it tells of it.
Published(e) ==
  LET d      == e.details
      fields == DOMAIN d
      stay   == IF e.event \in AsStored THEN fields
                ELSE IF e.event \in Copied THEN fields \ (Minimized(e.event) \cup Dropped(e.event))
                ELSE fields \cap Listing(e.event)
      hidden == {x \in fields \cap Minimized(e.event) : d[x] # "none"}
  IN  [event |-> e.event, task |-> e.task, status |-> e.status,
       kept  |-> [x \in stay |-> d[x]],
       flags |-> {<<x, "present">> : x \in hidden}
                   \cup {<<x, "several">> : x \in {y \in hidden \cap Plural : d[y] = "many"}}]
=============================================================================
