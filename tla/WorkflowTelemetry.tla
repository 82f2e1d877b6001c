-------------------------- MODULE WorkflowTelemetry --------------------------
(***************************************************************************)
(* The views of a project: the internal telemetry, the public telemetry    *)
(* and the public task results of memory/project_state.py.  The code       *)
(* computes the internal and the public telemetry in two passes of their   *)
(* own: one counts and names, the other tells only what is there.          *)
(*                                                                         *)
(* A view is computed from the project p and from the facts that           *)
(* ProjectState leaves out: calls (last_provider_call of each task),       *)
(* evaluation (acceptance_evaluation), resumed (the workflow_resumed       *)
(* events) and cycles (repair_history).                                    *)
(***************************************************************************)
EXTENDS ProjectState, CallRecords

Named(S) == S \ {Blank}

\* How many elements have each value of the function F
CountBy(F) == [v \in {F[x] : x \in DOMAIN F} |-> Cardinality({x \in DOMAIN F : F[x] = v})]
Known(counts)    == DOMAIN counts

\* The sum of the values of the function F
SumOf(F) == MapThenSumSet(LAMBDA x : F[x], DOMAIN F)

-----------------------------------------------------------------------------
(* Parts that both views have                                              *)

RunnableTasks(p) == IF Paused(p) \/ Cancelled(p) THEN {} ELSE Runnable(p)
BlockedTasks(p)  == {i \in Pending(p) : ~Ready(p, i)}

\* mutant: a failed task does not count as terminal
Terminal_Failures(p) == WithStatus(p, {"done", "skipped"})
Terminal(p) == WithStatus(p, {"done", "failed", "skipped"})

\* _progress_summary; a task graph that cannot be ordered has only blocked tasks
Progress(p) ==
  LET ordered == PlanIsValid(p) IN
  [pending  |-> Pending(p) # {},
   running  |-> WithStatus(p, {"running"}) # {},
   runnable |-> ordered /\ RunnableTasks(p) # {},
   blocked  |-> IF ordered THEN BlockedTasks(p) # {} ELSE Pending(p) # {},
   terminal |-> Terminal(p) # {},
   all      |-> DOMAIN p.tasks # {} /\ Terminal(p) = DOMAIN p.tasks]

\* _internal_acceptance_evaluation and _public_acceptance_evaluation
InternalAcceptance(p, f) ==
  [accepted |-> f.accepted, outcome |-> p.outcome, failure |-> p.failure,
   reason |-> IF f.evaluation = {} THEN "none" ELSE Redact(The(f.evaluation).reason),
   tasks |-> IF f.evaluation = {} THEN << >> ELSE The(f.evaluation).tasks]
PublicAcceptance(p, f) ==
  [accepted |-> f.accepted, outcome |-> p.outcome, failure |-> p.failure,
   reason |-> \E e \in f.evaluation : Present(e.reason),
   tasks |-> {kind \in {"evaluated", "required", "completed", "failed", "skipped", "pending"} :
                \E e \in f.evaluation : e.tasks[kind] # {}}]

\* _internal_resume_summary and _resume_summary
ResumedIds(f) == UNION {r.tasks : r \in Elements(f.resumed)}
ResumedCount(f) == SumOf([k \in DOMAIN f.resumed |-> Cardinality(f.resumed[k].tasks)])
InternalResumes(f) ==
  [events  |-> Len(f.resumed),
   reasons |-> CountBy([k \in DOMAIN f.resumed |-> f.resumed[k].reason]),
   tasks   |-> ResumedCount(f),
   unique  |-> Cardinality(ResumedIds(f))]
PublicResumes(f) ==
  [events  |-> Len(f.resumed) > 1,
   reasons |-> Cardinality({r.reason : r \in Elements(f.resumed)}) > 1,
   tasks   |-> ResumedCount(f) > 1,
   unique  |-> Cardinality(ResumedIds(f)) > 1]

\* _internal_repair_summary and _repair_summary
BudgetLeft(p) == IF p.budget > p.cycles THEN p.budget - p.cycles ELSE 0
InternalRepairs(p, f) ==
  [cycles     |-> p.cycles, max |-> p.budget, left |-> BudgetLeft(p),
   entries    |-> Len(f.cycles),
   reasons    |-> CountBy([k \in DOMAIN f.cycles |-> f.cycles[k].reason]),
   categories |-> CountBy([k \in DOMAIN f.cycles |-> f.cycles[k].category]),
   failed     |-> Cardinality(UNION {c.failed : c \in Elements(f.cycles)})]
PublicRepairs(p, f) ==
  [cycles     |-> p.cycles > 0, max |-> p.budget, left |-> BudgetLeft(p),
   entries    |-> Len(f.cycles) > 1,
   reasons    |-> Cardinality({c.reason : c \in Elements(f.cycles)}) > 1,
   lastReason |-> f.cycles # << >>,
   categories |-> Cardinality({c.category : c \in Elements(f.cycles)}) > 1,
   failed     |-> \E c \in Elements(f.cycles) : c.failed # {}]

-----------------------------------------------------------------------------
(* Provider calls                                                          *)

Called(f)  == {i \in DOMAIN f.calls : f.calls[i] # {}}
Call(f, i) == The(f.calls[i])
Of(f, q)   == {i \in Called(f) : Call(f, i).provider = q}
Told(f, q) == {i \in Called(f) : q \in DOMAIN Call(f, i).health}
HealthEntry(f, q, i) == Call(f, i).health[q]

FinalProviders(f)    == Named({Call(f, i).provider : i \in Called(f)})
FallbackEntries(f)   == UNION {Elements(Call(f, i).fallback) : i \in Called(f)}
FallbackProviders(f) == Named({e.provider : e \in FallbackEntries(f)})
ObservedProviders(f) == FinalProviders(f) \cup FallbackProviders(f)
HealthProviders(f)   == UNION {DOMAIN Call(f, i).health : i \in Called(f)}

Succeeded(f, S) == {i \in S : TRUE \in Call(f, i).success}
Failed(f, S)    == {i \in S : Failing(Call(f, i))}
Attempts(f, S)  == SumOf([i \in S |-> AttemptCount(Call(f, i))])
Retries(f, S)   == SumOf([i \in S |-> RetryCount(Call(f, i))])

\* _accumulate_numeric_metrics
Usage(f, S) ==
  [m \in UNION {DOMAIN Call(f, i).usage : i \in S} |->
     SumOf([i \in {j \in S : m \in DOMAIN Call(f, j).usage} |-> Call(f, i).usage[m]])]

\* _internal_metric_distribution and _metric_distribution, of the tasks for which
\* the function Value gives a duration
Measured(Value) == {i \in DOMAIN Value : Value[i] # {}}
Distribution(Value) ==
  LET known == Measured(Value)
      durations == {The(Value[i]) : i \in known}
  IN  [count |-> Cardinality(known),
       total |-> SumOf([i \in known |-> The(Value[i])]),
       min   |-> IF known = {} THEN 0 ELSE Min(durations),
       max   |-> IF known = {} THEN 0 ELSE Max(durations)]
Samples(Value) ==
  LET n == Cardinality(Measured(Value)) IN [some |-> n > 0, several |-> n > 1]

\* What the internal view tells of a provider, and of its health
InternalProvider(f, q) ==
  [tasks |-> Cardinality(Of(f, q)),
   successes |-> Cardinality(Succeeded(f, Of(f, q))),
   failures |-> Cardinality(Failed(f, Of(f, q))),
   attempts |-> Attempts(f, Of(f, q)), retries |-> Retries(f, Of(f, q)),
   models |-> Named({Call(f, i).model : i \in Of(f, q)}),
   duration |-> Distribution([i \in Of(f, q) |-> Call(f, i).total]), usage |-> Usage(f, Of(f, q))]
InternalHealth(f, q) ==
  LET Heard(P(_)) == {i \in Told(f, q) : P(HealthEntry(f, q, i))} IN
  [models   |-> Named({HealthEntry(f, q, i).model : i \in Told(f, q)}),
   statuses |-> CountBy([i \in Told(f, q) |-> HealthEntry(f, q, i).status]),
   outcomes |-> CountBy([i \in {i \in Told(f, q) : HealthEntry(f, q, i).outcome # "none"} |->
                         HealthEntry(f, q, i).outcome]),
   retryable |-> Cardinality(Heard(RetryableFailure)),
   checks    |-> Cardinality(Heard(LiveCheck))]

\* _internal_workflow_telemetry_summary
InternalView(p, f) ==
  LET called == Called(f)
  IN  [tasks      |-> Cardinality(DOMAIN p.tasks),
       statuses   |-> CountBy([i \in DOMAIN p.tasks |-> p.tasks[i].status]),
       called     |-> Cardinality(called),
       uncalled   |-> Cardinality(DOMAIN p.tasks \ called),
       acceptance |-> InternalAcceptance(p, f),
       resumes    |-> InternalResumes(f),
       repairs    |-> InternalRepairs(p, f),
       final      |-> FinalProviders(f),
       observed   |-> ObservedProviders(f),
       providers  |-> [q \in FinalProviders(f) |-> InternalProvider(f, q)],
       health     |-> [q \in HealthProviders(f) |-> InternalHealth(f, q)],
       attempts   |-> Attempts(f, called),
       retries    |-> Retries(f, called),
       duration   |-> Distribution([i \in called |-> Call(f, i).total]),
       usage      |-> Usage(f, called),
       fallback   |-> [tasks |-> Cardinality({i \in called : Call(f, i).fallback # << >>}),
                       entries |-> SumOf([i \in called |-> Len(Call(f, i).fallback)]),
                       providers |-> FallbackProviders(f),
                       statuses |-> {e.status : e \in FallbackEntries(f)}],
       errors     |-> [final |-> Cardinality({i \in called : FinalError(Call(f, i))}),
                       fallback |-> SumOf(
                          [i \in called |-> Cardinality(FallbackErrors(Call(f, i)))])]]

\* mutant: calls that failed without an error text are left out
AnyFinalError_Texts(f) == \E i \in Called(f) : Call(f, i).error \notin {"none", "flag"}
AnyFinalError(f) == \E i \in Called(f) : FinalError(Call(f, i))

\* What the public view tells of them
Durations(f, S) == [i \in S |-> AnyDuration(Call(f, i))]
PublicProvider(f, q) ==
  [tasks |-> Cardinality(Of(f, q)) > 1,
   successes |-> Succeeded(f, Of(f, q)) # {}, failures |-> Failed(f, Of(f, q)) # {},
   attempts |-> Attempts(f, Of(f, q)) > 0, retries |-> Retries(f, Of(f, q)) > 0,
   duration |-> Samples(Durations(f, Of(f, q))), usage |-> DOMAIN Usage(f, Of(f, q))]
PublicHealth(f, q) ==
  [models    |-> Named({HealthEntry(f, q, i).model : i \in Told(f, q)}) # {},
   statuses  |-> {HealthEntry(f, q, i).status : i \in Told(f, q)},
   outcomes  |-> {HealthEntry(f, q, i).outcome : i \in Told(f, q)} \ {"none"},
   retryable |-> \E i \in Told(f, q) : RetryableFailure(HealthEntry(f, q, i)),
   checks    |-> \E i \in Told(f, q) : LiveCheck(HealthEntry(f, q, i))]

\* _workflow_telemetry_summary
PublicView(p, f) ==
  LET called == Called(f)
  IN  [tasks      |-> Cardinality(DOMAIN p.tasks) > 1,
       statuses   |-> {p.tasks[i].status : i \in DOMAIN p.tasks},
       progress   |-> Progress(p),
       called     |-> called # {},
       uncalled   |-> DOMAIN p.tasks \ called # {},
       acceptance |-> PublicAcceptance(p, f),
       resumes    |-> PublicResumes(f),
       repairs    |-> PublicRepairs(p, f),
       final      |-> Cardinality(FinalProviders(f)) > 1,
       observed   |-> Cardinality(ObservedProviders(f)) > 1,
       providers  |-> [q \in FinalProviders(f) |-> PublicProvider(f, q)],
       health     |-> [q \in HealthProviders(f) |-> PublicHealth(f, q)],
       attempts   |-> Attempts(f, called) > 0,
       retries    |-> Retries(f, called) > 0,
       duration   |-> Samples(Durations(f, called)),
       usage      |-> DOMAIN Usage(f, called),
       fallback   |-> [tasks |-> Cardinality({i \in called : Call(f, i).fallback # << >>}) > 1,
                       entries |-> FallbackEntries(f) # {},
                       providers |-> Cardinality(FallbackProviders(f)) > 1,
                       statuses |-> Cardinality({e.status : e \in FallbackEntries(f)}) > 1],
       errors     |-> [final |-> AnyFinalError(f),
                       fallback |-> \E i \in called : FallbackErrors(Call(f, i)) # {}]]

-----------------------------------------------------------------------------
(* Per task                                                                *)

\* _internal_task_runtime_telemetry
TaskTelemetry(p, f, i) ==
  IF i \notin Called(f)
    THEN [called |-> FALSE, status |-> p.tasks[i].status]
    ELSE LET c == Call(f, i) IN
         [called |-> TRUE, status |-> p.tasks[i].status,
          provider |-> c.provider, model |-> c.model, success |-> c.success,
          attempts |-> AttemptCount(c), retries |-> RetryCount(c),
          duration |-> c.total, latency |-> c.latency, usage |-> c.usage,
          health |-> c.health]

\* task_results: the result of one task, with a failure record if it failed
TaskResult(p, f, i) ==
  LET r == p.tasks[i] IN
  [status    |-> r.status,
   failure   |-> IF r.status # "failed" THEN {}
                 ELSE {[category |-> r.category, retryable |-> r.attempts <= RetryLimit[i[1]]]},
   called    |-> i \in Called(f),
   timed     |-> i \in Called(f) /\ AnyDuration(Call(f, i)) # {},
   attempts  |-> r.attempts > 0,
   retries   |-> RetryLimit[i[1]] > 0,
   error     |-> f.errors[i],
   repair    |-> IsRepair(i)]
=============================================================================
