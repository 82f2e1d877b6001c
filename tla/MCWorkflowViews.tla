--------------------------- MODULE MCWorkflowViews ---------------------------
(***************************************************************************)
(* The workflow and the provider calls that the run of WorkflowViews uses. *)
(***************************************************************************)
EXTENDS WorkflowViews

CONSTANTS code, test, near, far

CodeThenTest == [o \in Original |-> IF o = code THEN {} ELSE {code}]
TheirRoles   == [o \in Original |-> IF o = code THEN "code_engineer" ELSE "qa_tester"]
SuiteRetries == [o \in Original |-> IF o = test THEN 1 ELSE 0]

Failing_(category, evidence) == [category |-> category, evidence |-> evidence]
Kinds == {Failing_("sandbox", {}), Failing_("validation", {"code_at_fault", "over_budget"})}

Tried(success, retryable, error) ==
  [success |-> success, retryable |-> retryable, error |-> error]
Probe(open, outcome, check) ==
  [model |-> "model", status |-> HealthStatus(open, outcome, TRUE, {}), outcome |-> outcome, retryable |-> {}, check |-> check]

\* A call that was answered by the second provider, after a retry
Answered ==
  [PlainCall(far, "model", TRUE) EXCEPT
     !.used = {2}, !.total = {5}, !.latency = {3},
     !.history = {<<Tried(FALSE, TRUE, "secret"), Tried(TRUE, FALSE, "none")>>},
     !.usage = [tokens |-> 4],
     !.fallback = <<[provider |-> near, model |-> "model", status |-> "failed", error |-> "secret"]>>,
     !.health = near :> Probe(FALSE, "failure", "none") @@ far :> Probe(FALSE, "success", "live"),
     !.flags = BudgetFlags(2, near :> 1 @@ far :> 0, 1, near :> 1 @@ far :> 0),
     !.elapsed = ElapsedFlags(3, 2)]

\* A call that failed for good when it was tried again
Refused ==
  [PlainCall(near, "model", FALSE) EXCEPT
     !.used = {2}, !.latency = {2}, !.error = "secret", !.message = "plain",
     !.history = {<<Tried(FALSE, TRUE, "plain"), Tried(FALSE, FALSE, "plain")>>},
     !.health = near :> Probe(TRUE, "failure", "cached")]

\* A call as an earlier version wrote it, of a task that somebody overrode then
Older ==
  [PlainCall(near, "model", FALSE) EXCEPT
     !.used = {2}, !.total = {1}, !.error = "secret", !.reason = "secret",
     !.counters = {BudgetCounters(0, near :> 1 @@ far :> 0, 1, near :> 1 @@ far :> 0)},
     !.clock = {ElapsedClock(2, 2)}]

\* A call of such a task, of which the only attempt failed in a way that passes
Exhausted ==
  [PlainCall(near, "model", FALSE) EXCEPT
     !.used = {1}, !.total = {2}, !.error = "plain", !.history = {<<Tried(FALSE, TRUE, "plain")>>},
     !.health = near :> Probe(FALSE, "failure", "none")]

\* One that was not made: the circuit of the only provider was open
Unsent ==
  [PlainCall(near, "model", FALSE) EXCEPT
     !.used = {0}, !.error = "plain", !.history = {<< >>},
     !.health = near :> Probe(TRUE, "failure", "none")]

Good == {{Answered}}
Bad  == {{Refused}}
Old  == {{Older}, {Exhausted}, {Unsent}}
=============================================================================
