----------------------------- MODULE CallRecords -----------------------------
(***************************************************************************)
(* The record of one provider call: what an agent writes of it (metadata   *)
(* builders of agents/base_agent.py), how it is cleaned before it is stored*)
(* (providers/base.py, in a strict and in an audit mode), and what is later*)
(* counted from it (the helpers of memory/project_state.py).               *)
(*                                                                         *)
(* A file written by an earlier version holds records as they were written *)
(* then: with error texts, and with counters instead of budget flags.  An  *)
(* optional value is a set of at most one element.  Of a text only matters *)
(* whether there is one, and whether it holds a credential.                *)
(***************************************************************************)
EXTENDS Naturals, Integers, Sequences, FiniteSets, FiniteSetsExt

CONSTANTS
  Providers,   \* names of providers
  Blank        \* no name

\* A text is "none", "flag" (there is one), "plain", "secret" or "redacted".
Texts        == {"none", "flag", "plain", "secret", "redacted"}
The(option)  == CHOOSE x \in option : TRUE
Present(t)   == t # "none"
IsOption(S)  == \A x, y \in S : x = y
Elements(s)  == {s[k] : k \in DOMAIN s}
IsList(s)    == s \in Seq(Elements(s))

CallFlags(limited, exhausted, of, spent) ==
  [limited |-> limited, exhausted |-> exhausted, limitedOf |-> of, exhaustedOf |-> spent]
NoCallFlags == CallFlags(FALSE, FALSE, {}, {})
NoElapsed   == [limited |-> FALSE, exhausted |-> FALSE]

\* A call that reports its provider and its success and nothing else.
PlainCall(provider, model, success) ==
  [provider |-> provider, model |-> model, success |-> {success},
   error    |-> "none", message |-> "none", reason |-> "none",
   history  |-> {},        \* attempt_history
   used     |-> {},        \* attempts_used
   total    |-> {},        \* duration_ms
   latency  |-> {},        \* latency_ms
   usage    |-> << >>,     \* usage: the metrics with a number
   fallback |-> << >>,     \* fallback_history
   health   |-> << >>,     \* provider_health, by provider
   counters |-> {},        \* the budget keys of earlier versions
   flags    |-> NoCallFlags,
   clock    |-> {},        \* the elapsed-seconds keys of earlier versions
   elapsed  |-> NoElapsed]

-----------------------------------------------------------------------------
(* Metadata as an agent builds it                                          *)

Limited(max)         == {q \in DOMAIN max : max[q] > 0}
Budgeted(perAgent, max) == perAgent > 0 \/ Limited(max) # {}

\* _provider_call_budget_metadata: count calls made, countOf by provider
BudgetFlags(perAgent, max, count, countOf) ==
  CallFlags(Budgeted(perAgent, max), perAgent > 0 /\ count >= perAgent, Limited(max),
            {q \in Limited(max) : countOf[q] >= max[q]})

\* What an earlier version wrote in the same situation
BudgetCounters(perAgent, max, count, countOf) ==
  [perAgent |-> perAgent, left |-> perAgent - count, max |-> max,
   leftOf |-> [q \in DOMAIN max |-> max[q] - countOf[q]]]

\* _provider_elapsed_budget_metadata
ElapsedFlags(max, spent) ==
  [limited |-> max > 0, exhausted |-> max > 0 /\ spent >= max]
ElapsedClock(max, spent) == [max |-> max, left |-> IF max > 0 THEN {max - spent} ELSE {}]

\* _provider_health_metadata: check is the stored status of the last probe
HealthStatus(open, outcome, retryable, check) ==
  CASE open                                  -> "open_circuit"
    [] ~open /\ outcome = "success"          -> "healthy"
    [] ~open /\ outcome = "failure"          -> IF retryable THEN "degraded" ELSE "failing"
    [] ~open /\ outcome = "none"             -> IF check = {} THEN "idle" ELSE The(check)

-----------------------------------------------------------------------------
(* The records that agents write, of this version or of an earlier one     *)

Attempt == [success : BOOLEAN, retryable : BOOLEAN, error : Texts]

IsFallback(e) ==
  /\ e = [provider |-> e.provider, model |-> e.model, status |-> e.status, error |-> e.error]
  /\ e.error \in Texts

\* Only a provider that failed last can have failed in a way that passes
\* (_record_provider_success clears the mark, _provider_health_metadata).
IsHealth(e) ==
  /\ e = [model |-> e.model, status |-> e.status, outcome |-> e.outcome,
          retryable |-> e.retryable, check |-> e.check]
  /\ TRUE \in e.retryable => e.outcome = "failure" /\ e.status \in {"degraded", "open_circuit"}

IsBudget(n) ==
  /\ n.perAgent \in Int /\ n.left \in Int /\ DOMAIN n.leftOf = DOMAIN n.max
  /\ \A q \in DOMAIN n.max : n.max[q] \in Int /\ n.leftOf[q] \in Int

\* No limit, and nothing left to tell; a record has the clock or the flags.
IsClock(k) ==
  k.max \in Int /\ k.left \subseteq Int /\ IsOption(k.left) /\ (k.left # {} => k.max > 0)

IsCall(c) ==
  /\ DOMAIN c = DOMAIN PlainCall(Blank, Blank, TRUE)
  /\ {c.error, c.message, c.reason} \subseteq Texts
  /\ \A x \in {"success", "used", "total", "latency", "counters", "clock", "history"} : IsOption(c[x])
  /\ c.used \subseteq Nat
  /\ \A h \in c.history : h \in Seq(Attempt)
  /\ IsList(c.fallback) /\ \A k \in DOMAIN c.fallback : IsFallback(c.fallback[k])
  /\ \A q \in DOMAIN c.health : IsHealth(c.health[q])
  /\ \A n \in c.counters : IsBudget(n)
  /\ c.flags = CallFlags(c.flags.limited, c.flags.exhausted, c.flags.limitedOf, c.flags.exhaustedOf)
  /\ c.flags.limited \in BOOLEAN /\ c.flags.exhausted \in BOOLEAN
  /\ \A k \in c.clock : IsClock(k)
  /\ c.elapsed \in [limited : BOOLEAN, exhausted : BOOLEAN] /\ (c.clock # {} => c.elapsed = NoElapsed)

-----------------------------------------------------------------------------
(* sanitize_provider_call_metadata                                         *)

Redact(t) == IF t = "secret" THEN "redacted" ELSE t
Flag(t)   == IF Present(t) THEN "flag" ELSE "none"

\* mutant: the audit mode keeps texts as they are
Kept_Raw(mode, t) == IF mode = "audit" THEN t ELSE Flag(t)

\* A text in each of the modes
Kept(mode, t) == IF mode = "audit" THEN Redact(t) ELSE Flag(t)

\* mutant: an unlimited agent with no calls left counts as exhausted
CleanBudget_AnyLimit(c) ==
  IF c.counters = {} THEN c.flags
  ELSE LET n == The(c.counters) IN
       CallFlags(Budgeted(n.perAgent, n.max), n.left <= 0, Limited(n.max),
                 {q \in Limited(n.max) : n.leftOf[q] <= 0})

\* _sanitize_provider_call_budget_metadata
CleanBudget(c) ==
  IF c.counters # {}
    THEN LET n == The(c.counters) IN
         CallFlags(Budgeted(n.perAgent, n.max), n.perAgent > 0 /\ n.left <= 0,
                   Limited(n.max), {q \in Limited(n.max) : n.leftOf[q] <= 0})
    ELSE LET f == c.flags IN
         CallFlags(f.limited \/ f.limitedOf # {}, f.exhausted, f.limitedOf,
                   {q \in f.exhaustedOf : q \in f.limitedOf \/ f.limitedOf = {}})

\* _sanitize_provider_call_elapsed_budget_metadata
CleanElapsed(c) ==
  [limited   |-> c.elapsed.limited \/ \E k \in c.clock : k.max > 0,
   exhausted |-> c.elapsed.exhausted \/ \E k \in c.clock : \E left \in k.left : left <= 0]

\* The lists of a record.  Of a health entry the model, the status, the last outcome
\* and the marks of the last probe stay; strict mode drops the models of the
\* fallback history.
CleanEntry(e, mode)   == [e EXCEPT !.error = Kept(mode, @)]
CleanHistory(h, mode) == [k \in DOMAIN h |-> CleanEntry(h[k], mode)]
CleanFallback(s, mode) ==
  [k \in DOMAIN s |-> [CleanEntry(s[k], mode) EXCEPT !.model = IF mode = "audit" THEN @ ELSE Blank]]
CleanHealth(entries)  == [q \in DOMAIN entries |-> [entries[q] EXCEPT !.retryable = {}]]

Clean(c, mode) ==
  [c EXCEPT
     !.error    = Kept(mode, @), !.message = Kept(mode, @), !.reason = Flag(@),
     !.history  = {CleanHistory(h, mode) : h \in @},
     !.fallback = CleanFallback(@, mode), !.health = CleanHealth(@),
     !.counters = {}, !.flags = CleanBudget(c),
     !.clock    = {}, !.elapsed = CleanElapsed(c)]

Strict(c) == Clean(c, "strict")
Audit(c)  == Clean(c, "audit")

-----------------------------------------------------------------------------
(* What is counted                                                         *)

\* _provider_attempt_count
AttemptCount(c) ==
  IF c.history # {} THEN Len(The(c.history))
  ELSE IF c.used # {} THEN The(c.used) ELSE 0

\* mutant: failures that cannot be retried count too
RetryCount_AnyFailure(c) ==
  IF c.history # {}
    THEN LET h == The(c.history) IN Cardinality({k \in DOMAIN h : ~h[k].success})
    ELSE IF AttemptCount(c) <= 1 THEN 0 ELSE AttemptCount(c) - 1

\* _provider_retry_attempt_count
RetryCount(c) ==
  IF c.history # {}
    THEN LET h == The(c.history)
         IN  Cardinality({k \in DOMAIN h : ~h[k].success /\ h[k].retryable})
    ELSE IF AttemptCount(c) <= 1 THEN 0 ELSE AttemptCount(c) - 1

\* _provider_call_duration_ms: the total, or else the latency
AnyDuration(c) == IF c.total # {} THEN c.total ELSE c.latency

\* _provider_health_entry_has_retryable_failure
RetryableFailure(entry) ==
  \/ TRUE \in entry.retryable
  \/ entry.outcome = "failure" /\ entry.status \in {"degraded", "open_circuit"}

\* An active check that was made, not remembered
LiveCheck(entry) == entry.check = "live"

Failing(c)       == FALSE \in c.success
FinalError(c)    == Failing(c) /\ Present(c.error)
FallbackErrors(c) == {k \in DOMAIN c.fallback : Present(c.fallback[k].error)}

\* _provider_budget_summary, recorded with every event that carries a call
BudgetSummary(c) == CleanBudget(c)
=============================================================================
