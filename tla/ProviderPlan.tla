---------------------------- MODULE ProviderPlan ----------------------------
(***************************************************************************)
(* BaseAgent.chat: one agent asks the candidates of its execution plan for *)
(* an answer, with retries and backoff, a circuit breaker per provider, a  *)
(* cache of unhealthy probes that all agents of the process share, budgets *)
(* of calls and of time, and a cancellation that another thread may        *)
(* request at any moment (agents/base_agent.py, providers/factory.py).     *)
(*                                                                         *)
(* A step ends where the code waits: in a health check, in a generate call *)
(* and in each slice of a backoff.  Only then does the clock advance.      *)
(***************************************************************************)
EXTENDS ProviderClients

CONSTANTS
  Latency,         \* the longest a service takes to answer or to time out
  Horizon,         \* bound: agents wait, and other agents probe, before it
  MaxChats,        \* bound: chats in a behaviour
  MaxRequests      \* bound: cancellation requests in a behaviour

ASSUME PlanAssumption == {Latency, Horizon, MaxChats, MaxRequests} \subseteq Nat

\* The <<provider, model>> candidates of every chat, in order.
Plan == ExecutionPlan(Settings)

\* Providers that create_provider refuses.
Unusable == {p \in Providers : ~HasCredentials(Settings, p)}

Never == 0 - 1

VARIABLES
  clock,        \* perf_counter, shared by the process
  cache,        \* _HEALTH_PROBE_CACHE, shared by the process
  calls,        \* _provider_call_count
  callsOf,      \* _provider_call_counts
  streak,       \* _provider_transient_failure_streaks
  openUntil,    \* _provider_circuit_open_untils, 0 while closed
  last,         \* _provider_last_outcomes, with the retryable flag of a failure
  checks,       \* _provider_last_health_checks, the status of each
  learned,      \* candidates whose client no longer sends a temperature
  cancelledAt,  \* when cancellation was requested (_provider_cancellation_requested)
  requests,     \* cancellation requests so far
  chats,        \* chats so far
  chat          \* the locals of _chat_with_provider_plan

agent == <<calls, callsOf, streak, openUntil, last, checks, learned>>
counters == <<requests, chats>>
vars == <<clock, cache, agent, cancelledAt, counters, chat>>

Points   == {"idle", "select", "probe", "attempt", "generate", "backoff"}
Outcomes == {"none", "response", "misconfigured", "cancelled", "open_circuit",
             "call_budget", "provider_budget", "unhealthy", "elapsed",
             "transient", "refused", "escaped"}
Skips    == {"open_circuit", "provider_budget", "unhealthy", "transient"}
Health   == {"idle", "success", "degraded", "failing"}
Statuses == {"unchecked", "ready", "degraded", "failing"}

\* A cached unhealthy probe: the model that was probed and when.
Snapshot == [model : Models, at : Nat, retryable : BOOLEAN]
NoSnapshot == [model |-> Plan[1][2], at |-> Never, retryable |-> FALSE]

TypeOK ==
  /\ clock \in Nat
  /\ cache \in [Candidates -> Snapshot \cup {NoSnapshot}]
  /\ calls \in Nat
  /\ callsOf \in [Providers -> Nat]
  /\ streak \in [Providers -> Nat]
  /\ openUntil \in [Providers -> Nat]
  /\ last \in [Providers -> Health]
  /\ checks \in [Providers -> Statuses]
  /\ learned \subseteq Candidates
  /\ cancelledAt \in Nat \cup {Never}
  /\ requests \in 0..MaxRequests /\ chats \in 0..MaxChats
  /\ chat \in [pc : Points, index : DOMAIN Plan, attempt : 0..MaxAttempts,
               startedAt : Nat, sleeping : Nat, trail : Seq(Providers \X Skips),
               outcome : Outcomes]
  /\ chat.pc \in {"attempt", "generate", "backoff"} => chat.attempt > 0

Init ==
  /\ clock = 0
  /\ cache = [k \in Candidates |-> NoSnapshot]
  /\ calls = 0
  /\ callsOf = [p \in Providers |-> 0]
  /\ streak = [p \in Providers |-> 0]
  /\ openUntil = [p \in Providers |-> 0]
  /\ last = [p \in Providers |-> "idle"]
  /\ checks = [p \in Providers |-> "unchecked"]
  /\ learned = {}
  /\ cancelledAt = Never
  /\ requests = 0 /\ chats = 0
  /\ chat = [pc |-> "idle", index |-> 1, attempt |-> 0, startedAt |-> 0,
             sleeping |-> 0, trail |-> <<>>, outcome |-> "none"]

-----------------------------------------------------------------------------
(* The candidate at hand, and what the agent knows of its provider.        *)

Candidate == Plan[chat.index]
Provider == Candidate[1]
Model    == Candidate[2]
IsLast   == chat.index = Len(Plan)

Cancelled == cancelledAt # Never

\* mutant: the circuit lets a call through before its time
CircuitOpen_Early(p, t) == Threshold > 0 /\ t < openUntil[p] - 1
\* mutant: one circuit for all providers
CircuitOpen_Shared(p, t) == Threshold > 0 /\ \E q \in Providers : t < openUntil[q]

CircuitOpen(p, t) == Threshold > 0 /\ t < openUntil[p]

AgentBudgetSpent    == AgentBudget > 0 /\ calls >= AgentBudget
\* mutant: one call too many
ProviderBudgetSpent_OneMore ==
  ProviderBudget[Provider] > 0 /\ callsOf[Provider] > ProviderBudget[Provider]
ProviderBudgetSpent ==
  ProviderBudget[Provider] > 0 /\ callsOf[Provider] >= ProviderBudget[Provider]
ElapsedBudgetSpent  ==
  ElapsedBudget > 0 /\ clock - chat.startedAt >= ElapsedBudget

\* What a failing or degraded snapshot is stored under: the runtime config is
\* asked for without a model.
KeyOf(p) == <<p, RuntimeModel(Settings, p)>>
CacheKey == KeyOf(Provider)

\* _health_probe_cooldown_seconds
ProbeCooldown == IF HealthCooldown > 0 THEN HealthCooldown ELSE Cooldown

IsFresh(snapshot, t) ==
  ProbeCooldown > 0 /\ snapshot # NoSnapshot /\ t < snapshot.at + ProbeCooldown

\* The status that _provider_health_metadata reports of a provider: a health
\* check speaks for it as long as no call and no failure has.
HealthStatus(p, t) ==
  IF CircuitOpen(p, t) THEN "open_circuit"
  ELSE IF last[p] = "success" THEN "healthy"
  ELSE IF last[p] # "idle" THEN last[p]
  ELSE IF checks[p] # "unchecked" THEN checks[p] ELSE "idle"

\* The delays that a retry may be given: capped exponential backoff, jitter.
Delays ==
  LET uncapped == Backoff * 2 ^ (chat.attempt - 1)
      base == IF uncapped < MaxBackoff THEN uncapped ELSE MaxBackoff
  IN  base .. base + Jitter * base

-----------------------------------------------------------------------------
(* What the steps share.                                                   *)

Raise(why) ==
  chat' = [chat EXCEPT !.pc = "idle", !.attempt = 0, !.sleeping = 0, !.outcome = why]

\* mutant: the fallback history is not written
NextOrRaise_Silently(why) ==
  IF IsLast THEN Raise(why)
  ELSE chat' = [chat EXCEPT !.pc = "select", !.index = @ + 1, !.attempt = 0]

\* A candidate that cannot serve ends the chat if it is the last one;
\* otherwise the next one is tried and the fallback history says why.
NextOrRaise(why) ==
  IF IsLast THEN Raise(why)
  ELSE chat' = [chat EXCEPT !.pc = "select", !.index = @ + 1, !.attempt = 0,
                            !.trail = Append(@, <<Provider, why>>)]

\* _record_provider_transient_failure at time t
CountTransient(p, t) ==
  IF Threshold = 0 THEN
    /\ streak' = [streak EXCEPT ![p] = 0]
    /\ openUntil' = [openUntil EXCEPT ![p] = 0]
  ELSE
    /\ streak' = [streak EXCEPT ![p] = @ + 1]
    /\ openUntil' = [openUntil EXCEPT ![p] =
                       IF streak[p] + 1 >= Threshold THEN t + Cooldown ELSE @]

\* mutant: an answer leaves the circuit open
CloseCircuit_KeepsTime(p) ==
  streak' = [streak EXCEPT ![p] = 0] /\ UNCHANGED openUntil
\* mutant: an answer does not end the streak
CloseCircuit_KeepsStreak(p) ==
  openUntil' = [openUntil EXCEPT ![p] = 0] /\ UNCHANGED streak

CloseCircuit(p) ==
  /\ streak' = [streak EXCEPT ![p] = 0]
  /\ openUntil' = [openUntil EXCEPT ![p] = 0]

Severity(retryable) == IF retryable THEN "degraded" ELSE "failing"

RecordFailure(p, retryable) == last' = [last EXCEPT ![p] = Severity(retryable)]

\* An unhealthy candidate, seen live or in the cache, at time t.
Unhealthy(retryable, t) ==
  /\ checks' = [checks EXCEPT ![Provider] = Severity(retryable)]
  /\ RecordFailure(Provider, retryable)
  /\ IF retryable THEN CountTransient(Provider, t) ELSE UNCHANGED <<streak, openUntil>>
  /\ NextOrRaise("unhealthy")
  /\ UNCHANGED <<calls, callsOf, learned>>

\* The service takes its time before it answers each request.
Passing(t, n) == t \in clock .. clock + n * Latency

\* One health check of the candidate at hand ends with this status.
Checked(status, t) ==
  \E check \in HealthChecks(Candidate, learned) :
    check.status = status /\ Passing(t, check.requests)

\* One generate call to it ends with this result.
Called(result, t) ==
  \E call \in Generations(Candidate, learned) :
    call.result = result /\ Passing(t, call.requests)

-----------------------------------------------------------------------------
Chat ==
  /\ chat.pc = "idle" /\ chats < MaxChats
  /\ chats' = chats + 1
  /\ chat' = [chat EXCEPT !.pc = "select", !.index = 1, !.startedAt = clock,
                          !.trail = <<>>, !.outcome = "none"]
  /\ UNCHANGED <<clock, cache, agent, cancelledAt, requests>>

\* Why a candidate is not even probed.
Refusal ==
  IF Provider \in Unusable THEN "misconfigured"
  ELSE IF Cancelled THEN "cancelled"
  ELSE IF CircuitOpen(Provider, clock) THEN "open_circuit"
  ELSE IF ProviderBudgetSpent THEN "provider_budget"
  ELSE "none"

Refuse ==
  /\ chat.pc = "select" /\ Refusal # "none"
  /\ IF Refusal \in Skips THEN NextOrRaise(Refusal) ELSE Raise(Refusal)
  /\ UNCHANGED <<clock, cache, agent, cancelledAt, counters>>

Eligible == chat.pc = "select" /\ Refusal = "none"

\* An unhealthy snapshot that has not cooled down speaks for the provider.
RecallUnhealthy ==
  /\ Eligible /\ IsFresh(cache[CacheKey], clock)
  /\ Unhealthy(cache[CacheKey].retryable, clock)
  /\ UNCHANGED <<clock, cache, cancelledAt, counters>>

StartProbe ==
  /\ Eligible /\ ~IsFresh(cache[CacheKey], clock)
  /\ cache' = IF ProbeCooldown > 0 THEN [cache EXCEPT ![CacheKey] = NoSnapshot]
                                   ELSE cache
  /\ chat' = [chat EXCEPT !.pc = "probe"]
  /\ UNCHANGED <<clock, agent, cancelledAt, counters>>

ProbeReady ==
  /\ chat.pc = "probe"
  /\ Checked("ready", clock')
  /\ cache' = [cache EXCEPT ![CacheKey] = NoSnapshot]
  /\ checks' = [checks EXCEPT ![Provider] = "ready"]
  /\ chat' = [chat EXCEPT !.pc = "attempt", !.attempt = 1]
  /\ UNCHANGED <<calls, callsOf, streak, openUntil, last, learned, cancelledAt, counters>>

ProbeUnhealthy(status) ==
  /\ chat.pc = "probe"
  /\ Checked(status, clock')
  /\ cache' = [cache EXCEPT ![CacheKey] =
                 [model |-> Model, at |-> clock', retryable |-> status = "degraded"]]
  /\ Unhealthy(status = "degraded", clock')
  /\ UNCHANGED <<cancelledAt, counters>>

\* Any other exception of a health check ends the chat, and nothing is recorded.
ProbeEscapes ==
  /\ chat.pc = "probe"
  /\ Checked("escaped", clock')
  /\ Raise("escaped")
  /\ UNCHANGED <<cache, agent, cancelledAt, counters>>

-----------------------------------------------------------------------------
\* Why no further attempt is made at this candidate.
Obstacle ==
  IF Cancelled THEN "cancelled"
  ELSE IF ElapsedBudgetSpent THEN "elapsed"
  ELSE IF AgentBudgetSpent THEN "call_budget"
  ELSE IF ProviderBudgetSpent THEN "provider_budget"
  ELSE "none"

GiveUp ==
  /\ chat.pc = "attempt" /\ Obstacle # "none"
  /\ IF Obstacle \in Skips THEN NextOrRaise(Obstacle) ELSE Raise(Obstacle)
  /\ UNCHANGED <<clock, cache, agent, cancelledAt, counters>>

\* A call is counted before it is made.
Generate ==
  /\ chat.pc = "attempt" /\ Obstacle = "none"
  /\ calls' = calls + 1
  /\ callsOf' = [callsOf EXCEPT ![Provider] = @ + 1]
  /\ chat' = [chat EXCEPT !.pc = "generate"]
  /\ UNCHANGED <<clock, cache, streak, openUntil, last, checks, learned, cancelledAt, counters>>

\* The client sends a request again without its temperature.  The plan sees one
\* call: neither its budgets nor a cancellation are looked at in between.
Resend ==
  /\ chat.pc = "generate"
  /\ Called("resend", clock')
  /\ learned' = learned \cup {Candidate}
  /\ UNCHANGED <<cache, calls, callsOf, streak, openUntil, last, checks, cancelledAt,
                 counters, chat>>

Answered ==
  /\ chat.pc = "generate"
  /\ Called("response", clock')
  /\ CloseCircuit(Provider)
  /\ last' = [last EXCEPT ![Provider] = "success"]
  /\ Raise("response")
  /\ UNCHANGED <<cache, calls, callsOf, checks, learned, cancelledAt, counters>>

\* An error that is not transient ends the chat and closes the circuit.
Refused ==
  /\ chat.pc = "generate"
  /\ Called("refused", clock')
  /\ CloseCircuit(Provider)
  /\ RecordFailure(Provider, FALSE)
  /\ Raise("refused")
  /\ UNCHANGED <<cache, calls, callsOf, checks, learned, cancelledAt, counters>>

\* The last attempt at a provider counts for its circuit.
Exhausted ==
  /\ chat.pc = "generate" /\ chat.attempt >= MaxAttempts
  /\ Called("transient", clock')
  /\ RecordFailure(Provider, TRUE)
  /\ CountTransient(Provider, clock')
  /\ NextOrRaise("transient")
  /\ UNCHANGED <<cache, calls, callsOf, checks, learned, cancelledAt, counters>>

\* The candidate is asked again, at once or after a delay.
Retry(delay) ==
  chat' = IF delay > 0
          THEN [chat EXCEPT !.pc = "backoff", !.sleeping = delay]
          ELSE [chat EXCEPT !.pc = "attempt", !.attempt = @ + 1, !.sleeping = 0]

\* mutant: the delay is not held against the time budget
Transient_ForgetsDelay ==
  /\ chat.pc = "generate" /\ chat.attempt < MaxAttempts
  /\ Called("transient", clock')
  /\ \E delay \in Delays :
       IF ElapsedBudget > 0 /\ clock' - chat.startedAt >= ElapsedBudget
       THEN Raise("elapsed")
       ELSE Retry(delay)
  /\ UNCHANGED <<cache, agent, cancelledAt, counters>>

\* An earlier attempt is repeated if the time budget has room for the delay.
Transient ==
  /\ chat.pc = "generate" /\ chat.attempt < MaxAttempts
  /\ Called("transient", clock')
  /\ \E delay \in Delays :
       IF ElapsedBudget > 0 /\ clock' - chat.startedAt + delay >= ElapsedBudget
       THEN Raise("elapsed")
       ELSE Retry(delay)
  /\ UNCHANGED <<cache, agent, cancelledAt, counters>>

\* mutant: the whole delay is slept at once
Slice_Whole == chat.sleeping
\* mutant: the check interval is rounded down to nothing
Slice_Nothing == CheckInterval \div 2

\* _sleep_with_cancellation: one slice of the delay, then a look at the request.
Slice == IF chat.sleeping < CheckInterval THEN chat.sleeping ELSE CheckInterval

Sleep ==
  /\ chat.pc = "backoff"
  /\ clock' = clock + Slice
  /\ IF Cancelled THEN Raise("cancelled") ELSE Retry(chat.sleeping - Slice)
  /\ UNCHANGED <<cache, agent, cancelledAt, counters>>

-----------------------------------------------------------------------------
(* The rest of the process.                                                *)

Request ==
  /\ requests < MaxRequests
  /\ cancelledAt' = (IF Cancelled THEN cancelledAt ELSE clock) /\ requests' = requests + 1
  /\ UNCHANGED <<clock, cache, agent, chats, chat>>

Clear ==
  /\ Cancelled
  /\ cancelledAt' = Never
  /\ UNCHANGED <<clock, cache, agent, counters, chat>>

\* Another agent, or probe_provider_health, leaves its own result in the cache
\* under a key that this agent looks up.
OtherProbe(p) ==
  /\ clock < Horizon /\ p \notin Unusable
  /\ LET c == KeyOf(p) IN
     \E check \in HealthChecks(c, {}) :
       /\ check.status # "escaped"
       /\ cache' = [cache EXCEPT ![c] =
            IF check.status = "ready" THEN NoSnapshot
            ELSE [model |-> c[2], at |-> clock, retryable |-> check.status = "degraded"]]
  /\ UNCHANGED <<clock, agent, cancelledAt, counters, chat>>

\* Time between two chats.
Wait ==
  /\ chat.pc = "idle" /\ clock < Horizon
  /\ clock' = clock + 1
  /\ UNCHANGED <<cache, agent, cancelledAt, counters, chat>>

Work ==
  \/ Refuse \/ RecallUnhealthy \/ StartProbe
  \/ ProbeReady \/ ProbeEscapes
  \/ \E status \in {"degraded", "failing"} : ProbeUnhealthy(status)
  \/ GiveUp \/ Generate \/ Resend \/ Answered \/ Refused \/ Exhausted \/ Transient \/ Sleep

Others ==
  \/ Chat \/ Request \/ Clear \/ Wait
  \/ \E i \in DOMAIN Plan : OtherProbe(Plan[i][1])

Next == Work \/ Others

Spec == Init /\ [][Next]_vars

\* The runtime keeps executing a chat, and every request is answered or times out.
FairSpec == Spec /\ WF_vars(Work)
=============================================================================
