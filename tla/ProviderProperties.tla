------------------------- MODULE ProviderProperties -------------------------
(***************************************************************************)
(* What users of BaseAgent.chat rely on.                                   *)
(***************************************************************************)
EXTENDS ProviderPlan

InFlight == chat.pc \in {"probe", "generate"}

Phase(p) ==
  IF openUntil[p] = 0 THEN "closed"
  ELSE IF clock < openUntil[p] THEN "open" ELSE "trial"

Breaker(p) == INSTANCE CircuitBreaker WITH
  phase <- Phase(p), asked <- InFlight /\ Provider = p

\* Every provider's circuit is a circuit breaker, also for several candidates
\* of one provider and with probes answered from the cache: nothing is sent to
\* a provider whose circuit is open, and only its answer closes it.
ImplementsBreaker ==
  /\ \A p \in Providers : Breaker(p)!BreakerInit
  /\ [][\A p \in Providers : [Breaker(p)!BreakerNext]_(Breaker(p)!breaker)]_vars

\* No mixture of retries, fallbacks and chats exceeds a call budget.
BudgetsKept ==
  /\ AgentBudget > 0 => calls <= AgentBudget
  /\ \A p \in Providers : ProviderBudget[p] > 0 => callsOf[p] <= ProviderBudget[p]

\* Every candidate before the one at hand has an entry that says why it was
\* left, in the order of the plan: none is passed over silently.
TrailIsComplete ==
  /\ Len(chat.trail) = chat.index - 1
  /\ \A i \in DOMAIN chat.trail : chat.trail[i][1] = Plan[i][1]

\* A circuit that has opened has seen a full streak of failures since the
\* provider answered last, and a disabled breaker never opens.
OpenNeedsStreak ==
  \A p \in Providers :
    openUntil[p] > 0 => Threshold > 0 /\ streak[p] >= Threshold

\* A provider reported as healthy, or as ready, has no failures counted against it.
HealthyHasNoStreak ==
  \A p \in Providers : HealthStatus(p, clock) \in {"healthy", "ready"} => streak[p] = 0

\* A request to cancel ends the chat at the latest when the call that was under
\* way has come back, two requests at most, and one slice of the backoff is over.
CancelIsPrompt ==
  [][Cancelled /\ chat.pc # "idle"
       => \/ clock' - cancelledAt <= 2 * Latency + CheckInterval
          \/ clock' - chat.startedAt <= 2 * Latency + CheckInterval]_vars

\* A backoff is slept only when the time budget lets the retry be made.
SleepIsUseful ==
  [][chat.pc = "backoff" /\ chat'.pc = "attempt" /\ ElapsedBudget > 0
       => clock' - chat'.startedAt < ElapsedBudget]_vars

\* A chat that comes to a candidate that can be depended on ends there: with its
\* answer, also if it does not take the temperature, or because the chat was
\* cancelled or the agent's own calls or time are used up.  A chat that ends before
\* it does not end for a failure that the fallback is there for: a retryable error,
\* an unhealthy provider, an open circuit or a provider's call budget.  It may end
\* there for anything else: a candidate that refuses the request, an unexpected reply
\* to its health check, its missing credentials, and the agent's budgets, which
\* the candidates before the dependable one use up as well.
ReliableAnswers ==
  \A i \in DOMAIN Plan : IsDependable(Plan[i][1]) =>
    /\ chat.index <= i
    /\ chat.index < i => chat.outcome \notin Skips
    /\ chat.index = i =>
         \/ chat.outcome \in {"none", "response", "cancelled"}
         \/ chat.outcome = "call_budget" /\ AgentBudgetSpent
         \/ chat.outcome = "elapsed" /\ ElapsedBudgetSpent

\* Every chat ends.
ChatEnds == chat.pc # "idle" ~> chat.pc = "idle"

\* The books of the plan are kept: together, and whatever the probes, retries
\* and fallbacks of earlier chats have left behind, the trail is complete, no
\* budget is exceeded, and circuits and health agree with the streaks.
BooksAreKept ==
  TypeOK /\ TrailIsComplete /\ BudgetsKept /\ OpenNeedsStreak /\ HealthyHasNoStreak
=============================================================================
