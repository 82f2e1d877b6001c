--------------------------- MODULE CircuitBreaker ---------------------------
(***************************************************************************)
(* What a circuit breaker promises of one provider, whatever the plan, the *)
(* retries and the budgets: while it is open nobody is asked; it opens     *)
(* after a failure, gives way to a trial when its time is over, and closes *)
(* only on a provider's answer.  ProviderPlan implements one per provider. *)
(***************************************************************************)
VARIABLES
  phase,  \* "closed", "open", or "trial": the cool-down is over
  asked   \* the provider is being probed or called

breaker == <<phase, asked>>

BreakerInit == phase = "closed" /\ asked = FALSE

\* A provider whose circuit is open is left alone.
Ask == ~asked /\ phase # "open" /\ asked' = TRUE /\ UNCHANGED phase

\* Whatever the answer was, the circuit may stay as it is.
Return == asked /\ asked' = FALSE /\ UNCHANGED phase

\* An answer closes the circuit, also one that refuses the request.
Close == asked /\ phase # "open" /\ phase' = "closed" /\ asked' = FALSE

\* A failure opens it; one that is only remembered does so, too.
Trip == phase # "open" /\ phase' = "open" /\ asked' = FALSE

CoolDown == phase = "open" /\ phase' = "trial" /\ UNCHANGED asked

BreakerNext == Ask \/ Return \/ Close \/ Trip \/ CoolDown

BreakerSpec == BreakerInit /\ [][BreakerNext]_breaker
=============================================================================
