-------------------------- MODULE ProviderSettings --------------------------
(***************************************************************************)
(* The part of KYCortexConfig that a chat is governed by: how the settings *)
(* are normalised and validated, and the plan of candidates that they make *)
(* (config.py).  Whatever a user passes, an agent only ever sees settings  *)
(* that are normalised and valid: __post_init__ raises otherwise.          *)
(***************************************************************************)
EXTENDS Integers, SequencesExt

CONSTANTS
  Providers, Models,
  Blank,           \* a name that is empty once it is stripped
  Keyless,         \* providers that take no credentials
  Environment,     \* providers whose credentials the environment holds
  Given,           \* the names that the user passes
  MaxAttempts,     \* provider_max_attempts
  Backoff,         \* provider_retry_backoff_seconds
  MaxBackoff,      \* provider_retry_max_backoff_seconds
  Jitter,          \* provider_retry_jitter_ratio, 0 or 1
  CheckInterval,   \* provider_cancellation_check_interval_seconds
  AgentBudget,     \* provider_max_calls_per_agent, 0 for no limit
  ProviderBudget,  \* provider_max_calls_per_provider, 0 for no limit
  ElapsedBudget,   \* provider_max_elapsed_seconds_per_call, 0 for no limit
  Threshold,       \* provider_circuit_breaker_threshold, 0 to disable it
  Cooldown,        \* provider_circuit_breaker_cooldown_seconds
  HealthCooldown   \* provider_health_check_cooldown_seconds

Names == Models \cup {Blank}

\* The names in the settings: of the primary provider its model, further
\* candidates and an explicit key; the fallback providers and their models.
Named ==
  [primary : Providers, model : Names, candidates : Seq(Names), key : BOOLEAN,
   order : Seq(Providers \cup {Blank}), fallback : [Providers -> Seq(Names)]]

-----------------------------------------------------------------------------
(* Normalisation.                                                          *)

\* _normalize_model_sequence: every name once, in the order of its first place.
Normal(names) ==
  FoldLeft(LAMBDA seen, name : IF name = Blank \/ Contains(seen, name) THEN seen
                               ELSE Append(seen, name), <<>>, names)

\* What is left of the names without one of them.
Without(names, x) ==
  FoldLeft(LAMBDA kept, name : IF name = x THEN kept ELSE Append(kept, name), <<>>, names)

Normalised(s) ==
  [s EXCEPT !.candidates = Without(Normal(s.candidates), s.model),
            !.order      = Without(s.order, Blank),
            !.fallback   = [p \in Providers |-> Normal(s.fallback[p])]]

-----------------------------------------------------------------------------
(* Validation.                                                             *)

\* Every fallback provider is named once, is not the primary one, and has a model.
ValidFallbacks(s) ==
  /\ s.model # Blank
  /\ IsInjective(s.order) /\ s.primary \notin ToSet(s.order)
  /\ {p \in Providers : s.fallback[p] # <<>>} = ToSet(s.order)

ValidLimits ==
  /\ MaxAttempts \in Nat \ {0} /\ CheckInterval \in Nat \ {0}
  /\ {Backoff, MaxBackoff, AgentBudget, ElapsedBudget} \subseteq Nat
  /\ Jitter \in {0, 1}
  /\ ProviderBudget \in [Providers -> Nat]

\* A circuit that opens must close again.
ValidCircuit ==
  /\ {Threshold, Cooldown, HealthCooldown} \subseteq Nat
  /\ Threshold > 0 => Cooldown > 0

\* validate_runtime: no chat gets past a provider that lacks its credentials.
HasCredentials(s, p) ==
  p \in Keyless \/ p \in Environment \/ (p = s.primary /\ s.key)

-----------------------------------------------------------------------------
(* What agents ask of the settings.                                        *)

ModelsFor(s, p) ==
  IF p = s.primary THEN Normal(<<s.model>> \o s.candidates) ELSE Normal(s.fallback[p])

PairsOf(s, p) == [i \in DOMAIN ModelsFor(s, p) |-> <<p, ModelsFor(s, p)[i]>>]

\* provider_model_execution_plan
ExecutionPlan(s) ==
  FoldLeft(LAMBDA plan, p : plan \o PairsOf(s, p), PairsOf(s, s.primary), s.order)

\* provider_runtime_config without a model names the provider's first one.
RuntimeModel(s, p) == ModelsFor(s, p)[1]

Settings == Normalised(Given)

ASSUME SettingsAssumption ==
  /\ Blank \notin Models \cup Providers
  /\ Given \in Named /\ Keyless \cup Environment \subseteq Providers
  /\ ValidFallbacks(Settings) /\ ValidLimits /\ ValidCircuit
=============================================================================
