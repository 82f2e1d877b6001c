-------------------------- MODULE ProviderClients --------------------------
(***************************************************************************)
(* The clients of the three model services: what a health check and a      *)
(* generate call make of the replies of a service (providers/              *)
(* openai_provider.py, anthropic_provider.py, ollama_provider.py), which   *)
(* failures are worth a retry (_error_classifier.py) and which models take *)
(* a temperature (model_capabilities.py).  ProviderPlan composes them.     *)
(***************************************************************************)
EXTENDS ProviderSettings

CONSTANTS
  Service,        \* the service behind a provider
  Series,         \* the model family a candidate belongs to
  CustomUrl,      \* providers that are reached at a base URL of one's own
  Listable,       \* providers whose client can list models (Ollama always can)
  PickyAbout,     \* candidates whose service rejects a temperature
  Answers,        \* how the service of a provider may reply to a prompt
  Listings        \* how it may reply when asked for its models

Candidates == Providers \X Models

\* A reply is a text, a payload without one, a failure of the transport, or an
\* HTTP error with its status; to a request for models, the model or others.
Kinds == {"text", "empty", "shapeless", "timeout", "connection", "unexpected",
          "undecodable", "status", "temperature",
          "model", "others", "entryless", "garbled"}
Reply(kind, status) == [kind |-> kind, status |-> status]
Plain(kind) == Reply(kind, 0)

ASSUME ClientsAssumption ==
  /\ Service \in [Providers -> {"openai", "anthropic", "ollama"}]
  /\ CustomUrl \subseteq Providers /\ Listable \subseteq Providers
  /\ PickyAbout \subseteq Candidates
  /\ \A p \in Providers : \A r \in Answers[p] \cup Listings[p] :
       r.kind \in Kinds \ {"temperature"} /\ r.status \in Nat

\* A status is that of an HTTP error.
ASSUME StatusAssumption ==
  \A p \in Providers : \A r \in Answers[p] \cup Listings[p] :
    r.status > 0 => r.kind = "status"

-----------------------------------------------------------------------------
(* _error_classifier.py and model_capabilities.py                          *)

RetryableStatus(status) == status \in {408, 409, 425, 429} \/ status \in 500..599

\* A status decides alone; without one the kind of the exception does.
IsTransient(reply) ==
  IF reply.status > 0 THEN RetryableStatus(reply.status)
  ELSE reply.kind \in {"timeout", "connection"}

IsPayload(reply) == reply.kind \in {"text", "empty", "shapeless"}

\* The registry's rows for OpenAI, exact names and patterns alike: the
\* families without a temperature.
OpenAIWithoutTemperature == {"gpt-5", "o1", "o3", "o4"}

\* Every other row and every default takes one.
TakesTemperature(c) ==
  ~(Service[c[1]] = "openai" /\ Series[c] \in OpenAIWithoutTemperature)

-----------------------------------------------------------------------------
(* The requests.                                                           *)

\* Whether a client sends its temperature: unless the registry knows better, or
\* the client has learnt better from the service.
Carries(c, learned) == TakesTemperature(c) /\ c \notin learned

\* What the service may reply to a prompt: a temperature it does not support is
\* rejected, unless the request fails on its way.
RepliesTo(c, carries) ==
  IF carries /\ c \in PickyAbout
  THEN {r \in Answers[c[1]] : ~IsPayload(r)} \cup {Reply("temperature", 400)}
  ELSE Answers[c[1]]

\* mutant: the request that was rejected is repeated by nobody
Generated_Once(c, reply) ==
  IF reply.kind = "text" THEN "response"
  ELSE IF IsTransient(reply) THEN "transient"
  ELSE "refused"

\* generate() of a client for one reply.  Only OpenAI's learns from a
\* rejected temperature and sends the request again without it.
Generated(c, reply) ==
  IF reply.kind = "text" THEN "response"
  ELSE IF reply.kind = "temperature" /\ Service[c[1]] = "openai" THEN "resend"
  ELSE IF IsTransient(reply) THEN "transient"
  ELSE "refused"

\* _read_health_payload: Ollama's list of models must be a JSON object in UTF-8.
Unread(listing) ==
  IF IsTransient(listing) THEN "transient"
  ELSE IF listing.kind \in {"shapeless", "undecodable", "status"} THEN "refused"
  ELSE IF listing.kind \in {"garbled", "unexpected"} THEN "raised"
  ELSE "none"

\* The outcomes of one generate call and the requests they cost.  Ollama's
\* client asks for the list of models first, whatever the list says.
Generations(c, learned) ==
  LET answered(n) == {[result |-> Generated(c, r), requests |-> n] :
                        r \in RepliesTo(c, Carries(c, learned))}
      unread == {Unread(l) : l \in Listings[c[1]]}
  IN  IF Service[c[1]] # "ollama" THEN answered(1)
      ELSE {[result |-> IF u = "transient" THEN u ELSE "refused", requests |-> 1] :
              u \in unread \ {"none"}}
           \cup (IF "none" \in unread THEN answered(2) ELSE {})

-----------------------------------------------------------------------------
(* The health checks.                                                      *)

\* The clients of OpenAI and Anthropic: a list without the model is a failure,
\* and so is everything that cannot be read as a list.
Listed(reply) ==
  IF reply.kind = "model" THEN "ready"
  ELSE IF IsTransient(reply) THEN "degraded" ELSE "failing"

\* Anthropic's client behind a base URL sends a message as well, with a
\* temperature; what the reply says is not looked at.
LiveProbe(reply) ==
  IF IsPayload(reply) THEN "ready"
  ELSE IF IsTransient(reply) THEN "degraded" ELSE "failing"

\* Ollama's client: what is not caught below it leaves the health check as it is.
Tagged(reply) ==
  CASE Unread(reply) = "transient" -> "degraded"
    [] Unread(reply) = "refused" -> "failing"
    [] Unread(reply) = "raised" \/ reply.kind = "entryless" -> "escaped"
    [] OTHER -> IF reply.kind = "model" THEN "ready" ELSE "failing"

ProbedLive(p) == Service[p] = "anthropic" /\ p \in CustomUrl

\* The outcomes of one health check and the requests they cost.
HealthChecks(c, learned) ==
  LET p == c[1]
      check(status, n) == [status |-> status, requests |-> n]
      listed == {Listed(l) : l \in Listings[p]}
  IN  IF Service[p] = "ollama" THEN {check(Tagged(l), 1) : l \in Listings[p]}
      ELSE IF p \notin Listable THEN {check("ready", 0)}
      ELSE IF ~ProbedLive(p) THEN {check(s, 1) : s \in listed}
      ELSE {check(s, 1) : s \in listed \ {"ready"}}
           \cup (IF "ready" \in listed
                 THEN {check(LiveProbe(r), 2) : r \in RepliesTo(c, Carries(c, learned))}
                 ELSE {})

\* A provider whose service answers every request; only the client of OpenAI is
\* expected to cope with one that is particular about the temperature.
IsReliable(p) ==
  /\ \A r \in Answers[p] : r.kind = "text"
  /\ \A l \in Listings[p] : l.kind = "model"
  /\ Service[p] = "openai" \/ \A c \in PickyAbout : c[1] # p

\* Nothing that a chat may need of a provider is missing or limited.
IsDependable(p) == IsReliable(p) /\ HasCredentials(Settings, p) /\ ProviderBudget[p] = 0
=============================================================================
