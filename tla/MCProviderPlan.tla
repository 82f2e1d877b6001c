--------------------------- MODULE MCProviderPlan ---------------------------
(***************************************************************************)
(* The settings and the services that the run of ProviderPlan uses.        *)
(***************************************************************************)
EXTENDS ProviderProperties, TLC

CONSTANTS openai, ollama, anthropic, large, small

\* Two local candidates of the primary provider, a gateway, a dependable candidate
\* and one behind it, given in a form that has to be normalised.
GivenNames ==
  [primary |-> ollama, model |-> large, candidates |-> <<small, Blank, large, small>>,
   key |-> FALSE, order |-> <<anthropic, Blank, openai>>,
   fallback |-> anthropic :> <<large, large>> @@ openai :> <<Blank, large, small>>
                  @@ ollama :> <<>>]

PrimaryBudget == [p \in Providers |-> IF p = ollama THEN 1 ELSE 0]

Services == [p \in Providers |-> IF p = openai THEN "openai"
                                 ELSE IF p = ollama THEN "ollama" ELSE "anthropic"]

ModelSeries ==
  [c \in Candidates |-> IF c[1] = openai THEN "gpt-4o"
                        ELSE IF c[1] = ollama THEN "qwen3" ELSE "claude"]

\* OpenAI's service is dependable, but takes no temperature.
Picky == {<<openai, large>>}

Errors == {Reply("status", 400), Reply("status", 429), Reply("status", 503)}

Replies ==
  [p \in Providers |->
     IF p = openai THEN {Plain("text")}
     ELSE Errors \cup {Plain(k) : k \in {"text", "empty", "shapeless", "undecodable",
                                           "timeout", "connection", "unexpected"}}]

Lists ==
  [p \in Providers |->
     IF p = openai THEN {Plain("model")}
     ELSE Errors \cup {Plain(k) : k \in {"model", "others", "shapeless", "undecodable",
                                           "entryless", "garbled", "timeout"}}]

-----------------------------------------------------------------------------
(* The plan of small settings, against what it has to be.                  *)

Short(S) == UNION {[1..n -> S] : n \in 0..2}

GivenSets ==
  {s \in [primary : Providers, model : Names, candidates : Short(Names), key : {FALSE},
          order : Short(Providers \cup {Blank}),
          fallback : [Providers -> {<<>>, <<Blank>>, <<small, large>>, <<large, large>>}]] :
     ValidFallbacks(Normalised(s))}

\* A candidate stands in the plan before another one when its provider does,
\* and within a provider when it was named first.
Before(s, i, j) ==
  LET plan == ExecutionPlan(s)
      rank(p) == IF p = s.primary THEN 0 ELSE CHOOSE k \in DOMAIN s.order : s.order[k] = p
  IN  \/ rank(plan[i][1]) < rank(plan[j][1])
      \/ plan[i][1] = plan[j][1] /\ i < j

\* Every plan starts with the primary model, names no candidate twice, has a
\* candidate of each provider in use and none of another, in order.
ASSUME PlansAreOrdered ==
  \A given \in GivenSets :
    LET s == Normalised(given)
        plan == ExecutionPlan(s)
    IN  /\ plan[1] = <<s.primary, s.model>>
        /\ \A i, j \in DOMAIN plan : i # j => plan[i] # plan[j]
        /\ {plan[i][1] : i \in DOMAIN plan} =
             {s.primary} \cup {s.order[i] : i \in DOMAIN s.order}
        /\ \A i, j \in DOMAIN plan : i < j => Before(s, i, j)
=============================================================================
