--------------------------- MODULE AgentProviders ---------------------------
(***************************************************************************)
(* What a provider is offered and what it makes of a turn: the choice of   *)
(* the provider of a run, build_provider_tools, FakeAgentProvider and      *)
(* OllamaAgentProvider.  A turn ends in the names of the tools that are    *)
(* asked for, or in no response.                                           *)
(***************************************************************************)
EXTENDS Naturals, Sequences, FiniteSets, FiniteSetsExt

CONSTANTS
  AllowedModels,     \* of each configured provider: ollama_allowed_models, fake_agent_allowed_models
  DefaultProvider,   \* AGENT_PROVIDER
  PublicName,        \* _normalize_tool_name, of every name a tool may be registered under
  MaxExposedTools,   \* AGENT_MAX_EXPOSED_TOOLS
  NoName,            \* where it raises
  NoResponse         \* of a provider that raises

ASSUME ProviderAssumption ==
  /\ DOMAIN AllowedModels \subseteq {"fake", "ollama"}
  /\ DefaultProvider \in DOMAIN AllowedModels
  /\ \A p \in DOMAIN AllowedModels : "default" \in AllowedModels[p]
ASSUME ExposureAssumption == MaxExposedTools \in Nat

-----------------------------------------------------------------------------
(* The provider and the tools of a run                                     *)

ProviderOf(request) == IF request.provider = "default" THEN DefaultProvider ELSE request.provider

\* _resolve_provider finds a provider, and the model is in its allowlist, as the default one is.
Permitted(request) ==
  /\ ProviderOf(request) \in DOMAIN AllowedModels
  /\ request.model \in AllowedModels[ProviderOf(request)]

\* _enabled_tools
Enabled(registry) == {t \in registry : t.enabled}

\* A name that has two versions, and two names that are normalized to one, cannot be told apart in
\* what the provider answers; a name that is no function name cannot be offered.
Offerable(registry) ==
  /\ Cardinality(Enabled(registry)) <= MaxExposedTools
  /\ \A t, u \in Enabled(registry) : t # u => PublicName[t.name] # PublicName[u.name]
  /\ \A t \in Enabled(registry) : PublicName[t.name] # NoName

\* The names the provider may ask for.
Offer(registry) == {PublicName[t.name] : t \in Enabled(registry)}

-----------------------------------------------------------------------------
(* The fake provider                                                       *)

\* The words it looks for in the prompt, in its order, and what it asks for then.
FakeScript ==
  <<[words |-> {"issue"}, tool |-> "github_list_issues"],
    [words |-> {"drop", "delete", "table"}, tool |-> "database_query"],
    [words |-> {"email"}, tool |-> "email_send"]>>

\* One tool at most, and none once the conversation holds the result of one.
FakeResponse(prompt, offered, processed) ==
  LET fits == {i \in DOMAIN FakeScript : /\ FakeScript[i].words \cap prompt # {}
                                         /\ FakeScript[i].tool \in offered}
  IN IF processed \/ fits = {} THEN <<>> ELSE <<FakeScript[Min(fits)].tool>>

-----------------------------------------------------------------------------
(* Ollama                                                                  *)

\* A reply: whether it comes, its HTTP status, whether it fits max_response_bytes, and its body.
\* A member of the body that is read stands for the JSON kind of its value; the name of a function
\* stands for itself when it is a string.
Kind == {"absent", "null", "string", "number", "list", "object", "bad"}

\* One element of tool_calls.  Arguments may be a string that holds JSON: "string" decodes to an
\* object, "bad" does not.  The constructor of RequestedToolCall refuses an empty name.
WellFormedCall(raw) ==
  /\ raw.function = "object"
  /\ raw.name \notin Kind \cup {""}
  /\ raw.arguments \in {"absent", "string", "object"}
  /\ raw.id \in {"absent", "null", "string"}

\* _parse_ollama_response: a body with one call that is not well formed is no response at all.
Parsed(body) ==
  IF /\ body.message = "object"
     /\ body.content \in {"absent", "null", "string"}
     /\ \A i \in DOMAIN body.calls : WellFormedCall(body.calls[i])
  THEN [i \in DOMAIN body.calls |-> body.calls[i].name]
  ELSE NoResponse

\* OllamaAgentProvider.complete: a timeout, a transport error, a missing model, any other refusal,
\* an answer that is too long or no JSON are all errors.
OllamaResponse(reply) ==
  IF reply.comes /\ reply.status < 400 /\ reply.fits /\ reply.json
  THEN Parsed(reply.body)
  ELSE NoResponse

=============================================================================
