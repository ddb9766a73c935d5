---------------------------- MODULE MCAgentRuns ----------------------------
(* AgentRuns for TLC: one registry that can be offered, one with two names *)
(* for one, and replies of Ollama that ask for up to three tools, one of   *)
(* which is unknown, or are no response.                                   *)
EXTENDS AgentRuns, TLC

Models == [fake |-> {"default"}, ollama |-> {"default", "other"}]

Names == "github.list_issues" :> "github_list_issues" @@ "github_list.issues" :> "github_list_issues"
         @@ "mail" :> "mail"

StartRequests ==
  {[provider |-> "default", model |-> "default", prompt |-> {"issue", "email"}],
   [provider |-> "fake",    model |-> "other",   prompt |-> {}],
   [provider |-> "ollama",  model |-> "other",   prompt |-> {}]}

Tools(names) == {[name |-> n, version |-> 1, enabled |-> n # "mail"] : n \in names}

Registries == {Tools({"github.list_issues", "mail"}),
               Tools({"github.list_issues", "github_list.issues"})}

Called(name) == [function |-> "object", name |-> name, arguments |-> "string", id |-> "absent"]

Body(calls) == [message |-> "object", content |-> "null", calls |-> calls]

Answered(body) == [comes |-> TRUE, status |-> 200, fits |-> TRUE, json |-> TRUE, body |-> body]

Known   == Called("github_list_issues")
Unknown == Called("email_send")

Replies ==
  {Answered(Body(calls)) : calls \in
     {<<>>, <<Known>>, <<Unknown>>, <<Known, Known>>, <<Unknown, Known>>, <<Known, Known, Known>>,
      <<[Known EXCEPT !.arguments = "bad"]>>}}
  \cup {[Answered(Body(<<>>)) EXCEPT !.status = 404]}

=============================================================================
