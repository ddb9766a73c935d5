-------------------------- MODULE AttackScenarios ---------------------------
(***************************************************************************)
(* The static scenarios of the Attack Lab, what the pipeline answers to    *)
(* the call of each, and the verdict of the assertions.                    *)
(***************************************************************************)
EXTENDS SecurityPolicy

CONSTANT ToolTimeout   \* default_tool_timeout_seconds

ASSUME TimeoutAssumption == ToolTimeout \in Nat \ {0}

\* No expectation, or nothing observed.
None == "none"
Unrated == -1

Expect(http, status, decision, risk, flags, called) ==
  [http |-> http, status |-> status, decision |-> decision, risk |-> risk, flags |-> flags,
   called |-> called, replayed |-> FALSE]

Attack(id, tool, arguments, expected) ==
  [id |-> id, tool |-> tool, arguments |-> arguments, expected |-> expected,
   setup |-> None, cleanup |-> None, leak |-> FALSE]

OpenIssues == Object([repository |-> Text({}), state |-> Text({})])

SafeGithubRead == Attack("safe-github-read", "github.list_issues", OpenIssues,
  Expect(200, "succeeded", "allow", Low, {}, TRUE))

SensitiveEmailInput == Attack("sensitive-email-input", "email.send",
  Object([body |-> Text({"credential"}), recipient |-> Text({}), subject |-> Text({})]),
  Expect(200, "succeeded", "flag", High, {"sensitive_input"}, TRUE))

DestructiveSql == Attack("destructive-sql", "database.query", Object([query |-> Text({"DROP"})]),
  Expect(403, "blocked", "block", Critical, {"destructive_sql"}, FALSE))

MultipleSqlStatements == Attack("multiple-sql-statements", "database.query",
  Object([query |-> Text({"SELECT", "statements"})]),
  Expect(403, "blocked", "block", Critical, {"multiple_sql_statements"}, FALSE))

InvalidArguments == Attack("invalid-arguments", "github.list_issues",
  Object([repository |-> Text({})]), Expect(422, None, None, Unrated, {}, FALSE))

UnknownTool == Attack("unknown-tool", "shell.execute", Object([command |-> Text({})]),
  Expect(404, None, None, Unrated, {}, FALSE))

DisabledTool ==
  [Attack("disabled-tool", "github.list_issues", OpenIssues,
     Expect(409, None, None, Unrated, {}, FALSE)) EXCEPT !.setup = "disable", !.cleanup = "enable"]

IndirectPromptInjection == Attack("indirect-prompt-injection", "github.list_issues", OpenIssues,
  Expect(200, "succeeded", "flag", High, {"possible_indirect_prompt_injection"}, TRUE))

SecretInOutput ==
  [Attack("secret-in-output", "github.list_issues", OpenIssues,
     Expect(200, "succeeded", "flag", High, {"sensitive_output"}, TRUE)) EXCEPT !.leak = TRUE]

PersistentReplay ==
  [Attack("persistent-replay", "github.list_issues", OpenIssues,
     Expect(200, "succeeded", "allow", Low, {}, TRUE)) EXCEPT !.expected.replayed = TRUE]

AdapterTimeout ==
  [Attack("adapter-timeout", "github.list_issues", OpenIssues,
     Expect(504, "timed_out", None, Unrated, {}, TRUE)) EXCEPT !.setup = "slow"]

AdapterFailure ==
  [Attack("adapter-failure", "github.list_issues", OpenIssues,
     Expect(502, "failed", None, Unrated, {}, TRUE)) EXCEPT !.setup = "failing", !.leak = TRUE]

SCENARIOS == {SafeGithubRead, SensitiveEmailInput, DestructiveSql, MultipleSqlStatements,
  InvalidArguments, UnknownTool, DisabledTool, IndirectPromptInjection, SecretInOutput,
  PersistentReplay, AdapterTimeout, AdapterFailure}

\* The adapter that _apply_adapter_overrides puts in the place of mock_github.
Override(s) ==
  CASE s.setup \in {"slow", "failing"}        -> s.setup
    [] s.leak /\ s.setup # "failing"          -> "leaking"
    [] s.id = "indirect-prompt-injection"     -> "injecting"
    [] OTHER                                  -> None

-----------------------------------------------------------------------------
(* The seed, in its order                                                  *)

SeedTool == <<
  [name |-> "github.list_issues", base |-> Low, keys |-> {"repository", "state"}],
  [name |-> "email.send", base |-> Medium, keys |-> {"recipient", "subject", "body"}],
  [name |-> "database.query", base |-> Low, keys |-> {"query"}]>>

Names == {SeedTool[i].name : i \in DOMAIN SeedTool}

SeedRule ==
  LET rule(name, priority, tools, conditions, action) ==
        [name |-> name, enabled |-> TRUE, priority |-> priority, tools |-> tools,
         conditions |-> conditions, action |-> action]
  IN <<rule(1, 100, {"database.query"}, [has_flag |-> "destructive_sql"], "block"),
       rule(2, 110, {"database.query"}, [has_flag |-> "multiple_sql_statements"], "block"),
       rule(3, 50, {"email.send"}, [has_flag |-> "sensitive_input"], "flag"),
       rule(4, 50, Names, [result_has_flag |-> "possible_indirect_prompt_injection"], "flag")>>

-----------------------------------------------------------------------------
(* The call                                                                *)

IssueTitled(title) ==
  [p \in {<<>>, <<"issues">>, <<"issues", "0">>, <<"issues", "0", "title">>} |->
     CASE p = <<>> -> Dict [] Len(p) = 1 -> List [] Len(p) = 2 -> Dict [] OTHER -> title]

SlowDelay == 5

\* How an adapter ends, and its value if it returns one.  The database supports no query of a
\* scenario.
Execution(tool, override) ==
  LET returns(v) == [ends |-> "returns", value |-> v]
      fails(how) == [ends |-> how, value |-> Empty]
  IN CASE tool = "email.send"     -> returns(Object([message_id |-> Text({}), status |-> Text({})]))
       [] tool = "database.query" -> fails("failed")
       [] tool = "github.list_issues" /\ override = "failing"   -> fails("failed")
       [] tool = "github.list_issues" /\ override = "slow"      ->
            IF ToolTimeout < SlowDelay THEN fails("timed_out") ELSE returns(Object([issues |-> List]))
       [] tool = "github.list_issues" /\ override = "leaking"   ->
            returns(IssueTitled(Text({"credential"})))
       [] tool = "github.list_issues" /\ override = "injecting" ->
            returns(IssueTitled(Text({"injection"})))
       [] tool = "github.list_issues" /\ override = None        -> returns(IssueTitled(Text({})))

\* What is stored of a call and answered.  "secret": the answer holds a secret the redactor knows.
Record(http, status, decision, risk, flags, secret) ==
  [http |-> http, status |-> status, decision |-> decision, risk |-> risk, flags |-> flags,
   secret |-> secret]

Nothing(http) == Record(http, None, None, Unrated, {}, FALSE)

StatusCode == [failed |-> 502, timed_out |-> 504]

\* The call of a scenario: the first tools of the seed are registered and the first of its rules
\* are in the table; "on": the tool is enabled.
CallOf(s, tools, on, rules, override) ==
  LET tool     == SeedTool[CHOOSE i \in DOMAIN SeedTool : SeedTool[i].name = s.tool]
      flags    == InputFlags(s.tool, s.arguments, Findings(s.arguments))
      level    == LevelOf(tool.base, flags)
      matches(l, f, phase) ==
        {SeedRule[i].action : i \in {j \in 1..rules : Matches(SeedRule[j],
           [tool |-> s.tool, level |-> l, flags |-> f, arguments |-> Redact(s.arguments)], phase)}}
      input    == matches(level, flags, FALSE)
      verdict  == IF flags # {} \/ "flag" \in input THEN "flag" ELSE "allow"
      run      == Execution(s.tool, override)
      answer   == Redact(run.value)
      found    == OutputFlags(answer, Findings(run.value))
      risk     == LevelOf(level, found)
      output   == matches(risk, found, TRUE)
  IN IF s.tool \notin {SeedTool[i].name : i \in 1..tools} THEN Nothing(404)
     ELSE IF ~on THEN Nothing(409)
     ELSE IF DOMAIN s.arguments \ {<<>>} # {<<k>> : k \in tool.keys}
       THEN Record(422, "rejected", "reject", tool.base, {}, FALSE)
     ELSE IF "block" \in input THEN Record(403, "blocked", "block", level, flags, FALSE)
     ELSE IF run.ends # "returns"
       THEN Record(StatusCode[run.ends], run.ends, verdict, level, flags, FALSE)
     ELSE Record(200, "succeeded", IF found # {} \/ "flag" \in output THEN "flag" ELSE verdict,
                 risk, flags \cup found, ~Clean(answer))

\* The body of an error says nothing of the call, but that of a blocked one does.
Answer(row) == IF row.http \in {200, 403} THEN row ELSE Nothing(row.http)

-----------------------------------------------------------------------------
(* The verdict                                                             *)

AdapterCalled(s, seen) ==
  CASE seen.status = "blocked"                              -> "no"
    [] seen.status \in {"succeeded", "failed", "timed_out"} -> "yes"
    [] OTHER -> IF seen.http \in {404, 409, 422} \/ ~s.expected.called THEN "no" ELSE "unknown"

\* _build_assertions.  The answer does not say whether it was replayed.
Passes(s, seen) ==
  LET e == s.expected IN
  /\ seen.http = e.http
  /\ e.status # None => seen.status = e.status
  /\ e.decision # None => seen.decision = e.decision
  /\ e.risk # Unrated => seen.risk = e.risk
  /\ e.flags \subseteq seen.flags
  /\ AdapterCalled(s, seen) = (IF e.called THEN "yes" ELSE "no")
  /\ e.replayed => seen.status = e.status
  /\ ~seen.secret

-----------------------------------------------------------------------------
(* The properties of the scenarios                                         *)

\* The call of a scenario with the whole seed in place, the tool as its setup leaves it and the
\* adapter that it asks for.
Made(s) == CallOf(s, 3, s.setup # "disable" \/ s.tool # "github.list_issues", 4, Override(s))

\* What a run finds out of it: a call that was not claimed is only answered.
Observed(s) ==
  LET made == Made(s) IN
  IF made.http \in {200, 403} \/ made.status # None THEN made ELSE Nothing(made.http)

\* The slow adapter must be slower than the timeout.
Untimed(s) == s = AdapterTimeout /\ SlowDelay <= ToolTimeout

\* Every scenario passes against the pipeline that it was written for.
PipelinePasses == \A s \in SCENARIOS : Passes(s, Observed(s)) \/ Untimed(s)

=============================================================================
