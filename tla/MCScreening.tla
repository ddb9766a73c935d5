---------------------------- MODULE MCScreening -----------------------------
EXTENDS Screening

MCTool == {
  [name |-> "github.list_issues", base |-> Low, keys |-> {"repository"}, results |-> {"issues"}],
  [name |-> "email.send", base |-> Medium, keys |-> {"body", "token"}, results |-> {"issues"}],
  [name |-> "database.query", base |-> Low, keys |-> {"query"}, results |-> {"issues"}]}

\* A list of the given nodes, one of whose fields may hold another.
ListOf(leaves) ==
  [p \in {<<>>, <<"issues">>} \cup {<<"issues", i>> : i \in DOMAIN leaves} |->
     CASE p = <<>> -> Dict [] Len(p) = 1 -> List [] Len(p) = 2 -> leaves[p[2]]]

Inner(v, path, leaf) == [p \in DOMAIN v \cup {path} |-> IF p = path THEN leaf ELSE v[p]]

MCArgument == {
  Object([repository |-> Text({})]),
  Object([repository |-> Text({"traversal"})]),
  Object([repository |-> Text({"credential", "ssrf"})]),
  Object([repository |-> Text({"credential", "bad_port"})]),
  Object([body |-> Text({}), token |-> Text({"credential", "bad_port"})]),
  Inner(Inner(Object([repository |-> List]), <<"repository", "0">>, Dict),
        <<"repository", "0", "token">>, List),
  Inner(Inner(Inner(Object([repository |-> List]), <<"repository", "0">>, List),
        <<"repository", "0", "0">>, List), <<"repository", "0", "0", "0">>, Null),
  Object([repository |-> [kind |-> "alien", marks |-> {}]]),
  Object([body |-> Text({}), token |-> Null]),
  Object([body |-> Text({"private_key"}), token |-> Text({})]),
  Object([query |-> Text({"SELECT"})]),
  Object([query |-> Text({"DROP", "statements"})]),
  Object([query |-> Null])}

One(leaf) == ListOf([i \in {"0"} |-> leaf])
Titled(leaf) == Inner(One(Dict), <<"issues", "0", "token">>, leaf)

MCResult == {
  One(Text({})), One(Text({"injection"})), One(Text({"credential"})),
  ListOf([i \in {"0", "1"} |-> Text({"credential"})]),
  One(Text({"credential", "bad_port"})), Titled(Text({})), Titled(Null),
  Inner(Titled(Dict), <<"issues", "0", "token", "0">>, Null),
  Inner(Titled(List), <<"issues", "0", "token", "0">>, Null),
  Inner(Inner(One(List), <<"issues", "0", "0">>, List), <<"issues", "0", "0", "0">>, Null),
  Object([issues |-> Text({"long"})]), Object([other |-> Text({"credential"})])}

R(name, priority, tools, conditions, act) ==
  [name |-> name, enabled |-> TRUE, priority |-> priority, tools |-> tools,
   conditions |-> conditions, action |-> act]

Names == {t.name : t \in MCTool}

MCRule == {
  R(1, 2, Names, [tool_equals |-> "github.list_issues"], "flag"),
  R(2, 2, {"database.query"}, [has_flag |-> "destructive_sql"], "block"),
  R(3, 1, Names, [risk_at_least |-> Low], "allow"),
  R(4, 1, {"github.list_issues"},
    [argument_path_matches |-> [path |-> <<"repository">>, mark |-> "traversal"]], "block"),
  R(4, 3, Names, [result_has_flag |-> "possible_indirect_prompt_injection"], "flag"),
  R(5, 0, Names, [argument_path_equals |-> [path |-> <<"token">>, value |-> Null],
                  tool_matches |-> {"email.send"}], "block")}

=============================================================================
