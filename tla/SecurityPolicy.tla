--------------------------- MODULE SecurityPolicy ---------------------------
(***************************************************************************)
(* What the security pipeline computes: the limits of payloads, redaction, *)
(* risk classification and the conditions of rules.                        *)
(*                                                                         *)
(* A JSON value is a function from the paths of its nodes, sequences of    *)
(* keys, to the nodes; its root is at <<>>, and the parent of a node is a  *)
(* container.  Of a string only the marks are kept that a pattern of the   *)
(* code looks for.                                                         *)
(***************************************************************************)
EXTENDS Integers, Sequences, FiniteSets

CONSTANTS
  MaxDepth,            \* max_json_depth
  MaxRedactionDepth,   \* max_redaction_depth
  MaxRedactionNodes,   \* max_redaction_nodes
  MaxStoredDepth,      \* MAX_JSON_DEPTH of domain/common.py
  MaxStoredBytes       \* MAX_JSON_BYTES of domain/common.py

ASSUME LimitsAssumption ==
  {MaxDepth, MaxRedactionDepth, MaxRedactionNodes, MaxStoredDepth, MaxStoredBytes}
    \subseteq Nat \ {0}

-----------------------------------------------------------------------------
(* Values                                                                  *)

Dict      == [kind |-> "dict", marks |-> {}]
List      == [kind |-> "list", marks |-> {}]
Null      == [kind |-> "null", marks |-> {}]
Text(m)   == [kind |-> "text", marks |-> m]
Redacted  == Text({"redacted"})
Empty     == [p \in {<<>>} |-> Dict]

\* A dict of the given leaves.
Object(leaves) ==
  [p \in {<<>>} \cup {<<k>> : k \in DOMAIN leaves} |-> IF p = <<>> THEN Dict ELSE leaves[p[1]]]

LastOf(path) == path[Len(path)]
Parent(path) == SubSeq(path, 1, Len(path) - 1)
Inside(path, outer) == Len(outer) < Len(path) /\ SubSeq(path, 1, Len(outer)) = outer

\* The nodes of a value form a tree; "alien" is what JSON cannot hold.  Only strings have marks, and
\* an empty one has no other.
IsValue(v) ==
  /\ DOMAIN v \subseteq Seq(STRING)
  /\ \A p \in DOMAIN v :
       /\ p # <<>> => Parent(p) \in DOMAIN v /\ v[Parent(p)].kind \in {"dict", "list"}
       /\ v[p] \in [kind: {"dict", "list", "null", "text", "alien"}, marks: SUBSET STRING]
       /\ v[p].kind # "text" => v[p].marks = {}
       /\ "empty" \in v[p].marks => v[p].marks = {"empty"}

\* json_path_value: None where there is no such node.
ValueAt(v, path) == IF path \in DOMAIN v THEN v[path] ELSE Null

\* The size of the encoding: what replaces a secret may be longer than the secret.
Bytes(v) == Cardinality(DOMAIN v) + Cardinality({p \in DOMAIN v : "redacted" \in v[p].marks})

\* The errors canonicalize_json may raise: of several faults the one that the traversal meets
\* first, and the size of the encoding comes last.
Faults(v, maxBytes) ==
  LET met == {f \in {"too_deep", "too_long", "not_json"} :
                \E p \in DOMAIN v :
                  CASE f = "too_deep" -> Len(p) > MaxDepth
                    [] f = "too_long" -> "long" \in v[p].marks
                    [] f = "not_json" -> v[p].kind = "alien"}
  IN IF met = {} /\ Bytes(v) > maxBytes THEN {"too_large"} ELSE met

Deeper(v, depth) == \E p \in DOMAIN v : Len(p) > depth

-----------------------------------------------------------------------------
(* Redaction                                                               *)

SensitiveName == {"password", "token", "api_key"}

\* The value of a sensitive key is replaced, whatever it is.
NamedSecret(v, p) ==
  /\ p # <<>> /\ LastOf(p) \in SensitiveName
  /\ v[Parent(p)].kind = "dict"
  /\ v[p].kind # "null" /\ "empty" \notin v[p].marks

\* Mutant of Visited: what a list holds is not visited.
VisitedOutsideLists(v) ==
  {p \in DOMAIN v : \A q \in DOMAIN v : Inside(p, q) => ~NamedSecret(v, q) /\ v[q].kind # "list"}

\* The nodes the redactor comes to: it does not enter what it replaces.
Visited(v) == {p \in DOMAIN v : \A q \in DOMAIN v : Inside(p, q) => ~NamedSecret(v, q)}

\* A credential or a JWT is replaced in the string, a private key takes the string with it.
Secrets == {"credential", "private_key"}

Findings(v) == {p \in Visited(v) : NamedSecret(v, p) \/ v[p].marks \cap Secrets # {}}

RedactionFails(v) ==
  Cardinality(Visited(v)) > MaxRedactionNodes \/ \E p \in Visited(v) : Len(p) > MaxRedactionDepth

\* A URL with a password and a port that is no number from 0 to 65535: to read its port raises a
\* ValueError that nothing on the way handles.
RedactionRaises(v) ==
  \E p \in Visited(v) :
    "bad_port" \in v[p].marks /\ "private_key" \notin v[p].marks /\ ~NamedSecret(v, p)

Redact(v) ==
  [p \in {q \in DOMAIN v : \A o \in DOMAIN v : Inside(q, o) => ~NamedSecret(v, o)} |->
     IF p \notin Findings(v) THEN v[p]
     ELSE IF NamedSecret(v, p) \/ "private_key" \in v[p].marks THEN Redacted
     ELSE Text((v[p].marks \ Secrets) \cup {"redacted"})]

\* No secret the redactor knows is left.
Clean(v) == \A p \in DOMAIN v :
  v[p].marks \cap Secrets = {} /\ (NamedSecret(v, p) => v[p] = Redacted)

-----------------------------------------------------------------------------
(* Risk                                                                    *)

Low == 0
Medium == 1
High == 2
Critical == 3

\* The severity that each classifier gives a flag.
Severity == [
  write_operation                    |-> Medium,
  external_side_effect               |-> Medium,
  sensitive_input                    |-> High,
  sensitive_output                   |-> High,
  write_sql                          |-> High,
  unknown_operation                  |-> High,
  possible_command_injection         |-> High,
  possible_path_traversal            |-> High,
  possible_indirect_prompt_injection |-> High,
  destructive_sql                    |-> Critical,
  multiple_sql_statements            |-> Critical,
  possible_ssrf_target               |-> Critical]

Flag == DOMAIN Severity

\* risk_max of a level and of the severities of the flags.
LevelOf(base, flags) ==
  CHOOSE l \in {base} \cup {Severity[f] : f \in flags} :
    base <= l /\ \A f \in flags : Severity[f] <= l

\* The flags a set of findings stands for.
Raised(table) == {f \in DOMAIN table : table[f]}

\* A string is marked with the operation of its first statement, and with "statements" if it
\* holds more than one.
SqlFlags(query) ==
  LET has(marks) == query.marks \cap marks # {} IN
  IF query.kind # "text" THEN {"unknown_operation"}
  ELSE Raised([
    multiple_sql_statements |-> has({"statements"}),
    write_sql       |-> has({"INSERT", "UPDATE", "DELETE", "CREATE", "GRANT", "REVOKE"}),
    destructive_sql |-> has({"DELETE", "DROP", "TRUNCATE", "ALTER"}),
    unknown_operation |-> ~has({"SELECT", "INSERT", "UPDATE", "DELETE", "CREATE", "GRANT",
                                "REVOKE", "DROP", "TRUNCATE", "ALTER"})])

\* The marks of all the strings of a value.
MarksOf(v) == UNION {v[p].marks : p \in DOMAIN v}

GenericFlags(v) == Raised([
  possible_command_injection |-> "command" \in MarksOf(v),
  possible_path_traversal    |-> "traversal" \in MarksOf(v),
  possible_ssrf_target       |-> "ssrf" \in MarksOf(v)])

\* classify_input: of the arguments as they came, with the findings of their redaction.
InputFlags(tool, arguments, findings) ==
  (IF findings # {} THEN {"sensitive_input"} ELSE {}) \cup
  (IF tool = "email.send" THEN {"write_operation", "external_side_effect"}
   ELSE IF tool = "database.query" THEN SqlFlags(ValueAt(arguments, <<"query">>))
   ELSE GenericFlags(arguments))

\* classify_output: of the sanitized result.
OutputFlags(value, findings) == Raised([
  sensitive_output                   |-> findings # {},
  possible_indirect_prompt_injection |-> "injection" \in MarksOf(value)])

-----------------------------------------------------------------------------
(* Rules                                                                   *)

\* What a rule is evaluated on: the tool, the risk level, the flags and the redacted arguments.
Holds(key, expected, on, resultPhase) ==
  CASE key = "tool_equals"     -> on.tool = expected
    [] key = "tool_matches"    -> on.tool \in expected
    [] key = "risk_at_least"   -> expected <= on.level
    [] key = "has_flag"        -> ~resultPhase /\ expected \in on.flags
    [] key = "result_has_flag" -> resultPhase /\ expected \in on.flags
    [] key = "argument_path_equals"  -> ValueAt(on.arguments, expected.path) = expected.value
    [] key = "argument_path_matches" ->
         /\ ValueAt(on.arguments, expected.path).kind = "text"
         /\ expected.mark \in ValueAt(on.arguments, expected.path).marks

\* An enabled rule whose pattern is of the tool and all of whose conditions hold.  The tools a
\* pattern matches are a set, and so are those a regular expression does.
Matches(rule, on, resultPhase) ==
  /\ rule.enabled
  /\ on.tool \in rule.tools
  /\ \A key \in DOMAIN rule.conditions : Holds(key, rule.conditions[key], on, resultPhase)

ConditionKeys == {"tool_equals", "tool_matches", "risk_at_least", "has_flag", "result_has_flag",
                  "argument_path_equals", "argument_path_matches"}

ValidConditions(conditions) == DOMAIN conditions \in SUBSET ConditionKeys \ {{}}

\* What the domain class accepts: conditions, and no block on the flags of a result.
ValidRule(rule) ==
  /\ ValidConditions(rule.conditions)
  /\ "result_has_flag" \in DOMAIN rule.conditions => rule.action # "block"

\* The order of evaluation: descending priority, then ascending name; a name is a number.
Precedes(r, s) == r.priority > s.priority \/ (r.priority = s.priority /\ r.name < s.name)

=============================================================================
