----------------------------- MODULE Screening ------------------------------
(***************************************************************************)
(* What the pipeline makes of one call: its arguments are checked,         *)
(* redacted and classified, the rules of the table are evaluated one by    *)
(* one, and the same is done with what the adapter returns, by the rules   *)
(* of that later time.  ToolCalls models who may take these steps and when *)
(* they are stored; here it is what they decide.                           *)
(***************************************************************************)
EXTENDS SecurityPolicy

CONSTANTS
  Tool,               \* [name, base, keys, results]: its base risk and what its schemas ask for
  Argument,           \* the arguments a request may carry
  Result,             \* what an adapter may return
  Rule,               \* the rules that may be in the table
  MaxArgumentBytes,   \* max_tool_arguments_bytes
  MaxResultBytes,     \* max_tool_result_bytes
  RuleLimit,          \* how many enabled rules are read for a call: 10,000
  StoreArguments,     \* store_redacted_arguments
  StoreResults        \* store_redacted_results

ASSUME SettingsAssumption ==
  RuleLimit \in Nat \ {0} /\ StoreArguments \in BOOLEAN /\ StoreResults \in BOOLEAN

\* Only the order of names and priorities matters, and a rule of the table is a valid one.
ASSUME RuleAssumption ==
  /\ \A r \in Rule : r.name \in Nat /\ r.priority \in Int /\ ValidRule(r)
  /\ \A r \in Rule : r.action \in {"allow", "flag", "block"}

ASSUME CallAssumption ==
  /\ \A v \in Argument \cup Result : IsValue(v)
  /\ \A t \in Tool : t.base \in Low..Critical

\* The unique constraint on the name of a rule.
Book == {b \in SUBSET Rule : \A r, s \in b : r.name = s.name => r = s}

Phase == {"input", "result"}

VARIABLES
  tool, arguments, result,  \* of the call
  book,      \* the table of rules
  at,        \* where the pipeline is
  status,    \* of the call when the pipeline is done with it; "stuck": an exception left it as it was
  read,      \* for each phase: the rules that were read for it,
  pending,   \* those the evaluation has not come to,
  matched,   \* the matches it has recorded,
  action,    \* and the action it has arrived at
  level,     \* for each phase: the risk level
  flags,     \* and the flags of the classification
  decision,  \* of the call
  stored,    \* the arguments that are stored with the call
  answer     \* the result that is answered, and stored if results are

vars == <<tool, arguments, result, book, at, status, read, pending, matched, action, level,
          flags, decision, stored, answer>>

call   == <<tool, arguments>>
verdict == <<read, pending, matched, action>>

Init ==
  /\ tool \in Tool
  /\ arguments \in Argument
  /\ result = Empty
  /\ book \in Book
  /\ at = "received"
  /\ status = "none"
  /\ read = [ph \in Phase |-> {}]
  /\ pending = {}
  /\ matched = [ph \in Phase |-> {}]
  /\ action = [ph \in Phase |-> "allow"]
  /\ level = [ph \in Phase |-> Low]
  /\ flags = [ph \in Phase |-> {}]
  /\ decision = "allow"
  /\ stored = Empty
  /\ answer = Empty

Done(s) == at' = "done" /\ status' = s

\* The schemas of the tools: all of these keys, no other.
Conforms(v, keys) == {p[1] : p \in DOMAIN v \ {<<>>}} = keys

-----------------------------------------------------------------------------
(* The input                                                               *)

\* _canonical_arguments: nothing is stored of a request whose arguments are refused.
CheckArguments ==
  /\ at = "received"
  /\ IF Faults(arguments, MaxArgumentBytes) = {}
       THEN at' = "validating" /\ UNCHANGED status
       ELSE Done("refused")
  /\ UNCHANGED <<call, result, book, verdict, level, flags, decision, stored, answer>>

RejectArguments ==
  /\ at = "validating"
  /\ ~Conforms(arguments, tool.keys) \/ RedactionFails(arguments)
  /\ Done("rejected")
  /\ decision' = "reject"
  /\ UNCHANGED <<call, result, book, verdict, level, flags, stored, answer>>

\* The redactor raises what is not a limit, and the call stays in validating.
StrandArguments ==
  /\ at = "validating"
  /\ Conforms(arguments, tool.keys) /\ RedactionRaises(arguments)
  /\ Done("stuck")
  /\ UNCHANGED <<call, result, book, verdict, level, flags, decision, stored, answer>>

\* list_enabled: the first of the enabled rules, in the order of their evaluation.
ListEnabled ==
  LET on == {r \in book : r.enabled}
  IN {r \in on : Cardinality({s \in on : Precedes(s, r)}) < RuleLimit}

\* The evaluation of a phase starts with the rules that are read for it.
Judge(ph, l, f) ==
  /\ level' = [level EXCEPT ![ph] = l]
  /\ flags' = [flags EXCEPT ![ph] = f]
  /\ read' = [read EXCEPT ![ph] = ListEnabled]
  /\ pending' = ListEnabled
  /\ UNCHANGED <<matched, action>>

ClassifyArguments ==
  LET found == InputFlags(tool.name, arguments, Findings(arguments)) IN
  /\ at = "validating"
  /\ Conforms(arguments, tool.keys) /\ ~RedactionFails(arguments) /\ ~RedactionRaises(arguments)
  /\ Judge("input", LevelOf(tool.base, found), found)
  /\ at' = "judging"
  /\ UNCHANGED <<call, result, book, status, decision, stored, answer>>

\* What the rules of a phase are evaluated on.  In the second, the arguments are those of the
\* stored call: empty, if arguments are not stored.
On(ph) == [tool      |-> tool.name,
           level     |-> level[ph],
           flags     |-> flags[ph],
           arguments |-> IF ph = "input" THEN Redact(arguments) ELSE stored]

\* Mutant of Weigh: an allow rule takes back what another has flagged.
WeighLast(ph, rule) == IF rule.action = "block" /\ ph = "result" THEN action[ph] ELSE rule.action

\* The action after a rule that matches: in the second phase a block rule is recorded only.
Weigh(ph, rule) ==
  IF rule.action = "flag" \/ (rule.action = "block" /\ ph = "input") THEN rule.action
  ELSE action[ph]

\* One turn of evaluate_rules: the next rule in order, and no further after a block.
ExamineRule(ph) ==
  \E rule \in pending :
    /\ \A other \in pending \ {rule} : Precedes(rule, other)
    /\ IF Matches(rule, On(ph), ph = "result")
         THEN /\ matched' = [matched EXCEPT ![ph] = @ \cup {rule}]
              /\ action' = [action EXCEPT ![ph] = Weigh(ph, rule)]
              /\ pending' = IF rule.action = "block" /\ ph = "input" THEN {} ELSE pending \ {rule}
         ELSE pending' = pending \ {rule} /\ UNCHANGED <<matched, action>>
    /\ UNCHANGED <<call, result, book, at, status, read, level, flags, decision, stored, answer>>

ExamineInputRule  == at = "judging" /\ ExamineRule("input")

\* The transaction of _evaluate_input.  The domain class refuses arguments that redaction has
\* made too large, and the call stays in validating.
ConcludeInput ==
  LET kept == IF StoreArguments THEN Redact(arguments) ELSE Empty IN
  /\ at = "judging" /\ pending = {}
  /\ IF Deeper(kept, MaxStoredDepth) \/ Bytes(kept) > MaxStoredBytes
       THEN Done("stuck") /\ UNCHANGED <<decision, stored>>
       ELSE /\ stored' = kept
            /\ IF action["input"] = "block"
                 THEN Done("blocked") /\ decision' = "block"
                 ELSE /\ at' = "executing"
                      /\ decision' = IF flags["input"] # {} \/ action["input"] = "flag"
                                     THEN "flag" ELSE "allow"
                      /\ UNCHANGED status
  /\ UNCHANGED <<call, result, book, verdict, level, flags, answer>>

-----------------------------------------------------------------------------
(* The execution, during which the operator may change the rules           *)

ChangeRules ==
  /\ at = "executing"
  /\ book' \in Book
  /\ UNCHANGED <<call, result, at, status, verdict, level, flags, decision, stored, answer>>

AdapterReturns ==
  /\ at = "executing"
  /\ result' \in Result
  /\ at' = "returned"
  /\ UNCHANGED <<call, book, status, verdict, level, flags, decision, stored, answer>>

AdapterFails ==
  /\ at = "executing"
  /\ \E s \in {"failed", "timed_out"} : Done(s)
  /\ UNCHANGED <<call, result, book, verdict, level, flags, decision, stored, answer>>

-----------------------------------------------------------------------------
(* The result                                                              *)

\* _canonical_result and the limits of the redactor.
FailResult ==
  /\ at = "returned"
  /\ Faults(result, MaxResultBytes) # {} \/ RedactionFails(result)
  /\ Done("failed")
  /\ UNCHANGED <<call, result, book, verdict, level, flags, decision, stored, answer>>

\* The redactor raises what is not a limit, or _canonical_sanitized_result what is one: there is no
\* transition, and the call stays executing.
DropResult ==
  /\ at = "returned"
  /\ Faults(result, MaxResultBytes) = {}
  /\ \/ RedactionRaises(result)
     \/ ~RedactionFails(result) /\ Faults(Redact(result), MaxResultBytes) # {}
  /\ Done("stuck")
  /\ UNCHANGED <<call, result, book, verdict, level, flags, decision, stored, answer>>

\* A result that breaks the schema fails the call, and is classified first.
ClassifyResult ==
  LET found == OutputFlags(Redact(result), Findings(result))
      l     == LevelOf(level["input"], found) IN
  /\ at = "returned"
  /\ Faults(result, MaxResultBytes) = {} /\ ~RedactionFails(result) /\ ~RedactionRaises(result)
  /\ Faults(Redact(result), MaxResultBytes) = {}
  /\ IF Conforms(result, tool.results)
       THEN /\ Judge("result", l, found)
            /\ at' = "reviewing"
            /\ UNCHANGED <<status, decision>>
       ELSE /\ level' = [level EXCEPT !["result"] = l]
            /\ flags' = [flags EXCEPT !["result"] = found]
            /\ Done("failed")
            /\ decision' = IF found # {} THEN "flag" ELSE decision
            /\ UNCHANGED verdict
  /\ UNCHANGED <<call, result, book, stored, answer>>

ExamineResultRule == at = "reviewing" /\ ExamineRule("result")

\* The terminal transaction.  The domain class refuses to store a result that is too deep for it.
ConcludeResult ==
  /\ at = "reviewing" /\ pending = {}
  /\ IF StoreResults /\ Deeper(Redact(result), MaxStoredDepth)
       THEN Done("stuck") /\ UNCHANGED <<decision, answer>>
       ELSE /\ Done("succeeded")
            /\ answer' = Redact(result)
            /\ decision' = IF flags["result"] # {} \/ action["result"] = "flag"
                           THEN "flag" ELSE decision
  /\ UNCHANGED <<call, result, book, verdict, level, flags, stored>>

-----------------------------------------------------------------------------
Next ==
  \/ CheckArguments \/ RejectArguments \/ StrandArguments \/ ClassifyArguments
  \/ ExamineInputRule \/ ConcludeInput
  \/ ChangeRules \/ AdapterReturns \/ AdapterFails
  \/ FailResult \/ DropResult \/ ClassifyResult
  \/ ExamineResultRule \/ ConcludeResult

Spec == Init /\ [][Next]_vars

-----------------------------------------------------------------------------
(* Properties                                                              *)

\* The input has been judged, and its verdict is stored.
Judged == at \in {"executing", "returned", "reviewing"} \/
          status \in {"blocked", "failed", "timed_out", "succeeded"}

\* All the rules read for a phase that match, in no order.
MatchesOf(ph) == {r \in read[ph] : Matches(r, On(ph), ph = "result")}
Some(ph, a) == \E r \in MatchesOf(ph) : r.action = a

\* "block > flag > allow": the verdict is that of all the rules that were read and match at once,
\* though they are examined one by one and the first block ends it; what is recorded are the
\* matches up to that block.  A result is never blocked, and its verdict weakens none of the input's.
JudgedByEveryRule ==
  /\ Judged =>
       /\ (status = "blocked") = Some("input", "block")
       /\ matched["input"] = {r \in MatchesOf("input") :
            ~\E b \in MatchesOf("input") : b.action = "block" /\ Precedes(b, r)}
       /\ at = "executing" =>
            decision = IF flags["input"] # {} \/ Some("input", "flag") THEN "flag" ELSE "allow"
  /\ status = "succeeded" =>
       /\ matched["result"] = MatchesOf("result")
       /\ decision = IF \E ph \in Phase : flags[ph] # {} \/ Some(ph, "flag")
                     THEN "flag" ELSE "allow"

\* No secret the redactor knows is stored or answered; where one was replaced, the call is never
\* allowed without a flag, its level is high or above in that phase and after it, and no flag is
\* more severe than the level.
SecretsRemovedAndFlagged ==
  /\ Clean(stored) /\ Clean(answer)
  /\ Judged => tool.base <= level["input"] /\ \A f \in flags["input"] : Severity[f] <= level["input"]
  /\ Judged /\ Findings(arguments) # {} => decision # "allow" /\ High <= level["input"]
  /\ status = "succeeded" =>
       /\ level["input"] <= level["result"]
       /\ \A f \in flags["result"] : Severity[f] <= level["result"]
       /\ Findings(result) # {} => decision = "flag" /\ High <= level["result"]

=============================================================================
