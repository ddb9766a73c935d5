-------------------------- MODULE ScreeningProofs ---------------------------
(***************************************************************************)
(* What the operators of SecurityPolicy guarantee for every value, and     *)
(* theorems about Screening, for any tools, values, limits and tables of   *)
(* rules: the loop over the rules arrives at the verdict of all of them,   *)
(* and no secret is kept.                                                  *)
(***************************************************************************)
EXTENDS Screening, SequenceTheorems, TLAPS

-----------------------------------------------------------------------------
(* Paths                                                                   *)

LEMMA PrefixProperties ==
  ASSUME NEW S, NEW s \in Seq(S), NEW m \in Nat, m <= Len(s)
  PROVE /\ SubSeq(s, 1, m) \in Seq(S) /\ Len(SubSeq(s, 1, m)) = m
        /\ \A i \in 1..m : SubSeq(s, 1, m)[i] = s[i]
<1>1. Len(s) \in Nat /\ \A i \in 1..m : s[i] \in S
  OBVIOUS
<1>2. /\ SubSeq(s, 1, m) \in Seq(S)
      /\ Len(SubSeq(s, 1, m)) = IF 1 <= m THEN m - 1 + 1 ELSE 0
      /\ \A i \in 1..m - 1 + 1 : SubSeq(s, 1, m)[i] = s[1 + i - 1]
  BY <1>1, SubSeqProperties
<1>3. m - 1 + 1 = m /\ \A i \in 1..m : 1 + i - 1 = i
  OBVIOUS
<1> QED
  BY <1>2, <1>3

\* What lies outside of the parent of a node lies outside of the node.
LEMMA InsideParent ==
  ASSUME NEW p \in Seq(STRING), p # <<>>, NEW o \in Seq(STRING), Inside(Parent(p), o)
  PROVE Inside(p, o)
<1>1. Len(p) \in Nat \ {0} /\ Len(o) \in Nat
  OBVIOUS
<1> DEFINE m == Len(p) - 1
<1>2. m \in Nat /\ m < Len(p) /\ Parent(p) = SubSeq(p, 1, m)
  BY <1>1 DEF Parent
<1> HIDE DEF m
<1>3. /\ Parent(p) \in Seq(STRING) /\ Len(Parent(p)) = m
      /\ \A i \in 1..m : Parent(p)[i] = p[i]
  BY <1>1, <1>2, PrefixProperties
<1>4. Len(o) < m /\ SubSeq(Parent(p), 1, Len(o)) = o
  BY <1>3 DEF Inside
<1>5. \A i \in 1..Len(o) : o[i] = Parent(p)[i]
  BY <1>1, <1>3, <1>4, PrefixProperties
<1>6. /\ SubSeq(p, 1, Len(o)) \in Seq(STRING) /\ Len(SubSeq(p, 1, Len(o))) = Len(o)
      /\ \A i \in 1..Len(o) : SubSeq(p, 1, Len(o))[i] = p[i]
  BY <1>1, <1>2, <1>4, PrefixProperties
<1>7. \A i \in 1..Len(o) : SubSeq(p, 1, Len(o))[i] = o[i]
  BY <1>1, <1>2, <1>3, <1>4, <1>5, <1>6
<1>8. SubSeq(p, 1, Len(o)) = o
  BY <1>6, <1>7, SeqEqual
<1> QED
  BY <1>1, <1>2, <1>4, <1>8 DEF Inside

-----------------------------------------------------------------------------
(* Redaction                                                               *)

\* The redactor comes to the container of every node it comes to.
LEMMA ParentVisited ==
  ASSUME NEW v, IsValue(v), NEW p \in Visited(v), p # <<>>
  PROVE Parent(p) \in Visited(v)
<1>1. p \in DOMAIN v /\ DOMAIN v \subseteq Seq(STRING) /\ Parent(p) \in DOMAIN v
  BY DEF IsValue, Visited
<1>2. ASSUME NEW o \in DOMAIN v, Inside(Parent(p), o) PROVE ~NamedSecret(v, o)
  BY <1>1, <1>2, InsideParent DEF Visited
<1> QED
  BY <1>1, <1>2 DEF Visited

\* No secret that the redactor knows is left in what it returns (DeterministicRedactor.redact).
THEOREM RedactionIsClean ==
  ASSUME NEW v, IsValue(v)
  PROVE Clean(Redact(v))
<1> DEFINE w == Redact(v)
<1>1. DOMAIN w = Visited(v)
  BY DEF Redact, Visited
<1>2. ASSUME NEW p \in Visited(v)
      PROVE w[p] = IF p \notin Findings(v) THEN v[p]
                   ELSE IF NamedSecret(v, p) \/ "private_key" \in v[p].marks THEN Redacted
                   ELSE Text((v[p].marks \ Secrets) \cup {"redacted"})
  BY <1>2 DEF Redact, Visited
<1>3. \A p \in Visited(v) : v[p].marks \subseteq STRING /\ (v[p].kind # "text" => v[p].marks = {})
  BY DEF IsValue, Visited
<1>4. Redacted.kind = "text" /\ Redacted.marks = {"redacted"}
      /\ \A m : Text(m).kind = "text" /\ Text(m).marks = m
  BY DEF Redacted, Text
<1> HIDE DEF w
<1>5. ASSUME NEW p \in Visited(v) PROVE w[p].marks \cap Secrets = {}
  <2>1. CASE p \notin Findings(v)
    BY <1>2, <2>1 DEF Findings
  <2>2. CASE p \in Findings(v) /\ w[p] = Redacted
    BY <1>4, <2>2 DEF Secrets
  <2>3. CASE p \in Findings(v) /\ w[p] = Text((v[p].marks \ Secrets) \cup {"redacted"})
    <3>1. w[p].marks = (v[p].marks \ Secrets) \cup {"redacted"}
      BY <1>4, <2>3
    <3> QED
      BY <3>1 DEF Secrets
  <2> QED
    BY <1>2, <2>1, <2>2, <2>3
<1>6. ASSUME NEW p \in Visited(v), NamedSecret(w, p), w[p] # Redacted PROVE FALSE
  <2>1. p # <<>> /\ Parent(p) \in Visited(v) /\ LastOf(p) \in SensitiveName
        /\ w[Parent(p)].kind = "dict" /\ w[p].kind # "null" /\ "empty" \notin w[p].marks
    BY <1>6, ParentVisited DEF NamedSecret
  <2>2. v[Parent(p)].kind = "dict"
    BY <1>2, <1>4, <2>1
  <2>3. p \notin Findings(v) => NamedSecret(v, p)
    BY <1>2, <2>1, <2>2 DEF NamedSecret
  <2>4. p \in Findings(v) /\ ~NamedSecret(v, p)
    BY <1>2, <1>6, <2>3 DEF Findings
  <2>5. v[p].marks \cap Secrets # {} /\ w[p] = Text((v[p].marks \ Secrets) \cup {"redacted"})
    BY <1>2, <1>6, <2>4 DEF Findings
  <2>6. "empty" \in v[p].marks \/ v[p].kind = "null"
    BY <2>1, <2>2, <2>4 DEF NamedSecret
  <2>7. v[p].kind # "null"
    BY <1>3, <2>5
  <2>8. "empty" \in w[p].marks
    BY <1>4, <2>5, <2>6, <2>7 DEF Secrets
  <2> QED
    BY <2>1, <2>8
<1> QED
  BY <1>1, <1>5, <1>6 DEF Clean, w

-----------------------------------------------------------------------------
(* Risk                                                                    *)

\* Severities are levels.
LEMMA SeverityRange == \A f \in Flag : Severity[f] \in Low..Critical
BY DEF Flag, Severity, Low, Medium, High, Critical

\* The level is the highest of the base and the severities (risk_max).
LEMMA LevelCoversFlags ==
  ASSUME NEW base \in Low..Critical, NEW signs \in SUBSET Flag
  PROVE /\ LevelOf(base, signs) \in Low..Critical /\ base <= LevelOf(base, signs)
        /\ \A f \in signs : Severity[f] <= LevelOf(base, signs)
<1> DEFINE S == {base} \cup {Severity[f] : f \in signs}
           Covers(l) == base <= l /\ \A f \in signs : Severity[f] <= l
<1>1. S \subseteq {0, 1, 2, 3} /\ base \in S /\ \A f \in signs : Severity[f] \in S
  BY SeverityRange DEF Low, Critical
<1>2. \E l \in S : \A k \in S : k <= l
  <2> HIDE DEF S
  <2> QED
    BY <1>1
<1>3. \E l \in S : Covers(l)
  BY <1>1, <1>2
<1>4. LevelOf(base, signs) \in S /\ Covers(LevelOf(base, signs))
  BY <1>3 DEF LevelOf
<1> QED
  BY <1>1, <1>4 DEF Low, Critical

\* Every flag that is raised has a severity, and what was redacted raises one.
LEMMA FlagsAreKnown ==
  /\ \A t, a, findings :
       /\ InputFlags(t, a, findings) \subseteq Flag
       /\ findings # {} => "sensitive_input" \in InputFlags(t, a, findings)
  /\ \A value, findings :
       /\ OutputFlags(value, findings) \subseteq Flag
       /\ findings # {} => "sensitive_output" \in OutputFlags(value, findings)
<1>1. ASSUME NEW t, NEW a, NEW findings
      PROVE InputFlags(t, a, findings) \subseteq Flag
  BY DEF InputFlags, SqlFlags, GenericFlags, Raised, Flag, Severity
<1>2. ASSUME NEW value, NEW findings
      PROVE /\ OutputFlags(value, findings) \subseteq Flag
            /\ findings # {} => "sensitive_output" \in OutputFlags(value, findings)
  BY DEF OutputFlags, Raised, Flag, Severity
<1> QED
  BY <1>1, <1>2 DEF InputFlags

-----------------------------------------------------------------------------
(* The inductive invariant of Screening                                    *)

Place == {"received", "validating", "judging", "executing", "returned", "reviewing", "done"}

\* The variables that the verdict depends on.
VerdictTypes ==
  /\ at \in Place
  /\ book \in Book
  /\ read \in [Phase -> Book]
  /\ matched \in [Phase -> SUBSET Rule]
  /\ action \in [Phase -> {"allow", "flag", "block"}]
  /\ DOMAIN level = Phase /\ DOMAIN flags = Phase
  /\ (status = "none") = (at # "done")

\* A block ends the evaluation of this rule's phase.
Ends(ph, rule) == rule.action = "block" /\ ph = "input"

\* The action that a set of matches comes to.
Outcome(ph, matches) ==
  IF \E r \in matches : Ends(ph, r) THEN "block"
  ELSE IF \E r \in matches : r.action = "flag" THEN "flag"
  ELSE "allow"

\* Where the loop stands when the rules of "rest" are still to come: what matches was recorded, is
\* to come, or comes after a block; the recorded ones come first, and nothing follows a block.
Loop(ph, rest) ==
  /\ rest \subseteq read[ph] /\ matched[ph] \subseteq MatchesOf(ph)
  /\ \A r \in MatchesOf(ph) :
       \/ r \in matched[ph] \/ r \in rest
       \/ \E b \in matched[ph] : Ends(ph, b) /\ Precedes(b, r)
  /\ \A m \in matched[ph] : \A r \in rest : Precedes(m, r)
  /\ \A b \in matched[ph] : Ends(ph, b) =>
       rest = {} /\ \A m \in matched[ph] \ {b} : Precedes(m, b)
  /\ action[ph] = Outcome(ph, matched[ph])

\* The verdict of the input is not touched any more.
InputDecision == IF flags["input"] # {} \/ action["input"] = "flag" THEN "flag" ELSE "allow"

ScreeningInv ==
  /\ VerdictTypes
  /\ at \in {"received", "validating"} => matched["input"] = {} /\ action["input"] = "allow"
  /\ at \in Place \ {"reviewing", "done"} => matched["result"] = {} /\ action["result"] = "allow"
  /\ at = "judging" => Loop("input", pending)
  /\ Judged => Loop("input", {}) /\ (status = "blocked") = (action["input"] = "block")
  /\ at = "reviewing" => Loop("result", pending)
  /\ status = "succeeded" => Loop("result", {})
  /\ at \in {"executing", "returned", "reviewing"} => decision = InputDecision
  /\ status = "succeeded" =>
       decision = IF flags["result"] # {} \/ action["result"] = "flag" THEN "flag"
                  ELSE InputDecision

-----------------------------------------------------------------------------
(* The order of the rules                                                  *)

\* The rules of a table are strictly ordered: no two of them have one name.
LEMMA RulesOrdered ==
  ASSUME NEW b \in Book
  PROVE /\ \A r, s \in b : r = s \/ Precedes(r, s) \/ Precedes(s, r)
        /\ \A r, s \in b : Precedes(r, s) => ~Precedes(s, r)
        /\ \A r, s, t \in b : Precedes(r, s) /\ Precedes(s, t) => Precedes(r, t)
<1>1. \A r \in b : r.name \in Nat /\ r.priority \in Int
  BY RuleAssumption DEF Book
<1>2. \A r, s \in b : r.name = s.name => r = s
  BY DEF Book
<1> QED
  BY <1>1, <1>2 DEF Precedes

\* When the loop has ended, the matches it has recorded are those up to the first block.
LEMMA LoopIsComplete ==
  ASSUME VerdictTypes, NEW ph \in Phase, Loop(ph, {})
  PROVE /\ matched[ph] = {r \in MatchesOf(ph) :
             ~\E b \in MatchesOf(ph) : Ends(ph, b) /\ Precedes(b, r)}
        /\ (action[ph] = "block") = \E r \in MatchesOf(ph) : Ends(ph, r)
        /\ ~(\E r \in MatchesOf(ph) : Ends(ph, r)) =>
             (action[ph] = "flag") = \E r \in MatchesOf(ph) : r.action = "flag"
<1> DEFINE M == MatchesOf(ph)
           R == matched[ph]
<1>1. R \subseteq M /\ M \subseteq read[ph] /\ read[ph] \in Book
  BY DEF VerdictTypes, Loop, MatchesOf
<1>2. \A r \in M : r \in R \/ \E b \in R : Ends(ph, b) /\ Precedes(b, r)
  BY DEF Loop
<1>3. \A b \in R : Ends(ph, b) => \A m \in R \ {b} : Precedes(m, b)
  BY DEF Loop
<1>4. action[ph] = Outcome(ph, R)
  BY DEF Loop
<1>5. /\ \A r, s \in M : Precedes(r, s) => ~Precedes(s, r)
      /\ \A r, s, t \in M : Precedes(r, s) /\ Precedes(s, t) => Precedes(r, t)
  BY <1>1, RulesOrdered
<1> HIDE DEF M, R
<1>6. ASSUME NEW r \in M, \E b \in R : Ends(ph, b) /\ Precedes(b, r) PROVE r \notin R
  BY <1>1, <1>3, <1>5, <1>6
<1>7. \A r \in M, b \in M : Ends(ph, b) /\ Precedes(b, r) =>
        \E c \in R : Ends(ph, c) /\ Precedes(c, r)
  BY <1>1, <1>2, <1>5
<1>8. R = {r \in M : ~\E b \in M : Ends(ph, b) /\ Precedes(b, r)}
  BY <1>1, <1>2, <1>6, <1>7
<1>9. (\E r \in M : Ends(ph, r)) => \E r \in R : Ends(ph, r)
  BY <1>2
<1>10. (action[ph] = "block") = \E r \in M : Ends(ph, r)
  BY <1>1, <1>4, <1>9 DEF Outcome
<1>11. ~(\E r \in M : Ends(ph, r)) => (action[ph] = "flag") = \E r \in M : r.action = "flag"
  BY <1>1, <1>2, <1>4, <1>9 DEF Outcome
<1> QED
  BY <1>8, <1>10, <1>11 DEF M, R

-----------------------------------------------------------------------------
(* One turn of the loop                                                    *)

\* What is matched depends on what the rules are evaluated on, which is not changed any more.
LEMMA SameMatches ==
  ASSUME NEW ph \in Phase, read'[ph] = read[ph], On(ph)' = On(ph)
  PROVE MatchesOf(ph)' = MatchesOf(ph)
BY DEF MatchesOf

LEMMA LoopUntouched ==
  ASSUME NEW ph \in Phase, read'[ph] = read[ph], On(ph)' = On(ph), matched'[ph] = matched[ph],
         action'[ph] = action[ph]
  PROVE \A rest : Loop(ph, rest) = Loop(ph, rest)'
BY SameMatches DEF Loop, Outcome, Ends

LEMMA ExamineKeepsLoop ==
  ASSUME VerdictTypes, NEW ph \in Phase, Loop(ph, pending), ExamineRule(ph)
  PROVE VerdictTypes' /\ Loop(ph, pending)'
        /\ \A o \in Phase \ {ph} : matched'[o] = matched[o] /\ action'[o] = action[o]
<1>1. PICK rule \in pending :
        /\ \A other \in pending \ {rule} : Precedes(rule, other)
        /\ IF Matches(rule, On(ph), ph = "result")
             THEN /\ matched' = [matched EXCEPT ![ph] = @ \cup {rule}]
                  /\ action' = [action EXCEPT ![ph] = Weigh(ph, rule)]
                  /\ pending' = IF rule.action = "block" /\ ph = "input" THEN {} ELSE pending \ {rule}
             ELSE pending' = pending \ {rule} /\ UNCHANGED <<matched, action>>
  BY DEF ExamineRule
<1>2. UNCHANGED <<call, result, book, at, status, read, level, flags, decision, stored, answer>>
  BY DEF ExamineRule
<1>3. rule \in read[ph] /\ read[ph] \in Book /\ rule \in Rule
  BY DEF VerdictTypes, Loop, Book
<1>4. MatchesOf(ph)' = MatchesOf(ph) /\ read'[ph] = read[ph]
  BY <1>2, SameMatches DEF On, call
<1>5. MatchesOf(ph) \subseteq read[ph]
  BY DEF MatchesOf
<1>6. /\ \A r, s \in read[ph] : r = s \/ Precedes(r, s) \/ Precedes(s, r)
      /\ \A r, s, t \in read[ph] : Precedes(r, s) /\ Precedes(s, t) => Precedes(r, t)
  BY <1>3, RulesOrdered
<1>7. rule.action \in {"allow", "flag", "block"}
  BY <1>3, RuleAssumption
<1>8. CASE ~Matches(rule, On(ph), ph = "result")
  <2>1. pending' = pending \ {rule} /\ UNCHANGED <<matched, action>> /\ rule \notin MatchesOf(ph)
    BY <1>1, <1>8 DEF MatchesOf
  <2>2. VerdictTypes'
    BY <1>2, <2>1 DEF VerdictTypes
  <2>3. Loop(ph, pending)'
    BY <1>2, <1>4, <2>1 DEF Loop, Outcome, Ends
  <2> QED
    BY <2>1, <2>2, <2>3
<1>9. CASE Matches(rule, On(ph), ph = "result")
  <2>1. /\ matched' = [matched EXCEPT ![ph] = matched[ph] \cup {rule}]
        /\ action' = [action EXCEPT ![ph] = Weigh(ph, rule)]
        /\ pending' = IF Ends(ph, rule) THEN {} ELSE pending \ {rule}
        /\ rule \in MatchesOf(ph)
    BY <1>1, <1>3, <1>9 DEF MatchesOf, Ends
  <2>2. matched'[ph] = matched[ph] \cup {rule} /\ action'[ph] = Weigh(ph, rule)
        /\ \A o \in Phase \ {ph} : matched'[o] = matched[o] /\ action'[o] = action[o]
    BY <2>1 DEF VerdictTypes
  <2>3. \A b \in matched[ph] : ~Ends(ph, b)
    BY DEF Loop
  <2>4. action[ph] = IF \E r \in matched[ph] : r.action = "flag" THEN "flag" ELSE "allow"
    BY <2>3 DEF Loop, Outcome
  <2>5. action'[ph] = Outcome(ph, matched[ph] \cup {rule})
    BY <1>7, <2>2, <2>3, <2>4 DEF Outcome, Ends, Weigh
  <2>6. VerdictTypes'
    <3>1. action'[ph] \in {"allow", "flag", "block"}
      BY <2>5 DEF Outcome
    <3> QED
      BY <1>2, <1>3, <2>1, <2>2, <3>1 DEF VerdictTypes
  <2>7. pending' \subseteq read[ph] /\ matched'[ph] \subseteq MatchesOf(ph)
    BY <2>1, <2>2 DEF Loop
  <2>8. ASSUME NEW r \in MatchesOf(ph)
        PROVE \/ r \in matched'[ph] \/ r \in pending'
              \/ \E b \in matched'[ph] : Ends(ph, b) /\ Precedes(b, r)
    BY <1>1, <2>1, <2>2, <2>3 DEF Loop
  <2>9. ASSUME NEW m \in matched'[ph], NEW r \in pending' PROVE Precedes(m, r)
    BY <1>1, <2>1, <2>2, <2>9 DEF Loop
  <2>10. ASSUME NEW b \in matched'[ph], Ends(ph, b)
         PROVE pending' = {} /\ \A m \in matched'[ph] \ {b} : Precedes(m, b)
    BY <2>1, <2>2, <2>3, <2>10 DEF Loop
  <2>11. Loop(ph, pending)'
    BY <1>4, <2>2, <2>5, <2>7, <2>8, <2>9, <2>10 DEF Loop, Outcome, Ends
  <2> QED
    BY <2>2, <2>6, <2>11
<1> QED
  BY <1>8, <1>9

\* What is read of a table of rules is one, too.
LEMMA ReadIsBook == VerdictTypes => ListEnabled \in Book
BY DEF VerdictTypes, ListEnabled, Book

LEMMA LoopStarts ==
  ASSUME NEW ph \in Phase, matched'[ph] = {}, action'[ph] = "allow", pending' = read'[ph]
  PROVE Loop(ph, pending)'
BY DEF Loop, MatchesOf, Outcome

-----------------------------------------------------------------------------
(* The steps                                                               *)

LEMMA ScreeningInit == Init => ScreeningInv
<1> SUFFICES ASSUME Init PROVE ScreeningInv
  OBVIOUS
<1>1. {} \in Book
  BY DEF Book
<1>2. VerdictTypes
  BY <1>1 DEF Init, VerdictTypes, Place, Phase
<1>3. ~Judged
  BY DEF Init, Judged
<1> QED
  BY <1>2, <1>3 DEF Init, ScreeningInv, Phase

LEMMA ScreeningStep == ScreeningInv /\ [Next]_vars => ScreeningInv'
<1> SUFFICES ASSUME ScreeningInv, [Next]_vars PROVE ScreeningInv'
  OBVIOUS
<1> USE DEF call, verdict, Place
<1>1. "input" \in Phase /\ "result" \in Phase
  BY DEF Phase
<1>2. CASE UNCHANGED vars
  <2>1. \A ph \in Phase : On(ph)' = On(ph)
    BY <1>2 DEF vars, On
  <2>2. UNCHANGED <<at, status, pending, decision, level, flags, action, matched, read>>
    BY <1>2 DEF vars
  <2>3. \A rest : \A ph \in Phase : Loop(ph, rest) = Loop(ph, rest)'
    BY <2>1, <2>2, LoopUntouched
  <2>4. Loop("input", pending)' = Loop("input", pending) /\ Loop("result", pending)' = Loop("result", pending)
    BY <1>1, <2>2, <2>3
  <2> QED
    BY <1>1, <1>2, <2>2, <2>3, <2>4 DEF ScreeningInv, VerdictTypes, Judged, InputDecision, vars
<1>3. CASE CheckArguments \/ StrandArguments
  BY <1>3 DEF StrandArguments, CheckArguments, Done, ScreeningInv, VerdictTypes, Judged
<1>4. CASE RejectArguments
  BY <1>4 DEF RejectArguments, Done, ScreeningInv, VerdictTypes, Judged
<1>5. CASE ClassifyArguments
  <2> ListEnabled \in Book
    BY ReadIsBook DEF ScreeningInv
  <2>1. Loop("input", pending)'
    BY <1>1, <1>5, LoopStarts DEF ClassifyArguments, Judge, ScreeningInv, VerdictTypes
  <2> QED
    BY <1>5, <2>1 DEF ClassifyArguments, Judge, ScreeningInv, VerdictTypes, Judged
<1>6. CASE ExamineInputRule
  <2>1. at = "judging" /\ ExamineRule("input") /\ UNCHANGED <<at, status>>
    BY <1>6 DEF ExamineInputRule, ExamineRule
  <2>2. VerdictTypes' /\ Loop("input", pending)' /\ matched'["result"] = matched["result"]
        /\ action'["result"] = action["result"]
    BY <1>1, <2>1, ExamineKeepsLoop DEF ScreeningInv
  <2> QED
    BY <2>1, <2>2 DEF ScreeningInv, VerdictTypes, Judged
<1>7. CASE ConcludeInput
  <2>1. at = "judging" /\ pending = {} /\ UNCHANGED <<tool, arguments, level, flags, read, matched, action, book>>
    BY <1>7 DEF ConcludeInput
  <2>2. Loop("input", {})'
    BY <1>1, <2>1, LoopUntouched DEF ScreeningInv, On
  <2>3. VerdictTypes'
    BY <1>7, <2>1 DEF ConcludeInput, Done, ScreeningInv, VerdictTypes
  <2> QED
    BY <1>7, <2>1, <2>2, <2>3 DEF ConcludeInput, Done, ScreeningInv, Judged, InputDecision, VerdictTypes
<1>8. CASE ChangeRules \/ AdapterReturns \/ AdapterFails \/ FailResult \/ DropResult
  <2>1. UNCHANGED <<tool, arguments, level, flags, read, matched, action, decision>>
    BY <1>8 DEF ChangeRules, AdapterReturns, AdapterFails, FailResult, DropResult
  <2>2. at \in {"executing", "returned"} /\ Judged
    BY <1>8 DEF ChangeRules, AdapterReturns, AdapterFails, FailResult, DropResult, Judged
  <2>3. Loop("input", {})'
    BY <1>1, <2>1, <2>2, LoopUntouched DEF ScreeningInv, On
  <2>4. VerdictTypes'
    BY <1>8 DEF ChangeRules, AdapterReturns, AdapterFails, FailResult, DropResult, Done, ScreeningInv,
       VerdictTypes
  <2> QED
    BY <1>8, <2>1, <2>2, <2>3, <2>4 DEF ChangeRules, AdapterReturns, AdapterFails, FailResult, DropResult,
       Done, ScreeningInv, Judged, InputDecision, VerdictTypes
<1>9. CASE ClassifyResult
  <2> ListEnabled \in Book
    BY ReadIsBook DEF ScreeningInv
  <2>1. at = "returned" /\ Judged /\ UNCHANGED <<tool, arguments, matched, action>>
    BY <1>9 DEF ClassifyResult, Judge, Judged
  <2>2. read'["input"] = read["input"] /\ level'["input"] = level["input"] /\ flags'["input"] = flags["input"]
    BY <1>1, <1>9 DEF ClassifyResult, Judge, ScreeningInv, VerdictTypes
  <2>3. Loop("input", {})'
    BY <1>1, <2>1, <2>2, LoopUntouched DEF ScreeningInv, On
  <2>4. VerdictTypes'
    BY <1>9 DEF ClassifyResult, Judge, Done, ScreeningInv, VerdictTypes
  <2>5. at' = "reviewing" => Loop("result", pending)'
    BY <1>1, <1>9, <2>1, LoopStarts DEF ClassifyResult, Judge, Done, ScreeningInv, VerdictTypes
  <2> QED
    BY <1>9, <2>1, <2>2, <2>3, <2>4, <2>5
    DEF ClassifyResult, Judge, Done, ScreeningInv, Judged, InputDecision, VerdictTypes
<1>10. CASE ExamineResultRule
  <2>1. at = "reviewing" /\ ExamineRule("result") /\ Judged
        /\ UNCHANGED <<tool, arguments, at, status, level, flags, decision, read>>
    BY <1>10 DEF ExamineResultRule, ExamineRule, Judged
  <2>2. VerdictTypes' /\ Loop("result", pending)' /\ matched'["input"] = matched["input"]
        /\ action'["input"] = action["input"]
    BY <1>1, <2>1, ExamineKeepsLoop DEF ScreeningInv
  <2>3. Loop("input", {})'
    BY <1>1, <2>1, <2>2, LoopUntouched DEF ScreeningInv, On
  <2> QED
    BY <2>1, <2>2, <2>3 DEF ScreeningInv, VerdictTypes, Judged, InputDecision
<1>11. CASE ConcludeResult
  <2>1. at = "reviewing" /\ pending = {} /\ Judged
        /\ UNCHANGED <<tool, arguments, level, flags, read, matched, action, book, stored>>
    BY <1>11 DEF ConcludeResult, Judged
  <2>2. Loop("input", {})' /\ Loop("result", {})'
    BY <1>1, <2>1, LoopUntouched DEF ScreeningInv, On
  <2>3. VerdictTypes'
    BY <1>11, <2>1 DEF ConcludeResult, Done, ScreeningInv, VerdictTypes
  <2> QED
    BY <1>11, <2>1, <2>2, <2>3 DEF ConcludeResult, Done, ScreeningInv, Judged, InputDecision, VerdictTypes
<1> QED
  BY <1>2, <1>3, <1>4, <1>5, <1>6, <1>7, <1>8, <1>9, <1>10, <1>11 DEF Next

\* The inductive invariant of the evaluation.
THEOREM ScreeningInvariance == Spec => []ScreeningInv
<1> QED
  BY ScreeningInit, ScreeningStep, PTL DEF Spec

\* "block > flag > allow" (evaluate_rules): though rules are examined one by one and the first block
\* ends it, the verdict is that of all the rules that match, and the second phase weakens none.
THEOREM VerdictIsOfAllRules == Spec => []JudgedByEveryRule
<1>1. ScreeningInv => JudgedByEveryRule
  <2> SUFFICES ASSUME ScreeningInv PROVE JudgedByEveryRule
    OBVIOUS
  <2>1. "input" \in Phase /\ "result" \in Phase /\ VerdictTypes
        /\ \A r : Ends("input", r) = (r.action = "block") /\ ~Ends("result", r)
    BY DEF Phase, ScreeningInv, Ends
  <2>2. ASSUME Judged
        PROVE /\ (status = "blocked") = Some("input", "block")
              /\ matched["input"] = {r \in MatchesOf("input") :
                   ~\E b \in MatchesOf("input") : b.action = "block" /\ Precedes(b, r)}
              /\ status # "blocked" => (action["input"] = "flag") = Some("input", "flag")
    BY <2>1, <2>2, LoopIsComplete DEF ScreeningInv, Some
  <2>3. at = "executing" =>
          decision = IF flags["input"] # {} \/ Some("input", "flag") THEN "flag" ELSE "allow"
    BY <2>1, <2>2 DEF ScreeningInv, VerdictTypes, Judged, InputDecision
  <2>4. ASSUME status = "succeeded"
        PROVE /\ matched["result"] = MatchesOf("result")
              /\ decision = IF \E ph \in Phase : flags[ph] # {} \/ Some(ph, "flag")
                            THEN "flag" ELSE "allow"
    <3>1. Loop("result", {}) /\ Judged
      BY <2>4 DEF ScreeningInv, Judged
    <3>2. matched["result"] = MatchesOf("result") /\ (action["result"] = "flag") = Some("result", "flag")
      BY <2>1, <3>1, LoopIsComplete DEF Some
    <3>3. (action["input"] = "flag") = Some("input", "flag")
      BY <2>2, <2>4, <3>1
    <3> QED
      BY <2>4, <3>2, <3>3 DEF ScreeningInv, InputDecision, Phase
  <2> QED
    BY <2>2, <2>3, <2>4 DEF JudgedByEveryRule
<1> QED
  BY <1>1, ScreeningInvariance, PTL

-----------------------------------------------------------------------------
(* Secrets and flags                                                       *)

\* The input has been classified.
Classified == at = "judging" \/ Judged

PolicyInv ==
  /\ tool \in Tool /\ arguments \in Argument /\ result \in Result \cup {Empty}
  /\ stored \in {Empty, Redact(arguments)}
  /\ answer \in {Empty, Redact(result)}
  /\ at # "done" => answer = Empty
  /\ Classified =>
       /\ flags["input"] = InputFlags(tool.name, arguments, Findings(arguments))
       /\ level["input"] = LevelOf(tool.base, flags["input"])
  /\ Judged /\ flags["input"] # {} => decision # "allow"
  /\ at = "reviewing" \/ status = "succeeded" =>
       /\ flags["result"] = OutputFlags(Redact(result), Findings(result))
       /\ level["result"] = LevelOf(level["input"], flags["result"])

LEMMA PolicyInit == Init => PolicyInv
BY DEF Init, PolicyInv, Classified, Judged

LEMMA PolicyStep == ScreeningInv /\ PolicyInv /\ [Next]_vars => PolicyInv'
<1> SUFFICES ASSUME ScreeningInv, PolicyInv, [Next]_vars PROVE PolicyInv'
  OBVIOUS
<1> USE DEF call, verdict, Place, PolicyInv, Classified, Judged, Done
<1>1. VerdictTypes /\ "input" \in Phase /\ "result" \in Phase
  BY DEF Phase, ScreeningInv
<1>2. CASE UNCHANGED vars
  BY <1>2 DEF vars
<1>3. CASE CheckArguments \/ RejectArguments \/ StrandArguments
  BY <1>1, <1>3 DEF CheckArguments, RejectArguments, StrandArguments, VerdictTypes
<1>4. CASE ClassifyArguments
  BY <1>1, <1>4 DEF ClassifyArguments, Judge, VerdictTypes
<1>5. CASE ExamineInputRule \/ ExamineResultRule
  BY <1>1, <1>5 DEF ExamineInputRule, ExamineResultRule, ExamineRule, VerdictTypes
<1>6. CASE ConcludeInput
  BY <1>1, <1>6 DEF ConcludeInput, VerdictTypes
<1>7. CASE ChangeRules \/ AdapterReturns \/ AdapterFails
  BY <1>1, <1>7 DEF ChangeRules, AdapterReturns, AdapterFails, VerdictTypes
<1>8. CASE FailResult \/ DropResult
  BY <1>1, <1>8 DEF FailResult, DropResult, VerdictTypes
<1>9. CASE ClassifyResult
  BY <1>1, <1>9 DEF ClassifyResult, Judge, VerdictTypes
<1>10. CASE ConcludeResult
  BY <1>1, <1>10 DEF ConcludeResult, VerdictTypes
<1> QED
  BY <1>2, <1>3, <1>4, <1>5, <1>6, <1>7, <1>8, <1>9, <1>10 DEF Next

LEMMA EmptyIsClean == Clean(Empty) /\ IsValue(Empty)
<1>1. DOMAIN Empty = {<<>>} /\ Empty[<<>>] = Dict
  BY DEF Empty
<1>2. Clean(Empty)
  BY <1>1 DEF Clean, NamedSecret, Dict
<1>3. <<>> \in Seq(STRING)
  OBVIOUS
<1>4. IsValue(Empty)
  BY <1>1, <1>3 DEF IsValue, Dict
<1> QED
  BY <1>2, <1>4

\* No secret the redactor knows is stored or answered, and where one was replaced the call is flagged
\* and its risk is high (ToolCallService._evaluate_input, classify_output).
THEOREM SecretsAreRemoved == Spec => []SecretsRemovedAndFlagged
<1>1. Spec => []PolicyInv
  BY PolicyInit, PolicyStep, ScreeningInvariance, PTL DEF Spec
<1>2. ScreeningInv /\ PolicyInv => SecretsRemovedAndFlagged
  <2> SUFFICES ASSUME ScreeningInv, PolicyInv PROVE SecretsRemovedAndFlagged
    OBVIOUS
  <2>1. Clean(stored) /\ Clean(answer)
    <3>1. Clean(Redact(arguments)) /\ Clean(Redact(result)) /\ Clean(Empty)
      BY RedactionIsClean, EmptyIsClean, CallAssumption DEF PolicyInv
    <3> QED
      BY <3>1 DEF PolicyInv
  <2>2. tool.base \in Low..Critical
    BY CallAssumption DEF PolicyInv
  <2>3. ASSUME Judged
        PROVE /\ tool.base <= level["input"] /\ level["input"] \in Low..Critical
              /\ \A f \in flags["input"] : Severity[f] <= level["input"]
              /\ Findings(arguments) # {} => decision # "allow" /\ High <= level["input"]
    <3>1. flags["input"] \subseteq Flag
          /\ (Findings(arguments) # {} => "sensitive_input" \in flags["input"])
      BY <2>3, FlagsAreKnown DEF PolicyInv, Classified
    <3>2. /\ tool.base <= level["input"] /\ level["input"] \in Low..Critical
          /\ \A f \in flags["input"] : Severity[f] <= level["input"]
      BY <2>2, <2>3, <3>1, LevelCoversFlags DEF PolicyInv, Classified
    <3>3. Severity["sensitive_input"] = High
      BY DEF Severity
    <3> QED
      BY <2>3, <3>1, <3>2, <3>3 DEF PolicyInv
  <2>4. ASSUME status = "succeeded"
        PROVE /\ level["input"] <= level["result"]
              /\ \A f \in flags["result"] : Severity[f] <= level["result"]
              /\ Findings(result) # {} => decision = "flag" /\ High <= level["result"]
    <3>1. level["input"] \in Low..Critical
      BY <2>3, <2>4 DEF Judged
    <3>2. flags["result"] \subseteq Flag
          /\ (Findings(result) # {} => "sensitive_output" \in flags["result"])
      BY <2>4, FlagsAreKnown DEF PolicyInv
    <3>3. /\ level["input"] <= level["result"]
          /\ \A f \in flags["result"] : Severity[f] <= level["result"]
      BY <2>4, <3>1, <3>2, LevelCoversFlags DEF PolicyInv
    <3>4. Severity["sensitive_output"] = High
      BY DEF Severity
    <3> QED
      BY <2>4, <3>2, <3>3, <3>4 DEF ScreeningInv
  <2> QED
    BY <2>1, <2>3, <2>4 DEF SecretsRemovedAndFlagged
<1> QED
  BY <1>1, <1>2, ScreeningInvariance, PTL

=============================================================================
