----------------------- MODULE ToolCallsContractProofs -----------------------
(***************************************************************************)
(* Proofs about ToolCalls where the stale period is longer than any live   *)
(* execution: a terminal call stays as it is, callers agree on how it      *)
(* ended, and the execution with its retries and its recovery implements   *)
(* the contract of the idempotency key.                                    *)
(***************************************************************************)
EXTENDS ToolCallsRowProofs

-----------------------------------------------------------------------------
(* The invariant                                                           *)

\* How the row says that the call ended, in the words of Verdict.
RowVerdict(c) ==
  IF c.status \in {"succeeded", "blocked"} THEN c.status
  ELSE IF c.status \in Terminal THEN "failed" ELSE "none"

\* The row of a request at work is not stale, and as the request has written it.
Current ==
  \A r \in Request :
    pc[r] \in Working => KeyOf(r) \notin stale /\ call[KeyOf(r)].status = Stage(pc[r])

\* Who has been told how a call ended was told what its row says, or will say: a result that grew
\* beyond the limits leaves a row that only recovery can settle, and does so as failed.
Told(r) ==
  Verdict(answer[r]) # "none" =>
    /\ Exists(KeyOf(r))
    /\ \/ RowVerdict(call[KeyOf(r)]) = Verdict(answer[r])
       \/ Verdict(answer[r]) = "failed" /\ Is(KeyOf(r), "executing") /\ ~Live(KeyOf(r))

CalmInv == RowInv /\ Current /\ \A r \in Request : Told(r)

-----------------------------------------------------------------------------
(* Rows and answers                                                        *)

LEMMA StageIsOpen ==
  ASSUME NEW p \in Working
  PROVE  Stage(p) \notin Terminal
BY DEF Stage, Working, Terminal

LEMMA AnswersAreVerdicts ==
  /\ Verdict(Success) = "succeeded" /\ Verdict("ToolCallBlocked") = "blocked" /\ Verdict("none") = "none"
  /\ \A a \in Failures : Verdict(a) = "failed"
  /\ \A a \in Unsettled : Verdict(a) = "none"
BY DEF Verdict, Success, Failures, Unsettled

LEMMA TerminalErrorFails == \A code : TerminalError(code) \in Failures
BY DEF TerminalError, Failures

\* A repetition is told what the row says.
LEMMA StoredAnswerTrue ==
  ASSUME RowInv, NEW k \in Key, Exists(k)
  PROVE  Verdict(StoredAnswer(k)) \in {"none", RowVerdict(call[k])}
<1>1. call[k] \in CallRow
  BY DEF RowInv, IndInv, TypeOK, Exists
<1>2. CASE call[k].status = "succeeded"
  <2>1. result[k] = "valid"
    BY <1>2 DEF RowInv, Sound, SoundRow
  <2>2. StoredAnswer(k) = Success
    BY <1>2, <2>1 DEF StoredAnswer, Is
  <2> QED
    BY <1>2, <2>2, AnswersAreVerdicts DEF RowVerdict, Terminal
<1>3. CASE call[k].status = "blocked"
  <2>1. StoredAnswer(k) = "ToolCallBlocked"
    BY <1>3 DEF StoredAnswer, Is
  <2> QED
    BY <1>3, <2>1, AnswersAreVerdicts DEF RowVerdict, Terminal
<1>4. CASE call[k].status \in {"rejected", "failed", "timed_out"}
  <2>1. StoredAnswer(k) = TerminalError(call[k].error)
    BY <1>4 DEF StoredAnswer, Is
  <2> QED
    BY <1>4, <2>1, TerminalErrorFails, AnswersAreVerdicts DEF RowVerdict, Terminal
<1>5. CASE call[k].status \notin Terminal
  <2>1. StoredAnswer(k) = "ExecutionInProgress"
    BY <1>5 DEF StoredAnswer, Is, Terminal
  <2> QED
    BY <2>1, AnswersAreVerdicts DEF Unsettled
<1> QED
  BY <1>1, <1>2, <1>3, <1>4, <1>5 DEF Terminal

-----------------------------------------------------------------------------
(* What a request at work does to its row                                  *)

\* It goes on, enters the adapter, ends the call and tells how, or tells of a failure that it
\* does not store.
RowStep(r) ==
  /\ pc[r] \in Working
  /\ req' = req /\ stale' \subseteq stale
  /\ call'[KeyOf(r)] \in CallRow
  /\ \A j \in Key \ {KeyOf(r)} :
       call'[j] = call[j] /\ result'[j] = result[j] /\ audit'[j] = audit[j] /\ invoked'[j] = invoked[j]
  /\ \/ /\ answer' = answer
        /\ \E where \in Working :
             pc' = [pc EXCEPT ![r] = where] /\ call'[KeyOf(r)].status = Stage(where)
        /\ \/ invoked'[KeyOf(r)] = invoked[KeyOf(r)]
           \/ invoked[KeyOf(r)] = 0 /\ invoked'[KeyOf(r)] = 1
     \/ /\ pc' = [pc EXCEPT ![r] = "answered"]
        /\ invoked'[KeyOf(r)] = invoked[KeyOf(r)]
        /\ \E a \in Answer :
             /\ answer' = [answer EXCEPT ![r] = a]
             /\ \/ call'[KeyOf(r)].status \in Terminal /\ RowVerdict(call'[KeyOf(r)]) = Verdict(a)
                \/ /\ call'[KeyOf(r)] = call[KeyOf(r)] /\ Verdict(a) = "failed"
                   /\ call[KeyOf(r)].status = "executing"

\* Store, Goto and Settle as such steps.
LEMMA AdvanceIsRowStep ==
  ASSUME CalmInv, NEW r \in Request, pc[r] \in Working, NEW where \in Working, NEW c \in CallRow,
         NEW events, Store(KeyOf(r), c, events), Goto(r, where, c), c.status = Stage(where),
         UNCHANGED <<result, invoked>>
  PROVE  RowStep(r)
<1>1. KeyOf(r) \in Key
  BY AtWork DEF CalmInv
<1>2. /\ call' = [call EXCEPT ![KeyOf(r)] = c] /\ audit' = [audit EXCEPT ![KeyOf(r)] = @ \o events]
      /\ stale' = stale \ {KeyOf(r)} /\ pc' = [pc EXCEPT ![r] = where] /\ req' = req /\ answer' = answer
  BY DEF Store, Goto
<1>3. call'[KeyOf(r)] = c /\ \A j \in Key \ {KeyOf(r)} : call'[j] = call[j] /\ audit'[j] = audit[j]
  BY <1>1, <1>2 DEF CalmInv, RowInv, IndInv, TypeOK
<1> QED
  BY <1>2, <1>3 DEF RowStep

LEMMA CloseIsRowStep ==
  ASSUME CalmInv, NEW r \in Request, pc[r] \in Working, NEW c \in CallRow, NEW a \in Answer,
         NEW events, Store(KeyOf(r), c, events), Reply(r, a), c.status \in Terminal,
         RowVerdict(c) = Verdict(a), invoked' = invoked,
         \A j \in Key \ {KeyOf(r)} : result'[j] = result[j]
  PROVE  RowStep(r)
<1>1. KeyOf(r) \in Key
  BY AtWork DEF CalmInv
<1>2. /\ call' = [call EXCEPT ![KeyOf(r)] = c] /\ audit' = [audit EXCEPT ![KeyOf(r)] = @ \o events]
      /\ stale' = stale \ {KeyOf(r)} /\ pc' = [pc EXCEPT ![r] = "answered"] /\ req' = req
      /\ answer' = [answer EXCEPT ![r] = a]
  BY DEF Store, Reply
<1>3. call'[KeyOf(r)] = c /\ \A j \in Key \ {KeyOf(r)} : call'[j] = call[j] /\ audit'[j] = audit[j]
  BY <1>1, <1>2 DEF CalmInv, RowInv, IndInv, TypeOK
<1> QED
  BY <1>2, <1>3 DEF RowStep

LEMMA SettleIsRowStep ==
  ASSUME CalmInv, NEW r \in Request, pc[r] \in Working, NEW st \in {"rejected", "failed", "timed_out"},
         NEW code \in ErrorCode, NEW event, NEW a \in Failures, Settle(r, st, code, event, a)
  PROVE  RowStep(r)
<1> DEFINE c == TransitionTo(held[r], st, held[r].decision, code)
<1>1. held[r] \in CallRow /\ held[r].decision \in Decision /\ st \in Status
  BY AtWork DEF CalmInv, CallRow, Status
<1>2. c \in CallRow /\ c.status = st
  BY <1>1, TransitionKeeps
<1>3. Store(KeyOf(r), c, <<event>>) /\ Reply(r, a) /\ invoked' = invoked /\ result' = result
  BY DEF Settle
<1>4. c.status \in Terminal /\ RowVerdict(c) = "failed" /\ Verdict(a) = "failed" /\ a \in Answer
  BY <1>2, AnswersAreVerdicts DEF Terminal, RowVerdict, Answer
<1> HIDE DEF c
<1> QED
  BY <1>2, <1>3, <1>4, CloseIsRowStep

LEMMA FinalizeIsRowStep ==
  ASSUME CalmInv, NEW r \in Request, pc[r] \in Working, NEW dec \in {"allow", "flag"},
         \/ Finalize(r, "failed", dec, "invalid_tool_result", "invalid", "InvalidToolResult")
         \/ Finalize(r, "succeeded", dec, "none", "valid", Success)
  PROVE  RowStep(r)
<1>1. /\ KeyOf(r) \in Key /\ held[r] \in CallRow /\ dec \in Decision /\ result[KeyOf(r)] = "none"
      /\ {"failed", "succeeded"} \subseteq Status /\ {"invalid_tool_result", "none"} \subseteq ErrorCode
  BY AtWork DEF CalmInv, Decision, Status, ErrorCode
<1>2. CASE Finalize(r, "failed", dec, "invalid_tool_result", "invalid", "InvalidToolResult")
  <2> DEFINE c == TransitionTo(held[r], "failed", dec, "invalid_tool_result")
  <2>1. c \in CallRow /\ c.status = "failed"
    BY <1>1, TransitionKeeps
  <2>2. PICK events : Store(KeyOf(r), c, events)
    BY <1>1, <1>2 DEF Finalize
  <2>3. /\ Reply(r, "InvalidToolResult") /\ invoked' = invoked
        /\ result' = [result EXCEPT ![KeyOf(r)] = "invalid"]
    BY <1>1, <1>2 DEF Finalize
  <2>4. /\ c.status \in Terminal /\ RowVerdict(c) = Verdict("InvalidToolResult")
        /\ "InvalidToolResult" \in Answer
    BY <2>1, AnswersAreVerdicts DEF Terminal, RowVerdict, Failures, Answer
  <2>5. \A j \in Key \ {KeyOf(r)} : result'[j] = result[j]
    BY <1>1, <2>3 DEF CalmInv, RowInv, IndInv, TypeOK
  <2> HIDE DEF c
  <2> QED
    BY <2>1, <2>2, <2>3, <2>4, <2>5, CloseIsRowStep
<1>3. CASE Finalize(r, "succeeded", dec, "none", "valid", Success)
  <2> DEFINE c == TransitionTo(held[r], "succeeded", dec, "none")
  <2>1. c \in CallRow /\ c.status = "succeeded"
    BY <1>1, TransitionKeeps
  <2>2. PICK events : Store(KeyOf(r), c, events)
    BY <1>1, <1>3 DEF Finalize
  <2>3. /\ Reply(r, Success) /\ invoked' = invoked
        /\ result' = [result EXCEPT ![KeyOf(r)] = "valid"]
    BY <1>1, <1>3 DEF Finalize
  <2>4. c.status \in Terminal /\ RowVerdict(c) = Verdict(Success) /\ Success \in Answer
    BY <2>1, AnswersAreVerdicts DEF Terminal, RowVerdict, Answer
  <2>5. \A j \in Key \ {KeyOf(r)} : result'[j] = result[j]
    BY <1>1, <2>3 DEF CalmInv, RowInv, IndInv, TypeOK
  <2> HIDE DEF c
  <2> QED
    BY <2>1, <2>2, <2>3, <2>4, <2>5, CloseIsRowStep
<1> QED
  BY <1>2, <1>3

\* Every step between the insertion of the row and the answer is a RowStep.
LEMMA WorkIsRowStep ==
  ASSUME CalmInv, NEW r \in Request, Screen(r) \/ Execute(r) \/ Conclude(r)
  PROVE  RowStep(r)
<1> DEFINE k == KeyOf(r)
           h == held[r]
<1>w. pc[r] \in Working
  BY DEF Screen, BeginValidating, Reject, EvaluateInput, Execute, StartExecuting, FailUnconfigured,
         InvokeAdapter, Conclude, TimeOut, FailInAdapter, FailResult, DropSanitizedResult,
         FinalizeInvalid, ReadResultRules, FinalizeSucceeded, Working
<1>1. /\ k \in Key /\ h \in CallRow /\ call[k] \in CallRow /\ h.decision \in {"allow", "flag"}
      /\ h.decision \in Decision /\ h.matched \subseteq Rule /\ call[k].status = Stage(pc[r])
      /\ pc[r] \in Early => invoked[k] = 0
  BY <1>w, AtWork DEF CalmInv, Current, InStep, Decision, CallRow
<1>2. /\ Status = Terminal \cup {"received", "validating", "evaluating", "executing"}
      /\ "none" \in ErrorCode /\ Failures \subseteq Answer
  BY DEF Status, Terminal, ErrorCode, Answer
<1>3. CASE BeginValidating(r) \/ StartExecuting(r)
  <2>1. PICK st \in {"validating", "executing"}, events \in {<<>>, <<"started">>} :
          /\ Store(KeyOf(r), TransitionTo(h, st, h.decision, "none"), events)
          /\ Goto(r, st, TransitionTo(h, st, h.decision, "none"))
          /\ UNCHANGED <<result, invoked>>
    BY <1>3 DEF BeginValidating, StartExecuting
  <2> DEFINE c == TransitionTo(h, st, h.decision, "none")
  <2>2. c \in CallRow /\ c.status = st /\ st \in Working /\ Stage(st) = st
    <3>1. st \in Status /\ st \in Working /\ Stage(st) = st
      BY <1>2 DEF Stage, Working
    <3> QED
      BY <1>1, <1>2, <3>1, TransitionKeeps
  <2> HIDE DEF c
  <2>3. Store(KeyOf(r), c, events) /\ Goto(r, st, c) /\ UNCHANGED <<result, invoked>>
    BY <2>1 DEF c
  <2> QED
    BY <1>w, <2>2, <2>3, AdvanceIsRowStep
<1>4. CASE \E code \in RejectErrors : Reject(r, code)
  <2>1. PICK code \in RejectErrors : Reject(r, code)
    BY <1>4
  <2>2. PICK a \in {"ToolPayloadTooDeep", "InvalidToolArguments"} :
          Settle(r, "rejected", code, "failed", a)
    BY <2>1 DEF Reject
  <2>3. code \in ErrorCode /\ a \in Failures
    BY ErrorAssumption DEF ErrorCode, Failures
  <2> QED
    BY <1>w, <2>2, <2>3, SettleIsRowStep
<1>5. CASE \E matches \in SUBSET enabled, risky \in BOOLEAN : EvaluateInput(r, matches, risky)
  <2>1. PICK matches \in SUBSET enabled, risky \in BOOLEAN : EvaluateInput(r, matches, risky)
    BY <1>5
  <2> DEFINE decision == IF risky \/ (~Blocks(matches) /\ matches \cap FlagRules # {})
                         THEN "flag" ELSE "allow"
             b == TransitionTo(h, "evaluating", decision, "none")
             c == [b EXCEPT !.matched = matches]
             d == TransitionTo(c, "blocked", "block", "tool_call_blocked")
  <2>2. b \in CallRow /\ b.status = "evaluating"
    <3>1. decision \in Decision
      BY DEF Decision
    <3> HIDE DEF decision
    <3> QED
      BY <1>1, <1>2, <3>1, TransitionKeeps
  <2>3. c \in CallRow /\ c.status = "evaluating"
    <3>1. matches \subseteq Rule
      BY DEF CalmInv, RowInv, IndInv, TypeOK
    <3> HIDE DEF b
    <3> QED
      BY <2>2, <3>1 DEF CallRow
  <2> HIDE DEF c
  <2>4. d \in CallRow /\ d.status = "blocked"
    <3>1. "tool_call_blocked" \in ErrorCode /\ "block" \in Decision /\ "blocked" \in Status
      BY DEF ErrorCode, Decision, Status
    <3> QED
      BY <2>3, <3>1, TransitionKeeps
  <2> HIDE DEF d
  <2>5. UNCHANGED <<result, invoked>>
    BY <2>1 DEF EvaluateInput
  <2>6. CASE Blocks(matches)
    <3>1. (\E events : Store(KeyOf(r), d, events)) /\ Reply(r, "ToolCallBlocked")
      BY <2>1, <2>6 DEF EvaluateInput, c, d
    <3>2. PICK events : Store(KeyOf(r), d, events)
      BY <3>1
    <3>3. d.status \in Terminal /\ RowVerdict(d) = Verdict("ToolCallBlocked") /\ "ToolCallBlocked" \in Answer
      BY <2>4, AnswersAreVerdicts DEF Terminal, RowVerdict, Answer
    <3> QED
      BY <1>w, <2>4, <2>5, <3>1, <3>2, <3>3, CloseIsRowStep
  <2>7. CASE ~Blocks(matches)
    <3>1. (\E events : Store(KeyOf(r), c, events)) /\ Goto(r, "evaluated", c)
      BY <2>1, <2>7 DEF EvaluateInput, c
    <3>2. PICK events : Store(KeyOf(r), c, events)
      BY <3>1
    <3>3. "evaluated" \in Working /\ Stage("evaluated") = c.status
      BY <2>3 DEF Working, Stage
    <3> QED
      BY <1>w, <2>3, <2>5, <3>1, <3>2, <3>3, AdvanceIsRowStep
  <2> QED
    BY <2>6, <2>7
<1>6. CASE \/ FailUnconfigured(r) \/ TimeOut(r)
           \/ \E code \in AdapterErrors : FailInAdapter(r, code)
           \/ \E code \in ResultErrors : FailResult(r, code)
  <2>1. PICK st \in {"failed", "timed_out"}, event \in {"failed", "timed_out"},
             code \in ErrorCode, a \in Failures : Settle(r, st, code, event, a)
    <3>1. {"adapter_not_configured", "tool_timeout"} \cup AdapterErrors \cup ResultErrors \subseteq ErrorCode
      BY ErrorAssumption DEF ErrorCode
    <3>2. {"AdapterNotConfigured", "ToolTimeout"} \subseteq Failures
      BY DEF Failures
    <3>3. CASE FailUnconfigured(r) \/ TimeOut(r)
      BY <3>1, <3>2, <3>3 DEF FailUnconfigured, TimeOut, Fail
    <3>4. CASE \/ \E code \in AdapterErrors : FailInAdapter(r, code)
               \/ \E code \in ResultErrors : FailResult(r, code)
      BY <3>1, <3>4, TerminalErrorFails DEF FailInAdapter, FailResult, Fail
    <3> QED
      BY <1>6, <3>3, <3>4
  <2> QED
    BY <1>w, <2>1, SettleIsRowStep
<1>7. CASE (\E risky \in BOOLEAN : FinalizeInvalid(r, risky)) \/ FinalizeSucceeded(r)
  <2>1. CASE \E risky \in BOOLEAN : FinalizeInvalid(r, risky)
    <3>1. PICK risky \in BOOLEAN : FinalizeInvalid(r, risky)
      BY <2>1
    <3>2. ResultDecision(h.decision, risky) \in {"allow", "flag"}
      BY <1>1 DEF ResultDecision
    <3> QED
      BY <1>w, <3>1, <3>2, FinalizeIsRowStep DEF FinalizeInvalid
  <2>2. CASE FinalizeSucceeded(r)
    BY <1>w, <1>1, <2>2, FinalizeIsRowStep DEF FinalizeSucceeded
  <2> QED
    BY <1>7, <2>1, <2>2
<1>8. CASE \/ InvokeAdapter(r)
           \/ \E matches \in SUBSET enabled, risky \in BOOLEAN : ReadResultRules(r, matches, risky)
  <2>1. PICK where \in {"running", "judged"} :
          /\ pc[r] \in Late /\ pc' = [pc EXCEPT ![r] = where] /\ req' = req /\ answer' = answer
          /\ UNCHANGED <<call, result, audit, stale>>
          /\ invoked' = invoked \/ (pc[r] = "executing" /\ invoked' = [invoked EXCEPT ![k] = @ + 1])
    BY <1>8 DEF InvokeAdapter, ReadResultRules, Goto, database, Late
  <2>2. where \in Working /\ call'[k].status = Stage(where)
    BY <1>1, <2>1 DEF Working, Late, Stage
  <2>3. /\ \A j \in Key \ {k} : invoked'[j] = invoked[j]
        /\ invoked'[k] = invoked[k] \/ (invoked[k] = 0 /\ invoked'[k] = 1)
    BY <1>1, <2>1 DEF Early, CalmInv, RowInv, IndInv, TypeOK
  <2> QED
    BY <1>w, <1>1, <2>1, <2>2, <2>3 DEF RowStep
<1>9. CASE DropSanitizedResult(r)
  <2>1. PICK a \in {"ToolResultTooLarge", "ToolResultPayloadTooDeep"} : Reply(r, a)
    BY <1>9 DEF DropSanitizedResult
  <2>2. pc[r] = "running" /\ UNCHANGED <<call, result, audit, stale, invoked>>
    BY <1>9 DEF DropSanitizedResult, database
  <2>3. pc' = [pc EXCEPT ![r] = "answered"] /\ req' = req /\ answer' = [answer EXCEPT ![r] = a]
    BY <2>1 DEF Reply
  <2>4. a \in Answer /\ Verdict(a) = "failed" /\ call[k].status = "executing"
    BY <1>1, <1>2, <2>2, AnswersAreVerdicts DEF Failures, Stage
  <2> QED
    BY <1>w, <1>1, <2>2, <2>3, <2>4 DEF RowStep
<1> QED
  BY <1>3, <1>4, <1>5, <1>6, <1>7, <1>8, <1>9 DEF Screen, Execute, Conclude

-----------------------------------------------------------------------------
(* The invariant is kept                                                   *)

LEMMA RowStepCalm ==
  ASSUME CalmInv, RowInv', NEW r \in Request, RowStep(r)
  PROVE  CalmInv'
<1> DEFINE k == KeyOf(r)
<1>1. /\ pc[r] \in Working /\ k \in Key /\ call[k] \in CallRow /\ call'[k] \in CallRow
      /\ call[k].status = Stage(pc[r]) /\ k \notin stale
  BY AtWork DEF RowStep, CalmInv, Current
<1>2. /\ req' = req /\ stale' \subseteq stale /\ \A j \in Key \ {k} : call'[j] = call[j]
      /\ \A q \in Request \ {r} : pc'[q] = pc[q] /\ answer'[q] = answer[q]
      /\ \A q \in Request : KeyOf(q)' = KeyOf(q)
  BY DEF RowStep, CalmInv, RowInv, IndInv, TypeOK, KeyOf
<1>3. \A q \in Request \ {r} : pc[q] \in Working => KeyOf(q) \in Key \ {k}
  BY <1>1, AtWork DEF CalmInv, RowInv, IndInv, OneOwner
<1>4. ASSUME NEW q \in Request, pc'[q] \in Working
      PROVE  KeyOf(q) \notin stale' /\ call'[KeyOf(q)].status = Stage(pc'[q])
  <2>1. CASE q = r
    <3>1. PICK where \in Working : pc' = [pc EXCEPT ![r] = where] /\ call'[k].status = Stage(where)
      <4>1. pc'[r] # "answered"
        BY <1>4, <2>1 DEF Working
      <4> QED
        BY <4>1 DEF RowStep, CalmInv, RowInv, IndInv, TypeOK
    <3>2. pc'[r] = where
      BY <3>1 DEF CalmInv, RowInv, IndInv, TypeOK
    <3> QED
      BY <1>1, <1>2, <2>1, <3>1, <3>2
  <2>2. CASE q # r
    BY <1>2, <1>3, <1>4, <2>2 DEF CalmInv, Current
  <2> QED
    BY <2>1, <2>2
<1>5. Current'
  BY <1>2, <1>4 DEF Current
<1>6. \A j \in Key \ {k} : ~Live(j) => ~Live(j)'
  BY <1>2 DEF Live
<1>7. ASSUME NEW q \in Request PROVE Told(q)'
  <2> SUFFICES ASSUME Verdict(answer'[q]) # "none"
               PROVE  /\ call'[KeyOf(q)] # NoCall
                      /\ \/ RowVerdict(call'[KeyOf(q)]) = Verdict(answer'[q])
                         \/ /\ Verdict(answer'[q]) = "failed" /\ call'[KeyOf(q)].status = "executing"
                            /\ ~\E p \in Request : pc'[p] \in Working /\ KeyOf(p) = KeyOf(q)
    BY <1>1, <1>2 DEF Told, Exists, Is, Live
  <2>1. CASE q = r
    <3>1. PICK a \in Answer :
            /\ answer' = [answer EXCEPT ![r] = a] /\ pc' = [pc EXCEPT ![r] = "answered"]
            /\ \/ RowVerdict(call'[k]) = Verdict(a)
               \/ Verdict(a) = "failed" /\ call'[k].status = "executing"
      <4>1. answer[r] = "none"
        BY <1>1 DEF CalmInv, RowInv, IndInv, AnsweredLast, Working
      <4>2. answer' # answer
        BY <2>1, <4>1, AnswersAreVerdicts
      <4> QED
        BY <4>2 DEF RowStep
    <3>2. answer'[r] = a /\ pc'[r] = "answered" /\ "answered" \notin Working
      BY <3>1 DEF CalmInv, RowInv, IndInv, TypeOK, Working
    <3>3. ~\E p \in Request : pc'[p] \in Working /\ KeyOf(p) = k
      BY <1>2, <1>3, <3>2
    <3> QED
      BY <1>1, <2>1, <3>1, <3>2, <3>3, RowExists
  <2>2. CASE q # r
    <3>1. Told(q) /\ Verdict(answer[q]) # "none" /\ answer'[q] = answer[q]
      BY <1>2, <2>2 DEF CalmInv
    <3>2. KeyOf(q) \in Key
      <4>1. pc[q] = "answered"
        BY <3>1, AnswersAreVerdicts DEF CalmInv, RowInv, IndInv, AnsweredLast
      <4> QED
        BY <4>1 DEF CalmInv, RowInv, IndInv, HasRequest, RequestBody, KeyOf
    <3>3. KeyOf(q) # k
      <4>1. SUFFICES ASSUME KeyOf(q) = k PROVE FALSE
        OBVIOUS
      <4>2. RowVerdict(call[k]) = "none"
        BY <1>1, StageIsOpen DEF RowVerdict, Terminal
      <4>3. Live(k)
        BY <1>1 DEF Live
      <4> QED
        BY <3>1, <4>1, <4>2, <4>3 DEF Told
    <3>4. call'[KeyOf(q)] = call[KeyOf(q)] /\ (~Live(KeyOf(q)) => ~Live(KeyOf(q))')
      BY <1>2, <1>6, <3>2, <3>3
    <3> QED
      BY <1>2, <3>1, <3>2, <3>3, <3>4 DEF Told, Exists, Is, Live
  <2> QED
    BY <2>1, <2>2
<1> QED
  BY <1>5, <1>7 DEF CalmInv

\* A step that changes no row, tells nobody how a call ended and brings nobody to work.
LEMMA QuietStepCalm ==
  ASSUME CalmInv, RowInv', call' = call,
         \A q \in Request : pc'[q] \in Working =>
           pc'[q] = pc[q] /\ KeyOf(q)' = KeyOf(q) /\ KeyOf(q) \notin stale',
         \A q \in Request : Verdict(answer'[q]) # "none" => Told(q)'
  PROVE  CalmInv'
<1>1. Current'
  BY DEF CalmInv, Current
<1>2. ASSUME NEW q \in Request PROVE Told(q)'
  <2>1. CASE Verdict(answer'[q]) # "none"
    BY <2>1
  <2>2. CASE ~(Verdict(answer'[q]) # "none")
    BY <2>2 DEF Told
  <2> QED
    BY <2>1, <2>2
<1> QED
  BY <1>1, <1>2 DEF CalmInv

\* What such a step leaves of what callers have been told.
LEMMA ToldKept ==
  ASSUME CalmInv, NEW q \in Request, Told(q), Verdict(answer[q]) # "none", answer'[q] = answer[q],
         KeyOf(q)' = KeyOf(q), call' = call, ~Live(KeyOf(q)) => ~Live(KeyOf(q))'
  PROVE  Told(q)'
BY DEF Told, Exists, Is, Live

\* A request that arrives, waits for its session, is refused or is lost.
LEMMA ComeAndGoCalm ==
  ASSUME CalmInv, RowInv', NEW r \in Request, Arrive(r) \/ LockSession(r) \/ Abort(r)
  PROVE  CalmInv'
<1>1. /\ call' = call /\ stale' = stale
      /\ \A q \in Request \ {r} : pc'[q] = pc[q] /\ answer'[q] = answer[q] /\ req'[q] = req[q]
      /\ pc'[r] \in {"answered", "create", "locked", "gone"}
  BY DEF Arrive, Replay, Receive, LockSession, Goto, Reply, Abort, database, CalmInv, RowInv, IndInv, TypeOK
<1>2. pc'[r] \notin Working
  BY <1>1 DEF Working
<1>3. answer[r] = "none"
  BY DEF Arrive, Replay, Receive, LockSession, Abort, CalmInv, RowInv, IndInv, AnsweredLast
<1>4. \A k : ~Live(k) => ~Live(k)'
  BY <1>1, <1>2 DEF Live, KeyOf
<1>5. ASSUME NEW q \in Request, Verdict(answer'[q]) # "none" PROVE Told(q)'
  <2>1. CASE q # r
    BY <1>1, <1>4, <1>5, <2>1, ToldKept DEF CalmInv, KeyOf
  <2>2. CASE q = r /\ \E body \in RequestBody : Replay(r, body)
    <3>1. PICK body \in RequestBody : Replay(r, body)
      BY <2>2
    <3>2. /\ req'[r] = body /\ answer'[r] = ExistingAnswer(body.key, body) /\ Exists(body.key)
          /\ body.key \in Key
      BY <3>1 DEF Replay, CalmInv, RowInv, IndInv, TypeOK, RequestBody
    <3>3. RequestHash(call[body.key]) = RequestHash(body) /\ answer'[r] = StoredAnswer(body.key)
      BY <1>5, <2>2, <3>2, AnswersAreVerdicts DEF ExistingAnswer, Unsettled
    <3>4. RowVerdict(call[body.key]) = Verdict(answer'[r])
      BY <1>5, <2>2, <3>2, <3>3, StoredAnswerTrue DEF CalmInv
    <3>5. KeyOf(r)' = body.key /\ Exists(body.key)'
      BY <1>1, <3>2 DEF KeyOf, Exists
    <3> QED
      BY <1>1, <2>2, <3>2, <3>4, <3>5 DEF Told, Exists, KeyOf
  <2>3. CASE q = r /\ ~\E body \in RequestBody : Replay(r, body)
    <3>1. answer'[r] \in Unsettled \cup {"none"}
      <4>1. CASE LockSession(r)
        BY <1>3, <4>1 DEF LockSession, Refusal, Reply, Goto, Unsettled, CalmInv, RowInv, IndInv, TypeOK
      <4>2. CASE ~LockSession(r)
        BY <1>3, <2>3, <4>2 DEF Arrive, Receive, Abort
      <4> QED
        BY <4>1, <4>2
    <3> QED
      BY <1>5, <2>3, <3>1, AnswersAreVerdicts
  <2> QED
    BY <2>1, <2>2, <2>3
<1>6. ASSUME NEW q \in Request, pc'[q] \in Working
      PROVE  pc'[q] = pc[q] /\ KeyOf(q)' = KeyOf(q) /\ KeyOf(q) \notin stale'
  BY <1>1, <1>2, <1>6 DEF CalmInv, Current, KeyOf
<1> QED
  BY <1>1, <1>5, <1>6, QuietStepCalm

\* A new row belongs to the request that has inserted it, and to no other.
LEMMA InsertCalm ==
  ASSUME CalmInv, RowInv', NEW r \in Request, InsertReceived(r)
  PROVE  CalmInv'
<1> DEFINE k == KeyOf(r)
           h == held[r]
<1>1. k \in Key /\ Fresh(h) /\ h \in CallRow /\ pc[r] = "locked" /\ req' = req /\ answer[r] = "none"
  BY DEF InsertReceived, CalmInv, RowInv, IndInv, LockHeld, HasRequest, Holds, RequestBody, KeyOf, Goto,
         Reply, AnsweredLast
<1>2. \A q \in Request : KeyOf(q)' = KeyOf(q)
  BY <1>1 DEF KeyOf
<1>3. CASE KeyTaken(k) \/ SequenceTaken(req[r].session, h.seq)
  <2>1. PICK a \in {"IdempotencyConflict", "RepositoryConflict"} :
          /\ pc' = [pc EXCEPT ![r] = "answered"] /\ answer' = [answer EXCEPT ![r] = a]
          /\ call' = call /\ stale' = stale
    BY <1>3 DEF InsertReceived, Reply
  <2>2. /\ \A q \in Request \ {r} : pc'[q] = pc[q] /\ answer'[q] = answer[q]
        /\ pc'[r] \notin Working /\ Verdict(answer'[r]) = "none"
    BY <2>1, AnswersAreVerdicts DEF Working, Unsettled, CalmInv, RowInv, IndInv, TypeOK
  <2>3. \A j : ~Live(j) => ~Live(j)'
    BY <1>2, <2>2 DEF Live
  <2>4. ASSUME NEW q \in Request, Verdict(answer'[q]) # "none" PROVE Told(q)'
    BY <1>2, <2>1, <2>2, <2>3, <2>4, ToldKept DEF CalmInv
  <2>5. ASSUME NEW q \in Request, pc'[q] \in Working
        PROVE  pc'[q] = pc[q] /\ KeyOf(q)' = KeyOf(q) /\ KeyOf(q) \notin stale'
    BY <1>2, <2>1, <2>2, <2>5 DEF CalmInv, Current
  <2> QED
    BY <2>1, <2>4, <2>5, QuietStepCalm
<1>4. CASE ~(KeyTaken(k) \/ SequenceTaken(req[r].session, h.seq))
  <2>1. /\ pc' = [pc EXCEPT ![r] = "received"] /\ call' = [call EXCEPT ![k] = h] /\ answer' = answer
        /\ stale' = stale \ {k} /\ ~Exists(k)
    BY <1>4 DEF InsertReceived, Store, Goto, KeyTaken
  <2>2. /\ \A q \in Request \ {r} : pc'[q] = pc[q]
        /\ pc'[r] = "received" /\ call'[k] = h /\ \A j \in Key \ {k} : call'[j] = call[j]
    BY <1>1, <2>1 DEF CalmInv, RowInv, IndInv, TypeOK
  <2>3. ASSUME NEW q \in Request, pc[q] \in Working PROVE KeyOf(q) \in Key \ {k}
    BY <2>1, <2>3, AtWork, RowExists DEF CalmInv, Exists
  <2>4. ASSUME NEW q \in Request, pc'[q] \in Working
        PROVE  KeyOf(q) \notin stale' /\ call'[KeyOf(q)].status = Stage(pc'[q])
    <3>1. CASE q = r
      BY <1>1, <2>1, <2>2, <3>1 DEF Stage, Fresh
    <3>2. CASE q # r
      BY <2>1, <2>2, <2>3, <2>4, <3>2 DEF CalmInv, Current
    <3> QED
      BY <3>1, <3>2
  <2>5. Current'
    BY <1>2, <2>4 DEF Current
  <2>6. ASSUME NEW q \in Request PROVE Told(q)'
    <3>1. SUFFICES ASSUME Verdict(answer[q]) # "none" PROVE Told(q)'
      BY <2>1 DEF Told
    <3>2. Told(q) /\ Exists(KeyOf(q)) /\ pc[q] = "answered"
      BY <3>1, AnswersAreVerdicts DEF Told, CalmInv, RowInv, IndInv, AnsweredLast
    <3>3. KeyOf(q) \in Key \ {k}
      BY <2>1, <3>2 DEF CalmInv, RowInv, IndInv, HasRequest, RequestBody, KeyOf
    <3>4. ~Live(KeyOf(q)) => ~Live(KeyOf(q))'
      BY <1>2, <2>2, <3>3 DEF Live
    <3>5. call'[KeyOf(q)] = call[KeyOf(q)]
      BY <2>2, <3>3
    <3> QED
      BY <1>2, <2>1, <3>2, <3>4, <3>5 DEF Told, Exists, Is
  <2> QED
    BY <2>5, <2>6 DEF CalmInv
<1> QED
  BY <1>3, <1>4

\* Recovery takes no row of a live request, and fails those of which a failure was told.
LEMMA RecoverCalm ==
  ASSUME CalmInv, RowInv', NEW batch \in SUBSET Claimable, RecoverBatch(batch)
  PROVE  CalmInv'
<1>1. /\ UNCHANGED <<pc, req, answer>> /\ batch \subseteq Key /\ batch \subseteq stale
      /\ stale' = stale \ batch
      /\ \A k \in Key : IF k \in batch
           THEN call'[k] = TransitionTo(call[k], "failed", call[k].decision, "execution_state_unknown")
           ELSE call'[k] = call[k]
  BY DEF RecoverBatch, CalmInv, RowInv, IndInv, TypeOK, Claimable
<1>2. ASSUME NEW k \in batch
      PROVE  call'[k] \in CallRow /\ call'[k].status = "failed" /\ call[k].status = "executing"
  <2>1. k \in Key /\ Exists(k) /\ call[k].status = "executing"
    BY <1>1 DEF Claimable, Is
  <2>2. call[k] \in CallRow
    BY <2>1 DEF CalmInv, RowInv, IndInv, TypeOK, Exists
  <2>3. "failed" \in Status /\ "execution_state_unknown" \in ErrorCode /\ call[k].decision \in Decision
    BY <2>2 DEF Status, ErrorCode, CallRow
  <2> QED
    BY <1>1, <2>1, <2>2, <2>3, TransitionKeeps
<1>3. \A q \in Request : KeyOf(q)' = KeyOf(q)
  BY <1>1 DEF KeyOf
<1>4. Current'
  <2>1. ASSUME NEW q \in Request, pc[q] \in Working
        PROVE  KeyOf(q) \notin stale' /\ call'[KeyOf(q)].status = Stage(pc[q])
    BY <1>1, <2>1, AtWork DEF CalmInv, Current
  <2> QED
    BY <1>1, <1>3, <2>1 DEF Current
<1>5. \A j : ~Live(j) => ~Live(j)'
  BY <1>1, <1>3 DEF Live
<1>6. ASSUME NEW q \in Request PROVE Told(q)'
  <2>1. SUFFICES ASSUME Verdict(answer[q]) # "none" PROVE Told(q)'
    BY <1>1 DEF Told
  <2>2. Told(q) /\ Exists(KeyOf(q)) /\ pc[q] = "answered"
    BY <2>1, AnswersAreVerdicts DEF Told, CalmInv, RowInv, IndInv, AnsweredLast
  <2>3. KeyOf(q) \in Key
    BY <2>2 DEF CalmInv, RowInv, IndInv, HasRequest, RequestBody, KeyOf
  <2>4. CASE KeyOf(q) \in batch
    <3>1. Verdict(answer[q]) = "failed"
      BY <1>2, <2>1, <2>2, <2>4 DEF Told, RowVerdict, Terminal
    <3>2. call'[KeyOf(q)] # NoCall /\ RowVerdict(call'[KeyOf(q)]) = "failed"
      BY <1>2, <2>4, RowExists DEF RowVerdict, Terminal
    <3> QED
      BY <1>1, <1>3, <3>1, <3>2 DEF Told, Exists
  <2>5. CASE KeyOf(q) \notin batch
    BY <1>1, <1>3, <1>5, <2>2, <2>3, <2>5 DEF Told, Exists, Is
  <2> QED
    BY <2>4, <2>5
<1> QED
  BY <1>4, <1>6 DEF CalmInv

\* Time passes for rows that no live request writes.
LEMMA OperateCalm ==
  ASSUME ~StaleWhileLive, CalmInv, RowInv',
         Operate \/ (\E k \in Key : Elapse(k)) \/ UNCHANGED vars
  PROVE  CalmInv'
<1>1. UNCHANGED <<call, pc, req, answer>>
  BY DEF Operate, CompleteSession, SetRuleEnabled, SetToolEnabled, Elapse, database, vars
<1>2. stale' = stale \/ \E k \in Key : ~Live(k) /\ stale' = stale \cup {k}
  BY DEF Operate, CompleteSession, SetRuleEnabled, SetToolEnabled, Elapse, vars
<1>3. /\ \A q \in Request : KeyOf(q)' = KeyOf(q)
      /\ \A k : ~Live(k) => ~Live(k)'
  BY <1>1 DEF KeyOf, Live
<1>4. ASSUME NEW q \in Request, Verdict(answer'[q]) # "none" PROVE Told(q)'
  BY <1>1, <1>3, <1>4, ToldKept DEF CalmInv
<1>5. ASSUME NEW q \in Request, pc'[q] \in Working
      PROVE  pc'[q] = pc[q] /\ KeyOf(q)' = KeyOf(q) /\ KeyOf(q) \notin stale'
  BY <1>1, <1>2, <1>3, <1>5 DEF CalmInv, Current, Live
<1> QED
  BY <1>1, <1>4, <1>5, QuietStepCalm

LEMMA InitCalm == Init => CalmInv
<1> SUFFICES ASSUME Init PROVE CalmInv
  OBVIOUS
<1>1. RowInv
  BY InitRows
<1>2. Current
  BY DEF Init, Current, Working
<1>3. \A r \in Request : Told(r)
  BY AnswersAreVerdicts DEF Init, Told
<1> QED
  BY <1>1, <1>2, <1>3 DEF CalmInv

LEMMA StepCalm ==
  ASSUME ~StaleWhileLive
  PROVE  CalmInv /\ [Next]_vars => CalmInv'
<1> SUFFICES ASSUME CalmInv, [Next]_vars PROVE CalmInv'
  OBVIOUS
<1>1. RowInv'
  BY StepRows DEF CalmInv
<1>2. CASE \E r \in Request : Arrive(r) \/ Proceed(r) \/ Abort(r)
  <2>1. PICK r \in Request : Arrive(r) \/ Proceed(r) \/ Abort(r)
    BY <1>2
  <2>2. CASE Arrive(r) \/ LockSession(r) \/ Abort(r)
    BY <1>1, <2>2, ComeAndGoCalm
  <2>3. CASE InsertReceived(r)
    BY <1>1, <2>3, InsertCalm
  <2>4. CASE Screen(r) \/ Execute(r) \/ Conclude(r)
    BY <1>1, <2>4, WorkIsRowStep, RowStepCalm
  <2> QED
    BY <2>1, <2>2, <2>3, <2>4 DEF Proceed, Create
<1>3. CASE Recover
  BY <1>1, <1>3, RecoverCalm DEF Recover
<1>4. CASE Operate \/ (\E k \in Key : Elapse(k)) \/ UNCHANGED vars
  BY <1>1, <1>4, OperateCalm
<1> QED
  BY <1>2, <1>3, <1>4 DEF Next

\* Where the stale period outlasts every execution, a row is as its request has written it, and
\* what callers were told is what the row says or will say.
THEOREM CalmInvariance ==
  ASSUME ~StaleWhileLive
  PROVE  Spec => []CalmInv
BY InitCalm, StepCalm, PTL DEF Spec

-----------------------------------------------------------------------------
(* A terminal row stays as it is                                           *)

\* A row that is terminal already is not one that anybody is at work on, or that recovery claims.
LEMMA StepFreezes ==
  ASSUME ~StaleWhileLive, CalmInv, [Next]_vars, NEW k \in Key, Exists(k), call[k].status \in Terminal
  PROVE  call'[k] = call[k] /\ result'[k] = result[k] /\ audit'[k] = audit[k]
<1>1. CASE \E r \in Request : Arrive(r) \/ Proceed(r) \/ Abort(r)
  <2>1. PICK r \in Request : Arrive(r) \/ Proceed(r) \/ Abort(r)
    BY <1>1
  <2>2. CASE Arrive(r) \/ LockSession(r) \/ Abort(r)
    BY <2>2 DEF Arrive, Replay, Receive, LockSession, Abort, database
  <2>3. CASE InsertReceived(r)
    <3>1. KeyOf(r) # k \/ UNCHANGED <<call, audit>>
      BY <2>3 DEF InsertReceived, KeyTaken
    <3>2. result' = result /\ \A j \in Key \ {KeyOf(r)} : call'[j] = call[j] /\ audit'[j] = audit[j]
      BY <2>3 DEF InsertReceived, Store, CalmInv, RowInv, IndInv, TypeOK
    <3> QED
      BY <3>1, <3>2
  <2>4. CASE Screen(r) \/ Execute(r) \/ Conclude(r)
    <3>1. RowStep(r)
      BY <2>4, WorkIsRowStep
    <3>2. call[KeyOf(r)].status \notin Terminal
      BY <3>1, StageIsOpen DEF RowStep, CalmInv, Current
    <3> QED
      BY <3>1, <3>2 DEF RowStep
  <2> QED
    BY <2>1, <2>2, <2>3, <2>4 DEF Proceed, Create
<1>2. CASE Recover
  <2>1. PICK batch \in SUBSET Claimable : RecoverBatch(batch)
    BY <1>2 DEF Recover
  <2>2. k \notin batch
    BY <2>1 DEF Claimable, Is, Terminal
  <2> QED
    BY <2>1, <2>2 DEF RecoverBatch
<1>3. CASE Operate \/ (\E j \in Key : Elapse(j)) \/ UNCHANGED vars
  BY <1>3 DEF Operate, CompleteSession, SetRuleEnabled, SetToolEnabled, Elapse, database, vars
<1> QED
  BY <1>1, <1>2, <1>3 DEF Next

\* "Terminal calls cannot transition again", whoever retries, dies or recovers, where the stale
\* period is longer than any live execution.
THEOREM TerminalCallsStay ==
  ASSUME ~StaleWhileLive
  PROVE  Spec => TerminalCallsFrozen
<1>1. CalmInv /\ [Next]_vars =>
        [\A k \in Key :
           Exists(k) /\ call[k].status \in Terminal =>
             call'[k] = call[k] /\ result'[k] = result[k] /\ audit'[k] = audit[k]]_vars
  BY StepFreezes
<1> QED
  BY <1>1, CalmInvariance, PTL DEF Spec, TerminalCallsFrozen

-----------------------------------------------------------------------------
(* Callers agree                                                           *)

\* No two callers of one key and body are told different verdicts, where the stale period is
\* longer than any live execution.
THEOREM CallersAgree ==
  ASSUME ~StaleWhileLive
  PROVE  Spec => []VerdictsAgree
<1>1. CalmInv => VerdictsAgree
  <2> SUFFICES ASSUME CalmInv, NEW r1 \in Request, NEW r2 \in Request, KeyOf(r1) = KeyOf(r2),
                      Verdict(answer[r1]) # "none", Verdict(answer[r2]) # "none"
               PROVE  Verdict(answer[r1]) = Verdict(answer[r2])
    BY DEF VerdictsAgree, SameRequest
  <2>1. Told(r1) /\ Told(r2)
    BY DEF CalmInv
  <2>2. Is(KeyOf(r1), "executing") => RowVerdict(call[KeyOf(r1)]) = "none"
    BY DEF Is, RowVerdict, Terminal
  <2> QED
    BY <2>1, <2>2 DEF Told
<1> QED
  BY <1>1, CalmInvariance, PTL

-----------------------------------------------------------------------------
(* The contract of the key                                                 *)

\* What a row that is not terminal, and one that is, mean in the contract.
LEMMA OpenRow ==
  ASSUME NEW k \in Key, Exists(k), call[k].status \notin Terminal
  PROVE  PhaseOf(k) = "open" /\ OutcomeOf(k) = "none"
BY DEF PhaseOf, OutcomeOf

LEMMA ClosedRow ==
  ASSUME NEW k \in Key, Exists(k), call[k].status \in Terminal
  PROVE  PhaseOf(k) = "closed" /\ OutcomeOf(k) = call[k].status
BY DEF PhaseOf, OutcomeOf

LEMMA SameRow ==
  ASSUME NEW k \in Key, call'[k] = call[k]
  PROVE  PhaseOf(k)' = PhaseOf(k) /\ OutcomeOf(k)' = OutcomeOf(k)
BY DEF PhaseOf, OutcomeOf, Exists

\* A step that opens or closes no row and has no effect.
LEMMA QuietInContract ==
  ASSUME invoked' = invoked,
         \A k \in Key :
           \/ call'[k] = call[k]
           \/ /\ Exists(k) /\ call[k].status \notin Terminal
              /\ Exists(k)' /\ call'[k].status \notin Terminal
  PROVE  UNCHANGED Contract!contractVars
<1>1. ASSUME NEW k \in Key PROVE PhaseOf(k)' = PhaseOf(k) /\ OutcomeOf(k)' = OutcomeOf(k)
  <2>1. CASE call'[k] = call[k]
    BY <2>1, SameRow
  <2>2. CASE call'[k] # call[k]
    BY <2>2 DEF PhaseOf, OutcomeOf
  <2> QED
    BY <2>1, <2>2
<1> QED
  BY <1>1 DEF Contract!contractVars

\* A step that ends the calls of a batch, all in the same way.
LEMMA ClosesInContract ==
  ASSUME RowInv, RowInv', invoked' = invoked, NEW batch \in SUBSET Key, batch # {}, NEW st \in Terminal,
         \A k \in batch : /\ Exists(k) /\ call[k].status \notin Terminal
                          /\ Exists(k)' /\ call'[k].status = st,
         \A k \in Key \ batch : call'[k] = call[k]
  PROVE  Contract!Next
<1>1. ASSUME NEW k \in batch
      PROVE  /\ PhaseOf(k) = "open" /\ PhaseOf(k)' = "closed" /\ OutcomeOf(k)' = st
             /\ Contract!Truthful(st, invoked[k])
  <2>1. k \in Key
    OBVIOUS
  <2>2. PhaseOf(k) = "open"
    BY <2>1, OpenRow
  <2>3. PhaseOf(k)' = "closed" /\ OutcomeOf(k)' = st
    BY DEF PhaseOf, OutcomeOf
  <2>4. SoundRow(call'[k], result'[k], invoked'[k], audit'[k])
    BY <2>1 DEF RowInv, Sound, Exists
  <2>5. invoked[k] \in Nat
    BY <2>1 DEF RowInv, IndInv, TypeOK
  <2>6. Contract!Truthful(st, invoked[k])
    BY <2>4, <2>5 DEF SoundRow, Contract!Truthful
  <2> QED
    BY <2>2, <2>3, <2>6
<1>2. \A k \in Key \ batch : PhaseOf(k)' = PhaseOf(k) /\ OutcomeOf(k)' = OutcomeOf(k)
  BY SameRow
<1>3. st \in Contract!Outcome
  BY DEF Terminal, Contract!Outcome
<1>4. Contract!Close(batch, st)
  BY <1>1, <1>2 DEF Contract!Close
<1> QED
  BY <1>3, <1>4 DEF Contract!Next

\* What a request at work does to its row: nothing, its one effect, or its end.
LEMMA RowStepInContract ==
  ASSUME CalmInv, RowInv', NEW r \in Request, RowStep(r)
  PROVE  [Contract!Next]_(Contract!contractVars)
<1>k. KeyOf(r) \in Key
  BY AtWork DEF RowStep, CalmInv
<1> SUFFICES ASSUME NEW k \in Key, k = KeyOf(r) PROVE [Contract!Next]_(Contract!contractVars)
  BY <1>k
<1>1. /\ k \in Key /\ Exists(k) /\ Exists(k)' /\ call[k].status \notin Terminal
      /\ \A j \in Key \ {k} : call'[j] = call[j] /\ invoked'[j] = invoked[j]
      /\ invoked \in [Key -> Nat] /\ invoked' \in [Key -> Nat]
  BY AtWork, RowExists, StageIsOpen
     DEF RowStep, CalmInv, Current, RowInv, IndInv, TypeOK, Exists, KeyOf
<1>2. CASE invoked'[k] = invoked[k]
  <2>1. invoked' = invoked
    BY <1>1, <1>2
  <2>2. CASE call'[k].status \notin Terminal
    BY <1>1, <2>1, <2>2, QuietInContract
  <2>3. CASE call'[k].status \in Terminal
    <3>1. PICK st \in Terminal : call'[k].status = st
      BY <2>3
    <3>2. \A j \in {k} : /\ Exists(j) /\ call[j].status \notin Terminal
                         /\ Exists(j)' /\ call'[j].status = st
      BY <1>1, <3>1
    <3>3. {k} \in SUBSET Key /\ {k} # {} /\ \A j \in Key \ {k} : call'[j] = call[j]
      BY <1>1
    <3>4. RowInv
      BY DEF CalmInv
    <3>5. Contract!Next
      BY <2>1, <3>2, <3>3, <3>4, ClosesInContract
    <3> QED
      BY <3>5
  <2> QED
    BY <2>2, <2>3
<1>3. CASE invoked'[k] # invoked[k]
  <2>1. /\ invoked[k] = 0 /\ invoked'[k] = 1 /\ call'[k].status \notin Terminal
    BY <1>3, StageIsOpen DEF RowStep
  <2>2. invoked' = [invoked EXCEPT ![k] = 1]
    BY <1>1, <2>1
  <2>3. \A j \in Key : PhaseOf(j)' = PhaseOf(j) /\ OutcomeOf(j)' = OutcomeOf(j)
    BY <1>1, <2>1, SameRow DEF PhaseOf, OutcomeOf
  <2>4. PhaseOf(k) = "open"
    BY <1>1, OpenRow
  <2>5. Contract!Perform(k)
    BY <1>1, <2>1, <2>2, <2>3, <2>4 DEF Contract!Perform
  <2> QED
    BY <1>1, <2>5 DEF Contract!Next
<1> QED
  BY <1>2, <1>3

\* The insert claims the key.
LEMMA InsertInContract ==
  ASSUME CalmInv, RowInv', NEW r \in Request, InsertReceived(r)
  PROVE  [Contract!Next]_(Contract!contractVars)
<1>k. KeyOf(r) \in Key
  BY DEF InsertReceived, CalmInv, RowInv, IndInv, LockHeld, HasRequest, RequestBody, KeyOf
<1> SUFFICES ASSUME NEW k \in Key, k = KeyOf(r) PROVE [Contract!Next]_(Contract!contractVars)
  BY <1>k
<1>1. k \in Key /\ Fresh(held[r]) /\ held[r] \in CallRow /\ invoked' = invoked
  BY DEF InsertReceived, CalmInv, RowInv, IndInv, LockHeld, HasRequest, Holds, RequestBody, KeyOf
<1>2. CASE call' = call
  BY <1>1, <1>2, QuietInContract
<1>3. CASE call' # call
  <2>1. ~Exists(k) /\ call' = [call EXCEPT ![k] = held[r]]
    BY <1>3 DEF InsertReceived, Store, KeyTaken
  <2>2. call'[k] = held[r] /\ \A j \in Key \ {k} : call'[j] = call[j]
    BY <1>1, <2>1 DEF CalmInv, RowInv, IndInv, TypeOK
  <2>3. call'[k] # NoCall /\ call'[k].status \notin Terminal
    BY <1>1, <2>2, RowExists DEF Fresh, Terminal
  <2>4. PhaseOf(k) = "free" /\ OutcomeOf(k) = "none"
    BY <2>1 DEF PhaseOf, OutcomeOf
  <2>5. PhaseOf(k)' = "open" /\ OutcomeOf(k)' = "none"
    BY <2>3 DEF PhaseOf, OutcomeOf, Exists
  <2>6. \A j \in Key \ {k} : PhaseOf(j)' = PhaseOf(j) /\ OutcomeOf(j)' = OutcomeOf(j)
    BY <2>2, SameRow
  <2>7. [j \in Key |-> PhaseOf(j)]' = [[j \in Key |-> PhaseOf(j)] EXCEPT ![k] = "open"]
    BY <2>5, <2>6
  <2>8. [j \in Key |-> OutcomeOf(j)]' = [j \in Key |-> OutcomeOf(j)]
    BY <2>4, <2>5, <2>6
  <2>9. Contract!Claim(k)
    BY <1>1, <2>4, <2>7, <2>8 DEF Contract!Claim
  <2> QED
    BY <1>1, <2>9 DEF Contract!Next
<1> QED
  BY <1>2, <1>3

\* Recovery ends its batch as failed.
LEMMA RecoverInContract ==
  ASSUME CalmInv, RowInv', NEW batch \in SUBSET Claimable, RecoverBatch(batch)
  PROVE  Contract!Next
<1>1. /\ invoked' = invoked /\ batch \in SUBSET Key /\ batch # {}
      /\ \A k \in Key : IF k \in batch
           THEN call'[k] = TransitionTo(call[k], "failed", call[k].decision, "execution_state_unknown")
           ELSE call'[k] = call[k]
  BY DEF RecoverBatch, CalmInv, RowInv, IndInv, TypeOK, Claimable
<1>2. ASSUME NEW k \in batch
      PROVE  /\ Exists(k) /\ call[k].status \notin Terminal
             /\ Exists(k)' /\ call'[k].status = "failed"
  <2>1. k \in Key /\ Exists(k) /\ call[k].status = "executing"
    BY <1>1 DEF Claimable, Is
  <2>2. call[k] \in CallRow
    BY <2>1 DEF CalmInv, RowInv, IndInv, TypeOK, Exists
  <2>3. "failed" \in Status /\ "execution_state_unknown" \in ErrorCode /\ call[k].decision \in Decision
    BY <2>2 DEF Status, ErrorCode, CallRow
  <2>4. call'[k] \in CallRow /\ call'[k].status = "failed"
    BY <1>1, <2>1, <2>2, <2>3, TransitionKeeps
  <2> QED
    BY <2>1, <2>4, RowExists DEF Exists, Terminal
<1>3. "failed" \in Terminal
  BY DEF Terminal
<1> QED
  BY <1>1, <1>2, <1>3, ClosesInContract DEF CalmInv

LEMMA StepInContract ==
  ASSUME ~StaleWhileLive, CalmInv, CalmInv', [Next]_vars
  PROVE  [Contract!Next]_(Contract!contractVars)
<1>1. RowInv'
  BY DEF CalmInv
<1>2. CASE \E r \in Request : Arrive(r) \/ Proceed(r) \/ Abort(r)
  <2>1. PICK r \in Request : Arrive(r) \/ Proceed(r) \/ Abort(r)
    BY <1>2
  <2>2. CASE Arrive(r) \/ LockSession(r) \/ Abort(r)
    <3>1. call' = call /\ invoked' = invoked
      BY <2>2 DEF Arrive, Replay, Receive, LockSession, Abort, database
    <3> QED
      BY <3>1, QuietInContract
  <2>3. CASE InsertReceived(r)
    BY <1>1, <2>3, InsertInContract
  <2>4. CASE Screen(r) \/ Execute(r) \/ Conclude(r)
    BY <1>1, <2>4, WorkIsRowStep, RowStepInContract
  <2> QED
    BY <2>1, <2>2, <2>3, <2>4 DEF Proceed, Create
<1>3. CASE Recover
  BY <1>1, <1>3, RecoverInContract DEF Recover
<1>4. CASE Operate \/ (\E k \in Key : Elapse(k)) \/ UNCHANGED vars
  <2>1. call' = call /\ invoked' = invoked
    BY <1>4 DEF Operate, CompleteSession, SetRuleEnabled, SetToolEnabled, Elapse, database, vars
  <2> QED
    BY <2>1, QuietInContract
<1> QED
  BY <1>2, <1>3, <1>4 DEF Next

\* The execution, its retries and the recovery command keep the contract of the idempotency key:
\* claimed once, one effect at most, and an end that stands and tells the truth about the effect.
THEOREM ContractKept ==
  ASSUME ~StaleWhileLive
  PROVE  Spec => ImplementsContract
<1>1. Init => Contract!Init
  BY DEF Init, Contract!Init, PhaseOf, OutcomeOf, Exists
<1>2. CalmInv /\ CalmInv' /\ [Next]_vars => [Contract!Next]_(Contract!contractVars)
  BY StepInContract
<1> QED
  BY <1>1, <1>2, CalmInvariance, PTL DEF Spec, ImplementsContract, Contract!Spec

=============================================================================
