-------------------------- MODULE ToolCallsProofs --------------------------
(***************************************************************************)
(* Proofs about ToolCalls, for every set of requests, keys, sessions, tools*)
(* and rules and whether or not recovery may overtake a live execution.    *)
(***************************************************************************)
EXTENDS ToolCalls, FiniteSetTheorems, TLAPS

-----------------------------------------------------------------------------
(* The rows of tool_calls                                                  *)

\* What no update of a row changes: the columns that create writes and update does not.
Keeps(c, d) == c.session = d.session /\ c.tool = d.tool /\ c.args = d.args /\ c.seq = d.seq

\* transition_to yields a row again, of the same identity and with the status asked for.
LEMMA TransitionKeeps ==
  ASSUME NEW c \in CallRow, NEW st \in Status, NEW dec \in Decision, NEW code \in ErrorCode
  PROVE  /\ TransitionTo(c, st, dec, code) \in CallRow
         /\ Keeps(TransitionTo(c, st, dec, code), c)
         /\ TransitionTo(c, st, dec, code).status = st
         /\ TransitionTo(c, st, dec, code).error = code
         /\ TransitionTo(c, st, dec, code).matched = c.matched
BY DEF TransitionTo, CallRow, Keeps, Decision

\* A row is not the absence of a row.
LEMMA RowExists == \A c \in CallRow : c # NoCall
BY NothingAssumption

\* An event that is written or not.
LEMMA OptionalEvent ==
  ASSUME NEW e \in AuditEvent, NEW e2 \in AuditEvent, NEW P \in BOOLEAN
  PROVE  /\ <<e>> \in Seq(AuditEvent)
         /\ (IF P THEN <<e>> ELSE <<>>) \in Seq(AuditEvent)
         /\ (IF P THEN <<e>> ELSE <<e2>>) \in Seq(AuditEvent)
<1>1. CASE P
  BY <1>1
<1>2. CASE ~P
  BY <1>2
<1> QED
  BY <1>1, <1>2

\* The sequence number given to a call is one more than the number of calls of its session.
LEMMA NextIsDense ==
  ASSUME TypeOK, SequenceIsDense, NEW s \in Session
  PROVE  /\ IsFiniteSet(CallsOf(s))
         /\ Cardinality(CallsOf(s)) \in Nat
         /\ NextSequenceNumber(s) = Cardinality(CallsOf(s)) + 1
<1> DEFINE n == Cardinality(CallsOf(s))
           S == {0} \cup {call[k].seq : k \in CallsOf(s)}
<1>1. IsFiniteSet(CallsOf(s)) /\ n \in Nat
  BY KeyAssumption, FS_Subset, FS_CardinalityType DEF CallsOf
<1>2. S = 0 .. n
  BY <1>1 DEF SequenceIsDense
<1> HIDE DEF n, S
<1>3. n \in S /\ \A y \in S : n >= y
  BY <1>1, <1>2
<1>4. Max(S) = n
  BY <1>1, <1>2, <1>3 DEF Max
<1> QED
  BY <1>1, <1>4 DEF NextSequenceNumber, S, n

-----------------------------------------------------------------------------
(* The inductive invariant                                                 *)

\* A request that has arrived and is not lost knows what it was asked for.
HasRequest == \A r \in Request : pc[r] \notin {"idle", "gone"} => req[r] \in RequestBody

\* Nobody is answered before the end.
AnsweredLast == \A r \in Request : answer[r] # "none" => pc[r] = "answered"

\* A request at work holds a copy of the row it inserted, and nobody else works on that row.
OwnsRow ==
  \A r \in Request :
    pc[r] \in Working =>
      /\ held[r] \in CallRow
      /\ call[KeyOf(r)] \in CallRow
      /\ Keeps(held[r], call[KeyOf(r)])
      /\ RequestHash(held[r]) = RequestHash(req[r])

OneOwner ==
  \A q, r \in Request :
    pc[q] \in Working /\ pc[r] \in Working /\ KeyOf(q) = KeyOf(r) => q = r

\* The adapter has not been entered for a call that has not reached it.
Early == {"received", "validating", "evaluated", "executing"}
NotYetEntered ==
  /\ \A k \in Key : ~Exists(k) => invoked[k] = 0
  /\ \A r \in Request : pc[r] \in Early => invoked[KeyOf(r)] = 0

\* Result metadata is written by the last step of the one request that works on the call.
NotYetFinalized ==
  /\ \A k \in Key : ~Exists(k) => result[k] = "none"
  /\ \A r \in Request : pc[r] \in Working => result[KeyOf(r)] = "none"

\* What a request read under the session lock is still so while it holds the lock.
LockHeld ==
  \A r \in Request :
    pc[r] = "locked" =>
      /\ lock[req[r].session] = r
      /\ session[req[r].session] = "active"
      /\ held[r] \in CallRow
      /\ RequestHash(held[r]) = RequestHash(req[r])
      /\ held[r].seq = Cardinality(CallsOf(req[r].session)) + 1
      /\ Exists(KeyOf(r)) => call[KeyOf(r)].session # req[r].session

IndInv ==
  /\ TypeOK /\ HasRequest /\ AnsweredLast /\ OwnsRow /\ OneOwner /\ NotYetEntered
  /\ NotYetFinalized /\ LockHeld
  /\ SequenceIsDense /\ AtMostOneExecution /\ ConflictOnlyOnMismatch /\ BackstopsNeverHit

-----------------------------------------------------------------------------
(* One step of a request that works on its row                             *)

Quiet == Answer \ {"IdempotencyConflict", "RepositoryConflict"}

\* What every such step has in common, whichever it is: it may replace the row of its own key by
\* one of the same identity, write the metadata with its last step, enter the adapter from
\* "executing", and nothing else.
WorkStep(r) ==
  /\ pc[r] \in Working
  /\ \E where \in Working \cup {"answered"} :
       /\ pc' = [pc EXCEPT ![r] = where]
       /\ where \in Early => pc[r] \in Early
       /\ \/ invoked' = invoked
          \/ /\ pc[r] = "executing" /\ where = "running"
             /\ invoked' = [invoked EXCEPT ![KeyOf(r)] = @ + 1]
       /\ \/ result' = result
          \/ where = "answered" /\ \E m \in {"valid", "invalid"} :
                                     result' = [result EXCEPT ![KeyOf(r)] = m]
       /\ \/ where # "answered" /\ answer' = answer
          \/ where = "answered" /\ \E a \in Quiet : answer' = [answer EXCEPT ![r] = a]
       /\ \/ where = "answered" /\ held' = [held EXCEPT ![r] = NoCall]
          \/ where # "answered" /\ \E c \in CallRow : /\ Keeps(c, held[r])
                                                      /\ held' = [held EXCEPT ![r] = c]
  /\ \/ call' = call
     \/ \E c \in CallRow : Keeps(c, held[r]) /\ call' = [call EXCEPT ![KeyOf(r)] = c]
  /\ audit' \in [Key -> Seq(AuditEvent)]
  /\ stale' \subseteq Key
  /\ UNCHANGED <<req, registry, lock>>

\* The error a stored code is turned into says nothing of a conflict.
LEMMA TerminalErrorQuiet == \A code : TerminalError(code) \in Quiet
BY DEF TerminalError, Quiet, Answer, Failures

\* A transition to a terminal status is such a step.
LEMMA SettleIsWork ==
  ASSUME IndInv, NEW r \in Request, pc[r] \in Working,
         NEW st \in Status, NEW code \in ErrorCode, NEW event \in AuditEvent, NEW a \in Quiet,
         Settle(r, st, code, event, a)
  PROVE  WorkStep(r)
<1> DEFINE c == TransitionTo(held[r], st, held[r].decision, code)
<1>1. held[r] \in CallRow /\ KeyOf(r) \in Key /\ held[r].decision \in Decision
  BY DEF IndInv, OwnsRow, HasRequest, Working, RequestBody, KeyOf, CallRow
<1>2. c \in CallRow /\ Keeps(c, held[r])
  BY <1>1, TransitionKeeps
<1>3. call' = [call EXCEPT ![KeyOf(r)] = c] /\ stale' = stale \ {KeyOf(r)}
  BY DEF Settle, Store
<1>4. audit' \in [Key -> Seq(AuditEvent)]
  <2>1. audit' = [audit EXCEPT ![KeyOf(r)] = @ \o <<event>>]
    BY DEF Settle, Store
  <2>2. audit \in [Key -> Seq(AuditEvent)] /\ <<event>> \in Seq(AuditEvent)
    BY DEF IndInv, TypeOK
  <2> QED
    BY <2>1, <2>2, <1>1
<1>5. /\ pc' = [pc EXCEPT ![r] = "answered"]
      /\ answer' = [answer EXCEPT ![r] = a]
      /\ held' = [held EXCEPT ![r] = NoCall]
      /\ UNCHANGED <<req, result, registry, lock, invoked>>
  BY DEF Settle, Reply
<1> QED
  BY <1>2, <1>3, <1>4, <1>5 DEF WorkStep, IndInv, TypeOK, Early

\* So is an update of the row that leaves the request at work on it.
LEMMA AdvanceIsWork ==
  ASSUME IndInv, NEW r \in Request, pc[r] \in Working, NEW c \in CallRow, Keeps(c, held[r]),
         NEW events \in Seq(AuditEvent), Store(KeyOf(r), c, events),
         NEW where \in Working, where \in Early => pc[r] \in Early, Goto(r, where, c),
         UNCHANGED <<result, registry, lock, invoked>>
  PROVE  WorkStep(r)
<1>1. KeyOf(r) \in Key
  BY DEF IndInv, HasRequest, Working, RequestBody, KeyOf
<1>2. call' = [call EXCEPT ![KeyOf(r)] = c] /\ stale' = stale \ {KeyOf(r)}
  BY DEF Store
<1>3. audit' \in [Key -> Seq(AuditEvent)]
  <2>1. audit' = [audit EXCEPT ![KeyOf(r)] = @ \o events]
    BY DEF Store
  <2>2. audit \in [Key -> Seq(AuditEvent)]
    BY DEF IndInv, TypeOK
  <2> QED
    BY <2>1, <2>2, <1>1
<1>4. /\ pc' = [pc EXCEPT ![r] = where]
      /\ held' = [held EXCEPT ![r] = c]
      /\ UNCHANGED <<req, answer>>
  BY DEF Goto
<1> QED
  BY <1>1, <1>2, <1>3, <1>4 DEF WorkStep, IndInv, TypeOK, Working

\* And so is _finalize, which never meets a metadata row that is there already.
LEMMA FinalizeIsWork ==
  ASSUME IndInv, NEW r \in Request, pc[r] \in Working,
         NEW st \in Status, NEW dec \in Decision, NEW code \in ErrorCode,
         NEW metadata \in {"valid", "invalid"}, NEW a \in Quiet,
         Finalize(r, st, dec, code, metadata, a)
  PROVE  WorkStep(r)
<1> DEFINE c == TransitionTo(held[r], st, dec, code)
           events == FlagNote(dec) \o (IF st = "succeeded" THEN <<"completed">> ELSE <<"failed">>)
<1>1. held[r] \in CallRow /\ KeyOf(r) \in Key /\ result[KeyOf(r)] = "none"
  BY DEF IndInv, OwnsRow, NotYetFinalized, HasRequest, Working, RequestBody, KeyOf
<1>2. c \in CallRow /\ Keeps(c, held[r])
  BY <1>1, TransitionKeeps
<1>3. /\ Store(KeyOf(r), c, events)
      /\ result' = [result EXCEPT ![KeyOf(r)] = metadata]
      /\ Reply(r, a)
      /\ UNCHANGED <<registry, lock, invoked>>
  BY <1>1 DEF Finalize
<1>4. audit' \in [Key -> Seq(AuditEvent)]
  <2>1. audit' = [audit EXCEPT ![KeyOf(r)] = @ \o events]
    BY <1>3 DEF Store
  <2>2. audit \in [Key -> Seq(AuditEvent)]
    BY DEF IndInv, TypeOK
  <2>3. events \in Seq(AuditEvent)
    <3>1. /\ {"flagged", "completed", "failed"} \subseteq AuditEvent
          /\ (dec = "flag") \in BOOLEAN /\ (st = "succeeded") \in BOOLEAN
      BY DEF AuditEvent
    <3>2. FlagNote(dec) \in Seq(AuditEvent)
      BY <3>1, OptionalEvent DEF FlagNote
    <3>3. (IF st = "succeeded" THEN <<"completed">> ELSE <<"failed">>) \in Seq(AuditEvent)
      BY <3>1, OptionalEvent
    <3> QED
      BY <3>2, <3>3
  <2> QED
    BY <2>1, <2>2, <2>3, <1>1
<1>5. call' = [call EXCEPT ![KeyOf(r)] = c] /\ stale' = stale \ {KeyOf(r)}
  BY <1>3 DEF Store
<1> HIDE DEF c, events
<1> QED
  BY <1>2, <1>3, <1>4, <1>5 DEF WorkStep, IndInv, TypeOK, Reply, Early

-----------------------------------------------------------------------------
\* Every step between the insertion of the row and the answer is a WorkStep.
LEMMA ProceedIsWork ==
  ASSUME IndInv, NEW r \in Request, Screen(r) \/ Execute(r) \/ Conclude(r)
  PROVE  WorkStep(r)
<1>1. ASSUME pc[r] \in Working
      PROVE  /\ held[r] \in CallRow /\ KeyOf(r) \in Key /\ held[r].decision \in Decision
             /\ held[r].matched \subseteq Rule
  BY <1>1 DEF IndInv, OwnsRow, HasRequest, Working, RequestBody, KeyOf, CallRow
<1>2. CASE BeginValidating(r)
  <2> DEFINE c == TransitionTo(held[r], "validating", held[r].decision, "none")
  <2>1. pc[r] \in Working /\ pc[r] \in Early
    BY <1>2 DEF BeginValidating, Working, Early
  <2>2. c \in CallRow /\ Keeps(c, held[r])
    <3>1. "validating" \in Status /\ "none" \in ErrorCode
      BY DEF Status, ErrorCode
    <3> QED
      BY <1>1, <2>1, <3>1, TransitionKeeps
  <2>3. /\ Store(KeyOf(r), c, <<>>) /\ Goto(r, "validating", c)
        /\ UNCHANGED <<result, registry, lock, invoked>>
    BY <1>2 DEF BeginValidating
  <2>4. <<>> \in Seq(AuditEvent) /\ "validating" \in Working
    BY DEF Working
  <2> HIDE DEF c
  <2> QED
    BY <2>1, <2>2, <2>3, <2>4, AdvanceIsWork
<1>3. CASE \E code \in RejectErrors : Reject(r, code)
  <2> PICK code \in RejectErrors : Reject(r, code)
    BY <1>3
  <2> DEFINE a == IF code = "tool_payload_too_deep" THEN "ToolPayloadTooDeep"
                                                    ELSE "InvalidToolArguments"
  <2>1. pc[r] \in Working /\ Settle(r, "rejected", code, "failed", a)
    BY DEF Reject, Working
  <2>2. a \in Quiet /\ code \in ErrorCode /\ "rejected" \in Status /\ "failed" \in AuditEvent
    BY ErrorAssumption DEF Quiet, Answer, Failures, ErrorCode, Status, AuditEvent
  <2> HIDE DEF a
  <2> QED
    BY <2>1, <2>2, SettleIsWork
<1>4. CASE \E matches \in SUBSET enabled, risky \in BOOLEAN : EvaluateInput(r, matches, risky)
  <2> PICK matches \in SUBSET enabled, risky \in BOOLEAN : EvaluateInput(r, matches, risky)
    BY <1>4
  <2> DEFINE blocked  == Blocks(matches)
             flagged  == risky \/ (~blocked /\ matches \cap FlagRules # {})
             decision == IF flagged THEN "flag" ELSE "allow"
             c        == [TransitionTo(held[r], "evaluating", decision, "none")
                            EXCEPT !.matched = matches]
             events   == <<"validated">> \o (IF flagged THEN <<"flagged">> ELSE <<>>)
             d        == TransitionTo(c, "blocked", "block", "tool_call_blocked")
  <2>1. pc[r] \in Working /\ pc[r] \in Early /\ matches \subseteq Rule
    BY DEF EvaluateInput, Working, Early, IndInv, TypeOK
  <2>2. decision \in Decision /\ "none" \in ErrorCode /\ "evaluating" \in Status
    BY DEF Decision, ErrorCode, Status
  <2>3. /\ TransitionTo(held[r], "evaluating", decision, "none") \in CallRow
        /\ Keeps(TransitionTo(held[r], "evaluating", decision, "none"), held[r])
    BY <1>1, <2>1, <2>2, TransitionKeeps
  <2>4. c \in CallRow /\ Keeps(c, held[r])
    BY <2>1, <2>3 DEF CallRow, Keeps
  <2>5. d \in CallRow /\ Keeps(d, held[r])
    <3>1. "blocked" \in Status /\ "block" \in Decision /\ "tool_call_blocked" \in ErrorCode
      BY DEF Decision, ErrorCode, Status
    <3> HIDE DEF c
    <3>2. d \in CallRow /\ Keeps(d, c)
      BY <2>4, <3>1, TransitionKeeps
    <3> QED
      BY <3>2, <2>4 DEF Keeps
  <2>6. events \in Seq(AuditEvent) /\ events \o <<"blocked">> \in Seq(AuditEvent)
    <3>1. <<"validated">> \in Seq(AuditEvent) /\ <<"blocked">> \in Seq(AuditEvent)
      BY DEF AuditEvent
    <3>2. (IF flagged THEN <<"flagged">> ELSE <<>>) \in Seq(AuditEvent)
      <4>1. flagged \in BOOLEAN /\ "flagged" \in AuditEvent
        BY DEF Blocks, AuditEvent
      <4> HIDE DEF flagged
      <4> QED
        BY <4>1, OptionalEvent
    <3> QED
      BY <3>1, <3>2
  <2>7. IF blocked
        THEN Store(KeyOf(r), d, events \o <<"blocked">>) /\ Reply(r, "ToolCallBlocked")
        ELSE Store(KeyOf(r), c, events) /\ Goto(r, "evaluated", c)
    BY DEF EvaluateInput
  <2>8. UNCHANGED <<result, registry, lock, invoked>>
    BY DEF EvaluateInput
  <2> HIDE DEF blocked, c, d, events
  <2>9. CASE ~blocked
    <3>1. Store(KeyOf(r), c, events) /\ Goto(r, "evaluated", c) /\ "evaluated" \in Working
      BY <2>7, <2>9 DEF Working
    <3> QED
      BY <3>1, <2>1, <2>4, <2>6, <2>8, AdvanceIsWork
  <2>10. CASE blocked
    <3>1. audit' = [audit EXCEPT ![KeyOf(r)] = @ \o (events \o <<"blocked">>)]
      BY <2>7, <2>10 DEF Store
    <3>2. audit' \in [Key -> Seq(AuditEvent)]
      BY <3>1, <2>6, <2>1, <1>1 DEF IndInv, TypeOK
    <3>3. call' = [call EXCEPT ![KeyOf(r)] = d] /\ stale' \subseteq Key
      BY <2>7, <2>10 DEF Store, IndInv, TypeOK
    <3>4. Reply(r, "ToolCallBlocked") /\ "ToolCallBlocked" \in Quiet
      BY <2>7, <2>10 DEF Quiet, Answer
    <3> QED
      BY <3>2, <3>3, <3>4, <2>1, <2>5, <2>8 DEF WorkStep, Reply, Early
  <2> QED
    BY <2>9, <2>10
<1>5. CASE StartExecuting(r)
  <2> DEFINE c == TransitionTo(held[r], "executing", held[r].decision, "none")
  <2>1. pc[r] \in Working /\ pc[r] \in Early
    BY <1>5 DEF StartExecuting, Working, Early
  <2>2. c \in CallRow /\ Keeps(c, held[r])
    <3>1. "executing" \in Status /\ "none" \in ErrorCode
      BY DEF Status, ErrorCode
    <3> QED
      BY <1>1, <2>1, <3>1, TransitionKeeps
  <2>3. /\ Store(KeyOf(r), c, <<"started">>) /\ Goto(r, "executing", c)
        /\ UNCHANGED <<result, registry, lock, invoked>>
    BY <1>5 DEF StartExecuting
  <2>4. <<"started">> \in Seq(AuditEvent) /\ "executing" \in Working
    BY DEF Working, AuditEvent
  <2> HIDE DEF c
  <2> QED
    BY <2>1, <2>2, <2>3, <2>4, AdvanceIsWork
<1>6. CASE FailUnconfigured(r)
  <2>1. /\ pc[r] \in Working
        /\ Settle(r, "failed", "adapter_not_configured", "failed", "AdapterNotConfigured")
    BY <1>6 DEF FailUnconfigured, Fail, Working
  <2>2. /\ "AdapterNotConfigured" \in Quiet /\ "adapter_not_configured" \in ErrorCode
        /\ "failed" \in Status /\ "failed" \in AuditEvent
    BY DEF Quiet, Answer, Failures, ErrorCode, Status, AuditEvent
  <2> QED
    BY <2>1, <2>2, SettleIsWork
<1>7. CASE InvokeAdapter(r)
  <2>1. pc[r] = "executing" /\ pc[r] \in Working
    BY <1>7 DEF InvokeAdapter, Working
  <2>2. held[r] \in CallRow /\ Keeps(held[r], held[r])
    BY <1>1, <2>1 DEF Keeps
  <2>3. /\ pc' = [pc EXCEPT ![r] = "running"]
        /\ held' = [held EXCEPT ![r] = held[r]]
        /\ invoked' = [invoked EXCEPT ![KeyOf(r)] = @ + 1]
        /\ UNCHANGED <<req, answer, call, result, audit, registry, lock, stale>>
    BY <1>7 DEF InvokeAdapter, Goto, database
  <2>4. audit' \in [Key -> Seq(AuditEvent)] /\ stale' \subseteq Key
    BY <2>3 DEF IndInv, TypeOK
  <2>5. \E c \in CallRow : Keeps(c, held[r]) /\ held' = [held EXCEPT ![r] = c]
    BY <2>2, <2>3
  <2>6. "running" \in Working /\ "running" \notin Early /\ "running" # "answered"
    BY DEF Working, Early
  <2> HIDE DEF Keeps
  <2> QED
    BY <2>1, <2>3, <2>4, <2>5, <2>6 DEF WorkStep
<1>8. CASE TimeOut(r)
  <2>1. pc[r] \in Working /\ Settle(r, "timed_out", "tool_timeout", "timed_out", "ToolTimeout")
    BY <1>8 DEF TimeOut, Working
  <2>2. /\ "ToolTimeout" \in Quiet /\ "tool_timeout" \in ErrorCode
        /\ "timed_out" \in Status /\ "timed_out" \in AuditEvent
    BY DEF Quiet, Answer, Failures, ErrorCode, Status, AuditEvent
  <2> QED
    BY <2>1, <2>2, SettleIsWork
<1>9. CASE \E code \in AdapterErrors : FailInAdapter(r, code)
  <2> PICK code \in AdapterErrors : FailInAdapter(r, code)
    BY <1>9
  <2>1. pc[r] \in Working /\ Settle(r, "failed", code, "failed", TerminalError(code))
    BY DEF FailInAdapter, Fail, Working
  <2>2. code \in ErrorCode /\ "failed" \in Status /\ "failed" \in AuditEvent
    BY ErrorAssumption DEF ErrorCode, Status, AuditEvent
  <2> QED
    BY <2>1, <2>2, TerminalErrorQuiet, SettleIsWork
<1>10. CASE \E code \in ResultErrors : FailResult(r, code)
  <2> PICK code \in ResultErrors : FailResult(r, code)
    BY <1>10
  <2>1. pc[r] \in Working /\ Settle(r, "failed", code, "failed", TerminalError(code))
    BY DEF FailResult, Fail, Working
  <2>2. code \in ErrorCode /\ "failed" \in Status /\ "failed" \in AuditEvent
    BY ErrorAssumption DEF ErrorCode, Status, AuditEvent
  <2> QED
    BY <2>1, <2>2, TerminalErrorQuiet, SettleIsWork
<1>11. CASE DropSanitizedResult(r)
  <2> PICK a \in {"ToolResultTooLarge", "ToolResultPayloadTooDeep"} : Reply(r, a)
    BY <1>11 DEF DropSanitizedResult
  <2>1. pc[r] \in Working /\ UNCHANGED <<call, result, audit, registry, lock, stale, invoked>>
    BY <1>11 DEF DropSanitizedResult, Working, database
  <2>2. /\ a \in Quiet
        /\ pc' = [pc EXCEPT ![r] = "answered"] /\ answer' = [answer EXCEPT ![r] = a]
        /\ held' = [held EXCEPT ![r] = NoCall] /\ req' = req
    BY DEF Reply, Quiet, Answer, Failures
  <2>3. audit' \in [Key -> Seq(AuditEvent)] /\ stale' \subseteq Key
    BY <2>1 DEF IndInv, TypeOK
  <2> QED
    BY <2>1, <2>2, <2>3 DEF WorkStep, Early
<1>12. CASE \E risky \in BOOLEAN : FinalizeInvalid(r, risky)
  <2> PICK risky \in BOOLEAN : FinalizeInvalid(r, risky)
    BY <1>12
  <2> DEFINE dec == ResultDecision(held[r].decision, risky)
  <2>1. /\ pc[r] \in Working
        /\ Finalize(r, "failed", dec, "invalid_tool_result", "invalid", "InvalidToolResult")
    BY DEF FinalizeInvalid, Working
  <2>2. dec \in Decision /\ "InvalidToolResult" \in Quiet
        /\ "invalid_tool_result" \in ErrorCode /\ "failed" \in Status
    BY <1>1, <2>1 DEF ResultDecision, Decision, Quiet, Answer, Failures, ErrorCode, Status
  <2> HIDE DEF dec
  <2> QED
    BY <2>1, <2>2, FinalizeIsWork
<1>13. CASE \E matches \in SUBSET enabled, risky \in BOOLEAN : ReadResultRules(r, matches, risky)
  <2> PICK matches \in SUBSET enabled, risky \in BOOLEAN : ReadResultRules(r, matches, risky)
    BY <1>13
  <2> DEFINE flagged == risky \/ matches \cap FlagRules # {}
             c       == [held[r] EXCEPT !.matched = @ \cup matches,
                                        !.decision = ResultDecision(@, flagged)]
  <2>1. pc[r] \in Working /\ matches \subseteq Rule
    BY DEF ReadResultRules, Working, IndInv, TypeOK
  <2>2. ResultDecision(held[r].decision, flagged) \in Decision
    BY <1>1, <2>1 DEF ResultDecision, Decision
  <2>3. c \in CallRow /\ Keeps(c, held[r])
    BY <1>1, <2>1, <2>2 DEF CallRow, Keeps
  <2>4. Goto(r, "judged", c) /\ UNCHANGED <<call, result, audit, registry, lock, stale, invoked>>
    BY DEF ReadResultRules, database
  <2> HIDE DEF c
  <2>5. /\ pc' = [pc EXCEPT ![r] = "judged"] /\ held' = [held EXCEPT ![r] = c]
        /\ UNCHANGED <<req, answer>>
    BY <2>4 DEF Goto
  <2>6. audit' \in [Key -> Seq(AuditEvent)] /\ stale' \subseteq Key
    BY <2>4 DEF IndInv, TypeOK
  <2> QED
    BY <2>1, <2>3, <2>4, <2>5, <2>6 DEF WorkStep, Working, Early
<1>14. CASE FinalizeSucceeded(r)
  <2>1. pc[r] \in Working /\ Finalize(r, "succeeded", held[r].decision, "none", "valid", Success)
    BY <1>14 DEF FinalizeSucceeded, Working
  <2>2. /\ held[r].decision \in Decision
        /\ Success \in Quiet /\ "none" \in ErrorCode /\ "succeeded" \in Status
    BY <1>1, <2>1 DEF Quiet, Answer, Success, ErrorCode, Status
  <2> QED
    BY <2>1, <2>2, FinalizeIsWork
<1> QED
  BY <1>2, <1>3, <1>4, <1>5, <1>6, <1>7, <1>8, <1>9, <1>10, <1>11, <1>12, <1>13, <1>14
     DEF Screen, Execute, Conclude

-----------------------------------------------------------------------------
(* Steps that keep the rows                                                *)

\* No row appears or goes, and every row keeps its identity.
RowsKept ==
  \A k \in Key : /\ Exists(k)' <=> Exists(k)
                 /\ Exists(k) => Keeps(call'[k], call[k])

\* Rows that keep their session and number leave the numbering as it was.
LEMMA RowsKeptDense ==
  ASSUME SequenceIsDense, RowsKept
  PROVE  /\ SequenceIsDense'
         /\ \A s \in Session : CallsOf(s)' = CallsOf(s)
<1>1. \A s \in Session : CallsOf(s)' = CallsOf(s)
  BY DEF RowsKept, CallsOf, Keeps, Exists
<1>2. ASSUME NEW s \in Session
      PROVE  {call[k].seq : k \in CallsOf(s)}' = 1 .. Cardinality(CallsOf(s))'
  <2>1. \A k \in CallsOf(s) : call'[k].seq = call[k].seq
    BY DEF RowsKept, CallsOf, Keeps
  <2>2. {call'[k].seq : k \in CallsOf(s)'} = {call[k].seq : k \in CallsOf(s)}
    BY <1>1, <2>1
  <2> QED
    BY <1>1, <2>2 DEF SequenceIsDense
<1> QED
  BY <1>1, <1>2 DEF SequenceIsDense

\* A request at work neither adds nor removes a row, and moves none to another session.
LEMMA WorkKeepsRows ==
  ASSUME IndInv, NEW r \in Request, WorkStep(r)
  PROVE  RowsKept
<1>1. /\ KeyOf(r) \in Key /\ call \in [Key -> CallRow \cup {NoCall}]
      /\ call[KeyOf(r)] \in CallRow /\ Keeps(held[r], call[KeyOf(r)])
  BY DEF IndInv, TypeOK, OwnsRow, HasRequest, WorkStep, Working, RequestBody, KeyOf
<1>2. CASE call' = call
  BY <1>2 DEF RowsKept, Exists, Keeps
<1>3. CASE \E c \in CallRow : Keeps(c, held[r]) /\ call' = [call EXCEPT ![KeyOf(r)] = c]
  <2> PICK c \in CallRow : Keeps(c, held[r]) /\ call' = [call EXCEPT ![KeyOf(r)] = c]
    BY <1>3
  <2>1. Keeps(c, call[KeyOf(r)]) /\ c # NoCall /\ call[KeyOf(r)] # NoCall
    BY <1>1, RowExists DEF Keeps
  <2> QED
    BY <1>1, <2>1 DEF RowsKept, Exists, Keeps
<1> QED
  BY <1>2, <1>3 DEF WorkStep

\* A request at work keeps the invariant.
LEMMA WorkInvariant ==
  ASSUME IndInv, NEW r \in Request, WorkStep(r)
  PROVE  IndInv'
<1> USE DEF IndInv
<1>1. PICK where \in Working \cup {"answered"} :
       /\ pc' = [pc EXCEPT ![r] = where]
       /\ where \in Early => pc[r] \in Early
       /\ \/ invoked' = invoked
          \/ /\ pc[r] = "executing" /\ where = "running"
             /\ invoked' = [invoked EXCEPT ![KeyOf(r)] = @ + 1]
       /\ \/ result' = result
          \/ where = "answered" /\ \E m \in {"valid", "invalid"} :
                                     result' = [result EXCEPT ![KeyOf(r)] = m]
       /\ \/ where # "answered" /\ answer' = answer
          \/ where = "answered" /\ \E a \in Quiet : answer' = [answer EXCEPT ![r] = a]
       /\ \/ where = "answered" /\ held' = [held EXCEPT ![r] = NoCall]
          \/ where # "answered" /\ \E c \in CallRow : /\ Keeps(c, held[r])
                                                      /\ held' = [held EXCEPT ![r] = c]
  BY DEF WorkStep
<1>2. RowsKept
  BY WorkKeepsRows
<1>3. UNCHANGED <<req, session, enabled, offered, lock>> /\ pc[r] \in Working
  BY DEF WorkStep, registry
<1>4. KeyOf(r) \in Key /\ req[r] \in RequestBody /\ \A q \in Request : KeyOf(q)' = KeyOf(q)
  BY <1>3 DEF HasRequest, Working, RequestBody, KeyOf
<1>5. pc'[r] = where /\ \A q \in Request \ {r} : pc'[q] = pc[q] /\ held'[q] = held[q]
  BY <1>1 DEF TypeOK
<1>6. TypeOK'
  <2>1. call' \in [Key -> CallRow \cup {NoCall}]
    <3>1. call \in [Key -> CallRow \cup {NoCall}]
      BY DEF TypeOK
    <3>2. call' = call \/ \E c \in CallRow : call' = [call EXCEPT ![KeyOf(r)] = c]
      BY DEF WorkStep
    <3> QED
      BY ONLY <3>1, <3>2, <1>4
  <2>2. result' \in [Key -> {"none", "valid", "invalid"}]
    BY <1>1, <1>4 DEF TypeOK
  <2>3. invoked' \in [Key -> Nat]
    BY <1>1, <1>4 DEF TypeOK
  <2>4. pc' \in [Request -> Location]
    BY <1>1 DEF TypeOK, Location, Working
  <2>5. held' \in [Request -> CallRow \cup {NoCall}]
    BY <1>1 DEF TypeOK
  <2>6. answer' \in [Request -> Answer]
    BY <1>1 DEF TypeOK, Quiet
  <2>7. audit' \in [Key -> Seq(AuditEvent)] /\ stale' \subseteq Key
    BY DEF WorkStep
  <2> QED
    BY <1>3, <2>1, <2>2, <2>3, <2>4, <2>5, <2>6, <2>7 DEF TypeOK
<1>7. HasRequest'
  BY <1>3, <1>4, <1>5 DEF HasRequest
<1>8. AnsweredLast'
  <2>1. pc[r] # "answered"
    BY <1>3 DEF Working
  <2>2. answer[r] = "none"
    BY <2>1 DEF AnsweredLast
  <2> QED
    BY <1>1, <1>5, <2>2 DEF AnsweredLast, TypeOK
<1>9. OwnsRow'
  <2>1. call' \in [Key -> CallRow \cup {NoCall}] /\ held' \in [Request -> CallRow \cup {NoCall}]
    BY <1>6 DEF TypeOK
  <2> SUFFICES ASSUME NEW q \in Request, pc'[q] \in Working
               PROVE  /\ held'[q] \in CallRow
                      /\ call'[KeyOf(q)] \in CallRow
                      /\ Keeps(held'[q], call'[KeyOf(q)])
                      /\ RequestHash(held'[q]) = RequestHash(req[q])
    BY <1>3, <1>4 DEF OwnsRow
  <2>2. pc[q] \in Working /\ KeyOf(q) \in Key
    BY <1>3, <1>5 DEF HasRequest, Working, RequestBody, KeyOf
  <2>3. /\ held[q] \in CallRow /\ call[KeyOf(q)] \in CallRow
        /\ Keeps(held[q], call[KeyOf(q)]) /\ RequestHash(held[q]) = RequestHash(req[q])
    BY <2>2 DEF OwnsRow
  <2>4. call'[KeyOf(q)] \in CallRow /\ Keeps(call'[KeyOf(q)], call[KeyOf(q)])
    BY <1>2, <2>1, <2>2, <2>3, RowExists DEF RowsKept, Exists
  <2>5. held'[q] \in CallRow /\ Keeps(held'[q], held[q])
    <3>1. CASE q = r
      <4>1. where # "answered"
        BY <1>5, <3>1 DEF Working
      <4> QED
        BY <1>1, <3>1, <4>1 DEF TypeOK
    <3>2. CASE q # r
      BY <1>5, <2>3, <3>2 DEF Keeps
    <3> QED
      BY <3>1, <3>2
  <2> QED
    BY <2>3, <2>4, <2>5 DEF Keeps, RequestHash
<1>10. OneOwner'
  BY <1>3, <1>4, <1>5 DEF OneOwner
<1>11. NotYetEntered'
  <2>1. Exists(KeyOf(r))
    BY <1>3, RowExists DEF OwnsRow, Exists
  <2>2. \A k \in Key : ~Exists(k)' => invoked'[k] = 0
    BY <1>1, <1>2, <2>1 DEF NotYetEntered, RowsKept, TypeOK
  <2>3. ASSUME NEW q \in Request, pc'[q] \in Early
        PROVE  invoked'[KeyOf(q)] = 0
    <3>1. pc[q] \in Early /\ invoked[KeyOf(q)] = 0
      BY <1>1, <1>5, <2>3 DEF NotYetEntered
    <3>2. CASE invoked' = invoked
      BY <3>1, <3>2
    <3>3. CASE where = "running" /\ invoked' = [invoked EXCEPT ![KeyOf(r)] = @ + 1]
      <4>1. q # r /\ pc[q] \in Working
        BY <1>5, <2>3, <3>1, <3>3 DEF Early, Working
      <4>2. KeyOf(q) # KeyOf(r)
        BY <1>3, <4>1 DEF OneOwner
      <4> QED
        BY <3>1, <3>3, <4>2, <1>4 DEF TypeOK
    <3> QED
      BY <1>1, <3>2, <3>3
  <2> QED
    BY <1>4, <2>2, <2>3 DEF NotYetEntered
<1>12. NotYetFinalized'
  <2>1. Exists(KeyOf(r))
    BY <1>3, RowExists DEF OwnsRow, Exists
  <2>2. \A k \in Key : ~Exists(k)' => result'[k] = "none"
    BY <1>1, <1>2, <2>1 DEF NotYetFinalized, RowsKept, TypeOK
  <2>3. ASSUME NEW q \in Request, pc'[q] \in Working
        PROVE  result'[KeyOf(q)] = "none"
    <3>1. pc[q] \in Working /\ result[KeyOf(q)] = "none"
      BY <1>3, <1>5, <2>3 DEF NotYetFinalized
    <3>2. CASE result' = result
      BY <3>1, <3>2
    <3>3. CASE where = "answered" /\ \E m \in {"valid", "invalid"} :
                                     result' = [result EXCEPT ![KeyOf(r)] = m]
      <4>1. q # r
        BY <1>5, <2>3, <3>3 DEF Working
      <4>2. KeyOf(q) # KeyOf(r)
        BY <1>3, <3>1, <4>1 DEF OneOwner
      <4> QED
        BY <3>1, <3>3, <4>2, <1>4 DEF TypeOK
    <3> QED
      BY <1>1, <3>2, <3>3
  <2> QED
    BY <1>4, <2>2, <2>3 DEF NotYetFinalized
<1>13. LockHeld'
  <2> SUFFICES ASSUME NEW q \in Request, pc'[q] = "locked"
               PROVE  /\ lock[req[q].session] = q
                      /\ session[req[q].session] = "active"
                      /\ held'[q] \in CallRow
                      /\ RequestHash(held'[q]) = RequestHash(req[q])
                      /\ held'[q].seq = Cardinality(CallsOf(req[q].session)') + 1
                      /\ call'[KeyOf(q)] # NoCall => call'[KeyOf(q)].session # req[q].session
    BY <1>3, <1>4 DEF LockHeld, Exists
  <2>1. q # r /\ pc[q] = "locked" /\ held'[q] = held[q]
    BY <1>5 DEF Working
  <2>2. req[q] \in RequestBody /\ req[q].session \in Session /\ KeyOf(q) \in Key
    BY <2>1 DEF HasRequest, RequestBody, KeyOf
  <2>3. CallsOf(req[q].session)' = CallsOf(req[q].session)
    <3>1. PICK s \in Session : s = req[q].session /\ s = req'[q].session
      BY <1>3, <2>2
    <3>2. CallsOf(s)' = CallsOf(s)
      BY <1>2, RowsKeptDense
    <3> QED
      BY <3>1, <3>2 DEF CallsOf
  <2> QED
    BY <1>2, <2>1, <2>2, <2>3 DEF LockHeld, RowsKept, Keeps, Exists
<1>14. SequenceIsDense'
  BY <1>2, RowsKeptDense
<1>15. AtMostOneExecution'
  <2>1. CASE invoked' = invoked
    BY <2>1 DEF AtMostOneExecution
  <2>2. CASE pc[r] = "executing" /\ invoked' = [invoked EXCEPT ![KeyOf(r)] = @ + 1]
    <3>1. invoked[KeyOf(r)] = 0
      BY <2>2 DEF NotYetEntered, Early
    <3> QED
      BY <2>2, <3>1, <1>4 DEF AtMostOneExecution, TypeOK
  <2> QED
    BY <1>1, <2>1, <2>2
<1>16. ConflictOnlyOnMismatch'
  <2> SUFFICES ASSUME NEW q \in Request, answer'[q] = "IdempotencyConflict"
               PROVE  /\ call'[KeyOf(q)] # NoCall
                      /\ RequestHash(call'[KeyOf(q)]) # RequestHash(req[q])
    BY <1>3, <1>4 DEF ConflictOnlyOnMismatch, Exists
  <2>1. answer[q] = "IdempotencyConflict"
    BY <1>1 DEF Quiet, TypeOK
  <2>2. KeyOf(q) \in Key
    BY <2>1 DEF AnsweredLast, HasRequest, RequestBody, KeyOf
  <2> QED
    BY <1>2, <2>1, <2>2 DEF ConflictOnlyOnMismatch, RowsKept, Keeps, RequestHash, Exists
<1>17. BackstopsNeverHit'
  BY <1>1 DEF BackstopsNeverHit, Quiet, TypeOK
<1> QED
  BY <1>6, <1>7, <1>8, <1>9, <1>10, <1>11, <1>12, <1>13, <1>14, <1>15, <1>16, <1>17

-----------------------------------------------------------------------------
(* Steps of the recovery command, of time and of the operator              *)

\* None of them touches a request or the adapter, and none ends a session that is locked.
OutsideStep ==
  /\ RowsKept
  /\ call' \in [Key -> CallRow \cup {NoCall}]
  /\ audit' \in [Key -> Seq(AuditEvent)]
  /\ session' \in [Session -> {"active", "ended"}]
  /\ \A s \in Session : lock[s] # NoRequest => session'[s] = session[s]
  /\ enabled' \subseteq Rule /\ offered' \subseteq Tool /\ stale' \subseteq Key
  /\ UNCHANGED <<result, lock, invoked, pc, req, held, answer>>

\* A step outside the requests keeps the invariant.
LEMMA OutsideInvariant ==
  ASSUME IndInv, OutsideStep
  PROVE  IndInv'
<1> USE DEF IndInv
<1>1. UNCHANGED <<result, lock, invoked, pc, req, held, answer>> /\ RowsKept
  BY DEF OutsideStep
<1>2. TypeOK'
  BY DEF TypeOK, OutsideStep
<1>3. HasRequest' /\ AnsweredLast' /\ OneOwner' /\ AtMostOneExecution' /\ BackstopsNeverHit'
  BY <1>1 DEF HasRequest, AnsweredLast, OneOwner, AtMostOneExecution, BackstopsNeverHit, KeyOf
<1>4. \A q \in Request : pc[q] \notin {"idle", "gone"} => KeyOf(q) \in Key
  BY DEF HasRequest, RequestBody, KeyOf
<1>5. OwnsRow'
  <2> SUFFICES ASSUME NEW q \in Request, pc[q] \in Working
               PROVE  /\ held[q] \in CallRow
                      /\ call'[KeyOf(q)] \in CallRow
                      /\ Keeps(held[q], call'[KeyOf(q)])
                      /\ RequestHash(held[q]) = RequestHash(req[q])
    BY <1>1 DEF OwnsRow, KeyOf
  <2>1. KeyOf(q) \in Key
    BY <1>4 DEF Working
  <2>2. call'[KeyOf(q)] \in CallRow /\ Keeps(call'[KeyOf(q)], call[KeyOf(q)])
    BY <1>1, <1>2, <2>1, RowExists DEF OwnsRow, RowsKept, Exists, TypeOK
  <2> QED
    BY <2>2 DEF OwnsRow, Keeps
<1>6. NotYetEntered' /\ NotYetFinalized'
  BY <1>1 DEF NotYetEntered, NotYetFinalized, RowsKept, KeyOf
<1>7. LockHeld'
  <2> SUFFICES ASSUME NEW q \in Request, pc[q] = "locked"
               PROVE  /\ lock[req[q].session] = q
                      /\ session'[req[q].session] = "active"
                      /\ held[q] \in CallRow
                      /\ RequestHash(held[q]) = RequestHash(req[q])
                      /\ held[q].seq = Cardinality(CallsOf(req[q].session)') + 1
                      /\ call'[KeyOf(q)] # NoCall => call'[KeyOf(q)].session # req[q].session
    BY <1>1 DEF LockHeld, Exists, KeyOf
  <2>1. KeyOf(q) \in Key /\ q # NoRequest
    BY <1>4, NothingAssumption
  <2>2. PICK s \in Session : s = req[q].session /\ s = req'[q].session
    BY <1>1 DEF HasRequest, RequestBody
  <2>3. CallsOf(s)' = CallsOf(s)
    BY <1>1, RowsKeptDense
  <2>4. CallsOf(req[q].session)' = CallsOf(req[q].session)
    BY <2>2, <2>3 DEF CallsOf
  <2> QED
    BY <1>1, <2>1, <2>2, <2>4 DEF LockHeld, RowsKept, Keeps, Exists, OutsideStep
<1>8. SequenceIsDense'
  BY <1>1, RowsKeptDense
<1>9. ConflictOnlyOnMismatch'
  <2> SUFFICES ASSUME NEW q \in Request, answer[q] = "IdempotencyConflict"
               PROVE  /\ call'[KeyOf(q)] # NoCall
                      /\ RequestHash(call'[KeyOf(q)]) # RequestHash(req[q])
    BY <1>1 DEF ConflictOnlyOnMismatch, Exists, KeyOf
  <2>1. KeyOf(q) \in Key
    BY <1>4 DEF AnsweredLast
  <2> QED
    BY <1>1, <2>1 DEF ConflictOnlyOnMismatch, RowsKept, Keeps, RequestHash, Exists
<1> QED
  BY <1>2, <1>3, <1>5, <1>6, <1>7, <1>8, <1>9

\* Time, the recovery command and the operator are such steps.
LEMMA OutsideIsOutside ==
  ASSUME IndInv, (\E k \in Key : Elapse(k)) \/ Recover \/ Operate \/ UNCHANGED vars
  PROVE  OutsideStep
<1> USE DEF IndInv, TypeOK
<1>1. CASE UNCHANGED vars
  BY <1>1 DEF vars, OutsideStep, RowsKept, Exists, Keeps
<1>2. CASE \E k \in Key : Elapse(k)
  BY <1>2 DEF Elapse, database, registry, OutsideStep, RowsKept, Exists, Keeps
<1>3. CASE Recover
  <2> PICK batch \in SUBSET Claimable : RecoverBatch(batch)
    BY <1>3 DEF Recover
  <2> DEFINE failed(k) == TransitionTo(call[k], "failed", call[k].decision,
                                       "execution_state_unknown")
  <2>1. \A k \in batch : k \in Key /\ call[k] \in CallRow /\ call[k].decision \in Decision
    BY DEF Claimable, Is, Exists, CallRow
  <2>2. "failed" \in Status /\ "execution_state_unknown" \in ErrorCode
    BY DEF Status, ErrorCode
  <2>3. \A k \in batch : failed(k) \in CallRow /\ Keeps(failed(k), call[k])
    BY <2>1, <2>2, TransitionKeeps
  <2>4. call' = [k \in Key |-> IF k \in batch THEN failed(k) ELSE call[k]]
    BY DEF RecoverBatch
  <2> HIDE DEF failed
  <2>5. call' \in [Key -> CallRow \cup {NoCall}]
    BY <2>3, <2>4
  <2>6. RowsKept
    BY <2>1, <2>3, <2>4, RowExists DEF RowsKept, Exists, Keeps
  <2>7. audit' \in [Key -> Seq(AuditEvent)]
    <3>1. "recovered" \in AuditEvent
      BY DEF AuditEvent
    <3> QED
      BY <3>1 DEF RecoverBatch
  <2> QED
    BY <2>5, <2>6, <2>7 DEF RecoverBatch, registry, OutsideStep
<1>4. CASE \E s \in Session : CompleteSession(s)
  BY <1>4 DEF CompleteSession, SessionUnlocked, database, OutsideStep, RowsKept, Exists, Keeps
<1>5. CASE \E rule \in Rule : SetRuleEnabled(rule)
  BY <1>5 DEF SetRuleEnabled, database, OutsideStep, RowsKept, Exists, Keeps
<1>6. CASE \E t \in Tool : SetToolEnabled(t)
  BY <1>6 DEF SetToolEnabled, database, OutsideStep, RowsKept, Exists, Keeps
<1> QED
  BY <1>1, <1>2, <1>3, <1>4, <1>5, <1>6 DEF Operate

-----------------------------------------------------------------------------
(* Steps of a request that has no row of its own                           *)

\* No step before the insertion, and no loss of a request, changes a table or the adapter, and
\* none makes a request a worker or gives it the lock.
IdleStep(r) ==
  /\ UNCHANGED <<call, result, audit, session, enabled, offered, stale, invoked>>
  /\ \E where \in {"create", "answered", "gone"} :
       /\ pc' = [pc EXCEPT ![r] = where]
       /\ where = "gone" \/ req'[r] \in RequestBody
       /\ \/ where # "answered" /\ answer' = answer
          \/ where = "answered" /\ answer'[r] \in Quiet \cup {"IdempotencyConflict"}
  /\ answer' \in [Request -> Answer]
  /\ req' \in [Request -> RequestBody \cup {NoRequest}]
  /\ held' \in [Request -> CallRow \cup {NoCall}]
  /\ lock' \in [Session -> Request \cup {NoRequest}]
  /\ \A q \in Request \ {r} : req'[q] = req[q] /\ held'[q] = held[q] /\ answer'[q] = answer[q]
  /\ \A s \in Session : lock'[s] = lock[s] \/ lock[s] = r
  /\ answer'[r] = "IdempotencyConflict" =>
       Exists(req'[r].key) /\ RequestHash(call[req'[r].key]) # RequestHash(req'[r])

\* A request that arrives, is refused or is lost keeps the invariant.
LEMMA IdleInvariant ==
  ASSUME IndInv, NEW r \in Request, pc[r] # "answered", IdleStep(r)
  PROVE  IndInv'
<1> USE DEF IndInv
<1>1. PICK where \in {"create", "answered", "gone"} :
       /\ pc' = [pc EXCEPT ![r] = where]
       /\ where = "gone" \/ req'[r] \in RequestBody
       /\ \/ where # "answered" /\ answer' = answer
          \/ where = "answered" /\ answer'[r] \in Quiet \cup {"IdempotencyConflict"}
  BY DEF IdleStep
<1>2. /\ UNCHANGED <<call, result, audit, session, enabled, offered, stale, invoked>>
      /\ \A q \in Request \ {r} : /\ pc'[q] = pc[q] /\ req'[q] = req[q] /\ held'[q] = held[q]
                                  /\ answer'[q] = answer[q]
      /\ pc'[r] = where
  BY <1>1 DEF IdleStep, TypeOK
<1>3. /\ \A q \in Request : pc'[q] \in Working \cup {"locked"} => q # r
      /\ \A q \in Request : pc'[q] \in Working => q # r
  BY <1>2 DEF Working
<1>4. TypeOK'
  BY <1>1, <1>2 DEF TypeOK, IdleStep, Location
<1>5. HasRequest'
  BY <1>1, <1>2 DEF HasRequest
<1>6. AnsweredLast'
  BY <1>1, <1>2 DEF AnsweredLast
<1>7. OwnsRow' /\ OneOwner'
  BY <1>2, <1>3 DEF OwnsRow, OneOwner, KeyOf
<1>8. NotYetEntered'
  <2>1. \A q \in Request : pc'[q] \in Early => q # r
    BY <1>2 DEF Early
  <2> QED
    BY <1>2, <2>1 DEF NotYetEntered, KeyOf, Exists
<1>9. NotYetFinalized'
  BY <1>2, <1>3 DEF NotYetFinalized, KeyOf, Exists
<1>10. LockHeld'
  <2> SUFFICES ASSUME NEW q \in Request, pc'[q] = "locked"
               PROVE  /\ lock'[req'[q].session] = q
                      /\ session[req'[q].session] = "active"
                      /\ held'[q] \in CallRow
                      /\ RequestHash(held'[q]) = RequestHash(req'[q])
                      /\ held'[q].seq = Cardinality(CallsOf(req'[q].session)) + 1
                      /\ call[req'[q].key] # NoCall => call[req'[q].key].session # req'[q].session
    BY <1>2 DEF LockHeld, CallsOf, Exists, KeyOf
  <2>1. q # r /\ req'[q] = req[q] /\ held'[q] = held[q] /\ pc[q] = "locked"
    BY <1>2, <1>3
  <2>2. req[q].session \in Session
    BY <2>1 DEF HasRequest, RequestBody
  <2>3. lock'[req[q].session] = q
    BY <2>1, <2>2 DEF LockHeld, IdleStep
  <2> QED
    BY <2>1, <2>3 DEF LockHeld, Exists, KeyOf
<1>11. SequenceIsDense' /\ AtMostOneExecution'
  BY <1>2 DEF SequenceIsDense, AtMostOneExecution, CallsOf, Exists
<1>12. ConflictOnlyOnMismatch'
  <2> SUFFICES ASSUME NEW q \in Request, answer'[q] = "IdempotencyConflict"
               PROVE  /\ call[req'[q].key] # NoCall
                      /\ RequestHash(call[req'[q].key]) # RequestHash(req'[q])
    BY <1>2 DEF ConflictOnlyOnMismatch, Exists, KeyOf
  <2>1. CASE q = r
    BY <2>1 DEF IdleStep, Exists
  <2>2. CASE q # r
    BY <1>2, <2>2 DEF ConflictOnlyOnMismatch, Exists, KeyOf
  <2> QED
    BY <2>1, <2>2
<1>13. BackstopsNeverHit'
  BY <1>1, <1>2 DEF BackstopsNeverHit, Quiet
<1> QED
  BY <1>4, <1>5, <1>6, <1>7, <1>8, <1>9, <1>10, <1>11, <1>12, <1>13

\* The answer that a stored row is turned into says nothing of a conflict either.
LEMMA StoredAnswerQuiet == \A k \in Key : StoredAnswer(k) \in Quiet
<1> SUFFICES ASSUME NEW k \in Key PROVE StoredAnswer(k) \in Quiet
  OBVIOUS
<1>1. {Success, "ToolCallBlocked", "ExecutionInProgress"} \subseteq Quiet
  BY DEF Quiet, Answer, Success, Unsettled
<1>2. TerminalError(call[k].error) \in Quiet
  BY TerminalErrorQuiet
<1> QED
  BY <1>1, <1>2 DEF StoredAnswer

\* A request's first lookup is such a step, whether it finds the key or not.
LEMMA ArriveIsIdle ==
  ASSUME IndInv, NEW r \in Request, Arrive(r)
  PROVE  pc[r] # "answered" /\ IdleStep(r)
<1> USE DEF IndInv, TypeOK
<1> PICK body \in RequestBody : Replay(r, body) \/ Receive(r, body)
  BY DEF Arrive
<1>1. body.key \in Key
  BY DEF RequestBody
<1>2. CASE Replay(r, body)
  <2>1. ExistingAnswer(body.key, body) \in Quiet \cup {"IdempotencyConflict"}
    BY <1>1, StoredAnswerQuiet DEF ExistingAnswer
  <2>2. ExistingAnswer(body.key, body) = "IdempotencyConflict" =>
          RequestHash(call[body.key]) # RequestHash(body)
    BY <1>1, StoredAnswerQuiet DEF ExistingAnswer, Quiet
  <2>3. ExistingAnswer(body.key, body) \in Answer
    BY <2>1 DEF Quiet, Answer, Unsettled
  <2> HIDE DEF ExistingAnswer
  <2> QED
    BY <1>2, <2>1, <2>2, <2>3 DEF Replay, IdleStep, database, registry
<1>3. CASE Receive(r, body)
  <2>1. answer[r] # "IdempotencyConflict"
    BY <1>3 DEF Receive, AnsweredLast
  <2> QED
    BY <1>3, <2>1 DEF Receive, IdleStep, database, registry
<1> QED
  BY <1>2, <1>3

\* So is the loss of a request: the lock it may have held is let go.
LEMMA AbortIsIdle ==
  ASSUME IndInv, NEW r \in Request, Abort(r)
  PROVE  pc[r] # "answered" /\ IdleStep(r)
<1> USE DEF IndInv, TypeOK
<1>1. answer[r] # "IdempotencyConflict"
  BY DEF Abort, AnsweredLast
<1> QED
  BY <1>1 DEF Abort, IdleStep, database, registry

\* A request that takes the session lock owns it alone, and its number is the next one.
LEMMA LockInvariant ==
  ASSUME IndInv, NEW r \in Request, LockSession(r)
  PROVE  IndInv'
<1> USE DEF IndInv
<1> DEFINE body == req[r]
           row  == [session |-> body.session, tool |-> body.tool, args |-> body.args,
                    seq |-> NextSequenceNumber(body.session), status |-> "received",
                    decision |-> "allow", matched |-> {}, error |-> "none"]
<1>1. /\ pc[r] = "create" /\ body \in RequestBody /\ body.session \in Session
      /\ body.key \in Key /\ lock[body.session] = NoRequest
  BY DEF LockSession, HasRequest, RequestBody, SessionUnlocked
<1>2. UNCHANGED <<call, result, audit, session, enabled, offered, stale, invoked>>
  BY DEF LockSession, database, registry
<1>3. CASE Refusal(body) # "none"
  <2>1. Reply(r, Refusal(body)) /\ UNCHANGED lock
    BY <1>3 DEF LockSession
  <2>2. /\ Refusal(body) \in Quiet \cup {"IdempotencyConflict"}
        /\ Refusal(body) \in Answer
        /\ Refusal(body) = "IdempotencyConflict" =>
             Exists(body.key) /\ RequestHash(call[body.key]) # RequestHash(body)
    BY <1>3 DEF Refusal, Quiet, Answer, Unsettled
  <2> HIDE DEF Refusal
  <2>3. IdleStep(r)
    BY <1>1, <1>2, <2>1, <2>2 DEF IdleStep, Reply, TypeOK
  <2> QED
    BY <1>1, <2>3, IdleInvariant
<1>4. CASE Refusal(body) = "none"
  <2>1. /\ pc' = [pc EXCEPT ![r] = "locked"] /\ held' = [held EXCEPT ![r] = row]
        /\ lock' = [lock EXCEPT ![body.session] = r] /\ UNCHANGED <<req, answer>>
    BY <1>4 DEF LockSession, Goto
  <2>2. ~Exists(body.key) /\ session[body.session] = "active"
    BY <1>4 DEF Refusal
  <2>3. /\ NextSequenceNumber(body.session) = Cardinality(CallsOf(body.session)) + 1
        /\ NextSequenceNumber(body.session) \in Nat
    BY <1>1, NextIsDense
  <2>4. row \in CallRow
    BY <1>1, <2>3 DEF CallRow, RequestBody, Status, Decision, ErrorCode
  <2>5. RequestHash(row) = RequestHash(body) /\ row.seq = NextSequenceNumber(body.session)
    BY DEF RequestHash
  <2> HIDE DEF row
  <2>6. TypeOK'
    BY <1>1, <1>2, <2>1, <2>4 DEF TypeOK, Location
  <2>7. \A q \in Request \ {r} : pc'[q] = pc[q] /\ held'[q] = held[q]
    BY <2>1 DEF TypeOK
  <2>8. pc'[r] = "locked" /\ held'[r] = row
    BY <2>1 DEF TypeOK
  <2>9. HasRequest' /\ AnsweredLast'
    BY <1>1, <2>1, <2>7, <2>8 DEF HasRequest, AnsweredLast
  <2>10. OwnsRow' /\ OneOwner' /\ NotYetFinalized' /\ NotYetEntered'
    <3>1. \A q \in Request : pc'[q] \in Working => q # r
      BY <2>8 DEF Working
    <3>2. \A q \in Request : pc'[q] \in Early => q # r
      BY <2>8 DEF Early
    <3> QED
      BY <1>2, <2>1, <2>7, <3>1, <3>2
         DEF OwnsRow, OneOwner, NotYetFinalized, NotYetEntered, KeyOf, Exists
  <2>11. LockHeld'
    <3> SUFFICES ASSUME NEW q \in Request, pc'[q] = "locked"
                 PROVE  /\ lock'[req[q].session] = q
                        /\ session[req[q].session] = "active"
                        /\ held'[q] \in CallRow
                        /\ RequestHash(held'[q]) = RequestHash(req[q])
                        /\ held'[q].seq = Cardinality(CallsOf(req[q].session)) + 1
                        /\ Exists(KeyOf(q)) => call[KeyOf(q)].session # req[q].session
      BY <1>2, <2>1 DEF LockHeld, CallsOf, Exists, KeyOf
    <3>1. CASE q = r
      BY <3>1, <1>1, <2>1, <2>2, <2>3, <2>4, <2>5, <2>8 DEF TypeOK, KeyOf
    <3>2. CASE q # r
      <4>1. pc[q] = "locked" /\ req[q].session \in Session /\ q # NoRequest
        BY <2>7, <3>2, NothingAssumption DEF HasRequest, RequestBody
      <4>2. req[q].session # body.session
        BY <1>1, <4>1 DEF LockHeld
      <4> QED
        BY <2>1, <2>7, <3>2, <4>1, <4>2 DEF LockHeld, TypeOK
    <3> QED
      BY <3>1, <3>2
  <2>12. SequenceIsDense' /\ AtMostOneExecution'
    BY <1>2, <2>1 DEF SequenceIsDense, AtMostOneExecution, CallsOf, Exists
  <2>13. ConflictOnlyOnMismatch' /\ BackstopsNeverHit'
    BY <1>2, <2>1 DEF ConflictOnlyOnMismatch, BackstopsNeverHit, Exists, KeyOf
  <2> QED
    BY <2>6, <2>9, <2>10, <2>11, <2>12, <2>13
<1> QED
  BY <1>3, <1>4

-----------------------------------------------------------------------------
(* The insertion of a row                                                  *)

\* The number taken under the lock is still free when the row is inserted.
LEMMA InsertInvariant ==
  ASSUME IndInv, NEW r \in Request, InsertReceived(r)
  PROVE  IndInv'
<1> USE DEF IndInv
<1> PICK k \in Key, s \in Session : k = KeyOf(r) /\ s = req[r].session
  BY DEF InsertReceived, HasRequest, RequestBody, KeyOf
<1>1. /\ pc[r] = "locked" /\ req[r] \in RequestBody
      /\ lock' = [lock EXCEPT ![s] = NoRequest]
      /\ UNCHANGED <<result, session, enabled, offered, invoked>>
  BY DEF InsertReceived, HasRequest, RequestBody, KeyOf, registry
<1>2. /\ lock[s] = r /\ session[s] = "active" /\ held[r] \in CallRow
      /\ RequestHash(held[r]) = RequestHash(req[r])
      /\ held[r].seq = Cardinality(CallsOf(s)) + 1
      /\ Exists(k) => call[k].session # s
  BY <1>1 DEF LockHeld
<1>3. IsFiniteSet(CallsOf(s)) /\ Cardinality(CallsOf(s)) \in Nat
  BY <1>1, NextIsDense
<1>4. ~SequenceTaken(s, held[r].seq)
  <2>1. held[r].seq \notin 1 .. Cardinality(CallsOf(s))
    BY <1>2, <1>3
  <2>2. held[r].seq \notin {call[j].seq : j \in CallsOf(s)}
    BY <1>1, <2>1 DEF SequenceIsDense
  <2> QED
    BY <2>2 DEF SequenceTaken
<1>5. answer[r] # "IdempotencyConflict"
  BY <1>1 DEF AnsweredLast
<1>6. CASE Exists(k)
  <2>1. Reply(r, "IdempotencyConflict") /\ UNCHANGED <<call, audit, stale>>
    BY <1>6 DEF InsertReceived, KeyTaken
  <2>2. RequestHash(call[k]) # RequestHash(req[r])
    BY <1>2, <1>6 DEF RequestHash
  <2>3. IdleStep(r)
    BY <1>1, <1>2, <1>6, <2>1, <2>2 DEF IdleStep, Reply, TypeOK, Answer, Unsettled, KeyOf
  <2> QED
    BY <1>1, <2>3, IdleInvariant
<1>7. CASE ~Exists(k)
  <2>1. /\ call' = [call EXCEPT ![k] = held[r]]
        /\ audit' = [audit EXCEPT ![k] = @ \o <<"received">>]
        /\ stale' = stale \ {k}
        /\ pc' = [pc EXCEPT ![r] = "received"] /\ held' = [held EXCEPT ![r] = held[r]]
        /\ UNCHANGED <<req, answer>>
    BY <1>4, <1>7 DEF InsertReceived, KeyTaken, Store, Goto
  <2>2. TypeOK'
    <3>1. "received" \in AuditEvent /\ <<"received">> \in Seq(AuditEvent)
      BY DEF AuditEvent
    <3>2. audit' \in [Key -> Seq(AuditEvent)]
      BY <1>1, <2>1, <3>1 DEF TypeOK
    <3> QED
      BY <1>1, <1>2, <2>1, <3>2 DEF TypeOK, Location
  <2>3. /\ \A q \in Request \ {r} : pc'[q] = pc[q]
        /\ held' = held /\ pc'[r] = "received"
    BY <2>1 DEF TypeOK
  <2>4. HasRequest' /\ AnsweredLast'
    BY <1>1, <2>1, <2>3 DEF HasRequest, AnsweredLast
  <2>5. \A q \in Request : pc[q] \in Working => KeyOf(q) # k
    BY <1>7, RowExists DEF OwnsRow, Exists
  <2>6. call'[k] = held[r] /\ \A j \in Key \ {k} : call'[j] = call[j]
    BY <1>1, <2>1 DEF TypeOK
  <2>7. OwnsRow'
    <3> SUFFICES ASSUME NEW q \in Request, pc'[q] \in Working
                 PROVE  /\ held[q] \in CallRow
                        /\ call'[KeyOf(q)] \in CallRow
                        /\ Keeps(held[q], call'[KeyOf(q)])
                        /\ RequestHash(held[q]) = RequestHash(req[q])
      BY <2>1, <2>3 DEF OwnsRow, KeyOf
    <3>1. CASE q = r
      BY <1>2, <2>6, <3>1 DEF Keeps
    <3>2. CASE q # r
      <4>1. pc[q] \in Working /\ KeyOf(q) \in Key \ {k}
        BY <2>3, <2>5, <3>2 DEF HasRequest, Working, RequestBody, KeyOf
      <4> QED
        BY <2>6, <4>1 DEF OwnsRow
    <3> QED
      BY <3>1, <3>2
  <2>8. OneOwner'
    BY <2>1, <2>3, <2>5 DEF OneOwner, KeyOf
  <2>9. NotYetEntered'
    <3>1. invoked[k] = 0 /\ "received" \in Early
      BY <1>1, <1>7 DEF NotYetEntered, Early
    <3>2. \A j \in Key : call'[j] = NoCall => invoked[j] = 0
      BY <1>1, <2>6, <3>1 DEF NotYetEntered, Exists
    <3>3. \A q \in Request : pc'[q] \in Early => invoked[KeyOf(q)] = 0
      BY <2>3, <3>1 DEF NotYetEntered
    <3> QED
      BY <1>1, <2>1, <3>2, <3>3 DEF NotYetEntered, Exists, KeyOf
  <2>10. NotYetFinalized'
    <3>1. result[k] = "none"
      BY <1>1, <1>7 DEF NotYetFinalized
    <3>2. \A j \in Key : call'[j] = NoCall => result[j] = "none"
      BY <1>1, <2>6, <3>1 DEF NotYetFinalized, Exists
    <3>3. \A q \in Request : pc'[q] \in Working => result[KeyOf(q)] = "none"
      BY <2>3, <3>1 DEF NotYetFinalized
    <3> QED
      BY <1>1, <2>1, <3>2, <3>3 DEF NotYetFinalized, Exists, KeyOf
  <2>11. /\ k \notin CallsOf(s) /\ CallsOf(s)' = CallsOf(s) \cup {k}
         /\ \A t \in Session \ {s} : CallsOf(t)' = CallsOf(t)
    <3>1. held[r].session = s /\ held[r] # NoCall /\ call[k] = NoCall
      BY <1>2, <1>7, RowExists DEF RequestHash, Exists
    <3>2. {j \in Key : call'[j] # NoCall /\ call'[j].session = s}
             = {j \in Key : call[j] # NoCall /\ call[j].session = s} \cup {k}
      BY <1>1, <2>6, <3>1
    <3>3. \A t \in Session \ {s} :
            {j \in Key : call'[j] # NoCall /\ call'[j].session = t}
              = {j \in Key : call[j] # NoCall /\ call[j].session = t}
      BY <1>1, <2>6, <3>1
    <3> QED
      BY <2>1, <3>1, <3>2, <3>3 DEF CallsOf, Exists
  <2>12. SequenceIsDense'
    <3> SUFFICES ASSUME NEW t \in Session
                 PROVE  {call'[j].seq : j \in CallsOf(t)'} = 1 .. Cardinality(CallsOf(t)')
      BY DEF SequenceIsDense
    <3>1. CASE t = s
      <4>1. Cardinality(CallsOf(t)') = Cardinality(CallsOf(s)) + 1
        <5>1. Cardinality(CallsOf(s) \cup {k}) = Cardinality(CallsOf(s)) + 1
          BY <1>3, <2>11, FS_AddElement
        <5> QED
          BY <2>11, <3>1, <5>1
      <4>2. {call'[j].seq : j \in CallsOf(t)'}
               = {call[j].seq : j \in CallsOf(s)} \cup {held[r].seq}
        BY <2>6, <2>11, <3>1 DEF CallsOf
      <4>3. {call[j].seq : j \in CallsOf(s)} = 1 .. Cardinality(CallsOf(s))
        BY <1>1 DEF SequenceIsDense
      <4>4. 1 .. Cardinality(CallsOf(s)) + 1
              = 1 .. Cardinality(CallsOf(s)) \cup {Cardinality(CallsOf(s)) + 1}
        BY <1>3
      <4> QED
        BY <1>2, <4>1, <4>2, <4>3, <4>4
    <3>2. CASE t # s
      <4>1. CallsOf(t)' = CallsOf(t) /\ k \notin CallsOf(t)
        BY <1>7, <2>11, <3>2 DEF CallsOf
      <4>2. {call'[j].seq : j \in CallsOf(t)'} = {call[j].seq : j \in CallsOf(t)}
        BY <2>6, <4>1 DEF CallsOf
      <4> QED
        BY <4>1, <4>2 DEF SequenceIsDense
    <3> QED
      BY <3>1, <3>2
  <2>13. LockHeld'
    <3> SUFFICES ASSUME NEW q \in Request, pc'[q] = "locked"
                 PROVE  /\ lock'[req[q].session] = q
                        /\ session[req[q].session] = "active"
                        /\ held[q] \in CallRow
                        /\ RequestHash(held[q]) = RequestHash(req[q])
                        /\ held[q].seq = Cardinality(CallsOf(req[q].session)') + 1
                        /\ call'[KeyOf(q)] # NoCall => call'[KeyOf(q)].session # req[q].session
      BY <1>1, <2>1, <2>3 DEF LockHeld, Exists, KeyOf
    <3>1. /\ q # r /\ pc[q] = "locked" /\ KeyOf(q) \in Key
          /\ req[q] \in RequestBody /\ req[q].session \in Session
      BY <2>3 DEF HasRequest, RequestBody, KeyOf
    <3>2. req[q].session # s
      BY <1>2, <3>1 DEF LockHeld
    <3>3. PICK t \in Session : t = req[q].session /\ t = req'[q].session
      BY <2>1, <3>1
    <3>4. CallsOf(req[q].session)' = CallsOf(req[q].session)
      <4>1. CallsOf(t)' = CallsOf(t)
        BY <2>11, <3>2, <3>3
      <4> QED
        BY <3>3, <4>1 DEF CallsOf
    <3>5. call'[KeyOf(q)] # NoCall => call'[KeyOf(q)].session # req[q].session
      BY <1>2, <2>6, <3>1, <3>2 DEF LockHeld, Exists, RequestHash
    <3> QED
      BY <1>1, <3>1, <3>2, <3>4, <3>5 DEF LockHeld, TypeOK
  <2>14. AtMostOneExecution' /\ BackstopsNeverHit'
    BY <1>1, <2>1 DEF AtMostOneExecution, BackstopsNeverHit
  <2>15. ConflictOnlyOnMismatch'
    <3> SUFFICES ASSUME NEW q \in Request, answer[q] = "IdempotencyConflict"
                 PROVE  /\ call'[KeyOf(q)] # NoCall
                        /\ RequestHash(call'[KeyOf(q)]) # RequestHash(req[q])
      BY <2>1 DEF ConflictOnlyOnMismatch, Exists, KeyOf
    <3>1. Exists(KeyOf(q)) /\ KeyOf(q) # k /\ KeyOf(q) \in Key
      BY <1>7 DEF ConflictOnlyOnMismatch, AnsweredLast, HasRequest, RequestBody, KeyOf
    <3> QED
      BY <2>6, <3>1 DEF ConflictOnlyOnMismatch, Exists
  <2> QED
    BY <2>2, <2>4, <2>7, <2>8, <2>9, <2>10, <2>12, <2>13, <2>14, <2>15
<1> QED
  BY <1>6, <1>7

-----------------------------------------------------------------------------
(* The theorems                                                            *)

\* Empty tables and idle requests satisfy the invariant.
LEMMA InitInvariant == Init => IndInv
<1> SUFFICES ASSUME Init PROVE IndInv
  OBVIOUS
<1> USE DEF Init
<1>1. TypeOK
  BY DEF TypeOK, Location, Answer
<1>2. SequenceIsDense
  <2>1. \A s \in Session : CallsOf(s) = {}
    BY DEF CallsOf, Exists
  <2>2. Cardinality({}) = 0
    BY FS_EmptySet
  <2>3. \A s \in Session : {call[k].seq : k \in CallsOf(s)} = {}
    BY <2>1
  <2>4. 1 .. 0 = {}
    OBVIOUS
  <2> QED
    BY <2>1, <2>2, <2>3, <2>4 DEF SequenceIsDense
<1>3. HasRequest /\ AnsweredLast /\ OwnsRow /\ OneOwner /\ LockHeld
  BY DEF HasRequest, AnsweredLast, OwnsRow, OneOwner, LockHeld, Working
<1>4. NotYetEntered /\ NotYetFinalized
  BY DEF NotYetEntered, NotYetFinalized, Early, Working
<1>5. AtMostOneExecution /\ ConflictOnlyOnMismatch /\ BackstopsNeverHit
  BY DEF AtMostOneExecution, ConflictOnlyOnMismatch, BackstopsNeverHit
<1> QED
  BY <1>1, <1>2, <1>3, <1>4, <1>5 DEF IndInv

\* Every step of a request, of recovery, of time and of the operator keeps the invariant.
LEMMA StepInvariant == IndInv /\ [Next]_vars => IndInv'
<1> SUFFICES ASSUME IndInv, [Next]_vars PROVE IndInv'
  OBVIOUS
<1>1. CASE \E r \in Request : Arrive(r) \/ Proceed(r) \/ Abort(r)
  <2> PICK r \in Request : Arrive(r) \/ Proceed(r) \/ Abort(r)
    BY <1>1
  <2>1. CASE Arrive(r)
    BY <2>1, ArriveIsIdle, IdleInvariant
  <2>2. CASE LockSession(r)
    BY <2>2, LockInvariant
  <2>3. CASE InsertReceived(r)
    BY <2>3, InsertInvariant
  <2>4. CASE Screen(r) \/ Execute(r) \/ Conclude(r)
    BY <2>4, ProceedIsWork, WorkInvariant
  <2>5. CASE Abort(r)
    BY <2>5, AbortIsIdle, IdleInvariant
  <2> QED
    BY <2>1, <2>2, <2>3, <2>4, <2>5 DEF Proceed, Create
<1>2. CASE (\E k \in Key : Elapse(k)) \/ Recover \/ Operate \/ UNCHANGED vars
  BY <1>2, OutsideIsOutside, OutsideInvariant
<1> QED
  BY <1>1, <1>2 DEF Next

\* The inductive invariant: each row is written by one request at a time, only a request that is at
\* work may enter its adapter, and the holder of a session's lock has a number that is still free.
THEOREM Invariance == Spec => []IndInv
BY InitInvariant, StepInvariant, PTL DEF Spec

\* Every variable keeps its type.
THEOREM TypeCorrect == Spec => []TypeOK
<1>1. IndInv => TypeOK
  BY DEF IndInv
<1> QED
  BY <1>1, Invariance, PTL

\* The adapter is entered at most once for an idempotency key, for any number of requests,
\* sessions and recoveries, and however short the stale period is.
THEOREM ExecutesAtMostOnce == Spec => []AtMostOneExecution
<1>1. IndInv => AtMostOneExecution
  BY DEF IndInv
<1> QED
  BY <1>1, Invariance, PTL

\* The calls of a session are numbered 1..n without gaps or repetitions.
THEOREM NumbersAreDense == Spec => []SequenceIsDense
<1>1. IndInv => SequenceIsDense
  BY DEF IndInv
<1> QED
  BY <1>1, Invariance, PTL

\* No request runs into a unique constraint that the code does not map to an answer.
THEOREM BackstopsHold == Spec => []BackstopsNeverHit
<1>1. IndInv => BackstopsNeverHit
  BY DEF IndInv
<1> QED
  BY <1>1, Invariance, PTL

\* A caller is told of a conflict only when its request differs from the stored one.
THEOREM ConflictsAreMismatches == Spec => []ConflictOnlyOnMismatch
<1>1. IndInv => ConflictOnlyOnMismatch
  BY DEF IndInv
<1> QED
  BY <1>1, Invariance, PTL

\* Whatever happens to the session between the check and the insert, no call is ever inserted into
\* a session that has ended.
THEOREM EndedSessionsStayClosed == Spec => CallsOnlyInActiveSessions
<1> DEFINE A == \A k \in Key : ~Exists(k) /\ call'[k] # NoCall => session[call'[k].session] = "active"
<1>1. ASSUME IndInv, [Next]_vars
      PROVE  A
  <2> USE <1>1
  <2>1. ASSUME RowsKept PROVE A
    BY <2>1 DEF RowsKept, Exists
  <2>2. ASSUME call' = call PROVE A
    BY <2>2 DEF Exists
  <2>3. ASSUME NEW r \in Request, Arrive(r) \/ Abort(r) \/ LockSession(r) PROVE A
    BY <2>2, <2>3 DEF Arrive, Replay, Receive, Abort, LockSession, database
  <2>4. ASSUME NEW r \in Request, InsertReceived(r) PROVE A
    <3>1. /\ pc[r] = "locked" /\ KeyOf(r) \in Key
          /\ call' = call \/ call' = [call EXCEPT ![KeyOf(r)] = held[r]]
      BY <2>4 DEF InsertReceived, Store, IndInv, HasRequest, RequestBody, KeyOf
    <3>2. session[held[r].session] = "active"
      BY <3>1 DEF IndInv, LockHeld, RequestHash
    <3>3. ASSUME NEW k \in Key, ~Exists(k), call'[k] # NoCall
          PROVE  session[call'[k].session] = "active"
      <4>1. call' = [call EXCEPT ![KeyOf(r)] = held[r]] /\ k = KeyOf(r)
        BY <3>1, <3>3 DEF Exists, IndInv, TypeOK
      <4> QED
        BY <3>2, <4>1 DEF IndInv, TypeOK
    <3> QED
      BY <3>3
  <2>5. ASSUME NEW r \in Request, Screen(r) \/ Execute(r) \/ Conclude(r) PROVE A
    BY <2>1, <2>5, ProceedIsWork, WorkKeepsRows
  <2>6. ASSUME (\E k \in Key : Elapse(k)) \/ Recover \/ Operate \/ UNCHANGED vars PROVE A
    BY <2>1, <2>6, OutsideIsOutside DEF OutsideStep
  <2> HIDE DEF A
  <2> QED
    BY <2>3, <2>4, <2>5, <2>6 DEF Next, Proceed, Create
<1> QED
  BY <1>1, Invariance, PTL DEF Spec, CallsOnlyInActiveSessions

=============================================================================
