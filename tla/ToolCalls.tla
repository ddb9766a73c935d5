----------------------------- MODULE ToolCalls -----------------------------
(***************************************************************************)
(* The mediated execution of tool calls: ToolCallService.execute, the rows *)
(* it shares through PostgreSQL with concurrent requests, and the sweep of *)
(* the recovery command over the same rows.                                *)
(*                                                                         *)
(* A request runs as one asyncio task.  Between two awaits nothing else of *)
(* the same process runs, but every await of a database transaction or of  *)
(* the adapter lets other requests, other processes and the recovery       *)
(* command in.  One action is therefore one transaction, or one adapter    *)
(* invocation.  The transaction that creates a call is cut in two, because *)
(* it waits for and then holds the lock of the session row.                *)
(*                                                                         *)
(* A row is keyed by its idempotency key: the unique constraint on the     *)
(* column makes the key an identity.                                       *)
(***************************************************************************)
EXTENDS Naturals, Sequences, FiniteSets, FiniteSetsExt

CONSTANTS
  Request,          \* the executions of ToolCallService._execute
  Key,              \* idempotency keys the clients use
  Session,          \* session rows
  Tool,             \* registered (name, version) pairs
  Args,             \* canonical argument payloads, one per hash
  BlockRules,       \* rules whose action is block
  FlagRules,        \* rules whose action is flag
  RejectErrors,     \* codes that validation rejects arguments with
  AdapterErrors,    \* codes of AdapterExecutionError, and of every other exception
  ResultErrors,     \* codes of a result that is no JSON within the limits or too deep to redact
  BatchSize,        \* RECOVERY_BATCH_SIZE
  StaleWhileLive,   \* TRUE when TOOL_CALL_STALE_AFTER_SECONDS is shorter than a live execution
  NoCall,           \* there is no row with this idempotency key
  NoRequest         \* a request that has not arrived

Rule == BlockRules \cup FlagRules

ASSUME RulesAssumption == BlockRules \cap FlagRules = {}
ASSUME BatchAssumption == BatchSize \in Nat \ {0}
ASSUME ErrorAssumption ==
  /\ RejectErrors \subseteq {"invalid_tool_arguments", "tool_payload_too_deep"}
  /\ AdapterErrors \subseteq {"mock_query_not_supported", "tool_execution_failed"}
  /\ ResultErrors \subseteq {"tool_payload_too_deep", "tool_result_too_large",
                            "invalid_tool_result"}
ASSUME OverlapAssumption == StaleWhileLive \in BOOLEAN
ASSUME KeyAssumption == IsFiniteSet(Key)

-----------------------------------------------------------------------------
(* Values                                                                  *)

Status == {"received", "validating", "rejected", "evaluating", "blocked",
           "executing", "succeeded", "failed", "timed_out"}

Terminal == {"rejected", "blocked", "succeeded", "failed", "timed_out"}

Decision == {"allow", "flag", "block", "reject"}

ErrorCode == {"none", "invalid_tool_arguments", "tool_payload_too_deep", "tool_call_blocked",
              "adapter_not_configured", "mock_query_not_supported", "tool_execution_failed",
              "tool_timeout", "tool_result_too_large", "invalid_tool_result",
              "execution_state_unknown"}

AuditEvent == {"received", "validated", "flagged", "blocked", "started", "completed",
               "failed", "timed_out", "recovered"}

CallRow == [session: Session, tool: Tool, args: Args, seq: Nat, status: Status,
            decision: Decision, matched: SUBSET Rule, error: ErrorCode]

RequestBody == [key: Key, session: Session, tool: Tool, args: Args]

ASSUME NothingAssumption == NoCall \notin CallRow /\ NoRequest \notin RequestBody \cup Request

\* What a caller is told: the application error that is raised, or Success.
Success      == "Success"
Unsettled    == {"ExecutionInProgress", "IdempotencyConflict", "SessionNotActive",
                 "ToolDisabled", "RepositoryConflict"}
Failures     == {"InvalidToolArguments", "ToolPayloadTooDeep", "ToolResultPayloadTooDeep",
                 "ToolResultTooLarge", "InvalidToolResult", "AdapterNotConfigured",
                 "ToolTimeout", "ToolExecutionFailed", "MockQueryNotSupported"}
Answer       == {"none", Success, "ToolCallBlocked"} \cup Unsettled \cup Failures

Location == {"idle", "create", "locked", "received", "validating", "evaluated",
             "executing", "running", "judged", "answered", "gone"}

-----------------------------------------------------------------------------
VARIABLES
  call,       \* tool_calls: key -> row
  result,     \* tool_result_metadata: key -> "none", "valid" or "invalid" (schema_valid)
  audit,      \* audit_events about the call, in order
  session,    \* sessions: active, or ended (completed or failed)
  enabled,    \* blocking_rules that are enabled
  offered,    \* tool_definitions that are enabled
  lock,       \* holder of the FOR UPDATE lock of a session row
  stale,      \* keys whose row was last updated before the recovery cutoff (updated_at)
  invoked,    \* how often the adapter was entered for a key: effects outside the system
  pc,         \* where a request stands
  req,        \* its body
  held,       \* its copy of the row: the ToolCall object that every update writes back
  answer      \* what its caller was told

database == <<call, result, audit>>
registry == <<session, enabled, offered>>
vars == <<call, result, audit, session, enabled, offered, lock, stale, invoked,
          pc, req, held, answer>>

TypeOK ==
  /\ call \in [Key -> CallRow \cup {NoCall}]
  /\ result \in [Key -> {"none", "valid", "invalid"}]
  /\ audit \in [Key -> Seq(AuditEvent)]
  /\ session \in [Session -> {"active", "ended"}]
  /\ enabled \subseteq Rule
  /\ offered \subseteq Tool
  /\ lock \in [Session -> Request \cup {NoRequest}]
  /\ stale \subseteq Key
  /\ invoked \in [Key -> Nat]
  /\ pc \in [Request -> Location]
  /\ req \in [Request -> RequestBody \cup {NoRequest}]
  /\ held \in [Request -> CallRow \cup {NoCall}]
  /\ answer \in [Request -> Answer]

Init ==
  /\ call = [k \in Key |-> NoCall]
  /\ result = [k \in Key |-> "none"]
  /\ audit = [k \in Key |-> <<>>]
  /\ session = [s \in Session |-> "active"]
  /\ enabled \in SUBSET Rule
  /\ offered = Tool
  /\ lock = [s \in Session |-> NoRequest]
  /\ stale = {}
  /\ invoked = [k \in Key |-> 0]
  /\ pc = [r \in Request |-> "idle"]
  /\ req = [r \in Request |-> NoRequest]
  /\ held = [r \in Request |-> NoCall]
  /\ answer = [r \in Request |-> "none"]

-----------------------------------------------------------------------------
(* Reading the tables                                                      *)

Exists(k)  == call[k] # NoCall
Is(k, st)  == Exists(k) /\ call[k].status = st
KeyOf(r)   == req[r].key

\* The canonical request hash; two requests agree on it exactly when they agree on these.
RequestHash(x) == <<x.session, x.tool, x.args>>

CallsOf(s) == {k \in Key : Exists(k) /\ call[k].session = s}

\* Mutant of NextSequenceNumber: one counter for all sessions.
NextSequenceNumberGlobal(s) == Cardinality({k \in Key : Exists(k)}) + 1

\* SELECT max(sequence_number) + 1
NextSequenceNumber(s) == Max({0} \cup {call[k].seq : k \in CallsOf(s)}) + 1

\* Mutant of TerminalError: the stored code itself instead of the error it stands for.
TerminalErrorRaw(code) == code

\* The exception that the stored error code of a terminal call is turned back into.
TerminalError(code) ==
  CASE code = "invalid_tool_arguments"   -> "InvalidToolArguments"
    [] code = "adapter_not_configured"   -> "AdapterNotConfigured"
    [] code = "mock_query_not_supported" -> "MockQueryNotSupported"
    [] code = "tool_timeout"             -> "ToolTimeout"
    [] code = "invalid_tool_result"      -> "InvalidToolResult"
    [] code = "tool_result_too_large"    -> "ToolResultTooLarge"
    [] code = "tool_payload_too_deep"    -> "ToolResultPayloadTooDeep"
    [] OTHER                             -> "ToolExecutionFailed"

\* Mutant of StoredAnswer: a result row is taken for a success.
StoredAnswerByResult(k) ==
  IF result[k] # "none" THEN Success
  ELSE CASE Is(k, "blocked") -> "ToolCallBlocked"
         [] call[k].status \in {"rejected", "failed", "timed_out"} -> TerminalError(call[k].error)
         [] OTHER -> "ExecutionInProgress"

\* What _existing_outcome answers when the key has a row with the same request hash.
StoredAnswer(k) ==
  CASE Is(k, "succeeded") /\ result[k] # "none" -> Success
    [] Is(k, "blocked") -> "ToolCallBlocked"
    [] call[k].status \in {"rejected", "failed", "timed_out"} -> TerminalError(call[k].error)
    [] OTHER -> "ExecutionInProgress"

\* _existing_outcome for a key that has a row.
ExistingAnswer(k, body) ==
  IF RequestHash(call[k]) # RequestHash(body) THEN "IdempotencyConflict" ELSE StoredAnswer(k)

\* A request that may still write to the row of k.
Working == {"received", "validating", "evaluated", "executing", "running", "judged"}
Live(k) == \E r \in Request : pc[r] \in Working /\ KeyOf(r) = k

-----------------------------------------------------------------------------
(* Writing them                                                            *)

\* ToolCall.transition_to
TransitionTo(c, st, dec, code) ==
  [c EXCEPT !.status = st, !.error = code,
            !.decision = CASE st = "rejected" -> "reject"
                           [] st = "blocked" -> "block"
                           [] st \notin {"rejected", "blocked"} -> dec]

\* ToolCall.__post_init__, which judges a row whenever it is read: rejected and blocked are the
\* decisions of exactly the calls with these statuses.
Readable(c) ==
  /\ c.seq >= 1
  /\ c.status = "rejected" <=> c.decision = "reject"
  /\ c.status = "blocked" <=> c.decision = "block"

\* tool_calls.update: the row is overwritten with the caller's object, whatever it holds.
Store(k, c, events) ==
  /\ call' = [call EXCEPT ![k] = c]
  /\ audit' = [audit EXCEPT ![k] = @ \o events]
  /\ stale' = stale \ {k}

Goto(r, where, c) ==
  /\ pc' = [pc EXCEPT ![r] = where]
  /\ held' = [held EXCEPT ![r] = c]
  /\ UNCHANGED <<req, answer>>

Reply(r, a) ==
  /\ pc' = [pc EXCEPT ![r] = "answered"]
  /\ answer' = [answer EXCEPT ![r] = a]
  /\ held' = [held EXCEPT ![r] = NoCall]
  /\ UNCHANGED req

\* _transition to a terminal status, and the error the caller then sees.
Settle(r, st, code, event, a) ==
  /\ Store(KeyOf(r), TransitionTo(held[r], st, held[r].decision, code), <<event>>)
  /\ Reply(r, a)
  /\ UNCHANGED <<result, registry, lock, invoked>>

Fail(r, code, a) == Settle(r, "failed", code, "failed", a)

\* Mutant of FlagNote: the flag is stored but not audited.
FlagNoteSilent(dec) == <<>>

FlagNote(dec) == IF dec = "flag" THEN <<"flagged">> ELSE <<>>

\* _finalize: the metadata row, which is unique per call, and the terminal transition.
Finalize(r, st, dec, code, metadata, a) ==
  LET event == IF st = "succeeded" THEN <<"completed">> ELSE <<"failed">>
      k     == KeyOf(r)
  IN IF result[k] = "none"
     THEN /\ Store(k, TransitionTo(held[r], st, dec, code), FlagNote(dec) \o event)
          /\ result' = [result EXCEPT ![k] = metadata]
          /\ Reply(r, a)
          /\ UNCHANGED <<registry, lock, invoked>>
     ELSE /\ Reply(r, "RepositoryConflict")
          /\ UNCHANGED <<database, stale, registry, lock, invoked>>

-----------------------------------------------------------------------------
(* The steps of a request                                                  *)

\* The lookup finds the key: the stored outcome, a conflict, or an execution in progress.
Replay(r, body) ==
  /\ pc[r] = "idle"
  /\ Exists(body.key)
  /\ pc' = [pc EXCEPT ![r] = "answered"]
  /\ req' = [req EXCEPT ![r] = body]
  /\ answer' = [answer EXCEPT ![r] = ExistingAnswer(body.key, body)]
  /\ UNCHANGED <<database, registry, lock, stale, invoked, held>>

\* The lookup finds nothing: the request goes on to create the call.
Receive(r, body) ==
  /\ pc[r] = "idle"
  /\ ~Exists(body.key)
  /\ pc' = [pc EXCEPT ![r] = "create"]
  /\ req' = [req EXCEPT ![r] = body]
  /\ UNCHANGED <<database, registry, lock, stale, invoked, held, answer>>

\* Mutant of Refusal: the key is not looked up again under the lock.
RefusalWithoutLookup(body) ==
  IF session[body.session] # "active" THEN "SessionNotActive"
  ELSE IF body.tool \notin offered THEN "ToolDisabled" ELSE "none"

\* Why _create_received refuses a request once it holds the session row; "none" if it does not.
Refusal(body) ==
  IF session[body.session] # "active" THEN "SessionNotActive"
  ELSE IF body.tool \notin offered THEN "ToolDisabled"
  ELSE IF ~Exists(body.key) THEN "none"
  ELSE IF RequestHash(call[body.key]) # RequestHash(body) THEN "IdempotencyConflict"
  ELSE "ExecutionInProgress"

\* Mutant of SessionUnlocked: the session is read without FOR UPDATE.
SessionNeverLocked(s) == TRUE

\* SELECT ... FOR UPDATE on the session row waits while another transaction holds it.
SessionUnlocked(s) == lock[s] = NoRequest

\* _create_received as far as the sequence number: a refusal rolls back and lets the lock go.
LockSession(r) ==
  LET body == req[r]
  IN /\ pc[r] = "create"
     /\ SessionUnlocked(body.session)
     /\ IF Refusal(body) = "none"
        THEN /\ lock' = [lock EXCEPT ![body.session] = r]
             /\ Goto(r, "locked",
                     [session |-> body.session, tool |-> body.tool, args |-> body.args,
                      seq |-> NextSequenceNumber(body.session), status |-> "received",
                      decision |-> "allow", matched |-> {}, error |-> "none"])
        ELSE Reply(r, Refusal(body)) /\ UNCHANGED lock
     /\ UNCHANGED <<database, registry, stale, invoked>>

\* Mutant of KeyTaken: no unique constraint on the idempotency key.
KeyNeverTaken(k) == FALSE

\* uq_tool_calls_idempotency_key and uq_tool_calls_session_sequence
KeyTaken(k)         == Exists(k)
SequenceTaken(s, n) == \E k \in CallsOf(s) : call[k].seq = n

\* The insert and the commit: either unique constraint can refuse the row.
InsertReceived(r) ==
  LET k == KeyOf(r)
      s == req[r].session
  IN /\ pc[r] = "locked"
     /\ lock' = [lock EXCEPT ![s] = NoRequest]
     /\ IF KeyTaken(k) \/ SequenceTaken(s, held[r].seq)
        THEN /\ Reply(r, IF KeyTaken(k) THEN "IdempotencyConflict" ELSE "RepositoryConflict")
             /\ UNCHANGED <<call, audit, stale>>
        ELSE Store(k, held[r], <<"received">>) /\ Goto(r, "received", held[r])
     /\ UNCHANGED <<result, registry, invoked>>

BeginValidating(r) ==
  LET c == TransitionTo(held[r], "validating", held[r].decision, "none")
  IN /\ pc[r] = "received"
     /\ Store(KeyOf(r), c, <<>>)
     /\ Goto(r, "validating", c)
     /\ UNCHANGED <<result, registry, lock, invoked>>

\* The arguments do not match the schema, or are too deep to redact.
Reject(r, code) ==
  /\ pc[r] = "validating"
  /\ Settle(r, "rejected", code, "failed",
            IF code = "tool_payload_too_deep" THEN "ToolPayloadTooDeep"
                                              ELSE "InvalidToolArguments")

\* Mutant of Blocks: the evaluation does not stop at a block rule, and a flag rule lowers it.
BlocksUnlessFlagged(matches) == matches \cap BlockRules # {} /\ matches \cap FlagRules = {}

Blocks(matches) == matches \cap BlockRules # {}

\* Redaction, classification and the input rules that match, in one transaction.  The first
\* block rule that matches ends the evaluation, so at most one is recorded.
EvaluateInput(r, matches, risky) ==
  LET k        == KeyOf(r)
      blocked  == Blocks(matches)
      flagged  == risky \/ (~blocked /\ matches \cap FlagRules # {})
      decision == IF flagged THEN "flag" ELSE "allow"
      c        == [TransitionTo(held[r], "evaluating", decision, "none")
                     EXCEPT !.matched = matches]
      events   == <<"validated">> \o (IF flagged THEN <<"flagged">> ELSE <<>>)
  IN /\ pc[r] = "validating"
     /\ matches \subseteq enabled
     /\ Cardinality(matches \cap BlockRules) <= 1
     /\ IF blocked
        THEN /\ Store(k, TransitionTo(c, "blocked", "block", "tool_call_blocked"),
                      events \o <<"blocked">>)
             /\ Reply(r, "ToolCallBlocked")
        ELSE Store(k, c, events) /\ Goto(r, "evaluated", c)
     /\ UNCHANGED <<result, registry, lock, invoked>>

StartExecuting(r) ==
  LET c == TransitionTo(held[r], "executing", held[r].decision, "none")
  IN /\ pc[r] = "evaluated"
     /\ Store(KeyOf(r), c, <<"started">>)
     /\ Goto(r, "executing", c)
     /\ UNCHANGED <<result, registry, lock, invoked>>

\* No adapter is registered under the tool's adapter type.
FailUnconfigured(r) ==
  /\ pc[r] = "executing"
  /\ Fail(r, "adapter_not_configured", "AdapterNotConfigured")

\* adapter.execute is entered: from here on the effect may have happened.
InvokeAdapter(r) ==
  /\ pc[r] = "executing"
  /\ invoked' = [invoked EXCEPT ![KeyOf(r)] = @ + 1]
  /\ Goto(r, "running", held[r])
  /\ UNCHANGED <<database, registry, lock, stale>>

\* Mutant of TimeOut: the event of an ordinary failure.
TimeOutAsFailure(r) ==
  /\ pc[r] = "running"
  /\ Settle(r, "timed_out", "tool_timeout", "failed", "ToolTimeout")

\* wait_for gives up on the adapter and cancels it.
TimeOut(r) ==
  /\ pc[r] = "running"
  /\ Settle(r, "timed_out", "tool_timeout", "timed_out", "ToolTimeout")

\* Mutant of FailInAdapter: the adapter is tried again.
FailInAdapterRetried(r, code) ==
  /\ pc[r] = "running"
  /\ code \in AdapterErrors
  /\ Goto(r, "executing", held[r])
  /\ UNCHANGED <<database, registry, lock, stale, invoked>>

\* The adapter raises.
FailInAdapter(r, code) ==
  /\ pc[r] = "running"
  /\ Fail(r, code, TerminalError(code))

\* The adapter returned something that _canonical_result or the redaction refuses.
FailResult(r, code) ==
  /\ pc[r] = "running"
  /\ Fail(r, code, TerminalError(code))

\* _canonical_sanitized_result raises: redaction made the result larger than the limit.  No
\* transition is written on this path.
DropSanitizedResult(r) ==
  /\ pc[r] = "running"
  /\ \E a \in {"ToolResultTooLarge", "ToolResultPayloadTooDeep"} : Reply(r, a)
  /\ UNCHANGED <<database, registry, lock, stale, invoked>>

\* Mutant of ResultDecision: the result phase decides afresh.
ResultDecisionAfresh(dec, flagged) == IF flagged THEN "flag" ELSE "allow"

ResultDecision(dec, flagged) == IF flagged THEN "flag" ELSE dec

\* The result does not match the output schema.
FinalizeInvalid(r, risky) ==
  /\ pc[r] = "running"
  /\ Finalize(r, "failed", ResultDecision(held[r].decision, risky), "invalid_tool_result",
              "invalid", "InvalidToolResult")

\* The result phase reads the rules that are enabled by now.  A block rule may match, and is
\* recorded, but only flags raise the decision.
ReadResultRules(r, matches, risky) ==
  LET flagged == risky \/ matches \cap FlagRules # {}
      c       == [held[r] EXCEPT !.matched = @ \cup matches,
                                 !.decision = ResultDecision(@, flagged)]
  IN /\ pc[r] = "running"
     /\ matches \subseteq enabled
     /\ Goto(r, "judged", c)
     /\ UNCHANGED <<database, registry, lock, stale, invoked>>

\* Mutant of FinalizeSucceeded: the transition without the metadata row.
FinalizeSucceededBare(r) ==
  /\ pc[r] = "judged"
  /\ Settle(r, "succeeded", "none", "completed", Success)

FinalizeSucceeded(r) ==
  /\ pc[r] = "judged"
  /\ Finalize(r, "succeeded", held[r].decision, "none", "valid", Success)

\* Mutant of Abort: a cancelled transaction keeps its lock.
AbortHoldingLock(r) ==
  /\ pc[r] \notin {"idle", "answered", "gone"}
  /\ pc' = [pc EXCEPT ![r] = "gone"]
  /\ req' = [req EXCEPT ![r] = NoRequest]
  /\ held' = [held EXCEPT ![r] = NoCall]
  /\ UNCHANGED <<database, registry, lock, stale, invoked, answer>>

\* The process dies, the task is cancelled by shutdown or by an agent run's timeout, the database
\* fails, or the redactor or a domain class raises what no caller handles: an open transaction
\* rolls back and the row stays as it was.  What the task held in memory is lost.
Abort(r) ==
  /\ pc[r] \notin {"idle", "answered", "gone"}
  /\ pc' = [pc EXCEPT ![r] = "gone"]
  /\ req' = [req EXCEPT ![r] = NoRequest]
  /\ held' = [held EXCEPT ![r] = NoCall]
  /\ lock' = [s \in Session |-> IF lock[s] = r THEN NoRequest ELSE lock[s]]
  /\ UNCHANGED <<database, registry, stale, invoked, answer>>

-----------------------------------------------------------------------------
(* The recovery command, and time                                          *)

\* A row passes the recovery cutoff.
Elapse(k) ==
  /\ Exists(k)
  /\ k \notin stale
  /\ StaleWhileLive \/ ~Live(k)
  /\ stale' = stale \cup {k}
  /\ UNCHANGED <<database, registry, lock, invoked, pc, req, held, answer>>

\* Mutants of Claimable: no predicate on the status; the comparison with the cutoff inverted.
ClaimableAny   == {k \in stale : Exists(k)}
ClaimableFresh == {k \in Key \ stale : Is(k, "executing")}

\* WHERE status = 'executing' AND updated_at < cutoff
Claimable == {k \in stale : Is(k, "executing")}

\* One batch of _recover_tool_calls: claimed, failed and audited in one transaction.
RecoverBatch(batch) ==
  /\ batch # {}
  /\ batch \subseteq Claimable
  /\ Cardinality(batch) <= BatchSize
  /\ call' = [k \in Key |->
                IF k \in batch
                THEN TransitionTo(call[k], "failed", call[k].decision, "execution_state_unknown")
                ELSE call[k]]
  /\ audit' = [k \in Key |->
                IF k \in batch THEN Append(audit[k], "recovered") ELSE audit[k]]
  /\ stale' = stale \ batch
  /\ UNCHANGED <<result, registry, lock, invoked, pc, req, held, answer>>

-----------------------------------------------------------------------------
(* The operator's changes to what the executions read                      *)

\* Mutant of CompleteSession: the session row is not locked.
CompleteSessionUnlocked(s) ==
  /\ session[s] = "active"
  /\ session' = [session EXCEPT ![s] = "ended"]
  /\ UNCHANGED <<database, enabled, offered, lock, stale, invoked, pc, req, held, answer>>

\* SessionService.complete waits for the row lock; a session that has ended stays as it is.
CompleteSession(s) ==
  /\ SessionUnlocked(s)
  /\ session[s] = "active"
  /\ session' = [session EXCEPT ![s] = "ended"]
  /\ UNCHANGED <<database, enabled, offered, lock, stale, invoked, pc, req, held, answer>>

SetRuleEnabled(rule) ==
  /\ enabled' = IF rule \in enabled THEN enabled \ {rule} ELSE enabled \cup {rule}
  /\ UNCHANGED <<database, session, offered, lock, stale, invoked, pc, req, held, answer>>

SetToolEnabled(t) ==
  /\ offered' = IF t \in offered THEN offered \ {t} ELSE offered \cup {t}
  /\ UNCHANGED <<database, session, enabled, lock, stale, invoked, pc, req, held, answer>>

-----------------------------------------------------------------------------
(* The next-state relation                                                 *)

Create(r) == LockSession(r) \/ InsertReceived(r)

Screen(r) ==
  \/ BeginValidating(r)
  \/ \E code \in RejectErrors : Reject(r, code)
  \/ \E matches \in SUBSET enabled, risky \in BOOLEAN : EvaluateInput(r, matches, risky)

Execute(r) ==
  \/ StartExecuting(r)
  \/ FailUnconfigured(r)
  \/ InvokeAdapter(r)

Conclude(r) ==
  \/ TimeOut(r)
  \/ \E code \in AdapterErrors : FailInAdapter(r, code)
  \/ \E code \in ResultErrors : FailResult(r, code)
  \/ DropSanitizedResult(r)
  \/ \E risky \in BOOLEAN : FinalizeInvalid(r, risky)
  \/ \E matches \in SUBSET enabled, risky \in BOOLEAN : ReadResultRules(r, matches, risky)
  \/ FinalizeSucceeded(r)

\* A request that has been received goes on by itself.
Proceed(r) == Create(r) \/ Screen(r) \/ Execute(r) \/ Conclude(r)

Arrive(r) == \E body \in RequestBody : Replay(r, body) \/ Receive(r, body)

Operate ==
  \/ \E s \in Session : CompleteSession(s)
  \/ \E rule \in Rule : SetRuleEnabled(rule)
  \/ \E t \in Tool : SetToolEnabled(t)

Recover == \E batch \in SUBSET Claimable : RecoverBatch(batch)

Next ==
  \/ \E r \in Request : Arrive(r) \/ Proceed(r) \/ Abort(r)
  \/ \E k \in Key : Elapse(k)
  \/ Recover
  \/ Operate

Spec == Init /\ [][Next]_vars

\* A task that is not cancelled runs on, time passes, and the operator keeps running the
\* recovery command.  Nothing obliges a request to arrive, to be cancelled, or an operator to
\* change anything.
Fairness ==
  /\ \A r \in Request : WF_vars(Proceed(r))
  /\ \A k \in Key : WF_vars(Elapse(k))
  /\ WF_vars(Recover)

FairSpec == Spec /\ Fairness

-----------------------------------------------------------------------------
(* Safety                                                                  *)

\* However requests with one key interleave, retry, die or are recovered, the adapter is entered
\* at most once for it: the lookup, the check under the session lock and the unique key of
\* tool_calls.py together, with no lock on the key itself.
AtMostOneExecution == \A k \in Key : invoked[k] <= 1

\* The numbers of a session's calls are 1..n without a gap or a repetition: each was read as the
\* maximum plus one in one statement and inserted in a later one, under the session lock.
SequenceIsDense ==
  \A s \in Session : {call[k].seq : k \in CallsOf(s)} = 1 .. Cardinality(CallsOf(s))

\* The unique constraints on (session, sequence) and on the result of a call are backstops: no
\* interleaving makes a request fail on them with an unmapped conflict.
BackstopsNeverHit == \A r \in Request : answer[r] # "RepositoryConflict"

\* A conflict is only reported to a caller whose request differs from the one stored under the
\* key, also when it is the insert that lost the race for the key.
ConflictOnlyOnMismatch ==
  \A r \in Request :
    answer[r] = "IdempotencyConflict" =>
      Exists(KeyOf(r)) /\ RequestHash(call[KeyOf(r)]) # RequestHash(req[r])

\* Whatever answer says how the call ended: succeeded, blocked, or failed.
Verdict(a) ==
  CASE a = Success -> "succeeded"
    [] a = "ToolCallBlocked" -> "blocked"
    [] a \in Failures -> "failed"
    [] a \in Unsettled \cup {"none"} -> "none"

SameRequest(r1, r2) ==
  /\ req[r1] # NoRequest /\ req[r2] # NoRequest
  /\ KeyOf(r1) = KeyOf(r2) /\ RequestHash(req[r1]) = RequestHash(req[r2])

\* No two callers of the same key and body are told different verdicts, whether an answer came
\* from the execution itself, from the table, or after a recovery.
VerdictsAgree ==
  \A r1, r2 \in Request :
    SameRequest(r1, r2) =>
      \/ Verdict(answer[r1]) = Verdict(answer[r2])
      \/ "none" \in {Verdict(answer[r1]), Verdict(answer[r2])}

\* An adapter is only ever entered for a call that passed validation and the rules: its row has
\* reached execution, and no rule that matched the input was a block rule.  What the rules decided
\* can be read from the row, whoever wrote it last: the domain class accepts it.
NothingRunsUnjudged ==
  \A k \in Key :
    /\ invoked[k] > 0 =>
         Exists(k) /\ call[k].status \in {"executing", "succeeded", "failed", "timed_out"}
    /\ Exists(k) /\ call[k].status \in {"evaluating", "executing"} =>
         call[k].matched \cap BlockRules = {}
    /\ Exists(k) => Readable(call[k])

\* Success is never assumed: it is written with the result of the one execution, and a call whose
\* effect is unknown is a failed one.  A success can therefore always be replayed.
SuccessHasEvidence ==
  \A k \in Key :
    /\ Is(k, "succeeded") <=> result[k] = "valid"
    /\ Is(k, "succeeded") => invoked[k] = 1
    /\ result[k] = "invalid" => Is(k, "failed") /\ call[k].error = "invalid_tool_result"
    /\ Exists(k) /\ call[k].error = "execution_state_unknown" => Is(k, "failed")

\* The event that the status of a row is audited with.
EventOf(c) ==
  CASE c.status \in {"received", "validating", "evaluating"} -> "received"
    [] c.status = "executing"                               -> "started"
    [] c.status = "succeeded"                               -> "completed"
    [] c.status \in {"blocked", "timed_out"}                -> c.status
    [] c.status \in {"rejected", "failed"} ->
         IF c.error = "execution_state_unknown" THEN "recovered" ELSE "failed"

\* The last event of a trail that is about the status; the others are remarks.
Remarks == {"validated", "flagged"}
LastWord(trail, e) ==
  \E i \in 1 .. Len(trail) : trail[i] = e /\ \A j \in i + 1 .. Len(trail) : trail[j] \in Remarks

\* The audit trail of a call always ends with its current status, even when a late execution has
\* overwritten what recovery wrote: row and event commit together.
TrailEndsWithStatus ==
  \A k \in Key : IF Exists(k) THEN LastWord(audit[k], EventOf(call[k])) ELSE audit[k] = <<>>

\* A call is flagged in the table exactly when its trail says so; a blocked one may be both.
FlaggedIn(trail) == \E i \in 1 .. Len(trail) : trail[i] = "flagged"
FlagIsAudited ==
  \A k \in Key :
    Exists(k) /\ call[k].decision # "block" => (call[k].decision = "flag" <=> FlaggedIn(audit[k]))

-----------------------------------------------------------------------------
(* What no step may do                                                     *)

\* "Terminal calls cannot transition again": no column of a terminal row changes.
TerminalCallsFrozen ==
  [][\A k \in Key :
       Exists(k) /\ call[k].status \in Terminal =>
         call'[k] = call[k] /\ result'[k] = result[k] /\ audit'[k] = audit[k]]_vars

\* A decision only ever gets stricter, whatever the rules say by the time the result is judged.
DecisionNeverWeakened ==
  [][\A k \in Key : Exists(k) /\ call[k].decision # "allow" => call'[k].decision # "allow"]_vars

\* No call is added to a session that has ended, although the session was read in an earlier
\* statement than the insert.
CallsOnlyInActiveSessions ==
  [][\A k \in Key : ~Exists(k) /\ call'[k] # NoCall => session[call'[k].session] = "active"]_vars

-----------------------------------------------------------------------------
(* Liveness                                                                *)

\* A call that began to execute is settled: by its request, or by recovery once it is stale.
ExecutingSettles == \A k \in Key : Is(k, "executing") ~> (Exists(k) /\ call[k].status \in Terminal)

\* A request is answered or lost, and never waits for ever for the session lock.
RequestsEnd == \A r \in Request : pc[r] # "idle" ~> pc[r] \in {"answered", "gone"}

\* Every interrupted operation can be recovered: each call, not only an executing one, settles.
InterruptedCallsSettle == \A k \in Key : Exists(k) ~> (Exists(k) /\ call[k].status \in Terminal)

-----------------------------------------------------------------------------
(* Refinement                                                              *)

\* What each row means to the caller that named it.
PhaseOf(k) ==
  CASE ~Exists(k) -> "free"
    [] Exists(k) /\ call[k].status \in Terminal -> "closed"
    [] Exists(k) /\ call[k].status \notin Terminal -> "open"

OutcomeOf(k) == IF PhaseOf(k) = "closed" THEN call[k].status ELSE "none"

Contract == INSTANCE ToolCallContract
              WITH phase   <- [k \in Key |-> PhaseOf(k)],
                   effects <- invoked,
                   outcome <- [k \in Key |-> OutcomeOf(k)]

\* Unless a row can look stale while its request still runs, the execution, its retries and the
\* recovery command together keep the contract of the key.
ImplementsContract == Contract!Spec

=============================================================================
