------------------------------ MODULE AgentRuns ------------------------------
(***************************************************************************)
(* The agent loop: AgentRunService.start, the rows of agent_runs and       *)
(* model_calls it writes, and the recovery command over the same rows.     *)
(*                                                                         *)
(* A run is driven by one asyncio task.  It asks the provider for a turn,  *)
(* hands every requested tool call to ToolCallService, and stores its      *)
(* progress.  What it may rely on from ToolCallService is what             *)
(* ToolCallContract says of an idempotency key; ToolCalls shows that the   *)
(* service keeps it.                                                       *)
(*                                                                         *)
(* The repositories update a row in two statements: session.get loads it,  *)
(* and the flush writes only the columns whose value differs from what was *)
(* loaded.  Recovery may commit in between, so the two are two actions.    *)
(***************************************************************************)
EXTENDS Naturals, Sequences, FiniteSets, SequencesExt, AgentProviders

CONSTANTS
  Run,               \* the runs that are started
  StartRequest,      \* what they are started with: a provider, a model and the words of the prompt
  Registry,          \* what the tool registry may hold when a run reads it
  Reply,             \* what Ollama may answer
  MaxTurns,          \* AGENT_MAX_TURNS
  MaxToolCalls,      \* AGENT_MAX_TOOL_CALLS
  MaxToolsPerTurn,   \* AGENT_MAX_TOOLS_PER_TURN
  BatchSize,         \* RECOVERY_BATCH_SIZE
  StaleWhileLive,    \* TRUE when the stale periods are shorter than a live run or model call
  Nothing            \* no row, no ending, no call

ASSUME LimitAssumption ==
  /\ MaxTurns \in Nat \ {0} /\ MaxToolCalls \in Nat /\ MaxToolsPerTurn \in Nat \ {0}
  /\ BatchSize \in Nat \ {0}
ASSUME OverlapAssumption == StaleWhileLive \in BOOLEAN

\* The names a provider may ask for, offered or not.
Askable ==
  {FakeScript[i].tool : i \in DOMAIN FakeScript}
  \cup UNION {{reply.body.calls[i].name : i \in DOMAIN reply.body.calls} : reply \in Reply}

ASSUME ReplyAssumption ==
  \A reply \in Reply : OllamaResponse(reply) \in Seq(Askable) \cup {NoResponse}

-----------------------------------------------------------------------------
(* Values                                                                  *)

RunStatus == {"created", "running", "completed", "failed", "limit_reached"}
Terminal  == {"completed", "failed", "limit_reached"}

\* The codes of limits, and of failures that are told apart no further, are one code each.
RunError   == {"none", "limit", "failure", "agent_run_timeout", "application_shutting_down",
               "agent_run_interrupted"}
ModelError == {"none", "failure", "agent_run_timeout", "model_call_interrupted"}

RunRow   == [status: RunStatus, turns: 0 .. MaxTurns, calls: 0 .. MaxToolCalls, error: RunError]
ModelRow == [status: {"started", "completed", "failed", "timed_out"}, error: ModelError]

Started == [status |-> "started", error |-> "none"]

\* What deterministic_agent_idempotency_key tells apart.
CallKey == Run \X (1 .. MaxTurns) \X (1 .. MaxToolsPerTurn)

\* What _finish_run is called with, and where: in the loop, by start after an exception, or not
\* at all because the task was cancelled from outside.
Ending == [status: Terminal, error: RunError, by: {"loop", "handler", "shutdown"}]

Summary == [call: CallKey \cup {Nothing}, refused: BOOLEAN]

ASSUME NothingAssumption == Nothing \notin RunRow \cup ModelRow \cup CallKey \cup Ending

RunEvent == {"started", "completed", "failed", "limit_reached", "recovered"}

Location == {"idle", "created", "offer", "turn", "calling", "model", "settle", "responded", "dispatch",
             "tool", "working", "persist", "finish", "finishing", "returning", "answered", "gone"}

VARIABLES
  row,        \* agent_runs
  model,      \* model_calls of a run, in the order of their turns
  made,       \* tool_calls of a run, in the order of their sequence numbers: their keys
  phase, effects, outcome,  \* what ToolCallContract says of the keys
  audit,      \* the run's own audit events
  agedRuns,   \* runs last updated before the recovery cutoff
  agedCalls,  \* runs whose last model call was started before the cutoff
  accepting,  \* ShutdownManager.accepting
  pc,
  mine,       \* the AgentRun object the task holds
  wanted,     \* the ModelCall object it is about to store
  seen,       \* the row that the update in progress has loaded
  plan,       \* the provider of the run and its prompt
  offered,    \* the names of the tools it offers the provider
  asked,      \* the names of the tools that the last response requested
  summary,    \* one per dispatched request; refused says that no row was made for it
  ending

toolCalls == <<phase, effects, outcome>>
choice    == <<plan, offered>>
memory    == <<mine, wanted, seen, choice, asked, summary>>
vars == <<row, model, made, toolCalls, audit, agedRuns, agedCalls, accepting, pc, mine, wanted,
          seen, choice, asked, summary, ending>>

Tool == INSTANCE ToolCallContract WITH Key <- CallKey

TypeOK ==
  /\ row \in [Run -> RunRow \cup {Nothing}]
  /\ model \in [Run -> Seq(ModelRow)]
  /\ made \in [Run -> Seq(CallKey)]
  /\ audit \in [Run -> Seq(RunEvent)]
  /\ phase \in [CallKey -> {"free", "open", "closed"}]
  /\ effects \in [CallKey -> Nat]
  /\ outcome \in [CallKey -> Tool!Outcome \cup {"none"}]
  /\ agedRuns \subseteq Run /\ agedCalls \subseteq Run
  /\ accepting \in BOOLEAN
  /\ pc \in [Run -> Location]
  /\ mine \in [Run -> RunRow \cup {Nothing}]
  /\ wanted \in [Run -> ModelRow \cup {Nothing}]
  /\ seen \in [Run -> RunRow \cup ModelRow \cup {Nothing}]
  /\ plan \in [Run -> StartRequest \cup {Nothing}]
  /\ offered \in [Run -> {Offer(g) : g \in Registry} \cup {{}}]
  /\ asked \in [Run -> Seq(Askable)]
  /\ summary \in [Run -> Seq(Summary)]
  /\ ending \in [Run -> Ending \cup {Nothing}]

Init ==
  /\ row = [r \in Run |-> Nothing]
  /\ model = [r \in Run |-> <<>>]
  /\ made = [r \in Run |-> <<>>]
  /\ Tool!Init
  /\ audit = [r \in Run |-> <<>>]
  /\ agedRuns = {} /\ agedCalls = {}
  /\ accepting = TRUE
  /\ pc = [r \in Run |-> "idle"]
  /\ mine = [r \in Run |-> Nothing]
  /\ wanted = [r \in Run |-> Nothing]
  /\ seen = [r \in Run |-> Nothing]
  /\ plan = [r \in Run |-> Nothing]
  /\ offered = [r \in Run |-> {}]
  /\ asked = [r \in Run |-> <<>>]
  /\ summary = [r \in Run |-> <<>>]
  /\ ending = [r \in Run |-> Nothing]

-----------------------------------------------------------------------------
(* The task and the rows                                                   *)

New == [status |-> "created", turns |-> 0, calls |-> 0, error |-> "none"]

HasStatus(r, st) == row[r] # Nothing /\ row[r].status = st
HasEnded(r)      == row[r] # Nothing /\ row[r].status \in Terminal
CallStarted(r)   == model[r] # <<>> /\ Last(model[r]).status = "started"

TaskLive(r) == pc[r] \notin {"idle", "answered", "gone"}

\* The task is inside asyncio.timeout(agent_run_timeout_seconds).
InLoop(r) == TaskLive(r) /\ (ending[r] # Nothing => ending[r].by = "loop")

\* The position in the response of the request that is dispatched next.
CallIndex(r) == Len(summary[r]) - mine[r].calls + 1

\* Mutant of IdempotencyKey: the position in the response is left out.
IdempotencyKeyOfTurn(r) == <<r, mine[r].turns + 1, 1>>

IdempotencyKey(r) == <<r, mine[r].turns + 1, CallIndex(r)>>

\* _latest_run_call
LatestRunCall(r) == IF made[r] = <<>> THEN Nothing ELSE Last(made[r])

\* Mutant of Progress: the calls of the turn that ends are not counted.
ProgressWithoutCalls(r) == [mine[r] EXCEPT !.turns = @ + 1]

\* AgentRun.progress
Progress(r) == [mine[r] EXCEPT !.turns = @ + 1, !.calls = Len(summary[r])]

\* The flush of a loaded row: a column is written when the new value differs from the loaded one.
Flush(current, loaded, new) ==
  [c \in DOMAIN current |-> IF new[c] # loaded[c] THEN new[c] ELSE current[c]]

Goto(r, where) == pc' = [pc EXCEPT ![r] = where]

EndWith(r, status, error, by) ==
  ending' = [ending EXCEPT ![r] = [status |-> status, error |-> error, by |-> by]]

-----------------------------------------------------------------------------
(* The start of a run                                                      *)

\* AgentRun.start and AgentRun.finish
Begun(run)         == [run EXCEPT !.status = "running"]
Finished(run, end) == [run EXCEPT !.status = end.status, !.error = end.error]

\* No row is made: the provider or the model is not permitted, or the session has ended.
RefuseRun(r) ==
  /\ pc[r] = "idle"
  /\ accepting
  /\ Goto(r, "answered")
  /\ UNCHANGED <<row, model, made, toolCalls, audit, agedRuns, agedCalls, accepting, memory, ending>>

\* _create_run, of a request that the shutdown middleware let in.
CreateRun(r, request) ==
  /\ pc[r] = "idle"
  /\ accepting
  /\ Permitted(request)
  /\ plan' = [plan EXCEPT ![r] = request]
  /\ row' = [row EXCEPT ![r] = New]
  /\ mine' = [mine EXCEPT ![r] = New]
  /\ Goto(r, "created")
  /\ UNCHANGED <<model, made, toolCalls, audit, agedRuns, agedCalls, accepting, wanted, seen,
                 offered, asked, summary, ending>>

StartRun(r) ==
  /\ pc[r] = "created"
  /\ row' = [row EXCEPT ![r] = Begun(mine[r])]
  /\ mine' = [mine EXCEPT ![r] = Begun(mine[r])]
  /\ audit' = [audit EXCEPT ![r] = Append(@, "started")]
  /\ Goto(r, "offer")
  /\ UNCHANGED <<model, made, toolCalls, agedRuns, agedCalls, accepting, wanted, seen, choice,
                 asked, summary, ending>>

\* The enabled tools, as they are now, become what the provider is offered for the whole run.
OfferTools(r, registry) ==
  /\ pc[r] = "offer"
  /\ Offerable(registry)
  /\ offered' = [offered EXCEPT ![r] = Offer(registry)]
  /\ Goto(r, "turn")
  /\ UNCHANGED <<row, model, made, toolCalls, audit, agedRuns, agedCalls, accepting, mine, wanted,
                 seen, plan, asked, summary, ending>>

-----------------------------------------------------------------------------
(* A turn of the provider                                                  *)

\* Mutant of BeginTurn: one turn too many.
BeginTurnLate(r) ==
  /\ pc[r] = "turn"
  /\ mine[r].turns <= MaxTurns
  /\ accepting
  /\ Goto(r, "calling")
  /\ UNCHANGED <<row, model, made, toolCalls, audit, agedRuns, agedCalls, accepting, memory, ending>>

\* The loop goes round, and the process is not shutting down.
BeginTurn(r) ==
  /\ pc[r] = "turn"
  /\ mine[r].turns < MaxTurns
  /\ accepting
  /\ Goto(r, "calling")
  /\ UNCHANGED <<row, model, made, toolCalls, audit, agedRuns, agedCalls, accepting, memory, ending>>

StopForShutdown(r) ==
  /\ pc[r] = "turn"
  /\ mine[r].turns < MaxTurns
  /\ ~accepting
  /\ EndWith(r, "failed", "application_shutting_down", "handler")
  /\ Goto(r, "finish")
  /\ UNCHANGED <<row, model, made, toolCalls, audit, agedRuns, agedCalls, accepting, memory>>

RunOutOfTurns(r) ==
  /\ pc[r] = "turn"
  /\ mine[r].turns = MaxTurns
  /\ EndWith(r, "limit_reached", "limit", "loop")
  /\ Goto(r, "finish")
  /\ UNCHANGED <<row, model, made, toolCalls, audit, agedRuns, agedCalls, accepting, memory>>

CreateModelCall(r) ==
  /\ pc[r] = "calling"
  /\ model' = [model EXCEPT ![r] = Append(@, Started)]
  /\ agedCalls' = agedCalls \ {r}
  /\ Goto(r, "model")
  /\ UNCHANGED <<row, made, toolCalls, audit, agedRuns, accepting, memory, ending>>

\* The fake provider answers at once; the others have to be waited for.
Waits(r) == ProviderOf(plan[r]) # "fake"

\* What provider.complete may return.  The conversation holds a result once a turn is over.
Responses(r) ==
  IF Waits(r) THEN {OllamaResponse(reply) : reply \in Reply}
              ELSE {FakeResponse(plan[r].prompt, offered[r], summary[r] # <<>>)}

\* It returns a response that asks for some tool calls.
ProviderResponds(r, response) ==
  /\ pc[r] = "model"
  /\ response # NoResponse
  /\ wanted' = [wanted EXCEPT ![r] = [status |-> "completed", error |-> "none"]]
  /\ asked' = [asked EXCEPT ![r] = response]
  /\ Goto(r, "settle")
  /\ UNCHANGED <<row, model, made, toolCalls, audit, agedRuns, agedCalls, accepting, mine, seen,
                 choice, summary, ending>>

\* What _fail_model_call stores of a call.
FailedCall(st, error) == [status |-> st, error |-> error]

\* It raises, or does not answer in time.
ProviderFails(r, st) ==
  /\ pc[r] = "model"
  /\ Waits(r)
  /\ st = "failed" => NoResponse \in Responses(r)
  /\ wanted' = [wanted EXCEPT ![r] = FailedCall(st, "failure")]
  /\ EndWith(r, "failed", "failure", "loop")
  /\ Goto(r, "settle")
  /\ UNCHANGED <<row, model, made, toolCalls, audit, agedRuns, agedCalls, accepting, mine, seen,
                 choice, asked, summary>>

\* The task is cancelled while it waits for the provider: by its own timeout or by shutdown.
CancelInProvider(r, by) ==
  /\ pc[r] = "model"
  /\ Waits(r)
  /\ by = "shutdown" => ~accepting
  /\ wanted' = [wanted EXCEPT ![r] = FailedCall("timed_out", "agent_run_timeout")]
  /\ EndWith(r, "failed", "agent_run_timeout", by)
  /\ Goto(r, "settle")
  /\ UNCHANGED <<row, model, made, toolCalls, audit, agedRuns, agedCalls, accepting, mine, seen,
                 choice, asked, summary>>

LoadModelCall(r) ==
  /\ pc[r] = "settle"
  /\ seen[r] = Nothing
  /\ seen' = [seen EXCEPT ![r] = Last(model[r])]
  /\ UNCHANGED <<row, model, made, toolCalls, audit, agedRuns, agedCalls, accepting, pc, mine,
                 wanted, choice, asked, summary, ending>>

\* model_calls.update commits; the task goes on with what came of the call.
SettleModelCall(r) ==
  /\ pc[r] = "settle"
  /\ seen[r] # Nothing
  /\ model' = [model EXCEPT ![r][Len(model[r])] = Flush(@, seen[r], wanted[r])]
  /\ seen' = [seen EXCEPT ![r] = Nothing]
  /\ wanted' = [wanted EXCEPT ![r] = Nothing]
  /\ Goto(r, IF ending[r] = Nothing THEN "responded"
             ELSE IF ending[r].by = "shutdown" THEN "gone" ELSE "finish")
  /\ UNCHANGED <<row, made, toolCalls, audit, agedRuns, agedCalls, accepting, mine, choice, asked,
                 summary, ending>>

-----------------------------------------------------------------------------
(* What the response asks for                                              *)

\* No tool call: the content is the final answer.
Answer(r) ==
  /\ pc[r] = "responded"
  /\ asked[r] = <<>>
  /\ mine' = [mine EXCEPT ![r] = Progress(r)]
  /\ EndWith(r, "completed", "none", "loop")
  /\ Goto(r, "persist")
  /\ UNCHANGED <<row, model, made, toolCalls, audit, agedRuns, agedCalls, accepting, wanted, seen,
                 choice, asked, summary>>

\* Mutant of OverLimit: the requests of this response are not counted.
OverLimitBefore(r) == Len(asked[r]) > MaxToolsPerTurn \/ Len(summary[r]) > MaxToolCalls

OverLimit(r) ==
  \/ Len(asked[r]) > MaxToolsPerTurn
  \/ Len(summary[r]) + Len(asked[r]) > MaxToolCalls

\* Too many: the run ends before the first of them is dispatched.
RefuseRequests(r) ==
  /\ pc[r] = "responded"
  /\ asked[r] # <<>>
  /\ OverLimit(r)
  /\ EndWith(r, "limit_reached", "limit", "loop")
  /\ Goto(r, "finish")
  /\ UNCHANGED <<row, model, made, toolCalls, audit, agedRuns, agedCalls, accepting, memory>>

AcceptRequests(r) ==
  /\ pc[r] = "responded"
  /\ asked[r] # <<>>
  /\ ~OverLimit(r)
  /\ Goto(r, "dispatch")
  /\ UNCHANGED <<row, model, made, toolCalls, audit, agedRuns, agedCalls, accepting, memory, ending>>

\* A request for a tool that was not offered to the provider.
RejectUnknownTool(r) ==
  /\ pc[r] = "dispatch"
  /\ CallIndex(r) <= Len(asked[r])
  /\ asked[r][CallIndex(r)] \notin offered[r]
  /\ summary' = [summary EXCEPT ![r] = Append(@, [call |-> Nothing, refused |-> TRUE])]
  /\ UNCHANGED <<row, model, made, toolCalls, audit, agedRuns, agedCalls, accepting, pc, mine,
                 wanted, seen, choice, asked, ending>>

\* The request is audited and handed to ToolCallService.execute.
RequestTool(r) ==
  /\ pc[r] = "dispatch"
  /\ CallIndex(r) <= Len(asked[r])
  /\ asked[r][CallIndex(r)] \in offered[r]
  /\ Goto(r, "tool")
  /\ UNCHANGED <<row, model, made, toolCalls, audit, agedRuns, agedCalls, accepting, memory, ending>>

\* The service refuses the request before there is a row for it: the session has ended, or the
\* tool was disabled since the run began.  The summary is taken from the run's latest call.
RefuseTool(r) ==
  /\ pc[r] = "tool"
  /\ summary' = [summary EXCEPT ![r] = Append(@, [call |-> LatestRunCall(r), refused |-> TRUE])]
  /\ Goto(r, "dispatch")
  /\ UNCHANGED <<row, model, made, toolCalls, audit, agedRuns, agedCalls, accepting, mine, wanted,
                 seen, choice, asked, ending>>

\* The service claims the key; a key that is taken is replayed instead.
EnterTool(r) ==
  LET k == IdempotencyKey(r)
  IN /\ pc[r] = "tool"
     /\ IF phase[k] = "free"
        THEN /\ Tool!Claim(k)
             /\ made' = [made EXCEPT ![r] = Append(@, k)]
             /\ Goto(r, "working")
             /\ UNCHANGED summary
        ELSE /\ summary' = [summary EXCEPT ![r] = Append(@, [call |-> k, refused |-> FALSE])]
             /\ Goto(r, "dispatch")
             /\ UNCHANGED <<toolCalls, made>>
     /\ UNCHANGED <<row, model, audit, agedRuns, agedCalls, accepting, mine, wanted, seen, choice, asked,
                    ending>>

PerformTool(r) ==
  /\ pc[r] = "working"
  /\ Tool!Perform(IdempotencyKey(r))
  /\ UNCHANGED <<row, model, made, audit, agedRuns, agedCalls, accepting, pc, memory, ending>>

\* The service answers, or raises after it has closed the call; either way the summary is that of
\* the call it made.
SettleTool(r, o) ==
  LET k == IdempotencyKey(r)
      told == IF o \in {"succeeded", "blocked"} THEN k ELSE LatestRunCall(r)
  IN /\ pc[r] = "working"
     /\ Tool!Close({k}, o)
     /\ summary' = [summary EXCEPT ![r] = Append(@, [call |-> told, refused |-> FALSE])]
     /\ Goto(r, "dispatch")
     /\ UNCHANGED <<row, model, made, audit, agedRuns, agedCalls, accepting, mine, wanted, seen,
                    choice, asked, ending>>

\* Redaction has made the result too large: the service raises with no transition, and the loop goes
\* on while the call is still open.
DropTool(r) ==
  /\ pc[r] = "working"
  /\ effects[IdempotencyKey(r)] = 1
  /\ summary' = [summary EXCEPT ![r] = Append(@, [call |-> LatestRunCall(r), refused |-> FALSE])]
  /\ Goto(r, "dispatch")
  /\ UNCHANGED <<row, model, made, toolCalls, audit, agedRuns, agedCalls, accepting, mine, wanted,
                 seen, choice, asked, ending>>

\* The recovery of a tool call that no task works on; ToolCalls says when.
RecoverTool(k) ==
  /\ \A r \in Run : pc[r] = "working" => IdempotencyKey(r) # k
  /\ Tool!Close({k}, "failed")
  /\ UNCHANGED <<row, model, made, audit, agedRuns, agedCalls, accepting, pc, memory, ending>>

\* All requests of the response are dispatched.
EndTurn(r) ==
  /\ pc[r] = "dispatch"
  /\ CallIndex(r) > Len(asked[r])
  /\ mine' = [mine EXCEPT ![r] = Progress(r)]
  /\ Goto(r, "persist")
  /\ UNCHANGED <<row, model, made, toolCalls, audit, agedRuns, agedCalls, accepting, wanted, seen,
                 choice, asked, summary, ending>>

-----------------------------------------------------------------------------
(* The run's row                                                           *)

\* session.get of agent_runs.update.
LoadRun(r) ==
  /\ pc[r] \in {"persist", "finishing"}
  /\ seen[r] = Nothing
  /\ seen' = [seen EXCEPT ![r] = row[r]]
  /\ UNCHANGED <<row, model, made, toolCalls, audit, agedRuns, agedCalls, accepting, pc, mine,
                 wanted, choice, asked, summary, ending>>

\* The flush and the commit of agent_runs.update.
SaveRun(r) ==
  /\ seen[r] # Nothing
  /\ row' = [row EXCEPT ![r] = Flush(@, seen[r], mine[r])]
  /\ seen' = [seen EXCEPT ![r] = Nothing]
  /\ agedRuns' = agedRuns \ {r}

\* _persist_run, after a turn or before the end.
PersistRun(r) ==
  /\ pc[r] = "persist"
  /\ SaveRun(r)
  /\ Goto(r, IF ending[r] = Nothing THEN "turn" ELSE "finish")
  /\ UNCHANGED <<model, made, toolCalls, audit, agedCalls, accepting, mine, wanted, choice, asked, summary,
                 ending>>

\* What follows _finish_run: its caller in the loop goes on, start answers.
AfterFinish(r) == IF ending[r].by = "loop" THEN "returning" ELSE "answered"

\* Mutant of ReadForFinish: the status that was read is not looked at.
ReadForFinishUnchecked(r) ==
  /\ pc[r] = "finish"
  /\ mine' = [mine EXCEPT ![r] = Finished(row[r], ending[r])]
  /\ Goto(r, "finishing")
  /\ UNCHANGED <<row, model, made, toolCalls, audit, agedRuns, agedCalls, accepting, wanted, seen,
                 choice, asked, summary, ending>>

\* _finish_run reads the row: a run that has ended stays as it is, and one that was never started
\* cannot finish, which start does not catch.
ReadForFinish(r) ==
  /\ pc[r] = "finish"
  /\ IF HasStatus(r, "running")
     THEN /\ mine' = [mine EXCEPT ![r] = Finished(row[r], ending[r])]
          /\ Goto(r, "finishing")
     ELSE /\ Goto(r, IF HasEnded(r) THEN AfterFinish(r) ELSE "answered")
          /\ UNCHANGED mine
  /\ UNCHANGED <<row, model, made, toolCalls, audit, agedRuns, agedCalls, accepting, wanted, seen,
                 choice, asked, summary, ending>>

FinishRun(r) ==
  /\ pc[r] = "finishing"
  /\ SaveRun(r)
  /\ audit' = [audit EXCEPT ![r] = Append(@, ending[r].status)]
  /\ Goto(r, AfterFinish(r))
  /\ UNCHANGED <<model, made, toolCalls, agedCalls, accepting, mine, wanted, choice, asked, summary, ending>>

\* The loop returns its result, or raises what start handles by finishing the run once more.
Return(r) ==
  /\ pc[r] = "returning"
  /\ IF ending[r].status = "completed"
     THEN Goto(r, "answered") /\ UNCHANGED ending
     ELSE Goto(r, "finish") /\ EndWith(r, ending[r].status, ending[r].error, "handler")
  /\ UNCHANGED <<row, model, made, toolCalls, audit, agedRuns, agedCalls, accepting, memory>>

-----------------------------------------------------------------------------
(* What goes wrong                                                         *)

\* An exception leaves the loop, and whatever transaction is open rolls back.
LeaveLoop(r, status, error) ==
  /\ EndWith(r, status, error, "handler")
  /\ Goto(r, "finish")
  /\ wanted' = [wanted EXCEPT ![r] = Nothing]
  /\ seen' = [seen EXCEPT ![r] = Nothing]
  /\ UNCHANGED <<row, model, made, toolCalls, audit, agedRuns, agedCalls, accepting, mine, choice, asked,
                 summary>>

\* asyncio.timeout cancels the task outside the provider call.
TimeOut(r) == InLoop(r) /\ pc[r] # "model" /\ LeaveLoop(r, "failed", "agent_run_timeout")

\* A message is too large, or the conversation: the prompt, the final answer, or what a turn adds.
ExceedMessageLimit(r) ==
  /\ pc[r] \in {"offer", "responded", "dispatch"}
  /\ LeaveLoop(r, "limit_reached", "limit")

\* build_provider_tools raises.
RefuseTools(r, registry) ==
  /\ pc[r] = "offer"
  /\ ~Offerable(registry)
  /\ LeaveLoop(r, "failed", "failure")

\* The database fails, or the service raises what is no ApplicationError: the redactor's ValueError,
\* or that of a domain class.
FailUnexpectedly(r) == InLoop(r) /\ pc[r] # "model" /\ LeaveLoop(r, "failed", "failure")

\* The process dies, or shutdown cancels the task outside the provider call.
Crash(r) ==
  /\ TaskLive(r)
  /\ Goto(r, "gone")
  /\ wanted' = [wanted EXCEPT ![r] = Nothing]
  /\ seen' = [seen EXCEPT ![r] = Nothing]
  /\ UNCHANGED <<row, model, made, toolCalls, audit, agedRuns, agedCalls, accepting, mine, choice, asked,
                 summary, ending>>

BeginShutdown ==
  /\ accepting
  /\ accepting' = FALSE
  /\ UNCHANGED <<row, model, made, toolCalls, audit, agedRuns, agedCalls, pc, memory, ending>>

-----------------------------------------------------------------------------
(* The recovery command, and time                                          *)

\* A row passes its recovery cutoff.
ElapseRun(r) ==
  /\ HasStatus(r, "running") /\ r \notin agedRuns
  /\ StaleWhileLive \/ ~TaskLive(r)
  /\ agedRuns' = agedRuns \cup {r}
  /\ UNCHANGED <<row, model, made, toolCalls, audit, agedCalls, accepting, pc, memory, ending>>

ElapseCall(r) ==
  /\ CallStarted(r) /\ r \notin agedCalls
  /\ StaleWhileLive \/ ~TaskLive(r)
  /\ agedCalls' = agedCalls \cup {r}
  /\ UNCHANGED <<row, model, made, toolCalls, audit, agedRuns, accepting, pc, memory, ending>>

\* Mutant of ClaimableRuns: the runs that were never started.
ClaimableRunsCreated == {r \in agedRuns : HasStatus(r, "created")}

ClaimableRuns == {r \in agedRuns : HasStatus(r, "running")}

\* Mutant of ClaimableCalls: the comparison with the cutoff inverted.
ClaimableCallsFresh == {r \in Run \ agedCalls : CallStarted(r)}

ClaimableCalls == {r \in agedCalls : CallStarted(r)}

\* One batch of _recover_agent_runs, and one of _recover_model_calls.
RecoverRuns(batch) ==
  /\ batch # {} /\ batch \subseteq ClaimableRuns /\ Cardinality(batch) <= BatchSize
  /\ row' = [r \in Run |-> IF r \in batch
                           THEN [row[r] EXCEPT !.status = "failed",
                                               !.error = "agent_run_interrupted"]
                           ELSE row[r]]
  /\ audit' = [r \in Run |-> IF r \in batch THEN Append(audit[r], "recovered") ELSE audit[r]]
  /\ agedRuns' = agedRuns \ batch
  /\ UNCHANGED <<model, made, toolCalls, agedCalls, accepting, pc, memory, ending>>

RecoverModelCalls(batch) ==
  /\ batch # {} /\ batch \subseteq ClaimableCalls /\ Cardinality(batch) <= BatchSize
  /\ model' = [r \in Run |-> IF r \in batch
                             THEN [model[r] EXCEPT ![Len(model[r])] =
                                     [status |-> "failed", error |-> "model_call_interrupted"]]
                             ELSE model[r]]
  /\ UNCHANGED <<row, made, toolCalls, audit, agedRuns, agedCalls, accepting, pc, memory, ending>>

-----------------------------------------------------------------------------
(* The next-state relation                                                 *)

Begin(r) ==
  \/ StartRun(r)
  \/ \E registry \in Registry : OfferTools(r, registry) \/ RefuseTools(r, registry)
  \/ BeginTurn(r) \/ StopForShutdown(r) \/ RunOutOfTurns(r) \/ CreateModelCall(r)

AskProvider(r) ==
  \/ pc[r] = "model" /\ \E response \in Responses(r) : ProviderResponds(r, response)
  \/ \E st \in {"failed", "timed_out"} : ProviderFails(r, st)
  \/ CancelInProvider(r, "handler")
  \/ LoadModelCall(r)
  \/ SettleModelCall(r)

Respond(r) == Answer(r) \/ RefuseRequests(r) \/ AcceptRequests(r)

Dispatch(r) ==
  \/ RejectUnknownTool(r)
  \/ RequestTool(r)
  \/ RefuseTool(r)
  \/ EnterTool(r)
  \/ PerformTool(r)
  \/ \E o \in Tool!Outcome : SettleTool(r, o)
  \/ DropTool(r)
  \/ EndTurn(r)

Save(r) == LoadRun(r) \/ PersistRun(r) \/ ReadForFinish(r) \/ FinishRun(r) \/ Return(r)

Interrupt(r) ==
  \/ TimeOut(r)
  \/ ExceedMessageLimit(r)
  \/ FailUnexpectedly(r)
  \/ CancelInProvider(r, "shutdown")
  \/ Crash(r)

\* What a task does by itself once it runs.
Proceed(r) == Begin(r) \/ AskProvider(r) \/ Respond(r) \/ Dispatch(r) \/ Save(r)

RecoverSome ==
  \/ \E batch \in SUBSET ClaimableRuns : RecoverRuns(batch)
  \/ \E batch \in SUBSET ClaimableCalls : RecoverModelCalls(batch)

Next ==
  \/ \E r \in Run : RefuseRun(r) \/ Proceed(r) \/ Interrupt(r)
  \/ \E r \in Run, request \in StartRequest : CreateRun(r, request)
  \/ \E r \in Run : ElapseRun(r) \/ ElapseCall(r)
  \/ \E k \in CallKey : RecoverTool(k)
  \/ RecoverSome
  \/ BeginShutdown

Spec == Init /\ [][Next]_vars

\* A task that is not interrupted runs on, time passes, and the recovery command keeps running, both
\* its sweep over the runs and the one over the model calls.  No run has to start or to fail.
Fairness ==
  /\ \A r \in Run : WF_vars(Proceed(r)) /\ WF_vars(ElapseRun(r)) /\ WF_vars(ElapseCall(r))
  /\ WF_vars(\E batch \in SUBSET ClaimableRuns : RecoverRuns(batch))
  /\ WF_vars(\E batch \in SUBSET ClaimableCalls : RecoverModelCalls(batch))

FairSpec == Spec /\ Fairness

-----------------------------------------------------------------------------
(* Safety                                                                  *)

EffectsOf(r) == {k \in CallKey : k[1] = r /\ effects[k] > 0}

\* The budgets of a run bound what reaches the outside, not only what is counted: however the
\* loop is cut short, the adapters are entered and the provider is asked at most so often.
BudgetsHold ==
  \A r \in Run :
    /\ Cardinality(EffectsOf(r)) <= MaxToolCalls
    /\ Len(model[r]) <= MaxTurns
    /\ \A t \in 1 .. MaxTurns : Cardinality({k \in EffectsOf(r) : k[2] = t}) <= MaxToolsPerTurn

\* Every request that reaches the service is a call of its own: no two of a run's requests share an
\* idempotency key, so none is answered with the outcome of another.
OwnCallPerRequest ==
  \A r \in Run : \A i, j \in 1 .. Len(summary[r]) :
    i # j /\ ~summary[r][i].refused /\ ~summary[r][j].refused =>
      summary[r][i].call # summary[r][j].call

\* The stored counters never run ahead of the work, lag it by one turn at most, and are exact in a
\* completed run, whose model calls have all been completed.
ProgressIsBacked ==
  \A r \in Run : row[r] # Nothing =>
    /\ row[r].turns <= Len(model[r]) /\ Len(model[r]) <= row[r].turns + 1
    /\ row[r].calls <= Len(summary[r])
    /\ HasStatus(r, "completed") =>
         /\ row[r].turns = Len(model[r]) /\ row[r].calls = Len(summary[r])
         /\ \A t \in 1 .. Len(model[r]) : model[r][t].status = "completed"

\* A run ends once: the loop, the handler of its exception and recovery may all try to end it, and
\* exactly one of them is audited, with the status that is stored, and none before the start.
OneEnding ==
  \A r \in Run :
    IF HasEnded(r)
    THEN \/ audit[r] = <<"started", row[r].status>>
         \/ audit[r] = <<"started", "recovered">> /\ row[r].error = "agent_run_interrupted"
    ELSE audit[r] = IF HasStatus(r, "running") THEN <<"started">> ELSE <<>>

\* AgentRun.__post_init__ accepts every stored row: "completed agent run cannot have error_code".
\* A row that it refuses cannot be read again by any query.
RowsReadable == \A r \in Run : HasStatus(r, "completed") => row[r].error = "none"

\* A summary names a call only if its request made that call.
SummariesNameTheirCall ==
  \A r \in Run : \A i \in 1 .. Len(summary[r]) :
    summary[r][i].refused => summary[r][i].call = Nothing

\* A run that has ended stays as it is.
EndedRunsFrozen == [][\A r \in Run : HasEnded(r) => row'[r] = row[r]]_vars

-----------------------------------------------------------------------------
(* Liveness                                                                *)

\* A run that began ends: by its task, or by recovery when the task is gone.
RunsSettle == \A r \in Run : HasStatus(r, "running") ~> HasEnded(r)

\* No model call stays started, wherever its run was cut off.
ModelCallsSettle == \A r \in Run : CallStarted(r) ~> ~CallStarted(r)

=============================================================================
