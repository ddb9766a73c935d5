--------------------------- MODULE AgentRunsProofs ---------------------------
(***************************************************************************)
(* Theorems about AgentRuns, for any runs, requests, registries, replies   *)
(* and limits: the types, the budgets, the keys and the end of a run, and  *)
(* that it keeps the contract of tool calls.  Where no live run passes its *)
(* recovery cutoff, also its counters and its trail.                       *)
(***************************************************************************)
EXTENDS AgentRuns, FiniteSetTheorems, SequenceTheorems, TLAPS

-----------------------------------------------------------------------------
(* What holds of one run, whatever recovery does to its rows               *)

\* The task has not asked for a turn, has an answer to look at, or dispatches what it asks for.
Early    == {"created", "offer", "turn", "calling"}
Asking   == {"model", "settle", "responded"}
Serving  == {"dispatch", "tool", "working"}
InTurn   == Asking \cup Serving
Driving  == Early \cup InTurn \cup {"persist"}

\* A run without a row has nothing else.
Absent(r) ==
  /\ pc[r] = "idle" => row[r] = Nothing
  /\ row[r] = Nothing =>
       /\ pc[r] \in {"idle", "answered"}
       /\ model[r] = <<>> /\ made[r] = <<>> /\ summary[r] = <<>> /\ audit[r] = <<>>
       /\ ending[r] = Nothing /\ seen[r] = Nothing /\ wanted[r] = Nothing

\* The task holds what the next step needs.
Holding(r) ==
  /\ pc[r] \notin {"idle", "answered"} => mine[r] # Nothing
  /\ pc[r] \in {"finish", "finishing", "returning"} => ending[r] # Nothing
  /\ pc[r] \in Early \cup Serving \cup {"responded", "model"} => ending[r] = Nothing
  /\ pc[r] = "settle" => wanted[r] # Nothing /\ (seen[r] # Nothing => seen[r] \in ModelRow)
  /\ pc[r] \in {"persist", "finishing"} /\ seen[r] # Nothing => seen[r] \in RunRow
  /\ pc[r] \notin {"settle", "persist", "finishing"} => seen[r] = Nothing

\* The turns and calls in the task's hands against the rows it has made.
Counts(r) ==
  /\ Len(model[r]) <= MaxTurns /\ Len(summary[r]) <= MaxToolCalls
  /\ pc[r] \in Early => Len(model[r]) = mine[r].turns /\ Len(summary[r]) = mine[r].calls
  /\ pc[r] = "calling" => mine[r].turns < MaxTurns
  /\ pc[r] \in InTurn => Len(model[r]) = mine[r].turns + 1
  /\ pc[r] \in Asking => Len(summary[r]) = mine[r].calls
  /\ pc[r] \in Serving =>
       /\ Len(asked[r]) <= MaxToolsPerTurn
       /\ mine[r].calls <= Len(summary[r])
       /\ Len(summary[r]) <= mine[r].calls + Len(asked[r])
       /\ mine[r].calls + Len(asked[r]) <= MaxToolCalls
  /\ pc[r] \in {"tool", "working"} => Len(summary[r]) < mine[r].calls + Len(asked[r])
  /\ pc[r] = "persist" => Len(model[r]) = mine[r].turns /\ Len(summary[r]) = mine[r].calls

\* The place of a request in the run comes before that of the request that is dispatched next.
Before(r, k) ==
  \/ k[2] <= mine[r].turns
  \/ k[2] = mine[r].turns + 1 /\ k[3] < CallIndex(r)

\* The calls a run has made, and the summaries that name them.
Calls(r) ==
  /\ pc[r] \in Driving /\ pc[r] # "working" => Len(made[r]) <= Len(summary[r])
  /\ pc[r] = "working" => Len(made[r]) <= Len(summary[r]) + 1
  /\ Len(made[r]) <= MaxToolCalls
  /\ pc[r] = "working" => made[r] # <<>> /\ Last(made[r]) = IdempotencyKey(r)
  /\ \A i \in 1 .. Len(summary[r]) : ~summary[r][i].refused =>
       /\ summary[r][i].call \in CallKey
       /\ pc[r] \in Driving => Before(r, summary[r][i].call)
  /\ \A i, j \in 1 .. Len(summary[r]) :
       i # j /\ ~summary[r][i].refused /\ ~summary[r][j].refused =>
         summary[r][i].call # summary[r][j].call

RunInv(r) == Absent(r) /\ Holding(r) /\ Counts(r) /\ Calls(r)

\* An adapter is entered for a call of the run only.
EffectsBacked == \A k \in CallKey : effects[k] > 0 => \E i \in 1 .. Len(made[k[1]]) : made[k[1]][i] = k

LoopInv == TypeOK /\ EffectsBacked /\ \A r \in Run : RunInv(r)

-----------------------------------------------------------------------------
(* What holds besides when recovery leaves live runs alone                 *)

\* Only what no task drives any more is old enough for recovery.
Aged == \A r \in agedRuns \cup agedCalls : pc[r] \in {"answered", "gone"}

Stored(r) ==
  /\ pc[r] = "created" => row[r] = New /\ mine[r] = New
  /\ pc[r] \in {"offer", "turn", "calling", "persist", "finishing"} \cup InTurn =>
       HasStatus(r, "running")
  /\ pc[r] \in {"offer", "turn", "calling"} \cup InTurn => mine[r] = row[r]
  /\ pc[r] = "persist" =>
       /\ mine[r].status = "running" /\ mine[r].error = row[r].error
       /\ mine[r].turns = row[r].turns + 1 /\ row[r].calls <= mine[r].calls
  /\ pc[r] = "finishing" => mine[r] = Finished(row[r], ending[r])
  /\ pc[r] = "returning" => HasEnded(r)
  /\ pc[r] \in {"persist", "finishing"} /\ seen[r] # Nothing => seen[r] = row[r]
  /\ pc[r] = "settle" /\ seen[r] # Nothing => seen[r] = Last(model[r])

\* The run was completed, or is about to be.
Completing(r) ==
  \/ HasStatus(r, "completed")
  \/ pc[r] \in {"persist", "finish", "finishing"} /\ ending[r] # Nothing /\ ending[r].status = "completed"

AllCompleted(r, n) == \A t \in 1 .. n : model[r][t].status = "completed"

Progressed(r) ==
  /\ row[r] # Nothing =>
       /\ row[r].turns <= Len(model[r]) /\ Len(model[r]) <= row[r].turns + 1
       /\ row[r].calls <= Len(summary[r])
  /\ pc[r] \in {"finish", "finishing"} /\ Completing(r) =>
       row[r].turns = Len(model[r]) /\ row[r].calls = Len(summary[r])
  /\ HasStatus(r, "completed") => row[r].turns = Len(model[r]) /\ row[r].calls = Len(summary[r])
  /\ pc[r] \in Early \cup {"responded", "persist"} \cup Serving \/ Completing(r) =>
       AllCompleted(r, Len(model[r]))
  /\ pc[r] \in {"model", "settle"} =>
       AllCompleted(r, Len(model[r]) - 1) /\ Last(model[r]) = Started
  /\ pc[r] = "settle" => (ending[r] = Nothing => wanted[r] = [status |-> "completed", error |-> "none"])
  /\ pc[r] = "settle" /\ ending[r] # Nothing => ending[r].status = "failed"
  /\ Completing(r) /\ pc[r] \in {"persist", "finish", "finishing"} /\ ending[r].status = "completed" =>
       ending[r].error = "none"

Ended(r) ==
  /\ IF HasEnded(r)
     THEN \/ audit[r] = <<"started", row[r].status>>
          \/ audit[r] = <<"started", "recovered">> /\ row[r].error = "agent_run_interrupted"
     ELSE audit[r] = IF HasStatus(r, "running") THEN <<"started">> ELSE <<>>
  /\ HasStatus(r, "completed") => row[r].error = "none"

Calm(r) == Stored(r) /\ Progressed(r) /\ Ended(r)

CalmInv == LoopInv /\ Aged /\ \A r \in Run : Calm(r)

-----------------------------------------------------------------------------
(* One run at a time                                                       *)

\* Only this run's rows and task change.
Touches(r) ==
  \A q \in Run \ {r} :
    /\ row'[q] = row[q] /\ model'[q] = model[q] /\ made'[q] = made[q] /\ audit'[q] = audit[q]
    /\ pc'[q] = pc[q] /\ mine'[q] = mine[q] /\ wanted'[q] = wanted[q] /\ seen'[q] = seen[q]
    /\ summary'[q] = summary[q] /\ asked'[q] = asked[q] /\ ending'[q] = ending[q]

LEMMA OneRun ==
  ASSUME LoopInv, NEW r \in Run, Touches(r), TypeOK', EffectsBacked', RunInv(r)'
  PROVE LoopInv'
<1> SUFFICES ASSUME NEW q \in Run, q # r PROVE RunInv(q)'
  BY DEF LoopInv
<1>1. RunInv(q)
  BY DEF LoopInv
<1>2. Absent(q)' /\ Holding(q)' /\ Counts(q)'
  BY <1>1 DEF Touches, RunInv, Absent, Holding, Counts
<1>3. Calls(q)'
  BY SMTT(30), <1>1 DEF Touches, RunInv, Calls, Before, CallIndex, IdempotencyKey
<1> QED
  BY <1>2, <1>3 DEF RunInv

LEMMA Numbers ==
  ASSUME TypeOK, NEW r \in Run
  PROVE /\ Len(model[r]) \in Nat /\ Len(made[r]) \in Nat /\ Len(summary[r]) \in Nat /\ Len(asked[r]) \in Nat
        /\ \A t \in RunRow : t.turns \in Nat /\ t.calls \in Nat
        /\ mine[r] # Nothing => mine[r].turns \in Nat /\ mine[r].calls \in Nat
        /\ row[r] # Nothing => row[r].turns \in Nat /\ row[r].calls \in Nat
        /\ MaxTurns \in Nat /\ MaxToolCalls \in Nat /\ MaxToolsPerTurn \in Nat
<1>1. \A t \in RunRow : t.turns \in Nat /\ t.calls \in Nat
  BY LimitAssumption DEF RunRow
<1> QED
  BY <1>1, LimitAssumption DEF TypeOK

\* Steps that write no table leave the effects where they were.
LEMMA EffectsKept ==
  ASSUME LoopInv, UNCHANGED <<effects, made>> PROVE EffectsBacked'
BY DEF LoopInv, EffectsBacked

\* The task moves on, and nothing but what it is doing changes.
LEMMA Move ==
  ASSUME LoopInv, NEW r \in Run, NEW place \in Location, Goto(r, place),
         UNCHANGED <<row, model, made, toolCalls, audit, agedRuns, agedCalls, accepting, mine,
                     choice, asked, summary>>,
         \/ UNCHANGED ending
         \/ \E e \in Ending : ending' = [ending EXCEPT ![r] = e],
         \/ UNCHANGED <<wanted, seen>>
         \/ wanted' = [wanted EXCEPT ![r] = Nothing] /\ seen' = [seen EXCEPT ![r] = Nothing]
  PROVE Touches(r) /\ TypeOK' /\ EffectsBacked'
<1>1. TypeOK'
  <2>1. pc' \in [Run -> Location]
    BY DEF LoopInv, TypeOK, Goto
  <2>2. ending' \in [Run -> Ending \cup {Nothing}]
    BY DEF LoopInv, TypeOK
  <2>3. wanted' \in [Run -> ModelRow \cup {Nothing}] /\ seen' \in [Run -> RunRow \cup ModelRow \cup {Nothing}]
    BY DEF LoopInv, TypeOK
  <2> QED
    BY <2>1, <2>2, <2>3 DEF LoopInv, TypeOK, toolCalls, choice
<1>2. Touches(r)
  BY DEF Goto, Touches, LoopInv, TypeOK
<1> QED
  BY <1>1, <1>2, EffectsKept DEF toolCalls

\* Steps between two statements: what the task does next, or how it ends.
LEMMA MoveInvariant ==
  ASSUME LoopInv, NEW r \in Run,
         \/ RefuseRun(r) \/ BeginTurn(r) \/ RequestTool(r) \/ AcceptRequests(r)
         \/ StopForShutdown(r) \/ RunOutOfTurns(r) \/ RefuseRequests(r) \/ Return(r) \/ Crash(r)
  PROVE LoopInv'
<1> USE DEF Goto, EndWith, memory, choice, toolCalls
<1>1. TypeOK /\ RunInv(r)
  BY DEF LoopInv
<1>2. ending[r] \in Ending \cup {Nothing}
  BY <1>1 DEF TypeOK
<1>3. SUFFICES Touches(r) /\ TypeOK' /\ EffectsBacked' /\ RunInv(r)'
  BY OneRun
<1> USE DEF RunInv, Absent, Holding, Counts, Calls, Before, CallIndex, IdempotencyKey,
            Early, Asking, Serving, InTurn, Driving
<1>4. CASE RefuseRun(r)
  <2>1. Touches(r) /\ TypeOK' /\ EffectsBacked'
    BY <1>4, Move DEF RefuseRun, Location
  <2>2. RunInv(r)'
    BY <1>1, <1>4, <2>1 DEF TypeOK, RefuseRun
  <2> QED
    BY <2>1, <2>2
<1>5. CASE BeginTurn(r) \/ RequestTool(r)
  <2>1. Touches(r) /\ TypeOK' /\ EffectsBacked'
    BY <1>5, Move DEF BeginTurn, RequestTool, Location
  <2>2. RunInv(r)'
    <3>1. CASE BeginTurn(r)
      BY <1>1, <3>1, <2>1 DEF TypeOK, BeginTurn
    <3>2. CASE RequestTool(r)
      <4>1. Absent(r)' /\ Holding(r)' /\ Calls(r)'
        BY <1>1, <3>2, <2>1 DEF TypeOK, RequestTool
      <4>2. Len(summary[r]) < mine[r].calls + Len(asked[r])
        BY SMTT(30), <1>1, <3>2, Numbers DEF RequestTool
      <4>3. Counts(r)'
        BY <1>1, <3>2, <2>1, <4>2 DEF TypeOK, RequestTool
      <4> QED
        BY <4>1, <4>3
    <3> QED
      BY <1>5, <3>1, <3>2
  <2> QED
    BY <2>1, <2>2
<1>6. CASE AcceptRequests(r)
  <2>1. Touches(r) /\ TypeOK' /\ EffectsBacked'
    BY <1>6, Move DEF AcceptRequests, Location
  <2>2. Len(asked[r]) <= MaxToolsPerTurn /\ Len(summary[r]) + Len(asked[r]) <= MaxToolCalls
    BY <1>1, <1>6, LimitAssumption DEF TypeOK, AcceptRequests, OverLimit
  <2>3. RunInv(r)'
    BY <1>1, <1>6, <2>1, <2>2 DEF TypeOK, AcceptRequests
  <2> QED
    BY <2>1, <2>3
<1>7. CASE StopForShutdown(r) \/ RunOutOfTurns(r) \/ RefuseRequests(r)
  <2>1. PICK e \in Ending : ending' = [ending EXCEPT ![r] = e] /\ pc' = [pc EXCEPT ![r] = "finish"]
    BY <1>7 DEF StopForShutdown, RunOutOfTurns, RefuseRequests, Ending, Terminal, RunError
  <2>2. Touches(r) /\ TypeOK' /\ EffectsBacked'
    BY <1>7, <2>1, Move DEF StopForShutdown, RunOutOfTurns, RefuseRequests, Location
  <2>3. RunInv(r)'
    <3>1. /\ pc[r] \in {"turn", "responded"} /\ pc'[r] = "finish" /\ ending'[r] = e
          /\ UNCHANGED <<row, model, made, mine, wanted, seen, summary, asked, audit>>
      BY <1>1, <1>7, <2>1 DEF TypeOK, StopForShutdown, RunOutOfTurns, RefuseRequests
    <3>2. Absent(r)' /\ Holding(r)'
      BY <1>1, <3>1, NothingAssumption
    <3>3. Counts(r)' /\ Calls(r)'
      BY <1>1, <3>1
    <3> QED
      BY <3>2, <3>3
  <2> QED
    BY <2>2, <2>3
<1>8. CASE Return(r)
  <2>1. ending[r] \in Ending
    BY <1>1, <1>2, <1>8 DEF Return
  <2>2. Touches(r) /\ TypeOK' /\ EffectsBacked'
    BY <1>8, <2>1, Move DEF Return, Location, Ending
  <2>3. /\ pc[r] = "returning" /\ pc'[r] \in {"answered", "finish"} /\ ending'[r] \in Ending
        /\ UNCHANGED <<row, model, made, mine, wanted, seen, summary, asked, audit>>
    BY <1>1, <1>8, <2>1, <2>2 DEF TypeOK, Return, Ending
  <2>4. ending'[r] # Nothing
    BY <2>3, NothingAssumption
  <2>5. Absent(r)' /\ Holding(r)'
    BY <1>1, <2>3, <2>4
  <2>6. Counts(r)' /\ Calls(r)'
    BY <1>1, <2>3
  <2> QED
    BY <2>2, <2>5, <2>6
<1>9. CASE Crash(r)
  <2>1. Touches(r) /\ TypeOK' /\ EffectsBacked'
    BY <1>9, Move DEF Crash, Location
  <2>2. /\ pc[r] # "idle" /\ pc'[r] = "gone" /\ wanted'[r] = Nothing /\ seen'[r] = Nothing
        /\ UNCHANGED <<row, model, made, mine, summary, asked, audit, ending>>
    BY <1>1, <1>9 DEF TypeOK, Crash, TaskLive
  <2>3. row[r] # Nothing /\ mine[r] # Nothing
    BY <1>1, <1>9, <2>2 DEF Crash, TaskLive
  <2>4. Absent(r)' /\ Holding(r)'
    BY <1>1, <2>2, <2>3
  <2>5. Counts(r)' /\ Calls(r)'
    BY <1>1, <2>2
  <2> QED
    BY <2>1, <2>4, <2>5
<1> QED
  BY <1>4, <1>5, <1>6, <1>7, <1>8, <1>9

\* An exception leaves the loop.
LEMMA LeaveInvariant ==
  ASSUME LoopInv, NEW r \in Run,
         \/ TimeOut(r) \/ ExceedMessageLimit(r) \/ FailUnexpectedly(r)
         \/ \E registry \in Registry : RefuseTools(r, registry)
  PROVE LoopInv'
<1> USE DEF Goto, EndWith, choice, toolCalls
<1>1. TypeOK /\ RunInv(r)
  BY DEF LoopInv
<1>2. PICK e \in Ending : /\ ending' = [ending EXCEPT ![r] = e] /\ LeaveLoop(r, e.status, e.error)
                          /\ pc[r] \notin {"idle", "answered"}
  BY DEF TimeOut, ExceedMessageLimit, FailUnexpectedly, RefuseTools, LeaveLoop, InLoop, TaskLive,
         Ending, Terminal, RunError
<1>3. Touches(r) /\ TypeOK' /\ EffectsBacked'
  BY <1>2, Move DEF LeaveLoop, Location
<1>4. RunInv(r)'
  BY <1>1, <1>2, <1>3, NothingAssumption
  DEF LeaveLoop, TypeOK, RunInv, Absent, Holding, Counts, Calls, Before, CallIndex, IdempotencyKey,
      Early, Asking, Serving, InTurn, Driving
<1> QED
  BY <1>3, <1>4, OneRun

LEMMA BeginInvariant ==
  ASSUME LoopInv, NEW r \in Run,
         \/ \E request \in StartRequest : CreateRun(r, request)
         \/ StartRun(r)
         \/ \E registry \in Registry : OfferTools(r, registry)
         \/ CreateModelCall(r)
  PROVE LoopInv'
<1> USE DEF Goto, choice, memory, toolCalls
<1>1. TypeOK /\ RunInv(r)
  BY DEF LoopInv
<1>2. EffectsBacked'
  BY EffectsKept DEF CreateRun, StartRun, OfferTools, CreateModelCall
<1>3. Touches(r)
  BY <1>1 DEF TypeOK, Touches, CreateRun, StartRun, OfferTools, CreateModelCall
<1>4. New \in RunRow /\ \A run \in RunRow : Begun(run) \in RunRow
  BY LimitAssumption DEF New, Begun, RunRow, RunStatus, RunError
<1>5. Started \in ModelRow /\ "started" \in RunEvent
  BY DEF Started, ModelRow, ModelError, RunEvent
<1> USE DEF RunInv, Absent, Holding, Counts, Calls, Before, CallIndex, IdempotencyKey,
            Early, Asking, Serving, InTurn, Driving
<1>6. CASE \E request \in StartRequest : CreateRun(r, request)
  <2> PICK request \in StartRequest : CreateRun(r, request)
    BY <1>6
  <2>1. TypeOK'
    <3>1. row' \in [Run -> RunRow \cup {Nothing}] /\ mine' \in [Run -> RunRow \cup {Nothing}]
      BY <1>1, <1>4 DEF TypeOK, CreateRun
    <3>2. pc' \in [Run -> Location] /\ plan' \in [Run -> StartRequest \cup {Nothing}]
      BY <1>1 DEF TypeOK, Location, CreateRun
    <3> QED
      BY <1>1, <3>1, <3>2 DEF TypeOK, CreateRun
  <2>2. /\ pc[r] = "idle" /\ pc'[r] = "created" /\ mine'[r] = New /\ row'[r] = New
        /\ UNCHANGED <<model, made, wanted, seen, summary, asked, audit, ending>>
    BY <1>1 DEF TypeOK, CreateRun
  <2>3. RunInv(r)'
    BY <1>1, <1>4, <2>2, NothingAssumption, LimitAssumption DEF New
  <2> QED
    BY <1>2, <1>3, <2>1, <2>3, OneRun
<1>7. CASE StartRun(r)
  <2>1. mine[r] \in RunRow
    BY <1>1, <1>7 DEF TypeOK, StartRun
  <2>2. TypeOK'
    <3>1. row' \in [Run -> RunRow \cup {Nothing}] /\ mine' \in [Run -> RunRow \cup {Nothing}]
      BY <1>1, <1>4, <1>7, <2>1 DEF TypeOK, StartRun
    <3>2. pc' \in [Run -> Location] /\ audit' \in [Run -> Seq(RunEvent)]
      BY <1>1, <1>5, <1>7 DEF TypeOK, Location, StartRun
    <3> QED
      BY <1>1, <1>7, <3>1, <3>2 DEF TypeOK, StartRun
  <2>3. /\ pc[r] = "created" /\ pc'[r] = "offer" /\ mine'[r] = Begun(mine[r]) /\ row'[r] = Begun(mine[r])
        /\ UNCHANGED <<model, made, wanted, seen, summary, asked, ending>>
    BY <1>1, <1>7 DEF TypeOK, StartRun
  <2>4. /\ row'[r] # Nothing /\ mine'[r] # Nothing
        /\ mine'[r].turns = mine[r].turns /\ mine'[r].calls = mine[r].calls
    BY <1>4, <2>1, <2>3, NothingAssumption DEF Begun, RunRow
  <2>5. RunInv(r)'
    BY <1>1, <2>3, <2>4
  <2> QED
    BY <1>2, <1>3, <2>2, <2>5, OneRun
<1>8. CASE \E registry \in Registry : OfferTools(r, registry)
  <2> PICK registry \in Registry : OfferTools(r, registry)
    BY <1>8
  <2>1. TypeOK'
    <3>1. /\ pc' \in [Run -> Location]
          /\ offered' \in [Run -> {Offer(g) : g \in Registry} \cup {{}}]
      BY <1>1 DEF TypeOK, Location, OfferTools
    <3> QED
      BY <1>1, <3>1 DEF TypeOK, OfferTools
  <2>2. /\ pc[r] = "offer" /\ pc'[r] = "turn"
        /\ UNCHANGED <<row, model, made, mine, wanted, seen, summary, asked, audit, ending>>
    BY <1>1 DEF TypeOK, OfferTools
  <2>3. RunInv(r)'
    BY <1>1, <2>2
  <2> QED
    BY <1>2, <1>3, <2>1, <2>3, OneRun
<1>9. CASE CreateModelCall(r)
  <2>1. TypeOK'
    <3>1. pc' \in [Run -> Location] /\ model' \in [Run -> Seq(ModelRow)]
      BY <1>1, <1>5, <1>9 DEF TypeOK, Location, CreateModelCall
    <3>2. agedCalls' \subseteq Run
      BY <1>1, <1>9 DEF TypeOK, CreateModelCall
    <3> QED
      BY <1>1, <1>9, <3>1, <3>2 DEF TypeOK, CreateModelCall
  <2>2. /\ pc[r] = "calling" /\ pc'[r] = "model" /\ Len(model'[r]) = Len(model[r]) + 1
        /\ UNCHANGED <<row, made, mine, wanted, seen, summary, asked, audit, ending>>
    BY <1>1, <1>5, <1>9 DEF TypeOK, CreateModelCall
  <2>3. Absent(r)' /\ Holding(r)' /\ Calls(r)'
    BY <1>1, <2>2
  <2>4. Counts(r)'
    BY <1>1, <2>2, Numbers
  <2> QED
    BY <1>2, <1>3, <2>1, <2>3, <2>4, OneRun
<1> QED
  BY <1>6, <1>7, <1>8, <1>9

\* The provider answers, or the task stops waiting for it.
LEMMA ProviderInvariant ==
  ASSUME LoopInv, NEW r \in Run,
         \/ pc[r] = "model" /\ \E response \in Responses(r) : ProviderResponds(r, response)
         \/ \E st \in {"failed", "timed_out"} : ProviderFails(r, st)
         \/ \E by \in {"handler", "shutdown"} : CancelInProvider(r, by)
  PROVE LoopInv'
<1> USE DEF Goto, EndWith, choice, memory, toolCalls
<1>1. TypeOK /\ RunInv(r) /\ pc[r] = "model"
  BY DEF LoopInv, ProviderFails, CancelInProvider
<1>2. EffectsBacked'
  BY EffectsKept DEF ProviderResponds, ProviderFails, CancelInProvider
<1>3. Touches(r)
  BY <1>1 DEF TypeOK, Touches, ProviderResponds, ProviderFails, CancelInProvider
<1>4. PICK m \in ModelRow : wanted' = [wanted EXCEPT ![r] = m]
  BY DEF ProviderResponds, ProviderFails, CancelInProvider, FailedCall, ModelRow, ModelError
<1>5. asked' \in [Run -> Seq(Askable)]
  <2>1. \A offer, processed : FakeResponse(plan[r].prompt, offer, processed) \in Seq(Askable)
    <3>1. TAKE offer, processed
    <3> DEFINE fits == {i \in DOMAIN FakeScript : /\ FakeScript[i].words \cap plan[r].prompt # {}
                                                  /\ FakeScript[i].tool \in offer}
    <3>2. fits \subseteq {1, 2, 3}
      BY DEF FakeScript
    <3>3. fits # {} => Min(fits) \in fits
      <4>1. ASSUME fits # {} PROVE \E i \in fits : \A j \in fits : i <= j
        <5>1. CASE 1 \in fits
          BY <3>2, <5>1
        <5>2. CASE 1 \notin fits /\ 2 \in fits
          BY <3>2, <5>2
        <5>3. CASE 1 \notin fits /\ 2 \notin fits
          BY <3>2, <4>1, <5>3
        <5> QED
          BY <5>1, <5>2, <5>3
      <4> QED
        BY <4>1 DEF Min
    <3>4. FakeResponse(plan[r].prompt, offer, processed) =
            IF processed \/ fits = {} THEN <<>> ELSE <<FakeScript[Min(fits)].tool>>
      BY DEF FakeResponse
    <3>5. fits # {} => FakeScript[Min(fits)].tool \in Askable
      BY <3>2, <3>3 DEF Askable
    <3>6. \A name \in Askable : <<name>> \in Seq(Askable)
      OBVIOUS
    <3> QED
      BY <3>4, <3>5, <3>6
  <2>2. \A response \in Responses(r) : response # NoResponse => response \in Seq(Askable)
    BY <2>1, ReplyAssumption DEF Responses
  <2>3. CASE \E response \in Responses(r) : ProviderResponds(r, response)
    BY <1>1, <2>2, <2>3 DEF TypeOK, ProviderResponds
  <2>4. CASE UNCHANGED asked
    BY <1>1, <2>4 DEF TypeOK
  <2> QED
    BY <2>3, <2>4 DEF ProviderFails, CancelInProvider
<1>6. \/ UNCHANGED ending
      \/ \E e \in Ending : ending' = [ending EXCEPT ![r] = e]
  BY DEF ProviderResponds, ProviderFails, CancelInProvider, Ending, Terminal, RunError
<1>7. /\ pc' = [pc EXCEPT ![r] = "settle"]
      /\ UNCHANGED <<row, model, made, toolCalls, audit, agedRuns, agedCalls, accepting, mine, seen,
                     choice, summary>>
  BY DEF ProviderResponds, ProviderFails, CancelInProvider
<1>8. TypeOK'
  <2>1. ending' \in [Run -> Ending \cup {Nothing}]
    BY <1>1, <1>6 DEF TypeOK
  <2> QED
    BY <1>1, <1>4, <1>5, <1>7, <2>1 DEF TypeOK, Location
<1>9. RunInv(r)'
  <2>1. pc'[r] = "settle" /\ wanted'[r] # Nothing
    BY <1>1, <1>4, <1>7, NothingAssumption DEF TypeOK
  <2> QED
    BY <1>1, <1>7, <2>1
    DEF RunInv, Absent, Holding, Counts, Calls, Before, CallIndex, IdempotencyKey,
        Early, Asking, Serving, InTurn, Driving
<1> QED
  BY <1>2, <1>3, <1>8, <1>9, OneRun

-----------------------------------------------------------------------------
(* The flush of a row                                                      *)

LEMMA Flushed ==
  /\ \A a, b, c \in RunRow : Flush(a, b, c) \in RunRow /\ Flush(a, a, c) = c
  /\ \A a, b, c \in ModelRow : Flush(a, b, c) \in ModelRow /\ Flush(a, a, c) = c
<1>1. ASSUME NEW a \in RunRow, NEW b \in RunRow, NEW c \in RunRow
      PROVE Flush(a, b, c) \in RunRow /\ Flush(a, a, c) = c
  BY DEF Flush, RunRow
<1>2. ASSUME NEW a \in ModelRow, NEW b \in ModelRow, NEW c \in ModelRow
      PROVE Flush(a, b, c) \in ModelRow /\ Flush(a, a, c) = c
  BY DEF Flush, ModelRow
<1> QED
  BY <1>1, <1>2

\* A step that writes the row, or loads a copy of it, at the end of a turn or of the run.
LEMMA SaveInvariant ==
  ASSUME LoopInv, NEW r \in Run,
         LoadRun(r) \/ PersistRun(r) \/ ReadForFinish(r) \/ FinishRun(r)
  PROVE LoopInv'
<1> USE DEF Goto, SaveRun, choice, memory, toolCalls
<1>1. TypeOK /\ RunInv(r)
  BY DEF LoopInv
<1>2. EffectsBacked'
  BY EffectsKept DEF LoadRun, PersistRun, ReadForFinish, FinishRun
<1>3. Touches(r)
  BY <1>1 DEF TypeOK, Touches, LoadRun, PersistRun, ReadForFinish, FinishRun
<1>4. row[r] \in RunRow /\ row[r] # Nothing
  <2>1. row[r] # Nothing
    BY <1>1 DEF RunInv, Absent, LoadRun, PersistRun, ReadForFinish, FinishRun
  <2> QED
    BY <1>1, <2>1 DEF TypeOK
<1>5. pc[r] \in {"finish", "finishing"} => ending[r] \in Ending
  BY <1>1 DEF TypeOK, RunInv, Holding
<1>6. pc[r] \in {"persist", "finishing"} => mine[r] \in RunRow
  BY <1>1 DEF TypeOK, RunInv, Holding
<1>7. \A run \in RunRow, end \in Ending :
        /\ Finished(run, end) \in RunRow
        /\ Finished(run, end).turns = run.turns /\ Finished(run, end).calls = run.calls
  BY DEF Finished, RunRow, Ending, RunStatus, Terminal
<1>8. \A end \in Ending : end.status \in RunEvent
  BY DEF Ending, Terminal, RunEvent
<1> USE DEF RunInv, Absent, Holding, Counts, Calls, Before, CallIndex, IdempotencyKey,
            Early, Asking, Serving, InTurn, Driving
<1>9. CASE LoadRun(r)
  <2>1. TypeOK'
    <3>1. seen' \in [Run -> RunRow \cup ModelRow \cup {Nothing}]
      BY <1>1, <1>4, <1>9 DEF TypeOK, LoadRun
    <3> QED
      BY <1>1, <1>9, <3>1 DEF TypeOK, LoadRun
  <2>2. /\ pc[r] \in {"persist", "finishing"} /\ seen'[r] \in RunRow
        /\ UNCHANGED <<pc, row, model, made, mine, wanted, summary, asked, audit, ending>>
    BY <1>1, <1>4, <1>9 DEF TypeOK, LoadRun
  <2>3. RunInv(r)'
    BY <1>1, <1>4, <2>2
  <2> QED
    BY <1>2, <1>3, <2>1, <2>3, OneRun
<1>10. CASE PersistRun(r) \/ FinishRun(r)
  <2>1. pc[r] \in {"persist", "finishing"} /\ seen[r] \in RunRow
    BY <1>1, <1>10 DEF PersistRun, FinishRun
  <2>2. row'[r] \in RunRow /\ row' = [row EXCEPT ![r] = Flush(@, seen[r], mine[r])]
    BY <1>1, <1>4, <1>6, <1>10, <2>1, Flushed DEF TypeOK, PersistRun, FinishRun
  <2>3. pc' \in [Run -> Location]
    <3>1. PICK place \in Location : pc' = [pc EXCEPT ![r] = place]
      BY <1>10 DEF Location, PersistRun, FinishRun, AfterFinish
    <3> QED
      BY <1>1, <3>1 DEF TypeOK
  <2>4. audit' \in [Run -> Seq(RunEvent)]
    <3>1. CASE UNCHANGED audit
      BY <1>1, <3>1 DEF TypeOK
    <3>2. CASE FinishRun(r)
      <4>1. ending[r].status \in RunEvent
        BY <1>5, <1>8, <3>2 DEF FinishRun
      <4>2. audit \in [Run -> Seq(RunEvent)] /\ audit' = [audit EXCEPT ![r] = Append(@, ending[r].status)]
        BY <1>1, <3>2 DEF TypeOK, FinishRun
      <4> QED
        BY <4>1, <4>2
    <3> QED
      BY <1>10, <3>1, <3>2 DEF PersistRun
  <2>5. row' \in [Run -> RunRow \cup {Nothing}] /\ seen' \in [Run -> RunRow \cup ModelRow \cup {Nothing}]
        /\ agedRuns' \subseteq Run
    BY <1>1, <1>10, <2>2 DEF TypeOK, PersistRun, FinishRun
  <2>6. TypeOK'
    <3>1. UNCHANGED <<model, made, toolCalls, agedCalls, accepting, mine, wanted, choice, asked, summary,
                      ending>>
      BY <1>10 DEF PersistRun, FinishRun
    <3> QED
      BY <1>1, <2>3, <2>4, <2>5, <3>1 DEF TypeOK
  <2>7. /\ row'[r] # Nothing /\ seen'[r] = Nothing
        /\ UNCHANGED <<model, made, mine, wanted, summary, asked, ending>>
        /\ \/ /\ pc[r] = "persist"
              /\ \/ pc'[r] = "turn" /\ ending[r] = Nothing
                 \/ pc'[r] = "finish" /\ ending[r] # Nothing
           \/ pc[r] = "finishing" /\ pc'[r] \in {"returning", "answered"}
    BY <1>1, <1>10, <2>2, NothingAssumption DEF TypeOK, PersistRun, FinishRun, AfterFinish
  <2>8. Absent(r)' /\ Holding(r)'
    BY <1>1, <2>7
  <2>9. Counts(r)' /\ Calls(r)'
    BY <1>1, <2>7
  <2> QED
    BY <1>2, <1>3, <2>6, <2>8, <2>9, OneRun
<1>11. CASE ReadForFinish(r)
  <2>1. Finished(row[r], ending[r]) \in RunRow /\ Finished(row[r], ending[r]) # Nothing
    BY <1>4, <1>5, <1>7, <1>11, NothingAssumption DEF ReadForFinish
  <2>2. mine' \in [Run -> RunRow \cup {Nothing}] /\ pc' \in [Run -> Location]
    <3>1. PICK place \in Location : pc' = [pc EXCEPT ![r] = place]
      BY <1>11 DEF Location, ReadForFinish, AfterFinish
    <3>2. mine' = [mine EXCEPT ![r] = Finished(row[r], ending[r])] \/ UNCHANGED mine
      BY <1>11 DEF ReadForFinish
    <3> QED
      BY <1>1, <2>1, <3>1, <3>2 DEF TypeOK
  <2>3. TypeOK'
    BY <1>1, <1>11, <2>2 DEF TypeOK, ReadForFinish
  <2>4. /\ pc[r] = "finish" /\ pc'[r] \in {"finishing", "returning", "answered"} /\ mine'[r] # Nothing
        /\ UNCHANGED <<row, model, made, wanted, seen, summary, asked, audit, ending>>
    BY <1>1, <1>11, <2>1 DEF TypeOK, ReadForFinish, AfterFinish
  <2>5. RunInv(r)'
    BY <1>1, <1>4, <2>4
  <2> QED
    BY <1>2, <1>3, <2>3, <2>5, OneRun
<1> QED
  BY <1>9, <1>10, <1>11

\* The model call is settled.
LEMMA SettleInvariant ==
  ASSUME LoopInv, NEW r \in Run, LoadModelCall(r) \/ SettleModelCall(r) PROVE LoopInv'
<1> USE DEF Goto, choice, memory, toolCalls
<1>1. TypeOK /\ RunInv(r)
  BY DEF LoopInv
<1>2. EffectsBacked'
  BY EffectsKept DEF LoadModelCall, SettleModelCall
<1>3. Touches(r)
  BY <1>1 DEF TypeOK, Touches, LoadModelCall, SettleModelCall
<1>4. pc[r] = "settle"
  BY DEF LoadModelCall, SettleModelCall
<1>5. /\ model[r] \in Seq(ModelRow) /\ Len(model[r]) \in Nat \ {0}
      /\ Last(model[r]) \in ModelRow /\ Last(model[r]) = model[r][Len(model[r])]
  <2>1. Len(model[r]) = mine[r].turns + 1 /\ mine[r].turns \in Nat
    BY <1>1, <1>4, Numbers DEF RunInv, Holding, Counts, InTurn, Asking
  <2> QED
    BY <1>1, <2>1 DEF TypeOK, Last
<1>6. wanted[r] \in ModelRow
  BY <1>1, <1>4 DEF TypeOK, RunInv, Holding
<1> USE DEF RunInv, Absent, Holding, Counts, Calls, Before, CallIndex, IdempotencyKey,
            Early, Asking, Serving, InTurn, Driving
<1>7. CASE LoadModelCall(r)
  <2>1. TypeOK'
    <3>1. seen' \in [Run -> RunRow \cup ModelRow \cup {Nothing}]
      BY <1>1, <1>5, <1>7 DEF TypeOK, LoadModelCall
    <3> QED
      BY <1>1, <1>7, <3>1 DEF TypeOK, LoadModelCall
  <2>2. /\ seen'[r] \in ModelRow
        /\ UNCHANGED <<pc, row, model, made, mine, wanted, summary, asked, audit, ending>>
    BY <1>1, <1>5, <1>7 DEF TypeOK, LoadModelCall
  <2>3. RunInv(r)'
    BY <1>1, <1>4, <2>2
  <2> QED
    BY <1>2, <1>3, <2>1, <2>3, OneRun
<1>8. CASE SettleModelCall(r)
  <2>1. seen[r] \in ModelRow
    BY <1>1, <1>4, <1>8 DEF SettleModelCall
  <2>2. \A m \in ModelRow : Flush(m, seen[r], wanted[r]) \in ModelRow
    BY <1>6, <2>1, Flushed
  <2>3. LET new == [model[r] EXCEPT ![Len(model[r])] = Flush(model[r][Len(model[r])], seen[r], wanted[r])]
        IN /\ model' = [model EXCEPT ![r] = new]
           /\ model'[r] = new /\ new \in Seq(ModelRow) /\ Len(new) = Len(model[r])
    <3> DEFINE new == [model[r] EXCEPT ![Len(model[r])] = Flush(model[r][Len(model[r])], seen[r], wanted[r])]
    <3>1. model' = [model EXCEPT ![r] = new]
      BY <1>8 DEF SettleModelCall
    <3>2. new \in Seq(ModelRow) /\ Len(new) = Len(model[r])
      BY <1>5, <2>2
    <3> QED
      BY <1>1, <3>1, <3>2 DEF TypeOK
  <2>4. model' \in [Run -> Seq(ModelRow)]
    BY <1>1, <2>3 DEF TypeOK
  <2>5. PICK place \in {"responded", "gone", "finish"} :
          /\ pc' = [pc EXCEPT ![r] = place]
          /\ place = "finish" => ending[r] # Nothing
          /\ place = "responded" => ending[r] = Nothing
    BY <1>8 DEF SettleModelCall
  <2>6. TypeOK'
    <3>1. pc' \in [Run -> Location]
      BY <1>1, <2>5 DEF TypeOK, Location
    <3>2. seen' \in [Run -> RunRow \cup ModelRow \cup {Nothing}] /\ wanted' \in [Run -> ModelRow \cup {Nothing}]
      BY <1>1, <1>8 DEF TypeOK, SettleModelCall
    <3> QED
      BY <1>1, <1>8, <2>4, <3>1, <3>2 DEF TypeOK, SettleModelCall
  <2>7. /\ seen'[r] = Nothing /\ pc'[r] = place /\ row[r] # Nothing
        /\ UNCHANGED <<row, made, mine, summary, asked, audit, ending>>
    BY <1>1, <1>4, <1>8, <2>5 DEF TypeOK, SettleModelCall
  <2>8. Absent(r)' /\ Holding(r)'
    BY <1>1, <1>4, <2>5, <2>7
  <2>9. Counts(r)' /\ Calls(r)'
    BY <1>1, <1>4, <2>3, <2>7
  <2> QED
    BY <1>2, <1>3, <2>6, <2>8, <2>9, OneRun
<1> QED
  BY <1>7, <1>8

\* The turn is over: the counters of the run are advanced.
LEMMA TurnInvariant ==
  ASSUME LoopInv, NEW r \in Run, Answer(r) \/ EndTurn(r) PROVE LoopInv'
<1> USE DEF Goto, EndWith, choice, memory, toolCalls
<1>1. TypeOK /\ RunInv(r)
  BY DEF LoopInv
<1>2. EffectsBacked'
  BY EffectsKept DEF Answer, EndTurn
<1>3. Touches(r)
  BY <1>1 DEF TypeOK, Touches, Answer, EndTurn
<1>4. pc[r] \in {"responded", "dispatch"} /\ pc' = [pc EXCEPT ![r] = "persist"]
  BY DEF Answer, EndTurn
<1>5. mine[r] \in RunRow /\ mine' = [mine EXCEPT ![r] = Progress(r)]
  <2>1. mine[r] # Nothing
    BY <1>1, <1>4 DEF RunInv, Holding
  <2> QED
    BY <1>1, <2>1 DEF TypeOK, Answer, EndTurn
<1>6. Len(model[r]) = mine[r].turns + 1 /\ Len(model[r]) <= MaxTurns /\ Len(summary[r]) <= MaxToolCalls
  BY <1>1, <1>4 DEF RunInv, Counts, InTurn, Asking, Serving
<1>7. /\ Progress(r) \in RunRow /\ Progress(r).turns = mine[r].turns + 1
      /\ Progress(r).calls = Len(summary[r])
  <2>1. Len(summary[r]) \in 0 .. MaxToolCalls /\ mine[r].turns + 1 \in 0 .. MaxTurns
    BY <1>1, <1>5, <1>6, Numbers
  <2> QED
    BY <1>5, <2>1 DEF Progress, RunRow
<1>8. TypeOK'
  <2>1. mine' \in [Run -> RunRow \cup {Nothing}] /\ pc' \in [Run -> Location]
    BY <1>1, <1>4, <1>5, <1>7 DEF TypeOK, Location
  <2>2. ending' \in [Run -> Ending \cup {Nothing}]
    <3>1. UNCHANGED ending \/ \E e \in Ending : ending' = [ending EXCEPT ![r] = e]
      BY DEF Answer, EndTurn, Ending, Terminal, RunError
    <3> QED
      BY <1>1, <3>1 DEF TypeOK
  <2>3. UNCHANGED <<row, model, made, phase, effects, outcome, audit, agedRuns, agedCalls, accepting,
                    wanted, seen, plan, offered, asked, summary>>
    BY DEF Answer, EndTurn
  <2> QED
    BY <1>1, <2>1, <2>2, <2>3 DEF TypeOK
<1>9. /\ pc'[r] = "persist" /\ mine'[r] = Progress(r) /\ mine'[r] # Nothing /\ row[r] # Nothing
      /\ UNCHANGED <<row, model, made, wanted, seen, summary, asked, audit>>
  BY <1>1, <1>4, <1>5, <1>7, NothingAssumption DEF TypeOK, Answer, EndTurn, RunInv, Absent
<1>10. Absent(r)' /\ Holding(r)' /\ Counts(r)'
  BY <1>1, <1>4, <1>6, <1>7, <1>9
  DEF RunInv, Absent, Holding, Counts, Early, Asking, Serving, InTurn
<1>11. Calls(r)'
  <2>1. \A k \in CallKey : Before(r, k) => Before(r, k)'
    BY <1>1, <1>4, <1>5, <1>7, <1>9, Numbers DEF Before, CallKey
  <2> QED
    BY <1>1, <1>4, <1>9, <2>1 DEF RunInv, Calls, Early, Asking, Serving, InTurn, Driving
<1> QED
  BY <1>2, <1>3, <1>8, <1>10, <1>11, OneRun DEF RunInv

-----------------------------------------------------------------------------
(* The requests of a response                                              *)

\* The next request of a response that was accepted has a key of its own.
LEMMA KeyInRange ==
  ASSUME LoopInv, NEW r \in Run, pc[r] \in Serving, Len(summary[r]) < mine[r].calls + Len(asked[r])
  PROVE /\ IdempotencyKey(r) \in CallKey /\ IdempotencyKey(r)[1] = r
        /\ ~Before(r, IdempotencyKey(r))
        /\ Len(summary[r]) < MaxToolCalls
<1>1. TypeOK /\ RunInv(r)
  BY DEF LoopInv
<1>2. /\ mine[r].turns \in Nat /\ mine[r].calls \in Nat
      /\ Len(summary[r]) \in Nat /\ Len(asked[r]) \in Nat /\ Len(model[r]) \in Nat
      /\ MaxTurns \in Nat /\ MaxToolCalls \in Nat /\ MaxToolsPerTurn \in Nat
  BY <1>1, Numbers DEF RunInv, Holding, Serving
<1>3. /\ mine[r].calls <= Len(summary[r]) /\ Len(asked[r]) <= MaxToolsPerTurn
      /\ mine[r].calls + Len(asked[r]) <= MaxToolCalls
      /\ mine[r].turns + 1 <= MaxTurns
  BY <1>1, <1>2 DEF RunInv, Counts, InTurn, Serving
<1>4. mine[r].turns + 1 \in 1 .. MaxTurns /\ CallIndex(r) \in 1 .. MaxToolsPerTurn
  <2>1. \A n, calls, asks, most \in Nat :
          calls <= n /\ n < calls + asks /\ asks <= most => n - calls + 1 \in 1 .. most
    OBVIOUS
  <2>2. mine[r].turns + 1 \in 1 .. MaxTurns
    <3>1. \A turns, most \in Nat : turns + 1 <= most => turns + 1 \in 1 .. most
      OBVIOUS
    <3>2. mine[r].turns \in Nat /\ MaxTurns \in Nat /\ mine[r].turns + 1 <= MaxTurns
      BY <1>2, <1>3
    <3> QED
      BY <3>1, <3>2
  <2>3. CallIndex(r) \in 1 .. MaxToolsPerTurn
    BY <1>2, <1>3, <2>1 DEF CallIndex
  <2> QED
    BY <2>2, <2>3
<1>5. /\ IdempotencyKey(r)[1] = r /\ IdempotencyKey(r)[2] = mine[r].turns + 1
      /\ IdempotencyKey(r)[3] = CallIndex(r)
  BY DEF IdempotencyKey
<1>6. IdempotencyKey(r) \in CallKey
  BY <1>4 DEF IdempotencyKey, CallKey
<1>7. ~Before(r, IdempotencyKey(r))
  BY <1>2, <1>4, <1>5 DEF Before
<1> QED
  BY SMTT(30), <1>2, <1>3, <1>5, <1>6, <1>7

\* A request that is done with is summarised: with the call it made, or as refused.
LEMMA SummariseInvariant ==
  ASSUME LoopInv, NEW r \in Run, NEW s \in Summary, pc[r] \in Serving,
         Len(summary[r]) < mine[r].calls + Len(asked[r]),
         summary' = [summary EXCEPT ![r] = Append(@, s)],
         s.refused \/ s.call = IdempotencyKey(r),
         pc' = [pc EXCEPT ![r] = "dispatch"],
         phase' \in [CallKey -> {"free", "open", "closed"}],
         outcome' \in [CallKey -> Tool!Outcome \cup {"none"}],
         UNCHANGED <<row, model, made, effects, audit, agedRuns, agedCalls, accepting, mine, wanted,
                     seen, choice, asked, ending>>
  PROVE LoopInv'
<1> USE DEF choice
<1>1. TypeOK /\ RunInv(r)
  BY DEF LoopInv
<1>2. EffectsBacked'
  BY EffectsKept
<1>3. Touches(r)
  BY <1>1 DEF TypeOK, Touches
<1>4. summary[r] \in Seq(Summary) /\ summary'[r] = Append(summary[r], s)
  BY <1>1 DEF TypeOK
<1>5. TypeOK'
  <2>1. summary' \in [Run -> Seq(Summary)] /\ pc' \in [Run -> Location]
    BY <1>1, <1>4 DEF TypeOK, Location
  <2> QED
    BY <1>1, <2>1 DEF TypeOK
<1>6. /\ Len(summary'[r]) = Len(summary[r]) + 1 /\ Len(summary[r]) \in Nat
      /\ summary'[r][Len(summary[r]) + 1] = s
      /\ \A i \in 1 .. Len(summary[r]) : summary'[r][i] = summary[r][i]
  BY <1>4
<1>7. /\ pc'[r] = "dispatch" /\ row[r] # Nothing /\ ending[r] = Nothing
      /\ UNCHANGED <<row, model, made, mine, wanted, seen, asked, audit, ending>>
  BY <1>1 DEF TypeOK, RunInv, Absent, Holding, Serving
<1>8. Absent(r)' /\ Holding(r)'
  BY <1>1, <1>7 DEF RunInv, Absent, Holding, Early, Asking, Serving
<1>9. Counts(r)'
  <2>1. Len(asked[r]) \in Nat /\ mine[r].calls \in Nat /\ MaxToolCalls \in Nat
    BY <1>1, Numbers DEF RunInv, Holding, Serving
  <2> QED
    BY <1>1, <1>6, <1>7, <2>1 DEF RunInv, Counts, Early, Asking, Serving, InTurn
<1>10. Calls(r)'
  <2> DEFINE k == IdempotencyKey(r)
  <2>1. k \in CallKey /\ ~Before(r, k)
    BY KeyInRange
  <2> DEFINE Passed(c) == \/ c[2] <= mine'[r].turns
                          \/ c[2] = mine'[r].turns + 1 /\ c[3] < Len(summary'[r]) - mine'[r].calls + 1
  <2>2. \A c \in CallKey : Before(r, c) \/ c = k => Passed(c)
    <3>1. mine[r].calls \in Nat /\ mine[r].turns \in Nat
      BY <1>1, Numbers DEF RunInv, Holding, Serving
    <3>2. Len(summary'[r]) - mine'[r].calls + 1 = CallIndex(r) + 1 /\ CallIndex(r) \in Int
      BY <1>6, <1>7, <3>1 DEF CallIndex
    <3>3. \A c \in CallKey : c[3] \in Nat
      BY LimitAssumption DEF CallKey
    <3> QED
      BY <1>7, <3>1, <3>2, <3>3 DEF Before, IdempotencyKey
  <2>3. \A i \in 1 .. Len(summary[r]) : ~summary[r][i].refused =>
          summary[r][i].call \in CallKey /\ Before(r, summary[r][i].call)
    BY <1>1 DEF RunInv, Calls, Serving, InTurn, Driving
  <2>4. \A i \in 1 .. Len(summary'[r]) : ~summary'[r][i].refused =>
          summary'[r][i].call \in CallKey /\ Passed(summary'[r][i].call)
    <3>1. SUFFICES ASSUME NEW i \in 1 .. Len(summary[r]) + 1, ~summary'[r][i].refused
                   PROVE summary'[r][i].call \in CallKey /\ Passed(summary'[r][i].call)
      BY <1>6
    <3>2. CASE i = Len(summary[r]) + 1
      BY <1>6, <2>1, <2>2, <3>1, <3>2
    <3>3. CASE i # Len(summary[r]) + 1
      <4>1. i \in 1 .. Len(summary[r])
        BY <1>6, <3>3
      <4> QED
        BY <1>6, <2>2, <2>3, <3>1, <4>1
    <3> QED
      BY <3>2, <3>3
  <2>5. \A i, j \in 1 .. Len(summary'[r]) :
          i # j /\ ~summary'[r][i].refused /\ ~summary'[r][j].refused =>
            summary'[r][i].call # summary'[r][j].call
    <3>1. SUFFICES ASSUME NEW i \in 1 .. Len(summary[r]) + 1, NEW j \in 1 .. Len(summary[r]) + 1, i < j,
                          ~summary'[r][i].refused, ~summary'[r][j].refused
                   PROVE summary'[r][i].call # summary'[r][j].call
      BY <1>6
    <3>2. i \in 1 .. Len(summary[r])
      BY <1>6, <3>1
    <3>3. CASE j = Len(summary[r]) + 1
      BY <1>6, <2>1, <2>3, <3>1, <3>2, <3>3
    <3>4. CASE j # Len(summary[r]) + 1
      <4>1. j \in 1 .. Len(summary[r])
        BY <1>6, <3>4
      <4> QED
        BY <1>1, <1>6, <3>1, <3>2, <4>1 DEF RunInv, Calls
    <3> QED
      BY <3>3, <3>4
  <2>6. Len(made[r]) <= Len(summary[r]) + 1 /\ Len(made[r]) <= MaxToolCalls
    <3>1. Len(made[r]) \in Nat
      BY <1>1, Numbers
    <3> QED
      BY <1>1, <1>6, <3>1 DEF RunInv, Calls, Serving, InTurn, Driving
  <2> QED
    BY <1>6, <1>7, <2>4, <2>5, <2>6 DEF Calls, Before, CallIndex
<1> QED
  BY <1>2, <1>3, <1>5, <1>8, <1>9, <1>10, OneRun DEF RunInv

\* The ways a request ends that makes no new call.
LEMMA RefusalInvariant ==
  ASSUME LoopInv, NEW r \in Run,
         \/ RejectUnknownTool(r) \/ RefuseTool(r)
         \/ EnterTool(r) /\ phase[IdempotencyKey(r)] # "free"
         \/ \E o \in Tool!Outcome : SettleTool(r, o)
         \/ DropTool(r)
  PROVE LoopInv'
<1> USE DEF Goto, choice, memory, toolCalls
<1>1. TypeOK /\ RunInv(r)
  BY DEF LoopInv
<1>2. pc[r] \in Serving
  BY DEF RejectUnknownTool, RefuseTool, EnterTool, SettleTool, DropTool, Serving
<1>3. /\ Len(summary[r]) \in Nat /\ Len(asked[r]) \in Nat /\ mine[r].calls \in Nat
  BY <1>1, <1>2, Numbers DEF RunInv, Holding, Serving
<1>4. Len(summary[r]) < mine[r].calls + Len(asked[r])
  <2>1. CASE pc[r] = "dispatch"
    BY <1>3, <2>1 DEF RejectUnknownTool, RefuseTool, EnterTool, SettleTool, DropTool, CallIndex
  <2>2. CASE pc[r] # "dispatch"
    BY <1>1, <1>2, <2>2 DEF RunInv, Counts, Serving
  <2> QED
    BY <2>1, <2>2
<1>5. IdempotencyKey(r) \in CallKey
  BY <1>2, <1>4, KeyInRange
<1>6. LatestRunCall(r) \in CallKey \cup {Nothing}
  BY <1>1 DEF TypeOK, LatestRunCall, Last
<1>7. CASE RejectUnknownTool(r) \/ RefuseTool(r)
  <2>1. PICK s \in Summary : s.refused /\ summary' = [summary EXCEPT ![r] = Append(@, s)]
    BY <1>6, <1>7 DEF RejectUnknownTool, RefuseTool, Summary
  <2>2. pc' = [pc EXCEPT ![r] = "dispatch"]
    BY <1>1, <1>7 DEF TypeOK, RejectUnknownTool, RefuseTool
  <2> QED
    BY <1>1, <1>2, <1>4, <1>7, <2>1, <2>2, SummariseInvariant DEF TypeOK, RejectUnknownTool, RefuseTool
<1>8. CASE EnterTool(r) /\ phase[IdempotencyKey(r)] # "free"
  <2>1. PICK s \in Summary : s.call = IdempotencyKey(r) /\ summary' = [summary EXCEPT ![r] = Append(@, s)]
    BY <1>5, <1>8 DEF EnterTool, Summary
  <2> QED
    <3>1. /\ pc' = [pc EXCEPT ![r] = "dispatch"]
          /\ UNCHANGED <<row, model, made, toolCalls, audit, agedRuns, agedCalls, accepting, mine, wanted,
                         seen, choice, asked, ending>>
      BY <1>8 DEF EnterTool
    <3>2. phase' \in [CallKey -> {"free", "open", "closed"}] /\ outcome' \in [CallKey -> Tool!Outcome \cup {"none"}]
      BY <1>1, <3>1 DEF TypeOK
    <3> QED
      BY <1>2, <1>4, <2>1, <3>1, <3>2, SummariseInvariant
<1>9. CASE \E o \in Tool!Outcome : SettleTool(r, o)
  <2>1. PICK o \in Tool!Outcome : SettleTool(r, o)
    BY <1>9
  <2>2. LatestRunCall(r) = IdempotencyKey(r)
    BY <1>1, <2>1 DEF RunInv, Calls, SettleTool, LatestRunCall
  <2>3. PICK s \in Summary : s.call = IdempotencyKey(r) /\ summary' = [summary EXCEPT ![r] = Append(@, s)]
    <3> DEFINE s == [call |-> IdempotencyKey(r), refused |-> FALSE]
    <3>1. s \in Summary
      BY <1>5 DEF Summary
    <3>2. summary' = [summary EXCEPT ![r] = Append(@, s)]
      <4>1. CASE o \in {"succeeded", "blocked"}
        BY <2>1, <4>1 DEF SettleTool
      <4>2. CASE o \notin {"succeeded", "blocked"}
        BY <2>1, <2>2, <4>2 DEF SettleTool
      <4> QED
        BY <4>1, <4>2
    <3> QED
      BY <3>1, <3>2
  <2>4. phase' \in [CallKey -> {"free", "open", "closed"}] /\ outcome' \in [CallKey -> Tool!Outcome \cup {"none"}]
    BY <1>1, <2>1 DEF TypeOK, SettleTool, Tool!Close
  <2> QED
    BY <1>1, <1>2, <1>4, <2>1, <2>3, <2>4, SummariseInvariant DEF SettleTool, Tool!Close
<1>10. CASE DropTool(r)
  <2>1. LatestRunCall(r) = IdempotencyKey(r)
    BY <1>1, <1>10 DEF RunInv, Calls, DropTool, LatestRunCall
  <2>2. PICK s \in Summary : s.call = IdempotencyKey(r) /\ summary' = [summary EXCEPT ![r] = Append(@, s)]
    BY <1>5, <1>10, <2>1 DEF DropTool, Summary
  <2>3. /\ pc' = [pc EXCEPT ![r] = "dispatch"]
        /\ UNCHANGED <<row, model, made, toolCalls, audit, agedRuns, agedCalls, accepting, mine, wanted,
                       seen, choice, asked, ending>>
    BY <1>10 DEF DropTool
  <2>4. phase' \in [CallKey -> {"free", "open", "closed"}] /\ outcome' \in [CallKey -> Tool!Outcome \cup {"none"}]
    BY <1>1, <2>3 DEF TypeOK
  <2> QED
    BY <1>2, <1>4, <2>2, <2>3, <2>4, SummariseInvariant
<1> QED
  BY <1>7, <1>8, <1>9, <1>10

\* The service makes a call of the request.
LEMMA EnterInvariant ==
  ASSUME LoopInv, NEW r \in Run, EnterTool(r), phase[IdempotencyKey(r)] = "free" PROVE LoopInv'
<1> USE DEF Goto, choice, memory, toolCalls
<1> DEFINE k == IdempotencyKey(r)
<1>1. TypeOK /\ RunInv(r) /\ pc[r] = "tool"
  BY DEF LoopInv, EnterTool
<1>2. Len(summary[r]) < mine[r].calls + Len(asked[r])
  BY <1>1 DEF RunInv, Counts
<1>3. k \in CallKey /\ k[1] = r /\ Len(summary[r]) < MaxToolCalls
  BY <1>1, <1>2, KeyInRange DEF Serving
<1>4. /\ phase' = [phase EXCEPT ![k] = "open"] /\ made' = [made EXCEPT ![r] = Append(@, k)]
      /\ pc' = [pc EXCEPT ![r] = "working"]
      /\ UNCHANGED <<effects, outcome, row, model, audit, agedRuns, agedCalls, accepting, mine, wanted,
                     seen, plan, offered, summary, asked, ending>>
  BY DEF EnterTool, Tool!Claim
<1>5. /\ made[r] \in Seq(CallKey) /\ made'[r] = Append(made[r], k) /\ Len(made[r]) \in Nat
      /\ \A q \in Run : q # r => made'[q] = made[q]
  BY <1>1, <1>4 DEF TypeOK
<1>6. TypeOK'
  <2>1. made' \in [Run -> Seq(CallKey)] /\ pc' \in [Run -> Location]
        /\ phase' \in [CallKey -> {"free", "open", "closed"}]
    BY <1>1, <1>3, <1>4, <1>5 DEF TypeOK, Location
  <2> QED
    BY <1>1, <1>4, <2>1 DEF TypeOK
<1>7. Touches(r)
  BY <1>1, <1>4 DEF TypeOK, Touches
<1>8. EffectsBacked'
  <2>1. SUFFICES ASSUME NEW c \in CallKey, effects[c] > 0
                 PROVE \E i \in 1 .. Len(made'[c[1]]) : made'[c[1]][i] = c
    BY <1>4 DEF EffectsBacked
  <2>2. PICK i \in 1 .. Len(made[c[1]]) : made[c[1]][i] = c
    BY <2>1 DEF LoopInv, EffectsBacked
  <2>3. i \in 1 .. Len(made'[c[1]]) /\ made'[c[1]][i] = c
    <3>1. c[1] \in Run
      BY DEF CallKey
    <3>2. CASE c[1] = r
      BY <1>5, <2>2, <3>2
    <3>3. CASE c[1] # r
      BY <1>5, <2>2, <3>1, <3>3
    <3> QED
      BY <3>2, <3>3
  <2> QED
    BY <2>3
<1>9. Absent(r)' /\ Holding(r)' /\ Counts(r)'
  <2>1. pc'[r] = "working" /\ row[r] # Nothing
    BY <1>1, <1>4 DEF TypeOK, RunInv, Absent
  <2> QED
    BY <1>1, <1>4, <2>1 DEF RunInv, Absent, Holding, Counts, Early, Asking, Serving, InTurn
<1>10. Calls(r)'
  <2>1. Last(made'[r]) = k /\ made'[r] # <<>> /\ Len(made'[r]) = Len(made[r]) + 1 /\ pc'[r] = "working"
    <3>1. Len(made'[r]) = Len(made[r]) + 1 /\ made'[r][Len(made[r]) + 1] = k /\ made'[r] \in Seq(CallKey)
      BY <1>3, <1>5
    <3>2. pc'[r] = "working"
      BY <1>1, <1>4 DEF TypeOK
    <3>3. Last(made'[r]) = made'[r][Len(made'[r])]
      BY DEF Last
    <3> QED
      BY <1>5, <3>1, <3>2, <3>3
  <2>2. Len(made[r]) <= Len(summary[r]) /\ Len(summary[r]) \in Nat /\ MaxToolCalls \in Nat
    BY <1>1, Numbers DEF RunInv, Calls, Serving, InTurn, Driving
  <2>3. k' = k
    BY <1>4 DEF IdempotencyKey, CallIndex
  <2>4. \A c : Before(r, c)' <=> Before(r, c)
    BY <1>4 DEF Before, CallIndex
  <2>5. /\ Len(made'[r]) <= Len(summary'[r]) + 1 /\ Len(made'[r]) <= MaxToolCalls
    BY <1>3, <1>4, <1>5, <2>1, <2>2
  <2>6. \A i \in 1 .. Len(summary'[r]) : ~summary'[r][i].refused =>
          summary'[r][i].call \in CallKey /\ Before(r, summary[r][i].call)
    BY <1>1, <1>4 DEF RunInv, Calls, Serving, InTurn, Driving
  <2>7. \A i, j \in 1 .. Len(summary'[r]) :
          i # j /\ ~summary'[r][i].refused /\ ~summary'[r][j].refused =>
            summary'[r][i].call # summary'[r][j].call
    BY <1>1, <1>4 DEF RunInv, Calls
  <2> QED
    BY <1>4, <2>1, <2>3, <2>4, <2>5, <2>6, <2>7 DEF Calls
<1> QED
  BY <1>6, <1>7, <1>8, <1>9, <1>10, OneRun DEF RunInv

\* The adapter is entered for the call that is at work.
LEMMA PerformInvariant ==
  ASSUME LoopInv, NEW r \in Run, PerformTool(r) PROVE LoopInv'
<1> USE DEF choice, memory
<1> DEFINE k == IdempotencyKey(r)
<1>1. TypeOK /\ RunInv(r) /\ pc[r] = "working"
  BY DEF LoopInv, PerformTool
<1>2. k \in CallKey /\ k[1] = r
  BY <1>1, KeyInRange DEF RunInv, Counts, Serving
<1>3. effects' = [effects EXCEPT ![k] = 1]
  BY DEF PerformTool, Tool!Perform
<1>4. TypeOK'
  <2>1. effects' \in [CallKey -> Nat]
    BY <1>1, <1>2, <1>3 DEF TypeOK
  <2> QED
    BY <1>1, <2>1 DEF TypeOK, PerformTool, Tool!Perform
<1>5. EffectsBacked'
  <2>1. SUFFICES ASSUME NEW c \in CallKey, effects'[c] > 0
                 PROVE \E i \in 1 .. Len(made[c[1]]) : made[c[1]][i] = c
    BY DEF PerformTool, EffectsBacked
  <2>2. CASE c = k
    <3>1. made[r] # <<>> /\ Last(made[r]) = k /\ made[r] \in Seq(CallKey)
      BY <1>1 DEF TypeOK, RunInv, Calls
    <3>2. Len(made[r]) \in 1 .. Len(made[r]) /\ made[r][Len(made[r])] = k
      BY <3>1 DEF Last
    <3> QED
      BY <1>2, <2>2, <3>2
  <2>3. CASE c # k
    BY <1>1, <1>3, <2>1, <2>3 DEF TypeOK, LoopInv, EffectsBacked
  <2> QED
    BY <2>2, <2>3
<1>6. Touches(r) /\ RunInv(r)'
  BY <1>1 DEF PerformTool, Touches, RunInv, Absent, Holding, Counts, Calls, Before, CallIndex,
     IdempotencyKey
<1> QED
  BY <1>4, <1>5, <1>6, OneRun

-----------------------------------------------------------------------------
(* Recovery, time and shutdown                                             *)

\* What recovery stores of a run.
Recovered(t) == [t EXCEPT !.status = "failed", !.error = "agent_run_interrupted"]

LEMMA RecoveredRow ==
  \A t \in RunRow : /\ Recovered(t) \in RunRow
                    /\ Recovered(t).status = "failed" /\ Recovered(t).error = "agent_run_interrupted"
                    /\ Recovered(t).turns = t.turns /\ Recovered(t).calls = t.calls
BY DEF Recovered, RunRow, RunStatus, RunError

LEMMA RecoverRunsInvariant ==
  ASSUME LoopInv, NEW batch \in SUBSET ClaimableRuns, RecoverRuns(batch) PROVE LoopInv'
<1> USE DEF choice, memory, toolCalls
<1>1. TypeOK /\ batch \subseteq Run /\ \A r \in batch : row[r] \in RunRow /\ row[r] # Nothing
  BY DEF LoopInv, TypeOK, ClaimableRuns, HasStatus
<1>2. EffectsBacked'
  BY EffectsKept DEF RecoverRuns
<1> DEFINE new == [r \in Run |-> IF r \in batch THEN Recovered(row[r]) ELSE row[r]]
<1>r. row' = new
  BY DEF RecoverRuns, Recovered
<1>3. TypeOK'
  <2>1. row' \in [Run -> RunRow \cup {Nothing}]
    BY <1>1, <1>r, RecoveredRow DEF TypeOK
  <2>2. audit' \in [Run -> Seq(RunEvent)]
    <3>1. \A r \in Run : Append(audit[r], "recovered") \in Seq(RunEvent)
      BY <1>1 DEF TypeOK, RunEvent
    <3> QED
      BY <1>1, <3>1 DEF TypeOK, RecoverRuns
  <2>3. agedRuns' \subseteq Run
    BY <1>1 DEF TypeOK, RecoverRuns
  <2> QED
    BY <1>1, <2>1, <2>2, <2>3 DEF TypeOK, RecoverRuns
<1>4. ASSUME NEW r \in Run PROVE RunInv(r)'
  <2>1. RunInv(r)
    BY DEF LoopInv
  <2>2. row'[r] # Nothing \/ (row'[r] = row[r] /\ audit'[r] = audit[r])
    <3>1. CASE r \in batch
      BY <1>1, <1>r, <3>1, RecoveredRow, NothingAssumption
    <3>2. CASE r \notin batch
      BY <1>r, <3>2 DEF RecoverRuns
    <3> QED
      BY <3>1, <3>2
  <2>3. row'[r] = Nothing => row[r] = Nothing
    BY <2>2
  <2>4. row[r] = Nothing => row'[r] = Nothing
    BY <1>1, <1>r
  <2>5. Absent(r)'
    BY <2>1, <2>2, <2>3, <2>4 DEF RunInv, Absent, RecoverRuns
  <2>u. UNCHANGED <<pc, mine, ending, seen, wanted, model, summary, asked, made>>
    BY DEF RecoverRuns
  <2>6. Holding(r)' /\ Counts(r)'
    <3>1. Holding(r)'
      BY <2>1, <2>u DEF RunInv, Holding
    <3>2. Counts(r)'
      BY <2>1, <2>u DEF RunInv, Counts
    <3> QED
      BY <3>1, <3>2
  <2>7. Calls(r)'
    BY <2>1 DEF RunInv, Calls, Before, CallIndex, IdempotencyKey, RecoverRuns
  <2> QED
    BY <2>5, <2>6, <2>7 DEF RunInv
<1> QED
  BY <1>2, <1>3, <1>4 DEF LoopInv

\* What recovery stores of the model calls of a run.
Interrupted(m) == [m EXCEPT ![Len(m)] = [status |-> "failed", error |-> "model_call_interrupted"]]

LEMMA RecoveredModel ==
  ASSUME NEW m \in Seq(ModelRow)
  PROVE /\ Interrupted(m) \in Seq(ModelRow) /\ Len(Interrupted(m)) = Len(m)
        /\ \A t \in 1 .. Len(m) - 1 : Interrupted(m)[t] = m[t]
<1>1. [status |-> "failed", error |-> "model_call_interrupted"] \in ModelRow
  BY DEF ModelRow, ModelError
<1>2. DOMAIN Interrupted(m) = 1 .. Len(m) /\ Len(m) \in Nat
  BY DEF Interrupted
<1>3. \A t \in 1 .. Len(m) : Interrupted(m)[t] \in ModelRow
  BY <1>1 DEF Interrupted
<1>4. Interrupted(m) = [t \in 1 .. Len(m) |-> Interrupted(m)[t]]
  BY <1>2 DEF Interrupted
<1>5. Interrupted(m) \in Seq(ModelRow) /\ Len(Interrupted(m)) = Len(m)
  BY <1>2, <1>3, <1>4
<1>6. ASSUME NEW t \in 1 .. Len(m) - 1 PROVE Interrupted(m)[t] = m[t]
  <2>1. t \in 1 .. Len(m) /\ t # Len(m) /\ DOMAIN m = 1 .. Len(m)
    BY <1>2
  <2> QED
    BY <2>1 DEF Interrupted
<1> QED
  BY <1>5, <1>6

LEMMA RecoverModelCallsInvariant ==
  ASSUME LoopInv, NEW batch \in SUBSET ClaimableCalls, RecoverModelCalls(batch) PROVE LoopInv'
<1> USE DEF choice, memory, toolCalls
<1>1. TypeOK
  BY DEF LoopInv
<1>2. EffectsBacked'
  BY EffectsKept DEF RecoverModelCalls
<1>3. \A r \in Run : model'[r] = IF r \in batch THEN Interrupted(model[r]) ELSE model[r]
  BY DEF RecoverModelCalls, Interrupted
<1>4. \A r \in Run : model'[r] \in Seq(ModelRow) /\ Len(model'[r]) = Len(model[r])
  <2>1. \A r \in Run : model[r] \in Seq(ModelRow)
    BY <1>1 DEF TypeOK
  <2>2. \A r \in Run : Interrupted(model[r]) \in Seq(ModelRow) /\ Len(Interrupted(model[r])) = Len(model[r])
    BY <2>1, RecoveredModel
  <2> QED
    BY <1>3, <2>1, <2>2
<1>5. TypeOK'
  <2>1. model' \in [Run -> Seq(ModelRow)]
    BY <1>1, <1>4 DEF RecoverModelCalls, TypeOK
  <2> QED
    BY <1>1, <2>1 DEF RecoverModelCalls, TypeOK
<1>6. ASSUME NEW r \in Run PROVE RunInv(r)'
  <2>1. RunInv(r)
    BY DEF LoopInv
  <2>2. model[r] = <<>> => model'[r] = <<>>
    BY <1>1, <1>4 DEF TypeOK
  <2>3. Absent(r)'
    BY <2>1, <2>2 DEF RunInv, Absent, RecoverModelCalls
  <2>4. Holding(r)' /\ Counts(r)'
    BY <2>1, <1>4 DEF RunInv, Holding, Counts, RecoverModelCalls
  <2>5. Calls(r)'
    BY <2>1 DEF RunInv, Calls, Before, CallIndex, IdempotencyKey, RecoverModelCalls
  <2> QED
    BY <2>3, <2>4, <2>5 DEF RunInv
<1> QED
  BY <1>2, <1>5, <1>6 DEF LoopInv

\* Neither the rows of the runs nor their tasks are touched.
LEMMA AroundInvariant ==
  ASSUME LoopInv,
         \/ \E k \in CallKey : RecoverTool(k)
         \/ \E r \in Run : ElapseRun(r) \/ ElapseCall(r)
         \/ BeginShutdown
         \/ UNCHANGED vars
  PROVE LoopInv'
<1> USE DEF choice, memory, toolCalls, vars
<1>1. TypeOK
  BY DEF LoopInv
<1>2. /\ UNCHANGED <<row, model, made, effects, audit, pc, mine, wanted, seen, plan, offered, asked,
                     summary, ending>>
  BY DEF RecoverTool, ElapseRun, ElapseCall, BeginShutdown, Tool!Close
<1>3. /\ phase' \in [CallKey -> {"free", "open", "closed"}]
      /\ outcome' \in [CallKey -> Tool!Outcome \cup {"none"}]
  <2>1. "failed" \in Tool!Outcome
    BY DEF Tool!Outcome
  <2>2. CASE \E k \in CallKey : RecoverTool(k)
    BY <1>1, <2>1, <2>2 DEF TypeOK, RecoverTool, Tool!Close
  <2>3. CASE UNCHANGED <<phase, outcome>>
    BY <1>1, <2>3 DEF TypeOK
  <2> QED
    BY <2>2, <2>3 DEF ElapseRun, ElapseCall, BeginShutdown
<1>4. agedRuns' \subseteq Run /\ agedCalls' \subseteq Run /\ accepting' \in BOOLEAN
  BY <1>1 DEF TypeOK, RecoverTool, ElapseRun, ElapseCall, BeginShutdown
<1>5. TypeOK'
  BY <1>1, <1>2, <1>3, <1>4 DEF TypeOK
<1>6. EffectsBacked'
  BY <1>2, EffectsKept
<1>7. \A r \in Run : RunInv(r)'
  BY <1>2 DEF LoopInv, RunInv, Absent, Holding, Counts, Calls, Before, CallIndex, IdempotencyKey
<1> QED
  BY <1>5, <1>6, <1>7 DEF LoopInv

-----------------------------------------------------------------------------
(* The invariant and what follows from it                                  *)

LEMMA LoopInit == Init => LoopInv
<1> SUFFICES ASSUME Init PROVE LoopInv
  OBVIOUS
<1>1. TypeOK
  <2>1. <<>> \in Seq(ModelRow) /\ <<>> \in Seq(CallKey) /\ <<>> \in Seq(RunEvent)
        /\ <<>> \in Seq(Askable) /\ <<>> \in Seq(Summary)
    OBVIOUS
  <2> QED
    BY <2>1 DEF Init, TypeOK, Location, Tool!Init
<1>2. EffectsBacked
  BY DEF Init, Tool!Init, EffectsBacked
<1>3. ASSUME NEW r \in Run PROVE RunInv(r)
  <2>1. /\ pc[r] = "idle" /\ row[r] = Nothing /\ model[r] = <<>> /\ made[r] = <<>> /\ summary[r] = <<>>
        /\ audit[r] = <<>> /\ ending[r] = Nothing /\ seen[r] = Nothing /\ wanted[r] = Nothing
    BY DEF Init
  <2> QED
    BY <2>1, LimitAssumption DEF RunInv, Absent, Holding, Counts, Calls, Early, Asking, Serving, InTurn, Driving
<1> QED
  BY <1>1, <1>2, <1>3 DEF LoopInv

LEMMA LoopStep == LoopInv /\ [Next]_vars => LoopInv'
<1> SUFFICES ASSUME LoopInv, [Next]_vars PROVE LoopInv'
  OBVIOUS
<1>1. ASSUME NEW r \in Run, Begin(r) PROVE LoopInv'
  BY <1>1, BeginInvariant, LeaveInvariant, MoveInvariant DEF Begin
<1>2. ASSUME NEW r \in Run, AskProvider(r) PROVE LoopInv'
  BY <1>2, ProviderInvariant, SettleInvariant DEF AskProvider
<1>3. ASSUME NEW r \in Run, Respond(r) PROVE LoopInv'
  BY <1>3, TurnInvariant, MoveInvariant DEF Respond
<1>4. ASSUME NEW r \in Run, Dispatch(r) PROVE LoopInv'
  BY <1>4, RefusalInvariant, MoveInvariant, EnterInvariant, PerformInvariant, TurnInvariant DEF Dispatch
<1>5. ASSUME NEW r \in Run, Save(r) PROVE LoopInv'
  BY <1>5, SaveInvariant, MoveInvariant DEF Save
<1>6. ASSUME NEW r \in Run, Interrupt(r) PROVE LoopInv'
  BY <1>6, LeaveInvariant, ProviderInvariant, MoveInvariant DEF Interrupt
<1>7. ASSUME NEW r \in Run, RefuseRun(r) \/ \E request \in StartRequest : CreateRun(r, request)
      PROVE LoopInv'
  BY <1>7, MoveInvariant, BeginInvariant
<1>8. CASE RecoverSome
  BY <1>8, RecoverRunsInvariant, RecoverModelCallsInvariant DEF RecoverSome
<1> QED
  BY <1>1, <1>2, <1>3, <1>4, <1>5, <1>6, <1>7, <1>8, AroundInvariant DEF Next, Proceed

\* The inductive invariant of the agent loop, whatever recovery does to its rows.
THEOREM LoopInvariance == Spec => []LoopInv
<1>1. Init => LoopInv
  BY LoopInit
<1>2. LoopInv /\ [Next]_vars => LoopInv'
  BY LoopStep
<1> QED
  BY <1>1, <1>2, PTL DEF Spec

\* Every variable of the loop has its type: in particular no counter of a row exceeds its limit.
THEOREM LoopTypes == Spec => []TypeOK
<1>1. LoopInv => TypeOK
  BY DEF LoopInv
<1> QED
  BY <1>1, LoopInvariance, PTL

\* No two requests of a run are answered with one call (deterministic_agent_idempotency_key).
THEOREM RequestsHaveTheirOwnCalls == Spec => []OwnCallPerRequest
<1>1. LoopInv => OwnCallPerRequest
  BY DEF LoopInv, RunInv, Calls, OwnCallPerRequest
<1> QED
  BY <1>1, LoopInvariance, PTL

\* A set that is the image of 1..n has no more than n elements.
LEMMA ImageBound ==
  ASSUME NEW n \in Nat, NEW f, NEW S, \A x \in S : \E i \in 1 .. n : f[i] = x
  PROVE IsFiniteSet(S) /\ Cardinality(S) <= n
<1>1. IsFiniteSet(1 .. n) /\ Cardinality(1 .. n) = n
  BY FS_Interval
<1>2. IsFiniteSet({f[i] : i \in 1 .. n}) /\ Cardinality({f[i] : i \in 1 .. n}) <= n
  <2> DEFINE g == [i \in 1 .. n |-> f[i]]
             T == {f[i] : i \in 1 .. n}
  <2>1. g \in Surjection(1 .. n, T)
    BY DEF Surjection
  <2> QED
    BY <1>1, <2>1, FS_Surjection
<1>3. S \subseteq {f[i] : i \in 1 .. n}
  OBVIOUS
<1> QED
  BY <1>2, <1>3, FS_Subset, FS_CardinalityType

\* The limits of a run bound what reaches the adapters and the provider, wherever its loop is cut
\* short and whatever recovery does (AgentRunService._run_loop).
THEOREM BudgetsAreKept == Spec => []BudgetsHold
<1>1. LoopInv => BudgetsHold
  <2>1. SUFFICES ASSUME LoopInv, NEW r \in Run
                 PROVE /\ Cardinality(EffectsOf(r)) <= MaxToolCalls
                       /\ Len(model[r]) <= MaxTurns
                       /\ \A t \in 1 .. MaxTurns :
                            Cardinality({k \in EffectsOf(r) : k[2] = t}) <= MaxToolsPerTurn
    BY DEF BudgetsHold
  <2>2. TypeOK /\ RunInv(r)
    BY <2>1 DEF LoopInv
  <2>3. Cardinality(EffectsOf(r)) <= MaxToolCalls
    <3>1. \A k \in EffectsOf(r) : \E i \in 1 .. Len(made[r]) : made[r][i] = k
      BY <2>1 DEF LoopInv, EffectsBacked, EffectsOf
    <3>2. Len(made[r]) \in Nat /\ Len(made[r]) <= MaxToolCalls /\ MaxToolCalls \in Nat
      BY <2>2, Numbers DEF RunInv, Calls
    <3>3. IsFiniteSet(EffectsOf(r)) /\ Cardinality(EffectsOf(r)) <= Len(made[r])
      BY <3>1, <3>2, ImageBound
    <3> QED
      BY <3>2, <3>3, FS_CardinalityType
  <2>4. ASSUME NEW t \in 1 .. MaxTurns
        PROVE Cardinality({k \in EffectsOf(r) : k[2] = t}) <= MaxToolsPerTurn
    <3> DEFINE f == [i \in 1 .. MaxToolsPerTurn |-> <<r, t, i>>]
    <3>1. \A k \in {k \in EffectsOf(r) : k[2] = t} : \E i \in 1 .. MaxToolsPerTurn : f[i] = k
      BY DEF EffectsOf, CallKey
    <3>2. MaxToolsPerTurn \in Nat
      BY LimitAssumption
    <3> HIDE DEF f
    <3> QED
      BY <3>1, <3>2, ImageBound
  <2> QED
    BY <2>2, <2>3, <2>4 DEF RunInv, Counts
<1> QED
  BY <1>1, LoopInvariance, PTL

-----------------------------------------------------------------------------
(* Recovery that overtakes a live run                                      *)

\* What a task holds is a run that goes on, and its row is one that goes on or one that recovery has
\* ended.  A copy that was loaded before that does not know of it.
Overtaken(r) ==
  /\ row[r] # Nothing /\ ~HasEnded(r) => row[r].error = "none"
  /\ pc[r] = "created" => row[r] = New /\ mine[r] = New
  /\ pc[r] \in Driving \ {"created"} => mine[r].status = "running" /\ mine[r].error = "none"
  /\ pc[r] \in (Driving \ {"created"}) \cup {"finishing"} =>
       HasStatus(r, "running") \/ (HasEnded(r) /\ row[r].error = "agent_run_interrupted")
  /\ pc[r] = "finishing" => mine[r].status \in Terminal
  /\ pc[r] \in {"persist", "finishing"} /\ seen[r] # Nothing =>
       seen[r] = row[r] \/ (seen[r].status = "running" /\ seen[r].error = "none")

OvertakenInv == LoopInv /\ \A r \in Run : Overtaken(r)

\* The row and the run in the task's hands stay, and nothing is loaded on the way to the next step.
Quiet(r) ==
  /\ row'[r] = row[r] /\ mine'[r] = mine[r]
  /\ \/ pc'[r] \notin Driving \cup {"finishing"}
     \/ pc'[r] = pc[r] /\ pc[r] \notin {"persist", "finishing"}
     \/ pc[r] \in Driving \ {"created"} /\ pc'[r] \in Driving \ {"created", "persist"}

\* A step that writes neither the row nor the run of the task.
LEMMA QuietStep ==
  ASSUME NEW r \in Run, Overtaken(r), Quiet(r)
  PROVE  Overtaken(r)'
BY DEF Overtaken, Quiet, HasEnded, HasStatus, Driving, Early, InTurn, Asking, Serving

\* Another run's step.
LEMMA Bystander ==
  ASSUME NEW r \in Run, NEW q \in Run \ {r}, Overtaken(q), Touches(r)
  PROVE  Overtaken(q)'
BY DEF Overtaken, Touches, HasEnded, HasStatus

\* The steps of a task that write neither its row nor the run in its hands.
LEMMA TaskIsQuiet ==
  ASSUME LoopInv, NEW r \in Run,
         \/ RefuseRun(r) \/ BeginTurn(r) \/ StopForShutdown(r) \/ RunOutOfTurns(r) \/ CreateModelCall(r)
         \/ \E registry \in Registry : OfferTools(r, registry) \/ RefuseTools(r, registry)
         \/ AskProvider(r) \/ Interrupt(r) \/ Return(r)
         \/ RefuseRequests(r) \/ AcceptRequests(r) \/ RejectUnknownTool(r) \/ RequestTool(r)
         \/ RefuseTool(r) \/ EnterTool(r) \/ PerformTool(r)
         \/ \E o \in Tool!Outcome : SettleTool(r, o)
         \/ DropTool(r)
  PROVE  Quiet(r) /\ Touches(r)
<1> USE DEF memory, choice, Goto
<1>1. TypeOK
  BY DEF LoopInv
<1> DEFINE Passes ==
      \/ pc' = pc /\ pc[r] \notin {"persist", "finishing"}
      \/ \E place \in Location \ {"created", "persist", "finishing"} :
           /\ pc' = [pc EXCEPT ![r] = place]
           /\ place \in Driving => pc[r] \in Driving \ {"created"}
<1>2. CASE \/ RefuseRun(r) \/ BeginTurn(r) \/ StopForShutdown(r) \/ RunOutOfTurns(r) \/ CreateModelCall(r)
           \/ RefuseRequests(r) \/ AcceptRequests(r)
  <2>1. Passes
    BY <1>2 DEF RefuseRun, BeginTurn, StopForShutdown, RunOutOfTurns, CreateModelCall, RefuseRequests,
       AcceptRequests, Location, Driving, Early, InTurn, Asking, Serving
  <2>2. UNCHANGED <<row, mine>> /\ Touches(r)
    BY <1>1, <1>2 DEF RefuseRun, BeginTurn, StopForShutdown, RunOutOfTurns, CreateModelCall,
       RefuseRequests, AcceptRequests, EndWith, TypeOK, Touches
  <2> QED
    BY <1>1, <2>1, <2>2 DEF Quiet, TypeOK
<1>3. CASE \/ \E registry \in Registry : OfferTools(r, registry) \/ RefuseTools(r, registry)
           \/ Interrupt(r) \/ Return(r)
  <2>1. Passes
    <3>1. CASE \E registry \in Registry : OfferTools(r, registry) \/ RefuseTools(r, registry)
      BY <3>1 DEF OfferTools, RefuseTools, LeaveLoop, Location, Driving, Early, InTurn, Asking, Serving
    <3>2. CASE TimeOut(r) \/ ExceedMessageLimit(r) \/ FailUnexpectedly(r)
      BY <3>2 DEF TimeOut, ExceedMessageLimit, FailUnexpectedly, LeaveLoop, Location, Driving, Early,
         InTurn, Asking, Serving
    <3>3. CASE CancelInProvider(r, "shutdown") \/ Crash(r) \/ Return(r)
      BY <3>3 DEF CancelInProvider, Crash, Return, Location, Driving, Early, InTurn, Asking, Serving
    <3> QED
      BY <1>3, <3>1, <3>2, <3>3 DEF Interrupt
  <2>2. UNCHANGED <<row, mine>> /\ Touches(r)
    BY <1>1, <1>3 DEF OfferTools, RefuseTools, Interrupt, TimeOut, ExceedMessageLimit, FailUnexpectedly,
       CancelInProvider, LeaveLoop, Crash, Return, EndWith, TypeOK, Touches
  <2> QED
    BY <1>1, <2>1, <2>2 DEF Quiet, TypeOK
<1>4. CASE AskProvider(r)
  <2>1. Passes
    <3>1. CASE \E response \in Responses(r) : pc[r] = "model" /\ ProviderResponds(r, response)
      BY <3>1 DEF ProviderResponds, Location, Driving, Early, InTurn, Asking, Serving
    <3>2. CASE \E st \in {"failed", "timed_out"} : ProviderFails(r, st)
      BY <3>2 DEF ProviderFails, Location, Driving, Early, InTurn, Asking, Serving
    <3>3. CASE CancelInProvider(r, "handler") \/ LoadModelCall(r) \/ SettleModelCall(r)
      BY <3>3 DEF CancelInProvider, LoadModelCall, SettleModelCall, Location, Driving, Early, InTurn,
         Asking, Serving
    <3> QED
      BY <1>4, <3>1, <3>2, <3>3 DEF AskProvider
  <2>2. UNCHANGED <<row, mine>>
    BY <1>4 DEF AskProvider, ProviderResponds, ProviderFails, CancelInProvider, LoadModelCall, SettleModelCall
  <2>3. Touches(r)
    <3>1. CASE SettleModelCall(r)
      BY <1>1, <3>1 DEF SettleModelCall, TypeOK, Touches
    <3>2. CASE ~SettleModelCall(r)
      BY <1>1, <1>4, <3>2 DEF AskProvider, ProviderResponds, ProviderFails, CancelInProvider, LoadModelCall,
         EndWith, TypeOK, Touches
    <3> QED
      BY <3>1, <3>2
  <2> QED
    BY <1>1, <2>1, <2>2, <2>3 DEF Quiet, TypeOK
<1>5. CASE \/ RejectUnknownTool(r) \/ RequestTool(r) \/ RefuseTool(r) \/ EnterTool(r) \/ PerformTool(r)
           \/ \E o \in Tool!Outcome : SettleTool(r, o)
           \/ DropTool(r)
  <2>1. Passes
    BY <1>5 DEF RejectUnknownTool, RequestTool, RefuseTool, EnterTool, PerformTool, SettleTool, DropTool,
       Location, Driving, Early, InTurn, Asking, Serving
  <2>2. UNCHANGED <<row, mine>> /\ Touches(r)
    BY <1>1, <1>5 DEF RejectUnknownTool, RequestTool, RefuseTool, EnterTool, PerformTool, SettleTool,
       DropTool, TypeOK, Touches
  <2> QED
    BY <1>1, <2>1, <2>2 DEF Quiet, TypeOK
<1> QED
  BY <1>2, <1>3, <1>4, <1>5

\* The steps that make the row, start it, and add up a turn.
LEMMA OvertakenBegin ==
  ASSUME OvertakenInv, NEW r \in Run,
         \/ \E request \in StartRequest : CreateRun(r, request)
         \/ StartRun(r) \/ EndTurn(r) \/ Answer(r)
  PROVE  Overtaken(r)' /\ Touches(r)
<1> USE DEF memory, choice, Goto
<1>1. TypeOK /\ RunInv(r) /\ Overtaken(r)
  BY DEF OvertakenInv, LoopInv
<1>2. Touches(r)
  BY <1>1 DEF CreateRun, StartRun, EndTurn, Answer, EndWith, TypeOK, Touches
<1>3. New.status = "created" /\ New.error = "none" /\ New # Nothing
  BY NothingAssumption, LimitAssumption DEF New, RunRow, RunStatus, RunError
<1>4. CASE \E request \in StartRequest : CreateRun(r, request)
  <2>1. row'[r] = New /\ mine'[r] = New /\ pc'[r] = "created"
    BY <1>1, <1>4 DEF CreateRun, TypeOK
  <2> QED
    BY <1>2, <1>3, <2>1 DEF Overtaken, HasEnded, HasStatus, Terminal
<1>5. CASE StartRun(r)
  <2>1. Begun(New).status = "running" /\ Begun(New).error = "none"
    BY DEF Begun, New
  <2>2. row'[r] = Begun(New) /\ mine'[r] = Begun(New) /\ pc'[r] = "offer"
    BY <1>1, <1>5 DEF StartRun, TypeOK, Overtaken
  <2>3. Begun(New) # Nothing
    BY NothingAssumption, LimitAssumption DEF Begun, New, RunRow, RunStatus, RunError
  <2> QED
    BY <1>2, <2>1, <2>2, <2>3 DEF Overtaken, HasEnded, HasStatus, Terminal
<1>6. CASE EndTurn(r) \/ Answer(r)
  <2>1. /\ pc[r] \in {"dispatch", "responded"} /\ pc'[r] = "persist"
        /\ row'[r] = row[r] /\ seen'[r] = seen[r] /\ mine'[r] = Progress(r)
    BY <1>1, <1>6 DEF EndTurn, Answer, TypeOK
  <2>2. seen[r] = Nothing /\ mine[r] \in RunRow
    BY <1>1, <2>1 DEF TypeOK, RunInv, Holding
  <2>3. Progress(r).status = mine[r].status /\ Progress(r).error = mine[r].error
    BY <2>2 DEF Progress, RunRow
  <2> QED
    BY <1>1, <1>2, <2>1, <2>2, <2>3 DEF Overtaken, HasEnded, HasStatus, Driving, Early, InTurn, Asking, Serving
<1> QED
  BY <1>2, <1>4, <1>5, <1>6

\* The update of a row: it is written as running or as ended, or it stays as recovery has left it.
LEMMA OvertakenSave ==
  ASSUME OvertakenInv, NEW r \in Run,
         LoadRun(r) \/ PersistRun(r) \/ ReadForFinish(r) \/ FinishRun(r)
  PROVE  Overtaken(r)' /\ Touches(r)
<1> USE DEF memory, choice, Goto, SaveRun
<1>1. TypeOK /\ RunInv(r) /\ Overtaken(r)
  BY DEF OvertakenInv, LoopInv
<1>2. Touches(r)
  BY <1>1 DEF LoadRun, PersistRun, ReadForFinish, FinishRun, TypeOK, Touches
<1>3. row[r] \in RunRow
  BY <1>1 DEF TypeOK, RunInv, Absent, LoadRun, PersistRun, ReadForFinish, FinishRun
<1>4. CASE LoadRun(r)
  <2>1. /\ pc'[r] = pc[r] /\ pc[r] \in {"persist", "finishing"}
        /\ row'[r] = row[r] /\ mine'[r] = mine[r] /\ seen'[r] = row[r]
    BY <1>1, <1>4 DEF LoadRun, TypeOK
  <2> QED
    BY <1>1, <1>2, <2>1 DEF Overtaken, HasEnded, HasStatus
<1>5. CASE ReadForFinish(r)
  <2>1. /\ pc[r] = "finish" /\ row'[r] = row[r] /\ seen'[r] = Nothing
        /\ \/ pc'[r] = "finishing" /\ HasStatus(r, "running") /\ mine'[r] = Finished(row[r], ending[r])
           \/ pc'[r] \in {"returning", "answered"}
    BY <1>1, <1>5 DEF ReadForFinish, AfterFinish, TypeOK, RunInv, Holding
  <2>2. ending[r] \in Ending
    BY <1>1, <2>1 DEF TypeOK, RunInv, Holding
  <2>3. Finished(row[r], ending[r]).status \in Terminal
    BY <1>3, <2>2 DEF Finished, RunRow, Ending
  <2> QED
    BY <1>1, <1>2, <2>1, <2>3 DEF Overtaken, HasEnded, HasStatus, Driving, Early, InTurn, Asking, Serving
<1>6. CASE PersistRun(r) \/ FinishRun(r)
  <2>1. /\ pc[r] \in {"persist", "finishing"} /\ seen[r] # Nothing
        /\ row'[r] = Flush(row[r], seen[r], mine[r]) /\ mine'[r] = mine[r] /\ seen'[r] = Nothing
        /\ pc[r] = "persist" => pc'[r] \in {"turn", "finish"}
        /\ pc[r] = "finishing" => pc'[r] \in {"returning", "answered"}
    BY <1>1, <1>6 DEF PersistRun, FinishRun, AfterFinish, TypeOK
  <2>2. /\ row'[r].status = IF mine[r].status # seen[r].status THEN mine[r].status ELSE row[r].status
        /\ row'[r].error = IF mine[r].error # seen[r].error THEN mine[r].error ELSE row[r].error
    BY <1>3, <2>1 DEF Flush, RunRow
  <2>3. HasStatus(r, "running") \/ (HasEnded(r) /\ row[r].error = "agent_run_interrupted")
    BY <1>1, <2>1 DEF Overtaken, Driving
  <2>4. row'[r] \in RunRow
    <3>1. seen[r] \in RunRow /\ mine[r] \in RunRow
      BY <1>1, <2>1 DEF TypeOK, RunInv, Holding
    <3> QED
      BY <1>3, <2>1, <3>1, Flushed
  <2>5. row'[r] # Nothing
    BY <2>4, NothingAssumption
  <2>6. CASE pc[r] = "persist"
    <3>1. mine[r].status = "running" /\ mine[r].error = "none"
      BY <1>1, <2>6 DEF Overtaken, Driving
    <3>2. row[r].status = "running" => row[r].error = "none"
      BY <1>1, <2>3 DEF Overtaken, HasEnded, HasStatus, Terminal
    <3>3. \/ row'[r].status = "running" /\ row'[r].error = "none"
          \/ row'[r].status \in Terminal /\ row'[r].error = "agent_run_interrupted"
      BY <1>1, <2>1, <2>2, <2>3, <3>1, <3>2 DEF Overtaken, HasEnded, HasStatus, Terminal
    <3> QED
      BY <1>2, <2>1, <2>5, <2>6, <3>1, <3>3 DEF Overtaken, HasEnded, HasStatus, Terminal
  <2>7. CASE pc[r] = "finishing"
    <3>1. mine[r].status \in Terminal
      BY <1>1, <2>7 DEF Overtaken
    <3>2. row'[r].status \in Terminal
      BY <1>1, <2>1, <2>2, <2>3, <3>1 DEF Overtaken, HasEnded, HasStatus, Terminal
    <3> QED
      BY <1>2, <2>1, <2>5, <2>7, <3>2 DEF Overtaken, HasEnded, HasStatus, Driving, Early, InTurn, Asking,
         Serving
  <2> QED
    BY <2>1, <2>6, <2>7
<1> QED
  BY <1>4, <1>5, <1>6

\* Recovery ends what is running, and says so.
LEMMA OvertakenRecovery ==
  ASSUME OvertakenInv, NEW batch \in SUBSET ClaimableRuns, RecoverRuns(batch), NEW r \in Run
  PROVE  Overtaken(r)'
<1> USE DEF memory, choice
<1>1. TypeOK /\ RunInv(r) /\ Overtaken(r)
  BY DEF OvertakenInv, LoopInv
<1>2. UNCHANGED <<pc, mine, seen>>
  BY DEF RecoverRuns
<1>3. CASE r \notin batch
  BY <1>1, <1>2, <1>3 DEF RecoverRuns, Overtaken, HasEnded, HasStatus
<1>4. CASE r \in batch
  <2>1. HasStatus(r, "running") /\ row[r] \in RunRow
    BY <1>1, <1>4 DEF ClaimableRuns, HasStatus, TypeOK
  <2>2. row'[r].status = "failed" /\ row'[r].error = "agent_run_interrupted" /\ row'[r] # Nothing
    <3>1. row'[r] = Recovered(row[r])
      BY <1>4 DEF RecoverRuns, Recovered
    <3> QED
      BY <2>1, <3>1, RecoveredRow, NothingAssumption
  <2>3. row[r].error = "none"
    BY <1>1, <2>1 DEF Overtaken, HasEnded, HasStatus, Terminal
  <2>4. pc[r] # "created"
    <3>1. New.status = "created"
      BY DEF New
    <3> QED
      BY <1>1, <2>1, <3>1 DEF Overtaken, HasStatus
  <2> QED
    BY <1>1, <1>2, <2>1, <2>2, <2>3, <2>4 DEF Overtaken, HasEnded, HasStatus, Terminal
<1> QED
  BY <1>3, <1>4

\* Each step of the loop, of recovery, and of the other runs.
LEMMA OvertakenStep == OvertakenInv /\ [Next]_vars => OvertakenInv'
<1> SUFFICES ASSUME OvertakenInv, [Next]_vars PROVE OvertakenInv'
  OBVIOUS
<1>1. LoopInv'
  BY LoopStep DEF OvertakenInv
<1>2. ASSUME NEW r \in Run, Overtaken(r)' /\ Touches(r) PROVE \A q \in Run : Overtaken(q)'
  BY <1>2, Bystander DEF OvertakenInv
<1>3. ASSUME NEW r \in Run, RefuseRun(r) \/ Proceed(r) \/ Interrupt(r) PROVE \A q \in Run : Overtaken(q)'
  <2>1. CASE StartRun(r) \/ EndTurn(r) \/ Answer(r)
    BY <1>2, <2>1, OvertakenBegin
  <2>2. CASE LoadRun(r) \/ PersistRun(r) \/ ReadForFinish(r) \/ FinishRun(r)
    BY <1>2, <2>2, OvertakenSave
  <2>3. CASE ~(StartRun(r) \/ EndTurn(r) \/ Answer(r))
             /\ ~(LoadRun(r) \/ PersistRun(r) \/ ReadForFinish(r) \/ FinishRun(r))
    <3>1. Quiet(r) /\ Touches(r)
      BY <1>3, <2>3, TaskIsQuiet DEF OvertakenInv, Proceed, Begin, Respond, Dispatch, Save
    <3> QED
      BY <1>2, <3>1, QuietStep DEF OvertakenInv
  <2> QED
    BY <2>1, <2>2, <2>3
<1>4. ASSUME NEW r \in Run, NEW request \in StartRequest, CreateRun(r, request)
      PROVE \A q \in Run : Overtaken(q)'
  BY <1>2, <1>4, OvertakenBegin
<1>5. ASSUME NEW batch \in SUBSET ClaimableRuns, RecoverRuns(batch) PROVE \A q \in Run : Overtaken(q)'
  BY <1>5, OvertakenRecovery
<1>6. ASSUME \/ \E r \in Run : ElapseRun(r) \/ ElapseCall(r)
             \/ \E k \in CallKey : RecoverTool(k)
             \/ \E batch \in SUBSET ClaimableCalls : RecoverModelCalls(batch)
             \/ BeginShutdown
             \/ UNCHANGED vars
      PROVE \A q \in Run : Overtaken(q)'
  <2>1. UNCHANGED <<row, pc, mine, seen>>
    BY <1>6 DEF ElapseRun, ElapseCall, RecoverTool, RecoverModelCalls, BeginShutdown, vars, memory, choice
  <2> QED
    BY <2>1 DEF OvertakenInv, Overtaken, HasEnded, HasStatus
<1>7. \A q \in Run : Overtaken(q)'
  BY <1>3, <1>4, <1>5, <1>6 DEF Next, RecoverSome
<1> QED
  BY <1>1, <1>7 DEF OvertakenInv

\* The inductive invariant of a loop that recovery may overtake.
LEMMA OvertakenInvariance == Spec => []OvertakenInv
<1>1. Init => OvertakenInv
  BY LoopInit DEF Init, OvertakenInv, Overtaken, Driving, Early, InTurn, Asking, Serving
<1> QED
  BY <1>1, OvertakenStep, PTL DEF Spec

\* An ended run that is written again is one that recovery has ended, and who writes it is the task
\* that recovery overtook, in the update of a turn or of the end.
OnlyRecoveredRunsChange ==
  [][\A r \in Run : HasEnded(r) /\ row'[r] # row[r] =>
       row[r].error = "agent_run_interrupted" /\ pc[r] \in {"persist", "finishing"}]_vars

\* Whatever the recovery cutoff is, the end that the loop or its handler has stored is final
\* (_finish_run); a run that recovery has ended is written by a late update only.
THEOREM EndsOfRunsAreFinal == Spec => OnlyRecoveredRunsChange
<1>1. ASSUME OvertakenInv, [Next]_vars, NEW r \in Run, HasEnded(r), row'[r] # row[r]
      PROVE row[r].error = "agent_run_interrupted" /\ pc[r] \in {"persist", "finishing"}
  <2>1. TypeOK /\ RunInv(r) /\ Overtaken(r) /\ row[r] # Nothing /\ row[r].status \in Terminal
    BY <1>1 DEF OvertakenInv, LoopInv, HasEnded
  <2>2. pc[r] \notin {"idle", "created"}
    <3>1. New.status \notin Terminal
      BY DEF New, Terminal
    <3> QED
      BY <2>1, <3>1 DEF RunInv, Absent, Overtaken
  <2>3. ASSUME NEW q \in Run, RefuseRun(q) \/ Proceed(q) \/ Interrupt(q)
        PROVE PersistRun(r) \/ FinishRun(r)
    <3>1. ~Quiet(r) \/ q # r
      BY <1>1 DEF Quiet
    <3>2. q = r
      <4>1. CASE StartRun(q) \/ EndTurn(q) \/ Answer(q)
        BY <1>1, <4>1, OvertakenBegin DEF Touches
      <4>2. CASE LoadRun(q) \/ PersistRun(q) \/ ReadForFinish(q) \/ FinishRun(q)
        BY <1>1, <4>2, OvertakenSave DEF Touches
      <4>3. CASE ~(StartRun(q) \/ EndTurn(q) \/ Answer(q))
                 /\ ~(LoadRun(q) \/ PersistRun(q) \/ ReadForFinish(q) \/ FinishRun(q))
        BY <1>1, <2>3, <4>3, TaskIsQuiet
        DEF OvertakenInv, Touches, Proceed, Begin, Respond, Dispatch, Save
      <4> QED
        BY <4>1, <4>2, <4>3
    <3>3. StartRun(q) \/ EndTurn(q) \/ Answer(q) \/ LoadRun(q) \/ PersistRun(q) \/ ReadForFinish(q)
          \/ FinishRun(q)
      BY <1>1, <2>3, <3>1, <3>2, TaskIsQuiet DEF OvertakenInv, Proceed, Begin, Respond, Dispatch, Save
    <3> QED
      BY <1>1, <2>2, <3>2, <3>3 DEF StartRun, EndTurn, Answer, LoadRun, ReadForFinish
  <2>4. ~\E q \in Run, request \in StartRequest : CreateRun(q, request)
    BY <1>1, <2>1, <2>2 DEF CreateRun, TypeOK
  <2>5. ~\E batch \in SUBSET ClaimableRuns : RecoverRuns(batch)
    <3>1. ASSUME NEW batch \in SUBSET ClaimableRuns, RecoverRuns(batch) PROVE r \in batch
      BY <1>1, <2>1, <3>1 DEF RecoverRuns, TypeOK
    <3>2. r \notin ClaimableRuns
      BY <2>1 DEF ClaimableRuns, HasStatus, Terminal
    <3> QED
      BY <3>1, <3>2
  <2>6. PersistRun(r) \/ FinishRun(r)
    BY <1>1, <2>3, <2>4, <2>5 DEF Next, RecoverSome, RecoverModelCalls, RecoverTool, ElapseRun, ElapseCall,
       BeginShutdown, vars, memory
  <2>7. pc[r] \in {"persist", "finishing"}
    BY <2>6 DEF PersistRun, FinishRun
  <2> QED
    BY <2>1, <2>7 DEF Overtaken, Driving, HasStatus, Terminal
<1>2. OvertakenInv /\ [Next]_vars =>
        [\A r \in Run : HasEnded(r) /\ row'[r] # row[r] =>
           row[r].error = "agent_run_interrupted" /\ pc[r] \in {"persist", "finishing"}]_vars
  BY <1>1
<1> QED
  BY <1>2, OvertakenInvariance, PTL DEF Spec, OnlyRecoveredRunsChange

-----------------------------------------------------------------------------
(* The loop as a user of the contract                                      *)

\* To the tool calls the loop does nothing but what ToolCallContract allows: it claims keys, and what
\* it performs and closes is open.
THEOREM LoopKeepsContract == Spec => Tool!Spec
<1> USE DEF toolCalls, Tool!contractVars
<1>1. Init => Tool!Init
  BY DEF Init
<1>2. ASSUME LoopInv, [Next]_vars PROVE [Tool!Next]_(Tool!contractVars)
  <2>1. ASSUME NEW k \in CallKey, RecoverTool(k) PROVE Tool!Next
    BY <2>1 DEF RecoverTool, Tool!Next, Tool!Outcome
  <2>2. ASSUME NEW r \in Run, EnterTool(r) \/ PerformTool(r) \/ \E o \in Tool!Outcome : SettleTool(r, o)
        PROVE Tool!Next \/ UNCHANGED toolCalls
    <3>1. IdempotencyKey(r) \in CallKey
      <4>1. pc[r] \in {"tool", "working"}
        BY <2>2 DEF EnterTool, PerformTool, SettleTool
      <4>2. Len(summary[r]) < mine[r].calls + Len(asked[r])
        BY <1>2, <4>1 DEF LoopInv, RunInv, Counts
      <4> QED
        BY <1>2, <4>1, <4>2, KeyInRange DEF Serving
    <3>2. CASE EnterTool(r) \/ PerformTool(r)
      BY <3>1, <3>2 DEF EnterTool, PerformTool, Tool!Next
    <3>3. ASSUME NEW o \in Tool!Outcome, SettleTool(r, o) PROVE Tool!Next
      <4>1. Tool!Close({IdempotencyKey(r)}, o)
        BY <3>3 DEF SettleTool
      <4> QED
        BY <3>1, <4>1 DEF Tool!Next
    <3> QED
      BY <2>2, <3>2, <3>3
  <2>3. ASSUME NEW r \in Run, RefuseRun(r) \/ Proceed(r) \/ Interrupt(r),
               ~(EnterTool(r) \/ PerformTool(r) \/ \E o \in Tool!Outcome : SettleTool(r, o))
        PROVE UNCHANGED toolCalls
    BY <2>3 DEF RefuseRun, Proceed, Begin, StartRun, OfferTools, RefuseTools, BeginTurn, StopForShutdown,
       RunOutOfTurns, CreateModelCall, AskProvider, ProviderResponds, ProviderFails, CancelInProvider,
       LoadModelCall, SettleModelCall, Respond, Answer, RefuseRequests, AcceptRequests, Dispatch,
       RejectUnknownTool, RequestTool, RefuseTool, DropTool, EndTurn, Save, LoadRun, PersistRun,
       ReadForFinish, FinishRun, Return, Interrupt, TimeOut, ExceedMessageLimit, FailUnexpectedly, LeaveLoop, Crash
  <2>4. CASE \/ \E r \in Run, request \in StartRequest : CreateRun(r, request)
             \/ \E r \in Run : ElapseRun(r) \/ ElapseCall(r)
             \/ RecoverSome \/ BeginShutdown \/ UNCHANGED vars
    <3>1. UNCHANGED toolCalls
      BY <2>4 DEF CreateRun, ElapseRun, ElapseCall, RecoverSome, RecoverRuns, RecoverModelCalls,
         BeginShutdown, vars
    <3> QED
      BY <3>1
  <2> QED
    BY <1>2, <2>1, <2>2, <2>3, <2>4 DEF Next
<1> QED
  BY <1>1, <1>2, LoopInvariance, PTL DEF Spec, Tool!Spec

\* What the contract comes to: a call has its effect at most once and not before it is claimed, an
\* open call has no outcome, and a closed one has an outcome that tells the truth.
ToolCallsTold ==
  \A k \in CallKey :
    /\ phase[k] \in {"free", "open", "closed"} /\ effects[k] \in {0, 1}
    /\ phase[k] = "free" => effects[k] = 0
    /\ phase[k] \in {"free", "open"} => outcome[k] = "none"
    /\ phase[k] = "closed" => outcome[k] \in Tool!Outcome /\ Tool!Truthful(outcome[k], effects[k])

\* A closed call stays as it was told.
ClosedCallsStay ==
  [][\A k \in CallKey : phase[k] = "closed" =>
       phase'[k] = "closed" /\ outcome'[k] = outcome[k] /\ effects'[k] = effects[k]]_(Tool!contractVars)

\* Whoever keeps the contract tells the truth about each call, once and for all: so do the calls of
\* agent runs, and the summaries that are made of them.
THEOREM ToolCallsAreToldTruly == Spec => []ToolCallsTold /\ ClosedCallsStay
<1> USE DEF Tool!contractVars
<1> DEFINE Tables == /\ phase \in [CallKey -> {"free", "open", "closed"}]
                     /\ effects \in [CallKey -> {0, 1}]
                     /\ outcome \in [CallKey -> Tool!Outcome \cup {"none"}]
           Told == Tables /\ ToolCallsTold
           Stay == \A k \in CallKey : phase[k] = "closed" =>
                     phase'[k] = "closed" /\ outcome'[k] = outcome[k] /\ effects'[k] = effects[k]
<1>1. Tool!Init => Told
  BY DEF Tool!Init, ToolCallsTold
<1>2. ASSUME Told, [Tool!Next]_(Tool!contractVars) PROVE Told' /\ Stay
  <2>1. ASSUME NEW k \in CallKey, Tool!Claim(k) PROVE Told' /\ Stay
    BY <1>2, <2>1 DEF Tool!Claim, ToolCallsTold
  <2>2. ASSUME NEW k \in CallKey, Tool!Perform(k) PROVE Told' /\ Stay
    BY <1>2, <2>2 DEF Tool!Perform, ToolCallsTold
  <2>3. ASSUME NEW keys \in SUBSET CallKey, NEW o \in Tool!Outcome, Tool!Close(keys, o) PROVE Told' /\ Stay
    BY <1>2, <2>3 DEF Tool!Close, ToolCallsTold
  <2>4. CASE UNCHANGED Tool!contractVars
    BY <1>2, <2>4 DEF ToolCallsTold
  <2> QED
    BY <1>2, <2>1, <2>2, <2>3, <2>4 DEF Tool!Next
<1>3. Told => ToolCallsTold
  OBVIOUS
<1>4. Told /\ [Tool!Next]_(Tool!contractVars) => [Stay]_(Tool!contractVars)
  BY <1>2
<1> HIDE DEF Told, Stay
<1>5. Tool!Spec => []Told
  BY <1>1, <1>2, PTL DEF Tool!Spec
<1>6. Tool!Spec => []ToolCallsTold /\ [][Stay]_(Tool!contractVars)
  BY <1>3, <1>4, <1>5, PTL DEF Tool!Spec
<1> QED
  BY <1>6, LoopKeepsContract DEF ClosedCallsStay, Stay

-----------------------------------------------------------------------------
(* Recovery that leaves live runs alone                                    *)

\* A step of one task: the task still runs, so recovery had nothing to do with its rows.
LEMMA CalmOneRun ==
  ASSUME CalmInv, LoopInv', NEW r \in Run, Touches(r), pc[r] \notin {"answered", "gone"},
         agedRuns' \subseteq agedRuns, agedCalls' \subseteq agedCalls, Calm(r)'
  PROVE CalmInv'
<1>1. Aged'
  BY DEF CalmInv, Aged, Touches, LoopInv, TypeOK
<1>2. ASSUME NEW q \in Run, q # r PROVE Calm(q)'
  <2>1. Calm(q)
    BY DEF CalmInv
  <2>2. Stored(q)' /\ Ended(q)'
    BY <1>2, <2>1 DEF Touches, Calm, Stored, Ended, HasStatus, HasEnded
  <2>3. Progressed(q)'
    BY <1>2, <2>1 DEF Touches, Calm, Progressed, Completing, AllCompleted, HasStatus
  <2> QED
    BY <2>2, <2>3 DEF Calm
<1> QED
  BY <1>1, <1>2 DEF CalmInv

LEMMA CalmMove ==
  ASSUME CalmInv, LoopInv', NEW r \in Run,
         \/ RefuseRun(r) \/ BeginTurn(r) \/ RequestTool(r) \/ AcceptRequests(r)
         \/ StopForShutdown(r) \/ RunOutOfTurns(r) \/ RefuseRequests(r) \/ Return(r) \/ Crash(r)
         \/ TimeOut(r) \/ ExceedMessageLimit(r) \/ FailUnexpectedly(r)
         \/ \E registry \in Registry : RefuseTools(r, registry)
  PROVE CalmInv'
<1> USE DEF Goto, EndWith, memory, choice, toolCalls
<1>1. TypeOK /\ RunInv(r) /\ Calm(r)
  BY DEF CalmInv, LoopInv
<1>2. /\ pc[r] \notin {"answered", "gone"}
      /\ UNCHANGED <<row, model, made, audit, agedRuns, agedCalls, mine, summary, asked>>
  BY DEF RefuseRun, BeginTurn, RequestTool, AcceptRequests, StopForShutdown, RunOutOfTurns, RefuseRequests,
         Return, Crash, TimeOut, ExceedMessageLimit, FailUnexpectedly, RefuseTools, LeaveLoop, InLoop, TaskLive
<1>3. Touches(r)
  BY <1>1, <1>2 DEF TypeOK, Touches, RefuseRun, BeginTurn, RequestTool, AcceptRequests, StopForShutdown,
     RunOutOfTurns, RefuseRequests, Return, Crash, TimeOut, ExceedMessageLimit, FailUnexpectedly,
     RefuseTools, LeaveLoop
<1>4. \/ pc'[r] = "calling" /\ pc[r] = "turn" /\ UNCHANGED <<ending, seen, wanted>>
      \/ pc'[r] = "tool" /\ pc[r] = "dispatch" /\ UNCHANGED <<ending, seen, wanted>>
      \/ pc'[r] = "dispatch" /\ pc[r] = "responded" /\ UNCHANGED <<ending, seen, wanted>>
      \/ pc'[r] = "finish" /\ ending'[r] # Nothing /\ ending'[r].status # "completed"
      \/ pc'[r] \in {"answered", "gone"}
  <2>1. CASE \/ RefuseRun(r) \/ BeginTurn(r) \/ RequestTool(r) \/ AcceptRequests(r) \/ Crash(r)
    BY <1>1, <2>1 DEF TypeOK, RefuseRun, BeginTurn, RequestTool, AcceptRequests, Crash
  <2>2. CASE StopForShutdown(r) \/ RunOutOfTurns(r) \/ RefuseRequests(r)
    <3>1. PICK e \in Ending : e.status # "completed" /\ ending' = [ending EXCEPT ![r] = e]
                              /\ pc' = [pc EXCEPT ![r] = "finish"]
      BY <2>2 DEF StopForShutdown, RunOutOfTurns, RefuseRequests, Ending, Terminal, RunError
    <3> QED
      BY <1>1, <3>1, NothingAssumption DEF TypeOK
  <2>3. CASE Return(r)
    <3>1. ending[r] \in Ending
      BY <1>1, <2>3 DEF TypeOK, RunInv, Holding, Return
    <3>2. CASE ending[r].status = "completed"
      BY <1>1, <2>3, <3>2 DEF TypeOK, Return
    <3>3. CASE ending[r].status # "completed"
      <4>1. PICK e \in Ending : e.status # "completed" /\ ending' = [ending EXCEPT ![r] = e]
                                /\ pc' = [pc EXCEPT ![r] = "finish"]
        BY <2>3, <3>1, <3>3 DEF Return, Ending
      <4> QED
        BY <1>1, <4>1, NothingAssumption DEF TypeOK
    <3> QED
      BY <3>2, <3>3
  <2>4. CASE \/ TimeOut(r) \/ ExceedMessageLimit(r) \/ FailUnexpectedly(r)
             \/ \E registry \in Registry : RefuseTools(r, registry)
    <3>1. PICK e \in Ending : e.status # "completed" /\ ending' = [ending EXCEPT ![r] = e]
                              /\ pc' = [pc EXCEPT ![r] = "finish"]
      BY <2>4 DEF TimeOut, ExceedMessageLimit, FailUnexpectedly, RefuseTools, LeaveLoop, Ending, Terminal, RunError
    <3> QED
      BY <1>1, <3>1, NothingAssumption DEF TypeOK
  <2> QED
    BY <2>1, <2>2, <2>3, <2>4
<1>5. Stored(r)'
  BY <1>1, <1>2, <1>4 DEF Calm, Stored, HasStatus, HasEnded, Asking, Serving, InTurn
<1>6. Progressed(r)'
  BY <1>1, <1>2, <1>4
  DEF Calm, Progressed, Completing, AllCompleted, HasStatus, Early, Asking, Serving, InTurn
<1>7. Ended(r)'
  BY <1>1, <1>2 DEF Calm, Ended, HasStatus, HasEnded
<1> QED
  BY <1>2, <1>3, <1>5, <1>6, <1>7, CalmOneRun DEF Calm

LEMMA CalmBegin ==
  ASSUME CalmInv, LoopInv', NEW r \in Run,
         \/ \E request \in StartRequest : CreateRun(r, request)
         \/ StartRun(r)
         \/ \E registry \in Registry : OfferTools(r, registry)
         \/ CreateModelCall(r)
  PROVE CalmInv'
<1> USE DEF Goto, memory, choice, toolCalls
<1>1. TypeOK /\ RunInv(r) /\ Calm(r)
  BY DEF CalmInv, LoopInv
<1>2. Touches(r) /\ pc[r] \notin {"answered", "gone"} /\ agedRuns' \subseteq agedRuns /\ agedCalls' \subseteq agedCalls
  BY <1>1 DEF TypeOK, Touches, CreateRun, StartRun, OfferTools, CreateModelCall
<1>3. CASE \E request \in StartRequest : CreateRun(r, request)
  <2>1. /\ pc'[r] = "created" /\ row'[r] = New /\ mine'[r] = New /\ model'[r] = <<>> /\ audit'[r] = <<>>
        /\ summary'[r] = <<>> /\ ending'[r] = Nothing /\ seen'[r] = Nothing
    BY <1>1, <1>3 DEF TypeOK, RunInv, Absent, CreateRun
  <2>2. /\ New.status = "created" /\ New.turns = 0 /\ New.calls = 0
    BY DEF New
  <2>3. Stored(r)' /\ Ended(r)'
    BY <2>1, <2>2 DEF Stored, Ended, HasStatus, HasEnded, Terminal, Asking, Serving, InTurn
  <2>4. Progressed(r)'
    BY <2>1, <2>2 DEF Progressed, Completing, AllCompleted, HasStatus, Early, Asking, Serving, InTurn
  <2> QED
    BY <1>2, <2>3, <2>4, CalmOneRun DEF Calm
<1>4. CASE StartRun(r)
  <2>1. /\ pc[r] = "created" /\ pc'[r] = "offer" /\ row'[r] = Begun(New) /\ mine'[r] = Begun(New)
        /\ audit'[r] = Append(audit[r], "started") /\ seen[r] = Nothing /\ ending[r] = Nothing
        /\ UNCHANGED <<model, summary, ending, seen>>
    BY <1>1, <1>4 DEF TypeOK, RunInv, Holding, Early, Calm, Stored, StartRun
  <2>2. /\ Begun(New).status = "running" /\ Begun(New).turns = 0 /\ Begun(New).calls = 0
        /\ New.status = "created" /\ New.turns = 0 /\ New.calls = 0
    BY DEF New, Begun
  <2>3. row'[r] # Nothing /\ row[r] = New /\ row[r] # Nothing
    <3>1. New \in RunRow /\ Begun(New) \in RunRow
      BY LimitAssumption DEF New, Begun, RunRow, RunStatus, RunError
    <3> QED
      BY <1>1, <2>1, <3>1, NothingAssumption DEF Calm, Stored
  <2>4. audit[r] = <<>>
    BY <1>1, <2>2, <2>3 DEF Calm, Ended, HasStatus, HasEnded, Terminal
  <2>5. Stored(r)' /\ Ended(r)'
    BY <2>1, <2>2, <2>3, <2>4 DEF Stored, Ended, HasStatus, HasEnded, Terminal, Asking, Serving, InTurn
  <2>6. Progressed(r)'
    BY <1>1, <2>1, <2>2, <2>3
    DEF Calm, Progressed, Completing, AllCompleted, HasStatus, Early, Asking, Serving, InTurn
  <2> QED
    BY <1>2, <2>5, <2>6, CalmOneRun DEF Calm
<1>5. CASE \E registry \in Registry : OfferTools(r, registry)
  <2>1. /\ pc[r] = "offer" /\ pc'[r] = "turn"
        /\ UNCHANGED <<row, model, audit, mine, seen, wanted, summary, ending>>
    BY <1>1, <1>5 DEF TypeOK, OfferTools
  <2>2. Stored(r)' /\ Ended(r)'
    BY <1>1, <2>1 DEF Calm, Stored, Ended, HasStatus, HasEnded, Asking, Serving, InTurn
  <2>3. Progressed(r)'
    BY <1>1, <2>1 DEF Calm, Progressed, Completing, AllCompleted, HasStatus, Early, Asking, Serving, InTurn
  <2> QED
    BY <1>2, <2>2, <2>3, CalmOneRun DEF Calm
<1>6. CASE CreateModelCall(r)
  <2>1. /\ pc[r] = "calling" /\ pc'[r] = "model" /\ model'[r] = Append(model[r], Started)
        /\ ending[r] = Nothing /\ seen[r] = Nothing
        /\ UNCHANGED <<row, audit, mine, seen, wanted, summary, ending>>
    BY <1>1, <1>6 DEF TypeOK, RunInv, Holding, Early, CreateModelCall
  <2>2. /\ Len(model'[r]) = Len(model[r]) + 1 /\ Len(model[r]) \in Nat /\ Last(model'[r]) = Started
        /\ \A t \in 1 .. Len(model[r]) : model'[r][t] = model[r][t]
    <3>1. model[r] \in Seq(ModelRow) /\ Started \in ModelRow
      BY <1>1 DEF TypeOK, Started, ModelRow, ModelError
    <3>2. Last(model'[r]) = model'[r][Len(model'[r])]
      BY DEF Last
    <3> QED
      BY <2>1, <3>1, <3>2
  <2>3. Len(model[r]) = mine[r].turns /\ mine[r] = row[r] /\ HasStatus(r, "running")
        /\ row[r].turns \in Nat
    BY <1>1, <2>1, Numbers DEF RunInv, Counts, Early, Calm, Stored, HasStatus
  <2>4. Stored(r)' /\ Ended(r)'
    BY <1>1, <2>1 DEF Calm, Stored, Ended, HasStatus, HasEnded, Asking, Serving, InTurn
  <2>5. \A t \in 1 .. Len(model'[r]) - 1 : model'[r][t].status = "completed"
    <3>1. AllCompleted(r, Len(model[r]))
      BY <1>1, <2>1 DEF Calm, Progressed, Early
    <3> QED
      BY <2>2, <3>1 DEF AllCompleted
  <2>6. Progressed(r)'
    BY <1>1, <2>1, <2>2, <2>3, <2>5
    DEF Calm, Progressed, Completing, AllCompleted, HasStatus, Early, Asking, Serving, InTurn
  <2> QED
    BY <1>2, <2>4, <2>6, CalmOneRun DEF Calm
<1> QED
  BY <1>3, <1>4, <1>5, <1>6

LEMMA CalmProvider ==
  ASSUME CalmInv, LoopInv', NEW r \in Run,
         \/ pc[r] = "model" /\ \E response \in Responses(r) : ProviderResponds(r, response)
         \/ \E st \in {"failed", "timed_out"} : ProviderFails(r, st)
         \/ \E by \in {"handler", "shutdown"} : CancelInProvider(r, by)
  PROVE CalmInv'
<1> USE DEF Goto, EndWith, memory, choice, toolCalls
<1>1. TypeOK /\ RunInv(r) /\ Calm(r) /\ pc[r] = "model" /\ ending[r] = Nothing
  BY DEF CalmInv, LoopInv, RunInv, Holding, ProviderFails, CancelInProvider
<1>2. Touches(r) /\ UNCHANGED <<agedRuns, agedCalls>>
  BY <1>1 DEF TypeOK, Touches, ProviderResponds, ProviderFails, CancelInProvider
<1>3. /\ pc'[r] = "settle" /\ seen[r] = Nothing
      /\ UNCHANGED <<row, model, audit, mine, seen, summary>>
  BY <1>1 DEF TypeOK, RunInv, Holding, ProviderResponds, ProviderFails, CancelInProvider
<1>4. \/ ending'[r] = Nothing /\ wanted'[r] = [status |-> "completed", error |-> "none"]
      \/ ending'[r] # Nothing /\ ending'[r].status = "failed"
  <2>1. CASE \E response \in Responses(r) : ProviderResponds(r, response)
    BY <1>1, <2>1 DEF TypeOK, ProviderResponds
  <2>2. CASE \/ \E st \in {"failed", "timed_out"} : ProviderFails(r, st)
             \/ \E by \in {"handler", "shutdown"} : CancelInProvider(r, by)
    <3>1. PICK e \in Ending : e.status = "failed" /\ ending' = [ending EXCEPT ![r] = e]
      BY <2>2 DEF ProviderFails, CancelInProvider, Ending, Terminal, RunError
    <3> QED
      BY <1>1, <3>1, NothingAssumption DEF TypeOK
  <2> QED
    BY <2>1, <2>2
<1>5. Stored(r)' /\ Ended(r)'
  BY <1>1, <1>3 DEF Calm, Stored, Ended, HasStatus, HasEnded, Asking, Serving, InTurn
<1>6. Progressed(r)'
  <2>1. HasStatus(r, "running")
    BY <1>1 DEF Calm, Stored, Asking, InTurn
  <2> QED
    BY <1>1, <1>3, <1>4, <2>1
    DEF Calm, Progressed, Completing, AllCompleted, HasStatus, Early, Asking, Serving, InTurn
<1> QED
  BY <1>1, <1>2, <1>5, <1>6, CalmOneRun DEF Calm

LEMMA CalmSettle ==
  ASSUME CalmInv, LoopInv', NEW r \in Run, LoadModelCall(r) \/ SettleModelCall(r) PROVE CalmInv'
<1> USE DEF Goto, memory, choice, toolCalls
<1>1. TypeOK /\ RunInv(r) /\ Calm(r) /\ pc[r] = "settle"
  BY DEF CalmInv, LoopInv, LoadModelCall, SettleModelCall
<1>2. Touches(r) /\ UNCHANGED <<agedRuns, agedCalls>>
  BY <1>1 DEF TypeOK, Touches, LoadModelCall, SettleModelCall
<1>3. /\ model[r] \in Seq(ModelRow) /\ Len(model[r]) \in Nat \ {0}
      /\ Last(model[r]) = model[r][Len(model[r])] /\ Last(model[r]) \in ModelRow
  <2>1. Len(model[r]) = mine[r].turns + 1 /\ mine[r].turns \in Nat
    BY <1>1, Numbers DEF RunInv, Holding, Counts, InTurn, Asking
  <2> QED
    BY <1>1, <2>1 DEF TypeOK, Last
<1>4. HasStatus(r, "running") /\ mine[r] = row[r]
  BY <1>1 DEF Calm, Stored, Asking, InTurn
<1>5. CASE LoadModelCall(r)
  <2>1. /\ seen'[r] = Last(model[r])
        /\ UNCHANGED <<pc, row, model, audit, mine, wanted, summary, ending>>
    BY <1>1, <1>5 DEF TypeOK, LoadModelCall
  <2>2. Stored(r)' /\ Ended(r)'
    BY <1>1, <2>1 DEF Calm, Stored, Ended, HasStatus, HasEnded, Asking, Serving, InTurn
  <2>3. Progressed(r)'
    BY <1>1, <2>1 DEF Calm, Progressed, Completing, AllCompleted, HasStatus
  <2> QED
    BY <1>1, <1>2, <2>2, <2>3, CalmOneRun DEF Calm
<1>6. CASE SettleModelCall(r)
  <2>1. seen[r] = Last(model[r]) /\ wanted[r] \in ModelRow
    BY <1>1, <1>6 DEF TypeOK, RunInv, Holding, Calm, Stored, SettleModelCall
  <2>2. Flush(model[r][Len(model[r])], seen[r], wanted[r]) = wanted[r]
    BY <1>3, <2>1, Flushed
  <2>3. model'[r] = [model[r] EXCEPT ![Len(model[r])] = wanted[r]]
    BY <1>1, <1>6, <2>2 DEF TypeOK, SettleModelCall
  <2>4. /\ Len(model'[r]) = Len(model[r]) /\ model'[r][Len(model[r])] = wanted[r]
        /\ \A t \in 1 .. Len(model[r]) - 1 : model'[r][t] = model[r][t]
    BY <1>3, <2>1, <2>3
  <2>5. /\ \/ pc'[r] = "responded" /\ ending[r] = Nothing
           \/ pc'[r] \in {"finish", "gone"} /\ ending[r] # Nothing
        /\ seen'[r] = Nothing
        /\ UNCHANGED <<row, audit, mine, summary, ending>>
    BY <1>1, <1>6 DEF TypeOK, SettleModelCall
  <2>6. Stored(r)' /\ Ended(r)'
    BY <1>1, <2>5 DEF Calm, Stored, Ended, HasStatus, HasEnded, Asking, Serving, InTurn
  <2>7. ending[r] = Nothing => AllCompleted(r, Len(model[r]))'
    <3>1. SUFFICES ASSUME ending[r] = Nothing, NEW t \in 1 .. Len(model[r])
                   PROVE model'[r][t].status = "completed"
      BY <2>4 DEF AllCompleted
    <3>2. CASE t = Len(model[r])
      BY <1>1, <2>4, <3>1, <3>2 DEF Calm, Progressed
    <3>3. CASE t # Len(model[r])
      <4>1. t \in 1 .. Len(model[r]) - 1
        BY <1>3, <3>3
      <4> QED
        BY <1>1, <2>4, <4>1 DEF Calm, Progressed, AllCompleted
    <3> QED
      BY <3>2, <3>3
  <2>8. Progressed(r)'
    BY <1>1, <1>4, <2>4, <2>5, <2>7
    DEF Calm, Progressed, Completing, HasStatus, Early, Asking, Serving, InTurn
  <2> QED
    BY <1>1, <1>2, <2>6, <2>8, CalmOneRun DEF Calm
<1> QED
  BY <1>5, <1>6

LEMMA CalmTurn ==
  ASSUME CalmInv, LoopInv', NEW r \in Run, Answer(r) \/ EndTurn(r) PROVE CalmInv'
<1> USE DEF Goto, EndWith, memory, choice, toolCalls
<1>1. TypeOK /\ RunInv(r) /\ Calm(r) /\ pc[r] \in {"responded", "dispatch"}
  BY DEF CalmInv, LoopInv, Answer, EndTurn
<1>2. Touches(r) /\ UNCHANGED <<agedRuns, agedCalls>>
  BY <1>1 DEF TypeOK, Touches, Answer, EndTurn
<1>3. /\ pc'[r] = "persist" /\ mine'[r] = Progress(r) /\ seen'[r] = Nothing
      /\ UNCHANGED <<row, model, audit, seen, wanted, summary>>
  BY <1>1 DEF TypeOK, RunInv, Holding, Answer, EndTurn
<1>4. HasStatus(r, "running") /\ mine[r] = row[r] /\ row[r] \in RunRow
  BY <1>1 DEF TypeOK, Calm, Stored, HasStatus, Asking, Serving, InTurn
<1>5. /\ Progress(r).status = row[r].status /\ Progress(r).error = row[r].error
      /\ Progress(r).turns = row[r].turns + 1 /\ Progress(r).calls = Len(summary[r])
  BY <1>4 DEF Progress, RunRow
<1>6. Len(model[r]) = row[r].turns + 1 /\ row[r].calls <= Len(summary[r])
  BY <1>1, <1>4 DEF RunInv, Counts, Calm, Progressed, HasStatus, Asking, Serving, InTurn
<1>7. ending'[r] # Nothing /\ ending'[r].status = "completed" => ending'[r].error = "none"
  BY <1>1 DEF TypeOK, RunInv, Holding, Answer, EndTurn, Early, Serving
<1>8. Stored(r)' /\ Ended(r)'
  BY <1>1, <1>3, <1>4, <1>5, <1>6 DEF Calm, Stored, Ended, HasStatus, HasEnded, Asking, Serving, InTurn
<1>9. Progressed(r)'
  BY <1>1, <1>3, <1>4, <1>6, <1>7
  DEF Calm, Progressed, Completing, AllCompleted, HasStatus, Early, Asking, Serving, InTurn
<1> QED
  BY <1>1, <1>2, <1>8, <1>9, CalmOneRun DEF Calm

LEMMA CalmDispatch ==
  ASSUME CalmInv, LoopInv', NEW r \in Run,
         \/ RejectUnknownTool(r) \/ RefuseTool(r) \/ EnterTool(r) \/ PerformTool(r)
         \/ \E o \in Tool!Outcome : SettleTool(r, o)
         \/ DropTool(r)
  PROVE CalmInv'
<1> USE DEF Goto, memory, choice, toolCalls
<1>1. TypeOK /\ RunInv(r) /\ Calm(r) /\ pc[r] \in Serving
  BY DEF CalmInv, LoopInv, RejectUnknownTool, RefuseTool, EnterTool, PerformTool, SettleTool, DropTool,
     Serving
<1>2. Touches(r)
  <2>1. CASE RejectUnknownTool(r) \/ RefuseTool(r)
    BY <1>1, <2>1 DEF TypeOK, Touches, RejectUnknownTool, RefuseTool
  <2>2. CASE EnterTool(r)
    BY <1>1, <2>2 DEF TypeOK, Touches, EnterTool, Tool!Claim
  <2>3. CASE PerformTool(r)
    BY <1>1, <2>3 DEF TypeOK, Touches, PerformTool
  <2>4. CASE \E o \in Tool!Outcome : SettleTool(r, o)
    BY <1>1, <2>4 DEF TypeOK, Touches, SettleTool
  <2>5. CASE DropTool(r)
    BY <1>1, <2>5 DEF TypeOK, Touches, DropTool
  <2> QED
    BY <2>1, <2>2, <2>3, <2>4, <2>5
<1>3. UNCHANGED <<agedRuns, agedCalls, row, model, audit, mine, seen, wanted, ending>>
  BY DEF RejectUnknownTool, RefuseTool, EnterTool, PerformTool, SettleTool, DropTool
<1>4. pc'[r] \in Serving
  BY <1>1 DEF TypeOK, RejectUnknownTool, RefuseTool, EnterTool, PerformTool, SettleTool, DropTool, Serving
<1>5. Len(summary[r]) \in Nat /\ Len(summary[r]) <= Len(summary'[r]) /\ Len(summary'[r]) \in Nat
  <2>1. summary[r] \in Seq(Summary) /\ summary'[r] \in Seq(Summary)
    BY <1>1 DEF CalmInv, LoopInv, TypeOK
  <2>2. CASE UNCHANGED summary
    BY <2>1, <2>2
  <2>3. CASE \E s : summary' = [summary EXCEPT ![r] = Append(@, s)]
    <3>1. PICK s : summary'[r] = Append(summary[r], s)
      BY <1>1, <2>3 DEF TypeOK
    <3>2. Len(Append(summary[r], s)) = Len(summary[r]) + 1
      BY <2>1
    <3> QED
      BY <2>1, <3>1, <3>2
  <2>4. UNCHANGED summary \/ \E s : summary' = [summary EXCEPT ![r] = Append(@, s)]
    <3>1. ASSUME NEW o \in Tool!Outcome, SettleTool(r, o)
          PROVE \E s : summary' = [summary EXCEPT ![r] = Append(@, s)]
      BY <3>1 DEF SettleTool
    <3> QED
      BY <3>1 DEF RejectUnknownTool, RefuseTool, EnterTool, PerformTool, DropTool
  <2> QED
    BY <2>2, <2>3, <2>4
<1>6. Stored(r)' /\ Ended(r)'
  BY <1>1, <1>3, <1>4 DEF Calm, Stored, Ended, HasStatus, HasEnded, Asking, Serving, InTurn
<1>7. Progressed(r)'
  <2>1. HasStatus(r, "running") /\ row[r].calls \in Nat /\ ending[r] = Nothing
    BY <1>1, Numbers DEF RunInv, Holding, Calm, Stored, HasStatus, Serving, InTurn
  <2> QED
    BY <1>1, <1>3, <1>4, <1>5, <2>1
    DEF Calm, Progressed, Completing, AllCompleted, HasStatus, Early, Asking, Serving, InTurn
<1> QED
  BY <1>1, <1>2, <1>3, <1>6, <1>7, CalmOneRun DEF Calm, Serving

\* The trail of a run that ends.
LEMMA StartedThen == \A e \in RunEvent : Append(<<"started">>, e) = <<"started", e>>
<1> SUFFICES ASSUME NEW e \in RunEvent PROVE Append(<<"started">>, e) = <<"started", e>>
  OBVIOUS
<1> DEFINE s == Append(<<"started">>, e)
           t == <<"started", e>>
<1>1. <<"started">> \in Seq(RunEvent) /\ t \in Seq(RunEvent)
  BY DEF RunEvent
<1>2. s \in Seq(RunEvent) /\ Len(s) = 2 /\ s[1] = "started" /\ s[2] = e
  BY <1>1
<1>3. Len(t) = 2 /\ t[1] = "started" /\ t[2] = e
  OBVIOUS
<1> HIDE DEF s, t
<1>4. s = t
  BY <1>1, <1>2, <1>3, SeqEqual
<1> QED
  BY <1>4 DEF s, t

LEMMA CalmSave ==
  ASSUME CalmInv, LoopInv', NEW r \in Run,
         LoadRun(r) \/ PersistRun(r) \/ ReadForFinish(r) \/ FinishRun(r)
  PROVE CalmInv'
<1> USE DEF Goto, SaveRun, memory, choice, toolCalls
<1>1. TypeOK /\ RunInv(r) /\ Calm(r) /\ pc[r] \in {"persist", "finish", "finishing"}
  BY DEF CalmInv, LoopInv, LoadRun, PersistRun, ReadForFinish, FinishRun
<1>2. Touches(r) /\ agedRuns' \subseteq agedRuns /\ UNCHANGED agedCalls
  BY <1>1 DEF TypeOK, Touches, LoadRun, PersistRun, ReadForFinish, FinishRun
<1>3. row[r] \in RunRow /\ row[r] # Nothing /\ row[r].turns \in Nat /\ row[r].calls \in Nat
  BY <1>1, Numbers DEF TypeOK, RunInv, Absent
<1>4. /\ pc[r] \in {"persist", "finishing"} => mine[r] \in RunRow
      /\ pc[r] \in {"finish", "finishing"} => ending[r] \in Ending /\ ending[r] # Nothing
  BY <1>1 DEF TypeOK, RunInv, Holding
<1>5. CASE LoadRun(r)
  <2>1. /\ seen'[r] = row[r] /\ pc[r] \in {"persist", "finishing"}
        /\ UNCHANGED <<pc, row, model, audit, mine, wanted, summary, ending>>
    BY <1>1, <1>5 DEF TypeOK, LoadRun
  <2>2. Stored(r)' /\ Ended(r)'
    BY <1>1, <2>1 DEF Calm, Stored, Ended, HasStatus, HasEnded, Asking, Serving, InTurn
  <2>3. Progressed(r)'
    BY <1>1, <2>1 DEF Calm, Progressed, Completing, AllCompleted, HasStatus
  <2> QED
    BY <1>1, <1>2, <2>2, <2>3, CalmOneRun DEF Calm
<1>6. CASE PersistRun(r)
  <2>1. seen[r] = row[r] /\ pc[r] = "persist"
    BY <1>1, <1>6 DEF Calm, Stored, PersistRun
  <2>2. Flush(row[r], seen[r], mine[r]) = mine[r]
    BY <1>3, <1>4, <2>1, Flushed
  <2>3. /\ row'[r] = mine[r] /\ mine[r] # Nothing /\ seen'[r] = Nothing
        /\ \/ pc'[r] = "turn" /\ ending[r] = Nothing
           \/ pc'[r] = "finish" /\ ending[r] # Nothing
        /\ UNCHANGED <<model, audit, mine, wanted, summary, ending>>
    BY <1>1, <1>4, <1>6, <2>1, <2>2, NothingAssumption DEF TypeOK, PersistRun
  <2>4. HasStatus(r, "running") /\ mine[r].status = "running"
    BY <1>1, <2>1 DEF Calm, Stored
  <2>5. Len(model[r]) = mine[r].turns /\ Len(summary[r]) = mine[r].calls
    BY <1>1, <2>1 DEF RunInv, Counts
  <2>6. Stored(r)' /\ Ended(r)'
    BY <1>1, <2>3, <2>4 DEF Calm, Stored, Ended, HasStatus, HasEnded, Terminal, Asking, Serving, InTurn
  <2>7. mine[r].turns \in Nat /\ mine[r].calls \in Nat
    BY <1>1, <2>3, Numbers
  <2>8. Progressed(r)'
    BY <1>1, <2>1, <2>3, <2>4, <2>5, <2>7
    DEF Calm, Progressed, Completing, AllCompleted, HasStatus, Early, Asking, Serving, InTurn
  <2> QED
    BY <1>1, <1>2, <2>6, <2>8, CalmOneRun DEF Calm
<1>7. CASE ReadForFinish(r)
  <2>1. /\ \/ pc'[r] = "finishing" /\ HasStatus(r, "running") /\ mine'[r] = Finished(row[r], ending[r])
           \/ pc'[r] = "returning" /\ HasEnded(r)
           \/ pc'[r] = "answered"
        /\ pc[r] = "finish" /\ seen[r] = Nothing
        /\ UNCHANGED <<row, model, audit, seen, wanted, summary, ending>>
    BY <1>1, <1>7 DEF TypeOK, RunInv, Holding, ReadForFinish, AfterFinish
  <2>2. Stored(r)' /\ Ended(r)'
    BY <1>1, <2>1 DEF Calm, Stored, Ended, HasStatus, HasEnded, Asking, Serving, InTurn
  <2>3. Progressed(r)'
    BY <1>1, <2>1
    DEF Calm, Progressed, Completing, AllCompleted, HasStatus, Early, Asking, Serving, InTurn
  <2> QED
    BY <1>1, <1>2, <2>2, <2>3, CalmOneRun DEF Calm
<1>8. CASE FinishRun(r)
  <2>1. seen[r] = row[r] /\ pc[r] = "finishing" /\ HasStatus(r, "running") /\ mine[r] = Finished(row[r], ending[r])
    BY <1>1, <1>8 DEF Calm, Stored, FinishRun
  <2>2. Flush(row[r], seen[r], mine[r]) = mine[r]
    BY <1>3, <1>4, <2>1, Flushed
  <2>3. /\ row'[r] = Finished(row[r], ending[r]) /\ mine[r] # Nothing /\ seen'[r] = Nothing
        /\ audit'[r] = Append(audit[r], ending[r].status)
        /\ pc'[r] \in {"returning", "answered"}
        /\ UNCHANGED <<model, mine, wanted, summary, ending>>
    BY <1>1, <1>4, <1>8, <2>1, <2>2, NothingAssumption DEF TypeOK, FinishRun, AfterFinish
  <2>4. /\ row'[r].status = ending[r].status /\ row'[r].error = ending[r].error
        /\ row'[r].turns = row[r].turns /\ row'[r].calls = row[r].calls
        /\ row'[r] # Nothing /\ ending[r].status \in Terminal
    BY <1>3, <1>4, <2>1, <2>3 DEF Finished, RunRow, Ending
  <2>5. audit'[r] = <<"started", row'[r].status>>
    <3>1. audit[r] = <<"started">>
      BY <1>1, <2>1 DEF Calm, Ended, HasStatus, HasEnded, Terminal
    <3>2. audit'[r] = Append(<<"started">>, row'[r].status)
      BY <2>3, <2>4, <3>1
    <3> QED
      BY <2>4, <3>2, StartedThen DEF Terminal, RunEvent
  <2>6. ending[r].status = "completed" =>
          ending[r].error = "none" /\ row[r].turns = Len(model[r]) /\ row[r].calls = Len(summary[r])
          /\ AllCompleted(r, Len(model[r]))
    BY <1>1, <1>4, <2>1 DEF Calm, Progressed, Completing
  <2>7. Stored(r)' /\ Ended(r)'
    BY <1>1, <2>3, <2>4, <2>5, <2>6 DEF Calm, Stored, Ended, HasStatus, HasEnded, Asking, Serving, InTurn
  <2>8. Progressed(r)'
    BY <1>1, <2>1, <2>3, <2>4, <2>6
    DEF Calm, Progressed, Completing, AllCompleted, HasStatus, Early, Asking, Serving, InTurn
  <2> QED
    BY <1>1, <1>2, <2>7, <2>8, CalmOneRun DEF Calm
<1> QED
  BY <1>5, <1>6, <1>7, <1>8

LEMMA CalmRecoverRuns ==
  ASSUME CalmInv, LoopInv', NEW batch \in SUBSET ClaimableRuns, RecoverRuns(batch) PROVE CalmInv'
<1> USE DEF memory, choice, toolCalls
<1>1. TypeOK
  BY DEF CalmInv, LoopInv
<1>2. Aged'
  BY DEF CalmInv, Aged, RecoverRuns
<1>3. ASSUME NEW r \in Run PROVE Calm(r)'
  <2>1. Calm(r) /\ UNCHANGED <<pc, model, mine, seen, wanted, summary, ending>>
    BY DEF CalmInv, RecoverRuns
  <2>2. CASE r \notin batch
    <3>1. row'[r] = row[r] /\ audit'[r] = audit[r]
      BY <2>2 DEF RecoverRuns
    <3>2. Stored(r)' /\ Ended(r)'
      BY <2>1, <3>1 DEF Calm, Stored, Ended, HasStatus, HasEnded
    <3>3. Progressed(r)'
      BY <2>1, <3>1 DEF Calm, Progressed, Completing, AllCompleted, HasStatus
    <3> QED
      BY <3>2, <3>3 DEF Calm
  <2>3. CASE r \in batch
    <3>1. HasStatus(r, "running") /\ pc[r] \in {"answered", "gone"} /\ row[r] \in RunRow
      BY <1>1, <2>3 DEF CalmInv, Aged, ClaimableRuns, HasStatus, TypeOK
    <3>2. row'[r] = Recovered(row[r]) /\ audit'[r] = Append(audit[r], "recovered")
      BY <2>3 DEF RecoverRuns, Recovered
    <3>3. /\ row'[r] # Nothing /\ row'[r].status = "failed" /\ row'[r].error = "agent_run_interrupted"
          /\ row'[r].turns = row[r].turns /\ row'[r].calls = row[r].calls
      BY <3>1, <3>2, RecoveredRow, NothingAssumption
    <3>4. audit'[r] = <<"started", "recovered">>
      <4>1. audit[r] = <<"started">>
        BY <2>1, <3>1 DEF Calm, Ended, HasStatus, HasEnded, Terminal
      <4> QED
        BY <3>2, <4>1, StartedThen DEF RunEvent
    <3>5. Stored(r)' /\ Ended(r)'
      BY <2>1, <3>1, <3>3, <3>4
      DEF Calm, Stored, Ended, HasStatus, HasEnded, Terminal, Asking, Serving, InTurn
    <3>6. Progressed(r)'
      BY <2>1, <3>1, <3>3
      DEF Calm, Progressed, Completing, HasStatus, Early, Asking, Serving, InTurn
    <3> QED
      BY <3>5, <3>6 DEF Calm
  <2> QED
    BY <2>2, <2>3
<1> QED
  BY <1>2, <1>3 DEF CalmInv

LEMMA CalmRecoverModelCalls ==
  ASSUME CalmInv, LoopInv', NEW batch \in SUBSET ClaimableCalls, RecoverModelCalls(batch) PROVE CalmInv'
<1> USE DEF memory, choice, toolCalls
<1>1. TypeOK
  BY DEF CalmInv, LoopInv
<1>2. Aged'
  BY DEF CalmInv, Aged, RecoverModelCalls
<1>3. ASSUME NEW r \in Run PROVE Calm(r)'
  <2>1. Calm(r) /\ UNCHANGED <<pc, row, audit, mine, seen, wanted, summary, ending>>
    BY DEF CalmInv, RecoverModelCalls
  <2>2. CASE r \notin batch
    <3>1. model'[r] = model[r]
      BY <2>2 DEF RecoverModelCalls
    <3>2. Stored(r)' /\ Ended(r)'
      BY <2>1, <3>1 DEF Calm, Stored, Ended, HasStatus, HasEnded
    <3>3. Progressed(r)'
      BY <2>1, <3>1 DEF Calm, Progressed, Completing, AllCompleted, HasStatus
    <3> QED
      BY <3>2, <3>3 DEF Calm
  <2>3. CASE r \in batch
    <3>1. pc[r] \in {"answered", "gone"} /\ model[r] \in Seq(ModelRow) /\ CallStarted(r)
      BY <1>1, <2>3 DEF CalmInv, Aged, ClaimableCalls, TypeOK
    <3>2. model'[r] = Interrupted(model[r])
      BY <2>3 DEF RecoverModelCalls, Interrupted
    <3>3. Len(model'[r]) = Len(model[r])
      BY <3>1, <3>2, RecoveredModel
    <3>4. ~HasStatus(r, "completed")
      <4>1. Len(model[r]) \in 1 .. Len(model[r]) /\ model[r][Len(model[r])].status = "started"
        BY <3>1 DEF CallStarted, Last
      <4> QED
        BY <2>1, <4>1 DEF Calm, Progressed, Completing, AllCompleted
    <3>5. Stored(r)' /\ Ended(r)'
      BY <2>1, <3>1 DEF Calm, Stored, Ended, HasStatus, HasEnded, Terminal, Asking, Serving, InTurn
    <3>6. Progressed(r)'
      BY <2>1, <3>1, <3>3, <3>4
      DEF Calm, Progressed, Completing, HasStatus, Early, Asking, Serving, InTurn
    <3> QED
      BY <3>5, <3>6 DEF Calm
  <2> QED
    BY <2>2, <2>3
<1> QED
  BY <1>2, <1>3 DEF CalmInv

\* Time passes for what no task drives any more.
LEMMA CalmAround ==
  ASSUME CalmInv, LoopInv', ~StaleWhileLive,
         \/ \E k \in CallKey : RecoverTool(k)
         \/ \E r \in Run : ElapseRun(r) \/ ElapseCall(r)
         \/ BeginShutdown
         \/ UNCHANGED vars
  PROVE CalmInv'
<1> USE DEF memory, choice, toolCalls, vars
<1>1. UNCHANGED <<row, model, audit, pc, mine, wanted, seen, summary, ending>>
  BY DEF RecoverTool, ElapseRun, ElapseCall, BeginShutdown
<1>2. Aged'
  <2>1. CASE UNCHANGED <<agedRuns, agedCalls>>
    BY <1>1, <2>1 DEF CalmInv, Aged
  <2>2. CASE \E r \in Run : ElapseRun(r) \/ ElapseCall(r)
    <3>1. PICK r \in Run : ElapseRun(r) \/ ElapseCall(r)
      BY <2>2
    <3>2. row[r] # Nothing /\ ~TaskLive(r)
      BY <3>1 DEF CalmInv, LoopInv, RunInv, Absent, ElapseRun, ElapseCall, HasStatus, CallStarted
    <3>3. pc[r] \in {"answered", "gone"}
      BY <3>2 DEF CalmInv, LoopInv, RunInv, Absent, TaskLive
    <3> QED
      BY <1>1, <3>1, <3>3 DEF CalmInv, Aged, ElapseRun, ElapseCall
  <2> QED
    BY <2>1, <2>2 DEF RecoverTool, BeginShutdown
<1>3. ASSUME NEW r \in Run PROVE Calm(r)'
  <2>1. Calm(r)
    BY DEF CalmInv
  <2>2. Stored(r)' /\ Ended(r)'
    BY <1>1, <2>1 DEF Calm, Stored, Ended, HasStatus, HasEnded
  <2>3. Progressed(r)'
    BY <1>1, <2>1 DEF Calm, Progressed, Completing, AllCompleted, HasStatus
  <2> QED
    BY <2>2, <2>3 DEF Calm
<1> QED
  BY <1>2, <1>3 DEF CalmInv

LEMMA CalmInit == Init => CalmInv
<1> SUFFICES ASSUME Init PROVE CalmInv
  OBVIOUS
<1>1. Aged
  BY DEF Init, Aged
<1>2. ASSUME NEW r \in Run PROVE Calm(r)
  <2>1. /\ pc[r] = "idle" /\ row[r] = Nothing /\ audit[r] = <<>>
    BY DEF Init
  <2> QED
    BY <2>1 DEF Calm, Stored, Progressed, Ended, Completing, HasStatus, HasEnded, Early, Asking, Serving,
       InTurn
<1> QED
  BY <1>1, <1>2, LoopInit DEF CalmInv

LEMMA CalmStep == ASSUME ~StaleWhileLive PROVE CalmInv /\ [Next]_vars => CalmInv'
<1> SUFFICES ASSUME CalmInv, [Next]_vars PROVE CalmInv'
  OBVIOUS
<1>1. LoopInv'
  BY LoopStep DEF CalmInv
<1>2. ASSUME NEW r \in Run, Begin(r) PROVE CalmInv'
  BY <1>1, <1>2, CalmBegin, CalmMove DEF Begin
<1>3. ASSUME NEW r \in Run, AskProvider(r) PROVE CalmInv'
  BY <1>1, <1>3, CalmProvider, CalmSettle DEF AskProvider
<1>4. ASSUME NEW r \in Run, Respond(r) PROVE CalmInv'
  BY <1>1, <1>4, CalmTurn, CalmMove DEF Respond
<1>5. ASSUME NEW r \in Run, Dispatch(r) PROVE CalmInv'
  BY <1>1, <1>5, CalmDispatch, CalmMove, CalmTurn DEF Dispatch
<1>6. ASSUME NEW r \in Run, Save(r) PROVE CalmInv'
  BY <1>1, <1>6, CalmSave, CalmMove DEF Save
<1>7. ASSUME NEW r \in Run, Interrupt(r) PROVE CalmInv'
  BY <1>1, <1>7, CalmProvider, CalmMove DEF Interrupt
<1>8. ASSUME NEW r \in Run, RefuseRun(r) \/ \E request \in StartRequest : CreateRun(r, request)
      PROVE CalmInv'
  BY <1>1, <1>8, CalmMove, CalmBegin
<1>9. CASE RecoverSome
  BY <1>1, <1>9, CalmRecoverRuns, CalmRecoverModelCalls DEF RecoverSome
<1> QED
  BY <1>1, <1>2, <1>3, <1>4, <1>5, <1>6, <1>7, <1>8, <1>9, CalmAround DEF Next, Proceed

\* Where the stale periods are longer than a live run, the rows of a run are written by its task
\* alone until it ends: the inductive invariant of that case.
THEOREM CalmInvariance == ASSUME ~StaleWhileLive PROVE Spec => []CalmInv
<1>1. Init => CalmInv
  BY CalmInit
<1>2. CalmInv /\ [Next]_vars => CalmInv'
  BY CalmStep
<1> QED
  BY <1>1, <1>2, PTL DEF Spec

\* The stored counters of a run follow its work, and are exact once it is completed (_persist_run).
THEOREM CountersFollowTheWork == ASSUME ~StaleWhileLive PROVE Spec => []ProgressIsBacked
<1>1. CalmInv => ProgressIsBacked
  BY DEF CalmInv, Calm, Progressed, Completing, AllCompleted, ProgressIsBacked
<1> QED
  BY <1>1, CalmInvariance, PTL

\* A run ends once, and its trail says how (_finish_run, _recover_agent_runs).
THEOREM RunsEndOnce == ASSUME ~StaleWhileLive PROVE Spec => []OneEnding
<1>1. CalmInv => OneEnding
  BY DEF CalmInv, Calm, Ended, OneEnding
<1> QED
  BY <1>1, CalmInvariance, PTL

\* Every stored run can be read again (AgentRun.__post_init__): the divergence that the run unreadable
\* shows needs a recovery cutoff that a live run passes.
THEOREM CompletedRunsReadable == ASSUME ~StaleWhileLive PROVE Spec => []RowsReadable
<1>1. CalmInv => RowsReadable
  BY DEF CalmInv, Calm, Ended, RowsReadable
<1> QED
  BY <1>1, CalmInvariance, PTL

\* A run that has ended is never written again: a task that is late finds it ended and leaves it.
THEOREM EndedRunsStay == ASSUME ~StaleWhileLive PROVE Spec => EndedRunsFrozen
<1>1. ASSUME CalmInv, Next, NEW r \in Run, HasEnded(r) PROVE row'[r] = row[r]
  <2> USE DEF memory, choice, toolCalls
  <2>1. TypeOK /\ RunInv(r) /\ Calm(r) /\ row[r] # Nothing
        /\ row[r].status \in {"completed", "failed", "limit_reached"}
    BY <1>1 DEF CalmInv, LoopInv, HasEnded, Terminal
  <2>2. pc[r] \notin {"idle", "created", "persist", "finishing"}
    <3>1. New.status = "created"
      BY DEF New
    <3> QED
      BY <2>1, <3>1 DEF RunInv, Absent, Calm, Stored, HasStatus
  <2>3. ASSUME NEW q \in Run,
               \/ \E request \in StartRequest : CreateRun(q, request)
               \/ StartRun(q) \/ PersistRun(q) \/ FinishRun(q)
        PROVE row'[r] = row[r]
    BY <2>1, <2>2, <2>3 DEF TypeOK, CreateRun, StartRun, PersistRun, FinishRun, SaveRun
  <2>4. ASSUME NEW batch \in SUBSET ClaimableRuns, RecoverRuns(batch) PROVE row'[r] = row[r]
    BY <2>1, <2>4 DEF RecoverRuns, ClaimableRuns, HasStatus
  <2>5. ASSUME NEW q \in Run, Begin(q) PROVE row'[r] = row[r]
    BY <2>3, <2>5 DEF Begin, OfferTools, RefuseTools, LeaveLoop, BeginTurn, StopForShutdown, RunOutOfTurns,
       CreateModelCall
  <2>6. ASSUME NEW q \in Run, AskProvider(q) \/ Respond(q) \/ Dispatch(q) \/ Interrupt(q) \/ RefuseRun(q)
        PROVE UNCHANGED row
    BY <2>6 DEF AskProvider, ProviderResponds, ProviderFails, CancelInProvider, LoadModelCall, SettleModelCall,
       Respond, Answer, RefuseRequests, AcceptRequests, Dispatch, RejectUnknownTool, RequestTool, RefuseTool,
       EnterTool, PerformTool, SettleTool, DropTool, EndTurn, Interrupt, TimeOut, ExceedMessageLimit,
       FailUnexpectedly, LeaveLoop, Crash, RefuseRun
  <2>7. ASSUME NEW q \in Run, Save(q) PROVE row'[r] = row[r]
    BY <2>3, <2>7 DEF Save, LoadRun, ReadForFinish, Return
  <2>8. ASSUME \/ \E batch \in SUBSET ClaimableCalls : RecoverModelCalls(batch)
               \/ \E k \in CallKey : RecoverTool(k)
               \/ \E q \in Run : ElapseRun(q) \/ ElapseCall(q)
               \/ BeginShutdown
        PROVE UNCHANGED row
    BY <2>8 DEF RecoverModelCalls, RecoverTool, ElapseRun, ElapseCall, BeginShutdown
  <2> QED
    BY <1>1, <2>3, <2>4, <2>5, <2>6, <2>7, <2>8 DEF Next, Proceed, RecoverSome
<1>2. CalmInv /\ [Next]_vars => [\A r \in Run : HasEnded(r) => row'[r] = row[r]]_vars
  BY <1>1
<1> QED
  BY <1>2, CalmInvariance, PTL DEF Spec, EndedRunsFrozen

=============================================================================
