-------------------------- MODULE CallViewsProofs ---------------------------
(***************************************************************************)
(* Proofs about CallViews: whatever is executed, retried and recovered     *)
(* between the statements of a page, what the page says is coherent.  The  *)
(* argument is that each statement reads something that only grows: a      *)
(* trail is appended to, a result is written once, and a session that has  *)
(* ended gets no more calls.                                               *)
(***************************************************************************)
EXTENDS CallViews, ToolCallsRowProofs

-----------------------------------------------------------------------------
(* What no step takes back                                                 *)

\* The trail t begins with all of s.
Extends(t, s) == Len(s) <= Len(t) /\ \A n \in 1 .. Len(s) : t[n] = s[n]

TrailsGrow == \A k \in Key : Extends(audit'[k], audit[k])

ResultsStay == \A k \in Key : result[k] # "none" => result'[k] = result[k]

\* No call leaves its session, and a session that has ended gets no more of them; their order does
\* not change.
CallsGrow ==
  \A s \in Session :
    /\ CallsOf(s) \subseteq CallsOf(s)'
    /\ session[s] = "ended" =>
         /\ session'[s] = "ended"
         /\ CallsOf(s)' = CallsOf(s)
         /\ \A k \in CallsOf(s) : call'[k].seq = call[k].seq

\* A trail with more behind it extends what it was.
LEMMA ExtendedByMore ==
  ASSUME NEW s \in Seq(AuditEvent), NEW more \in Seq(AuditEvent)
  PROVE  Extends(s \o more, s)
BY DEF Extends

\* What a trail tells of a row it goes on telling.
LEMMA TellsOn ==
  ASSUME NEW s \in Seq(AuditEvent), NEW t \in Seq(AuditEvent), Extends(t, s), NEW row, Tells(s, row)
  PROVE  Tells(t, row)
<1>1. \A n \in 1 .. Len(s) : n \in 1 .. Len(t) /\ t[n] = s[n]
  BY DEF Extends
<1> QED
  BY <1>1 DEF Tells, FlaggedIn

\* An update of a row appends to one trail.
LEMMA StoreGrows ==
  ASSUME IndInv, NEW k \in Key, NEW c, NEW events \in Seq(AuditEvent), Store(k, c, events)
  PROVE  TrailsGrow
<1>1. audit \in [Key -> Seq(AuditEvent)] /\ audit' = [audit EXCEPT ![k] = @ \o events]
  BY DEF IndInv, TypeOK, Store
<1> SUFFICES ASSUME NEW j \in Key PROVE Extends(audit'[j], audit[j])
  BY DEF TrailsGrow
<1>2. CASE j = k
  BY <1>1, <1>2, ExtendedByMore
<1>3. CASE j # k
  BY <1>1, <1>3 DEF Extends
<1> QED
  BY <1>2, <1>3

\* A step that leaves the trails alone lets them grow.
LEMMA UntouchedGrows ==
  ASSUME IndInv, UNCHANGED audit
  PROVE  TrailsGrow
BY DEF IndInv, TypeOK, TrailsGrow, Extends

\* The steps of a request at work.
LEMMA WorkGrows ==
  ASSUME IndInv, NEW r \in Request, Screen(r) \/ Execute(r) \/ Conclude(r)
  PROVE  TrailsGrow
<1>1. KeyOf(r) \in Key
  BY ProceedIsWork DEF WorkStep, IndInv, HasRequest, Working, RequestBody, KeyOf
<1>2. \A e \in AuditEvent : <<e>> \in Seq(AuditEvent)
  BY OneEvent
<1>3. ASSUME NEW st, NEW code, NEW event \in AuditEvent, NEW a, Settle(r, st, code, event, a)
      PROVE  TrailsGrow
  BY <1>1, <1>2, <1>3, StoreGrows DEF Settle
<1>4. ASSUME NEW st, NEW dec, NEW code, NEW metadata, NEW a, Finalize(r, st, dec, code, metadata, a)
      PROVE  TrailsGrow
  <2> DEFINE event == IF st = "succeeded" THEN <<"completed">> ELSE <<"failed">>
  <2>1. event \in Seq(AuditEvent) /\ FlagNote(dec) \in Seq(AuditEvent)
    BY <1>2, NoEvent DEF FlagNote, AuditEvent
  <2>2. FlagNote(dec) \o event \in Seq(AuditEvent)
    BY <2>1
  <2>3. \/ \E c : Store(KeyOf(r), c, FlagNote(dec) \o event)
        \/ UNCHANGED audit
    BY <1>4 DEF Finalize, database
  <2> HIDE DEF event
  <2> QED
    BY <1>1, <2>2, <2>3, StoreGrows, UntouchedGrows
<1>5. CASE BeginValidating(r) \/ StartExecuting(r)
  <2>1. \E c, events : events \in {<<>>, <<"started">>} /\ Store(KeyOf(r), c, events)
    BY <1>5 DEF BeginValidating, StartExecuting
  <2>2. {<<>>, <<"started">>} \subseteq Seq(AuditEvent)
    BY <1>2, NoEvent DEF AuditEvent
  <2> QED
    BY <1>1, <2>1, <2>2, StoreGrows
<1>6. CASE \E matches \in SUBSET enabled, risky \in BOOLEAN : EvaluateInput(r, matches, risky)
  <2> PICK matches \in SUBSET enabled, risky \in BOOLEAN : EvaluateInput(r, matches, risky)
    BY <1>6
  <2> DEFINE flagged == risky \/ (~Blocks(matches) /\ matches \cap FlagRules # {})
             events == <<"validated">> \o (IF flagged THEN <<"flagged">> ELSE <<>>)
  <2>1. (IF flagged THEN <<"flagged">> ELSE <<>>) \in Seq(AuditEvent)
    BY <1>2, NoEvent DEF AuditEvent
  <2>2. <<"validated">> \in Seq(AuditEvent) /\ <<"blocked">> \in Seq(AuditEvent)
    BY <1>2 DEF AuditEvent
  <2>3. events \in Seq(AuditEvent) /\ events \o <<"blocked">> \in Seq(AuditEvent)
    BY <2>1, <2>2
  <2>4. \/ \E c : Store(KeyOf(r), c, events)
        \/ \E c : Store(KeyOf(r), c, events \o <<"blocked">>)
    BY DEF EvaluateInput
  <2> HIDE DEF events
  <2> QED
    BY <1>1, <2>3, <2>4, StoreGrows
<1>7. CASE \/ \E code \in RejectErrors : Reject(r, code)
           \/ FailUnconfigured(r) \/ TimeOut(r)
           \/ \E code \in AdapterErrors : FailInAdapter(r, code)
           \/ \E code \in ResultErrors : FailResult(r, code)
  <2>1. {"failed", "timed_out"} \subseteq AuditEvent
    BY DEF AuditEvent
  <2>2. \E st, code, event, a : event \in {"failed", "timed_out"} /\ Settle(r, st, code, event, a)
    BY <1>7 DEF Reject, FailUnconfigured, TimeOut, FailInAdapter, FailResult, Fail
  <2> QED
    BY <1>3, <2>1, <2>2
<1>8. CASE (\E risky \in BOOLEAN : FinalizeInvalid(r, risky)) \/ FinalizeSucceeded(r)
  BY <1>4, <1>8 DEF FinalizeInvalid, FinalizeSucceeded
<1>9. CASE \/ InvokeAdapter(r) \/ DropSanitizedResult(r)
           \/ \E matches \in SUBSET enabled, risky \in BOOLEAN : ReadResultRules(r, matches, risky)
  BY <1>9, UntouchedGrows DEF InvokeAdapter, DropSanitizedResult, ReadResultRules, database
<1> QED
  BY <1>5, <1>6, <1>7, <1>8, <1>9 DEF Screen, Execute, Conclude

\* Every other step appends one event, or none.
LEMMA StepGrowsTrails ==
  ASSUME IndInv, [Next]_vars
  PROVE  TrailsGrow
<1>1. ASSUME NEW r \in Request, Arrive(r) \/ Abort(r) \/ LockSession(r) PROVE TrailsGrow
  BY <1>1, UntouchedGrows DEF Arrive, Replay, Receive, Abort, LockSession, database
<1>2. ASSUME NEW r \in Request, InsertReceived(r) PROVE TrailsGrow
  <2>1. KeyOf(r) \in Key
    BY <1>2 DEF InsertReceived, IndInv, HasRequest, RequestBody, KeyOf
  <2>2. <<"received">> \in Seq(AuditEvent)
    BY OneEvent DEF AuditEvent
  <2>3. UNCHANGED audit \/ Store(KeyOf(r), held[r], <<"received">>)
    BY <1>2 DEF InsertReceived
  <2> QED
    BY <2>1, <2>2, <2>3, StoreGrows, UntouchedGrows
<1>3. CASE Recover
  <2>1. PICK batch \in SUBSET Claimable : RecoverBatch(batch)
    BY <1>3 DEF Recover
  <2>2. <<"recovered">> \in Seq(AuditEvent) /\ "recovered" \in AuditEvent
    BY OneEvent DEF AuditEvent
  <2>3. audit \in [Key -> Seq(AuditEvent)]
    BY DEF IndInv, TypeOK
  <2>4. ASSUME NEW k \in Key PROVE Extends(audit'[k], audit[k])
    <3>1. CASE k \in batch
      <4>1. audit'[k] = Append(audit[k], "recovered")
        BY <2>1, <3>1 DEF RecoverBatch
      <4> QED
        BY <2>2, <2>3, <4>1 DEF Extends
    <3>2. CASE k \notin batch
      BY <2>1, <2>3, <3>2 DEF RecoverBatch, Extends
    <3> QED
      BY <3>1, <3>2
  <2> QED
    BY <2>4 DEF TrailsGrow
<1>4. CASE Operate \/ (\E k \in Key : Elapse(k)) \/ UNCHANGED vars
  BY <1>4, UntouchedGrows
     DEF Operate, CompleteSession, SetRuleEnabled, SetToolEnabled, Elapse, database, vars
<1> QED
  BY <1>1, <1>2, <1>3, <1>4, WorkGrows DEF Next, Proceed, Create

\* A result is written by the last step of the one request at work, which has found none.
LEMMA StepKeepsResults ==
  ASSUME IndInv, [Next]_vars
  PROVE  ResultsStay
<1>1. ASSUME NEW r \in Request, WorkStep(r) PROVE ResultsStay
  <2>1. KeyOf(r) \in Key /\ result[KeyOf(r)] = "none"
    BY <1>1 DEF WorkStep, IndInv, HasRequest, NotYetFinalized, Working, RequestBody, KeyOf
  <2>2. result' = result \/ \E m : result' = [result EXCEPT ![KeyOf(r)] = m]
    BY <1>1 DEF WorkStep
  <2> QED
    BY <2>1, <2>2 DEF ResultsStay, IndInv, TypeOK
<1>2. ASSUME UNCHANGED result PROVE ResultsStay
  BY <1>2 DEF ResultsStay
<1>3. ASSUME NEW r \in Request, Arrive(r) \/ Create(r) \/ Abort(r) PROVE UNCHANGED result
  BY <1>3 DEF Arrive, Replay, Receive, Create, LockSession, InsertReceived, Abort, database
<1>4. CASE (\E k \in Key : Elapse(k)) \/ Recover \/ Operate \/ UNCHANGED vars
  BY <1>2, <1>4, OutsideIsOutside DEF OutsideStep
<1> QED
  BY <1>1, <1>2, <1>3, <1>4, ProceedIsWork DEF Next, Proceed

\* A call is inserted into an active session only, and never moved.
LEMMA StepGrowsSessions ==
  ASSUME IndInv, [Next]_vars
  PROVE  CallsGrow
<1>1. ASSUME RowsKept, UNCHANGED session PROVE CallsGrow
  <2>1. \A s \in Session : CallsOf(s)' = CallsOf(s)
    BY <1>1, RowsKeptDense DEF IndInv
  <2>2. \A k \in Key : Exists(k) => call'[k].seq = call[k].seq
    BY <1>1 DEF RowsKept, Keeps
  <2> QED
    BY <1>1, <2>1, <2>2 DEF CallsGrow, CallsOf
<1>2. ASSUME NEW r \in Request, Screen(r) \/ Execute(r) \/ Conclude(r) PROVE CallsGrow
  BY <1>1, <1>2, ProceedIsWork, WorkKeepsRows DEF WorkStep, registry
<1>3. ASSUME UNCHANGED <<call, session>> PROVE CallsGrow
  BY <1>3 DEF CallsGrow, CallsOf, Exists
<1>4. ASSUME NEW r \in Request, Arrive(r) \/ Abort(r) \/ LockSession(r) PROVE CallsGrow
  <2>1. UNCHANGED <<call, session>>
    BY <1>4 DEF Arrive, Replay, Receive, Abort, LockSession, database, registry
  <2> QED
    BY <1>3, <2>1
<1>5. ASSUME NEW r \in Request, InsertReceived(r) PROVE CallsGrow
  <2>1. /\ pc[r] = "locked" /\ KeyOf(r) \in Key /\ UNCHANGED session
        /\ \/ UNCHANGED call
           \/ ~Exists(KeyOf(r)) /\ call' = [call EXCEPT ![KeyOf(r)] = held[r]]
    BY <1>5 DEF InsertReceived, Store, KeyTaken, registry, IndInv, HasRequest, RequestBody, KeyOf
  <2>2. session[held[r].session] = "active" /\ held[r] \in CallRow
    BY <2>1 DEF IndInv, LockHeld, RequestHash
  <2>3. CASE ~Exists(KeyOf(r)) /\ call' = [call EXCEPT ![KeyOf(r)] = held[r]]
    <3>1. call'[KeyOf(r)] = held[r] /\ \A k \in Key \ {KeyOf(r)} : call'[k] = call[k]
      BY <2>1, <2>3 DEF IndInv, TypeOK
    <3>2. ASSUME NEW s \in Session
          PROVE  /\ CallsOf(s) \subseteq CallsOf(s)'
                 /\ session[s] = "ended" => CallsOf(s)' = CallsOf(s)
                 /\ \A k \in CallsOf(s) : call'[k].seq = call[k].seq
      BY <2>2, <2>3, <3>1 DEF CallsOf, Exists
    <3> QED
      BY <2>1, <3>2 DEF CallsGrow
  <2> QED
    BY <1>3, <2>1, <2>3
<1>6. CASE (\E k \in Key : Elapse(k)) \/ Recover \/ UNCHANGED vars
  <2>1. UNCHANGED session
    BY <1>6 DEF Elapse, Recover, RecoverBatch, vars, registry
  <2> QED
    BY <1>1, <1>6, <2>1, OutsideIsOutside DEF OutsideStep
<1>7. CASE Operate
  <2>1. UNCHANGED call
    BY <1>7 DEF Operate, CompleteSession, SetRuleEnabled, SetToolEnabled, database
  <2>2. \A s \in Session : session[s] = "ended" => session'[s] = "ended"
    BY <1>7 DEF Operate, CompleteSession, SetRuleEnabled, SetToolEnabled, IndInv, TypeOK
  <2> QED
    BY <2>1, <2>2 DEF CallsGrow, CallsOf, Exists
<1> QED
  BY <1>2, <1>4, <1>5, <1>6, <1>7 DEF Next, Proceed, Create

-----------------------------------------------------------------------------
(* What a page takes                                                       *)

\* The calls on the page of a session that has ended stay the first of its calls.
LEMMA FirstCallsStay ==
  ASSUME NEW s, CallsOf(s)' = CallsOf(s), \A k \in CallsOf(s) : call'[k].seq = call[k].seq
  PROVE  FirstCalls(s)' = FirstCalls(s)
<1>1. ASSUME NEW k \in CallsOf(s)
      PROVE  {j \in CallsOf(s) : call[j].seq < call[k].seq}' =
               {j \in CallsOf(s) : call[j].seq < call[k].seq}
  OBVIOUS
<1>2. FirstCalls(s)' = {k \in CallsOf(s)' :
        Cardinality({j \in CallsOf(s) : call[j].seq < call[k].seq}') < CallLimit}
  BY DEF FirstCalls
<1> QED
  BY <1>1, <1>2 DEF FirstCalls

\* A session with no more calls than a page takes has all of them on it.
LEMMA ShortSessionsFit ==
  ASSUME IndInv, NEW s \in Session, Cardinality(CallsOf(s)) <= CallLimit
  PROVE  FirstCalls(s) = CallsOf(s)
<1> SUFFICES ASSUME NEW k \in CallsOf(s)
             PROVE  Cardinality({j \in CallsOf(s) : call[j].seq < call[k].seq}) < CallLimit
  BY DEF FirstCalls
<1> DEFINE earlier == {j \in CallsOf(s) : call[j].seq < call[k].seq}
<1>1. IsFiniteSet(CallsOf(s)) /\ call[k].seq \in Nat
  BY KeyAssumption, FS_Subset DEF CallsOf, IndInv, TypeOK, CallRow, Exists
<1>2. earlier \subseteq CallsOf(s) /\ earlier # CallsOf(s)
  BY <1>1
<1> HIDE DEF earlier
<1>3. IsFiniteSet(earlier) /\ Cardinality(earlier) < Cardinality(CallsOf(s))
  <2>1. /\ IsFiniteSet(earlier) /\ Cardinality(earlier) <= Cardinality(CallsOf(s))
        /\ Cardinality(earlier) = Cardinality(CallsOf(s)) => earlier = CallsOf(s)
    BY <1>1, <1>2, FS_Subset
  <2>2. Cardinality(earlier) \in Nat /\ Cardinality(CallsOf(s)) \in Nat
    BY <1>1, <2>1, FS_CardinalityType
  <2> QED
    BY <1>2, <2>1, <2>2
<1>4. Cardinality(earlier) \in Nat /\ Cardinality(CallsOf(s)) \in Nat
  BY <1>1, <1>3, FS_CardinalityType
<1>5. Cardinality(earlier) < CallLimit
  BY <1>3, <1>4, LimitAssumption
<1> QED
  BY <1>5 DEF earlier

\* A page of events that is not cut has the trail of each of the calls.
LEMMA UncutListsAreComplete ==
  ASSUME NEW keys, NEW list \in EventsOf(keys), ~list.cut
  PROVE  \A k \in keys : list.trail[k] = audit[k]
<1>1. list # [cut |-> TRUE, trail |-> <<>>]
  OBVIOUS
<1>2. list = [cut |-> FALSE, trail |-> [k \in keys |-> audit[k]]]
  BY <1>1 DEF EventsOf
<1> QED
  BY <1>2

-----------------------------------------------------------------------------
(* The invariant of the reader                                             *)

\* The parts of a page about a call: what was read goes on being true of the tables until the
\* part that it is compared with is read.
CallParts(k) ==
  /\ parts >= 1 => /\ page[1].status = "succeeded" => result[k] = "valid"
                   /\ Tells(audit[k], page[1])
  /\ parts >= 2 /\ page[1].status = "succeeded" => page[2] = "valid"
  /\ parts >= 3 => ToldBy(page[3], k, page[1])

\* The parts of a page about a session.
SessionParts(s) ==
  /\ parts >= 1 /\ page[1] = "ended" => session[s] = "ended"
  /\ parts >= 2 => /\ DOMAIN page[2] \subseteq CallsOf(s)
                   /\ page[1] = "ended" => DOMAIN page[2] = FirstCalls(s)
                   /\ \A k \in DOMAIN page[2] : Tells(audit[k], page[2][k])
  /\ parts >= 3 => \A k \in DOMAIN page[2] : ToldBy(page[3], k, page[2][k])

PageShape ==
  /\ parts \in 0 .. 3
  /\ page = CASE parts = 0 -> <<>>
              [] parts = 1 -> <<page[1]>>
              [] parts = 2 -> <<page[1], page[2]>>
              [] parts = 3 -> <<page[1], page[2], page[3]>>

ReaderInv ==
  /\ subject \in {k \in Key : Exists(k)} \cup Session \cup {NoCall}
  /\ subject = NoCall => parts = 0
  /\ PageShape
  /\ subject \in Key => CallParts(subject)
  /\ subject \in Session => SessionParts(subject)

ViewInv == RowInv /\ ReaderInv

\* A row that is there is told of by its trail, and a success by its result.
LEMMA RowIsTold ==
  ASSUME RowInv, NEW k \in Key, Exists(k)
  PROVE  /\ audit[k] \in Seq(AuditEvent)
         /\ Tells(audit[k], call[k])
         /\ call[k].status = "succeeded" => result[k] = "valid"
<1>1. SoundRow(call[k], result[k], invoked[k], audit[k]) /\ audit[k] \in Seq(AuditEvent)
  BY DEF RowInv, Sound, IndInv, TypeOK
<1>2. \E n \in 1 .. Len(audit[k]) : audit[k][n] = EventOf(call[k])
  BY <1>1 DEF SoundRow, LastWord
<1> QED
  BY <1>1, <1>2 DEF SoundRow, Tells

\* The steps of the others leave the page, and what was read is still true.
LEMMA OthersKeepPage ==
  ASSUME ViewInv, [Next]_vars, UNCHANGED reader
  PROVE  ReaderInv'
<1>1. IndInv /\ RowInv /\ ReaderInv
  BY DEF ViewInv, RowInv
<1>2. TrailsGrow /\ ResultsStay /\ CallsGrow
  BY <1>1, StepGrowsTrails, StepKeepsResults, StepGrowsSessions
<1>3. IndInv'
  BY <1>1, StepInvariant
<1>4. \A k \in Key : audit[k] \in Seq(AuditEvent) /\ audit'[k] \in Seq(AuditEvent)
  BY <1>1, <1>3 DEF IndInv, TypeOK
<1>5. ASSUME NEW k \in Key, NEW row, Tells(audit[k], row) PROVE Tells(audit'[k], row)
  BY <1>2, <1>4, <1>5, TellsOn DEF TrailsGrow
<1>6. UNCHANGED <<subject, parts, page>>
  BY DEF reader
<1>7. ASSUME subject \in Key PROVE CallParts(subject)'
  BY <1>1, <1>2, <1>5, <1>6, <1>7 DEF ReaderInv, CallParts, ResultsStay
<1>8. ASSUME subject \in Session PROVE SessionParts(subject)'
  <2>1. /\ CallsOf(subject) \subseteq CallsOf(subject)'
        /\ session[subject] = "ended" => session'[subject] = "ended"
                                         /\ FirstCalls(subject)' = FirstCalls(subject)
    <3>1. PICK s \in Session : s = subject
      BY <1>8
    <3>2. /\ CallsOf(s) \subseteq CallsOf(s)'
          /\ session[s] = "ended" => session'[s] = "ended" /\ FirstCalls(s)' = FirstCalls(s)
      BY <1>2, FirstCallsStay DEF CallsGrow
    <3>3. CallsOf(s) = CallsOf(subject) /\ FirstCalls(s) = FirstCalls(subject)
      BY <3>1
    <3>4. CallsOf(s)' = CallsOf(subject)'
      BY <1>6, <3>1 DEF CallsOf
    <3>5. FirstCalls(s)' = FirstCalls(subject)'
      BY <1>6, <3>1, <3>4 DEF FirstCalls
    <3> QED
      BY <3>1, <3>2, <3>3, <3>4, <3>5
  <2>2. CallsOf(subject) \subseteq Key
    BY DEF CallsOf
  <2>3. ASSUME parts >= 2
        PROVE  /\ DOMAIN page[2] \subseteq CallsOf(subject)'
               /\ page[1] = "ended" => DOMAIN page[2] = FirstCalls(subject)'
               /\ \A k \in DOMAIN page[2] : Tells(audit'[k], page[2][k])
    <3>1. /\ DOMAIN page[2] \subseteq CallsOf(subject)
          /\ page[1] = "ended" => session[subject] = "ended" /\ DOMAIN page[2] = FirstCalls(subject)
          /\ \A k \in DOMAIN page[2] : Tells(audit[k], page[2][k])
      BY <1>1, <1>8, <2>3 DEF ReaderInv, SessionParts, PageShape
    <3>2. DOMAIN page[2] \subseteq CallsOf(subject)'
      BY <2>1, <3>1
    <3>3. page[1] = "ended" => DOMAIN page[2] = FirstCalls(subject)'
      BY <2>1, <3>1
    <3>4. \A k \in DOMAIN page[2] : Tells(audit'[k], page[2][k])
      BY <1>5, <2>2, <3>1
    <3> QED
      BY <3>2, <3>3, <3>4
  <2>4. /\ parts >= 1 /\ page[1] = "ended" => session'[subject] = "ended"
        /\ parts >= 3 => \A k \in DOMAIN page[2] : ToldBy(page[3], k, page[2][k])
    BY <1>1, <1>8, <2>1 DEF ReaderInv, SessionParts
  <2> QED
    BY <1>6, <2>3, <2>4 DEF SessionParts, CallsOf
<1>9. \A k \in Key : Exists(k) => Exists(k)'
  <2> SUFFICES ASSUME NEW k \in Key, Exists(k) PROVE Exists(k)'
    OBVIOUS
  <2>1. call[k].session \in Session /\ k \in CallsOf(call[k].session)
    BY <1>1 DEF IndInv, TypeOK, CallsOf, Exists, CallRow
  <2>2. PICK s \in Session : k \in CallsOf(s)
    BY <2>1
  <2> QED
    BY <1>2, <2>2 DEF CallsGrow, CallsOf
<1>10. PageShape'
  BY <1>1, <1>6 DEF ReaderInv, PageShape
<1> QED
  BY <1>1, <1>6, <1>7, <1>8, <1>9, <1>10 DEF ReaderInv

\* Which part is read next, and where it is found.
LEMMA CallOrder ==
  ASSUME subject \in Key
  PROVE  /\ Len(ReadOrder) = 3
         /\ ReadOrder[1] = "row" /\ ReadOrder[2] = "result" /\ ReadOrder[3] = "trail"
         /\ Of("row") = page[1] /\ Of("result") = page[2] /\ Of("trail") = page[3]
<1>1. ReadOrder = <<"row", "result", "trail">>
  BY SubjectAssumption DEF ReadOrder, CallPage
<1>2. /\ (CHOOSE n \in 1 .. 3 : ReadOrder[n] = "row") = 1
      /\ (CHOOSE n \in 1 .. 3 : ReadOrder[n] = "result") = 2
      /\ (CHOOSE n \in 1 .. 3 : ReadOrder[n] = "trail") = 3
  BY <1>1
<1> QED
  BY <1>1, <1>2 DEF Of

\* The statements of the page of a session, by number.
LEMMA SessionOrder ==
  ASSUME subject \in Session
  PROVE  /\ Len(ReadOrder) = 3
         /\ ReadOrder[1] = "session" /\ ReadOrder[2] = "calls" /\ ReadOrder[3] = "history"
         /\ Of("session") = page[1] /\ Of("calls") = page[2] /\ Of("history") = page[3]
<1>1. ReadOrder = <<"session", "calls", "history">>
  BY DEF ReadOrder, SessionPage
<1>2. /\ (CHOOSE n \in 1 .. 3 : ReadOrder[n] = "session") = 1
      /\ (CHOOSE n \in 1 .. 3 : ReadOrder[n] = "calls") = 2
      /\ (CHOOSE n \in 1 .. 3 : ReadOrder[n] = "history") = 3
  BY <1>1
<1> QED
  BY <1>1, <1>2 DEF Of

\* What a page is after the next part has been read.
LEMMA TuplesGrow ==
  /\ \A a, c : Append(<<a>>, c) = <<a, c>>
  /\ \A a, b, c : Append(<<a, b>>, c) = <<a, b, c>>
<1>1. ASSUME NEW a, NEW b, NEW c
      PROVE  Append(<<a>>, c) = <<a, c>> /\ Append(<<a, b>>, c) = <<a, b, c>>
  <2> DEFINE S == {a, b, c}
             one == Append(<<a>>, c)
             two == Append(<<a, b>>, c)
             t1 == <<a, c>>
             t2 == <<a, b, c>>
  <2>1. /\ <<a>> \in Seq(S) /\ <<a, b>> \in Seq(S) /\ c \in S
        /\ t1 \in Seq(S) /\ t2 \in Seq(S)
    OBVIOUS
  <2> HIDE DEF S
  <2>2. /\ one \in Seq(S) /\ Len(one) = 2 /\ one[1] = a /\ one[2] = c
        /\ two \in Seq(S) /\ Len(two) = 3 /\ two[1] = a /\ two[2] = b /\ two[3] = c
    BY <2>1
  <2>3. /\ Len(t1) = 2 /\ t1[1] = a /\ t1[2] = c
        /\ Len(t2) = 3 /\ t2[1] = a /\ t2[2] = b /\ t2[3] = c
    OBVIOUS
  <2> HIDE DEF one, two, t1, t2
  <2>4. one = t1
    <3>1. \A i \in 1 .. Len(one) : one[i] = t1[i]
      BY <2>2, <2>3
    <3> QED
      BY <2>1, <2>2, <2>3, <3>1, SeqEqual
  <2>5. two = t2
    <3>1. \A i \in 1 .. Len(two) : two[i] = t2[i]
      BY <2>2, <2>3
    <3> QED
      BY <2>1, <2>2, <2>3, <3>1, SeqEqual
  <2> QED
    BY <2>4, <2>5 DEF one, two, t1, t2
<1> QED
  BY <1>1

\* A statement adds its part to the page.
LEMMA PartAdded ==
  ASSUME PageShape, NEW part, parts < 3, page' = Append(page, part), parts' = parts + 1
  PROVE  /\ PageShape'
         /\ page'[parts + 1] = part
         /\ \A n \in 1 .. parts : page'[n] = page[n]
<1>1. CASE parts = 0
  <2>1. page' = <<part>>
    BY <1>1 DEF PageShape
  <2> QED
    BY <1>1, <2>1 DEF PageShape
<1>2. CASE parts = 1
  <2>1. PICK a : a = page[1] /\ page = <<a>>
    BY <1>2 DEF PageShape
  <2>2. page' = <<page[1], part>>
    BY <2>1, TuplesGrow
  <2> QED
    BY <1>2, <2>2 DEF PageShape
<1>3. CASE parts = 2
  <2>1. PICK a, b : a = page[1] /\ b = page[2] /\ page = <<a, b>>
    BY <1>3 DEF PageShape
  <2>2. page' = <<page[1], page[2], part>>
    BY <2>1, TuplesGrow
  <2> QED
    BY <1>3, <2>2 DEF PageShape
<1> QED
  BY <1>1, <1>2, <1>3 DEF PageShape

\* The next statement finds the tables to be what the parts that were read before it say.
LEMMA ReadPartKeepsPage ==
  ASSUME ViewInv, ReadPart
  PROVE  ReaderInv'
<1>1. IndInv /\ RowInv /\ ReaderInv
  BY DEF ViewInv, RowInv
<1>2. UNCHANGED <<call, result, audit, session, subject>> /\ parts' = parts + 1
  BY DEF ReadPart, vars
<1>3. CASE subject \in Key
  <2>1. parts < 3 /\ \E part \in PartOf(ReadOrder[parts + 1]) : page' = Append(page, part)
    BY <1>3, CallOrder DEF ReadPart
  <2>2. /\ PageShape'
        /\ page'[parts + 1] \in PartOf(ReadOrder[parts + 1])
        /\ \A n \in 1 .. parts : page'[n] = page[n]
    BY <1>1, <1>2, <2>1, PartAdded DEF ReaderInv
  <2>3. /\ Tells(audit[subject], call[subject])
        /\ call[subject].status = "succeeded" => result[subject] = "valid"
    BY <1>1, <1>3, SubjectAssumption, RowIsTold DEF ReaderInv
  <2>4. CallParts(subject)'
    <3>1. CASE parts = 0
      <4>1. page'[1] = call[subject]
        BY <1>3, <2>2, <3>1, CallOrder DEF PartOf
      <4> QED
        BY <1>2, <2>3, <3>1, <4>1 DEF CallParts
    <3>2. CASE parts = 1
      <4>1. page'[1] = page[1] /\ page'[2] = result[subject]
        BY <1>3, <2>2, <3>2, CallOrder DEF PartOf
      <4> QED
        BY <1>1, <1>2, <1>3, <3>2, <4>1 DEF ReaderInv, CallParts
    <3>3. CASE parts = 2
      <4>1. page'[1] = page[1] /\ page'[2] = page[2] /\ page'[3] \in EventsOf({subject})
        BY <1>3, <2>2, <3>3, CallOrder DEF PartOf
      <4>2. page'[3].cut \/ page'[3].trail[subject] = audit[subject]
        BY <4>1, UncutListsAreComplete
      <4>3. Tells(audit[subject], page[1])
        BY <1>1, <1>3, <3>3 DEF ReaderInv, CallParts
      <4>4. ToldBy(page'[3], subject, page'[1])
        BY <4>1, <4>2, <4>3 DEF ToldBy
      <4> QED
        BY <1>1, <1>2, <1>3, <3>3, <4>1, <4>4 DEF ReaderInv, CallParts
    <3> QED
      BY <1>1, <2>1, <3>1, <3>2, <3>3 DEF ReaderInv, PageShape
  <2> QED
    BY <1>1, <1>2, <1>3, <2>2, <2>4, SubjectAssumption DEF ReaderInv, Exists
<1>4. CASE subject \in Session
  <2>1. parts < 3 /\ \E part \in PartOf(ReadOrder[parts + 1]) : page' = Append(page, part)
    BY <1>4, SessionOrder DEF ReadPart
  <2>2. /\ PageShape'
        /\ page'[parts + 1] \in PartOf(ReadOrder[parts + 1])
        /\ \A n \in 1 .. parts : page'[n] = page[n]
    BY <1>1, <1>2, <2>1, PartAdded DEF ReaderInv
  <2>3. \A k \in CallsOf(subject) : Tells(audit[k], call[k])
    BY <1>1, RowIsTold DEF CallsOf
  <2>4. CallsOf(subject)' = CallsOf(subject) /\ FirstCalls(subject)' = FirstCalls(subject)
    BY <1>2 DEF FirstCalls, CallsOf, Exists
  <2> FirstCalls(subject) \subseteq CallsOf(subject)
    BY DEF FirstCalls
  <2>5. SessionParts(subject)'
    <3>1. CASE parts = 0
      <4>1. page'[1] = session[subject]
        BY <1>4, <2>2, <3>1, SessionOrder DEF PartOf
      <4> QED
        BY <1>2, <3>1, <4>1 DEF SessionParts
    <3>2. CASE parts = 1
      <4>1. page'[1] = page[1] /\ page'[2] = [k \in FirstCalls(subject) |-> call[k]]
        BY <1>4, <2>2, <3>2, SessionOrder DEF PartOf
      <4>2. DOMAIN page'[2] = FirstCalls(subject)
            /\ \A k \in FirstCalls(subject) : page'[2][k] = call[k]
        BY <4>1
      <4>3. page'[1] = "ended" => session[subject] = "ended"
        BY <1>1, <1>4, <3>2, <4>1 DEF ReaderInv, SessionParts
      <4> QED
        BY <1>2, <2>3, <2>4, <3>2, <4>2, <4>3 DEF SessionParts
    <3>3. CASE parts = 2
      <4>1. /\ page'[1] = page[1] /\ page'[2] = page[2]
            /\ page'[3] \in EventsOf(CallsOf(subject))
        BY <1>4, <2>2, <3>3, SessionOrder DEF PartOf
      <4>2. /\ DOMAIN page[2] \subseteq CallsOf(subject)
            /\ page[1] = "ended" => session[subject] = "ended" /\ DOMAIN page[2] = FirstCalls(subject)
            /\ \A k \in DOMAIN page[2] : Tells(audit[k], page[2][k])
        BY <1>1, <1>4, <3>3 DEF ReaderInv, SessionParts
      <4>3. page'[3].cut \/ \A k \in DOMAIN page[2] : page'[3].trail[k] = audit[k]
        BY <4>1, <4>2, UncutListsAreComplete
      <4>4. \A k \in DOMAIN page'[2] : ToldBy(page'[3], k, page'[2][k])
        BY <4>1, <4>2, <4>3 DEF ToldBy
      <4> QED
        BY <1>2, <2>4, <3>3, <4>1, <4>2, <4>4 DEF SessionParts
    <3> QED
      BY <1>1, <2>1, <3>1, <3>2, <3>3 DEF ReaderInv, PageShape
  <2> QED
    BY <1>1, <1>2, <1>4, <2>2, <2>5, SubjectAssumption DEF ReaderInv
<1> QED
  BY <1>1, <1>3, <1>4 DEF ReaderInv, ReadPart

\* A page that is opened has nothing to be wrong yet.
LEMMA OpenKeepsPage ==
  ASSUME ViewInv, Open
  PROVE  ReaderInv'
<1>1. parts = 0 /\ PageShape /\ UNCHANGED <<parts, page, call>>
  BY DEF ViewInv, ReaderInv, Open, vars
<1>2. subject' \in {k \in Key : Exists(k)} \cup Session
  BY DEF Open
<1>3. \A k \in Key : CallParts(k)'
  BY <1>1 DEF CallParts
<1>4. \A s \in Session : SessionParts(s)'
  BY <1>1 DEF SessionParts
<1>5. PageShape'
  BY <1>1 DEF PageShape
<1> QED
  BY <1>1, <1>2, <1>3, <1>4, <1>5, SubjectAssumption DEF ReaderInv, Exists, CallParts, SessionParts

-----------------------------------------------------------------------------
(* Theorems                                                                *)

\* To read a page changes nothing: what holds of the execution of calls holds while they are shown.
THEOREM ReadersOnlyRead == ViewSpec => Spec
<1>1. [ViewNext]_ViewVars => [Next]_vars
  BY DEF ViewNext, ViewVars, Open, ReadPart
<1> QED
  BY <1>1, PTL DEF ViewSpec, ViewInit, Spec

\* What has been read of a page is still true, or was when it was last compared with the tables.
THEOREM ReaderInvariance == ViewSpec => []ViewInv
<1>1. ViewInit => ViewInv
  <2> SUFFICES ASSUME ViewInit PROVE ViewInv
    OBVIOUS
  <2>1. RowInv
    BY InitRows DEF ViewInit
  <2>2. ReaderInv
    BY SubjectAssumption DEF ViewInit, ReaderInv, PageShape, CallParts, SessionParts
  <2> QED
    BY <2>1, <2>2 DEF ViewInv
<1>2. ViewInv /\ [ViewNext]_ViewVars => ViewInv'
  <2> SUFFICES ASSUME ViewInv, [ViewNext]_ViewVars PROVE ViewInv'
    OBVIOUS
  <2>1. [Next]_vars
    BY DEF ViewNext, ViewVars, Open, ReadPart
  <2>2. RowInv'
    BY <2>1, StepRows DEF ViewInv
  <2>3. CASE UNCHANGED reader
    BY <2>1, <2>2, <2>3, OthersKeepPage DEF ViewInv
  <2>4. CASE Open
    BY <2>2, <2>4, OpenKeepsPage DEF ViewInv
  <2>5. CASE ReadPart
    BY <2>2, <2>5, ReadPartKeepsPage DEF ViewInv
  <2> QED
    BY <2>2, <2>3, <2>4, <2>5 DEF ViewInv, ViewNext, ViewVars
<1> QED
  BY <1>1, <1>2, PTL DEF ViewSpec

\* Whatever is executed, recovered or overwritten between the three statements of its page, a call
\* is shown with the result and, where the page does not end before, the history that belong to the
\* status and the flag it is shown with.
THEOREM CallPagesAreCoherent == ViewSpec => []CallPageCoherent
<1>1. ViewInv => CallPageCoherent
  <2> SUFFICES ASSUME ViewInv, subject \in Key, parts = Len(ReadOrder)
               PROVE  /\ Of("row").status = "succeeded" => Of("result") = "valid"
                      /\ ToldBy(Of("trail"), subject, Of("row"))
    BY DEF CallPageCoherent, Shown
  <2>1. CallParts(subject) /\ parts = 3
    BY CallOrder DEF ViewInv, ReaderInv
  <2> QED
    BY <2>1, CallOrder DEF CallParts
<1> QED
  BY <1>1, ReaderInvariance, PTL

\* A session shown as ended is shown with the first of its calls, as many as the page takes, and
\* every call with a history that tells of it where the page does not end before.
THEOREM SessionPagesAreComplete == ViewSpec => []SessionPageComplete
<1>1. ViewInv => SessionPageComplete
  <2> SUFFICES ASSUME ViewInv, subject \in Session, parts = Len(ReadOrder)
               PROVE  /\ Of("session") = "ended" => DOMAIN Of("calls") = FirstCalls(subject)
                      /\ \A k \in DOMAIN Of("calls") :
                           ToldBy(Of("history"), k, Of("calls")[k])
    BY DEF SessionPageComplete, Shown
  <2>1. SessionParts(subject) /\ parts = 3
    BY SessionOrder DEF ViewInv, ReaderInv
  <2> QED
    BY <2>1, SessionOrder DEF SessionParts
<1> QED
  BY <1>1, ReaderInvariance, PTL

\* A session that has ended with no more calls than the page takes is shown with every one of them.
ShortSessionInFull ==
  Shown(Session) /\ Of("session") = "ended" /\ Cardinality(CallsOf(subject)) <= CallLimit =>
    DOMAIN Of("calls") = CallsOf(subject)

\* The limit on the calls of a page is the only reason for which one that was made is not shown.
THEOREM ShortSessionsAreShownInFull == ViewSpec => []ShortSessionInFull
<1>1. ViewInv /\ SessionPageComplete => ShortSessionInFull
  BY ShortSessionsFit DEF ViewInv, RowInv, SessionPageComplete, ShortSessionInFull, Shown
<1> QED
  BY <1>1, ReaderInvariance, SessionPagesAreComplete, PTL

=============================================================================
