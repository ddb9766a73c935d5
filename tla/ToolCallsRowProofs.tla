------------------------- MODULE ToolCallsRowProofs -------------------------
(***************************************************************************)
(* Proofs about the rows that ToolCalls writes: status, decision, matched  *)
(* rules, result metadata, audit trail and the adapter's effect belong     *)
(* together, for every set of requests, keys and rules, and whether or not *)
(* recovery may overtake a live execution.                                 *)
(***************************************************************************)
EXTENDS ToolCallsProofs, SequenceTheorems

-----------------------------------------------------------------------------
(* Audit trails                                                            *)

\* How the events of one step are grouped does not matter.
LEMMA Regroup == \A s, t, u \in Seq(AuditEvent) : s \o (t \o u) = (s \o t) \o u
<1> SUFFICES ASSUME NEW s \in Seq(AuditEvent), NEW t \in Seq(AuditEvent), NEW u \in Seq(AuditEvent)
             PROVE  (s \o t) \o u = s \o (t \o u)
  OBVIOUS
<1> QED
  BY ConcatAssociative

\* A trail is flagged once one of its parts is.
LEMMA FlagAdded ==
  ASSUME NEW s \in Seq(AuditEvent), NEW t \in Seq(AuditEvent)
  PROVE  FlaggedIn(s \o t) <=> FlaggedIn(s) \/ FlaggedIn(t)
<1>1. ASSUME FlaggedIn(s \o t) PROVE FlaggedIn(s) \/ FlaggedIn(t)
  <2>1. PICK i \in 1 .. Len(s \o t) : (s \o t)[i] = "flagged"
    BY <1>1 DEF FlaggedIn
  <2>2. CASE i <= Len(s)
    BY <2>1, <2>2 DEF FlaggedIn
  <2>3. CASE i > Len(s)
    <3>1. i - Len(s) \in 1 .. Len(t) /\ t[i - Len(s)] = "flagged"
      BY <2>1, <2>3
    <3> QED
      BY <3>1 DEF FlaggedIn
  <2> QED
    BY <2>1, <2>2, <2>3
<1>2. ASSUME FlaggedIn(s) PROVE FlaggedIn(s \o t)
  <2>1. PICK i \in 1 .. Len(s) : s[i] = "flagged"
    BY <1>2 DEF FlaggedIn
  <2>2. i \in 1 .. Len(s \o t) /\ (s \o t)[i] = "flagged"
    BY <2>1
  <2> QED
    BY <2>2 DEF FlaggedIn
<1>3. ASSUME FlaggedIn(t) PROVE FlaggedIn(s \o t)
  <2>1. PICK i \in 1 .. Len(t) : t[i] = "flagged"
    BY <1>3 DEF FlaggedIn
  <2>2. i + Len(s) \in 1 .. Len(s \o t) /\ (s \o t)[i + Len(s)] = "flagged"
    BY <2>1
  <2> QED
    BY <2>2 DEF FlaggedIn
<1> QED
  BY <1>1, <1>2, <1>3

\* The last word of what is added is the last word of the whole,
LEMMA LastWordAdded ==
  ASSUME NEW s \in Seq(AuditEvent), NEW t \in Seq(AuditEvent), NEW e, LastWord(t, e)
  PROVE  LastWord(s \o t, e)
<1>1. PICK i \in 1 .. Len(t) : t[i] = e /\ \A j \in i + 1 .. Len(t) : t[j] \in Remarks
  BY DEF LastWord
<1> DEFINE n == i + Len(s)
<1>2. n \in 1 .. Len(s \o t) /\ (s \o t)[n] = e
  BY <1>1
<1>3. ASSUME NEW j \in n + 1 .. Len(s \o t) PROVE (s \o t)[j] \in Remarks
  <2>1. j - Len(s) \in i + 1 .. Len(t) /\ (s \o t)[j] = t[j - Len(s)]
    BY <1>3
  <2> QED
    BY <1>1, <2>1
<1> QED
  BY <1>2, <1>3 DEF LastWord

\* and remarks leave it as it was.
LEMMA LastWordKept ==
  ASSUME NEW s \in Seq(AuditEvent), NEW t \in Seq(AuditEvent), NEW e, LastWord(s, e),
         \A j \in 1 .. Len(t) : t[j] \in Remarks
  PROVE  LastWord(s \o t, e)
<1>1. PICK i \in 1 .. Len(s) : s[i] = e /\ \A j \in i + 1 .. Len(s) : s[j] \in Remarks
  BY DEF LastWord
<1>2. i \in 1 .. Len(s \o t) /\ (s \o t)[i] = e
  BY <1>1
<1>3. ASSUME NEW j \in i + 1 .. Len(s \o t) PROVE (s \o t)[j] \in Remarks
  <2>1. CASE j <= Len(s)
    BY <1>1, <1>3, <2>1
  <2>2. CASE j > Len(s)
    <3>1. j - Len(s) \in 1 .. Len(t) /\ (s \o t)[j] = t[j - Len(s)]
      BY <1>3, <2>2
    <3> QED
      BY <3>1
  <2> QED
    BY <1>3, <2>1, <2>2
<1> QED
  BY <1>2, <1>3 DEF LastWord

\* The events the steps write, one or two at a time.
LEMMA OneEvent ==
  ASSUME NEW e \in AuditEvent
  PROVE  /\ <<e>> \in Seq(AuditEvent)
         /\ LastWord(<<e>>, e)
         /\ FlaggedIn(<<e>>) <=> e = "flagged"
         /\ e \in Remarks => \A j \in 1 .. Len(<<e>>) : <<e>>[j] \in Remarks
BY DEF LastWord, FlaggedIn

LEMMA NoEvent ==
  /\ <<>> \in Seq(AuditEvent) /\ ~FlaggedIn(<<>>)
  /\ \A j \in 1 .. Len(<<>>) : <<>>[j] \in Remarks
BY DEF FlaggedIn

\* What a trail becomes: a status event, with or without the flag before it.
LEMMA WordAppended ==
  ASSUME NEW s \in Seq(AuditEvent), NEW e \in AuditEvent
  PROVE  /\ s \o <<e>> \in Seq(AuditEvent) /\ LastWord(s \o <<e>>, e)
         /\ FlaggedIn(s \o <<e>>) <=> FlaggedIn(s) \/ e = "flagged"
<1>1. s \o <<e>> \in Seq(AuditEvent)
  BY OneEvent
<1> QED
  BY <1>1, OneEvent, LastWordAdded, FlagAdded

LEMMA NoteAppended ==
  ASSUME NEW s \in Seq(AuditEvent), NEW dec, NEW w, LastWord(s, w)
  PROVE  /\ s \o FlagNote(dec) \in Seq(AuditEvent) /\ LastWord(s \o FlagNote(dec), w)
         /\ FlaggedIn(s \o FlagNote(dec)) <=> FlaggedIn(s) \/ dec = "flag"
<1>1. CASE dec = "flag"
  <2>1. FlagNote(dec) = <<"flagged">> /\ "flagged" \in AuditEvent /\ "flagged" \in Remarks
    BY <1>1 DEF FlagNote, AuditEvent, Remarks
  <2>2. s \o <<"flagged">> \in Seq(AuditEvent)
    BY <2>1, OneEvent
  <2> QED
    BY <1>1, <2>1, <2>2, OneEvent, LastWordKept, FlagAdded
<1>2. CASE dec # "flag"
  <2>1. FlagNote(dec) = <<>>
    BY <1>2 DEF FlagNote
  <2>2. s \o <<>> = s
    OBVIOUS
  <2> QED
    BY <1>2, <2>1, <2>2
<1> QED
  BY <1>1, <1>2

-----------------------------------------------------------------------------
(* What a row says                                                         *)

\* A row with decision and status that belong together.
Decided(c) ==
  /\ c.status = "rejected" <=> c.decision = "reject"
  /\ c.status = "blocked" <=> c.decision = "block"

\* The row c, with metadata m and audit trail s, of a call whose adapter was entered n times.
SoundRow(c, m, n, s) ==
  /\ n > 0 => c.status \in {"executing", "succeeded", "failed", "timed_out"}
  /\ c.status \in {"evaluating", "executing"} => c.matched \cap BlockRules = {}
  /\ Decided(c)
  /\ c.status = "succeeded" <=> m = "valid"
  /\ c.status = "succeeded" => n = 1
  /\ m = "invalid" => c.status = "failed" /\ c.error = "invalid_tool_result"
  /\ c.error = "execution_state_unknown" => c.status = "failed"
  /\ c.decision # "block" => (c.decision = "flag" <=> FlaggedIn(s))
  /\ LastWord(s, EventOf(c))

Sound(k) ==
  IF Exists(k) THEN SoundRow(call[k], result[k], invoked[k], audit[k])
               ELSE result[k] = "none" /\ invoked[k] = 0 /\ audit[k] = <<>>

\* The status of the row by where its request stands.
Stage(p) == IF p \in {"received", "validating"} THEN p
            ELSE IF p = "evaluated" THEN "evaluating" ELSE "executing"

Late == {"executing", "running", "judged"}
Recovered(c) == c.status = "failed" /\ c.error = "execution_state_unknown"

\* The copy h in the hands of a request at p, the row c it was written to, and the n entries of
\* the adapter: only recovery has come between, and only the result phase has raised the copy.
InStep(p, h, c, n) ==
  /\ h.decision \in {"allow", "flag"} /\ c.decision \in {"allow", "flag"}
  /\ c.status = Stage(p) \/ (p \in Late /\ Recovered(c))
  /\ c.decision = h.decision \/ (p = "judged" /\ h.decision = "flag")
  /\ p \in {"received", "validating"} => c.decision = "allow"
  /\ p # "judged" => h.matched \cap BlockRules = {}
  /\ p \in {"running", "judged"} => n = 1

\* What is about to be inserted.
Fresh(c) == c.status = "received" /\ c.decision = "allow" /\ c.matched = {} /\ c.error = "none"

Holds(r) ==
  /\ pc[r] = "locked" => Fresh(held[r])
  /\ pc[r] \in Working => InStep(pc[r], held[r], call[KeyOf(r)], invoked[KeyOf(r)])

RowInv == IndInv /\ (\A r \in Request : Holds(r)) /\ (\A k \in Key : Sound(k))

\* The step leaves every decision at least as strict as it was.
Firm == \A k \in Key : Exists(k) /\ call[k].decision # "allow" => call'[k].decision # "allow"

-----------------------------------------------------------------------------
(* One request and its row                                                 *)

\* What a request at work finds.
LEMMA AtWork ==
  ASSUME RowInv, NEW r \in Request, pc[r] \in Working
  PROVE  /\ KeyOf(r) \in Key /\ held[r] \in CallRow /\ call[KeyOf(r)] \in CallRow
         /\ result[KeyOf(r)] = "none" /\ audit[KeyOf(r)] \in Seq(AuditEvent)
         /\ invoked[KeyOf(r)] \in Nat
         /\ pc[r] \in Early => invoked[KeyOf(r)] = 0
         /\ InStep(pc[r], held[r], call[KeyOf(r)], invoked[KeyOf(r)])
         /\ SoundRow(call[KeyOf(r)], "none", invoked[KeyOf(r)], audit[KeyOf(r)])
<1>1. KeyOf(r) \in Key
  BY DEF RowInv, IndInv, HasRequest, Working, RequestBody, KeyOf
<1>2. held[r] \in CallRow /\ call[KeyOf(r)] \in CallRow /\ result[KeyOf(r)] = "none"
  BY DEF RowInv, IndInv, OwnsRow, NotYetFinalized
<1>3. Exists(KeyOf(r))
  BY <1>2, RowExists DEF Exists
<1>4. SoundRow(call[KeyOf(r)], "none", invoked[KeyOf(r)], audit[KeyOf(r)])
  BY <1>1, <1>2, <1>3 DEF RowInv, Sound
<1>5. audit[KeyOf(r)] \in Seq(AuditEvent) /\ invoked[KeyOf(r)] \in Nat
  BY <1>1 DEF RowInv, IndInv, TypeOK
<1>6. pc[r] \in Early => invoked[KeyOf(r)] = 0
  BY DEF RowInv, IndInv, NotYetEntered
<1>7. InStep(pc[r], held[r], call[KeyOf(r)], invoked[KeyOf(r)])
  BY DEF RowInv, Holds
<1> QED
  BY <1>1, <1>2, <1>4, <1>5, <1>6, <1>7

\* A step of a request on its row concerns no other request and no other row.
LEMMA OnOwnRow ==
  ASSUME RowInv, IndInv', NEW r \in Request, pc[r] \in Working, NEW k \in Key, k = KeyOf(r),
         NEW where \in Working \cup {"answered"}, NEW h, NEW c \in CallRow,
         req' = req, pc' = [pc EXCEPT ![r] = where], held' = [held EXCEPT ![r] = h],
         call' = [call EXCEPT ![k] = c],
         \A j \in Key \ {k} : result'[j] = result[j] /\ audit'[j] = audit[j] /\ invoked'[j] = invoked[j],
         SoundRow(c, result'[k], invoked'[k], audit'[k]),
         where \in Working => InStep(where, h, c, invoked'[k]),
         call[k].decision # "allow" => c.decision # "allow"
  PROVE  RowInv' /\ Firm
<1>1. call'[k] = c /\ \A j \in Key \ {k} : call'[j] = call[j]
  BY DEF RowInv, IndInv, TypeOK
<1>2. /\ pc'[r] = where /\ held'[r] = h
      /\ \A q \in Request \ {r} : pc'[q] = pc[q] /\ held'[q] = held[q]
  BY DEF RowInv, IndInv, TypeOK
<1>3. ASSUME NEW q \in Request PROVE Holds(q)'
  <2>1. CASE q = r
    <3>1. pc'[r] # "locked"
      BY <1>2 DEF Working
    <3>2. KeyOf(r)' = k
      BY DEF KeyOf
    <3> QED
      BY <1>1, <1>2, <2>1, <3>1, <3>2 DEF Holds, Working
  <2>2. CASE q # r
    <3>1. Holds(q) /\ pc'[q] = pc[q] /\ held'[q] = held[q] /\ KeyOf(q)' = KeyOf(q)
      BY <1>2, <2>2 DEF RowInv, KeyOf
    <3>2. pc[q] \in Working => KeyOf(q) \in Key \ {k}
      <4>1. pc[q] \in Working => KeyOf(q) # KeyOf(r)
        BY <2>2 DEF RowInv, IndInv, OneOwner
      <4>2. pc[q] \in Working => KeyOf(q) \in Key
        BY DEF RowInv, IndInv, HasRequest, Working, RequestBody, KeyOf
      <4> QED
        BY <4>1, <4>2
    <3> QED
      BY <1>1, <3>1, <3>2 DEF Holds
  <2> QED
    BY <2>1, <2>2
<1>4. ASSUME NEW j \in Key PROVE Sound(j)'
  <2>1. CASE j = k
    <3>1. Exists(k)'
      BY <1>1, RowExists DEF Exists
    <3> QED
      BY <1>1, <2>1, <3>1 DEF Sound
  <2>2. CASE j # k
    <3>1. Sound(j) /\ call'[j] = call[j] /\ result'[j] = result[j] /\ audit'[j] = audit[j]
          /\ invoked'[j] = invoked[j]
      BY <1>1, <2>2 DEF RowInv
    <3> QED
      BY <3>1 DEF Sound, Exists
  <2> QED
    BY <2>1, <2>2
<1>5. Firm
  BY <1>1 DEF Firm
<1> QED
  BY <1>3, <1>4, <1>5 DEF RowInv

-----------------------------------------------------------------------------
(* The steps of a request at work                                          *)

\* transition_to decides a rejected and a blocked call by its status.
LEMMA TransitionDecides ==
  ASSUME NEW c \in CallRow, NEW st \in Status, NEW dec \in Decision, NEW code \in ErrorCode
  PROVE  /\ st = "rejected" => TransitionTo(c, st, dec, code).decision = "reject"
         /\ st = "blocked" => TransitionTo(c, st, dec, code).decision = "block"
         /\ st \notin {"rejected", "blocked"} => TransitionTo(c, st, dec, code).decision = dec
BY DEF TransitionTo, CallRow

\* _transition to the end of a call.
LEMMA SettleRow ==
  ASSUME RowInv, IndInv', NEW r \in Request, NEW st \in Status, NEW code \in ErrorCode,
         NEW event \in AuditEvent, NEW a, Settle(r, st, code, event, a),
         \/ st = "rejected" /\ pc[r] = "validating" /\ event = "failed"
         \/ st = "failed" /\ pc[r] \in {"executing", "running"} /\ event = "failed"
         \/ st = "timed_out" /\ pc[r] = "running" /\ event = "timed_out",
         code # "execution_state_unknown"
  PROVE  RowInv' /\ Firm
<1> DEFINE k == KeyOf(r)
           h == held[r]
           c == TransitionTo(h, st, h.decision, code)
<1>w. pc[r] \in Working
  BY DEF Working
<1>1. /\ k \in Key /\ h \in CallRow /\ call[k] \in CallRow /\ result[k] = "none"
      /\ audit[k] \in Seq(AuditEvent) /\ invoked[k] \in Nat
      /\ pc[r] \in Early => invoked[k] = 0
      /\ InStep(pc[r], h, call[k], invoked[k]) /\ SoundRow(call[k], "none", invoked[k], audit[k])
  BY <1>w, AtWork
<1>2. h.decision \in {"allow", "flag"} /\ h.decision = call[k].decision
  BY <1>1 DEF InStep
<1>3. /\ c \in CallRow /\ c.status = st /\ c.error = code /\ c.matched = h.matched
      /\ st = "rejected" => c.decision = "reject"
      /\ st # "rejected" => c.decision = h.decision
  <2>1. h.decision \in Decision
    BY <1>2 DEF Decision
  <2> QED
    BY <1>1, <2>1, TransitionKeeps, TransitionDecides
<1>4. /\ call' = [call EXCEPT ![k] = c]
      /\ audit' = [audit EXCEPT ![k] = @ \o <<event>>]
      /\ pc' = [pc EXCEPT ![r] = "answered"] /\ held' = [held EXCEPT ![r] = NoCall]
      /\ req' = req /\ result' = result /\ invoked' = invoked
  BY DEF Settle, Store, Reply
<1>5. audit'[k] = audit[k] \o <<event>> /\ \A j \in Key \ {k} : audit'[j] = audit[j]
  BY <1>1, <1>4 DEF RowInv, IndInv, TypeOK
<1>6. /\ LastWord(audit'[k], event)
      /\ FlaggedIn(audit'[k]) <=> FlaggedIn(audit[k])
  <2>1. event # "flagged"
    OBVIOUS
  <2> QED
    BY <1>1, <1>5, <2>1, WordAppended
<1>7. EventOf(c) = event
  BY <1>3 DEF EventOf
<1>8. /\ st = "rejected" => invoked[k] = 0 /\ call[k].decision = "allow"
      /\ call[k].decision # "block" => (call[k].decision = "flag" <=> FlaggedIn(audit[k]))
  BY <1>1 DEF SoundRow, InStep, Early
<1> HIDE DEF c, h, k
<1>9. SoundRow(c, result'[k], invoked'[k], audit'[k])
  BY <1>1, <1>2, <1>3, <1>4, <1>6, <1>7, <1>8 DEF SoundRow, Decided
<1>10. call[k].decision # "allow" => c.decision # "allow"
  BY <1>2, <1>3
<1>11. k = KeyOf(r)
  BY DEF k
<1> QED
  BY <1>w, <1>1, <1>3, <1>4, <1>5, <1>9, <1>10, <1>11, OnOwnRow DEF Working

\* _finalize of a result that is invalid, or valid and judged.
LEMMA FinalizeRow ==
  ASSUME RowInv, IndInv', NEW r \in Request, NEW st, NEW dec \in {"allow", "flag"},
         NEW code, NEW m, NEW a, Finalize(r, st, dec, code, m, a),
         \/ st = "failed" /\ pc[r] = "running" /\ code = "invalid_tool_result" /\ m = "invalid"
         \/ st = "succeeded" /\ pc[r] = "judged" /\ code = "none" /\ m = "valid",
         held[r].decision = "flag" => dec = "flag"
  PROVE  RowInv' /\ Firm
<1> DEFINE k == KeyOf(r)
           h == held[r]
           c == TransitionTo(h, st, dec, code)
           event == IF st = "succeeded" THEN "completed" ELSE "failed"
<1>w. pc[r] \in Working
  BY DEF Working
<1>1. /\ k \in Key /\ h \in CallRow /\ call[k] \in CallRow /\ result[k] = "none"
      /\ audit[k] \in Seq(AuditEvent) /\ invoked[k] \in Nat
      /\ InStep(pc[r], h, call[k], invoked[k]) /\ SoundRow(call[k], "none", invoked[k], audit[k])
  BY <1>w, AtWork
<1>2. /\ call[k].decision \in {"allow", "flag"} /\ invoked[k] = 1
      /\ call[k].decision = "flag" => dec = "flag"
  BY <1>1 DEF InStep
<1>3. /\ c \in CallRow /\ c.status = st /\ c.error = code /\ c.matched = h.matched
      /\ c.decision = dec
  <2>1. dec \in Decision /\ st \in Status /\ code \in ErrorCode
    BY DEF Decision, Status, ErrorCode
  <2> QED
    BY <1>1, <2>1, TransitionKeeps, TransitionDecides
<1>4. /\ call' = [call EXCEPT ![k] = c]
      /\ audit' = [audit EXCEPT ![k] = @ \o (FlagNote(dec) \o <<event>>)]
      /\ pc' = [pc EXCEPT ![r] = "answered"] /\ held' = [held EXCEPT ![r] = NoCall]
      /\ req' = req /\ result' = [result EXCEPT ![k] = m] /\ invoked' = invoked
  BY <1>1 DEF Finalize, Store, Reply
<1>5. /\ audit'[k] = audit[k] \o (FlagNote(dec) \o <<event>>) /\ \A j \in Key \ {k} : audit'[j] = audit[j]
      /\ result'[k] = m /\ \A j \in Key \ {k} : result'[j] = result[j]
  BY <1>1, <1>4 DEF RowInv, IndInv, TypeOK
<1>6. /\ LastWord(audit'[k], event)
      /\ FlaggedIn(audit'[k]) <=> FlaggedIn(audit[k]) \/ dec = "flag"
  <2>1. FlagNote(dec) \in Seq(AuditEvent) /\ event \in AuditEvent /\ event # "flagged"
    <3>1. event \in AuditEvent /\ event # "flagged" /\ "flagged" \in AuditEvent
      BY DEF AuditEvent
    <3>2. CASE dec = "flag"
      BY <3>1, <3>2, OneEvent DEF FlagNote
    <3>3. CASE dec # "flag"
      BY <3>1, <3>3, NoEvent DEF FlagNote
    <3> QED
      BY <3>1, <3>2, <3>3
  <2>2. LastWord(audit[k], EventOf(call[k]))
    BY <1>1 DEF SoundRow
  <2>3. audit'[k] = (audit[k] \o FlagNote(dec)) \o <<event>>
    <3>1. <<event>> \in Seq(AuditEvent)
      BY <2>1, OneEvent
    <3> QED
      BY <1>1, <1>5, <2>1, <3>1, Regroup
  <2>4. /\ audit[k] \o FlagNote(dec) \in Seq(AuditEvent)
        /\ FlaggedIn(audit[k] \o FlagNote(dec)) <=> FlaggedIn(audit[k]) \/ dec = "flag"
    BY <1>1, <2>2, NoteAppended
  <2> DEFINE s == audit[k] \o FlagNote(dec)
  <2>5. s \in Seq(AuditEvent) /\ audit'[k] = s \o <<event>>
    BY <2>3, <2>4
  <2> HIDE DEF event, s
  <2>6. LastWord(audit'[k], event) /\ (FlaggedIn(audit'[k]) <=> FlaggedIn(s))
    BY <2>1, <2>5, WordAppended
  <2> QED
    BY <2>4, <2>6 DEF s
<1>7. EventOf(c) = event
  BY <1>3 DEF EventOf
<1>8. call[k].decision = "flag" <=> FlaggedIn(audit[k])
  BY <1>1, <1>2 DEF SoundRow
<1> HIDE DEF c, h, k, event
<1>9. SoundRow(c, result'[k], invoked'[k], audit'[k])
  BY <1>1, <1>2, <1>3, <1>4, <1>5, <1>6, <1>7, <1>8 DEF SoundRow, Decided
<1>10. call[k].decision # "allow" => c.decision # "allow"
  BY <1>2, <1>3
<1>11. k = KeyOf(r)
  BY DEF k
<1>12. \A j \in Key \ {k} : result'[j] = result[j] /\ audit'[j] = audit[j] /\ invoked'[j] = invoked[j]
  BY <1>4, <1>5
<1>13. "answered" \notin Working /\ k \in Key /\ c \in CallRow
  BY <1>1, <1>3 DEF Working
<1> QED
  BY <1>w, <1>4, <1>9, <1>10, <1>11, <1>12, <1>13, OnOwnRow

\* An update of the row that leaves its request at work on it.
LEMMA AdvanceRow ==
  ASSUME RowInv, IndInv', NEW r \in Request, NEW where \in Working, NEW c \in CallRow,
         NEW events \in Seq(AuditEvent), pc[r] \in Working,
         Store(KeyOf(r), c, events), Goto(r, where, c), UNCHANGED <<result, invoked>>,
         SoundRow(c, "none", invoked[KeyOf(r)], audit[KeyOf(r)] \o events),
         InStep(where, c, c, invoked[KeyOf(r)]),
         call[KeyOf(r)].decision # "allow" => c.decision # "allow"
  PROVE  RowInv' /\ Firm
<1> DEFINE k == KeyOf(r)
<1>1. k \in Key /\ result[k] = "none" /\ audit[k] \in Seq(AuditEvent)
  BY AtWork
<1>2. /\ call' = [call EXCEPT ![k] = c] /\ audit' = [audit EXCEPT ![k] = @ \o events]
      /\ pc' = [pc EXCEPT ![r] = where] /\ held' = [held EXCEPT ![r] = c] /\ req' = req
  BY DEF Store, Goto
<1>3. audit'[k] = audit[k] \o events /\ \A j \in Key \ {k} : audit'[j] = audit[j]
  BY <1>1, <1>2 DEF RowInv, IndInv, TypeOK
<1>4. SoundRow(c, result'[k], invoked'[k], audit'[k]) /\ InStep(where, c, c, invoked'[k])
  BY <1>1, <1>3
<1>5. \A j \in Key \ {k} : result'[j] = result[j] /\ audit'[j] = audit[j] /\ invoked'[j] = invoked[j]
  BY <1>3
<1>6. call[k].decision # "allow" => c.decision # "allow"
  OBVIOUS
<1>7. k = KeyOf(r)
  OBVIOUS
<1> HIDE DEF k
<1> QED
  BY <1>1, <1>2, <1>4, <1>5, <1>6, <1>7, OnOwnRow

LEMMA ScreenRow ==
  ASSUME RowInv, IndInv', NEW r \in Request, Screen(r)
  PROVE  RowInv' /\ Firm
<1> DEFINE k == KeyOf(r)
           h == held[r]
<1>w. pc[r] \in Working /\ pc[r] \in {"received", "validating"}
  BY DEF Screen, BeginValidating, Reject, EvaluateInput, Working
<1>1. /\ k \in Key /\ h \in CallRow /\ call[k] \in CallRow
      /\ audit[k] \in Seq(AuditEvent) /\ invoked[k] = 0
      /\ InStep(pc[r], h, call[k], invoked[k]) /\ SoundRow(call[k], "none", invoked[k], audit[k])
  BY <1>w, AtWork DEF Early
<1>2. /\ call[k].status = pc[r] /\ call[k].decision = "allow" /\ h.decision = "allow"
      /\ h.matched \cap BlockRules = {}
  BY <1>w, <1>1 DEF InStep, Stage, Late
<1>3. ~FlaggedIn(audit[k]) /\ LastWord(audit[k], "received")
  BY <1>w, <1>1, <1>2 DEF SoundRow, EventOf
<1>4. CASE BeginValidating(r)
  <2> DEFINE c == TransitionTo(h, "validating", h.decision, "none")
  <2>1. /\ c \in CallRow /\ c.status = "validating" /\ c.error = "none" /\ c.matched = h.matched
        /\ c.decision = "allow"
    <3>1. "validating" \in Status /\ "none" \in ErrorCode /\ h.decision \in Decision
      BY <1>2 DEF Status, ErrorCode, Decision
    <3> QED
      BY <1>1, <1>2, <3>1, TransitionKeeps, TransitionDecides
  <2>2. /\ Store(KeyOf(r), c, <<>>) /\ Goto(r, "validating", c) /\ UNCHANGED <<result, invoked>>
    BY <1>4 DEF BeginValidating
  <2>3. audit[k] \o <<>> = audit[k] /\ <<>> \in Seq(AuditEvent)
    BY <1>1
  <2>4. EventOf(c) = "received"
    BY <2>1 DEF EventOf
  <2> HIDE DEF c
  <2>5. SoundRow(c, "none", invoked[k], audit[k] \o <<>>)
    BY <1>1, <1>3, <2>1, <2>3, <2>4 DEF SoundRow, Decided
  <2>6. InStep("validating", c, c, invoked[k])
    BY <1>2, <2>1 DEF InStep, Stage, Late
  <2>7. "validating" \in Working
    BY DEF Working
  <2> QED
    BY <1>w, <1>2, <2>1, <2>2, <2>3, <2>5, <2>6, <2>7, AdvanceRow
<1>5. CASE \E code \in RejectErrors : Reject(r, code)
  <2>1. PICK code \in RejectErrors : Reject(r, code)
    BY <1>5
  <2>2. /\ "rejected" \in Status /\ "failed" \in AuditEvent /\ code \in ErrorCode
        /\ code # "execution_state_unknown"
    BY ErrorAssumption DEF Status, AuditEvent, ErrorCode
  <2>3. pc[r] = "validating"
    BY <2>1 DEF Reject
  <2>4. PICK a : Settle(r, "rejected", code, "failed", a)
    BY <2>1 DEF Reject
  <2> QED
    BY <2>2, <2>3, <2>4, SettleRow
<1>6. CASE \E matches \in SUBSET enabled, risky \in BOOLEAN : EvaluateInput(r, matches, risky)
  <2>1. PICK matches \in SUBSET enabled, risky \in BOOLEAN : EvaluateInput(r, matches, risky)
    BY <1>6
  <2> DEFINE blocked  == Blocks(matches)
             flagged  == risky \/ (~blocked /\ matches \cap FlagRules # {})
             decision == IF flagged THEN "flag" ELSE "allow"
             c        == [TransitionTo(h, "evaluating", decision, "none") EXCEPT !.matched = matches]
             d        == TransitionTo(c, "blocked", "block", "tool_call_blocked")
             note     == IF flagged THEN <<"flagged">> ELSE <<>>
             events   == <<"validated">> \o note
             s        == audit[k] \o events
  <2>2. decision \in {"allow", "flag"} /\ (decision = "flag" <=> flagged) /\ note = FlagNote(decision)
    BY DEF FlagNote
  <2>3. matches \subseteq Rule
    BY DEF RowInv, IndInv, TypeOK
  <2>4. /\ c \in CallRow /\ c.status = "evaluating" /\ c.error = "none" /\ c.matched = matches
        /\ c.decision = decision
    <3> DEFINE b == TransitionTo(h, "evaluating", decision, "none")
    <3>1. "evaluating" \in Status /\ "none" \in ErrorCode /\ decision \in Decision
      BY <2>2 DEF Status, ErrorCode, Decision
    <3>2. b \in CallRow /\ b.status = "evaluating" /\ b.error = "none" /\ b.decision = decision
      BY <1>1, <3>1, TransitionKeeps, TransitionDecides
    <3> HIDE DEF b
    <3>3. c = [b EXCEPT !.matched = matches]
      BY DEF b
    <3> HIDE DEF c
    <3> QED
      BY <2>3, <3>2, <3>3 DEF CallRow
  <2> HIDE DEF c, decision
  <2>5. /\ d \in CallRow /\ d.status = "blocked" /\ d.error = "tool_call_blocked" /\ d.decision = "block"
        /\ d.matched = matches
    <3>1. "blocked" \in Status /\ "tool_call_blocked" \in ErrorCode /\ "block" \in Decision
      BY DEF Status, ErrorCode, Decision
    <3> QED
      BY <2>4, <3>1, TransitionKeeps, TransitionDecides
  <2> HIDE DEF d
  <2>6. events \in Seq(AuditEvent) /\ s \in Seq(AuditEvent) /\ LastWord(s, "received")
        /\ (FlaggedIn(s) <=> decision = "flag")
    <3>1. "validated" \in AuditEvent /\ "validated" \in Remarks /\ <<"validated">> \in Seq(AuditEvent)
      BY OneEvent DEF AuditEvent, Remarks
    <3> DEFINE v == audit[k] \o <<"validated">>
    <3>2. v \in Seq(AuditEvent) /\ LastWord(v, "received") /\ ~FlaggedIn(v)
      <4>1. \A j \in 1 .. Len(<<"validated">>) : <<"validated">>[j] \in Remarks
        BY <3>1, OneEvent
      <4> QED
        BY <1>1, <1>3, <3>1, <4>1, LastWordKept, WordAppended
    <3>3. note \in Seq(AuditEvent)
      <4>1. "flagged" \in AuditEvent
        BY DEF AuditEvent
      <4> QED
        BY <4>1, OneEvent, NoEvent
    <3>4. s = v \o note
      BY <1>1, <3>1, <3>3, Regroup
    <3>5. events \in Seq(AuditEvent)
      BY <3>1, <3>3
    <3> HIDE DEF v, note, events, s
    <3> QED
      BY <2>2, <3>2, <3>4, <3>5, NoteAppended
  <2>7. CASE blocked
    <3>1. /\ call' = [call EXCEPT ![k] = d] /\ audit' = [audit EXCEPT ![k] = @ \o (events \o <<"blocked">>)]
          /\ pc' = [pc EXCEPT ![r] = "answered"] /\ held' = [held EXCEPT ![r] = NoCall] /\ req' = req
          /\ result' = result /\ invoked' = invoked
      BY <2>1, <2>7 DEF EvaluateInput, Store, Reply, c, d, decision
    <3>2. audit'[k] = s \o <<"blocked">> /\ \A j \in Key \ {k} : audit'[j] = audit[j]
      <4>1. audit'[k] = audit[k] \o (events \o <<"blocked">>) /\ \A j \in Key \ {k} : audit'[j] = audit[j]
        BY <1>1, <3>1 DEF RowInv, IndInv, TypeOK
      <4>2. <<"blocked">> \in Seq(AuditEvent)
        BY OneEvent DEF AuditEvent
      <4> HIDE DEF events
      <4> QED
        BY <1>1, <2>6, <4>1, <4>2, Regroup
    <3>3. LastWord(audit'[k], "blocked")
      <4>1. "blocked" \in AuditEvent
        BY DEF AuditEvent
      <4> HIDE DEF s
      <4> QED
        BY <2>6, <3>2, <4>1, WordAppended
    <3>4. EventOf(d) = "blocked"
      BY <2>5 DEF EventOf
    <3> HIDE DEF k, h, events, s
    <3>5. result[k] = "none"
      BY <1>w, AtWork DEF k
    <3>6. SoundRow(d, result'[k], invoked'[k], audit'[k])
      BY <1>1, <2>5, <3>1, <3>3, <3>4, <3>5 DEF SoundRow, Decided
    <3>7. k = KeyOf(r) /\ "answered" \notin Working /\ d.decision # "allow"
      BY <2>5 DEF k, Working
    <3>8. \A j \in Key \ {k} : result'[j] = result[j] /\ audit'[j] = audit[j] /\ invoked'[j] = invoked[j]
      BY <3>1, <3>2
    <3> QED
      BY <1>w, <1>1, <2>5, <3>1, <3>6, <3>7, <3>8, OnOwnRow
  <2>8. CASE ~blocked
    <3>1. Store(KeyOf(r), c, events) /\ Goto(r, "evaluated", c) /\ UNCHANGED <<result, invoked>>
      BY <2>1, <2>8 DEF EvaluateInput, c, decision
    <3>2. EventOf(c) = "received"
      BY <2>4 DEF EventOf
    <3>3. matches \cap BlockRules = {}
      BY <2>8 DEF Blocks
    <3>4. SoundRow(c, "none", invoked[k], s)
      <4> HIDE DEF s, k
      <4> QED
        BY <1>1, <2>2, <2>4, <2>6, <3>2, <3>3 DEF SoundRow, Decided
    <3>5. InStep("evaluated", c, c, invoked[k])
      <4> HIDE DEF k
      <4> QED
        BY <2>2, <2>4, <3>3 DEF InStep, Stage, Late
    <3>6. "evaluated" \in Working
      BY DEF Working
    <3> HIDE DEF events
    <3> QED
      BY <1>w, <1>2, <2>4, <2>6, <3>1, <3>4, <3>5, <3>6, AdvanceRow
  <2> QED
    BY <2>7, <2>8
<1> QED
  BY <1>4, <1>5, <1>6 DEF Screen

LEMMA ExecuteRow ==
  ASSUME RowInv, IndInv', NEW r \in Request, Execute(r)
  PROVE  RowInv' /\ Firm
<1> DEFINE k == KeyOf(r)
           h == held[r]
<1>w. pc[r] \in Working /\ pc[r] \in {"evaluated", "executing"}
  BY DEF Execute, StartExecuting, FailUnconfigured, InvokeAdapter, Working
<1>1. /\ k \in Key /\ h \in CallRow /\ call[k] \in CallRow
      /\ audit[k] \in Seq(AuditEvent) /\ invoked[k] = 0 /\ result[k] = "none"
      /\ InStep(pc[r], h, call[k], invoked[k]) /\ SoundRow(call[k], "none", invoked[k], audit[k])
  BY <1>w, AtWork DEF Early
<1>2. /\ h.decision \in {"allow", "flag"} /\ call[k].decision = h.decision
      /\ h.matched \cap BlockRules = {}
  BY <1>w, <1>1 DEF InStep
<1>3. CASE StartExecuting(r)
  <2> DEFINE c == TransitionTo(h, "executing", h.decision, "none")
  <2>1. /\ c \in CallRow /\ c.status = "executing" /\ c.error = "none" /\ c.matched = h.matched
        /\ c.decision = h.decision
    <3>1. "executing" \in Status /\ "none" \in ErrorCode /\ h.decision \in Decision
      BY <1>2 DEF Status, ErrorCode, Decision
    <3> QED
      BY <1>1, <1>2, <3>1, TransitionKeeps, TransitionDecides
  <2>2. /\ Store(KeyOf(r), c, <<"started">>) /\ Goto(r, "executing", c) /\ UNCHANGED <<result, invoked>>
    BY <1>3 DEF StartExecuting
  <2>3. /\ <<"started">> \in Seq(AuditEvent)
        /\ LastWord(audit[k] \o <<"started">>, "started")
        /\ FlaggedIn(audit[k] \o <<"started">>) <=> FlaggedIn(audit[k])
    <3>1. "started" \in AuditEvent
      BY DEF AuditEvent
    <3> QED
      BY <1>1, <3>1, OneEvent, WordAppended
  <2>4. EventOf(c) = "started"
    BY <2>1 DEF EventOf
  <2>5. call[k].decision = "flag" <=> FlaggedIn(audit[k])
    BY <1>1, <1>2 DEF SoundRow
  <2> HIDE DEF c
  <2>6. SoundRow(c, "none", invoked[k], audit[k] \o <<"started">>)
    <3> DEFINE s == audit[k] \o <<"started">>
    <3>1. LastWord(s, "started") /\ (FlaggedIn(s) <=> FlaggedIn(audit[k]))
      BY <2>3
    <3> HIDE DEF s, k, h
    <3>2. SoundRow(c, "none", invoked[k], s)
      BY <1>1, <1>2, <2>1, <2>4, <2>5, <3>1 DEF SoundRow, Decided
    <3> QED
      BY <3>2 DEF s
  <2>7. InStep("executing", c, c, invoked[k])
    BY <1>2, <2>1 DEF InStep, Stage
  <2>8. "executing" \in Working
    BY DEF Working
  <2> QED
    BY <1>w, <1>2, <2>1, <2>2, <2>3, <2>6, <2>7, <2>8, AdvanceRow
<1>4. CASE FailUnconfigured(r)
  <2>1. /\ "failed" \in Status /\ "failed" \in AuditEvent /\ "adapter_not_configured" \in ErrorCode
    BY DEF Status, AuditEvent, ErrorCode
  <2>2. Settle(r, "failed", "adapter_not_configured", "failed", "AdapterNotConfigured") /\ pc[r] = "executing"
    BY <1>4 DEF FailUnconfigured, Fail
  <2> QED
    BY <2>1, <2>2, SettleRow
<1>5. CASE InvokeAdapter(r)
  <2> DEFINE c == call[k]
  <2>1. /\ pc[r] = "executing" /\ pc' = [pc EXCEPT ![r] = "running"] /\ held' = [held EXCEPT ![r] = h]
        /\ req' = req /\ call' = [call EXCEPT ![k] = c] /\ result' = result /\ audit' = audit
        /\ invoked' = [invoked EXCEPT ![k] = @ + 1]
    BY <1>5 DEF InvokeAdapter, Goto, database, RowInv, IndInv, TypeOK
  <2>2. invoked'[k] = 1 /\ \A j \in Key \ {k} : invoked'[j] = invoked[j]
    BY <1>1, <2>1 DEF RowInv, IndInv, TypeOK
  <2> HIDE DEF k, h, c
  <2>3. c.status \in {"executing", "failed"} /\ c = call[k]
    BY <1>1, <2>1 DEF InStep, Stage, Recovered, c
  <2>4. SoundRow(c, result'[k], invoked'[k], audit'[k])
    BY <1>1, <2>1, <2>2, <2>3 DEF SoundRow
  <2>5. InStep("running", h, c, invoked'[k])
    BY <1>1, <2>1, <2>2, <2>3 DEF InStep, Stage, Late
  <2>6. "running" \in Working /\ k = KeyOf(r) /\ c \in CallRow
    BY <1>1, <2>3 DEF Working, k
  <2>7. \A j \in Key \ {k} : result'[j] = result[j] /\ audit'[j] = audit[j] /\ invoked'[j] = invoked[j]
    BY <2>1, <2>2
  <2> QED
    BY <1>w, <1>1, <2>1, <2>3, <2>4, <2>5, <2>6, <2>7, OnOwnRow
<1> QED
  BY <1>3, <1>4, <1>5 DEF Execute

\* A step that writes no row.
LEMMA NothingWritten ==
  ASSUME RowInv, IndInv', UNCHANGED <<call, result, audit, invoked>>,
         \A q \in Request : Holds(q)'
  PROVE  RowInv' /\ Firm
<1>1. \A k \in Key : Sound(k)'
  BY DEF RowInv, Sound, Exists
<1> QED
  BY <1>1 DEF RowInv, Firm

LEMMA ConcludeRow ==
  ASSUME RowInv, IndInv', NEW r \in Request, Conclude(r)
  PROVE  RowInv' /\ Firm
<1> DEFINE k == KeyOf(r)
           h == held[r]
<1>w. pc[r] \in Working /\ pc[r] \in {"running", "judged"}
  BY DEF Conclude, TimeOut, FailInAdapter, FailResult, DropSanitizedResult, FinalizeInvalid,
         ReadResultRules, FinalizeSucceeded, Working
<1>1. /\ k \in Key /\ h \in CallRow /\ call[k] \in CallRow
      /\ InStep(pc[r], h, call[k], invoked[k]) /\ SoundRow(call[k], "none", invoked[k], audit[k])
  BY <1>w, AtWork
<1>2. h.decision \in {"allow", "flag"}
  BY <1>1 DEF InStep
<1>3. {"failed", "timed_out"} \subseteq Status \cap AuditEvent /\ "tool_timeout" \in ErrorCode
  BY DEF Status, AuditEvent, ErrorCode
<1>4. \A code \in AdapterErrors \cup ResultErrors : code \in ErrorCode /\ code # "execution_state_unknown"
  BY ErrorAssumption DEF ErrorCode
<1>5. CASE TimeOut(r)
  <2>1. Settle(r, "timed_out", "tool_timeout", "timed_out", "ToolTimeout") /\ pc[r] = "running"
    BY <1>5 DEF TimeOut
  <2> QED
    BY <1>3, <2>1, SettleRow
<1>6. CASE \/ \E code \in AdapterErrors : FailInAdapter(r, code)
           \/ \E code \in ResultErrors : FailResult(r, code)
  <2>1. PICK code \in AdapterErrors \cup ResultErrors : FailInAdapter(r, code) \/ FailResult(r, code)
    BY <1>6
  <2>2. Settle(r, "failed", code, "failed", TerminalError(code)) /\ pc[r] = "running"
    BY <2>1 DEF FailInAdapter, FailResult, Fail
  <2> QED
    BY <1>3, <1>4, <2>2, SettleRow
<1>7. CASE \E risky \in BOOLEAN : FinalizeInvalid(r, risky)
  <2>1. PICK risky \in BOOLEAN : FinalizeInvalid(r, risky)
    BY <1>7
  <2> DEFINE dec == ResultDecision(h.decision, risky)
  <2>2. dec \in {"allow", "flag"} /\ (h.decision = "flag" => dec = "flag")
    BY <1>2 DEF ResultDecision
  <2>3. Finalize(r, "failed", dec, "invalid_tool_result", "invalid", "InvalidToolResult") /\ pc[r] = "running"
    BY <2>1 DEF FinalizeInvalid
  <2> HIDE DEF dec
  <2> QED
    BY <2>2, <2>3, FinalizeRow
<1>8. CASE FinalizeSucceeded(r)
  <2>1. Finalize(r, "succeeded", h.decision, "none", "valid", Success) /\ pc[r] = "judged"
    BY <1>8 DEF FinalizeSucceeded
  <2> QED
    BY <1>2, <2>1, FinalizeRow
<1>9. CASE DropSanitizedResult(r)
  <2>1. /\ pc' = [pc EXCEPT ![r] = "answered"] /\ held' = [held EXCEPT ![r] = NoCall] /\ req' = req
        /\ UNCHANGED <<call, result, audit, invoked>>
    BY <1>9 DEF DropSanitizedResult, Reply, database
  <2>2. ASSUME NEW q \in Request PROVE Holds(q)'
    <3>1. Holds(q) /\ KeyOf(q)' = KeyOf(q)
      BY <2>1 DEF RowInv, KeyOf
    <3>2. pc'[q] \in Working \cup {"locked"} => pc'[q] = pc[q] /\ held'[q] = held[q]
      BY <2>1 DEF RowInv, IndInv, TypeOK, Working
    <3> QED
      BY <2>1, <3>1, <3>2 DEF Holds
  <2> QED
    BY <2>1, <2>2, NothingWritten
<1>10. CASE \E matches \in SUBSET enabled, risky \in BOOLEAN : ReadResultRules(r, matches, risky)
  <2>1. PICK matches \in SUBSET enabled, risky \in BOOLEAN : ReadResultRules(r, matches, risky)
    BY <1>10
  <2> DEFINE flagged == risky \/ matches \cap FlagRules # {}
             dec == ResultDecision(h.decision, flagged)
             c == [h EXCEPT !.matched = @ \cup matches, !.decision = ResultDecision(@, flagged)]
  <2>2. dec \in {"allow", "flag"} /\ (h.decision = "flag" => dec = "flag")
    BY <1>2 DEF ResultDecision
  <2>3. c.decision = dec
    <3> HIDE DEF h
    <3> QED
      BY <1>1 DEF CallRow
  <2>4. /\ pc[r] = "running" /\ pc' = [pc EXCEPT ![r] = "judged"] /\ held' = [held EXCEPT ![r] = c] /\ req' = req
        /\ UNCHANGED <<call, result, audit, invoked>>
    BY <2>1 DEF ReadResultRules, Goto, database
  <2> HIDE DEF c, dec
  <2>5. InStep("judged", c, call[k], invoked[k])
    BY <1>1, <2>2, <2>3, <2>4 DEF InStep, Stage, Late
  <2>6. ASSUME NEW q \in Request PROVE Holds(q)'
    <3>1. Holds(q) /\ KeyOf(q)' = KeyOf(q)
      BY <2>4 DEF RowInv, KeyOf
    <3>2. q # r => pc'[q] = pc[q] /\ held'[q] = held[q]
      BY <2>4 DEF RowInv, IndInv, TypeOK
    <3>3. pc'[r] = "judged" /\ held'[r] = c
      BY <2>4 DEF RowInv, IndInv, TypeOK
    <3> QED
      BY <2>4, <2>5, <3>1, <3>2, <3>3 DEF Holds
  <2> QED
    BY <2>4, <2>6, NothingWritten
<1> QED
  BY <1>5, <1>6, <1>7, <1>8, <1>9, <1>10 DEF Conclude

-----------------------------------------------------------------------------
(* The other steps                                                         *)

\* The creation of a call: its row says what was read under the session lock.
LEMMA CreateRow ==
  ASSUME RowInv, IndInv', NEW r \in Request, Create(r)
  PROVE  RowInv' /\ Firm
<1>1. CASE LockSession(r)
  <2>1. UNCHANGED <<call, result, audit, invoked, req>>
    BY <1>1 DEF LockSession, Goto, Reply, database
  <2>2. /\ \A q \in Request \ {r} : pc'[q] = pc[q] /\ held'[q] = held[q]
        /\ pc'[r] \notin Working
        /\ pc'[r] = "locked" => Fresh(held'[r])
    BY <1>1 DEF LockSession, Goto, Reply, RowInv, IndInv, TypeOK, Working, Fresh
  <2>3. ASSUME NEW q \in Request PROVE Holds(q)'
    <3>1. Holds(q) /\ KeyOf(q)' = KeyOf(q)
      BY <2>1 DEF RowInv, KeyOf
    <3> QED
      BY <2>1, <2>2, <3>1 DEF Holds
  <2> QED
    BY <2>1, <2>3, NothingWritten
<1>2. CASE InsertReceived(r)
  <2> DEFINE k == KeyOf(r)
             h == held[r]
  <2>1. /\ k \in Key /\ h \in CallRow /\ Fresh(h) /\ pc[r] = "locked" /\ req' = req
        /\ result' = result /\ invoked' = invoked
    BY <1>2 DEF InsertReceived, RowInv, IndInv, LockHeld, HasRequest, Holds, RequestBody, KeyOf, Goto, Reply
  <2>2. CASE KeyTaken(k) \/ SequenceTaken(req[r].session, h.seq)
    <3>1. /\ pc' = [pc EXCEPT ![r] = "answered"] /\ held' = [held EXCEPT ![r] = NoCall]
          /\ UNCHANGED <<call, audit>>
      BY <1>2, <2>2 DEF InsertReceived, Reply
    <3>2. ASSUME NEW q \in Request PROVE Holds(q)'
      <4>1. Holds(q) /\ KeyOf(q)' = KeyOf(q)
        BY <2>1 DEF RowInv, KeyOf
      <4>2. pc'[q] \in Working \cup {"locked"} => pc'[q] = pc[q] /\ held'[q] = held[q]
        BY <3>1 DEF RowInv, IndInv, TypeOK, Working
      <4> QED
        BY <2>1, <3>1, <4>1, <4>2 DEF Holds
    <3> QED
      BY <2>1, <3>1, <3>2, NothingWritten
  <2>3. CASE ~(KeyTaken(k) \/ SequenceTaken(req[r].session, h.seq))
    <3>1. /\ pc' = [pc EXCEPT ![r] = "received"] /\ held' = [held EXCEPT ![r] = h]
          /\ call' = [call EXCEPT ![k] = h] /\ audit' = [audit EXCEPT ![k] = @ \o <<"received">>]
          /\ ~Exists(k)
      BY <1>2, <2>3 DEF InsertReceived, Store, Goto, KeyTaken
    <3>2. result[k] = "none" /\ invoked[k] = 0 /\ audit[k] = <<>>
      BY <2>1, <3>1 DEF RowInv, Sound
    <3>3. /\ call'[k] = h /\ \A j \in Key \ {k} : call'[j] = call[j]
          /\ audit'[k] = <<"received">> /\ \A j \in Key \ {k} : audit'[j] = audit[j]
      <4>1. <<>> \o <<"received">> = <<"received">>
        OBVIOUS
      <4> QED
        BY <2>1, <3>1, <3>2, <4>1 DEF RowInv, IndInv, TypeOK
    <3>4. LastWord(audit'[k], "received") /\ ~FlaggedIn(audit'[k])
      <4>1. "received" \in AuditEvent
        BY DEF AuditEvent
      <4> QED
        BY <3>3, <4>1, OneEvent
    <3>5. EventOf(h) = "received"
      BY <2>1 DEF EventOf, Fresh
    <3>6. k = KeyOf(r) /\ h = held[r]
      OBVIOUS
    <3> HIDE DEF k, h
    <3>7. SoundRow(h, result'[k], invoked'[k], audit'[k])
      BY <2>1, <3>2, <3>4, <3>5 DEF SoundRow, Decided, Fresh
    <3>8. InStep("received", h, h, invoked'[k])
      BY <2>1, <3>2 DEF InStep, Stage, Fresh
    <3>9. ASSUME NEW q \in Request PROVE Holds(q)'
      <4>1. CASE q = r
        <5>1. pc'[r] = "received" /\ held'[r] = h /\ KeyOf(r)' = k
          BY <2>1, <3>1, <3>6 DEF RowInv, IndInv, TypeOK, KeyOf
        <5> QED
          BY <3>3, <3>8, <4>1, <5>1 DEF Holds
      <4>2. CASE q # r
        <5>1. Holds(q) /\ KeyOf(q)' = KeyOf(q) /\ pc'[q] = pc[q] /\ held'[q] = held[q]
          BY <2>1, <3>1, <4>2 DEF RowInv, IndInv, TypeOK, KeyOf
        <5>2. pc[q] \in Working => KeyOf(q) \in Key \ {k}
          <6>1. pc[q] \in Working => KeyOf(q) \in Key /\ call[KeyOf(q)] \in CallRow
            BY AtWork
          <6> QED
            BY <3>1, <6>1, RowExists DEF Exists
        <5> QED
          BY <2>1, <3>3, <5>1, <5>2 DEF Holds
      <4> QED
        BY <4>1, <4>2
    <3>10. ASSUME NEW j \in Key PROVE Sound(j)'
      <4>1. CASE j = k
        <5>1. Exists(j)'
          BY <2>1, <3>3, <4>1, RowExists DEF Exists
        <5>2. SoundRow(call'[j], result'[j], invoked'[j], audit'[j])
          BY <3>3, <3>7, <4>1
        <5> QED
          BY <5>1, <5>2 DEF Sound
      <4>2. CASE j # k
        BY <2>1, <3>3, <4>2 DEF RowInv, Sound, Exists
      <4> QED
        BY <4>1, <4>2
    <3>11. Firm
      BY <3>1, <3>3 DEF Firm
    <3> QED
      BY <3>9, <3>10, <3>11 DEF RowInv
  <2> QED
    BY <2>2, <2>3
<1> QED
  BY <1>1, <1>2 DEF Create

\* A request that arrives or is lost.
LEMMA ComeAndGoRow ==
  ASSUME RowInv, IndInv', NEW r \in Request, Arrive(r) \/ Abort(r)
  PROVE  RowInv' /\ Firm
<1>1. UNCHANGED <<call, result, audit, invoked>>
  BY DEF Arrive, Replay, Receive, Abort, database
<1>2. /\ \A q \in Request \ {r} : pc'[q] = pc[q] /\ held'[q] = held[q] /\ req'[q] = req[q]
      /\ pc'[r] \in {"answered", "create", "gone"}
  BY DEF Arrive, Replay, Receive, Abort, RowInv, IndInv, TypeOK
<1>3. ASSUME NEW q \in Request PROVE Holds(q)'
  <2>1. CASE q = r
    BY <1>2, <2>1 DEF Holds, Working
  <2>2. CASE q # r
    BY <1>1, <1>2, <2>2 DEF RowInv, Holds, KeyOf
  <2> QED
    BY <2>1, <2>2
<1> QED
  BY <1>1, <1>3, NothingWritten

\* Recovery fails executing calls only, and leaves their decision.
LEMMA RecoverRow ==
  ASSUME RowInv, IndInv', NEW batch \in SUBSET Claimable, RecoverBatch(batch)
  PROVE  RowInv' /\ Firm
<1>1. /\ UNCHANGED <<result, invoked, pc, req, held>> /\ batch \subseteq Key
      /\ \A k \in Key : IF k \in batch
           THEN /\ call'[k] = TransitionTo(call[k], "failed", call[k].decision, "execution_state_unknown")
                /\ audit'[k] = Append(audit[k], "recovered")
           ELSE call'[k] = call[k] /\ audit'[k] = audit[k]
  BY DEF RecoverBatch, RowInv, IndInv, TypeOK, Claimable
<1>2. ASSUME NEW k \in batch
      PROVE  /\ k \in Key /\ Exists(k) /\ call[k] \in CallRow /\ call[k].status = "executing"
             /\ call'[k] \in CallRow /\ Recovered(call'[k]) /\ call'[k].decision = call[k].decision
             /\ SoundRow(call[k], result[k], invoked[k], audit[k])
  <2>1. k \in Key /\ Exists(k) /\ call[k].status = "executing"
    BY <1>1 DEF Claimable, Is
  <2>2. call[k] \in CallRow
    BY <2>1 DEF RowInv, IndInv, TypeOK, Exists
  <2>3. "failed" \in Status /\ "execution_state_unknown" \in ErrorCode /\ call[k].decision \in Decision
    BY <2>2 DEF Status, ErrorCode, CallRow
  <2>4. /\ call'[k] \in CallRow /\ call'[k].status = "failed" /\ call'[k].error = "execution_state_unknown"
        /\ call'[k].decision = call[k].decision
    BY <1>1, <2>1, <2>2, <2>3, TransitionKeeps, TransitionDecides
  <2> QED
    BY <2>1, <2>2, <2>4 DEF RowInv, Sound, Recovered
<1>3. ASSUME NEW k \in Key PROVE Sound(k)'
  <2>1. CASE k \in batch
    <3>1. audit'[k] = audit[k] \o <<"recovered">> /\ audit[k] \in Seq(AuditEvent)
      <4>1. \A s \in Seq(AuditEvent) : Append(s, "recovered") = s \o <<"recovered">>
        BY AppendIsConcat
      <4>2. audit[k] \in Seq(AuditEvent)
        BY DEF RowInv, IndInv, TypeOK
      <4> QED
        BY <1>1, <2>1, <4>1, <4>2
    <3>2. LastWord(audit'[k], "recovered") /\ (FlaggedIn(audit'[k]) <=> FlaggedIn(audit[k]))
      <4>1. "recovered" \in AuditEvent
        BY DEF AuditEvent
      <4> QED
        BY <3>1, <4>1, WordAppended
    <3>3. EventOf(call'[k]) = "recovered"
      BY <1>2, <2>1 DEF EventOf, Recovered
    <3>4. SoundRow(call'[k], result[k], invoked[k], audit'[k])
      BY <1>2, <2>1, <3>2, <3>3 DEF SoundRow, Decided, Recovered
    <3>5. Exists(k)'
      BY <1>2, <2>1, RowExists DEF Exists
    <3> QED
      BY <1>1, <3>4, <3>5 DEF Sound
  <2>2. CASE k \notin batch
    BY <1>1, <2>2 DEF RowInv, Sound, Exists
  <2> QED
    BY <2>1, <2>2
<1>4. ASSUME NEW q \in Request PROVE Holds(q)'
  <2>1. Holds(q) /\ KeyOf(q)' = KeyOf(q)
    BY <1>1 DEF RowInv, KeyOf
  <2>2. ASSUME pc[q] \in Working PROVE InStep(pc[q], held[q], call'[KeyOf(q)], invoked[KeyOf(q)])
    <3>1. KeyOf(q) \in Key /\ InStep(pc[q], held[q], call[KeyOf(q)], invoked[KeyOf(q)])
      BY <2>2, AtWork
    <3>2. CASE KeyOf(q) \in batch
      <4>1. pc[q] \in Late
        BY <1>2, <2>2, <3>1, <3>2 DEF InStep, Stage, Late, Working, Recovered
      <4> QED
        BY <1>2, <3>1, <3>2, <4>1 DEF InStep
    <3>3. CASE KeyOf(q) \notin batch
      BY <1>1, <3>1, <3>3
    <3> QED
      BY <3>2, <3>3
  <2> QED
    BY <1>1, <2>1, <2>2 DEF Holds
<1>5. Firm
  BY <1>1, <1>2 DEF Firm
<1> QED
  BY <1>3, <1>4, <1>5 DEF RowInv

\* Time and operators.
LEMMA OperateRow ==
  ASSUME RowInv, IndInv', Operate \/ (\E k \in Key : Elapse(k)) \/ UNCHANGED vars
  PROVE  RowInv' /\ Firm
<1>1. UNCHANGED <<call, result, audit, invoked, pc, req, held>>
  BY DEF Operate, CompleteSession, SetRuleEnabled, SetToolEnabled, Elapse, database, vars
<1>2. \A q \in Request : Holds(q)'
  BY <1>1 DEF RowInv, Holds, KeyOf
<1> QED
  BY <1>1, <1>2, NothingWritten

-----------------------------------------------------------------------------
(* The theorems                                                            *)

LEMMA InitRows == Init => RowInv
<1> SUFFICES ASSUME Init PROVE RowInv
  OBVIOUS
<1>1. IndInv
  BY InitInvariant
<1>2. \A r \in Request : Holds(r)
  BY DEF Init, Holds, Working
<1>3. \A k \in Key : Sound(k)
  BY DEF Init, Sound, Exists
<1> QED
  BY <1>1, <1>2, <1>3 DEF RowInv

LEMMA StepRows == RowInv /\ [Next]_vars => RowInv' /\ Firm
<1> SUFFICES ASSUME RowInv, [Next]_vars PROVE RowInv' /\ Firm
  OBVIOUS
<1>1. IndInv'
  BY StepInvariant DEF RowInv
<1>2. CASE \E r \in Request : Arrive(r) \/ Proceed(r) \/ Abort(r)
  <2>1. PICK r \in Request : Arrive(r) \/ Proceed(r) \/ Abort(r)
    BY <1>2
  <2>2. CASE Arrive(r) \/ Abort(r)
    BY <1>1, <2>2, ComeAndGoRow
  <2>3. CASE Create(r)
    BY <1>1, <2>3, CreateRow
  <2>4. CASE Screen(r)
    BY <1>1, <2>4, ScreenRow
  <2>5. CASE Execute(r)
    BY <1>1, <2>5, ExecuteRow
  <2>6. CASE Conclude(r)
    BY <1>1, <2>6, ConcludeRow
  <2> QED
    BY <2>1, <2>2, <2>3, <2>4, <2>5, <2>6 DEF Proceed
<1>3. CASE Recover
  BY <1>1, <1>3, RecoverRow DEF Recover
<1>4. CASE Operate \/ (\E k \in Key : Elapse(k)) \/ UNCHANGED vars
  BY <1>1, <1>4, OperateRow
<1> QED
  BY <1>2, <1>3, <1>4 DEF Next

\* Whatever interleaves, dies or is recovered, the columns of a row, its result metadata, its
\* audit trail and the entries of its adapter stay in step with one another and with its request.
THEOREM RowInvariance == Spec => []RowInv
<1>1. RowInv /\ [Next]_vars => RowInv'
  BY StepRows
<1> QED
  BY InitRows, <1>1, PTL DEF Spec

\* No adapter is entered for a call that a rule has blocked or validation has rejected, and every
\* row is one that the domain class accepts.
THEOREM OnlyJudgedCallsRun == Spec => []NothingRunsUnjudged
<1>1. RowInv => NothingRunsUnjudged
  <2> SUFFICES ASSUME RowInv, NEW k \in Key
               PROVE  /\ invoked[k] > 0 =>
                           Exists(k) /\ call[k].status \in {"executing", "succeeded", "failed", "timed_out"}
                      /\ Exists(k) /\ call[k].status \in {"evaluating", "executing"} =>
                           call[k].matched \cap BlockRules = {}
                      /\ Exists(k) => Readable(call[k])
    BY DEF NothingRunsUnjudged
  <2>1. Exists(k) => call[k] \in CallRow
    BY DEF RowInv, IndInv, TypeOK, Exists
  <2>2. Exists(k) => call[k].seq >= 1
    <3>1. ASSUME Exists(k)
          PROVE  call[k].seq \in 1 .. Cardinality(CallsOf(call[k].session))
      <4>1. call[k].session \in Session /\ k \in CallsOf(call[k].session)
        BY <2>1, <3>1 DEF CallRow, CallsOf
      <4> QED
        BY <4>1 DEF RowInv, IndInv, SequenceIsDense
    <3> QED
      BY <2>1, <3>1 DEF CallRow
  <2> QED
    BY <2>2 DEF RowInv, Sound, SoundRow, Decided, Readable
<1> QED
  BY <1>1, RowInvariance, PTL

\* A success is stored with the result of the one execution, and with nothing less.
THEOREM SuccessIsBacked == Spec => []SuccessHasEvidence
<1>1. RowInv => SuccessHasEvidence
  <2> SUFFICES ASSUME RowInv, NEW k \in Key
               PROVE  /\ Is(k, "succeeded") <=> result[k] = "valid"
                      /\ Is(k, "succeeded") => invoked[k] = 1
                      /\ result[k] = "invalid" => Is(k, "failed") /\ call[k].error = "invalid_tool_result"
                      /\ Exists(k) /\ call[k].error = "execution_state_unknown" => Is(k, "failed")
    BY DEF SuccessHasEvidence
  <2> QED
    BY DEF RowInv, Sound, SoundRow, Is
<1> QED
  BY <1>1, RowInvariance, PTL

\* The audit trail of a call ends with what its row says, also when a late execution has
\* overwritten what recovery wrote.
THEOREM TrailsEndWithStatus == Spec => []TrailEndsWithStatus
<1>1. RowInv => TrailEndsWithStatus
  BY DEF RowInv, Sound, SoundRow, TrailEndsWithStatus
<1> QED
  BY <1>1, RowInvariance, PTL

\* The decision of a row and the flag in its trail are the same.
THEOREM FlagsAreAudited == Spec => []FlagIsAudited
<1>1. RowInv => FlagIsAudited
  BY DEF RowInv, Sound, SoundRow, FlagIsAudited
<1> QED
  BY <1>1, RowInvariance, PTL

\* A flagged, blocked or rejected call is never allowed again, whoever writes its row last.
THEOREM DecisionsStayFirm == Spec => DecisionNeverWeakened
<1>1. RowInv /\ [Next]_vars =>
        [\A k \in Key : Exists(k) /\ call[k].decision # "allow" => call'[k].decision # "allow"]_vars
  BY StepRows DEF Firm
<1> QED
  BY <1>1, RowInvariance, PTL DEF Spec, DecisionNeverWeakened

-----------------------------------------------------------------------------
(* A row that has been terminal                                            *)

\* What recovery wrote may be overwritten, by an end of the call; nothing else of a terminal row is.
Final(k) ==
  Exists(k) /\ call[k].status \in Terminal =>
    \/ call'[k] = call[k] /\ result'[k] = result[k]
    \/ Recovered(call[k]) /\ call'[k] \in CallRow /\ call'[k].status \in Terminal

OnlyRecoveredIsOverwritten == [][\A k \in Key : Final(k)]_vars

\* A request writes to a terminal row only in its last step, which ends the call.
LEMMA WorkIsFinal ==
  ASSUME RowInv, NEW r \in Request, Screen(r) \/ Execute(r) \/ Conclude(r), NEW k \in Key
  PROVE  Final(k)
<1> SUFFICES ASSUME call[k].status \in Terminal
             PROVE  \/ call'[k] = call[k] /\ result'[k] = result[k]
                    \/ Recovered(call[k]) /\ call'[k] \in CallRow /\ call'[k].status \in Terminal
  BY DEF Final
<1>1. WorkStep(r) /\ pc[r] \in Working
  BY ProceedIsWork DEF RowInv, WorkStep
<1>2. call \in [Key -> CallRow \cup {NoCall}] /\ result \in [Key -> {"none", "valid", "invalid"}]
  BY DEF RowInv, IndInv, TypeOK
<1>3. CASE k # KeyOf(r)
  <2>1. call'[k] = call[k]
    BY <1>1, <1>2, <1>3 DEF WorkStep
  <2>2. result'[k] = result[k]
    BY <1>1, <1>2, <1>3 DEF WorkStep
  <2> QED
    BY <2>1, <2>2
<1>4. CASE k = KeyOf(r)
  <2>1. /\ held[r] \in CallRow /\ held[r].decision \in Decision
        /\ InStep(pc[r], held[r], call[k], invoked[k])
    BY <1>1, <1>4, AtWork DEF CallRow
  <2>2. Recovered(call[k]) /\ pc[r] \in Late
    BY <2>1, <1>1 DEF InStep, Stage, Terminal, Working
  <2>3. ASSUME NEW st \in {"failed", "timed_out", "succeeded"}, NEW dec \in Decision,
               NEW code \in ErrorCode, call' = [call EXCEPT ![k] = TransitionTo(held[r], st, dec, code)]
        PROVE  call'[k] \in CallRow /\ call'[k].status \in Terminal
    <3>1. st \in Status /\ st \in Terminal
      BY DEF Status, Terminal
    <3>2. TransitionTo(held[r], st, dec, code) \in CallRow
          /\ TransitionTo(held[r], st, dec, code).status = st
      BY <2>1, <3>1, TransitionKeeps
    <3> QED
      BY <1>2, <2>3, <3>1, <3>2
  <2>4. ASSUME NEW st \in {"failed", "timed_out"}, NEW code \in ErrorCode, NEW event, NEW a,
               Settle(r, st, code, event, a)
        PROVE  call'[k] \in CallRow /\ call'[k].status \in Terminal
    BY <1>4, <2>1, <2>3, <2>4 DEF Settle, Store
  <2>5. ASSUME NEW st \in {"failed", "succeeded"}, NEW dec \in Decision, NEW code \in ErrorCode,
               NEW metadata, NEW a, Finalize(r, st, dec, code, metadata, a)
        PROVE  \/ call'[k] \in CallRow /\ call'[k].status \in Terminal
               \/ call' = call /\ result' = result
    BY <1>4, <2>3, <2>5 DEF Finalize, Store, database
  <2>6. CASE Screen(r)
    BY <2>2, <2>6 DEF Screen, BeginValidating, Reject, EvaluateInput, Late
  <2>7. CASE Execute(r)
    <3>1. CASE StartExecuting(r)
      BY <2>2, <3>1 DEF StartExecuting, Late
    <3>2. CASE FailUnconfigured(r)
      <4>1. "adapter_not_configured" \in ErrorCode
        BY DEF ErrorCode
      <4> QED
        BY <2>2, <2>4, <3>2, <4>1 DEF FailUnconfigured, Fail
    <3>3. CASE InvokeAdapter(r)
      BY <3>3 DEF InvokeAdapter, database
    <3> QED
      BY <2>7, <3>1, <3>2, <3>3 DEF Execute
  <2>8. CASE Conclude(r)
    <3>1. CASE TimeOut(r) \/ (\E code \in AdapterErrors : FailInAdapter(r, code))
               \/ \E code \in ResultErrors : FailResult(r, code)
      <4>1. AdapterErrors \cup ResultErrors \cup {"tool_timeout"} \subseteq ErrorCode
        BY ErrorAssumption DEF ErrorCode
      <4>2. \E st \in {"failed", "timed_out"}, code \in ErrorCode : \E event, a : Settle(r, st, code, event, a)
        BY <3>1, <4>1 DEF TimeOut, FailInAdapter, FailResult, Fail
      <4> QED
        BY <2>2, <2>4, <4>2
    <3>2. CASE \E risky \in BOOLEAN : FinalizeInvalid(r, risky)
      <4>1. "invalid_tool_result" \in ErrorCode
        BY DEF ErrorCode
      <4>2. \A risky \in BOOLEAN : ResultDecision(held[r].decision, risky) \in Decision
        BY <2>1 DEF ResultDecision, Decision
      <4> QED
        BY <2>2, <2>5, <3>2, <4>1, <4>2 DEF FinalizeInvalid
    <3>3. CASE FinalizeSucceeded(r)
      <4>1. "none" \in ErrorCode
        BY DEF ErrorCode
      <4> QED
        BY <2>1, <2>2, <2>5, <3>3, <4>1 DEF FinalizeSucceeded
    <3>4. CASE \/ DropSanitizedResult(r)
               \/ \E matches \in SUBSET enabled, risky \in BOOLEAN : ReadResultRules(r, matches, risky)
      BY <3>4 DEF DropSanitizedResult, ReadResultRules, database
    <3> QED
      BY <2>8, <3>1, <3>2, <3>3, <3>4 DEF Conclude
  <2> QED
    BY <2>6, <2>7, <2>8
<1> QED
  BY <1>3, <1>4

\* However short the stale period is, and whoever comes late: a call that has ended stays ended, and
\* its row is overwritten only where recovery had assumed what it did not know.
THEOREM EndsAreFinal == Spec => OnlyRecoveredIsOverwritten
<1>1. ASSUME RowInv, [Next]_vars, NEW k \in Key PROVE Final(k)
  <2> USE <1>1
  <2>1. ASSUME NEW r \in Request, Arrive(r) \/ Abort(r) \/ LockSession(r) PROVE Final(k)
    BY <2>1 DEF Arrive, Replay, Receive, Abort, LockSession, database, Final
  <2>2. ASSUME NEW r \in Request, InsertReceived(r) PROVE Final(k)
    <3>1. /\ result' = result
          /\ \/ call' = call
             \/ ~Exists(KeyOf(r)) /\ call' = [call EXCEPT ![KeyOf(r)] = held[r]]
      BY <2>2 DEF InsertReceived, KeyTaken, Store
    <3> QED
      BY <3>1 DEF Final, Exists, RowInv, IndInv, TypeOK
  <2>3. ASSUME NEW r \in Request, Screen(r) \/ Execute(r) \/ Conclude(r) PROVE Final(k)
    BY <2>3, WorkIsFinal
  <2>4. CASE Recover
    <3>1. PICK batch \in SUBSET Claimable : RecoverBatch(batch)
      BY <2>4 DEF Recover
    <3>2. k \in batch => call[k].status = "executing"
      BY DEF Claimable, Is
    <3> QED
      BY <3>1, <3>2 DEF RecoverBatch, Final, Terminal
  <2>5. CASE Operate \/ (\E j \in Key : Elapse(j)) \/ UNCHANGED vars
    BY <2>5 DEF Operate, CompleteSession, SetRuleEnabled, SetToolEnabled, Elapse, database, vars, Final
  <2> QED
    BY <2>1, <2>2, <2>3, <2>4, <2>5 DEF Next, Proceed, Create
<1>2. RowInv /\ [Next]_vars => [\A k \in Key : Final(k)]_vars
  BY <1>1
<1> QED
  BY <1>2, RowInvariance, PTL DEF Spec, OnlyRecoveredIsOverwritten

=============================================================================
