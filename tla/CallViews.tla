----------------------------- MODULE CallViews -----------------------------
(***************************************************************************)
(* What a reader is shown while calls are executed, retried, recovered and *)
(* their session ends: ToolCallService.get and the pages of the dashboard. *)
(* A page is put together from several statements of one READ COMMITTED    *)
(* transaction: nothing but their order relates what they see.  Each list  *)
(* on it is limited to the first so many rows.                             *)
(*                                                                         *)
(* Agents, tools and the names of the matched rules are read as well.      *)
(* They are never deleted and what is shown of them never changes, so no   *)
(* step is needed.  The flags are seen in the trail, which tells of them.  *)
(***************************************************************************)
EXTENDS ToolCalls

CONSTANTS
  CallLimit,    \* how many calls of a session a page has: 200
  EventLimit    \* how many audit events a page has: 200

ASSUME LimitAssumption == CallLimit \in Nat \ {0} /\ EventLimit \in Nat \ {0}

\* The identifiers of calls and of sessions are of different kinds.
ASSUME SubjectAssumption == Key \cap Session = {} /\ NoCall \notin Key \cup Session

VARIABLES
  subject,   \* the call (a key) or the session the page is about, or NoCall
  parts,     \* how many statements of the page have been executed
  page       \* what they returned

reader == <<subject, parts, page>>

ViewVars == <<vars, reader>>

\* Mutant of CallPage: the history is read before the row.
CallPageTrailFirst == <<"trail", "row", "result">>

\* tool_call_view: get_by_id, get_by_tool_call_id, then the audit events.
CallPage == <<"row", "result", "trail">>

\* Mutant of SessionPage: the calls are read before the session they are in.
SessionPageCallsFirst == <<"calls", "session", "history">>

\* session_timeline: the session, the first of its calls, then the first of its audit events.
\* list_sessions shows the same calls and no events.
SessionPage == <<"session", "calls", "history">>

ReadOrder == IF subject \in Session THEN SessionPage ELSE CallPage

ViewInit ==
  /\ Init
  /\ subject = NoCall
  /\ parts = 0
  /\ page = <<>>

\* The reader asks for a page: a call or a session that is not there is answered not found.
Open ==
  /\ subject = NoCall
  /\ subject' \in {k \in Key : Exists(k)} \cup Session
  /\ UNCHANGED <<vars, parts, page>>

\* list, ordered by sequence_number, from offset 0.
FirstCalls(s) ==
  {k \in CallsOf(s) : Cardinality({j \in CallsOf(s) : call[j].seq < call[k].seq}) < CallLimit}

\* The oldest audit events of some calls, or of the session they are in.  Rows that the model does
\* without (matched rules, redactions, what happens to the session and to its agent runs) take up
\* places too, so that any page may be cut at the limit; which events are left on one that is, no
\* property tells.
EventsOf(keys) ==
  LET events == UNION {{k} \X DOMAIN audit[k] : k \in keys}
  IN {[cut |-> TRUE, trail |-> <<>>]} \cup
     (IF Cardinality(events) > EventLimit THEN {}
      ELSE {[cut |-> FALSE, trail |-> [k \in keys |-> audit[k]]]})

\* What a statement of the page may return.
PartOf(part) ==
  CASE part = "row"     -> {call[subject]}
    [] part = "result"  -> {result[subject]}
    [] part = "trail"   -> EventsOf({subject})
    [] part = "session" -> {session[subject]}
    [] part = "calls"   -> {[k \in FirstCalls(subject) |-> call[k]]}
    [] part = "history" -> EventsOf(CallsOf(subject))

\* The next statement of the page.
ReadPart ==
  /\ subject # NoCall
  /\ parts < Len(ReadOrder)
  /\ \E part \in PartOf(ReadOrder[parts + 1]) : page' = Append(page, part)
  /\ parts' = parts + 1
  /\ UNCHANGED <<vars, subject>>

ViewNext == (Next /\ UNCHANGED reader) \/ Open \/ ReadPart

ViewSpec == ViewInit /\ [][ViewNext]_ViewVars

-----------------------------------------------------------------------------
(* Properties                                                              *)

\* The page is complete, and what it says under a heading.
Shown(s) == subject \in s /\ parts = Len(ReadOrder)
Of(part) == page[CHOOSE n \in 1..Len(ReadOrder) : ReadOrder[n] = part]

\* The history tells how the row came to be what it is.
Tells(trail, row) ==
  /\ \E n \in 1..Len(trail) : trail[n] = EventOf(row)
  /\ row.decision = "flag" => FlaggedIn(trail)

\* A list of events that is not cut has, for this call, what tells of the row.
ToldBy(list, k, row) == list.cut \/ Tells(list.trail[k], row)

\* A call is never shown as succeeded without its result, nor with a history that does not tell
\* of the status and the flag that are shown, unless the page ends before the history does: though
\* each is read by a statement of its own and recovery and a late execution may overwrite the row
\* in between.
CallPageCoherent ==
  Shown(Key) =>
    /\ Of("row").status = "succeeded" => Of("result") = "valid"
    /\ ToldBy(Of("trail"), subject, Of("row"))

\* A session that is shown as ended is shown with the first of all the calls it will ever have, as
\* many as a page takes: with all of them if it takes as many.  Every call that is shown has a
\* history on the page that tells of it, unless the page ends before the events of the session do.
SessionPageComplete ==
  Shown(Session) =>
    /\ Of("session") = "ended" => DOMAIN Of("calls") = FirstCalls(subject)
    /\ \A k \in DOMAIN Of("calls") : ToldBy(Of("history"), k, Of("calls")[k])

=============================================================================
