------------------------------ MODULE Listing ------------------------------
(***************************************************************************)
(* A reader that walks through the pages of the session list while the     *)
(* services of Registry write: GET /api/v1/sessions and the dashboard's    *)
(* list.  Each page is two statements, the items and then the total, and   *)
(* nothing holds between two pages.  Other lists have limit and offset     *)
(* too, each in an order of its own: that of the rules goes by a priority  *)
(* which patches change, and what is shown here does not carry over to it. *)
(***************************************************************************)
EXTENDS Registry

CONSTANT PageSize   \* limit

ASSUME PageAssumption == PageSize \in Nat \ {0}

VARIABLES
  step,     \* the reader: before the walk, before the items, before the total, at the end
  filter,   \* the status it asks for, or all
  offset,
  total,
  known,    \* the sessions that were listed when the walk began
  seen      \* the sessions it has been shown

reader == <<step, filter, offset, total, known, seen>>

ListVars == <<vars, reader>>

ListTypeOK ==
  /\ TypeOK
  /\ step \in {"start", "items", "total", "end"}
  /\ filter \in {"all", "active"}
  /\ offset \in 0..Cardinality(Request) + PageSize
  /\ total \in 0..Cardinality(Request)
  /\ known \subseteq Slot /\ seen \subseteq Slot

ListInit ==
  /\ Init
  /\ step = "start"
  /\ filter \in {"all", "active"}
  /\ offset = 0 /\ total = 0
  /\ known = {} /\ seen = {}

\* The WHERE clause: the filter is left out when no status is asked for.
Matching == {s \in Slot : session[s] # NoSession /\ (filter = "all" \/ session[s].status = filter)}

\* Mutant of Rank: the sessions that have ended are listed after the active ones.
RankByStatus(s) ==
  Cardinality({t \in Matching : IF session[t].status = session[s].status
                                THEN t > s ELSE session[t].status = "active"})

\* ORDER BY started_at DESC, id DESC: how many rows come before this one.
Rank(s) == Cardinality({t \in Matching : t > s})

\* LIMIT and OFFSET
Page == {s \in Matching : Rank(s) \in offset..offset + PageSize - 1}

\* What a reader that starts now can expect to see.
BeginWalk ==
  /\ step = "start"
  /\ known' = Matching
  /\ step' = "items"
  /\ UNCHANGED <<vars, filter, offset, total, seen>>

ReadItems ==
  /\ step = "items"
  /\ seen' = seen \cup Page
  /\ step' = "total"
  /\ UNCHANGED <<vars, filter, offset, total, known>>

\* The count, and pagination_view's has_next: the walk goes on while there is a next page.
ReadTotal ==
  /\ step = "total"
  /\ total' = Cardinality(Matching)
  /\ IF offset + PageSize < total'
     THEN offset' = offset + PageSize /\ step' = "items"
     ELSE step' = "end" /\ UNCHANGED offset
  /\ UNCHANGED <<vars, filter, known, seen>>

ListNext ==
  \/ Next /\ UNCHANGED reader
  \/ BeginWalk \/ ReadItems \/ ReadTotal

\* The event loop and the database let a task that can go on go on.
ListSpec ==
  /\ ListInit /\ [][ListNext]_ListVars
  /\ \A r \in Request : WF_ListVars(Proceed(r) /\ UNCHANGED reader)

-----------------------------------------------------------------------------
(* Properties                                                              *)

\* A walk over the unfiltered list shows every session that was there when it began, though
\* sessions are created, and end, while it goes on: the order key of a row never changes and no
\* row is deleted, so that a row is only ever pushed to a later page.
WalkMissesNothing == step = "end" /\ filter = "all" => known \subseteq seen

=============================================================================
