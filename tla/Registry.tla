------------------------------ MODULE Registry ------------------------------
(***************************************************************************)
(* The catalogue and the sessions: SessionService, ToolService, RuleService *)
(* and the seed command, over the tables they share through PostgreSQL.    *)
(*                                                                         *)
(* A request is one asyncio task with one transaction (the seed: one per   *)
(* entry).  An action is the part of it between two statements that can    *)
(* see or wait for another transaction.  A statement reads what was        *)
(* committed before it (READ COMMITTED), except its own writes.            *)
(*                                                                         *)
(* A session row is keyed by its place in started_at order: the time is    *)
(* taken when the row is built, which is before it is committed.           *)
(***************************************************************************)
EXTENDS Naturals, Sequences, FiniteSets

CONSTANTS
  Request,     \* calls of the services, by clients, operators and the seed command
  Identity,    \* logical agents: (name, provider, model_name, version)
  Tool,        \* (name, version) of tool definitions
  Rule,        \* names of blocking rules
  ResultRule,  \* those with the condition result_has_flag
  Seeded,      \* what the seed registers, in its order
  Operation,   \* what the requests ask for
  NoAgent, NoSession, NoEntry, NoRequest

ASSUME RuleAssumption == ResultRule \subseteq Rule /\ Tool \cap Rule = {}
ASSUME SeedAssumption == Seeded \in Seq(Tool \cup Rule)
ASSUME RequestAssumption == IsFiniteSet(Request) /\ NoAgent \notin Request /\ NoRequest \notin Request

Entry == Tool \cup Rule

\* Each request builds one session at most.
Slot == 1..Cardinality(Request)

\* What a patch may change.  A description is one more value like priority.
Column(e) == IF e \in Tool THEN {"enabled"} ELSE {"enabled", "priority", "action"}

\* The values of a column, two of each: action is block when it is 1, and else flag or allow.
Row(e) == [Column(e) -> {0, 1}]

\* BlockingRule.__post_init__: result rules cannot use the block action.
Valid(e, row) == e \in ResultRule => row.action = 0

AddedRow == [c \in {"enabled", "priority", "action"} |-> IF c = "enabled" THEN 1 ELSE 0]
Default(e) == [c \in Column(e) |-> AddedRow[c]]

SessionRow == [agent: Request, status: {"active", "completed", "failed"}]

ASSUME NoRowAssumption == NoSession \notin SessionRow /\ \A e \in Entry : NoEntry \notin Row(e)

ASSUME OperationAssumption ==
  \A o \in Operation :
    \/ o.kind = "start" /\ o.identity \in Identity
    \/ o.kind = "end" /\ o.slot \in Slot /\ o.status \in {"completed", "failed"}
    \/ o.kind = "add" /\ o.entry \in Entry /\ o.row \in Row(o.entry)
    \/ o.kind = "patch" /\ o.entry \in Entry
         /\ \E cs \in SUBSET Column(o.entry) : o.set \in [cs -> {0, 1}]

-----------------------------------------------------------------------------
VARIABLES
  agent,     \* agents: identity -> id, which is the request that made the row
  claim,     \* the request whose uncommitted insert holds an identity
  session,   \* agent_sessions
  trail,     \* the audit events of a session that its own lifecycle writes
  lock,      \* holder of the FOR UPDATE lock of a session row
  built,     \* how many sessions have been built: the clock of started_at
  catalog,   \* tool_definitions and blocking_rules
  pc,        \* where a request stands
  op,        \* what it asks for
  mine       \* what it has read: an agent id with a slot, a session row, or two copies of a row

tables == <<agent, claim, session, trail, lock, built, catalog>>
vars == <<agent, claim, session, trail, lock, built, catalog, pc, op, mine>>

Location == {"idle", "find", "upsert", "refind", "open", "end", "ending", "add", "patch",
             "loading", "flushing", "done", "refused", "gone"}

Working == Location \ {"idle", "done", "refused", "gone"}

Nothing == [of |-> "nothing"]

TypeOK ==
  /\ agent \in [Identity -> Request \cup {NoAgent}]
  /\ claim \in [Identity -> Request \cup {NoRequest}]
  /\ session \in [Slot -> SessionRow \cup {NoSession}]
  /\ trail \in [Slot -> Seq({"started", "completed", "failed"})]
  /\ lock \in [Slot -> Request \cup {NoRequest}]
  /\ built \in 0..Cardinality(Request)
  /\ DOMAIN catalog = Entry
  /\ \A e \in Entry : catalog[e] \in {row \in Row(e) : Valid(e, row)} \cup {NoEntry}
  /\ pc \in [Request -> Location]
  /\ op \in [Request -> Operation \cup [kind: {"seed"}, left: Seq(Entry)] \cup {Nothing}]

Init ==
  /\ agent = [i \in Identity |-> NoAgent]
  /\ claim = [i \in Identity |-> NoRequest]
  /\ session = [s \in Slot |-> NoSession]
  /\ trail = [s \in Slot |-> <<>>]
  /\ lock = [s \in Slot |-> NoRequest]
  /\ built = 0
  /\ catalog = [e \in Entry |-> NoEntry]
  /\ pc = [r \in Request |-> "idle"]
  /\ op = [r \in Request |-> Nothing]
  /\ mine = [r \in Request |-> Nothing]

Go(r, place) == pc' = [pc EXCEPT ![r] = place]

\* A request arrives at the place where its handler begins.
Ask(r, o, place) ==
  /\ pc[r] = "idle"
  /\ op' = [op EXCEPT ![r] = o]
  /\ Go(r, place)
  /\ UNCHANGED <<tables, mine>>

AskStart(r) == \E o \in Operation : o.kind = "start" /\ Ask(r, o, "find")

\* A session is ended by a client that knows its identifier.
AskEnd(r) == \E o \in Operation : o.kind = "end" /\ session[o.slot] # NoSession /\ Ask(r, o, "end")

AskRegister(r) == \E o \in Operation : o.kind = "add" /\ o.entry \in Tool /\ Ask(r, o, "add")

AskEnable(r) == \E o \in Operation : o.kind = "patch" /\ o.entry \in Tool /\ Ask(r, o, "patch")

AskCreate(r) == \E o \in Operation : o.kind = "add" /\ o.entry \in Rule /\ Ask(r, o, "add")

AskPatch(r) == \E o \in Operation : o.kind = "patch" /\ o.entry \in Rule /\ Ask(r, o, "patch")

\* The seed command, or one that is run beside it.
AskSeed(r) == Ask(r, [kind |-> "seed", left |-> Seeded], "add")

Arrive(r) ==
  \/ AskStart(r) \/ AskEnd(r)
  \/ AskRegister(r) \/ AskEnable(r) \/ AskCreate(r) \/ AskPatch(r)
  \/ AskSeed(r)

-----------------------------------------------------------------------------
(* SessionService.create                                                   *)

\* The agent is known: the session is built with the time of now.
Resolved(r, id) ==
  /\ built' = built + 1
  /\ mine' = [mine EXCEPT ![r] = [of |-> "session", agent |-> id, slot |-> built + 1]]
  /\ Go(r, "open")

\* find_by_identity
FindAgent(r) ==
  LET i == op[r].identity IN
  /\ pc[r] = "find"
  /\ IF agent[i] # NoAgent
     THEN Resolved(r, agent[i])
     ELSE Go(r, "upsert") /\ UNCHANGED <<built, mine>>
  /\ UNCHANGED <<agent, claim, session, trail, lock, catalog, op>>

\* Mutant of UpsertAgent: the agent this request has built is used though it was not inserted.
UpsertAgentBlind(r) ==
  LET i == op[r].identity IN
  /\ pc[r] = "upsert"
  /\ claim[i] = NoRequest
  /\ Resolved(r, r)
  /\ claim' = IF agent[i] = NoAgent THEN [claim EXCEPT ![i] = r] ELSE claim
  /\ UNCHANGED <<agent, session, trail, lock, catalog, op>>

\* INSERT ... ON CONFLICT DO NOTHING RETURNING.  It waits for a transaction that has inserted the
\* identity, and returns no row if that one commits.
UpsertAgent(r) ==
  LET i == op[r].identity IN
  /\ pc[r] = "upsert"
  /\ claim[i] = NoRequest
  /\ IF agent[i] = NoAgent
     THEN Resolved(r, r) /\ claim' = [claim EXCEPT ![i] = r]
     ELSE Go(r, "refind") /\ UNCHANGED <<claim, built, mine>>
  /\ UNCHANGED <<agent, session, trail, lock, catalog, op>>

\* The lookup after a conflict; no row is "agent upsert did not return a row".
FindAgain(r) ==
  LET i == op[r].identity IN
  /\ pc[r] = "refind"
  /\ IF agent[i] # NoAgent
     THEN Resolved(r, agent[i])
     ELSE Go(r, "gone") /\ UNCHANGED <<built, mine>>
  /\ UNCHANGED <<agent, claim, session, trail, lock, catalog, op>>

InsertSession(s, id) == session' = [session EXCEPT ![s] = [agent |-> id, status |-> "active"]]

\* The session and its audit event are inserted, and the agent is committed with them.
OpenSession(r) ==
  LET i == op[r].identity
      s == mine[r].slot
  IN
  /\ pc[r] = "open"
  /\ InsertSession(s, mine[r].agent)
  /\ trail' = [trail EXCEPT ![s] = <<"started">>]
  /\ agent' = IF claim[i] = r THEN [agent EXCEPT ![i] = r] ELSE agent
  /\ claim' = IF claim[i] = r THEN [claim EXCEPT ![i] = NoRequest] ELSE claim
  /\ Go(r, "done")
  /\ UNCHANGED <<lock, built, catalog, op, mine>>

-----------------------------------------------------------------------------
(* SessionService.complete                                                 *)

\* Mutant of LockSession: the row is read without FOR UPDATE.
LockSessionPlain(r) ==
  LET s == op[r].slot IN
  /\ pc[r] = "end"
  /\ mine' = [mine EXCEPT ![r] = [of |-> "row", row |-> session[s]]]
  /\ Go(r, "ending")
  /\ UNCHANGED <<tables, op>>

\* get_by_id(..., for_update=True)
LockSession(r) ==
  LET s == op[r].slot IN
  /\ pc[r] = "end"
  /\ lock[s] = NoRequest
  /\ lock' = [lock EXCEPT ![s] = r]
  /\ mine' = [mine EXCEPT ![r] = [of |-> "row", row |-> session[s]]]
  /\ Go(r, "ending")
  /\ UNCHANGED <<agent, claim, session, trail, built, catalog, op>>

UpdateStatus(s, status) == session' = [session EXCEPT ![s].status = status]

\* AgentSession.transition_to on the row as it was read: the same status again changes nothing,
\* another one is refused, and an active session gets its end and the audit event of it.
EndSession(r) ==
  LET s == op[r].slot
      read == mine[r].row
  IN
  /\ pc[r] = "ending"
  /\ IF read.status = "active"
     THEN /\ UpdateStatus(s, op[r].status)
          /\ trail' = [trail EXCEPT ![s] = Append(@, op[r].status)]
     ELSE UNCHANGED <<session, trail>>
  /\ Go(r, IF read.status \in {"active", op[r].status} THEN "done" ELSE "refused")
  /\ lock' = [lock EXCEPT ![s] = IF @ = r THEN NoRequest ELSE @]
  /\ mine' = [mine EXCEPT ![r] = Nothing]
  /\ UNCHANGED <<agent, claim, built, catalog, op>>

-----------------------------------------------------------------------------
(* ToolService, RuleService and the seed                                   *)

\* uq_tool_definitions_name_version and uq_blocking_rules_name
Taken(e) == catalog[e] # NoEntry

\* The end of a registration: the row is inserted and committed, or the request is refused.
Register(r, accepted) ==
  /\ IF accepted
     THEN catalog' = [catalog EXCEPT ![op[r].entry] = op[r].row] /\ Go(r, "done")
     ELSE Go(r, "refused") /\ UNCHANGED catalog
  /\ UNCHANGED <<agent, claim, session, trail, lock, built, op, mine>>

\* ToolService.register
AddTool(r) ==
  /\ pc[r] = "add" /\ op[r].kind = "add" /\ op[r].entry \in Tool
  /\ Register(r, ~Taken(op[r].entry))

\* RuleService.create, of a rule that the domain class accepts.
AddRule(r) ==
  /\ pc[r] = "add" /\ op[r].kind = "add" /\ op[r].entry \in Rule
  /\ Register(r, ~Taken(op[r].entry) /\ Valid(op[r].entry, op[r].row))

\* Mutant of SeedEntry: an entry that is there is set back to what the seed says.
SeedEntryAnew(r) ==
  /\ pc[r] = "add" /\ op[r].kind = "seed" /\ op[r].left # <<>>
  /\ LET e == Head(op[r].left) IN catalog' = [catalog EXCEPT ![e] = Default(e)]
  /\ op' = [op EXCEPT ![r].left = Tail(@)]
  /\ UNCHANGED <<agent, claim, session, trail, lock, built, pc, mine>>

\* seed: one transaction for each entry, and an entry that is there is left alone.
SeedEntry(r) ==
  /\ pc[r] = "add" /\ op[r].kind = "seed" /\ op[r].left # <<>>
  /\ LET e == Head(op[r].left) IN
     catalog' = IF catalog[e] = NoEntry THEN [catalog EXCEPT ![e] = Default(e)] ELSE catalog
  /\ op' = [op EXCEPT ![r].left = Tail(@)]
  /\ UNCHANGED <<agent, claim, session, trail, lock, built, pc, mine>>

SeedDone(r) ==
  /\ pc[r] = "add" /\ op[r].kind = "seed" /\ op[r].left = <<>>
  /\ Go(r, "done")
  /\ UNCHANGED <<tables, op, mine>>

\* Mutant of Patched: a column that the patch does not name is reset.
PatchedReset(row, set) == [c \in DOMAIN row |-> IF c \in DOMAIN set THEN set[c] ELSE AddedRow[c]]

\* replace(current, ...): None means as it was.  ToolDefinition.set_enabled comes to the same.
Patched(row, set) == [c \in DOMAIN row |-> IF c \in DOMAIN set THEN set[c] ELSE row[c]]

\* Mutant of ReadEntry: the patched rule is not validated.
ReadEntryUnchecked(r) ==
  LET e == op[r].entry IN
  /\ pc[r] = "patch"
  /\ IF catalog[e] # NoEntry
     THEN /\ mine' = [mine EXCEPT ![r] = [of |-> "patch", read |-> catalog[e]]]
          /\ Go(r, "loading")
     ELSE Go(r, "refused") /\ UNCHANGED mine
  /\ UNCHANGED <<tables, op>>

\* The first read of set_enabled and of RuleService.update, which takes no lock.  The patched rule
\* is validated before anything is written.
ReadEntry(r) ==
  LET e == op[r].entry IN
  /\ pc[r] = "patch"
  /\ IF catalog[e] # NoEntry /\ Valid(e, Patched(catalog[e], op[r].set))
     THEN /\ mine' = [mine EXCEPT ![r] = [of |-> "patch", read |-> catalog[e]]]
          /\ Go(r, "loading")
     ELSE Go(r, "refused") /\ UNCHANGED mine
  /\ UNCHANGED <<tables, op>>

\* The repository gets the row again.  Nothing refers to the object of the first read, so the
\* weak identity map may have lost it, and then the row is selected anew.
LoadEntry(r) ==
  LET e == op[r].entry IN
  /\ pc[r] = "loading"
  /\ \E row \in {mine[r].read, catalog[e]} :
       mine' = [mine EXCEPT ![r] = [of |-> "patch", read |-> mine[r].read, loaded |-> row]]
  /\ Go(r, "flushing")
  /\ UNCHANGED <<tables, op>>

\* The flush and the commit: UPDATE sets the columns in which the object that was loaded differs
\* from the patched copy of the row that was read first.
FlushEntry(r) ==
  LET e == op[r].entry
      new == Patched(mine[r].read, op[r].set)
  IN
  /\ pc[r] = "flushing"
  /\ catalog' = [catalog EXCEPT ![e] =
       [c \in DOMAIN @ |-> IF new[c] # mine[r].loaded[c] THEN new[c] ELSE @[c]]]
  /\ mine' = [mine EXCEPT ![r] = Nothing]
  /\ Go(r, "done")
  /\ UNCHANGED <<agent, claim, session, trail, lock, built, op>>

-----------------------------------------------------------------------------
(* The specification                                                       *)

\* Mutant of Abort: nothing is rolled back.
AbortHolding(r) ==
  /\ pc[r] \in Working
  /\ Go(r, "gone")
  /\ UNCHANGED <<tables, op, mine>>

\* The request is cancelled or fails: its transaction is rolled back.
Abort(r) ==
  /\ pc[r] \in Working
  /\ claim' = [i \in Identity |-> IF claim[i] = r THEN NoRequest ELSE claim[i]]
  /\ lock' = [s \in Slot |-> IF lock[s] = r THEN NoRequest ELSE lock[s]]
  /\ mine' = [mine EXCEPT ![r] = Nothing]
  /\ Go(r, "gone")
  /\ UNCHANGED <<agent, session, trail, built, catalog, op>>

Proceed(r) ==
  \/ FindAgent(r) \/ UpsertAgent(r) \/ FindAgain(r) \/ OpenSession(r)
  \/ LockSession(r) \/ EndSession(r)
  \/ AddTool(r) \/ AddRule(r) \/ SeedEntry(r) \/ SeedDone(r)
  \/ ReadEntry(r) \/ LoadEntry(r) \/ FlushEntry(r)

Next == \E r \in Request : Arrive(r) \/ Proceed(r) \/ Abort(r)

Spec == Init /\ [][Next]_vars

-----------------------------------------------------------------------------
(* Properties                                                              *)

\* However creations of one identity race and fail, each session that is committed belongs to the
\* one agent row of the identity it was asked for (docs/adr/0002, "reuse one logical agent"), and
\* no creation ends without a row to use.
SessionsHaveTheirAgent ==
  \A r \in Request : pc[r] = "done" /\ op[r].kind = "start" =>
    /\ agent[op[r].identity] # NoAgent
    /\ session[mine[r].slot].agent = agent[op[r].identity]

\* The audit trail of a session tells its status: one start, and one end exactly if it has ended,
\* with the status it has.  Completions race for the row, and only one of them may end it.
TrailTellsStatus ==
  \A s \in Slot :
    trail[s] = IF session[s] = NoSession THEN <<>>
               ELSE IF session[s].status = "active" THEN <<"started">>
               ELSE <<"started", session[s].status>>

\* An entry, once registered, changes by a patch only: neither registration nor the seed touches
\* it.  And the patch sets what it names and nothing else, when no other one has committed since
\* its first read.
OnlyPatchesChange ==
  [][\A e \in Entry : catalog[e] # NoEntry /\ catalog'[e] # catalog[e] =>
       \E r \in Request :
         /\ pc[r] = "flushing" /\ pc'[r] = "done" /\ op[r].entry = e
         /\ mine[r].read = catalog[e] /\ mine[r].loaded = catalog[e] =>
              \A c \in Column(e) :
                catalog'[e][c] = IF c \in DOMAIN op[r].set THEN op[r].set[c] ELSE catalog[e][c]]_vars

\* Nobody waits for ever for an identity or a session row: each request comes to an end.
RequestsEnd == \A r \in Request : pc[r] \in Working ~> pc[r] \notin Working

=============================================================================
