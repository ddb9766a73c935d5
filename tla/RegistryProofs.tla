--------------------------- MODULE RegistryProofs ---------------------------
(***************************************************************************)
(* Theorems about Registry, for any requests, agents, tools, rules and     *)
(* seed: sessions have the agent they were asked for, their trail tells    *)
(* their status, and entries are changed by patches only.  And about       *)
(* Listing, for any pages: a walk through the whole list misses nothing.   *)
(***************************************************************************)
EXTENDS Listing, FiniteSetTheorems, SequenceTheorems, TLAPS

\* What a request has been asked for, by where it stands.
AskedFor(r) ==
  /\ pc[r] \in {"find", "upsert", "refind", "open"} => op[r] \in Operation /\ op[r].kind = "start"
  /\ pc[r] \in {"end", "ending"} =>
       op[r] \in Operation /\ op[r].kind = "end" /\ session[op[r].slot] # NoSession
  /\ pc[r] \in {"patch", "loading", "flushing"} => op[r] \in Operation /\ op[r].kind = "patch"
  /\ pc[r] = "add" => \/ op[r] \in Operation /\ op[r].kind = "add"
                      \/ op[r] \in [kind: {"seed"}, left: Seq(Entry)]

\* The request has built a session, and was not aborted since.
Builder(r) == pc[r] \in {"open", "done"} /\ op[r].kind = "start"

\* Those that have not built one, and still may.
Unbuilt == {r \in Request : pc[r] \in {"idle", "find", "upsert", "refind"}}

\* Each session that is built has a slot of its own, and none is there before it is built.
Slots ==
  /\ \A r \in Request : Builder(r) => mine[r].slot \in 1..built
  /\ \A r, q \in Request : Builder(r) /\ Builder(q) /\ r # q => mine[r].slot # mine[q].slot
  /\ \A s \in Slot : s > built => session[s] = NoSession

\* There is a slot for every request that may still build a session.
SlotsSuffice == built + Cardinality(Unbuilt) <= Cardinality(Request)

\* Only a request that is about to open a session has an uncommitted agent, and no other agent of
\* this identity is committed.
Claims ==
  \A i \in Identity : claim[i] # NoRequest =>
    agent[i] = NoAgent /\ pc[claim[i]] = "open" /\ op[claim[i]].identity = i

\* A session that is about to be opened: its agent is committed, or will be with it.
Opening(r) ==
  LET i == op[r].identity IN
  pc[r] = "open" =>
    /\ session[mine[r].slot] = NoSession
    /\ \/ agent[i] # NoAgent /\ mine[r].agent = agent[i]
       \/ claim[i] = r /\ mine[r].agent = r

\* A session that was opened.
Opened(r) ==
  LET i == op[r].identity IN
  pc[r] = "done" /\ op[r].kind = "start" =>
    /\ i \in Identity
    /\ agent[i] # NoAgent
    /\ session[mine[r].slot] # NoSession
    /\ session[mine[r].slot].agent = agent[i]

\* The request that ends a session holds the lock of the row, and has read what is there.
Locked(r) ==
  pc[r] = "ending" => lock[op[r].slot] = r /\ mine[r].row = session[op[r].slot]

\* The tables of sessions and agents, and the columns of TypeOK they consist of.
SessionTypes ==
  /\ agent \in [Identity -> Request \cup {NoAgent}]
  /\ claim \in [Identity -> Request \cup {NoRequest}]
  /\ session \in [Slot -> SessionRow \cup {NoSession}]
  /\ trail \in [Slot -> Seq({"started", "completed", "failed"})]
  /\ lock \in [Slot -> Request \cup {NoRequest}]
  /\ built \in 0..Cardinality(Request)

RequestTypes ==
  /\ pc \in [Request -> Location]
  /\ op \in [Request -> Operation \cup [kind: {"seed"}, left: Seq(Entry)] \cup {Nothing}]
  /\ DOMAIN mine = Request

CatalogTypes ==
  /\ DOMAIN catalog = Entry
  /\ \A e \in Entry : catalog[e] \in {row \in Row(e) : Valid(e, row)} \cup {NoEntry}

\* The copies of a row that a patch has read are rows, and what it will write is a valid one.
Patching(r) ==
  LET e == op[r].entry IN
  /\ pc[r] \in {"loading", "flushing"} =>
       /\ mine[r].read \in Row(e)
       /\ Valid(e, Patched(mine[r].read, op[r].set))
       /\ catalog[e] # NoEntry
  /\ pc[r] = "flushing" => mine[r].loaded \in Row(e)

SessionInv ==
  /\ SessionTypes
  /\ Slots /\ SlotsSuffice /\ Claims
  /\ \A r \in Request : Opening(r) /\ Opened(r) /\ Locked(r)
  /\ TrailTellsStatus

CatalogInv == CatalogTypes /\ \A r \in Request : Patching(r)

RequestInv == RequestTypes /\ \A r \in Request : AskedFor(r)

RegistryInv == RequestInv /\ SessionInv /\ CatalogInv

-----------------------------------------------------------------------------
(* The initial state                                                       *)

LEMMA InitInvariant == Init => RegistryInv
<1> SUFFICES ASSUME Init PROVE RegistryInv
  OBVIOUS
<1>1. Unbuilt = Request
  BY DEF Init, Unbuilt
<1>2. Cardinality(Request) \in Nat
  BY RequestAssumption, FS_CardinalityType
<1>3. RequestInv
  BY DEF RequestInv, RequestTypes, AskedFor, Init, Location
<1>4. SessionTypes /\ SlotsSuffice
  BY <1>1, <1>2 DEF Init, SessionTypes, SlotsSuffice
<1>5. Slots /\ Claims
  BY DEF Init, Slots, Claims, Builder
<1>6. TrailTellsStatus
  BY DEF Init, TrailTellsStatus
<1>7. \A r \in Request : Opening(r) /\ Opened(r) /\ Locked(r) /\ Patching(r)
  BY DEF Init, Opening, Opened, Locked, Patching
<1>8. CatalogTypes
  BY DEF Init, CatalogTypes
<1> QED
  BY <1>3, <1>4, <1>5, <1>6, <1>7, <1>8 DEF RegistryInv, SessionInv, CatalogInv

-----------------------------------------------------------------------------
(* Steps of one request                                                    *)

\* The request moves and may write what it keeps; the others stand still.
Moves(r, place) ==
  /\ pc' = [pc EXCEPT ![r] = place]
  /\ \A q \in Request \ {r} : op'[q] = op[q] /\ mine'[q] = mine[q]

\* What the others have been asked for holds on, as no session is ever deleted.
LEMMA OthersAsked ==
  ASSUME RegistryInv, NEW r \in Request, NEW place \in Location, Moves(r, place), RequestTypes',
         \A s \in Slot : session[s] # NoSession => session'[s] # NoSession, AskedFor(r)'
  PROVE RequestInv'
<1> SUFFICES ASSUME NEW q \in Request, q # r PROVE AskedFor(q)'
  BY DEF RequestInv
<1>1. pc'[q] = pc[q] /\ op'[q] = op[q]
  BY DEF Moves, RegistryInv, RequestInv, RequestTypes
<1>2. pc[q] \in {"end", "ending"} => op[q].slot \in Slot
  BY OperationAssumption DEF RegistryInv, RequestInv, AskedFor
<1> QED
  BY <1>1, <1>2 DEF RegistryInv, RequestInv, AskedFor

\* A step that neither writes the catalogue nor is one of a patch.
LEMMA CatalogUntouched ==
  ASSUME RegistryInv, NEW r \in Request, NEW place \in Location, Moves(r, place), UNCHANGED catalog,
         place \notin {"loading", "flushing"}
  PROVE CatalogInv'
BY DEF Moves, RegistryInv, RequestInv, RequestTypes, CatalogInv, CatalogTypes, Patching

-----------------------------------------------------------------------------
(* Steps that leave the sessions and agents alone                          *)

\* A request that is at none of the steps of the session service moves between other steps.
LEMMA SessionsUntouched ==
  ASSUME RegistryInv, NEW r \in Request, NEW place \in Location,
         UNCHANGED <<agent, claim, session, trail, lock, built>>,
         Moves(r, place), RequestTypes',
         pc[r] \notin {"open", "ending", "done"},
         place \in {"find", "upsert", "refind"} => pc[r] \in {"idle", "find", "upsert", "refind"},
         place \notin {"idle", "open", "ending"},
         place = "done" => op'[r].kind # "start"
  PROVE SessionInv'
<1>1. SessionTypes' /\ TrailTellsStatus'
  BY DEF RegistryInv, SessionInv, SessionTypes, TrailTellsStatus
<1>2. Slots'
  BY DEF Moves, RegistryInv, RequestInv, RequestTypes, SessionInv, Slots, Builder
<1>3. SlotsSuffice'
  <2>1. Unbuilt' \subseteq Unbuilt
    BY DEF Moves, RegistryInv, RequestInv, RequestTypes, Unbuilt
  <2>2. IsFiniteSet(Unbuilt)
    BY RequestAssumption, FS_Subset DEF Unbuilt
  <2>3. Cardinality(Unbuilt') <= Cardinality(Unbuilt) /\ Cardinality(Unbuilt) \in Nat
        /\ Cardinality(Unbuilt') \in Nat
    BY <2>1, <2>2, FS_Subset, FS_CardinalityType
  <2>4. Cardinality(Request) \in Nat /\ built \in Nat
    BY RequestAssumption, FS_CardinalityType DEF RegistryInv, SessionInv, SessionTypes
  <2> QED
    BY <2>3, <2>4 DEF RegistryInv, SessionInv, SlotsSuffice
<1>4. Claims'
  BY RequestAssumption DEF Moves, RegistryInv, RequestInv, RequestTypes, SessionInv, SessionTypes, Claims
<1>5. \A q \in Request : Opening(q)' /\ Opened(q)' /\ Locked(q)'
  <2> SUFFICES ASSUME NEW q \in Request PROVE Opening(q)' /\ Opened(q)' /\ Locked(q)'
    OBVIOUS
  <2>1. CASE q = r
    BY <2>1 DEF Moves, RegistryInv, RequestInv, RequestTypes, Opening, Opened, Locked
  <2>2. CASE q # r
    BY <2>2 DEF Moves, RegistryInv, RequestInv, RequestTypes, SessionInv, Opening, Opened, Locked
  <2> QED
    BY <2>1, <2>2
<1> QED
  BY <1>1, <1>2, <1>3, <1>4, <1>5 DEF SessionInv

\* A step that reads, at most.
LEMMA NothingWritten ==
  ASSUME RegistryInv, NEW r \in Request, NEW place \in Location, Moves(r, place), UNCHANGED tables,
         RequestTypes', AskedFor(r)',
         pc[r] \notin {"open", "ending", "done"},
         place \in {"find", "upsert", "refind"} => pc[r] \in {"idle", "find", "upsert", "refind"},
         place \notin {"idle", "open", "ending", "loading", "flushing"},
         place = "done" => op'[r].kind # "start"
  PROVE RegistryInv'
<1>1. RequestInv'
  BY OthersAsked DEF tables
<1>2. SessionInv'
  BY SessionsUntouched DEF tables
<1>3. CatalogInv'
  BY CatalogUntouched DEF tables
<1> QED
  BY <1>1, <1>2, <1>3 DEF RegistryInv

\* A request arrives, at a place where its handler begins.
LEMMA ArriveInvariant ==
  ASSUME RegistryInv, NEW r \in Request, Arrive(r) PROVE RegistryInv'
<1>1. ASSUME NEW o \in Operation \cup [kind: {"seed"}, left: Seq(Entry)],
             NEW place \in {"find", "end", "patch", "add"}, Ask(r, o, place),
             place = "find" => o \in Operation /\ o.kind = "start",
             place = "end" => o \in Operation /\ o.kind = "end" /\ session[o.slot] # NoSession,
             place = "patch" => o \in Operation /\ o.kind = "patch",
             place = "add" => \/ o \in Operation /\ o.kind = "add"
                              \/ o \in [kind: {"seed"}, left: Seq(Entry)]
      PROVE RegistryInv'
  <2> USE DEF Ask, Go, tables
  <2>1. place \in Location /\ Moves(r, place) /\ pc[r] = "idle"
    BY <1>1 DEF Location, Moves, RegistryInv, RequestInv, RequestTypes
  <2>2. RequestTypes'
    BY <1>1, <2>1 DEF RegistryInv, RequestInv, RequestTypes
  <2>3. AskedFor(r)'
    BY <1>1 DEF AskedFor, RegistryInv, RequestInv, RequestTypes
  <2> QED
    BY <1>1, <2>1, <2>2, <2>3, NothingWritten
<1>2. CASE AskStart(r)
  BY <1>1, <1>2 DEF AskStart
<1>3. CASE AskEnd(r)
  BY <1>1, <1>3 DEF AskEnd
<1>4. CASE AskRegister(r) \/ AskCreate(r)
  BY <1>1, <1>4 DEF AskRegister, AskCreate
<1>5. CASE AskEnable(r) \/ AskPatch(r)
  BY <1>1, <1>5 DEF AskEnable, AskPatch
<1>6. CASE AskSeed(r)
  <2>1. [kind |-> "seed", left |-> Seeded] \in [kind: {"seed"}, left: Seq(Entry)]
    BY SeedAssumption DEF Entry
  <2> QED
    BY <1>1, <1>6, <2>1 DEF AskSeed
<1> QED
  BY <1>2, <1>3, <1>4, <1>5, <1>6 DEF Arrive

-----------------------------------------------------------------------------
(* The creation of a session                                               *)

\* The session is built for an agent that is committed, or that this request has inserted.
LEMMA ResolvedInvariant ==
  ASSUME RegistryInv, NEW r \in Request, NEW id, pc[r] \in {"find", "upsert", "refind"},
         Resolved(r, id), UNCHANGED <<agent, session, trail, lock, catalog, op>>,
         \/ agent[op[r].identity] # NoAgent /\ id = agent[op[r].identity] /\ UNCHANGED claim
         \/ /\ agent[op[r].identity] = NoAgent /\ claim[op[r].identity] = NoRequest
            /\ id = r /\ claim' = [claim EXCEPT ![op[r].identity] = r]
  PROVE RegistryInv'
<1>1. op[r] \in Operation /\ op[r].kind = "start" /\ op[r].identity \in Identity
  BY OperationAssumption DEF RegistryInv, RequestInv, AskedFor
<1>2. "open" \in Location /\ Moves(r, "open") /\ RequestTypes'
  BY DEF Location, Moves, Resolved, Go, RegistryInv, RequestInv, RequestTypes
<1>3. RequestInv'
  <2>1. AskedFor(r)'
    BY <1>1 DEF Resolved, Go, AskedFor, RegistryInv, RequestInv, RequestTypes
  <2> QED
    BY <1>2, <2>1, OthersAsked
<1>4. CatalogInv'
  BY <1>2, CatalogUntouched
<1>5. built' = built + 1 /\ built' \in Slot /\ SlotsSuffice'
  <2>1. Unbuilt' = Unbuilt \ {r} /\ r \in Unbuilt
    BY DEF Resolved, Go, RegistryInv, RequestInv, RequestTypes, Unbuilt
  <2>2. IsFiniteSet(Unbuilt)
    BY RequestAssumption, FS_Subset DEF Unbuilt
  <2>3. Cardinality(Unbuilt') = Cardinality(Unbuilt) - 1
        /\ Cardinality(Unbuilt) \in Nat /\ Cardinality(Unbuilt') \in Nat
    BY <2>1, <2>2, FS_RemoveElement, FS_CardinalityType, FS_Subset
  <2>4. Cardinality(Request) \in Nat /\ built \in Nat
    BY RequestAssumption, FS_CardinalityType DEF RegistryInv, SessionInv, SessionTypes
  <2> QED
    BY <2>3, <2>4 DEF Resolved, RegistryInv, SessionInv, SlotsSuffice, Slot
<1>6. mine'[r].slot = built + 1 /\ mine'[r].agent = id
  BY DEF Resolved, RegistryInv, RequestInv, RequestTypes
<1>7. SessionTypes' /\ TrailTellsStatus'
  BY <1>1, <1>5 DEF RegistryInv, SessionInv, SessionTypes, TrailTellsStatus, Slot
<1>8. Slots'
  BY <1>2, <1>5, <1>6 DEF Moves, Slot, RegistryInv, RequestInv, RequestTypes, SessionInv,
     SessionTypes, Slots, Builder
<1>9. Claims'
  BY <1>1, <1>2, RequestAssumption
  DEF Moves, RegistryInv, RequestInv, RequestTypes, SessionInv, SessionTypes, Claims
<1>10. ASSUME NEW q \in Request PROVE Opening(q)' /\ Opened(q)' /\ Locked(q)'
  <2>1. CASE q = r
    BY <2>1, <1>1, <1>2, <1>5, <1>6
    DEF Moves, RegistryInv, RequestInv, RequestTypes, SessionInv, SessionTypes, Slots, Slot,
        Opening, Opened, Locked
  <2>2. CASE q # r
    <3>1. AskedFor(q)
      BY DEF RegistryInv, RequestInv
    <3>2. Opening(q)'
      BY <2>2, <3>1, <1>1, <1>2, OperationAssumption, RequestAssumption
      DEF Moves, RegistryInv, RequestInv, RequestTypes, SessionInv, SessionTypes, Opening, AskedFor
    <3>3. Opened(q)' /\ Locked(q)'
      BY <2>2, <1>2
      DEF Moves, RegistryInv, RequestInv, RequestTypes, SessionInv, Opened, Locked
    <3> QED
      BY <3>2, <3>3
  <2> QED
    BY <2>1, <2>2
<1> QED
  BY <1>3, <1>4, <1>5, <1>7, <1>8, <1>9, <1>10 DEF RegistryInv, SessionInv

\* The three ways to the agent, and what else they may come to.
LEMMA AgentInvariant ==
  ASSUME RegistryInv, NEW r \in Request, FindAgent(r) \/ UpsertAgent(r) \/ FindAgain(r)
  PROVE RegistryInv'
<1>1. op[r] \in Operation /\ op[r].kind = "start"
  BY DEF FindAgent, UpsertAgent, FindAgain, RegistryInv, RequestInv, AskedFor
<1>2. CASE \E id : Resolved(r, id)
  <2>1. PICK id : Resolved(r, id)
    BY <1>2
  <2>2. pc'[r] = "open" /\ pc[r] \in {"find", "upsert", "refind"}
    BY <2>1 DEF Resolved, Go, FindAgent, UpsertAgent, FindAgain, RegistryInv, RequestInv, RequestTypes
  <2>3. mine'[r].agent = id
    BY <2>1 DEF Resolved, RegistryInv, RequestInv, RequestTypes
  <2>4. \/ agent[op[r].identity] # NoAgent /\ Resolved(r, agent[op[r].identity]) /\ UNCHANGED claim
        \/ /\ agent[op[r].identity] = NoAgent /\ claim[op[r].identity] = NoRequest
           /\ Resolved(r, r) /\ claim' = [claim EXCEPT ![op[r].identity] = r]
    BY <2>2 DEF FindAgent, UpsertAgent, FindAgain, Go, RegistryInv, RequestInv, RequestTypes
  <2>5. UNCHANGED <<agent, session, trail, lock, catalog, op>>
    BY DEF FindAgent, UpsertAgent, FindAgain
  <2> QED
    BY <2>2, <2>4, <2>5, ResolvedInvariant
<1>3. CASE ~\E id : Resolved(r, id)
  <2>1. PICK place \in {"upsert", "refind", "gone"} : Go(r, place)
    BY <1>3 DEF FindAgent, UpsertAgent, FindAgain
  <2>2. UNCHANGED <<tables, op, mine>> /\ pc[r] \in {"find", "upsert", "refind"}
    BY <1>3 DEF FindAgent, UpsertAgent, FindAgain, tables
  <2>3. place \in Location /\ Moves(r, place) /\ RequestTypes' /\ AskedFor(r)'
    BY <1>1, <2>1, <2>2 DEF Go, Location, Moves, RegistryInv, RequestInv, RequestTypes, AskedFor
  <2> QED
    BY <2>1, <2>2, <2>3, NothingWritten
<1> QED
  BY <1>2, <1>3

\* The session gets the slot it was built for, with the agent that is committed before or with it.
LEMMA OpenInvariant ==
  ASSUME RegistryInv, NEW r \in Request, OpenSession(r)
  PROVE RegistryInv'
<1> DEFINE i == op[r].identity
           s == mine[r].slot
<1>1. op[r] \in Operation /\ op[r].kind = "start" /\ i \in Identity
  BY OperationAssumption DEF OpenSession, RegistryInv, RequestInv, AskedFor
<1>2. Builder(r) /\ s \in 1..built /\ s \in Slot
  <2>1. Builder(r)
    BY <1>1 DEF OpenSession, Builder
  <2>2. s \in 1..built
    BY <2>1 DEF RegistryInv, SessionInv, Slots
  <2>3. Cardinality(Request) \in Nat
    BY RequestAssumption, FS_CardinalityType
  <2> QED
    BY <2>1, <2>2, <2>3 DEF RegistryInv, SessionInv, SessionTypes, Slot
<1>3. session[s] = NoSession /\ trail[s] = <<>>
  BY <1>2 DEF OpenSession, RegistryInv, SessionInv, Opening, TrailTellsStatus
<1>4. mine[r].agent \in Request
      /\ \/ agent[i] # NoAgent /\ mine[r].agent = agent[i] /\ claim[i] # r
         \/ agent[i] = NoAgent /\ claim[i] = r /\ mine[r].agent = r
  <2>1. claim[i] = r => agent[i] = NoAgent
    BY <1>1, RequestAssumption DEF RegistryInv, SessionInv, Claims
  <2> QED
    BY <2>1, <1>1 DEF OpenSession, RegistryInv, SessionInv, SessionTypes, Opening
<1>5. session' = [session EXCEPT ![s] = [agent |-> mine[r].agent, status |-> "active"]]
      /\ trail' = [trail EXCEPT ![s] = <<"started">>]
      /\ pc' = [pc EXCEPT ![r] = "done"] /\ UNCHANGED <<lock, built, catalog, op, mine>>
  BY DEF OpenSession, InsertSession, Go
<1>6. [agent |-> mine[r].agent, status |-> "active"] \in SessionRow
  BY <1>4 DEF SessionRow
<1>7. "done" \in Location /\ Moves(r, "done") /\ RequestTypes'
  BY <1>5 DEF Location, Moves, RegistryInv, RequestInv, RequestTypes
<1>8. RequestInv'
  <2>1. AskedFor(r)'
    BY <1>5 DEF AskedFor, RegistryInv, RequestInv, RequestTypes
  <2>2. \A t \in Slot : session[t] # NoSession => session'[t] # NoSession
    BY <1>5, <1>6, NoRowAssumption DEF RegistryInv, SessionInv, SessionTypes
  <2> QED
    BY <1>7, <2>1, <2>2, OthersAsked
<1>9. CatalogInv'
  BY <1>5, <1>7, CatalogUntouched
<1>10. SessionTypes'
  <2>1. trail' \in [Slot -> Seq({"started", "completed", "failed"})]
    <3>1. <<"started">> \in Seq({"started", "completed", "failed"})
      OBVIOUS
    <3> QED
      BY <3>1, <1>2, <1>5 DEF RegistryInv, SessionInv, SessionTypes
  <2>2. agent' \in [Identity -> Request \cup {NoAgent}] /\ claim' \in [Identity -> Request \cup {NoRequest}]
    BY <1>1 DEF OpenSession, RegistryInv, SessionInv, SessionTypes
  <2> QED
    BY <1>2, <1>5, <1>6, <2>1, <2>2 DEF RegistryInv, SessionInv, SessionTypes
<1>11. TrailTellsStatus'
  BY <1>2, <1>5, <1>6, NoRowAssumption DEF TrailTellsStatus, RegistryInv, SessionInv, SessionTypes
<1>12. Slots'
  BY <1>1, <1>2, <1>5
  DEF OpenSession, Builder, Slots, Slot, RegistryInv, RequestInv, RequestTypes, SessionInv, SessionTypes
<1>13. SlotsSuffice'
  <2>1. Unbuilt' = Unbuilt
    BY <1>5 DEF OpenSession, Unbuilt, RegistryInv, RequestInv, RequestTypes
  <2> QED
    BY <1>5, <2>1 DEF SlotsSuffice, RegistryInv, SessionInv
<1>14. \A j \in Identity : j # i => claim[j] # r /\ claim'[j] = claim[j] /\ agent'[j] = agent[j]
  BY <1>1, RequestAssumption DEF OpenSession, Claims, RegistryInv, SessionInv, SessionTypes
<1>15. agent'[i] # NoAgent /\ agent'[i] = mine[r].agent /\ claim'[i] # r
       /\ (claim[i] # NoRequest => claim[i] = r \/ agent[i] = NoAgent)
  BY <1>1, <1>4, RequestAssumption DEF OpenSession, RegistryInv, SessionInv, SessionTypes, Claims
<1>16. Claims'
  <2> SUFFICES ASSUME NEW j \in Identity, claim'[j] # NoRequest
               PROVE agent'[j] = NoAgent /\ pc'[claim'[j]] = "open" /\ op'[claim'[j]].identity = j
    BY DEF Claims
  <2>1. CASE j # i
    BY <2>1, <1>5, <1>14, RequestAssumption
    DEF Claims, RegistryInv, RequestInv, RequestTypes, SessionInv, SessionTypes
  <2>2. CASE j = i
    BY <2>2, <1>1, <1>4, <1>5, RequestAssumption
    DEF OpenSession, Claims, RegistryInv, RequestInv, RequestTypes, SessionInv, SessionTypes
  <2> QED
    BY <2>1, <2>2
<1>17. ASSUME NEW q \in Request PROVE Opening(q)' /\ Opened(q)' /\ Locked(q)'
  <2>1. CASE q = r
    BY <2>1, <1>1, <1>2, <1>5, <1>6, <1>15, NoRowAssumption
    DEF Opening, Opened, Locked, RegistryInv, RequestInv, RequestTypes, SessionInv, SessionTypes
  <2>2. CASE q # r
    <3>1. AskedFor(q) /\ pc'[q] = pc[q]
      BY <2>2, <1>5 DEF RegistryInv, RequestInv, RequestTypes
    <3>2. Opening(q)'
      <4> SUFFICES ASSUME pc[q] = "open" PROVE Opening(q)'
        BY <3>1 DEF Opening
      <4>1. Builder(q) /\ op[q].identity \in Identity
        BY <3>1, OperationAssumption DEF AskedFor, Builder
      <4>2. mine[q].slot # s
        BY <4>1, <1>2, <2>2 DEF RegistryInv, SessionInv, Slots
      <4>3. Opening(q)
        BY DEF RegistryInv, SessionInv
      <4>4. session'[mine[q].slot] = NoSession
        BY <4>2, <4>3, <1>5 DEF Opening, RegistryInv, SessionInv, SessionTypes
      <4>5. CASE op[q].identity # i
        BY <4>1, <4>3, <4>4, <4>5, <1>5, <1>14 DEF Opening
      <4>6. CASE op[q].identity = i
        BY <4>3, <4>4, <4>6, <1>1, <1>4, <1>5, <1>15, <2>2
        DEF Opening, OpenSession, RegistryInv, SessionInv, SessionTypes, Claims
      <4> QED
        BY <4>5, <4>6
    <3>3. Opened(q)'
      <4> SUFFICES ASSUME pc[q] = "done", op[q].kind = "start" PROVE Opened(q)'
        BY <3>1, <1>5 DEF Opened
      <4>1. Opened(q)
        BY DEF RegistryInv, SessionInv
      <4>2. session[mine[q].slot] # NoSession /\ mine[q].slot # s
        BY <4>1, <1>3 DEF Opened
      <4>3. session'[mine[q].slot] = session[mine[q].slot]
        BY <4>2, <1>5 DEF RegistryInv, SessionInv, SessionTypes
      <4>4. agent'[op[q].identity] = agent[op[q].identity]
        BY <4>1, <1>4, <1>14, <1>15 DEF Opened
      <4> QED
        BY <4>1, <4>2, <4>3, <4>4, <1>5 DEF Opened
    <3>4. Locked(q)'
      <4> SUFFICES ASSUME pc[q] = "ending" PROVE Locked(q)'
        BY <3>1 DEF Locked
      <4>1. session[op[q].slot] # NoSession
        BY <3>1 DEF AskedFor
      <4> QED
        BY <4>1, <1>3, <1>5 DEF Locked, RegistryInv, SessionInv, SessionTypes
    <3> QED
      BY <3>2, <3>3, <3>4
  <2> QED
    BY <2>1, <2>2
<1> QED
  BY <1>8, <1>9, <1>10, <1>11, <1>12, <1>13, <1>16, <1>17 DEF RegistryInv, SessionInv

-----------------------------------------------------------------------------
(* The end of a session                                                    *)

\* The row is locked and read.
LEMMA LockInvariant ==
  ASSUME RegistryInv, NEW r \in Request, LockSession(r)
  PROVE RegistryInv'
<1> DEFINE s == op[r].slot
<1>1. op[r] \in Operation /\ op[r].kind = "end" /\ s \in Slot /\ session[s] # NoSession
  BY OperationAssumption DEF LockSession, RegistryInv, RequestInv, AskedFor
<1>2. /\ lock[s] = NoRequest /\ lock' = [lock EXCEPT ![s] = r]
      /\ mine' = [mine EXCEPT ![r] = [of |-> "row", row |-> session[s]]]
      /\ pc[r] = "end" /\ pc' = [pc EXCEPT ![r] = "ending"]
      /\ UNCHANGED <<agent, claim, session, trail, built, catalog, op>>
  BY DEF LockSession, Go
<1>3. "ending" \in Location /\ Moves(r, "ending") /\ RequestTypes'
  BY <1>2 DEF Location, Moves, RegistryInv, RequestInv, RequestTypes
<1>4. RequestInv'
  <2>1. AskedFor(r)'
    BY <1>1, <1>2 DEF AskedFor, RegistryInv, RequestInv, RequestTypes
  <2> QED
    BY <1>2, <1>3, <2>1, OthersAsked
<1>5. CatalogInv'
  BY <1>2, <1>3, CatalogUntouched
<1>6. SessionTypes' /\ TrailTellsStatus'
  BY <1>1, <1>2 DEF SessionTypes, TrailTellsStatus, RegistryInv, SessionInv
<1>7. Slots' /\ Claims'
  BY <1>2, RequestAssumption
  DEF Slots, Builder, Claims, RegistryInv, RequestInv, RequestTypes, SessionInv, SessionTypes
<1>8. SlotsSuffice'
  <2>1. Unbuilt' = Unbuilt
    BY <1>2 DEF Unbuilt, RegistryInv, RequestInv, RequestTypes
  <2> QED
    BY <1>2, <2>1 DEF SlotsSuffice, RegistryInv, SessionInv
<1>9. ASSUME NEW q \in Request PROVE Opening(q)' /\ Opened(q)' /\ Locked(q)'
  <2>1. CASE q = r
    BY <2>1, <1>1, <1>2 DEF Opening, Opened, Locked, RegistryInv, RequestInv, RequestTypes, SessionInv,
       SessionTypes
  <2>2. CASE q # r
    <3>1. Opening(q)' /\ Opened(q)'
      BY <2>2, <1>2 DEF Opening, Opened, RegistryInv, RequestInv, RequestTypes, SessionInv
    <3>2. Locked(q)'
      BY <2>2, <1>2, RequestAssumption
      DEF Locked, RegistryInv, RequestInv, RequestTypes, SessionInv, SessionTypes
    <3> QED
      BY <3>1, <3>2
  <2> QED
    BY <2>1, <2>2
<1> QED
  BY <1>4, <1>5, <1>6, <1>7, <1>8, <1>9 DEF RegistryInv, SessionInv

\* The trail of a session that has ended.
LEMMA TrailOfTwo ==
  ASSUME NEW x \in {"completed", "failed"}
  PROVE /\ Append(<<"started">>, x) = <<"started", x>>
        /\ <<"started", x>> \in Seq({"started", "completed", "failed"})
<1> DEFINE S == {"started", "completed", "failed"}
<1>1. x \in S /\ <<"started">> \in Seq(S) /\ Len(<<"started">>) = 1 /\ <<"started">>[1] = "started"
  OBVIOUS
<1>2. <<"started", x>> \in Seq(S) /\ Len(<<"started", x>>) = 2
      /\ <<"started", x>>[1] = "started" /\ <<"started", x>>[2] = x
  OBVIOUS
<1> HIDE DEF S
<1>3. Append(<<"started">>, x) \in Seq(S) /\ Len(Append(<<"started">>, x)) = 2
      /\ Append(<<"started">>, x)[1] = "started" /\ Append(<<"started">>, x)[2] = x
  BY <1>1, AppendProperties
<1>4. Append(<<"started">>, x) = <<"started", x>>
  <2> DEFINE s == Append(<<"started">>, x)
             t == <<"started", x>>
  <2>1. s \in Seq(S) /\ t \in Seq(S) /\ Len(s) = 2 /\ Len(t) = 2 /\ s[1] = t[1] /\ s[2] = t[2]
    BY <1>2, <1>3
  <2> HIDE DEF s, t
  <2>2. \A i \in 1..Len(s) : s[i] = t[i]
    BY <2>1
  <2>3. s = t
    BY <2>1, <2>2, SeqEqual
  <2> QED
    BY <2>3 DEF s, t
<1> QED
  BY <1>2, <1>4 DEF S

\* The row is still as it was read.
LEMMA EndInvariant ==
  ASSUME RegistryInv, NEW r \in Request, EndSession(r)
  PROVE RegistryInv'
<1> DEFINE s == op[r].slot
<1>1. op[r] \in Operation /\ op[r].kind = "end" /\ s \in Slot /\ session[s] # NoSession
      /\ op[r].status \in {"completed", "failed"}
  BY OperationAssumption DEF EndSession, RegistryInv, RequestInv, AskedFor
<1>2. lock[s] = r /\ mine[r].row = session[s]
  BY DEF EndSession, RegistryInv, SessionInv, Locked
<1>3. PICK place \in {"done", "refused"} :
        pc[r] = "ending" /\ pc' = [pc EXCEPT ![r] = place]
  BY DEF EndSession, Go
<1>4. /\ lock' = [lock EXCEPT ![s] = NoRequest]
      /\ mine' = [mine EXCEPT ![r] = Nothing]
      /\ UNCHANGED <<agent, claim, built, catalog, op>>
  BY <1>2 DEF EndSession, RegistryInv, SessionInv, SessionTypes
<1>5. \/ UNCHANGED <<session, trail>>
      \/ /\ session[s].status = "active"
         /\ session' = [session EXCEPT ![s].status = op[r].status]
         /\ trail' = [trail EXCEPT ![s] = Append(@, op[r].status)]
  BY <1>2 DEF EndSession, UpdateStatus
<1>6. session[s] \in SessionRow /\ [session[s] EXCEPT !.status = op[r].status] \in SessionRow
  BY <1>1 DEF SessionRow, RegistryInv, SessionInv, SessionTypes
<1>7. \A t \in Slot : (session[t] = NoSession) = (session'[t] = NoSession)
                      /\ (session[t] # NoSession => session'[t].agent = session[t].agent)
  <2>1. session[s].agent = [session[s] EXCEPT !.status = op[r].status].agent
    BY <1>6 DEF SessionRow
  <2>2. \/ UNCHANGED session
        \/ session' = [session EXCEPT ![s] = [session[s] EXCEPT !.status = op[r].status]]
    BY <1>5
  <2> QED
    BY <1>1, <1>6, <2>1, <2>2, NoRowAssumption DEF RegistryInv, SessionInv, SessionTypes
<1>8. place \in Location /\ Moves(r, place) /\ RequestTypes'
  BY <1>3, <1>4 DEF Location, Moves, RegistryInv, RequestInv, RequestTypes
<1>9. RequestInv'
  <2>1. AskedFor(r)'
    BY <1>3 DEF AskedFor, RegistryInv, RequestInv, RequestTypes
  <2> QED
    BY <1>7, <1>8, <2>1, OthersAsked
<1>10. CatalogInv'
  BY <1>4, <1>8, CatalogUntouched
<1>11. trail[s] = <<"started">> \/ UNCHANGED <<session, trail>>
  BY <1>1, <1>5 DEF TrailTellsStatus, RegistryInv, SessionInv
<1>12. Append(<<"started">>, op[r].status) = <<"started", op[r].status>>
       /\ <<"started", op[r].status>> \in Seq({"started", "completed", "failed"})
  BY <1>1, TrailOfTwo
<1>13. SessionTypes'
  <2>1. session' \in [Slot -> SessionRow \cup {NoSession}]
    BY <1>5, <1>6 DEF RegistryInv, SessionInv, SessionTypes
  <2>2. UNCHANGED trail \/ trail' = [trail EXCEPT ![s] = <<"started", op[r].status>>]
    BY <1>1, <1>5, <1>11, <1>12 DEF RegistryInv, SessionInv, SessionTypes
  <2>3. trail' \in [Slot -> Seq({"started", "completed", "failed"})]
    BY <1>1, <1>12, <2>2 DEF RegistryInv, SessionInv, SessionTypes
  <2> QED
    BY <1>4, <2>1, <2>3 DEF RegistryInv, SessionInv, SessionTypes
<1>14. TrailTellsStatus'
  <2> SUFFICES ASSUME NEW t \in Slot
               PROVE trail'[t] = IF session'[t] = NoSession THEN <<>>
                                 ELSE IF session'[t].status = "active" THEN <<"started">>
                                 ELSE <<"started", session'[t].status>>
    BY DEF TrailTellsStatus
  <2>1. CASE UNCHANGED <<session, trail>> \/ t # s
    BY <2>1, <1>5 DEF TrailTellsStatus, RegistryInv, SessionInv, SessionTypes
  <2>2. CASE t = s /\ ~UNCHANGED <<session, trail>>
    <3>1. session'[s].status = op[r].status
      BY <2>2, <1>1, <1>5, <1>6 DEF SessionRow, RegistryInv, SessionInv, SessionTypes
    <3>2. trail'[s] = <<"started", op[r].status>>
      BY <2>2, <1>1, <1>5, <1>11, <1>12 DEF RegistryInv, SessionInv, SessionTypes
    <3> QED
      BY <2>2, <3>1, <3>2, <1>1, <1>7
  <2> QED
    BY <2>1, <2>2
<1>15. Slots' /\ Claims'
  BY <1>1, <1>3, <1>4, <1>7, RequestAssumption
  DEF Slots, Builder, Claims, RegistryInv, RequestInv, RequestTypes, SessionInv, SessionTypes
<1>16. SlotsSuffice'
  <2>1. Unbuilt' = Unbuilt
    BY <1>3 DEF Unbuilt, RegistryInv, RequestInv, RequestTypes
  <2> QED
    BY <1>4, <2>1 DEF SlotsSuffice, RegistryInv, SessionInv
<1>17. ASSUME NEW q \in Request PROVE Opening(q)' /\ Opened(q)' /\ Locked(q)'
  <2>1. CASE q = r
    BY <2>1, <1>1, <1>3, <1>4
    DEF Opening, Opened, Locked, RegistryInv, RequestInv, RequestTypes
  <2>2. CASE q # r
    <3>1. AskedFor(q) /\ pc'[q] = pc[q] /\ mine'[q] = mine[q]
      BY <2>2, <1>3, <1>4 DEF RegistryInv, RequestInv, RequestTypes
    <3>2. Builder(q) => mine[q].slot \in Slot
      BY RequestAssumption, FS_CardinalityType
      DEF Slots, Slot, RegistryInv, SessionInv, SessionTypes
    <3>3. Opening(q)'
      BY <3>1, <3>2, <1>4, <1>7 DEF Opening, Builder, AskedFor, RegistryInv, SessionInv
    <3>4. Opened(q)'
      BY <3>1, <3>2, <1>4, <1>7 DEF Opened, Builder, RegistryInv, SessionInv
    <3>5. Locked(q)'
      <4> SUFFICES ASSUME pc[q] = "ending" PROVE Locked(q)'
        BY <3>1 DEF Locked
      <4>1. lock[op[q].slot] = q /\ op[q].slot # s /\ mine[q].row = session[op[q].slot]
        BY <2>2, <1>2 DEF Locked, RegistryInv, SessionInv
      <4>2. op[q].slot \in Slot
        BY <3>1, OperationAssumption DEF AskedFor
      <4> QED
        BY <4>1, <4>2, <3>1, <1>4, <1>5 DEF Locked, RegistryInv, SessionInv, SessionTypes
    <3> QED
      BY <3>3, <3>4, <3>5
  <2> QED
    BY <2>1, <2>2
<1> QED
  BY <1>9, <1>10, <1>13, <1>14, <1>15, <1>16, <1>17 DEF RegistryInv, SessionInv

\* What an aborted request has inserted or locked is given up, and what it has built is never there.
LEMMA AbortInvariant ==
  ASSUME RegistryInv, NEW r \in Request, Abort(r)
  PROVE RegistryInv'
<1>1. /\ claim' = [i \in Identity |-> IF claim[i] = r THEN NoRequest ELSE claim[i]]
      /\ lock' = [s \in Slot |-> IF lock[s] = r THEN NoRequest ELSE lock[s]]
      /\ mine' = [mine EXCEPT ![r] = Nothing]
      /\ pc[r] \in Working /\ pc' = [pc EXCEPT ![r] = "gone"]
      /\ UNCHANGED <<agent, session, trail, built, catalog, op>>
  BY DEF Abort, Go
<1>2. "gone" \in Location /\ Moves(r, "gone") /\ RequestTypes'
  BY <1>1 DEF Location, Moves, RegistryInv, RequestInv, RequestTypes
<1>3. RequestInv'
  <2>1. AskedFor(r)'
    BY <1>1 DEF AskedFor, RegistryInv, RequestInv, RequestTypes
  <2> QED
    BY <1>1, <1>2, <2>1, OthersAsked
<1>4. CatalogInv'
  BY <1>1, <1>2, CatalogUntouched
<1>5. SessionTypes' /\ TrailTellsStatus'
  BY <1>1 DEF SessionTypes, TrailTellsStatus, RegistryInv, SessionInv
<1>6. Slots'
  BY <1>1 DEF Slots, Builder, RegistryInv, RequestInv, RequestTypes, SessionInv
<1>7. SlotsSuffice'
  <2>1. Unbuilt' \subseteq Unbuilt
    BY <1>1 DEF Unbuilt, RegistryInv, RequestInv, RequestTypes
  <2>2. IsFiniteSet(Unbuilt)
    BY RequestAssumption, FS_Subset DEF Unbuilt
  <2>3. Cardinality(Unbuilt') <= Cardinality(Unbuilt) /\ Cardinality(Unbuilt) \in Nat
        /\ Cardinality(Unbuilt') \in Nat
    BY <2>1, <2>2, FS_Subset, FS_CardinalityType
  <2>4. Cardinality(Request) \in Nat /\ built \in Nat
    BY RequestAssumption, FS_CardinalityType DEF RegistryInv, SessionInv, SessionTypes
  <2> QED
    BY <1>1, <2>3, <2>4 DEF RegistryInv, SessionInv, SlotsSuffice
<1>8. Claims'
  BY <1>1, RequestAssumption
  DEF Claims, RegistryInv, RequestInv, RequestTypes, SessionInv, SessionTypes
<1>9. ASSUME NEW q \in Request PROVE Opening(q)' /\ Opened(q)' /\ Locked(q)'
  <2>1. CASE q = r
    BY <2>1, <1>1 DEF Opening, Opened, Locked, RegistryInv, RequestInv, RequestTypes
  <2>2. CASE q # r
    <3>1. AskedFor(q) /\ Opening(q) /\ Opened(q) /\ Locked(q)
      BY DEF RegistryInv, RequestInv, SessionInv
    <3>2. pc[q] = "open" => op[q].identity \in Identity
      BY <3>1, OperationAssumption DEF AskedFor
    <3>3. pc[q] = "ending" => op[q].slot \in Slot
      BY <3>1, OperationAssumption DEF AskedFor
    <3> QED
      BY <2>2, <3>1, <3>2, <3>3, <1>1
      DEF Opening, Opened, Locked, RegistryInv, RequestInv, RequestTypes
  <2> QED
    BY <2>1, <2>2
<1> QED
  BY <1>3, <1>4, <1>5, <1>6, <1>7, <1>8, <1>9 DEF RegistryInv, SessionInv

-----------------------------------------------------------------------------
(* The catalogue                                                           *)

\* What registration writes is a valid row.
LEMMA DefaultIsRow ==
  ASSUME NEW e \in Entry PROVE Default(e) \in Row(e) /\ Valid(e, Default(e))
BY RuleAssumption DEF Default, Row, Column, AddedRow, Valid

\* An entry that is written is a valid row, and one that is there stays.
LEMMA EntryWritten ==
  ASSUME RegistryInv, NEW r \in Request, NEW place \in Location, Moves(r, place),
         UNCHANGED <<agent, claim, session, trail, lock, built>>, RequestTypes', AskedFor(r)',
         pc[r] \notin {"open", "ending", "done"},
         place \notin {"idle", "find", "upsert", "refind", "open", "ending", "loading", "flushing"},
         place = "done" => op'[r].kind # "start",
         NEW e \in Entry, NEW row \in Row(e), Valid(e, row),
         catalog' = [catalog EXCEPT ![e] = row]
  PROVE RegistryInv'
<1>1. RequestInv'
  BY OthersAsked
<1>2. SessionInv'
  BY SessionsUntouched
<1>3. CatalogTypes'
  BY DEF CatalogTypes, RegistryInv, CatalogInv
<1>4. \A f \in Entry : catalog[f] # NoEntry => catalog'[f] # NoEntry
  BY NoRowAssumption DEF CatalogTypes, RegistryInv, CatalogInv
<1>5. \A q \in Request : Patching(q)'
  <2> SUFFICES ASSUME NEW q \in Request, pc'[q] \in {"loading", "flushing"} PROVE Patching(q)'
    BY DEF Patching
  <2>1. q # r /\ pc'[q] = pc[q] /\ op'[q] = op[q] /\ mine'[q] = mine[q]
    BY DEF Moves, RegistryInv, RequestInv, RequestTypes
  <2>2. op[q].entry \in Entry /\ Patching(q)
    BY <2>1, OperationAssumption DEF AskedFor, RegistryInv, RequestInv, CatalogInv
  <2> QED
    BY <1>4, <2>1, <2>2 DEF Patching
<1> QED
  BY <1>1, <1>2, <1>3, <1>5 DEF RegistryInv, CatalogInv

\* A registration.
LEMMA RegisterInvariant ==
  ASSUME RegistryInv, NEW r \in Request, AddTool(r) \/ AddRule(r)
  PROVE RegistryInv'
<1> DEFINE e == op[r].entry
<1>1. op[r] \in Operation /\ op[r].kind = "add" /\ e \in Entry /\ op[r].row \in Row(e)
  BY OperationAssumption DEF AddTool, AddRule, RegistryInv, RequestInv, AskedFor
<1>2. PICK place \in {"done", "refused"} : Go(r, place)
  BY DEF AddTool, AddRule, Register
<1>3. UNCHANGED <<agent, claim, session, trail, lock, built, op, mine>> /\ pc[r] = "add"
  BY DEF AddTool, AddRule, Register
<1>4. place \in Location /\ Moves(r, place) /\ RequestTypes' /\ AskedFor(r)'
  BY <1>2, <1>3 DEF Go, Location, Moves, RegistryInv, RequestInv, RequestTypes, AskedFor
<1>5. CASE UNCHANGED catalog
  BY <1>1, <1>3, <1>4, <1>5, NothingWritten DEF tables
<1>6. CASE catalog' # catalog
  <2>1. catalog' = [catalog EXCEPT ![e] = op[r].row]
    BY <1>6 DEF AddTool, AddRule, Register
  <2>2. Valid(e, op[r].row)
    BY <1>6, RuleAssumption DEF AddTool, AddRule, Register, Valid
  <2> QED
    BY <1>1, <1>3, <1>4, <2>1, <2>2, EntryWritten
<1> QED
  BY <1>5, <1>6

\* A step of the seed.
LEMMA SeedInvariant ==
  ASSUME RegistryInv, NEW r \in Request, SeedEntry(r) \/ SeedDone(r)
  PROVE RegistryInv'
<1>1. op[r] \in [kind: {"seed"}, left: Seq(Entry)]
  BY DEF SeedEntry, SeedDone, RegistryInv, RequestInv, AskedFor
<1>2. CASE SeedDone(r)
  <2>1. "done" \in Location /\ Moves(r, "done") /\ RequestTypes' /\ AskedFor(r)'
    BY <1>2 DEF SeedDone, Go, Location, Moves, RegistryInv, RequestInv, RequestTypes, AskedFor
  <2> QED
    BY <1>1, <1>2, <2>1, NothingWritten DEF SeedDone
<1>3. CASE SeedEntry(r)
  <2> DEFINE e == Head(op[r].left)
  <2>1. e \in Entry /\ Tail(op[r].left) \in Seq(Entry)
    BY <1>1, <1>3 DEF SeedEntry
  <2>2. op'[r] \in [kind: {"seed"}, left: Seq(Entry)]
        /\ op' = [op EXCEPT ![r] = [op[r] EXCEPT !.left = Tail(op[r].left)]]
    BY <1>1, <1>3, <2>1 DEF SeedEntry, RegistryInv, RequestInv, RequestTypes
  <2>3. "add" \in Location /\ Moves(r, "add") /\ RequestTypes' /\ AskedFor(r)' /\ pc[r] = "add"
        /\ UNCHANGED <<agent, claim, session, trail, lock, built>>
    BY <1>3, <2>2 DEF SeedEntry, Location, Moves, RegistryInv, RequestInv, RequestTypes, AskedFor
  <2>4. CASE catalog[e] = NoEntry
    BY <1>3, <2>1, <2>3, <2>4, EntryWritten, DefaultIsRow DEF SeedEntry
  <2>5. CASE catalog[e] # NoEntry
    BY <1>3, <2>3, <2>5, NothingWritten DEF SeedEntry, tables
  <2> QED
    BY <2>4, <2>5
<1> QED
  BY <1>2, <1>3

\* A patch that has read a row.
LEMMA PatchingInvariant ==
  ASSUME RegistryInv, NEW r \in Request, NEW place \in {"loading", "flushing"}, Moves(r, place),
         UNCHANGED <<tables, op>>, RequestTypes', pc[r] \in {"patch", "loading"}, Patching(r)'
  PROVE RegistryInv'
<1>1. op[r] \in Operation /\ op[r].kind = "patch"
  BY DEF RegistryInv, RequestInv, AskedFor
<1>2. RequestInv'
  <2>1. AskedFor(r)' /\ place \in Location
    BY <1>1 DEF AskedFor, Moves, Location, RegistryInv, RequestInv, RequestTypes
  <2> QED
    BY <2>1, OthersAsked DEF tables
<1>3. SessionInv'
  BY SessionsUntouched DEF tables, Location
<1>4. CatalogInv'
  BY DEF tables, Moves, CatalogInv, CatalogTypes, Patching, RegistryInv, RequestInv, RequestTypes
<1> QED
  BY <1>2, <1>3, <1>4 DEF RegistryInv

\* The first read of a patch, which decides whether it will be written.
LEMMA ReadInvariant ==
  ASSUME RegistryInv, NEW r \in Request, ReadEntry(r)
  PROVE RegistryInv'
<1> DEFINE e == op[r].entry
<1>1. op[r] \in Operation /\ op[r].kind = "patch" /\ e \in Entry
  BY OperationAssumption DEF ReadEntry, RegistryInv, RequestInv, AskedFor
<1>2. CASE catalog[e] # NoEntry /\ Valid(e, Patched(catalog[e], op[r].set))
  <2>1. Moves(r, "loading") /\ RequestTypes' /\ pc'[r] = "loading" /\ mine'[r].read = catalog[e]
    BY <1>2 DEF ReadEntry, Go, Moves, Location, RegistryInv, RequestInv, RequestTypes
  <2>2. UNCHANGED <<tables, op>> /\ pc[r] = "patch"
    BY DEF ReadEntry
  <2>3. Patching(r)'
    BY <1>1, <1>2, <2>1, <2>2 DEF Patching, tables, RegistryInv, CatalogInv, CatalogTypes
  <2> QED
    BY <2>1, <2>2, <2>3, PatchingInvariant
<1>3. CASE ~(catalog[e] # NoEntry /\ Valid(e, Patched(catalog[e], op[r].set)))
  <2>1. "refused" \in Location /\ Moves(r, "refused") /\ RequestTypes' /\ AskedFor(r)'
    BY <1>3 DEF ReadEntry, Go, Location, Moves, RegistryInv, RequestInv, RequestTypes, AskedFor
  <2> QED
    BY <1>3, <2>1, NothingWritten DEF ReadEntry
<1> QED
  BY <1>2, <1>3

\* The second read, of the row that will be written.
LEMMA LoadInvariant ==
  ASSUME RegistryInv, NEW r \in Request, LoadEntry(r)
  PROVE RegistryInv'
<1> DEFINE e == op[r].entry
<1>1. e \in Entry /\ Patching(r)
  BY OperationAssumption DEF LoadEntry, RegistryInv, RequestInv, AskedFor, CatalogInv
<1>2. Moves(r, "flushing") /\ RequestTypes' /\ pc'[r] = "flushing"
      /\ UNCHANGED <<tables, op>> /\ pc[r] = "loading"
  BY DEF LoadEntry, Go, Moves, Location, RegistryInv, RequestInv, RequestTypes
<1>3. mine'[r].read = mine[r].read /\ mine'[r].loaded \in {mine[r].read, catalog[e]}
  BY DEF LoadEntry, RegistryInv, RequestInv, RequestTypes
<1>4. Patching(r)'
  BY <1>1, <1>2, <1>3 DEF Patching, tables, RegistryInv, CatalogInv, CatalogTypes
<1> QED
  BY <1>2, <1>4, PatchingInvariant

\* What a flush makes of an entry is a row again, and a valid one.
LEMMA FlushInvariant ==
  ASSUME RegistryInv, NEW r \in Request, FlushEntry(r)
  PROVE RegistryInv'
<1> DEFINE e == op[r].entry
           new == Patched(mine[r].read, op[r].set)
           row == [c \in DOMAIN catalog[e] |-> IF new[c] # mine[r].loaded[c] THEN new[c] ELSE catalog[e][c]]
<1>1. op[r] \in Operation /\ op[r].kind = "patch" /\ e \in Entry
      /\ \E cs \in SUBSET Column(e) : op[r].set \in [cs -> {0, 1}]
  BY OperationAssumption DEF FlushEntry, RegistryInv, RequestInv, AskedFor
<1>2. mine[r].read \in Row(e) /\ Valid(e, new) /\ catalog[e] # NoEntry
  BY DEF FlushEntry, Patching, RegistryInv, CatalogInv
<1>3. catalog[e] \in Row(e) /\ Valid(e, catalog[e])
  BY <1>1, <1>2 DEF RegistryInv, CatalogInv, CatalogTypes
<1>4. new \in Row(e)
  BY <1>1, <1>2 DEF Patched, Row
<1>5. row \in Row(e) /\ Valid(e, row)
  <2>1. row \in Row(e)
    BY <1>3, <1>4 DEF Row
  <2>2. e \in ResultRule => "action" \in Column(e)
    BY RuleAssumption DEF Column
  <2> QED
    BY <1>2, <1>3, <1>4, <2>1, <2>2 DEF Row, Valid
<1>6. /\ catalog' = [catalog EXCEPT ![e] = row]
      /\ pc[r] = "flushing" /\ Go(r, "done") /\ mine' = [mine EXCEPT ![r] = Nothing]
      /\ UNCHANGED <<agent, claim, session, trail, lock, built, op>>
  BY DEF FlushEntry
<1> HIDE DEF row
<1>7. "done" \in Location /\ Moves(r, "done") /\ RequestTypes' /\ AskedFor(r)'
  BY <1>6 DEF Go, Location, Moves, RegistryInv, RequestInv, RequestTypes, AskedFor
<1> QED
  BY <1>1, <1>5, <1>6, <1>7, EntryWritten

-----------------------------------------------------------------------------
(* The theorems                                                            *)

LEMMA StepInvariant == RegistryInv /\ [Next]_vars => RegistryInv'
<1> SUFFICES ASSUME RegistryInv, [Next]_vars PROVE RegistryInv'
  OBVIOUS
<1>1. CASE UNCHANGED vars
  BY <1>1 DEF vars, RegistryInv, RequestInv, RequestTypes, AskedFor, SessionInv, SessionTypes, Slots,
     SlotsSuffice, Unbuilt, Builder, Claims, Opening, Opened, Locked, TrailTellsStatus, CatalogInv,
     CatalogTypes, Patching
<1>2. CASE Next
  <2> SUFFICES ASSUME NEW r \in Request, Arrive(r) \/ Proceed(r) \/ Abort(r) PROVE RegistryInv'
    BY <1>2 DEF Next
  <2>1. CASE Proceed(r)
    BY <2>1, AgentInvariant, OpenInvariant, LockInvariant, EndInvariant, RegisterInvariant,
       SeedInvariant, ReadInvariant, LoadInvariant, FlushInvariant DEF Proceed
  <2> QED
    BY <2>1, ArriveInvariant, AbortInvariant
<1> QED
  BY <1>1, <1>2

\* The inductive invariant of the sessions and the catalogue.
THEOREM RegistryInvariance == Spec => []RegistryInv
<1> QED
  BY InitInvariant, StepInvariant, PTL DEF Spec

\* Every variable keeps its type: a session belongs to a request's agent, and an entry is a valid row.
THEOREM RegistryTypes == Spec => []TypeOK
<1>1. RegistryInv => TypeOK
  BY DEF RegistryInv, RequestInv, RequestTypes, SessionInv, SessionTypes, CatalogInv, CatalogTypes, TypeOK
<1> QED
  BY <1>1, RegistryInvariance, PTL

\* However creations of one agent race and fail, a session that was opened belongs to the one agent
\* row of its identity (SqlAlchemyAgentRepository.get_or_create).
THEOREM AgentsAreShared == Spec => []SessionsHaveTheirAgent
<1>1. RegistryInv => SessionsHaveTheirAgent
  BY DEF RegistryInv, SessionInv, Opened, SessionsHaveTheirAgent
<1> QED
  BY <1>1, RegistryInvariance, PTL

\* The audit trail of a session tells its status, however its ends race (SessionService.complete).
THEOREM TrailsAreTrue == Spec => []TrailTellsStatus
<1>1. RegistryInv => TrailTellsStatus
  BY DEF RegistryInv, SessionInv
<1> QED
  BY <1>1, RegistryInvariance, PTL

\* An entry that is registered is changed by a patch only, which sets what it names and nothing else
\* unless another has come between its two reads (ToolService.set_enabled, RuleService.update).
THEOREM PatchesOnly == Spec => OnlyPatchesChange
<1> DEFINE Explains(r, e) ==
      /\ pc[r] = "flushing" /\ pc'[r] = "done" /\ op[r].entry = e
      /\ mine[r].read = catalog[e] /\ mine[r].loaded = catalog[e] =>
           \A c \in Column(e) :
             catalog'[e][c] = IF c \in DOMAIN op[r].set THEN op[r].set[c] ELSE catalog[e][c]
<1>1. ASSUME RegistryInv, [Next]_vars, NEW e \in Entry, catalog[e] # NoEntry, catalog'[e] # catalog[e]
      PROVE \E r \in Request : Explains(r, e)
  <2>1. PICK r \in Request : Arrive(r) \/ Proceed(r) \/ Abort(r)
    BY <1>1 DEF Next, vars
  <2>2. catalog' # catalog
    BY <1>1
  <2>3. AddTool(r) \/ AddRule(r) \/ SeedEntry(r) \/ FlushEntry(r)
    BY <2>1, <2>2 DEF Arrive, AskStart, AskEnd, AskRegister, AskEnable, AskCreate, AskPatch, AskSeed,
       Ask, tables, Proceed, Abort, FindAgent, UpsertAgent, FindAgain, OpenSession, LockSession,
       EndSession, SeedDone, ReadEntry, LoadEntry
  <2>4. DOMAIN catalog = Entry
    BY <1>1 DEF RegistryInv, CatalogInv, CatalogTypes
  <2>5. ~(AddTool(r) \/ AddRule(r))
    BY <1>1, <2>4 DEF AddTool, AddRule, Register, Taken
  <2>6. ~SeedEntry(r)
    BY <1>1, <2>4 DEF SeedEntry
  <2>7. FlushEntry(r)
    BY <2>3, <2>5, <2>6
  <2>8. op[r].entry = e
    BY <1>1, <2>4, <2>7 DEF FlushEntry
  <2>9. pc[r] = "flushing" /\ pc'[r] = "done"
    BY <1>1, <2>7 DEF FlushEntry, Go, RegistryInv, RequestInv, RequestTypes
  <2>10. ASSUME mine[r].read = catalog[e], mine[r].loaded = catalog[e], NEW c \in Column(e)
         PROVE catalog'[e][c] = IF c \in DOMAIN op[r].set THEN op[r].set[c] ELSE catalog[e][c]
    <3>1. catalog[e] \in Row(e)
      BY <1>1 DEF RegistryInv, CatalogInv, CatalogTypes
    <3>2. DOMAIN catalog[e] = Column(e)
      BY <3>1 DEF Row
    <3> QED
      BY <2>4, <2>7, <2>8, <2>10, <3>2 DEF FlushEntry, Patched
  <2> QED
    BY <2>8, <2>9, <2>10
<1>2. RegistryInv /\ [Next]_vars =>
        [\A e \in Entry : catalog[e] # NoEntry /\ catalog'[e] # catalog[e] =>
           \E r \in Request : Explains(r, e)]_vars
  BY <1>1
<1>3. Spec => [][\A e \in Entry : catalog[e] # NoEntry /\ catalog'[e] # catalog[e] =>
                   \E r \in Request : Explains(r, e)]_vars
  BY <1>2, RegistryInvariance, PTL DEF Spec
<1> QED
  BY <1>3 DEF OnlyPatchesChange

-----------------------------------------------------------------------------
(* The reader of the list                                                  *)

\* The rows that the pages read so far have covered.
Reached == IF step = "total" THEN offset + PageSize ELSE offset

\* The reader's own variables: it asks for pages that exist, and knows rows of the table.
WalkTypes ==
  /\ step \in {"start", "items", "total", "end"}
  /\ filter \in {"all", "active"}
  /\ offset \in 0..Cardinality(Request) + PageSize
  /\ total \in 0..Cardinality(Request)
  /\ known \subseteq Slot /\ seen \subseteq Slot

\* On the way, a session that was there and was not shown yet is still ahead of the reader.
WalkInv ==
  filter = "all" =>
    /\ step = "start" => offset = 0
    /\ step \in {"items", "total"} => \A s \in known \ seen : s \in Matching /\ Rank(s) >= Reached
    /\ WalkMissesNothing

\* The list has finitely many rows, no more than there are requests.
LEMMA FiniteList ==
  /\ Cardinality(Request) \in Nat
  /\ \A S \in SUBSET Slot : IsFiniteSet(S) /\ Cardinality(S) \in 0..Cardinality(Request)
<1>1. Cardinality(Request) \in Nat
  BY RequestAssumption, FS_CardinalityType
<1>2. IsFiniteSet(Slot) /\ Cardinality(Slot) = Cardinality(Request)
  BY <1>1, FS_Interval DEF Slot
<1>3. ASSUME NEW S \in SUBSET Slot PROVE IsFiniteSet(S) /\ Cardinality(S) \in 0..Cardinality(Request)
  <2>1. IsFiniteSet(S) /\ Cardinality(S) <= Cardinality(Slot)
    BY <1>2, FS_Subset
  <2>2. Cardinality(S) \in Nat
    BY <2>1, FS_CardinalityType
  <2> QED
    BY <1>1, <1>2, <2>1, <2>2
<1> QED
  BY <1>1, <1>3

\* A row has a place in the list.
LEMMA RankIsNumber == ASSUME NEW s PROVE Rank(s) \in Nat
<1>1. {t \in Matching : t > s} \in SUBSET Slot
  BY DEF Matching
<1>2. Cardinality({t \in Matching : t > s}) \in 0..Cardinality(Request) /\ Cardinality(Request) \in Nat
  BY <1>1, FiniteList
<1> QED
  BY <1>2 DEF Rank

\* The place of a row is before the end of the list.
LEMMA RankBelowTotal == ASSUME NEW s \in Matching PROVE Rank(s) < Cardinality(Matching)
<1> DEFINE T == {t \in Matching : t > s}
<1>1. s \in Slot /\ s \in Int
  BY FiniteList DEF Matching, Slot
<1>2. T \in SUBSET Slot /\ Matching \in SUBSET Slot
  BY DEF Matching
<1>3. IsFiniteSet(T) /\ IsFiniteSet(Matching) /\ Cardinality(T) \in Nat /\ Cardinality(Matching) \in Nat
  BY <1>2, FiniteList
<1>4. T \subseteq Matching /\ s \notin T
  BY <1>1
<1>5. Cardinality(T) <= Cardinality(Matching) /\ (Cardinality(T) = Cardinality(Matching) => T = Matching)
  BY <1>3, <1>4, FS_Subset
<1>6. T # Matching
  BY <1>4
<1> QED
  BY <1>3, <1>5, <1>6 DEF Rank

\* No step of a service deletes a session.
LEMMA SessionsStay ==
  ASSUME RegistryInv, [Next]_vars, NEW s \in Slot, session[s] # NoSession
  PROVE session'[s] # NoSession
<1>1. CASE UNCHANGED session
  BY <1>1
<1>2. CASE ~UNCHANGED session
  <2>1. PICK r \in Request : Arrive(r) \/ Proceed(r) \/ Abort(r)
    BY <1>2 DEF Next, vars
  <2>2. OpenSession(r) \/ EndSession(r)
    BY <1>2, <2>1 DEF Arrive, AskStart, AskEnd, AskRegister, AskEnable, AskCreate, AskPatch, AskSeed,
       Ask, tables, Proceed, Abort, FindAgent, UpsertAgent, FindAgain, LockSession, AddTool, AddRule,
       Register, SeedEntry, SeedDone, ReadEntry, LoadEntry, FlushEntry
  <2>3. session \in [Slot -> SessionRow \cup {NoSession}] /\ session' \in [Slot -> SessionRow \cup {NoSession}]
    BY StepInvariant DEF RegistryInv, SessionInv, SessionTypes
  <2>4. CASE OpenSession(r)
    <3>1. session' = [session EXCEPT ![mine[r].slot] = [agent |-> mine[r].agent, status |-> "active"]]
      BY <2>4 DEF OpenSession, InsertSession
    <3>2. session[mine[r].slot] = NoSession
      BY <2>4 DEF OpenSession, RegistryInv, SessionInv, Opening
    <3> QED
      BY <2>3, <3>1, <3>2
  <2>5. CASE EndSession(r)
    <3> DEFINE t == op[r].slot
    <3>1. t \in Slot /\ session[t] # NoSession /\ op[r].status \in {"completed", "failed"}
      BY <2>5, OperationAssumption DEF EndSession, RegistryInv, RequestInv, AskedFor
    <3>2. session[t] \in SessionRow /\ [session[t] EXCEPT !.status = op[r].status] \in SessionRow
      BY <2>3, <3>1 DEF SessionRow
    <3>3. UNCHANGED session \/ session' = [session EXCEPT ![t] = [session[t] EXCEPT !.status = op[r].status]]
      BY <2>5 DEF EndSession, UpdateStatus
    <3> QED
      BY <2>3, <3>1, <3>2, <3>3, NoRowAssumption
  <2> QED
    BY <2>2, <2>4, <2>5
<1> QED
  BY <1>1, <1>2

\* What the services write pushes a row of the unfiltered list to a later place, or not at all.
LEMMA RanksGrow ==
  ASSUME RegistryInv, [Next]_vars, UNCHANGED reader, filter = "all", NEW s \in Matching
  PROVE s \in Matching' /\ Rank(s)' >= Rank(s) /\ Rank(s)' \in Nat
<1> DEFINE T == {t \in Matching : t > s}
<1>1. Matching = {t \in Slot : session[t] # NoSession} /\ Matching' = {t \in Slot : session'[t] # NoSession}
  BY DEF Matching, reader
<1>2. Matching \subseteq Matching'
  BY <1>1, SessionsStay
<1>3. T \subseteq T' /\ T' \in SUBSET Slot /\ T \in SUBSET Slot
  BY <1>1, <1>2
<1>4. IsFiniteSet(T') /\ Cardinality(T) <= Cardinality(T')
  BY <1>3, FiniteList, FS_Subset
<1>5. Cardinality(T) \in Nat /\ Cardinality(T') \in Nat
  BY <1>3, FiniteList
<1> QED
  BY <1>2, <1>4, <1>5 DEF Rank

\* The reader keeps within the list.
LEMMA WalkTypesHold == WalkTypes /\ [ListNext]_ListVars => WalkTypes'
<1> SUFFICES ASSUME WalkTypes, [ListNext]_ListVars PROVE WalkTypes'
  OBVIOUS
<1>1. CASE UNCHANGED reader
  BY <1>1 DEF WalkTypes, reader
<1>2. Matching \in SUBSET Slot /\ Page \in SUBSET Slot
  BY DEF Matching, Page
<1>3. CASE BeginWalk \/ ReadItems
  BY <1>2, <1>3 DEF BeginWalk, ReadItems, WalkTypes
<1>4. CASE ReadTotal
  <2>1. Matching' = Matching
    BY <1>4 DEF ReadTotal, Matching, vars
  <2>2. total' = Cardinality(Matching) /\ total' \in 0..Cardinality(Request)
    BY <1>2, <1>4, FiniteList DEF ReadTotal
  <2>3. offset' \in 0..Cardinality(Request) + PageSize
    BY <1>4, <2>2, FiniteList, PageAssumption DEF ReadTotal, WalkTypes
  <2> QED
    BY <1>4, <2>2, <2>3 DEF ReadTotal, WalkTypes
<1> QED
  BY <1>1, <1>3, <1>4 DEF ListNext, ListVars

\* The step from one page to the next leaves nothing behind.
LEMMA WalkHolds == WalkInv /\ WalkTypes /\ RegistryInv /\ [ListNext]_ListVars => WalkInv'
<1> SUFFICES ASSUME WalkInv, WalkTypes, RegistryInv, [ListNext]_ListVars, filter' = "all" PROVE WalkInv'
  BY DEF WalkInv
<1>1. filter = "all"
  BY DEF ListNext, ListVars, reader, BeginWalk, ReadItems, ReadTotal
<1>2. CASE [Next]_vars /\ UNCHANGED reader
  <2>1. ASSUME step \in {"items", "total"}, NEW s \in known \ seen
        PROVE s \in Matching' /\ Rank(s)' >= Reached
    <3>1. s \in Matching /\ Rank(s) >= Reached
      BY <1>1, <2>1 DEF WalkInv
    <3>2. s \in Matching' /\ Rank(s)' >= Rank(s) /\ Rank(s)' \in Nat
      BY <1>1, <1>2, <3>1, RanksGrow
    <3>3. Rank(s) \in Nat
      BY RankIsNumber
    <3>4. Reached \in Nat
      BY PageAssumption, FiniteList DEF Reached, WalkTypes
    <3> QED
      BY <3>1, <3>2, <3>3, <3>4
  <2>2. Reached' = Reached
    BY <1>2 DEF Reached, reader
  <2> QED
    BY <1>1, <1>2, <2>1, <2>2 DEF WalkInv, WalkMissesNothing, reader
<1>3. ASSUME UNCHANGED <<vars, filter>> PROVE Matching' = Matching /\ \A s \in Matching : Rank(s)' = Rank(s)
  <2>1. Matching' = Matching
    BY <1>3 DEF Matching, vars
  <2> QED
    BY <2>1 DEF Rank
<1>4. CASE BeginWalk
  <2>1. /\ step = "start" /\ step' = "items" /\ known' = Matching /\ offset' = offset
        /\ UNCHANGED <<vars, filter>>
    BY <1>4 DEF BeginWalk
  <2>2. offset' = 0 /\ Reached' = 0
    BY <1>1, <2>1 DEF WalkInv, Reached
  <2>3. ASSUME NEW s \in Matching PROVE s \in Matching' /\ Rank(s)' >= 0
    BY <1>3, <2>1, <2>3, RankIsNumber
  <2> QED
    BY <2>1, <2>2, <2>3 DEF WalkInv, WalkMissesNothing
<1>5. CASE ReadItems
  <2>1. /\ step = "items" /\ step' = "total" /\ seen' = seen \cup Page
        /\ UNCHANGED <<vars, filter, offset, known>>
    BY <1>5 DEF ReadItems
  <2>2. ASSUME NEW s \in known \ seen' PROVE s \in Matching /\ Rank(s) >= offset + PageSize
    <3>1. s \in Matching /\ Rank(s) >= offset /\ s \notin Page
      BY <1>1, <2>1, <2>2 DEF WalkInv, Reached
    <3>2. Rank(s) \notin offset..offset + PageSize - 1
      BY <3>1 DEF Page
    <3> QED
      BY <3>1, <3>2, RankIsNumber, PageAssumption, FiniteList DEF WalkTypes
  <2>3. Reached' = offset + PageSize
    BY <2>1 DEF Reached
  <2> QED
    BY <1>1, <1>3, <2>1, <2>2, <2>3 DEF WalkInv, WalkMissesNothing
<1>6. CASE ReadTotal
  <2>1. /\ step = "total" /\ total' = Cardinality(Matching)
        /\ UNCHANGED <<vars, filter, known, seen>>
    BY <1>6 DEF ReadTotal
  <2>2. \A s \in known \ seen : s \in Matching /\ Rank(s) >= offset + PageSize
    BY <1>1, <2>1 DEF WalkInv, Reached
  <2>3. CASE offset + PageSize < total'
    <3>1. offset' = offset + PageSize /\ step' = "items"
      BY <1>6, <2>3 DEF ReadTotal
    <3> QED
      BY <1>1, <1>3, <2>1, <2>2, <3>1 DEF WalkInv, WalkMissesNothing, Reached
  <2>4. CASE ~(offset + PageSize < total')
    <3>1. step' = "end"
      BY <1>6, <2>4 DEF ReadTotal
    <3>2. total' \in Nat /\ offset + PageSize \in Nat
      BY <2>1, FiniteList, PageAssumption DEF WalkTypes, Matching
    <3>3. ASSUME NEW s \in known \ seen PROVE FALSE
      <4>1. Rank(s) >= offset + PageSize /\ Rank(s) < total' /\ Rank(s) \in Nat
        BY <2>1, <2>2, RankBelowTotal, RankIsNumber
      <4> QED
        BY <2>4, <3>2, <4>1
    <3> QED
      BY <2>1, <3>1, <3>3 DEF WalkInv, WalkMissesNothing
  <2> QED
    BY <2>3, <2>4
<1> QED
  BY <1>2, <1>4, <1>5, <1>6 DEF ListNext, ListVars, reader

\* The reader disturbs nobody: with it, the services do what they do without it.
THEOREM WalkIsReading == ListSpec => Spec
<1>1. ListInit => Init
  BY DEF ListInit
<1>2. [ListNext]_ListVars => [Next]_vars
  BY DEF ListNext, ListVars, BeginWalk, ReadItems, ReadTotal
<1> QED
  BY <1>1, <1>2, PTL DEF ListSpec, Spec

\* The inductive invariant of the reader.
LEMMA WalkInvariance == ListSpec => [](WalkTypes /\ WalkInv)
<1>1. ListInit => WalkTypes /\ WalkInv
  BY FiniteList, PageAssumption DEF ListInit, WalkTypes, WalkInv, WalkMissesNothing
<1> QED
  BY <1>1, WalkTypesHold, WalkHolds, WalkIsReading, RegistryInvariance, PTL DEF ListSpec

\* Types of the tables and of the reader: offset and total never leave the list.
THEOREM ListTypes == ListSpec => []ListTypeOK
<1>1. TypeOK /\ WalkTypes => ListTypeOK
  BY DEF WalkTypes, ListTypeOK
<1> QED
  BY <1>1, WalkInvariance, WalkIsReading, RegistryTypes, PTL

\* A walk over the unfiltered list shows every session that was there when it began, for any number
\* of sessions and any size of the pages.
THEOREM WalksAreComplete == ListSpec => []WalkMissesNothing
<1>1. WalkInv => WalkMissesNothing
  BY DEF WalkInv, WalkMissesNothing
<1> QED
  BY <1>1, WalkInvariance, PTL

=============================================================================
