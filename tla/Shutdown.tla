------------------------------ MODULE Shutdown ------------------------------
(***************************************************************************)
(* The shutdown coordinator: ShutdownManager, the middleware that tracks   *)
(* every HTTP request with it, and the lifespan handler of the application *)
(* that drains it and then releases what the requests use.                 *)
(*                                                                         *)
(* The manager keeps the asyncio tasks of the requests in a set.  A run of *)
(* the Attack Lab is a request whose handler sends requests to the same    *)
(* application, one after the other, and these run in the task of the      *)
(* request that sends them.  The end of each takes the task out of the set *)
(* and the next puts it back; no other task runs in between.               *)
(*                                                                         *)
(* The condition's lock is never held across a suspension of its holder,   *)
(* except by Condition.wait, which gives it up: track enters and leaves in *)
(* one step each, and the second test of accepting never fails.            *)
(***************************************************************************)
EXTENDS Naturals, Sequences

CONSTANTS
  Request,   \* the requests that reach the middleware, each with its task
  Lab        \* those that run an Attack Lab scenario

ASSUME LabAssumption == Lab \subseteq Request

Resource == <<"providers", "telemetry", "engine">>

VARIABLES
  accepting,   \* ShutdownManager._accepting
  tasks,       \* ShutdownManager._tasks
  pc,          \* the request: not there yet, handled, sending its response, answered, or
               \* answered 503
  draining,    \* where lifespan is: before, in or after drain
  targets,     \* the tasks that drain has cancelled
  released     \* what lifespan has released after drain, in its order

vars == <<accepting, tasks, pc, draining, targets, released>>

Running == {r \in Request : pc[r] = "running"}

\* Those whose task has not ended.
InFlight == {r \in Request : pc[r] \in {"running", "sending"}}

\* The tracked tasks are always those of the requests that are being handled.
TypeOK ==
  /\ accepting \in BOOLEAN
  /\ tasks = Running
  /\ pc \in [Request -> {"new", "running", "sending", "done", "refused"}]
  /\ draining \in {"no", "waiting", "gathering", "done"}
  /\ targets \subseteq Request
  /\ released \in Seq({"providers", "telemetry", "engine"}) /\ Len(released) <= 3

Init ==
  /\ accepting = TRUE
  /\ tasks = {}
  /\ pc = [r \in Request |-> "new"]
  /\ draining = "no"
  /\ targets = {}
  /\ released = <<>>

-----------------------------------------------------------------------------
(* Requests                                                                *)

\* Mutant of Accept: accepting is not tested.
AcceptAlways(r) ==
  /\ pc[r] = "new"
  /\ tasks' = tasks \cup {r}
  /\ pc' = [pc EXCEPT ![r] = "running"]
  /\ UNCHANGED <<accepting, draining, targets, released>>

\* track yields True.
Accept(r) ==
  /\ pc[r] = "new"
  /\ accepting
  /\ tasks' = tasks \cup {r}
  /\ pc' = [pc EXCEPT ![r] = "running"]
  /\ UNCHANGED <<accepting, draining, targets, released>>

\* track yields False, and the middleware answers application_shutting_down.
Refuse(r) ==
  /\ pc[r] = "new"
  /\ ~accepting
  /\ pc' = [pc EXCEPT ![r] = "refused"]
  /\ UNCHANGED <<accepting, tasks, draining, targets, released>>

\* The last request of a lab run ends, or is cancelled, or the next is refused: track discards
\* the current task, which is that of the lab run.  The rest of the handler does not suspend.
Handled(r) ==
  /\ r \in Lab /\ pc[r] = "running"
  /\ tasks' = tasks \ {r}
  /\ pc' = [pc EXCEPT ![r] = "sending"]
  /\ UNCHANGED <<accepting, draining, targets, released>>

\* Mutant of Leave: the task is not discarded.
LeaveTracked(r) ==
  /\ pc[r] = "sending" \/ (pc[r] = "running" /\ r \notin Lab)
  /\ pc' = [pc EXCEPT ![r] = "done"]
  /\ UNCHANGED <<accepting, tasks, draining, targets, released>>

\* The handler has answered, or its cancellation has run through it.
Leave(r) ==
  /\ pc[r] = "sending" \/ (pc[r] = "running" /\ r \notin Lab)
  /\ tasks' = tasks \ {r}
  /\ pc' = [pc EXCEPT ![r] = "done"]
  /\ UNCHANGED <<accepting, draining, targets, released>>

-----------------------------------------------------------------------------
(* The lifespan handler                                                    *)

BeginDrain ==
  /\ draining = "no"
  /\ accepting' = FALSE
  /\ draining' = "waiting"
  /\ UNCHANGED <<tasks, pc, targets, released>>

\* The condition wait_for waits for holds within the grace period.
Drained ==
  /\ draining = "waiting"
  /\ tasks = {}
  /\ draining' = "done"
  /\ UNCHANGED <<accepting, tasks, pc, targets, released>>

\* Mutant of GraceExpires: the tasks are not waited for after they are cancelled.
GraceExpiresNoGather ==
  /\ draining = "waiting"
  /\ targets' = tasks
  /\ draining' = "done"
  /\ UNCHANGED <<accepting, tasks, pc, released>>

\* Mutant of GraceExpires: the wait is not bounded.
GraceUnbounded ==
  /\ draining = "waiting"
  /\ tasks = {}
  /\ targets' = tasks
  /\ draining' = "gathering"
  /\ UNCHANGED <<accepting, tasks, pc, released>>

\* The grace period ends: what is still tracked is cancelled.
GraceExpires ==
  /\ draining = "waiting"
  /\ targets' = tasks
  /\ draining' = "gathering"
  /\ UNCHANGED <<accepting, tasks, pc, released>>

\* asyncio.gather returns: the cancelled tasks have ended, however long their handlers took.
Gathered ==
  /\ draining = "gathering"
  /\ targets \cap InFlight = {}
  /\ draining' = "done"
  /\ UNCHANGED <<accepting, tasks, pc, targets, released>>

\* close_agent_providers, telemetry.shutdown and dispose_engine, in this order.
Release ==
  /\ draining = "done"
  /\ Len(released) < Len(Resource)
  /\ released' = Append(released, Resource[Len(released) + 1])
  /\ UNCHANGED <<accepting, tasks, pc, draining, targets>>

-----------------------------------------------------------------------------
(* The specification                                                       *)

Lifespan == BeginDrain \/ Drained \/ GraceExpires \/ Gathered \/ Release

Next ==
  \/ \E r \in Request : Accept(r) \/ Refuse(r) \/ Handled(r) \/ Leave(r)
  \/ Lifespan

Spec == Init /\ [][Next]_vars

\* A handler that is cancelled ends, and drain goes on when it can.  A handler that is not may
\* take forever, and the server need not ever shut down.
Fairness ==
  /\ \A r \in Request : WF_vars(r \in targets /\ (Handled(r) \/ Leave(r)))
  /\ WF_vars(Drained \/ GraceExpires \/ Gathered \/ Release)

FairSpec == Spec /\ Fairness

-----------------------------------------------------------------------------
(* Properties                                                              *)

\* The providers, the telemetry and the database engine are released only when no handler runs
\* that could use them, not even that of a lab run, whose task leaves the set with every request
\* it sends: drain waits for each, or cancels it and waits again.
ReleasedAfterRequests == released # <<>> => Running = {}

\* "waits for in-flight request tasks up to SHUTDOWN_GRACE_PERIOD_SECONDS, then cancels remaining
\* coroutines ... and disposes SQLAlchemy last" (docs/architecture.md): a lab run whose response
\* is being sent is an exception.
ReleasedAfterAll == released # <<>> => InFlight = {}

\* From the moment drain begins no request enters: what is being handled only gets less.
NoneEntersDraining == [][draining # "no" => Running' \subseteq Running]_vars

\* A shutdown that begins releases everything, though a handler that is left alone may never end.
ShutdownEnds == draining = "waiting" ~> Len(released) = Len(Resource)

=============================================================================
