----------------------------- MODULE AttackLab ------------------------------
(***************************************************************************)
(* Runs of the Attack Lab and the shutdown of the application they run in. *)
(*                                                                         *)
(* A run is the handler of a request.  It sends its requests to its own    *)
(* application one after the other, and between two of them it does not    *)
(* suspend: it prepares the next one, and whatever the run does apart from *)
(* its requests (swapping the adapter, restoring it, judging) is part of   *)
(* the step in which a request ends.  Once the application shuts down,     *)
(* every further request of a run is answered 503, and the run ends there. *)
(*                                                                         *)
(* All the runs share the one adapter registry, the tools and the rules.   *)
(* Left out are the requests that only read what a later one needs.        *)
(***************************************************************************)
EXTENDS Shutdown, AttackScenarios

CONSTANT Plays   \* the scenarios that each run may be of

ASSUME PlaysAssumption == Plays \in [Lab -> SUBSET SCENARIOS]

Default == "default"

\* A run is not taken for what is registered without it.
ASSUME RunAssumption == Default \notin Lab

VARIABLES
  play,        \* the scenario of each run
  todo,        \* the requests it has to send, the first of which is being handled
  adapter,     \* what is registered as mock_github: Default or the run that put it there
  original,    \* what the run has read before it put its own there, and will restore
  enabled,     \* the tool github.list_issues is enabled
  tools,       \* how many tools of the seed are registered: the first ones
  rules,       \* how many of its rules are in the table: the first ones
  row,         \* the call of the run's session
  seen,        \* what the run has seen of it
  verdict,     \* of the run
  overlapped   \* the runs that were not alone

lab == <<play, todo, adapter, original, enabled, tools, rules, row, seen, verdict, overlapped>>

LabRunning == Lab \cap Running

\* An earlier process may have been stopped while it seeded.
LabInit ==
  /\ Init
  /\ play \in {p \in [Lab -> SCENARIOS] : \A r \in Lab : p[r] \in Plays[r]}
  /\ todo = [r \in Lab |-> <<>>]
  /\ adapter = Default
  /\ original = [r \in Lab |-> None]
  /\ enabled = TRUE
  /\ tools \in 0..3
  /\ rules \in 0..4
  /\ row = [r \in Lab |-> Nothing(0)]
  /\ seen = [r \in Lab |-> Nothing(0)]
  /\ verdict = [r \in Lab |-> None]
  /\ overlapped = {}

-----------------------------------------------------------------------------
(* The course of a run                                                     *)

Script(s) ==
  <<"tools", "rules", "session">> \o
  (IF s.setup = "disable" THEN <<"disable">> ELSE <<>>) \o
  (IF s.id = "persistent-replay" THEN <<"call", "again">> ELSE <<"call">>)

Begin(r) ==
  /\ r \in Lab
  /\ Accept(r)
  /\ todo' = [todo EXCEPT ![r] = Script(play[r])]
  /\ overlapped' = overlapped \cup (IF LabRunning = {} THEN {} ELSE LabRunning \cup {r})
  /\ UNCHANGED <<play, adapter, original, enabled, tools, rules, row, seen, verdict>>

\* Mutant of Restored: what is registered stays.
NeverRestored(r) == adapter

\* What is registered after the teardown of a run.
Restored(r) == IF original[r] = None THEN adapter ELSE original[r]

\* The run has read the registry and puts its own adapter there, if its scenario has one.
Install(r) ==
  IF Override(play[r]) = None THEN UNCHANGED <<adapter, original>>
  ELSE adapter' = r /\ original' = [original EXCEPT ![r] = adapter]

\* restore, with which the teardown begins.
TearDown(r) ==
  /\ adapter' = Restored(r)
  /\ original' = [original EXCEPT ![r] = None]

\* The run ends: with a verdict if it has come as far as the call.
Conclude(r, called, observed) ==
  /\ Handled(r)
  /\ todo' = [todo EXCEPT ![r] = <<>>]
  /\ verdict' = [verdict EXCEPT ![r] =
       IF ~called THEN "error" ELSE IF Passes(play[r], observed) THEN "passed" ELSE "failed"]

\* The request is answered, and what follows it in the run is "rest".  A session that is refused
\* is an error, a call that is refused is a 503 that the assertions find, and the rest of what is
\* refused goes unnoticed.
Proceed(r, rest, observed) ==
  LET left(kinds) == \E i \in DOMAIN rest : rest[i] \in kinds
      last == IF left({"call", "again"}) THEN Nothing(503) ELSE observed
  IN IF accepting /\ rest # <<>>
       THEN /\ todo' = [todo EXCEPT ![r] = rest]
            /\ seen' = [seen EXCEPT ![r] = observed]
            /\ CASE rest[1] = "session" -> Install(r)
                 [] rest[1] = "enable"  -> TearDown(r)
                 [] OTHER               -> UNCHANGED <<adapter, original>>
            /\ UNCHANGED vars /\ UNCHANGED verdict
       ELSE /\ seen' = [seen EXCEPT ![r] = last]
            /\ TearDown(r)
            /\ Conclude(r, ~left({"session"}), last)

\* The request that is being handled is of this kind, and its task has not been cancelled.
Handling(r, request) == r \in LabRunning /\ r \notin targets /\ Head(todo[r]) = request

-----------------------------------------------------------------------------
(* The requests of a run                                                   *)

Times(n, request) == [i \in 1..n |-> request]

\* How many of the n posts of a kind have been answered when the one being handled is.
Posted(r, n, request) == n + 1 - Cardinality({i \in DOMAIN todo[r] : todo[r][i] = request})

\* A post of what is there already is answered 409.
Grown(count, posted) == IF count < posted THEN posted ELSE count

CountTools(r) ==
  /\ Handling(r, "tools")
  /\ Proceed(r, (IF tools < 3 THEN Times(3, "tool") ELSE <<>>) \o Tail(todo[r]), seen[r])
  /\ UNCHANGED <<play, enabled, tools, rules, row, overlapped>>

PostTool(r) ==
  /\ Handling(r, "tool")
  /\ tools' = Grown(tools, Posted(r, 3, "tool"))
  /\ Proceed(r, Tail(todo[r]), seen[r])
  /\ UNCHANGED <<play, enabled, rules, row, overlapped>>

\* One rule is enough for the rules to be taken as seeded.
CountRules(r) ==
  /\ Handling(r, "rules")
  /\ Proceed(r, (IF rules < 1 THEN Times(4, "rule") ELSE <<>>) \o Tail(todo[r]), seen[r])
  /\ UNCHANGED <<play, enabled, tools, rules, row, overlapped>>

PostRule(r) ==
  /\ Handling(r, "rule")
  /\ rules' = Grown(rules, Posted(r, 4, "rule"))
  /\ Proceed(r, Tail(todo[r]), seen[r])
  /\ UNCHANGED <<play, enabled, tools, row, overlapped>>

OpenSession(r) ==
  /\ Handling(r, "session")
  /\ Proceed(r, Tail(todo[r]), seen[r])
  /\ UNCHANGED <<play, enabled, tools, rules, row, overlapped>>

DisableTool(r) ==
  /\ Handling(r, "disable")
  /\ enabled' = FALSE
  /\ Proceed(r, Tail(todo[r]), seen[r])
  /\ UNCHANGED <<play, tools, rules, row, overlapped>>

\* Mutant of Cleanup: the tool is not enabled again.
NoCleanup(s) == <<>>

Cleanup(s) == IF s.cleanup = "enable" THEN <<"enable">> ELSE <<>>

\* What follows the last call: the body of an error does not name the call, so that the run looks
\* for it in its session.
AfterCall(s, answer) ==
  (IF answer.http \in {200, 403} THEN <<"events">> ELSE <<"recover">>) \o Cleanup(s)

\* The call, as one step.  The same key and body a second time get the answer of the first.
Call(r) ==
  LET override == IF adapter = Default THEN None ELSE Override(play[adapter])
      on == enabled \/ play[r].tool # "github.list_issues"
      made == IF row[r].status # None THEN row[r]
              ELSE CallOf(play[r], tools, on, rules, override)
  IN /\ Handling(r, "call") \/ Handling(r, "again")
     /\ row' = [row EXCEPT ![r] = made]
     /\ Proceed(r, IF Tail(todo[r]) # <<>> THEN Tail(todo[r]) ELSE AfterCall(play[r], made),
                Answer(made))
     /\ UNCHANGED <<play, enabled, tools, rules, overlapped>>

\* A call that was refused before it was claimed is not found.
Recover(r) ==
  LET found == row[r].status # None IN
  /\ Handling(r, "recover")
  /\ Proceed(r, (IF found THEN <<"events">> ELSE <<>>) \o Tail(todo[r]),
             IF found THEN row[r] ELSE seen[r])
  /\ UNCHANGED <<play, enabled, tools, rules, row, overlapped>>

ReadEvents(r) ==
  /\ Handling(r, "events")
  /\ Proceed(r, Tail(todo[r]), seen[r])
  /\ UNCHANGED <<play, enabled, tools, rules, row, overlapped>>

EnableTool(r) ==
  /\ Handling(r, "enable")
  /\ enabled' = TRUE
  /\ Proceed(r, Tail(todo[r]), seen[r])
  /\ UNCHANGED <<play, tools, rules, row, overlapped>>

\* drain has cancelled the task: what the request was about to do is done or not, and the
\* teardown sends nothing any more.
Cut(r) ==
  LET request == Head(todo[r]) IN
  /\ r \in LabRunning \cap targets
  /\ tools' \in {tools} \cup (IF request = "tool" THEN {Grown(tools, Posted(r, 3, "tool"))} ELSE {})
  /\ rules' \in {rules} \cup (IF request = "rule" THEN {Grown(rules, Posted(r, 4, "rule"))} ELSE {})
  /\ enabled' \in {enabled} \cup
       (IF request = "disable" THEN {FALSE} ELSE IF request = "enable" THEN {TRUE} ELSE {})
  /\ TearDown(r)
  /\ Handled(r)
  /\ todo' = [todo EXCEPT ![r] = <<>>]
  /\ UNCHANGED <<play, row, seen, verdict, overlapped>>

-----------------------------------------------------------------------------
Run(r) ==
  \/ Begin(r)
  \/ CountTools(r) \/ PostTool(r) \/ CountRules(r) \/ PostRule(r)
  \/ OpenSession(r) \/ DisableTool(r) \/ Call(r) \/ Recover(r) \/ ReadEvents(r) \/ EnableTool(r)
  \/ Cut(r)

Other(r) == (r \notin Lab /\ Accept(r)) \/ Refuse(r) \/ Leave(r)

LabNext ==
  \/ \E r \in Lab : Run(r)
  \/ ((\E r \in Request : Other(r)) \/ Lifespan) /\ UNCHANGED lab

LabSpec == LabInit /\ [][LabNext]_<<vars, lab>>

-----------------------------------------------------------------------------
(* Properties                                                              *)

\* As long as no two runs have overlapped, a scenario passes against the pipeline whatever runs
\* came before it: none leaves an adapter or a disabled tool behind.  Where the seed of the rules
\* was cut short it is not completed, and the slow adapter must be slower than the timeout.
LoneRunPasses ==
  \A r \in Lab :
    /\ verdict[r] = "failed" =>
         \/ overlapped # {} \/ draining # "no"
         \/ rules \in 1..3
         \/ play[r] = AdapterTimeout /\ SlowDelay <= ToolTimeout
    /\ verdict[r] = "error" => draining # "no"

\* When no run is under way, the registry has its own adapter again unless two runs that replace it
\* have overlapped, and the tool is enabled unless the cleanup was refused by the shutdown.
LabCleansUp ==
  LabRunning = {} =>
    /\ adapter # Default =>
         Cardinality({r \in overlapped : Override(play[r]) # None}) >= 2
    /\ ~enabled => draining # "no"

\* "the override is fully restored on teardown" (attack_lab/runner.py), and "adapter overrides are
\* scoped to the run and restored on teardown" (docs/threat-model.md).
RestoredOnTeardown == LabRunning = {} => adapter = Default

=============================================================================
