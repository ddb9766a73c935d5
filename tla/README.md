# ToolWatch, specified

ToolWatch mediates the tool calls of LLM agents: every call is validated, redacted,
classified, judged by rules, executed at most once by a trusted adapter, and written to an
audit trail in PostgreSQL. This directory specifies in TLA+ the parts of it that run
concurrently, fail and recover, and the decisions they take; TLC checks them on small
instances, and TLAPS proves the most important properties for instances of every size.
`PROJECT.json` lists the components, the runs, the mutants that show each property can
fail, the lines of code behind every definition, the hazards and the findings.

Paths below are relative to `src/src/toolwatch/`.

## 1. Inventory of the system

| Component | State it keeps | Operations | Hard behaviours | What makes it correct | Module |
|---|---|---|---|---|---|
| Tool-call execution `application/tool_calls.py` | `tool_calls`, `tool_result_metadata`, `risk_flags`, `audit_events`; a copy of the row in the task | `execute` (ten transactions), queries | same-key races, cancellation between any two awaits, timeouts, retries, blind overwrites | one execution per key, dense numbers, frozen terminal rows, agreeing answers, a trail that tells the truth | `ToolCalls`, `ToolCallContract` |
| Recovery `application/recovery.py` | none | one sweep over calls, model calls, runs, in batches | runs beside live requests and beside itself | settles what is stuck, once, and never more than that | `ToolCalls`, `AgentRuns` |
| Agent runs `application/agent_runs.py` | `agent_runs`, `model_calls`; conversation and summaries in the task | `start` (the loop) | run timeout, provider timeout, limits, shutdown, death at any point, load/flush races | budgets bound effects, one ending, counters backed by work, runs end | `AgentRuns`, `AgentProviders` |
| Agent providers `infrastructure/agents/` | clients | `complete` | unknown tools, colliding names, no response | only what is permitted is offered | `AgentProviders` |
| Shutdown `shutdown.py`, `main.py` | `_accepting`, `_tasks`, a condition | `track`, `drain`, the lifespan handler | admission races drain, grace period, cancellation, nested requests | nothing runs on what was released, shutdown ends | `Shutdown` |
| Sessions `application/sessions.py` | `sessions`, `agents` | create (agent upsert), complete, lists | racing upserts and ends, rollback, pages while rows change | one agent per identity, one end, a truthful trail, no row skipped | `Registry`, `Listing` |
| Tool registry `application/tools.py`, `seed.py` | `tool_definitions` | register, enable, disable, seed | the seed beside operators, switching during executions | only patches change an entry | `Registry`, `ToolCalls` |
| Blocking rules `application/rules.py`, `security/rules.py` | `blocking_rules` | create, update, evaluate | read-modify-write without a lock, switching between phases, order of evaluation | block wins, verdict is that of all rules, decisions never weaken | `Registry`, `Screening`, `ToolCalls` |
| Risk, redaction, payload limits `security/*.py` | none: pure functions | classify, redact, canonicalize | limits, growth under redaction, nested containers | no secret is kept or unflagged, levels only rise | `SecurityPolicy`, `Screening` |
| Attack Lab `attack_lab/` | the process-wide adapter mapping, the enabled flag of tools | run one of twelve scenarios | concurrent runs, cleanup during shutdown, partly seeded tables | a lone run passes and leaves nothing behind | `AttackLab`, `AttackScenarios` |
| Adapters `infrastructure/adapters/` | the mapping | execute | any outcome, any delay | external: every outcome is possible | `AttackScenarios` for the mocks |
| Queries and pages `application/queries.py`, `web/` | none | several statements per page | rows change between the statements | a page does not contradict itself | `CallViews`, `Listing` |
| Repositories `infrastructure/repositories/` | the database session | get, create, update, claim, list | row locks, unique keys, upsert, flush of dirty columns | - | inside each module |
| API, telemetry, config `api/`, `telemetry/`, `config.py` | none that the services depend on | parsing, counting | - | - | not modelled, but for the status codes the Attack Lab reads |

How they interact. A request enters through the shutdown middleware (`Shutdown`), reaches a
service through the API, and the services share nothing but the database and the adapter
registry. An agent run calls `ToolCallService` once per requested tool call, in its own
task. An Attack Lab run sends requests to its own application. Recovery is another process
over the same tables. Operators switch rules and tools and end sessions at any time.

Where the code can be interrupted: a task runs undisturbed between two awaits, and all
awaits that matter are database transactions, the adapter, the provider, or the condition
of the shutdown manager. One action is one transaction or one outside call; a transaction
is cut in two where something can come between its statements (see below).

## 2. The modules

### `ToolCalls`: the execution of tool calls

State: `call` (the row of each idempotency key, or none), `result` (its metadata row),
`audit` (its events), `session`, `enabled` (rules), `offered` (tools), `lock` (the
`FOR UPDATE` lock of a session row), `stale` (rows older than the recovery cutoff),
`invoked` (how often the adapter was entered: the outside world). Per request: `pc`,
`req` (its body), `held` (the `ToolCall` object it writes back), `answer`.

| Action | Code |
|---|---|
| `Replay`, `Receive` | the lookup in `_execute` and `_existing_outcome` |
| `LockSession`, `InsertReceived` | `_create_received`, cut between the session lock and the insert |
| `BeginValidating`, `Reject`, `EvaluateInput` | validation, redaction, `_evaluate_input` with rules |
| `StartExecuting`, `FailUnconfigured`, `InvokeAdapter` | up to the adapter |
| `TimeOut`, `FailInAdapter`, `FailResult`, `DropSanitizedResult` | what can come of it |
| `FinalizeInvalid`, `ReadResultRules`, `FinalizeSucceeded` | the result phase and `_finalize` |
| `Abort` | death, cancellation or a failed transaction, at any point |
| `Elapse`, `RecoverBatch` | time, and a batch of the recovery command |
| `CompleteSession`, `SetRuleEnabled`, `SetToolEnabled` | operators |

Two requests agree on the request hash exactly when they agree on the hashed fields, which
is what the model compares. A row's update is one action: `_finalize` inserts the metadata
first, which takes a key-share lock on the row, and recovery skips locked rows, so of two
writers the later overwrites every column. `StaleWhileLive` says whether the stale period
can be shorter than an execution. The defaults (300 s, against a tool timeout of 10 s, or
30 s at most) make it FALSE, but the settings allow 1 s and nothing compares them. Where it
is TRUE, a late execution overwrites what recovery wrote, so a terminal row can change:
`TerminalCallsFrozen` is claimed without it only, and what still holds with it
(`overlap`) is that row, result and trail agree.

One stored code, `tool_payload_too_deep`, stands for two errors: arguments too deep to
redact are answered with one and repeated with the other. Both are failures, which is what
`VerdictsAgree` compares.

Left out: a request whose session or tool does not exist, or whose arguments are not
canonical JSON within the limits, since it writes nothing; texts; the risk level.

### `ToolCallContract`: what an idempotency key promises

A key is free, open or closed; while it is open its effect happens at most once; it is
closed once, with an outcome that never changes and tells the truth about the effect.
`ToolCalls` implements it (`ImplementsContract`, with `phase` and `outcome` read off the
row's status and `effects` off `invoked`) as long as a live execution cannot look stale.

### `CallViews`: what a reader is shown

`ToolCalls` with one reader who opens the page of a call or of a session. A page takes a
statement for each part and nothing but their order relates what they see. It shows that
the order in the code (the row, then its result, then its trail; the session, then its
calls, then their events) is the one that makes a page coherent.

Every list on a page is limited, at offset 0: a session is shown with its first 200 calls
(`CallLimit`, by sequence number) and with its oldest 200 audit events, those of all its
calls together (`EventLimit`); a call with its oldest 200 events. So a session of more than
200 calls is shown incomplete, and at several events per call a few dozen calls are enough
for the later ones to be shown without their history. `docs/architecture.md:219` and
`docs/threat-model.md:57` name explicit per-session limits, and the properties are stated
within them: an ended session has on its page the first of all the calls it will ever have,
all of them if they fit, and every call shown has a history that tells of it unless the list
of events was cut. The table of events has rows besides those of `audit` (matched rules,
redactions, the session's own, those of agent runs), which take up places: `EventsOf` may
always be cut, and must be once the modelled events alone exceed the limit.

### `AgentRuns` and `AgentProviders`: the agent loop

State: `row` (`agent_runs`), `model` (`model_calls` of a run), `made` (its tool calls),
`audit`, the contract's `phase`, `effects` and `outcome` for the keys the run derives, `agedRuns` and
`agedCalls` (past the cutoff), `accepting`; per task `pc`, `mine` (its `AgentRun`),
`wanted` (the `ModelCall` it will store), `seen` (the row an update has loaded), `plan`,
`offered`, `asked`, `summary`, `ending`. It composes the loop with `ToolCallContract`
rather than with `ToolCalls`: the refinement is what makes this sound.

`AgentProviders` says which provider and model a request gets (`Permitted`), which tools
are offered under which public name (`build_provider_tools`, with names that collide), the
script of the fake provider, and what a reply of Ollama is parsed to: the names asked for,
or no response. A run that no provider can be resolved for, or whose tools cannot be
named, is refused before it begins or fails.

What `ToolCallService` may do with a request is refuse it before there is a row
(`RefuseTool`), answer from a row that is there, close the call and answer or raise
(`SettleTool`), or raise with the call left open when redaction has made its result too
large (`DropTool`): the loop goes on to its next request, and recovery closes the call
later. An exception that is no `ApplicationError` ends the run (`FailUnexpectedly`).

The repositories update by `session.get` and a flush of the columns that differ from what
was loaded. For runs and model calls nothing locks the row before, so load and flush are two
actions (`LoadRun`/`PersistRun`/`FinishRun`, `LoadModelCall`/`SettleModelCall`) and
`Flush` writes the differing columns only.

`TimeOut`, `FailUnexpectedly`, `ExceedMessageLimit`, `CancelInProvider` and `Crash` leave
the loop where the code can; `Crash` is also the cancellation by shutdown outside the
provider call, which `start` does not catch.

### `Registry` and `Listing`: sessions, tools, rules and the seed

State: `agent` (committed agents) and `claim` (an insert that is not committed yet),
`session` with its `trail`, `lock`, `built` (the clock of `started_at`), `catalog` (tools
and rules, by column); per request `pc`, `op` (what it asks for) and `mine` (what it has
read). A transaction is cut wherever a statement can see, or wait for, another one's commit:

| Action | Code |
|---|---|
| `FindAgent`, `UpsertAgent`, `FindAgain`, `OpenSession` | `SessionService.create`: `INSERT ... ON CONFLICT DO NOTHING` waits for the other insert and then finds its row, if that one commits |
| `LockSession`, `EndSession` | `SessionService.complete` under `FOR UPDATE` |
| `AddTool`, `AddRule` | registration, against the unique constraints |
| `SeedEntry`, `SeedDone` | one transaction for each entry of the seed |
| `ReadEntry`, `LoadEntry`, `FlushEntry` | `set_enabled` and `RuleService.update`: the row is read, loaded again (from the identity map, or anew if that has lost it), and the columns that differ are written |
| `Abort` | the transaction is rolled back, anywhere |

`Listing` adds a reader that walks through the pages of the session list: items and total
are two statements, and nothing holds between two pages.

### `SecurityPolicy` and `Screening`: what the pipeline decides

`SecurityPolicy` has no state: a JSON value is a function from paths to nodes, of a string
only the marks are kept that the code looks for, and its operators are the limits, the
redaction with its findings, the risk flags and levels, and the conditions and the order
of rules. `Screening` takes one call through it, rule by rule: `CheckArguments`,
`RejectArguments`, `StrandArguments`, `ClassifyArguments`, `ExamineInputRule`, `ConcludeInput`, then
`AdapterReturns` or `AdapterFails`, meanwhile `ChangeRules`, then `FailResult`, `DropResult`,
`ClassifyResult`, `ExamineResultRule`, `ConcludeResult`. It says what `EvaluateInput` and
`ReadResultRules` of `ToolCalls`, which choose freely, may choose. A call that is "stuck"
is one the code leaves with an exception and no transition: redaction has made a value too
large to be stored or answered, or the redactor has come to a URL with a password and a port
out of range (`RedactionRaises`), where it raises a plain `ValueError` that `execute` does
not catch. `ToolCalls` and `AgentRuns` have the latter in `Abort` and `FailUnexpectedly`.
`RuleLimit` is how many rules are read for a call (10,000), the first in the order of their
evaluation; `StoreArguments` and `StoreResults` are settings.

### `Shutdown`: admission, drain, release

State: `accepting`, `tasks`, `pc` of the requests, `draining`, `targets` (what drain has
cancelled), `released`. The condition's lock is never held across a suspension
of its holder except inside `Condition.wait`, so `track` enters and leaves in one step
each. A run of the Attack Lab sends requests to its own application in its own task: the
end of each takes the task out of the set and the next puts it back, with no suspension in
between, so the set is unchanged until the last (`Handled`). After it the response of the
run is sent by a task that drain does not know of (`sending`): this matters only if the
server's send waits, and the theorem that everything has ended at the release is stated
without lab runs.

### `AttackLab` and `AttackScenarios`: the lab over the shutdown

`AttackScenarios` has the twelve scenarios as data, the fixture adapters and their
overrides, what the pipeline answers to the call of a scenario (`CallOf`, computed with
`SecurityPolicy`), and the verdict (`Passes`). `AttackLab` extends `Shutdown`: a run is a
request whose `todo` is the list of the requests it still has to send, and all runs share
`adapter`, `enabled`, `tools` and `rules`. Each handled request is an action; what the run
does between two of them belongs to the step in which the former ends. Once the
application shuts down every further request is answered 503 (`Proceed`), and drain may
cut a run in the middle of a request (`Cut`). The call itself is one step here.
The cleanup enables the tool whether or not an operator had disabled it before; no
operator acts in this module.

### Composition and order

`ToolCallContract` <- implemented by - `ToolCalls` <- read by - `CallViews`;
`AgentRuns` - uses -> `ToolCallContract` and `AgentProviders`; `Listing` - reads ->
`Registry`; `Screening` and `AttackScenarios` - use -> `SecurityPolicy`; `AttackLab`
extends `Shutdown` and `AttackScenarios`. `Shutdown` gives `AgentRuns` its `accepting` and
its cancellations. `MC*` modules only declare values and symmetry; `*Proofs` modules hold
the theorems.

## 3. The runs

| Run | Instance | What it shows |
|---|---|---|
| `races` | 2 requests, 2 keys, 2 sessions, no rules, a reader of sessions with one call to a page | one execution per key, dense numbers, backstops never hit, conflicts only on mismatch, agreeing verdicts, no call in an ended session, pages of sessions as complete as their limits allow |
| `overlap` | 2 requests, 1 key, one block and one flag rule switched at will, recovery may overtake, a reader with four events to a page | rows, metadata and trail stay consistent even then; decisions never weaken; nothing runs unjudged; pages of calls are coherent |
| `contract` | 2 requests, 2 keys, recovery never overtakes a live execution | terminal rows are frozen, the contract is implemented, executions settle, requests end |
| `agent_runs` | 1 run, 2 turns, 2 calls, 2 per turn, two registries, eight replies | budgets, keys, counters, one ending, frozen endings, runs and model calls settle |
| `registry` | 3 requests that do any of ten things or the seed, pages of one row | one agent per identity, truthful trails, only patches change entries, no row is missed by a walk, requests end |
| `screening` | 3 tools, 13 arguments, 12 results, all tables of six rules that may share a name or change between the phases | the verdict is that of all rules, no secret is kept or unflagged |
| `shutdown` | 2 requests and a lab run | admission and release are ordered, shutdown ends |
| `attack_lab` | 2 runs: any scenario beside four others, on every partly seeded table, with the shutdown | a lone run passes and leaves nothing behind |
| `interrupted` | one request that dies early | finding: the call is never settled |
| `unreadable` | recovery overtakes a run | finding: a row its class refuses |
| `wrong_summary` | a refused request after an executed one | finding: the wrong call is reported |
| `lab_restore` | 2 runs that replace the adapter | finding: the override stays |

Why the bounds are enough. In `races` every race is between two: the one that holds the lock
and the one that waits, two that look for one key, the one that executes and the one that
retries; what is checked there is proved for any number of requests. Two keys and two
sessions separate what is per key from what is per session; every counter (`seq`,
`invoked`) is bounded by the number of requests, so nothing is cut off. The reader there
opens the page of a session only, and no tool is switched between two statements of the page
(`SessionViews`; nothing on it depends on that): with one call to a page (`CallLimit`), a
session of two has one that is left out and a session of one is shown whole. In `overlap`
what is checked relates the columns of one key, so one key with two requests (one that
executes and one that retries) and one rule of each kind suffice; a page of four events
(`EventLimit`) takes the trail of some calls and not of others. The reader opens one page,
since pages share nothing. Symmetry is used only over
requests, keys and sessions, in runs of safety properties. Agent runs share nothing but
recovery's batches and the accepting flag, so one run suffices; its limits are 2 so that a
second turn exists, a second call in a turn exists, and each limit can be the one that is
hit (replies ask for up to one call more than a turn may have). The registries are one that
can be offered and one with two tools of one public name; the replies are of each kind that
is parsed differently; the prompts make the fake provider ask for one tool, for two, or for none.
In `registry` three requests are two that race and one that comes before, between or after
them; a page of one row puts every row on a page of its own; the two ends of one session,
the two kinds of patches of one rule and the patch that only a flag rule allows are among
the operations. In `screening` each limit is one that some value passes and
another exceeds, and redaction lets some values grow beyond the limit of what is stored; four
rules are read (`RuleLimit`), of tables that have up to five.
In `shutdown` two ordinary requests are one that ends by itself and one that is cancelled,
in either order. In `attack_lab` two runs overlap in every way; the second is of one of the
scenarios that depend on what the other may leave: its adapter, the tool, or the rules.
The deadlock check is off where the system may stop: all requests answered, nothing to
recover.

Each property has a mutant of the code in `PROJECT.json` that breaks it: a dropped guard,
a missing lock, a changed order, an off-by-one. The mutated operators stand before the
definitions they change and are used nowhere.

### Fairness

`ToolCalls` and `AgentRuns`: a task that is not interrupted runs on (asyncio schedules
every ready task, and the adapter and the provider are bounded by `wait_for`); time passes,
so a row nobody updates becomes stale; the operator keeps running the recovery command, as
the documentation asks, and each sweep gets its turn. No request has to arrive, no
task has to fail, no rule has to change. `Registry`: a task that can go on goes on; what it
waits for is another task's commit, which is such a step too. `Shutdown`: a cancelled
handler ends (its cleanup is bounded) and drain goes on when it can; a handler that is not
cancelled may run for ever, and the server need never shut down.

## 4. What is proved

Each theorem holds for every value of the constants that satisfies the named assumptions
of its module: finitely many keys, a positive batch size, disjoint rule sets, null values
that are none of the values, and what a valid rule, a JSON value, an operation or a reply is,
and that identifiers of different kinds differ (`SubjectAssumption`, `RunAssumption`).

### Tool calls

`ToolCallsProofs` proves, for both values of `StaleWhileLive`: `TypeOK`,
`AtMostOneExecution`, `SequenceIsDense`, `BackstopsNeverHit`, `ConflictOnlyOnMismatch` and
`CallsOnlyInActiveSessions`.

The argument. None of these is inductive alone: that a key is executed once rests on there
being one request that works on it, which rests on the unique key and on the row being
there when the work begins. `IndInv` adds what the code keeps implicitly:

- `HasRequest`, `AnsweredLast`: what a request has by where it stands;
- `OwnsRow`, `OneOwner`: a request at work wrote the row of its key, with the session,
  number and hash it still holds, and no other request works on that key;
- `NotYetEntered`, `NotYetFinalized`: before the adapter the effect count is zero, and
  before the end there is no metadata row, which is why the backstop on results never hits;
- `LockHeld`: whoever is between the session lock and the insert holds the lock, the
  session is active, the key is free, and the number in hand is still the next one.

`OwnsRow` says nothing of the status of the row: recovery may have failed it. This is why
the proof also covers a recovery that overtakes.

`ToolCallsRowProofs` goes on, still for both values, to `NothingRunsUnjudged`,
`SuccessHasEvidence`, `TrailEndsWithStatus`, `FlagIsAudited` and `DecisionNeverWeakened`.
`RowInv` adds to `IndInv` what the columns have to do with each other (`SoundRow`), and how
far the copy in a request's hands may be from its row (`InStep`): the row is at the
request's stage, or, late in the execution, recovery has failed it, and only the result
phase has raised the decision of the copy. That recovery never touches the decision and
that `SoundRow` is kept by an overwrite from a copy that is in step are what carry it. The
same invariant gives `EndsAreFinal`: however short the stale period is, a call that has
ended stays ended, and only a row that recovery has failed ever changes again, to the end
of the execution it overtook.

`ToolCallsContractProofs` assumes `~StaleWhileLive` and proves `TerminalCallsFrozen`,
`VerdictsAgree` and the refinement `ImplementsContract`. Its `CalmInv` adds that the row of
a request at work is not stale and is exactly at its stage (`Current`), and that whoever
was told how a call ended was told what its row says, or will say: the one answer that is
given without a transition (`DropSanitizedResult`) is a failure, and leaves a row that
nobody works on and that only recovery can settle, as failed (`Told`). Every step of a
request at work is then a `RowStep`: it goes on, enters the adapter, or ends its own row;
`StepInContract` maps it, the insert and the batch of recovery to `Perform`, `Close`,
`Claim`, or a stutter.

`CallViewsProofs` proves of a reader, for both values of `StaleWhileLive`, that it changes
nothing (`ReadersOnlyRead`), and `CallPageCoherent` and `SessionPageComplete`. What
happens between the statements of a page can only add to it: trails grow at their end
(`TrailsGrow`), a result that was stored stays (`ResultsStay`), calls keep their numbers, and
a session that is not active gets no more of them (`CallsGrow`), so that its first ones stay
the first (`FirstCallsStay`). A list of events that is not cut has the whole trail of every
call it is about (`UncutListsAreComplete`). `ShortSessionsAreShownInFull` adds that the limit
is the only reason for which a call of an ended session is left out. `ReaderInv` says of each part that was read what
it still has to do with the tables, which is where the order of the statements is used:
a row that was read before its trail is one the trail tells of, whatever was added since.

### Agent runs

`AgentRunsProofs` proves `TypeOK`, `BudgetsHold` and `OwnCallPerRequest` whatever recovery
does to the rows of live runs: they follow from what the task holds, not from what is
stored. `LoopInv` says what a task has at each place (`Holding`), how its turns and
summaries stand to the limits (`Counts`), that the calls it has made are named once each
and come before the next one (`Calls`), that a run without a row has nothing (`Absent`), and
that an adapter is entered for a call of the run only (`EffectsBacked`).

Two more theorems hold whatever recovery does. `EndsOfRunsAreFinal`: the end that the
loop or its handler has stored never changes; a run that recovery has ended is written
again only by the one update that had loaded it before. `Overtaken` says for this what the
row of a live run can be: as its task believes, or ended by recovery. `LoopKeepsContract`:
to the tool calls the loop does only what `ToolCallContract` allows, so what that promises
holds of the calls of runs (`ToolCallsAreToldTruly`): a closed call stays, and its outcome
is true of its effect.

With `~StaleWhileLive`, `CalmInv` adds that only abandoned rows are aged (`Aged`), that a row is
what its task holds up to the update in progress (`Stored`), how the counters stand to the
work (`Progressed`) and how the trail tells of the end (`Ended`); from it follow
`ProgressIsBacked`, `OneEnding`, `EndedRunsFrozen`, and that every completed run can be read
back: the row of the finding `unreadable` needs a cutoff that a live run passes.

### Registry

`RegistryProofs` proves `TypeOK`, `SessionsHaveTheirAgent`, `TrailTellsStatus` and
`OnlyPatchesChange`. The invariant says who may hold an uncommitted agent (`Claims`), that
each session under construction has a slot of its own and there are enough of them
(`Slots`, `SlotsSuffice`, by counting the requests that may still build one), that whoever
ends a session holds its lock and has read what is there (`Locked`), and that the copies of
a patch are rows of which a valid one will be written (`Patching`). `OnlyPatchesChange` is
about a patch that no other one has disturbed; two patches of one rule that race can undo
each other, in the code and in the model.

Of `Listing` it proves `ListTypeOK` and `WalkMissesNothing`, for any number of sessions and
any size of the pages, while sessions are created and ended. A row stands on a page by its
rank, the number of matching sessions that started after it. In a list without a filter
ranks only grow (`RanksGrow`), so what the walk has not seen yet is still ahead of it
(`WalkInv`). The reader changes nothing (`WalkIsReading`), which is why the invariant of the
registry can be used.

### Screening

`ScreeningProofs` proves of every value that redaction leaves no string in which a secret
was found. It proves
`JudgedByEveryRule` by the loop invariant `Loop` (what matches has been recorded, is to
come, or comes after a block), which needs that the order of rules is total on a table
without two rules of one name, and `SecretsRemovedAndFlagged` from what redaction leaves.

### Shutdown and Attack Lab

`AttackLabProofs` proves of the coordinator, for any requests, its `TypeOK`, that nothing
is released while a handler runs, those of lab runs included, that without lab runs every
task has ended by then, and that no request enters once drain has begun. The invariant: the
tracked tasks are those that are handled, drain closes the door first, and what it waits
for contains all that still runs. `LabIsServed`: a step of the lab is a step or a stutter of
the coordinator, so all of this holds with the lab's runs in it.

Of the runs it proves, for any number of them and any scenarios: `LabCleansUp`. `LabInv` says
what a run still has to send at each point (`Courses`), how runs overlap (`Meetings`), that
what a run will restore is what was there before it unless two have overlapped
(`Restorable`), and that a tool which is disabled is going to be enabled by its run unless
the application shuts down (`Reenabled`). `LoneRunPasses` is about runs that do not overlap:
then the seed, the tool and the adapter are as the run has prepared them, and what it has
recorded so far is what its scenario makes of it (`LoneInv`). The theorem assumes
`PipelinePasses`: each scenario, undisturbed, is answered as it expects. This is a statement
about twelve constant scenarios and the operators of `SecurityPolicy`, and TLC evaluates it
(`ScenariosPass` in `MCAttackLab`).

### Only model-checked

Liveness (`ExecutingSettles`, the two `RequestsEnd`, `RunsSettle`, `ModelCallsSettle`,
`ShutdownEnds`) is out of this prover's reach, as are `ENABLED`, recursive operators and
inductions over data. Every invariant and every action property that a passing run checks
is proved: those of `contract`, `VerdictsAgree` of `races`, and of `agent_runs`
`ProgressIsBacked`, `OneEnding` and `EndedRunsFrozen`, where a live execution never looks
stale, all others without that assumption. What the four other runs check is not true of the code; of one of them
(`unreadable`) it is proved that it takes such an execution.

## 5. Findings

1. `interrupted`: calls that die before `executing` are never recovered, though the
   documentation asks that interrupted operations be recoverable.
2. `unreadable`: a run that recovery ends between load and flush becomes a row that the
   domain class refuses to read.
3. `wrong_summary`: a tool request that the service refuses is summarised as an earlier call.
4. `lab_restore`: of two overlapping Attack Lab runs that replace the adapter, the later one
   to end restores the other's: the override is not "fully restored on teardown".

Seen while modelling, and not contradicted by any document: a URL with a password and a bad
port stops a call where it is (`StrandArguments`, `DropResult`); of two patches of one rule
that race one can undo the other; the default tool timeout of
10 s is longer than the 5 s the slow adapter takes, so the adapter-timeout scenario
fails under it (`LoneRunPasses` excepts it); a seed of the rules that was cut short is not
completed by the lab (excepted too); a tool whose cleanup the shutdown has refused
stays disabled; a walk through a filtered list can miss rows, and so can one through the
list of rules, whose order key patches change.

## 6. Plan

Done: the execution of tool calls with its contract, its readers and their proofs; the
agent loop over that contract; the shutdown; the registry; the screening; the Attack Lab.
What would add most from here:

1. `Screening` as a refinement: `EvaluateInput` and `ReadResultRules` with the matches
   and flags that `Screening` computes instead of free ones.
2. Operators in `AttackLab`, who disable the tool that the cleanup enables.
3. Two agent runs over one session that ends meanwhile, with the lock order of the session
   and the run.

## 7. Not modelled

HTTP parsing and response models (no state), the templates of the dashboard, telemetry
(nothing depends on it), the transport and the usage figures of Ollama, the regular
expressions of redaction and risk (text), the encoding and the hash of payloads, the
details of JSON schemas beyond the keys they require, migrations, settings (the constants
here), the connection pool, and the lock order between sessions and runs, where PostgreSQL
fails one of two transactions and `Abort` and `FailUnexpectedly` stand for the loser.
