# A TLA+ model of meizex-grid

TLA+ specifications of the parts of meizex-grid whose correctness depends on
order, concurrency, crashes and retries, with the TLC configurations that check
them on small instances and TLAPS proofs of nearly all of their safety properties. The repository
holds two Python packages and a laboratory directory:

* **MRW** (`MEIZEX_ROUTER_WORKER/src/meizex_mrw`) routes a mission to resources,
  runs the plan step by step, pauses it for assistance and resumes it, and sends
  steps to other machines over ssh;
* **AIR** (`MEIZEX_AIR/src/meizex_air`) keeps plans, sprints and checkpoints of
  bounded executions, validates results and decides on remediation; it also
  collects facts about machines;
* `MEIZEX_GRID` holds scripts, snapshots and reports of the lab.

Contents: [inventory](#inventory), [modules](#the-modules),
[runs](#runs-bounds-fairness), [proofs](#proofs),
[disagreements](#where-code-and-documentation-disagree),
[limits](#what-is-not-modelled-and-what-is-assumed), [plan](#plan).

## Inventory

| component | state it keeps | operations | what is hard about it | what makes it correct |
|---|---|---|---|---|
| `ResourceDispatcher` | none of its own between calls; a run lives in the locals of a call, in an envelope, and in its event stream | `dispatch`, `resume`, the step loop | crash or escaping exception between two effects; two resumes of one token; the counter and index that travel through the envelope | one owner per run; nothing lost without a reason; bounded pauses; a stream that is a legal life |
| pending-state stores | one file per token, or a dict | `save`, `load`, `consume` | `consume` is load, then unlink | a token is used once |
| event streams | an append-only JSONL file per run | `append`, `read_from` | a reader meets a half-written line | every complete line is read once, in order |
| remote ssh jobs | per job: thread, four flags, child process; per node: a semaphore | `execute_async`, `cancel`, `poll`, `wait`, `execute` | cancellation against start, end and capture; exceptions in a thread | the node's limit; a future that settles once |
| residual monitor | whether it has warned | the polling loop of `execute` | two reads of a handle that moves | warns once, and of a job that runs |
| process boundary | none | spawn, feed, wait, kill | timeouts, refused payloads | always a structured outcome, no process left behind |
| `BoundedExecutionStore` | a directory of versioned records | save, load, list, latest | no lock: check, then replace; crashes between | write-once versions, never half a record |
| bounded-execution loop | attempts and failure counts per sprint | validate, classify, remediate, partition | counters per failure class; two verdicts on one dependency | no retry without bound; nothing accepted unproven |
| context compiler | none | compile within a token budget | priorities against a budget; omissions that must be declared | nothing omitted silently, nothing trusted that did not pass |
| profiles, specialist router | none | requirements, eligibility, ranking, escalation | order of gates; availability that changes between attempts | only eligible targets; an authorized escalation is kept |
| worker turn engine | the turn's messages, counters, executed calls | infer, run tools, verify, audit, stop | nested limits, many early exits, a `finally` that must know what it owns | a turn ends; "completed" only when verified; the server is stopped |
| request policy, tool router, answer checks, context window | none | classify, select tools, verify, trim | orders of precedence | gates that hold for every answer |
| MCP client | table of responses, counter of ids, reader thread, server process | start, call, stop | late answers, exit against answer, restart | an answer goes to its own call |
| read-only filesystem server | the paths it has shown (`_grounded`) | stat, list, search, read | state per process | a read follows a discovery |
| capability router | a registry of descriptors | derive requirements, gate, rank, plan | a chain of gates; degradation and missing capabilities | no plan that lacks a required step or takes what nobody opted into |
| command line | files, one turn or one dispatch per command | `run`, `dispatch`, `resume` | who owns the server | wiring only |
| probes, providers, fast paths, scripts | files, HTTP | | I/O and text | |

Interaction: the command line calls the router, hands its result to
`ResourceDispatcher`, which calls one executor per step; executors call the
worker (LLM), the MCP client, or the process boundary (local or ssh). The worker
and the MCP executor of one dispatch share one client, and whoever finds it
without a process starts the server. All of them append to the run's event
stream. A paused run crosses from one process to another through the
pending-state store. AIR's loop meets MRW only through the records in its store.

`PROJECT.json` lists every component with its state of modelling, and every
hazard with its line and the properties that would show it going wrong.

## The modules

| module | what it is |
|---|---|
| `RunLifecycle` | abstract: the life of a run as its event stream shows it |
| `Dispatcher` | `ResourceDispatcher`, `FilePendingRouteStore`, the run streams |
| `DispatcherInv` | the inductive invariant of `Dispatcher` |
| `DispatcherProofs` | its theorems, about its state and about what its streams show |
| `RunLog` | abstract: a log, read from where the last read ended |
| `EventLog`, `EventLogProofs` | `EventStore`: writes, half lines, offsets; its theorems |
| `JobPool` | abstract: a job is a future of a bounded pool |
| `GridJobs` | `RemoteSSHExecutor`, `RemoteJobHandle`, `run_payload`, the residual monitor |
| `GridJobsInv` | the inductive invariant of `GridJobs` |
| `GridJobsProofs` | its theorems |
| `WriteOnceStore` | abstract: versions are write-once registers |
| `CheckpointStore` | `BoundedExecutionStore` among concurrent processes |
| `CheckpointStoreInv` | its inductive invariants: for every use, and with one writer per version |
| `CheckpointStoreProofs` | its theorems |
| `RequestPolicy` | operators: class, effect intent and policy of a request |
| `ToolRouter` | operators: the catalog, the tools a turn offers, the calls it blocks |
| `AnswerChecks` | operators: format, contradiction and the synthesis verifier |
| `ContextWindow` | operators: the message list and its trimming |
| `ReadOnlyFilesystem` | operators: what one request does to the filesystem server |
| `MCPClient` | client, reader thread, server process |
| `WorkerTurn` | `Worker.run`, `MCPExecutor`, `LLMExecutor` over one client: composes the six above |
| `WorkerTurnInv`, `WorkerTurnProofs` | its two inductive invariants, its theorems |
| `CapabilityRouter`, `CapabilityRouterProofs` | `route()`: registry, requirements, gates, ranking, plan; its theorems |
| `BoundedExecution` | operators: what plans, sprints and checkpoints must satisfy |
| `AcceptanceValidator`, `FailureClassifier`, `RemediationPolicy`, `ContextCompiler`, `SpecialistRouter` | operators: one for each of AIR's pure functions |
| `RemediationLoop`, `RemediationLoopProofs` | the loop a driver makes of them, over the checkpoint store; its theorems |
| `Orders` | operators: how Python compares tuples, and what `sorted` makes of a set |
| `OrderTheorems` | what these do, what walking a list once does, and two forms of induction |
| `MC...` | the instances TLC checks |

Definitions that follow a correct one under another name, such as
`EnvelopeUncounted` before `Envelope`, are the same code with a plausible
mistake in it. Each property is listed in `PROJECT.json` with one of them that
it catches.

### Dispatcher

One action is one *durable effect*: an appended event, a renamed or unlinked
file. Between two of them another caller may run, and the caller may die. What
Python does between two effects is folded into the action before or after.

| variable | code |
|---|---|
| `pc[p]` | where caller `p` is in `dispatch` or `resume` |
| `task[p]` | its locals: step index, `current_output` (nothing, a text, or a dict that names a tool), `escalation_count`, `len(results)` |
| `pending[t]` | the envelope file of token `t` |
| `issued`, `known` | tokens made; tokens announced by `RunEscalated` |
| `stream[r]` | the events of the run's file |
| `fate[r]` | history: why a run that is not closed has lost its owner |

| actions | code (`dispatch/dispatcher.py`) |
|---|---|
| `Dispatch`, `CloseFailed`, `CloseCompleted` | `dispatch`, and the end of `resume` |
| `StartStep`, `PlanDone`, `NoExecutor`, `PlanningError`, `Execute`, `CompleteStep`, `FailStep` | the body of `_execute_loop` |
| `PollDeadJob` | `RemoteSSHExecutor.execute` over a handle whose thread has died: the call never returns |
| `SavePending`, `EscalateStep`, `Announce` | its two escalation branches, which are the same code |
| `Load`, `Consume` | `FilePendingRouteStore.consume` |
| `Accept`, `Reject` | the rest of `resume` |
| `Abort` | the process dies, or an exception that nothing catches leaves the call |

Executors are reduced to what the dispatcher can tell apart: which of them takes
a step (`EligibleExecutors`, from `executor_compat.py` and `_select_executor`; a
remote executor counts as a `process` one), whether the resolver finds an
invocation (`Unplannable`), and which statuses each can return. One of them may not
return at all: `while not handle.done()` in `RemoteSSHExecutor.execute` has no limit, and
a handle is never done when an exception has ended the job's thread (`GridJobs` shows
how it comes to that). `PollDeadJob` leads to `polling`, which only `Abort` leaves.

`RunLifecycle` is what a reader of the stream may rely on: steps begin one at a
time in plan order, each ends once, a pause is followed by the completion of the
step that paused, a closed run stays closed. `StreamsAreLives` maps the last
event of each stream to the abstract state.

### EventLog

One action is one `write(2)` of `append`, or one `read_from`. Python hands a line to
the system in one write if it fits the buffer of the text file, and in two if it
does not (`BeginLine`, `EndLine`; tool results, requests and answers may be that
long). `Tear` and `LeaveLine` are appends that are cut short by a full disk or the
death of the process. `file` is the sequence of the pieces written, an offset is a
number of pieces, and `ReadFrom` takes the chunk, its last newline, its lines and
their parse as the code does; `read_all` is a `ReadFrom` at 0. Nothing keeps two
writers apart, as nothing in the code does.

`RunLog` is what that gives a reader: every event once and in order, until the log
breaks, when a line holds more than one event, and then an exception at every read.
`Dispatcher` and `GridJobs` use streams that do not break.

### GridJobs

Each job has a thread (`thread[j]`), a child (`child[j]`) and the flags of its
handle. An action is what a thread does between two accesses to shared data:
taking the permit, reading `cancelled`, setting `_started`, `Popen`, capturing
the process, the end of `communicate`, the append of the usage event, the two
halves of `_finish`, releasing. `Cancel`, `Look` and `Kill` are the three steps of
`cancel()` in another thread; `Observe`, `Judge` and `AppendDivergence` are the
polling loop of `execute()`, which reads `started()` and `done()` apart. `Tick`
lets time pass up to the last threshold that matters. `ReportRaises` is an
append that raises in the job's thread, `DivergenceRaises` one that raises in the
polling loop and leaves `execute()`; `PayloadRefused` is a payload that
`json.dumps` or the pipe refuses after the child has been spawned.

`JobPool` is what the caller is promised: waiting, running within the limit,
settled once, or withdrawn without running. A lost job (its thread died) never
settles; the code gives no such handle a result.

### CheckpointStore

Processes share a directory `dir` and nothing else. A save is `Exists`, then
`Compare` or `MakeTemp`, `Write`, `Replace`, `Saved`; a load is `Read`; `LoadLatest` is
`List` then `Read`. `WriteFails` and `ReadFails` are `OSError`s, with or without
the temporary file left over; `Crash` drops the call and leaves the temporary
file, also between `os.replace` and the return of the save. `Saves` says which process
may save which version, and `Readers` which processes load. Plans and sprints take
the same steps under other paths and another conflict class, so the module uses
the names of checkpoints.

`WriteOnceStore` says what "Immutability semantics" in the module's docstring
promises: an operation takes effect at one instant, a save (`Write`) before it is
answered (`Confirm`), so that its caller may die in between. The mapping is the identity on the
record files, requests and answers; temporary files are nothing.

### WorkerTurn and MCPClient

`WorkerTurn` is one caller and its client: turns of `Worker.run` and steps of
`MCPExecutor`, one after the other. `setting` says who calls (`mrw run`, a
dispatch, or a program that uses the library and survives exceptions), whether a
client is attached, whether an auditor is configured, the profile, and the
requests it may make.

| variable | code |
|---|---|
| `pc` | where the turn is: `policy`, `attach`, `handshake`, `list`, `listing`, `context`, `infer`, `audit`, `call`, `calling`, `close` |
| `turn` | the locals of `Worker.run`: messages, executed tools, rounds, retries left, blocks, `mcp_started_here` (`started`), the calls of the current round (`todo`), the answer and its verification; `inferences` and `audits` are history |
| `process`, `alive`, `ready` | the client's `process`, whether it still runs, whether `start()` returned |
| `stdin`, `stdout`, `held` | requests not handled, lines not read, a line a reader holds across `stop()` |
| `responses`, `nextId`, `pending` | `_responses`, `_next_id`, the request `send_request` waits for |
| `grounded`, `crashes` | the server's `_grounded`; how often it died |

| actions | code |
|---|---|
| `BeginTurn`, `AnswerDirectly`, `RefuseMutation`, `PassPolicy` | `Worker.run` up to the tools: classification, fast path, policy |
| `StartServer`, `CannotSpawn`, `JoinServer`, `HandshakeDone`, `HandshakeBreaks`, `HandshakeFails` | `mcp_client.start()` and `mcp_started_here` |
| `AskTools`, `ToolsListed`, `ListFails`, `RefuseBlindRead`, `ProviderUnreachable`, `BuildContext` | catalog, tool selection, gates, first messages |
| `ProviderFails`, `AcceptAnswer`, `RetryAnswer`, `DoubtAnswer`, `AuditFails`, `AuditPasses`, `RefuseCalls`, `TakeCalls` | the turn loop and `escalate_or_fail` |
| `BlockCall`, `SendCall`, `ToolAnswers`, `ToolFails`, `EndRound` | one round of tool calls |
| `BeginStep` | `MCPExecutor.execute`: its single call goes through the same client |
| `Close` | the `finally` clause, and the one of `mrw run` |
| `Spawn`, `Send`, `SendBreaks`, `Receive`, `ReceiveFails`, `Stop` | the caller's half of `mcp/client.py`, used by the actions above |
| `Serve`, `ReadLine`, `ReaderQuits`, `StoreHeld`, `ReadBeside`, `Crash` | the server and the reader threads; a reader that outlives `stop()` stores the line it holds, or goes on with the lines of the next process |

An action ends where the caller reads or writes what the reader thread or the
server also touches. The model behind a provider is outside: it answers anything
in `Answers`, asks for any list in `CallLists`, or raises. An answer is the set of
traits the verifier's patterns find in it, the paths it names and the number it
states; a request is the set of signals its words carry. A tool result states a number
if it holds just one (`ResultNumber`), which a range with its offsets never does. `RequestPolicy` and
`AnswerChecks` keep every order of precedence of the code; the regular expressions
and word lists behind the signals stay out.

`ToolRouter.Selected` says which tools of a profile `select` offers by their places:
those that fewer than `max_selected_tools` candidates outrank. `ContextWindow.Trimmed`
walks the list as `_trim_tool_history` does, and leaves out the groups of the tool
turns that have enough later ones; it is a recursive function, so that a theorem can
speak of it.

### CapabilityRouter

A query is a mission (the words of it that the requirement rules look for), a
document, a profile, an economy and a registry. `Derive` makes the requirements,
then each requirement is one action: `NoCandidate`, `NoneAvailable` or `Select`;
`Raise` is a registry or a document that cannot be loaded, or a matched rule whose
kinds or levels no requirement can be made of (`Refused`); `FailClosed` and
`Conclude` are the end of `route()`. A profile's `kinds` is a set of at most one set: none
when `allowed_resource_kinds` is `None`, and an empty list forbids every kind. The gates
of `_resolve_candidates` are one operator each and joined as the code joins them, in one `elif` chain; the ranking key is a
tuple, compared as Python compares it.

### RemediationLoop

Nothing in the repository calls AIR's functions in a loop yet. The driver is
modelled from their contracts: `Prepare` routes the sprint and compiles its
context, `Execute` leaves any checkpoint of `Products` in the store, `Judge`
validates, classifies, decides and obeys; `Unroutable` and `Uncompilable` are the
refusals. The two sprints' drivers interleave, and specialists come and go
between attempts. `Unresolved` are the dependencies `compile_context_from_store` stops
at: not in the plan, which ends the sprint, or without a checkpoint, which is waited for.
The five functions are translated whole, check by check and
signal by signal, in modules of their own.

| variable | code |
|---|---|
| `latest[s]` | what `load_latest_checkpoint` returns |
| `context[s]` | the `CompiledSprintContext`, or `NoContext` between attempts |
| `primary[s]`, `same[s]` | the caller's side of `AttemptState`: the last failure class and its count |
| `target[s]` | `target_execution_profile_ref` of the last escalation |
| `basis[s]` | history: the dependency checkpoints an acceptance read |

## Runs, bounds, fairness

| run | question | bounds | expected |
|---|---|---|---|
| `dispatch` | who may drive a run, what its stream may say, whether it comes to rest | 2 runs, 2 callers, 4 tokens, `MaxEscalations` = 2, four routes | pass |
| `event_log` | what a reader is given while others write | 2 writers, 1 reader of one of two sessions, 4 events, 2 of them long, 1 append cut short | pass |
| `grid_pool` | limit, cancellation, usage event, futures | 3 jobs, 2 slots, 1 canceller | pass |
| `grid_watch` | one warning, and everything ends | 2 jobs, 1 slot, thresholds 1, 2, 3, one payload refused | pass |
| `grid_orphan` | the limit with a payload that is refused | 2 jobs, 1 slot | violation |
| `store_disjoint` | write-once registers | 2 writers of 2 versions, one of which also loads, 1 reader, 2 contents, 2 temporary names | pass |
| `store_race` | NO SILENT OVERWRITE | 2 writers of 1 version | violation |
| `air_loop` | what is retried, given to a model, accepted | 2 sprints, the second on the first's checkpoint; 4 missions, 6 specialists, 7 products, `max_same_retry` 0 to 2 | pass |
| `router` | what a plan covers, and with whose permission | 7 resources, each available or not; 7 missions, 6 profiles | pass |
| `router_gates` | VALIDATED_REQUIRED | the same | violation |
| `worker_turn` | who owns the server, whose answer a call gets, what a completed turn may say, that it ends | up to 3 turns and steps of one caller, 1 crash, `MaxRetries` = 1, 1 or 2 rounds, a window of 1 tool turn; 4 settings, 7 requests, 6 answers | pass |
| `worker_formats` | can a demand for JSON be met | the same | violation |

Why the bounds are enough:

* *Dispatcher.* The hazards are between two callers of one run: two callers are
  needed and a third only repeats one of them. The second run shows that runs do
  not mix. `MaxEscalations` = 2 lets a run pause, resume, pause again, and be
  refused; a run needs two tokens for that. The routes reach every branch: a
  blocked route, a three-step LLM plan (pauses), a child whose output names the
  next tool, and a step no executor takes. The theorems hold for all of these
  constants.
* *EventLog.* Readers write nothing, so one of them meets all that several would. Two
  long and two short lines of two writers give every way in which pieces can lie
  between, before and after each other, and leave a good line on either side of a
  bad one. Where a reader begins is chosen at each read.
* *GridJobs.* Three jobs for two slots is the smallest node with both
  concurrency and a queue. `Timeout` is the last of the thresholds, and the clock
  stops there: later instants look the same to the code.
* *CheckpointStore.* Two names are two leftover files, or one and a save in
  progress. With both left over a save can only fail; `mkstemp` would find another
  name. Two contents tell same from different. Contents and temporary names are
  symmetric; so are writers of a log, jobs and cancellers where a run declares it.
  Symmetry is never used with liveness: `dispatch` instead issues its tokens in one
  order (`TokensInOrder`), since it does not matter which of them `uuid4` makes.
* *RemediationLoop.* Two sprints are the smallest plan with a dependency, and the
  drivers of both may be anywhere when either reads the other's checkpoint.
  `max_same_retry` of 0, 1 and 2 separates the ladders' rungs. The products are a
  full result, a hollow and a rejected PASS, no outcome at all, and one failure of
  each kind of ladder; the missions reach a budget that cuts, a core that does not
  fit, a criterion nobody can read, an authorized and a missing escalation target, a
  dependency the plan does not name. One specialist has the profile of an authorized
  target and is of a forbidden kind.
* *CapabilityRouter.* The gates look at one resource at a time: seven resources
  give each gate one that only it refuses, and each pair of locations and costs a
  tie to break. Availability is enumerated in full.
* *WorkerTurn.* Two turns are needed for a late answer to meet another call, three
  for a step between them. One retry, one or two rounds and a window of one tool
  turn reach every early exit, a trimmed turn and every limit. A second crash needs
  another start and meets the same states again. The theorems hold for all of
  these constants. The requests, answers and call lists are the smallest sets that
  fire each check of the verifier, each gate and each branch of the policy.

A run ends with `CHECK_DEADLOCK FALSE` where the system really comes to rest:
all runs closed, all jobs over, all sprints final, a route made. `WorkerTurn` has a
step of its own (`Finished`) for a caller with nothing left to do, so deadlock is
checked there.

Fairness. `Dispatcher.FairSpec` asks that a called process keeps going
(`WF` of `Proceed`): `_execute_loop` is sequential code that waits only for its
executor, and an executor has a timeout or ends by itself, except one: the polling
loop of a remote step, which may watch a dead thread for ever. That is a place of its
own (`polling`), at which nothing is asked of the caller, and `RunSettles` names it:
a run closes, is given up, waits under a token somebody holds, or its caller polls at a
PROCESS step. Fairness does not ask that anybody dispatches, resumes or crashes. `GridJobs.FairSpec` asks that job threads and the polling loop are
scheduled and that time passes; a free permit is handed out by the semaphore.
Nobody has to submit or cancel, no child has to end by itself: the timeout ends
it. `WorkerTurn.Spec` asks for `WF` of `CallerStep`: the caller's thread runs, its
timeouts expire (30 s for a request, 120 s for a tool), and a provider answers or
raises, since its HTTP client has a timeout. Nothing is asked of the server, the
reader threads, or the caller between turns: `UseEnds` holds with a server that
never answers. `RemediationLoop` and `CapabilityRouter` state no liveness: AIR has
no driver whose scheduling could be cited, and `route()` is a finite loop.

What the properties say, beyond the types:

* Dispatcher: `SingleOwner`, `NoStrandedRun`, `EscalationsBounded`,
  `StepCountHonest`, `RunSettles`, `StreamsAreLives`;
* EventLog: `StreamsAreLogs`;
* GridJobs: `NodeNotOverrun`, `CancelledInQueueNeverRuns`, `UsageMeasuredOnce`,
  `WarnsOnce`, `JobsSettle`, `HandlesAreFutures`;
* CheckpointStore: `NeverPartiallyVisible`, `LatestNotStale`, `ReadersAgree`,
  `ImplementsWriteOnce`;
* RemediationLoop: `LaddersEnd` (a repeated failure is answered by a stop, except
  in the classes of `Endless`), `ContextHonest`, `EscalationKept` (who works on a
  sprint passes every gate of its requirements, listed in `MayTake` as what must be
  true of such a specialist, and an escalation is never taken back), `AcceptanceProven`,
  `BlockedSprintStops`;
* CapabilityRouter: `RequiredCovered`, `OptInOnly`, `DegradedHonest`;
* WorkerTurn: `AnswersOwnCall`, `ServerOwned`, `WorkBounded`, `ContextCoherent`,
  `CompletedHonestly`, `OnlyReadTools`, `GatedRequests`, `ReadsFollowDiscovery`,
  `UseEnds`.

Each is stated in words above its definition.

## Proofs

Every invariant, action property and refinement a passing run checks is also a
theorem; liveness is not. Each run shows on one small instance
what the theorem says of all of them, and was there first: the inductive invariants
were checked by TLC before they were proved.

`DispatcherProofs` proves, for every set of callers, runs, tokens and routes and
every `MaxEscalations`:

| theorem | statement |
|---|---|
| `Invariant` | `Spec => []IInv` |
| `TypeCorrect` | `Spec => []TypeOK` |
| `OneOwner` | `Spec => []SingleOwner` |
| `PausesBounded` | `Spec => []EscalationsBounded` |
| `NoRunStranded` | `Spec => []NoStrandedRun` |
| `StreamsImplementLives` | `Spec => StreamsAreLives` |
| `CountsAreHonest` | `Spec => []StepCountHonest` |

They rest on the named assumptions of `Dispatcher`: `MaxEscalations` is a natural
number, `Routes` is a set of routes, and `None` is neither a token nor a task.

None of these properties is inductive. That two callers never drive one run needs
to know that nobody else is between load and unlink of an envelope that is still
there, which needs to know where the run's stream stands whenever it has an owner
or an envelope. `IInv` in `DispatcherInv` says so in named parts: where the stream
stands for each value of `pc` (`OwnersInStep`), that a run without events has
neither owner nor envelope, what an envelope implies about its run, that tokens
are used once, and that the pauses seen so far are numbered below the counter in
the owner's locals or the envelope. The
proof has a step per action, and under it one per part of the invariant that the
action can disturb; the parts it leaves alone go through a lemma on unchanged
variables. The refinement then takes one step per action again: each either
leaves the last event of its run's stream alone, or appends one that `RunLifecycle`
allows in the state `IInv` gives.

`RunCompleted` takes its `step_count` from the results in a caller's locals or in an
envelope, while the property counts events of the stream. A first part of the proof
shows that every event that is appended may follow the life its stream shows
(`Follows`, one lemma per kind of event, from `IInv`), and then that along such a
stream the life of the run says how many steps have begun, and which of them have
been completed exactly once (`CountInv`): this no longer mentions callers.

`EventLogProofs` proves, for every set of writers, readers and events, every choice
of the long ones, every filter and every number of torn appends:

| theorem | statement |
|---|---|
| `Invariant` | `Spec => []IInv` |
| `StreamsImplementLogs` | `Spec => StreamsAreLogs` |

It needs no assumption. `IInv` says that each reader stands at the end of a line with
readable lines before it (`Behind`), and that an event whose second write is due has
been written once, by one writer (`Begun`): without the second part an event could
come into the log twice. The first half of the module is about lines as such. The
lines of two sequences of pieces, the first of which ends a line, are those of the one
and then those of the other (`LinesOfConcat`); hence what a reader finds from its
offset on is what the log has behind its position (`ReadsBehind`), and a write that
ends a line adds one (`NewlineFinishes`). Such a line holds one event, which is not in
the log yet, or it breaks the log, or the log is broken already (`LogGrows`). A line
ends at a number that `Lines` chooses by its rank; `SortsAfter` of `OrderTheorems`
says what becomes of the ranks when two sets of places are joined.

`WorkerTurnProofs` proves, for every set of settings, requests, answers and tool
calls, every profile and catalog, every file system, and every `MaxRetries`,
`max_tool_rounds`, `MaxToolTurns` and `MaxCrashes`:

| theorem | statement |
|---|---|
| `Invariant` | `Spec => []IInv` (of `WorkerTurnInv`) |
| `TypeCorrect` | `Spec => []TypeOK` |
| `AnswersReachTheirCall` | `Spec => []AnswersOwnCall` |
| `ServerStoppedByOwner` | `Spec => []ServerOwned` |
| `WorkIsBounded` | `Spec => []WorkBounded` |
| `Promises` | `Spec => []Promised` (of `WorkerTurnInv`) |
| `RequestsAreGated` | `Spec => []GatedRequests` |
| `CompletionIsHonest` | `Spec => []CompletedHonestly` |
| `ToolsOnlyRead` | `Spec => []OnlyReadTools` |
| `ReadsAfterDiscovery` | `Spec => []ReadsFollowDiscovery` |
| `ContextStaysCoherent` | `Spec => []ContextCoherent` |

Assumptions: limits are natural numbers, a call list is a sequence of calls, the
children of a directory are paths, and `NoRequest` is no request. That answers
reach their calls rests on ids: everything that carries one, in the pipes, in the
table, or in the hands of a reader of a server stopped long ago, has an id below
the counter, and whatever carries the id that is waited for is about the same tool
and path (`IdsUnique`). This needs the counter to survive `stop()` and `start()`,
which it does because it is a field of the client and not of the process. Ownership
needs to know that a handshake is only waited for by a turn that has not yet noted
that it started the server (`Ownership`); the bound on inferences is an equation
while the turn runs, one inference per retry spent and per round taken
(`WorkCounted`). The proof first shows what each operation of the client keeps, and
then has one lemma per action of the turn.

What a turn promises about its answer and its tools is a second invariant,
`Promised`, inductive given the first. Its parts say what is true at each place of a
turn:

* `Gated`: a worker past the policy was admitted by it, and one that asks a model
  does not read blindly. `GatedRequests` then follows from the orders of precedence
  of `RequestClass`, `EffectIntent` and the policy alone.
* `Honest`: a block leaves a failed call in the record, and a turn that took no round
  has no record. With this, the verifier's PASS means what `CompletedHonestly` says.
* `ReadOnlyCalls`: the tools offered are names of the profile's list, and a call that
  is waited for has passed the gate of `_policy_block_reason`.
* `DiscoveredFirst`: a server of the turn's own knows no path but those the turn's
  calls, the waited-for one included, let it discover; and an answer to a read that
  is waited for, wherever it is on its way, names a path an earlier call found. This
  needs the server to be new when its handshake begins, and one request at a time.
* `WindowKept`: the message list, place by place, is made of whole groups. Trimming
  keeps that: the results of a call stay exactly if the call does
  (`GroupsStayWhole`), what stays keeps its order without gaps (`ListedRun`), and the
  first tool turn that stays has fewer than `MaxToolTurns` later ones
  (`WindowHolds`), so no more than `MaxToolTurns` stay.

One lemma per kind of action (`PreludeMoves`, `InfersMoves`, `AuditsMoves`,
`RecordsMoves`, `PassesMoves`, `BeginMoves`) digest the actions once for all parts.

`GridJobsProofs` proves, for every set of jobs and of cancellers, every limit and
every threshold, and however many jobs raise or are refused:

| theorem | statement |
|---|---|
| `Invariant` | `Spec => []IInv` (of `GridJobsInv`) |
| `TypeCorrect` | `Spec => []TypeOK` |
| `NodeKeptWithinLimit` | `Unsendable = {}` implies `Spec => []NodeNotOverrun` |
| `CancelledStaysOut` | `Spec => []CancelledInQueueNeverRuns` |
| `UsageCountedOnce` | `Spec => []UsageMeasuredOnce` |
| `OneWarning` | `Spec => []WarnsOnce` |
| `HandlesImplementFutures` | `Spec => HandlesAreFutures` |

The limit is an invariant of the semaphore: free permits and threads inside the
`with` block add up to `max_concurrent` (`PermitsCounted`), and a process alive
belongs to such a thread (`ChildOwned`). Without `Unsendable = {}` the second part
is false, which is what `grid_orphan` shows. The set of jobs may be infinite: that
the threads inside the block are finitely many is part of the invariant. What the
stream of a job shows is tied to where its thread and its watcher are
(`StreamInStep`), and the flags to the thread (`FlagsInStep`), so `cancel()` in
another thread can only change what the thread has yet to look at.

`CheckpointStoreProofs` proves, for every set of readers, writers, versions,
contents and temporary names:

| theorem | statement |
|---|---|
| `Invariant` | `Spec => []IInv` (of `CheckpointStoreInv`) |
| `TypeCorrect` | `Spec => []TypeOK` |
| `RecordsAreWhole` | `Spec => []NeverPartiallyVisible` |
| `LatestIsCurrent` | `Spec => []LatestNotStale` |

also when two processes save one version at once; and it proves `LoadsAgree` (`Spec => []ReadersAgree`) and `FilesAreWriteOnce`
(`Spec => ImplementsWriteOnce`) for stores where each version has one writer
(`WritersApart`), which `store_race` shows to be needed.

Assumptions: `None`, `Absent` and `Torn` are values of their own, versions are
positive numbers, and temporary names are no names of records. A record is whole
because a temporary file belongs to the one process between its `mkstemp` and its
`os.replace`, and has the whole text when the latter begins (`WholeBeforeNamed`). A
record never goes away (`FoundStays`), so a listing made after a save returned
holds that version or a newer one; that a listing has a greatest version at all
is invariant, since records come one at a time (`LatestExist`). With one writer
per version, a writer that found nothing still finds nothing when it replaces
(`StillAbsent`), so its `os.replace` is the save of the write-once register.

`RemediationLoopProofs` proves, for every set of missions, specialists, snapshots
and products, every sizing of texts, and every `max_same_retry`:

| theorem | statement |
|---|---|
| `Invariant` | `Spec => []IInv` |
| `TypeCorrect` | `Spec => []TypeOK` |
| `LaddersAlwaysEnd` | `Spec => []LaddersEnd` |
| `ContextAlwaysHonest` | `Spec => []ContextHonest` |
| `EscalationAlwaysKept` | `Spec => EscalationKept` |
| `AcceptanceAlwaysProven` | `Spec => []AcceptanceProven` |
| `BlockedSprintsStop` | `Spec => BlockedSprintStops` |

Here the types, `LaddersEnd`, `ContextHonest`, `WorkersMayTake` (what
`EscalationKept` asks of every state) and `AcceptanceProven` are together inductive, and the work is in what
the pure functions do. A repetition of a failure meets the ladder of its class
(`RemediationPolicy`), by the order in which `FailureClassifier` looks at its
signals. The winner of a ranking exists, passes every gate (`MayTake`), and has the
authorized profile when there is one: the keys are tuples, the candidates finitely many, so one key is
first (`FirstExists`). That the compiled context stays within the
budget, takes no inherited text in place of an own one that was left out and costs no
more, and says that it is truncated when one was left out, is shown for the offers one
by one, by induction on how many have been looked at. An acceptance has read every criterion and
found each dependency's checkpoint saying PASS; that this says no more than what the
checkpoint claims is in the statement.

Assumptions: texts are numbers that have a number of tokens; a registry is finite and
its entries are well-formed; lists of texts in products are finite; plans, sprints,
policies and checkpoints pass the constructors' own checks (`ValidPlan`,
`ValidSprint`, `ValidCheckpoint`); `None` is neither a specialist nor a checkpoint;
the notice of a truncation is a text.

`CapabilityRouterProofs` proves, for every set of queries, that is every mission,
document, profile, economy and registry:

| theorem | statement |
|---|---|
| `Invariant` | `Spec => []IInv` |
| `TypeCorrect` | `Spec => []TypeOK` |
| `RequiredAlwaysCovered` | `Spec => []RequiredCovered` |
| `OptInAlways` | `Spec => []OptInOnly` |
| `DegradedAlwaysHonest` | `Spec => []DegradedHonest` |

`IInv` adds to the types that what is left to handle is a suffix of the requirements
(`Suffix`), that each handled one is in the plan, was optional, or has made the route
fail (`Covered`), that every step was admitted by the gates for a requirement it
serves (`Admitted`), and how far the status may have come (`Progress`). That a NORMAL
route takes nothing weaker than the best it knew follows because strength is the
first place of the ranking key: a candidate that is first has evidence as good as
any. Assumptions (`QueriesAssumption`): a registry is finite, and an id names one
resource. The code looks resources up by id and takes the second for granted; it
does not check it.

`OrderTheorems` holds what these share. Its `FirstExists` and `SortedLists` (the list
`sorted` makes of a finite set of numbers is ascending and has each of them once) are
results of their own. Induction over data is possible where the statement fits a
*set* of counterexamples: such a set of numbers has a least member (`LeastNatural`,
`InductionOnNat`), such a family of finite sets a smallest (`MinimalSubset`). The
induction theorems of the library that take a predicate cannot be used here.

Only model-checked: liveness (`RunSettles`, `JobsSettle`, `UseEnds`), since fairness
and ENABLED are outside the proof system's reach.

## Where code and documentation disagree

Shown by a run:

1. `remote_ssh.py:303`: "At most `self.max_concurrent` jobs actually run (ssh
   spawned)". A payload that cannot be serialized or encoded is noticed after
   `Popen`, and the process stays alive when its slot is given back
   (`grid_orphan`).
2. `bounded_execution_store.py:27`: "NO SILENT OVERWRITE". Two processes that save
   one version at once are both told that it is saved, and the second replaces the
   first (`store_race`). With one writer per version at a time the promise holds
   (`store_disjoint`).
3. `router.py:33`: VALIDATED_REQUIRED "fails closed". The gates are one `elif`
   chain, and a resource with a location, or a profile with hardware constraints,
   leaves it before validation and executor are looked at (`router_gates`). The
   registry entry `src/MEIZEX_GRID/grid_registry_entry_dell-b.json` states a
   location.
4. `format_constraint.py:12`: a request's format instruction is "mechanically
   honored". An answer that is exactly the JSON a request demands is a raw tool
   block to `verifier.py:259`, so such an answer completes no turn; only an audited one,
   which nobody checks for its format, can (`worker_formats`). A demand for a bare
   number meets the same check, since `json.loads` takes `42`, though not `2,5` or
   `007`; the model knows a number apart from JSON and shows the demand for JSON only.

Met while modelling, and modelled as the code is; no run is about them:

* `events/store.py:8`: an offset from a previous read, or 0, "is always safe to pass
  back in". After an append was cut short the next one is joined to the half line,
  and every read that reaches it raises, for good: `append` never looks how the file
  ends, and `resume` appends to the same file (`Break` in `RunLog`).
* `remote_ssh.py:118`: `cancel()` "Returns True if a kill signal was actually
  sent". Between the end of ssh and `_finish` it returns True and sends nothing.
* `remote_ssh.py:240`: a `StepDivergence` is appended "WHILE the step is still
  running". A job that starts and finishes between `started()` and `done()` gives
  one that says `finished`.
* `acceptance_validator.py:19`: the executor's self-assessment is "never trusted";
  for a dependency it is, at `acceptance_validator.py:369`.
* `remediation_policy.py:184`: "never authorize unbounded retry". TASK_DRIFT,
  EVIDENCE_STARVATION and CAPABILITY_FAILURE with an authorized target get the same
  answer however often they repeat, and classes that alternate reset the count
  (`Endless` in `RemediationLoop`). With `max_same_retry` 0 an INVALID_OUTPUT is
  still retried once.
* `specialist_router.py:575`: HUMAN_REQUIRED names the first human of the registry,
  though `specialist_router.py:368` may have found that human ineligible;
  `required_tools` (`specialist_router.py:210`) is never checked.
* `bounded_execution.py:303`: cycles are looked for in the plan's dependencies, not
  in the sprints' own.
* `executor_compat.py`: "an unexecutable resource can never become an operational
  ExecutionStep"; the way around the executor gate is that of 3. `local_required`
  is never consulted, and a preferred requirement without an available candidate is
  dropped without DEGRADED.
* `worker/result.py:4`: "completed only when the synthesis verifier returned PASS".
  A deterministic answer is not verified, and an audited one is not checked for
  format, conflict or the tools offered.
* `request_policy/policy.py:6`: some classes forbid "a direct model answer
  outright". CURRENT_STATE, a FILESYSTEM request of unknown intent, and a
  computation the fast path cannot do go to a model.
* `engine.py:817` tells the model that nothing was executed after a tool call
  failed; after a timeout it may have been.
* `executors/mcp.py`: "single-tool read-only execution". The executor does not look
  at the tags of the tool.
* `mcp_filesystem_readonly.py:13`: a negative `max_chars` passes the cap at lines
  181 and 199; `stat` makes a path readable before it looks for it.
* `remote_ssh.py:267`: `execute()` waits for a handle that nobody will finish, without
  a limit, when the append of the usage event (`process.py:113`) or the payload
  (`process_boundary.py:160`) has raised in the job's thread; `dispatch()` then hangs
  after `StepStarted`.
* `client.py:68`: when `start()` fails, the process it spawned stays with the
  client; its exceptions leave `Worker.run` without a `TurnFailed` event.

## What is not modelled, and what is assumed

* A run id is dispatched once (`cli.py` and `uuid4` see to it, the dispatcher does
  not), callers resume only tokens they were told, tokens never repeat.
* `InMemoryRouteStore`, and the events executors append themselves, are not in
  `Dispatcher`; neither is `attach_event_store` on executors that two runs share.
* In `Dispatcher` and `GridJobs` an append is one step: a line is written whole or the
  call raises before it. `EventLog` says what an append does that is cut short.
* A killed ssh process is gone within the ten seconds `run_payload` waits for. What
  the remote end does after that is outside the code, as the class comment says.
* `os.replace` is atomic and durable. A power failure that loses a directory entry
  after it is not modelled.
* A client has one caller at a time, as the worker and the dispatcher use it; two
  threads that share one are not modelled. A timeout may expire at any moment,
  also with the answer in the table: the model has no clock, so it allows more than
  the code does.
* A reader thread that outlives `stop()` is modelled while it holds a line. One that
  waits in `readline` of the old pipe holds none and finds it closed.
* The contents of records, messages and events are abstracted to what the
  properties tell apart; integrity hashes and schema checks are left out, since
  only hand-edited files fail them. Regular expressions and word lists are signals
  and traits; paths stand for what they resolve to; sizes, pagination and
  truncation of texts are left out.
* The events and metrics of a turn, the model lock, `provider_disagreement.py`
  (which no turn calls), `workload_partitioning.py` and `task_manager.py` of AIR,
  and the life cycle of execution profiles are not modelled.
* Not modelled at all: the components with that status in `PROJECT.json`. Probes,
  providers, printing and the evaluators of the fast paths are I/O and data.

## Plan

What is left, in order:

1. `WorkloadPartitioning`: the parts a REPARTITION makes, then back into
   `RemediationLoop` in place of its final state.
2. `InMemoryRouteStore` with the aliasing of result objects.
3. Proofs about both, when they are there.
