# LfSrcHarness in TLA+

A model of the control logic of LfSrcHarness: the persistent task queue and its
worker, the settings page, policy engine and computer control of the desktop
server, the scan-and-report workflow, the concurrency limiter, the event ledger
and the subprocess runner with its circuit breaker. The modules are checked with
TLC on small instances. Every safety property that a passing run checks is also
proved with TLAPS, for all values of the constants; liveness is checked only.

Paths below are relative to `src/src/lfsrc_harness/` unless they say otherwise.

## 1. The system

LfSrcHarness runs security-assessment plugins against authorized targets, from
a desktop application (FastAPI server and one worker thread in one process),
from a command line, or from Celery workers.

| Component | Code | State it keeps | Operations |
|---|---|---|---|
| task repository | `orchestration.py` 75-220 | the SQLite table `tasks`: status, attempts, plugin, checkpoint | `create`, `get`, `list`, `update`, `claim_next` |
| orchestrator | `orchestration.py` 308-429 | one local record per call; the row; the run's ledger | `run_until_terminal` |
| recovery planner, budget tracker | `orchestration.py` | a table of alternatives; counters of one attempt | `next_plugin`; `consume`, `start_step` |
| concurrency limiter | `orchestration.py` 268-294 | three kinds of counters under a lock | `acquire` (a context manager), `can_acquire` |
| local worker | `desktop.py` 34-64 | one thread | poll, run, handle what it raises |
| desktop runtime | `desktop.py`, `server.py` | the objects that API and worker share | start, stop, `save_scope` |
| HTTP API | `api.py` | nothing of its own | create, stop, emergency stop and resume, approvals, scope, event stream |
| command line | `cli.py` | nothing; a process of its own | `run`, `stop`, `batch`, `report`, ... |
| policy engine | `policy.py` 158-223 | the scope, in memory | `evaluate`: active, in scope, stopped, prohibited, approved |
| emergency-stop registry | `policy.py` 116-155 | stopped runs and targets, the global flag, in memory | `stop`, `resume`, `blocking_reason` |
| approval store | `policy.py` 75-113 | approval records, in memory | `get_or_create`, `approve`, `reject` |
| event ledger | `events.py` 52-123 | `events.jsonl`; number and hash cached in each object | `append`, `replay` |
| workflow engine | `workflow.py` | `workflow-state.json`; ledger; evidence; report | `run` |
| evidence store | `evidence.py` | a `.bin` and a `.json` file for each content | `add_bytes`, `add_file` |
| scope | `scope.py` | none | `assert_active`, `assert_target` |
| subprocess runner, circuit breaker, workspaces | `runner.py` | failures and time of opening per breaker | `run`, `allow`, `record_*` |
| computer control | `computer.py` | ledger objects by run id, on one audit file | `execute` |
| desktop settings | `desktop_settings.py` | `settings.json`, the key ring | `save_provider`, `delete_provider` |
| distributed worker | `scheduler.py`, `worker.py` | Celery's queue | `dispatch`, redelivery, retry |
| reporting, scoring, providers, gRPC, observability, web UI, deployment | | none that matters here | |

How they meet:

- *Shared rows.* Worker, API threads and CLI processes each have a connection
  to one SQLite file. `TaskRepository`'s lock covers one connection, so nothing
  keeps the read and the write of an `update()` together against another client.
- *Shared memory.* API threads change the scope, the stop registry and the
  approvals while the worker is inside `PolicyEngine.evaluate()`.
- *Shared files.* A run's ledger is appended to by the run, by the worker's
  exception handler, and read by the API stream while it grows.
- *What survives a kill*: rows, ledgers, workflow state, evidence, report. *What
  does not*: the stop registry, approvals, cached ledger numbers, every call.

What is hard, and what makes each component correct:

| Where | Hard behaviour | Correct means |
|---|---|---|
| queue, worker, stops | interleaved read-modify-write, kills, failed ledger writes, recovery chains, scope changes in mid-evaluation | attempts and plugin calls are bounded; rows and ledgers agree; a stop costs at most one more plugin call; an ended run stays ended; the queue is served |
| limiter | three counters to raise together, threads in any order, bodies that raise | no limit is exceeded, no slot leaks, nobody is refused without cause |
| ledger | threads in `append()`, writes that are cut off, several objects in turn, edits from outside, readers | what was acknowledged stays; what replays was written |
| workflow | repeated stages after kills and failed writes, calls while an approval is open, another scope or other plugins after a restart | progress is never lost or reopened, audit lines exist for what the state says, validation only with approval, reports refer to evidence |
| runner | calls that began before the breaker opened and report after it, retries while it is open | flag and count stay in step; every call ends in time; the breaker lets calls in again |
| settings page | requests in threads without a lock, errors and kills between the accesses to a file, the key ring and memory, a temporary file of one fixed name | changes that do not overlap are neither lost nor half done; file, policy and API have one scope; no key outlives its provider unnoticed |
| computer control | questions asked one after the other while stops, scopes and approvals change, several ledger objects on one audit file, failed writes and kills around the action | no action against a refusal that was in force all along; every action is in the audit file; the file replays |

The hazards are listed one by one, with their lines, in `PROJECT.json`.

## 2. Modules

```
TaskRepository  <-  Orchestrator  <-  DesktopTasks  <-  MCDesktopTasks
                                                    <-  DesktopTasksProofs
                                                        <-  DesktopTasksAuditProofs
PolicyEngine  <-  DesktopSettings, ComputerControl  <-  DesktopServer  <-  MCDesktopServer
                  (ReplacedFile twice)                               <-  DesktopServerProofs
                                                                         <-  DesktopServerAuditProofs
Admission  <- (refinement)  ConcurrencyLimiter  <-  MCConcurrencyLimiter
                                                <-  ConcurrencyLimiterProofs
EventLedger  <-  MCEventLedger
             <-  EventLedgerProofs
Workflow     <-  MCWorkflow
             <-  WorkflowProofs
Runner       <-  MCRunner
             <-  RunnerProofs
```

### TaskRepository, Orchestrator, DesktopTasks: the queue

`TaskRepository` is the table. `update()` is three steps of a client
(`UpdateRead`, `UpdateWrite`, `UpdateGet`), as in the code: it reads the row,
merges the arguments into it, writes all columns without a condition, and reads
again. `claim_next()` is a SELECT (`FirstQueued`) and an UPDATE (`ClaimWrite`)
that does not look at the status again. A row's `born` is its place in
`created_at`.

`Orchestrator` is `run_until_terminal` with a program counter for each
executor. One action is one access to something another thread or process can
see.

| Code | Action |
|---|---|
| `get` and the `EventLedger` constructor | `OpenRun` |
| RUN_START, if no attempt was made yet | `LogRunStart` |
| the `while` test; `update(status=RUNNING)` | `TestLoop` |
| `evaluate()`: scope, then registry, then prohibited actions | `CheckScope`, `CheckStops`, `CheckAction`, with `Deny` for a refusal |
| TOOL_CALL, plugin, TOOL_RESULT | `LogToolCall`, `RunPlugin`, `LogToolResult` |
| success / next plugin / failure | `AfterAttempt`, `NextPlugin` |
| `update()` returns | `UpdateReturns` |
| RUN_END | `LogRunEnd` |

`DesktopTasks` composes it with the worker's loop (`ClaimSelect`,
`ClaimUpdate`), its exception handler (`Handle` to `HandlerLog`, which itself
may raise and end the thread), the API and CLI requests, and the kill of the
process (`Crash`), which may cut off the ledger line in progress. CLI processes
survive the kill of the server. `overrun`, `aim` and `crashes` are history.

A write that fails or is killed leaves nothing, the whole line, a part of it
(`Torn`), or all of it but its line end (`CutLine`; `ended` is FALSE in that
line). The last is accepted when the file is opened again, so the handler does
not raise: its RUN_END runs on in the line before. `Replayable` therefore asks
for the end of every line but the last one.

Abstracted here:

- The time window and the targets are two reads of the scope in `evaluate()`.
  `CheckScope` takes them as one, here and in `ComputerControl`: a scope outside
  its window is one without targets. No property tells the two apart.
- texts and times. A denial stops or fails the task depending on whether its
  reason has the word "stop" in it (`orchestration.py` 355-364), and reasons
  quote names: `SaysStop` is the set of names with that word in them.
- The checkpoint is its list of tried plugins; no code reads the rest.
- The pending-approval branch (348-353) is left out: these tasks are at tier
  SCAN and ask for no privilege, so `evaluate()` never asks for approval.
- A budget that is exceeded makes the attempt a failure, which `RunPlugin`
  chooses anyway.
- The limiter always admits: one worker holds one slot at a time. A limiter that
  is shared by threads is the next module's subject.
- A statement of SQLite may fail (locked for too long, disk full) and then
  changes nothing: in `claim_next()` and in the handler's `get` that ends the
  worker thread (`DatabaseKills`), in the run the handler takes over
  (`DatabaseRaises`), and a request is answered with an error
  (`DatabaseRefuses`). A commit that fails after its statement succeeded is left
  out.

### PolicyEngine, DesktopSettings, ComputerControl, DesktopServer: the server

`PolicyEngine` has what the policy keeps in memory and the questions of
`evaluate()`. `Matches` compares hosts label by label, as `_target_matches` does
with hosts and wildcards; a rule for a network stands for the rules for its
addresses. `DesktopSettings` is what the settings page changes. Both of its
files are a `ReplacedFile`: a temporary file that is opened and emptied, filled,
and put in place. `ComputerControl` is `ComputerController.execute()` in several
threads. `DesktopServer` puts them into one process, which may be killed.

| Code | Action |
|---|---|
| `save_provider`: read and change; key ring | `SaveProvider`, `StoreKey` |
| `delete_provider`: read and change; key ring | `DeleteProvider`, `ForgetKey` |
| `_write` and `save_scope`: `write_text` (open, then text and close), `os.replace` | `OpenTemp`, `FillTemp`, `ReplaceSettings` or `ReplaceScope` |
| PUT `/api/settings/scope`; `policy.scope`; the API's `scope` | `UpdateScope`; `SetPolicyScope`; `SetApiScope` |
| an exception in any of these | `RequestFails` |
| emergency stops and resumes; approvals | `Operate` (`ApplyStop`, `Decide`) |
| `execute`: backend lookup; `evaluate`, question by question | `Execute`; `CheckScope`, `CheckStops`, `CheckProhibited`, `CheckApproval` |
| `_ledger`: lookup, constructor, assignment, return | `FindLedger`, `MakeLedger`, `StoreLedger`, `TakeLedger` |
| TOOL_CALL, backend, TOOL_RESULT | `LogCall`, `Act`, `LogResult`, with `AppendFails` |
| kill, and `create_desktop_runtime` | `Crash` |

Abstracted here:

- No entry point of the repository constructs a `ComputerController`. The
  composition gives it the policy engine of the server, as its constructor asks
  for one and its tests pass one.
- Privileges are left out, because no caller asks for any. A time window that
  is over refuses everything, as a scope without targets does.
- Of the audit file the model has its numbers of lines and whether it replays;
  what is in the lines is the subject of `EventLedger`. An object's knowledge is
  the line it wrote or replayed last.
- Two writers of one temporary file leave one text, the other, or a mixture
  that is no JSON; which it is depends on the lengths of the texts.
- `made`, `overlapped`, `broken`, `objects`, `shared`, `performed` and `withheld`
  are history. `withheld` keeps, for each call under way, the causes for which
  it could have been refused at every moment since it was made; `Watch` updates it
  in every step.

### Admission, ConcurrencyLimiter: the limiter

`ConcurrencyLimiter` takes `acquire()` apart: the lock, the check of three
counters, three separate increments, the release, and the same for the
`finally` clause. `Admission` is what it promises: whoever is admitted holds
all its keys at once, and no key is held more often than its limit. The
refinement maps a thread to its keys from the moment the check succeeded to the
last decrement (`holding`); it is the property `KeepsPromise`.

### EventLedger: events.jsonl

Lines, `EventLedger` objects with a cached number and hash, the lock of an
object, `append()` in three steps (`Begin`, `Write`, `Return`), the constructor's
replay (`Open`), and a write that is cut off after nothing, within the line, just
before its line end, or after it (`Cut`). `Edit` is somebody who changes a
payload, removes, repeats or exchanges lines, or writes a line with a hash
computed for it (`Forge`): the hash has no key, so anybody can, and `append()`
then builds on that line. `chains` are the chains that `append()` wrote,
`forged` those that an editor computed a hash for and what was built on them
(`Record`). `StreamLine` is the API's live stream.

A hash is the sequence of payloads it was computed from, so two different
chains never have equal hashes: SHA-256 is taken as free of collisions. `Next`
has one object on a file at a time, as the orchestrator, the workflow and the
worker's handler use it; `LedgerNext` leaves that open. The computer controller
does not keep to it, which is in `ComputerControl`. Redaction is left out.

The other modules have a shorter ledger (consecutive numbers, torn lines). A
write that is cut off just before its line end leaves a file that replays and
that a new object accepts, and the next append continues the unended line: that
event was acknowledged, and it and all after it are lost from the replay.
`AcknowledgedStays` therefore promises nothing for events acknowledged after a
first failure. `Orchestrator` and `ComputerControl` have this write as well.
`Workflow` leaves it out: after it the model goes on with calls that the code
refuses because the file no longer replays, so it allows more than the code does,
and its properties, all of them safety, read what was written, run on or not.

### Workflow: the scan-and-report workflow

`WorkflowEngine.run()` for one run id: discover, plan, assess, validate,
evidence, report, cleanup, complete. The state is saved after each stage;
the call returns when an approval is open, and it may be made again after it
returned, raised or died.

| Code | Action |
|---|---|
| the terminal test, load, reset of `pending_approval` | `Call` with `Load` |
| ledger object, RUN_START for a new run | `OpenLedger`, `LogRunStart` |
| the `while` test and `assert_active()` | `Loop` |
| the stages | `Discover`, `Plan`, `Skip`, `Ask`, `WriteBin`, `WriteMeta`, `StartReport`, `FinishReport` |
| `_execute_candidates()` | `LogToolCall`, `RunPlugin`, `LogToolResult` with `UseResult` |
| FINDING lines | `LogFinding` |
| `_save()`, a replaced file | `Save`, `SavePending` |
| success, or the `except` clause; RUN_END | `End`, `LogRunEnd` |
| OSError, which nothing in `run()` catches | `WriteFails` |
| kill, and a restart with another scope or other plugins | `Crash` |
| approvals, stops, time windows | `Decide`, `Stop`, `Time` |

`evaluate()` is one step here. Approvals are kept by the request they are for
(`Requests`: plugin and target, which is what the fingerprints of one run differ
in, as only validation needs an approval). The policy is asked for the first
candidate only (`Request`), and the others are called when it fails.
Contents of evidence are identified with the findings they are made from. A
finding may bring an `evidence` field of its own (`Referring`), which the report
then has in place of the state's reference. `revoked` (requests rejected since
the policy last allowed one) and `passed` are history. `selected_tools` and texts
are left out.

### Runner: subprocesses and the circuit breaker

Threads that share one `SubprocessRunner`. `ensure_closed`, `record_success` and
`record_failure` are one step each, since each holds the breaker's lock; between
them a call starts processes (`StartProcess`), which succeed, fail, are killed
at their timeout or cannot be started (an OSError, of which the breaker is not
told), and sleeps (`Pause`). Time is a `Tick` that passes no timeout and no end
of a sleep. There is no clock in the state, only the ticks since the breaker
opened and the ticks left to each process or sleep, so no bound on time is
needed. A process that is killed is taken to end at once. The breaker is not
asked between the attempts of a call, and after its reset time it lets everyone
in, not one.

## 3. Runs

| Run | Checks | Bounds | States |
|---|---|---|---|
| `desktop_tasks` | safety of the queue | one task, max_attempts 2, three plugins (one not installed, alternatives in a circle), one API stop, one CLI stop, one kill, one failed ledger write or database statement, global emergency stop, scope with and without a prohibited plugin | 2.3 M |
| `desktop_queue` | `QueuedSettles` | two tasks of different urgency, one kill, one failed write or statement | 0.6 M |
| `desktop_server` | settings page, scope, policy and computer control | two requests of the page at a time, two providers, two scopes, three changes, one error; two agents, one run, two targets (one a subdomain of the other), two kinds of action (one with approval), two actions, one cut line; one kill | 0.3 M |
| `concurrency_limiter` | limiter, lock, refinement | three threads; limits 2, 2, 1; two targets, one tool, two nodes | 15 k |
| `event_ledger` | ledger | one object at a time, two threads, two payloads, three events, two failures, one edit (forged lines among them) | 0.76 M |
| `workflow` | workflow | three calls, one failed write, one kill, three setups (all plugins; a narrower scope that forbids validation; no plugins), two validation plugins, malformed findings, findings with and without evidence of their own, targets outside the scope | 1.2 M |
| `runner` | calls and breaker | three threads, 0 or 2 retries, threshold 2, timeout and first pause 1 tick, reset after 2 | 0.3 M |

Why the bounds are enough. *Queue*: the row is shared by whoever holds an older
read of it. The worker, a request through the registry and a request without it
are the three kinds of client, and one of each already gives every order of
their reads and writes. One task suffices for these properties because each
speaks of one task's row and ledger; two are needed for the queue, which is
the second run. Two attempts over alternatives that form a circle are the
least in which recovery can go wrong. One failed write can be placed before, in
or after each line. *Server*: two
requests for one file are the least that can meet, the third change finds what
they left, and one error or one kill can be placed before, in or after each
access; two actions are enough for a second ledger object, and for a run whose
first action was cut. The constraint `Apart` keeps the run small without losing a
case: providers share no variable with what actions read, and actions meet one
another only in the audit file, so overlapping requests of the page are explored
without actions, overlapping actions without the page, and with an action under
way every stop, decision or scope update is explored one at a time. Callers,
providers and agents are symmetric, since nothing orders them. *Limiter*: three threads are one more than the largest
limit, and the limits differ. *Ledger*: three lines have a first, a middle and
a last; two failures allow a failure after a recovery from one. *Workflow*: a
stage can be begun, lost and repeated twice, once by an exception and once by a
kill; the second validation plugin is a fallback, and an operator may decide at
any time and as often as he likes. *Runner*: three threads let two failures open the breaker with a third
call still inside, and two retries have two pauses of different length.

What the passing runs show:

- `AttemptsBounded`, `RecoveryBounded`: stale rows written by stop requests,
  requeues, restarts and failed writes never give a task one attempt too many,
  and never a plugin it was given before.
- `AuditCoversAttempts`, `AuditAgrees`: the ledger is ahead of the row by at
  most one call; without a kill, and if the worker has not died, it ends with a
  RUN_END that has the status of the row, and replays. The exception is a
  failed task whose last write before that stopped just before its line end:
  the RUN_END runs on in that line, and a replay yields only the lines before
  it. A failed RUN_END turns a row from succeeded into failed and leaves two
  RUN_ENDs, but row and last RUN_END agree.
- `NoCallAfterRunEnd`, `CompletedStaysCompleted`: an ended run is not run again.
- `StopOverrunsOnce`: at most one plugin call is logged after a stop.
- `QueuedSettles`: every queued task settles, unless the worker died.
- `ChangesKept`: changes of providers that do not overlap are all in
  `settings.json`, whatever errors or kills come between the steps of a write.
- `OrphanKeys`: a key without a provider is left only by a request that was
  broken off, never by one that was answered.
- `ScopesAgree`: the policy, the API and `scope.json` have one scope when no
  update is under way, and the application can start.
- `WithdrawnNeverActs`: an action is carried out only if each possible cause of
  refusal was absent at one moment, at least, after it was asked for. The code
  promises no more than that: the questions are asked one after the other, and
  a stop that comes later than its question is passed by.
- `ActionsAudited`: no action without its line, no result without an action, and
  a line without an action only after a kill or a failed write.
- `AuditReplays`: with one ledger object for each process, the audit file
  replays, over kills and threads.
- `LimitsHeld`, `CountsExact`, `RefusedWhenFull`, `LockReleased`, `KeepsPromise`:
  the limiter does what `Admission` says, and refuses only when full.
- `ReplaysUntouched`, `AcknowledgedStays`, `AcceptedWasWritten`,
  `StreamShowsChain`: the ledger keeps what it acknowledged, and what replays
  in full was written as it stands, unless an editor computed the hashes of the
  line he changed and of all behind it anew (missing last lines go unnoticed).
- `OpenAtThreshold`, `FailuresBounded`, `TimeBounded`, `CallEnds`, `Recovers`: late
  reports never leave the breaker open without its failures or closed with them,
  postpone its reset only as often as there were calls inside, and every call
  ends within its timeouts and pauses.
- `EndAgrees`, `FindingsAudited`, `SucceededInFull`, `ProgressKept`: see the
  comments in `Workflow`.
- `ValidationApproved`: while validation plugins run, the request for the first
  of them and the first target is approved in this process, or was rejected only
  after the policy had allowed it. It says no more of the fallbacks than that
  they are called after a failure: the code asks for no decision for them.
- `EvidenceKept`: the saved state refers to evidence for just its findings and the
  files are there; the report has these findings, and that reference for each that
  brought no evidence of its own.

### Fairness

`DesktopTasks` assumes weak fairness of the worker's own steps: the operating
system schedules its thread, and plugins return (the runner has timeouts).
Nothing is assumed of requests, kills or failures; failures of a write are
outside `WorkerStep`, so the worker is never forced into one. `ConcurrencyLimiter`
assumes that a thread in a critical section is scheduled, and `Runner` that time
passes, that threads are scheduled and that processes end at their timeout;
that a process ends earlier is not assumed. `DesktopServer`, `EventLedger` and
`Workflow` have safety properties only and no fairness. `event_ledger` has
`CHECK_DEADLOCK FALSE` because its file is full at the bound, and
`desktop_server` because a server that cannot read `scope.json` does not start
again, and because the requests and actions of the run come to an end.

## 4. Where code and documents disagree

Each has a run of its own with a counterexample.

| Run | The document says | The code does |
|---|---|---|
| `stop_overwritten` | `cli.py:88`: "Persistently stop one queued or running task." | `claim_next()` selects the queued row (189-193) and then sets it to running without a condition (197-200): a stop from the CLI in between is overwritten, as it is by every later `update()` that read the row before it; a CLI process cannot reach the registry. |
| `worker_dies` | `docs/TEST_REPORT.md:11-12`: an invalid queued task "fails visibly without blocking later tasks" | A ledger line that is cut off makes the handler's own ledger object raise; nothing catches that, and the only worker thread ends. |
| `orphaned_run` | `orchestration.py:1`: "... recovery, and resume."; `docs/SPEC.md:21` | A row that is running at a kill is never claimed again. |
| `workflow_prohibited` | `docs/SPEC.md:30`: "A prohibited action always loses to an allow rule." | The policy is asked for the first candidate; fallbacks are called without it. (In the validation stage that also passes by `docs/SPEC.md:31`, which wants explicit decisions for exploits.) |
| `evidence_torn` | `docs/SPEC.md:35`: "Evidence is content-addressed ..." | A part of a file left by a kill is taken for the file. |

Other behaviour worth knowing, allowed by the models:

- The hash of a ledger line has no key: who edits a ledger can compute it, and
  only lines that were not computed anew show in the chain.
- A finding with an `evidence` field of its own is reported with that and not with
  the reference to the stored evidence; `docs/SPEC.md:35` wants claims to keep
  their references.
- A rejection that comes after the policy has allowed a validation stops no
  plugin of that stage.
- A ledger write of a run that stops just before its line end makes the handler's
  RUN_END run on in that line, and the replay of the ledger fails there.
- A stop between a claim and the first read leaves a RUN_START with no RUN_END.
- A kill between the last save of a workflow and its RUN_END leaves no RUN_END;
  a kill in its discovery stage leads to a second RUN_START.
- A database error in `claim_next()` ends the only worker thread. In its last
  read, after the row was set to running, it leaves the row running as well.
- A stop request of the API blocks the run first; if its update of the row then
  fails, the client gets an error and the run stays blocked.
- Two requests that save providers at the same time lose one of the changes, or
  share `settings.json.tmp`: one gets a FileNotFoundError, or the file is
  left empty or mixed and every later request fails until it is repaired by hand.
- The same holds for two scope updates; a `scope.json` that was spoiled keeps
  the application from starting, and policy, API and file may have different
  scopes.
- A `delete_provider` that fails at the key ring leaves a key that no request
  can delete until a provider of that name was saved again.
- `create_provider` reads the entry and then its key; a save in between gives it
  the old address with the new key.
- The computer controller makes a ledger object for each run but has one file:
  actions of two runs, one after the other, already break the chain, and so do
  two first actions of one run at a time. The next process cannot open the file,
  and then refuses every action that policy allows.
- A stop for a target compares texts, the scope compares hosts: a stop for
  `example.org` does not stop `https://example.org`.
- `evaluate()` reads the scope several times, and may answer from two scopes.
- `launch_app` is a kind of action that no backend supports; it is written to the
  audit file and then raises.
- A limiter's refusal comes after TOOL_CALL was logged and fails the whole task.
- Cleanup is not run for a workflow that fails.
- Discovery plugins are called without a policy decision.
- A torn ledger makes a workflow unresumable: every later call raises.

## 5. Proofs

The proof modules use the named assumptions of the modules and nothing else
(`RepositoryAssumption`, `OrchestratorAssumption`, `DesktopAssumption`,
`PolicyAssumption`, `SettingsAssumption`, `ControlAssumption`,
`ServerAssumption`, `LimiterAssumption`, `RunnerAssumption`, `LedgerAssumption`,
`WorkflowAssumption`, `StateAssumption`): any finite set of tasks, threads and
agents, any plugins, recovery table, scopes, providers, payloads, findings and
positive limits, any number of requests, kills, failed writes and edits. They say
what constants are (numbers, finite sets) and that a value that stands for none is
none. The desktop proofs assume one executor, as the application has. TLC
evaluates the assumptions in each run, and has checked each inductive invariant
below on the instances of section 3.

### The queue: DesktopTasksProofs, DesktopTasksAuditProofs

- `TypeCorrect`: `Spec => [](TypeOK /\ Control)`. `TypeOK` alone is not
  inductive: an `update()` writes what its call says, so the call in progress
  has to fit the place its executor is at. `Control` says that, and that a stop
  request writes nothing but "stopped". All other proofs of the queue rest on it.
- `AttemptsCorrect`: `AttemptsBounded`. The danger is a stop request
  that read the row early, waits, and writes the old count of attempts. The
  argument: call a task *open* while its row is queued or running or its
  executor is still on the way to a plugin call (`Open`). While it is open the
  row, and every row that a request has read, has an attempt left
  (`RowInBounds`, `RequestInBounds`). A task that is not open never opens again
  (`NothingOpens`), because requests write only "stopped" and a new call is
  made only for a queued row. So a stale count that reaches the table late does
  no harm.
- `StopsOverrunOnce`: `StopOverrunsOnce`. Once an overrun is counted the task is
  blocked and nobody is past the registry for it (`StopsHeld`), and blocked tasks
  let nobody past.
- `EndedRunsAreOver`, `CompletedRowsStay`: `NoCallAfterRunEnd` and
  `CompletedStaysCompleted`. A run whose end is on record has a row that is not
  claimed, and nobody is on the way to a call for it; an executor that has not
  yet written how its run ends (`Undecided`) does not meet a row that says
  succeeded or failed; one that has (`Settled`) meets a row that has ended. `Ends`
  is the conjunction.
- `RecoveryIsBounded`, `LedgerCoversAttempts`, `LedgerAgreesWithRow`:
  `RecoveryBounded`, `AuditCoversAttempts`, `AuditAgrees`. One invariant,
  `Audit`, says for each place of the run, of `update()` and of the handler how
  far the ledger is ahead of the row, that the plugin to be called next is
  not among those the ledger has (`Fresh`: they are all in `tried`), and what the
  last RUN_END will be. It needs `Reports` (what an executor reports as the outcome
  is what its update writes) and the invariants above. It speaks of tasks that
  nobody stopped by id: such a request may write a stale row back, and then ledger
  and row disagree. That the ledger replays, or runs on, is a second invariant,
  `Files`: while a run has its ledger object, every line has its end and the
  object knows the number of the last (`FileAudit`); the handler finds a ledger
  that replays, or the worker dies; and a task that was left has one that
  `ReadsBack`.

### The server: DesktopServerProofs, DesktopServerAuditProofs

- `ActionsRespectPolicy`: `WithdrawnNeverActs`. A call that has come
  past a question found its cause absent at that moment, so the cause is no longer
  among those that held all along (`AskedWereFree`); a call that is about to act
  has come past all of them. Nothing is needed of what the API changes
  meanwhile.
- `ScopesAlwaysAgree`: `ScopesAgree`. As long as updates did not
  overlap, the only update under way has the temporary file to itself, has
  emptied, filled or replaced it by now (`UpdateOK`), and the three places for the
  scope agree but for what it has still to write (`ScopeInv`).
- `ChangesAlwaysKept`, `OrphansWereBroken`: `ChangesKept` and
  `OrphanKeys`. `ChangeOK` is the same for providers; a request writes what
  it read and its own entry, and what it read is still the file. `KeysOwned`
  accounts for each key: it has an entry, or a broken-off change, or a change
  under way that stores or forgets it. `SettingsInv` says which step each
  operation may be at; all three rest on it.
- `ActionsAreAudited`: `ActionsAudited`. `Counted` counts threads by phase: a
  call is in the file before its thread acts, a thread that shows a result has
  acted, and a kill takes at most as many calls as there are threads. It has to
  count the line that has lost its line end apart: the next line makes it no
  event any more, so the calls in the file may become fewer.
- `AuditAlwaysReplays`: `AuditReplays`. While nothing spoiled the chain
  (`Unspoiled`), there is one object and it knows the last line (`Chained`); that
  a thread writes with an object of this process is `Owned`, through every step
  of `_ledger()`.
- `TypeCorrect`: `TypeOK`, from all of these and `OtherTypes`.

### The limiter: ConcurrencyLimiterProofs

- `CountersAreExact`, `LimitsAlwaysHeld`, `KeepsItsPromise`: the
  inductive invariant relates each counter to the set of threads that have
  added it (`Counters`), and says that the holder of the lock is the only one in a
  critical section (`ThreadOK`). From it, every step is an admission, a release or
  a stutter of `Admission`.
- `RefusalsAreJust`: the action property `RefusedWhenFull`. Under the lock, whoever
  has added a key to the counters holds it, so a full counter is a key
  that is in use up to its limit. `TypeCorrect`: no counter is negative, because
  each thread takes back only what it added.

### The ledger: EventLedgerProofs

The hash of a line is the sequence of payloads behind it, so a file that replays
has the hash of its own payloads (`Chain`).

- `ReplayIsGenuine`, `StreamIsGenuine`: `AcceptedWasWritten` and
  `StreamShowsChain`. Every hash in the file, wherever an edit has put its line,
  is that of a chain that was written or forged (`Written`).
- `UntouchedReplays`: `ReplaysUntouched`. `Untouched` says what an object has
  cached when nobody appends with it, and what the thread that holds its lock is
  about to write or has written. It needs one object at a time (`Locks`), which is
  how the code uses a file.
- `AcknowledgedLinesStay`: `AcknowledgedStays`. An acknowledged line and all before
  it are valid, and a line without its end, which the next append would spoil,
  is behind it (`Kept`).
- `TypeCorrect`: `TypeOK`.

### The workflow: WorkflowProofs

The inductive invariant has the types, what each place in `run()` knows
(`Control`), and one predicate, `Sound`, of a state together with the ledger and the
files behind it: which fields are filled in at its stage (`Shape`), what the ledger
says of the stages it is past (`Done`), which files exist (`Filed`), and that its
findings are logged (`Covered`). The saved state is always sound (`Saved`). The
local state is sound too, but for the time in which findings are being logged
(`Midway`), and is a continuation of the saved one (`Current`). Without the local
part nothing is inductive: what is saved next is the local state, and a call that
failed goes back to the saved one.

- `EndIsFinal` (`EndAgrees`), `FindingsAreLogged` (`FindingsAudited`),
  `EvidenceStays` (`EvidenceKept`), `SuccessIsComplete` (`SucceededInFull`) and
  `TypeCorrect` (`TypeOK`) follow from it.
- `ValidationIsApproved`: `ValidationApproved`. A call comes past the policy only
  with its request approved, and the policy empties `revoked`; from then on a
  rejection adds to `revoked` what it takes from the approvals, and the candidates
  that are left say which result was logged last (`Candidates`).
- `ProgressStays`: the action property `ProgressKept`. Only a save changes the
  saved state, and the local state continues it.

### The runner: RunnerProofs

- `BreakerCorrect`, `FailuresAreBounded`: `OpenAtThreshold` and `FailuresBounded`.
  A call comes in only while the count is below the threshold (`OpenAtThreshold`
  is needed for that), where any number of calls inside is within the bound; from
  then on each failure counted is one call fewer inside.
- `CallsAreTimeBounded`, `TypeCorrect`: `TimeBounded` and `TypeOK`. What a call has
  spent and has still before it is within the budget of its attempt
  (`InBudget`, `Budget`). The bound is an exponential; that 2^(n+1) is twice 2^n is
  proved by counting subsets, as no prover knows it.

### Only model-checked

Liveness (`QueuedSettles`, `LockReleased`, `CallEnds`, `Recovers`) rests on fairness
and ENABLED, which are out of the prover's reach. The runs of section 4 are
counterexamples and have nothing to prove.

## 6. Not modelled

- *Distributed worker.* The repository has its Celery settings only. Which
  delivery is repeated, and when, is decided by Celery and its broker, and each
  delivery builds an `Orchestrator` of its own, with its own limiter and stops,
  by a factory that the caller supplies.
- *`DockerRunner`, `WorkspaceManager`* make and remove a container or a directory
  around one call. *Budget tracker*: counters of one attempt.
- *Scoring* is arithmetic without state.
- *Providers, agent adapters, plugin transports and gRPC*, which serves an agent
  adapter, are requests to external programs; a plugin is modelled by its outcome.
- *`batch`* creates tasks one by one, as `CliCreate` does each; an invalid item
  ends it with the earlier ones queued.
- *Reporting's* rendering, observability, the user interface and deployment have
  no state the properties speak of. Authentication and roles of the API,
  privileges, redaction, the self-test and the window are left out.

## 7. Plan

Done: the queue with database errors, the desktop server, the limiter, the
ledger, the workflow, the runner; all their safety properties, and the
limiter's refinement, as theorems.

Next, in this order:

1. An abstract `TaskLifecycle` (queued, running, ended, attempts used) that
   `DesktopTasks` implements, as a theorem from `Control`, `Ends` and `Attempts`.
2. `Orchestrator` with two executors, for an embedder that runs several: which
   of the properties survive without the single executor.
3. Privileges in `PolicyEngine`, and `DockerRunner` beside `Runner`, once a
   caller uses them.
