# Verification project for Wuji

TLA+ models of the Wuji platform, the TLC runs that check them on small
instances, and TLAPS proofs of what matters most for instances of every size.

Wuji runs authorized assessments. A user creates a *task*; on an explicit start
the platform prepares a model key with a budget, a Pod with an agent container
and a tool container, and a native project ("graph") at a Cairn server; a
dispatcher then has agents explore, agents call tools, and in the end the
platform stops everything and writes a result. The code is a set of programs
that share one PostgreSQL database and otherwise talk HTTP, each of which may
crash, and each call of which may be lost, answered late, or carried out although
its caller gave up. What makes the system correct is therefore mostly about
*licences* (who may act, until when, and how the permission is withdrawn),
*journals* (that something was asked for is on record before it is asked) and
*settlement* (a task has ended only when nothing of it is left running).

## 1. Inventory

| Component | Source | State it keeps | Operations |
| --- | --- | --- | --- |
| Task commands (API) | `apps/api/.../database.py`, `execution_store.py`, `task_creation_store.py` | rows of `tasks`, `command_receipts`, `task_events` | create, start, cancel, with idempotency keys and expected versions |
| Consumer of execution-control | `services/execution-control/core.py`, `store.py` | `task_executions`, `runtime_attempts`, `execution_services` | `tick`, `provision`, `stop`, `stop_requested`, `permitted` |
| Task runtime controller | `packages/task-runtime` | none; reads and writes one Pod | `ensure`, `stop` |
| Model key gateway client | `services/execution-control/model_budget.py` | none; a virtual key at LiteLLM | `generate`, `lookup`, `block` |
| Tool calls | `core.py` 273-420 | `tool_calls`, `tool_attempts` | `create_call`, `platform_call`, `poll_call`, `cancel_call` |
| Supervisor (agent and Kali containers) | `services/task-workers/supervisor.mjs` | entries in memory, `status.json` per id, a lease | PUT, GET, cancel, lease renewal, kill timer, restart |
| Agent runs and native operations | `core.py` 204-264, 443-597 | `agent_runs`, `core_operations`, `task_graph_snapshots` | `admit`, `core_action`, `reconcile_native`, `save_output`, `finish_run` |
| Cairn dispatcher wrapper | `services/cairn-dispatcher/main.py` | futures and admissions in memory | select worker, dispatch, reap |
| Cairn bridge and journal | `packages/cairn-bridge` | journal of bindings and results | `ensure_project`, `submit_result`, `reconcile_result` |
| Web assessment | `services/execution-control/assessment.py` | observations, verifications, plan, completion reviews | `capture`, `submit`, `refresh`, `review` |
| Artifact store | `services/execution-control/artifacts.py` | files on a volume | `write`, `read` |
| Sessions | `database.py` 161-469 | login handshakes, sessions | begin, claim, complete, fail, authenticate, revoke |
| Model configuration | `model_store.py`, `model_workflow.py`, `model_gateway.py` | `model_versions`, `model_operations`; credentials and models at LiteLLM | save, check, publish, retire, revoke, claim, finish, read back |
| Drafts, previews and creation | `draft_store.py`, `task_creation_store.py`, `task_authorization.py`; the editor in `CreationPage.tsx` | `task_drafts`, `task_creation_previews`, the new task; what the editor shows | load, save, preview, confirm, create, copy |
| Agent integration | `packages/agent-integration` | call ledger, child process | register, run, cancel |
| Browser command journal | `apps/web/src/pendingCommand.ts`, the notice in `tasks.tsx` | a marker per project in `sessionStorage`, frozen commands in memory | begin, ask for the receipt, retry, abandon, clear |
| Browser session and cached reads | `state.ts`, `queries.ts`, `router.tsx` | the identity snapshot with its two generations, the query cache | accept a session, select a project, read, log out |
| Task page | `TaskDetail` in `tasks.tsx` | snapshot, events, cursor, timer | load, poll, resynchronise, hide, show |
| Platform scripts | `scripts/platform` | run files | prepare, start, stop |
| Pages, theme, contracts, fixtures, spikes | the rest | none of the platform's | |

How they interact. The row of `tasks` is the meeting point: every component that
decides anything locks it (`SELECT ... FOR UPDATE`) and looks at its `state` and
`execution_epoch`. The API writes it on start and cancel. The consumer is one
coroutine of one process (the Deployment is replaced with strategy `Recreate`),
visits each execution about once a second, and calls the gateway, Kubernetes and
Cairn in between its transactions. The handlers of the dispatcher and of the
agents run in the same process and event loop, so that each runs undisturbed from
one await to the next, and only there. Supervisors in the Pod hold a lease that
the consumer's process renews for at most 15 seconds at a time.

What is hard, per component, and what makes it correct:

* **Task lifecycle.** Cancels, deadlines, expiries and restarts fall between any
  two awaits of `provision` and `stop`; requests are lost or land late. Correct
  when the licence is withdrawn for good (epoch fence), nothing is asked for
  twice, a running task has all its resources, an ended one has none and stays
  ended, and a stop that can succeed does.
* **Tool calls and supervisor.** A launch may be lost, or its reply; cancel races
  launch; the lease runs out in between; the supervisor restarts. Correct when a
  call is on record before it is sent, is executed at most once, is shown as
  exited only if its process is, and when no process outlives the task.
* **Agent runs.** Admissions overlap; native writes lose their replies; the
  dispatcher and execution-control restart; the completion, the review, the report
  of the dispatcher and `stop` settle one row. Correct when an intent has at most
  one process, a native write is sent once and recorded as what became of it, a
  result is synced only when it is complete, and nothing is at work after the end.
* **Browser command journal.** Replies are lost, POSTs arrive late, the tab is
  reloaded, users and permissions change. Correct when a command takes effect at
  most once, and what the user is told of it is true.
* **Browser session.** Reads are answered before a change and committed after it;
  a logout may fail and be retried. Correct when nothing read for an earlier user,
  project or set of permissions is shown under a later one.
* **Task page.** A load, a poll, a resynchronisation and a change of visibility
  overlap. Correct when the page never goes back, its events and cursor agree with
  what was read, and it catches up or says that it does not.
* **Model configuration.** Handlers die between the rows they prepare and the
  answers they wait for; administrators overlap; revocations meet creates in doubt.
  Correct when a request is sent once, what is offered is at the gateway, and what
  is shown as revoked is blocked there.
* **Bridge.** Sends something at most once and reconciles afterwards. Correct when
  a claim survives a crash as *unknown*, never as success or as leave to resend.
* **Assessment.** Completion proposals race calls and runs. Correct when it
  never completes over open work and never loops for ever.
* **Drafts and task creation.** Several tabs save one draft, replies are lost,
  requests come late, the model and the permissions change under a preview. Correct
  when a save that is acknowledged is stored, and a task is what was confirmed.
* **Sessions, commands.** Concurrent requests on one row. Correct when a handshake
  is used once and a receipt is issued once per key.

`PROJECT.json` lists, under `hazards`, each of these at the line where it bites.

## 2. Plan

Modules in the order in which they are written; *done* marks those on disk.

1. `TaskRow` (done): the row of `tasks` and the writes to it, shared by all.
2. `TaskLifecycle` (done): commands, consumer, gateway, Kubernetes, Cairn.
   `Licence` (done) is its abstract specification. Proofs: `TaskLifecycleProofs`
   (done).
3. `Supervisor` (done): launch, cancel, lease, restart of one supervisor at the
   grain of its awaits; abstract specification `Worker` (done: accepted once, run
   at most once). Proofs: `SupervisorProofs` (done).
4. `ToolCalls` (done): the rows of `tool_calls` over a `Worker`, with lost
   launches, late replies, crashes of execution-control and the settling part of
   `stop`. Proofs: `ToolCallsProofs` (done).
5. `AgentRuns` (done): admission, outputs, native operations with their journal,
   review, finish, the dispatcher's in-memory side, over a `Worker`. Proofs:
   `AgentRunsProofs` (done).
6. `PendingCommand` (done) with its abstract specification `Submission` (done):
   the commands of a tab against the receipts of the server. Proofs: the first
   part of `TaskPageProofs` (done).
7. `TaskSync` (done): the task page; proofs: the second part of `TaskPageProofs`
   (done). `BrowserSession` (done): who is signed in;
   proofs: `BrowserSessionProofs` (done).
8. `ModelOperations` (done): the versions of models and the journal of the
   requests to the gateway. Proofs: `ModelOperationsProofs` (done).
9. `TaskCreation` (done): drafts, previews and the editor of a tab. Proofs:
   `TaskCreationProofs` (done).
10. `Assessment`: capture, submit and the progress digest, of which `AgentRuns` has
   only the review; `Bridge`, a journal that no service uses yet.
11. `Sessions`, `Artifacts`, `CallLedger`, `RuntimeController`.

Abstract specifications: `Licence`, `Worker`, `Submission`. Theorems: for each
module the type invariant, its main safety invariants, and the step simulation of
its abstract specification. Runs: one per component, which checks safety,
refinement and liveness together where the state space allows, with two actors,
two ids and as many failures as the hazards need to meet.

## 3. The modules

### `TaskRow`

The record `[state, epoch, reason, egress, cleanup]` of a row of `tasks` and the
functions on it: `StartRow` (`start_command`), `CancelRow`
(`control_task_command`), `StopRequested` (`Store.stop_requested`) and `FinalRow`
(the transaction at the end of `Core.stop`). `version` and `event_sequence` are
left to the modules that compare them. Seven reasons that only the handlers of an
exploration give are one value, since the code treats them alike.

### `TaskLifecycle`

| Variable | In the code |
| --- | --- |
| `task`, `ex`, `rt` | the rows of `tasks`, `task_executions`, `runtime_attempts` |
| `tick` | where the consumer's coroutine is, and its local variables that survive an await |
| `core`, `service` | the live process; the last heartbeat in `execution_services` |
| `permit` | everything `Store.permitted` reads besides the rows (operator, project, tenant, model, authorization) |
| `late` | `created_at` is more than 900 s ago |
| `key`, `pod`, `uid`, `graph` | the services' side: the key, the Pod and its uid, the native project |
| `sent` | ghost: how often each create request left the consumer |

One action stands for what happens between two awaits (or commits, or calls) of
the code: `Tick` for the head of the loop in `Core.tick`; `ProvisionAttempt`,
`ProvisionKey`, `GenerateReply`, `LookupReply`, `PodCheck`, `PodCreate`,
`PodRecheck`, `Bind`, `ProjectReply`, `Activate` for `provision` and
`TaskRuntimeController.ensure`; `StopKey`, `StopFind`, `StopFindFails`,
`StopWork`, `StopPod`, `StopSettle`, `StopFinal` for `stop`; `TickFails` for an
exception anywhere. `Restart` is a crash or replacement of the process at any
point. `KeyLands`, `ProjectLands`, `PodLands` and `PodMoves` are the services,
modelled from how the code uses them: a request may be carried out at any time
after it was sent, or never, and its reply may be lost.

`LatePods` chooses whether Kubernetes may create a Pod after the request timed
out. The code cannot tell such a Pod from one that was never created, so what is
promised about Pods holds only without it; everything else is checked with it.

Agent runs and tool calls are reduced to the outcome of `stop`'s question whether
any is open. Which native operations are reconciled, the result text, artifacts
and snapshots written on the way do not feed back into this protocol.

### `Licence`

What starting a task promises with the protocol left out: granted once, resources
are held under it, withdrawn once, ended only with none held. A resource may
still be taken while the licence is being withdrawn (by a request on its way) and
then has to be given back too. `ImplementsLicence` instantiates it with the state
function `phase` of the task's row and `held` of the key and the Pod.

### `MCTaskLifecycle`

Adds a history variable, that a cancel of an execution was accepted, for
`TaskLifecycle_cancel.cfg`.

### `Supervisor`

One supervisor (`supervisor.mjs`), which is a single thread: what lies between
two awaits of a handler is one action.

| Variable | In the code |
| --- | --- |
| `rec`, `cancelled`, `child` | `entries`: the record per id, its `cancel_requested`, `e.child` |
| `disk` | the directory of an id and its `status.json`, which outlive the process |
| `saves` | the promise chain of `save()`: the copies still to be written, oldest first, and which handler awaits each |
| `queue`, `launch` | `launchQueue`: launches that wait, and where the one under way is |
| `signalled`, `reading` | SIGTERM was sent (SIGKILL follows); the close handler is reading the output |
| `lease`, `overdue` | `Date.now() < leaseUntil`; the deadline of an id has passed |
| `proc` | ghost: the process that was started for an id |
| `up`, `restarts` | the supervisor itself, and how often it was started again |

`Put` and `LaunchCheck` to `LaunchFails` are `launch()`, one action per await;
`Cancel`, `Timer`, `Close` and `CloseRead` are `cancel()`, the interval of 250 ms
and the close event; `SaveDone` and `SaveFails` end a save and let whoever awaited
it go on; `Sigterm`, `Exit` and `Boot` are the end of the container, at any point,
and the loading of what the volume holds. A write of `status.json` is a rename, so
it happens or does not. `DiskFails` lets file operations fail; a failure that no
handler awaits rejects a promise nobody handles, which ends the process and is
therefore an `Exit`. The lease may come and go at any time, since the consumer
renews it as it likes. Why a request is refused (digest, schema, capacity of the
body) is left out: a refused one leaves no trace.

### `Worker`

What a caller may rely on: an id is accepted once, worked on at most once,
and shown as exited only when that work has ended for good. `ImplementsWorker`
reads `work` off the directory and the process of an id, and `shown` off its record.

### `ToolCalls`

The tool calls of one task, the supervisor of its tool container being the
abstract `Worker` (`Supervisor == INSTANCE Worker`, whose actions the actions here
take), which `Supervisor` is shown to implement.

| Variable | In the code |
| --- | --- |
| `row` | `tool_calls.state` |
| `handler` | whether `create_call` waits for the reply to its PUT, or `platform_call` is at work |
| `put` | the PUT of a call or the reply to it, on the way |
| `work`, `shown` | the `Worker` |
| `news` | replies to GETs that say exited, on the way to whoever polls |
| `task`, `pod`, `stop` | the licence of the task, its Pod, and where `stop` is |

`Register`, `Accepted`, `NotAccepted` and `HandlerFails` are `create_call`,
`PlatformDone` is `platform_call`, `Answer`, `Poll` and `PollLost` are `poll_call`
for all its callers, `Settle`, `StopFails` and `End` the part of `stop` that asks
for open calls, deletes the Pod and ends the task. `cancel_call` asks the
supervisor to end the work of a call, which the `Worker` may do at any time, and
polls. The lease is left out: a launch may be accepted while there is a Pod. That
the licence is withdrawn once and for all is `TaskLifecycle`'s.

A reply that a supervisor gave is read, or has timed out, by the time its Pod is
gone (`PodGone`): the supervisor lives on for 5.5 s after it was told to stop.

### `AgentRuns`

The agent runs of one task, the supervisor of the agent container being the
abstract `Worker`.

| Variable | In the code |
| --- | --- |
| `task`, `web` | whether the task runs, is being stopped or has ended; its kind |
| `row`, `for` | `agent_runs`: state, result, outcome and whether an output is saved; phase and intent |
| `verdict` | `completion_reviews.decision` of a run |
| `op`, `waiting`, `lock` | `core_operations.state`; the writes that wait for `cairn_lock`; its holder and what it awaits |
| `native`, `sends` | what became of a write at the Cairn server; ghost: how often it was sent |
| `at`, `says` | the dispatcher: where it is with a run, and the outcome it has to report |
| `put`, `work`, `shown` | the PUT of a run on its way; the `Worker` |

`Admit` to `DispatcherRestart` are the dispatcher and the handlers it calls
(`admit`, `save_output`, `finish_run`); `Write`, `Take`, `WriteEnds`, `Snapshot`
and `ReadBack` are `core_action` and `reconcile_native`, one action from await to
await; `Review` is the completion of a web assessment; `Cancelled`, `StopReads`
and `End` are what `stop` does about runs. An admission is modelled where it
counts, in its transaction under the lock of the task's row: what `admit` read
before it awaited the graph promises nothing, and `blocked_admits`, which keeps
the dispatcher from asking twice, is gone when it restarts. The unique index
`one_active_intent_run` is a second guard and not needed for what is shown. The
upstream scheduler and the runner report success only once their writes are
answered, and a cancellation only if they wrote nothing. A run is reviewed once;
completions of other tasks go to the graph. A lost report leaves its run open.

### `PendingCommand`

One project in one tab: `pendingCommand.ts` with the pages that use it, for the
three kinds of a command: to create, to start (`Starts`) and to cancel a task.

| Variable | In the code |
| --- | --- |
| `user` | whose session was accepted |
| `marker`, `owner`, `inspected` | the marker in `sessionStorage`: its key, `userId`, `listInspectedAt` |
| `frozen` | `frozenCommands`, which does not outlive the page |
| `at`, `key`, `fresh`, `reply` | the two handlers that may be waiting, what for, and whether the context they captured is current |
| `late` | POSTs under way that nobody waits for |
| `allowed`, `outdated`, `effects` | the server: permission, the commands that its state no longer admits, and how often each was carried out |
| `unready` | the starts for which `execution_services` lacks a fresh heartbeat or the right configuration |
| `told` | what the user was told of a key |

`Execute` is the transaction of `create_task_command`, `start_command` or
`control_task_command`: permission first, then an existing receipt, then
`Refusals`. A command is refused for good when it is out of date (`Outdate`):
versions of tasks, drafts and models only grow, and previews and authorizations
only expire. A start is also refused, with the same status 409, when the last
heartbeat of execution-control is older than 15 seconds, or its configuration is
not ready, or is for other models and origins, or changes meanwhile
(`execution_store.py:50-68`); all of that comes and goes (`ServiceChanges`). The
pages tell these refusals neither from each other nor from a denial: `Rejected`
clears the marker on any of them. A storage that fails
(the command is not sent) and a damaged marker (taken away unread) are left out.

### `Submission`

What the pages promise: one command at a time; each takes effect at most once; it
is called settled only if it has, and refused, as out of date, only if it never
will. `ImplementsSubmission` counts a denial as giving up, since a denied command may
have been carried out before; and a start that was refused while the service was not
ready, since an earlier POST of it may be carried out afterwards. That more should
hold of such a start, and does not, is in section 5.

### `TaskSync`

`TaskDetail` in `tasks.tsx`: `first` is the initial load, `poll` the timer's
cycle, the load on becoming visible, or the resynchronisation; `holder` says whose
`controller` is the current one. A version of the task is also the number of its
event, since `Store.event` gives both at once. Three things the code does, kept in
the model: an error of the load stays on the page when a later load succeeds;
hiding a page during a resynchronisation counts as a refusal; a poll that finds a
terminal task stops before it has read the rest of the history. Its specification
is called `PageSpec`, so that `TaskPageProofs` can extend it and `PendingCommand`.

### `BrowserSession`

`state.ts`, the reads of `queries.ts` and the loaders of `router.tsx`. A
generation never comes back, so each read only carries whether its own has passed
(`gen`). Of the cache, whose keys contain both generations, only the entry of
the project shown can be hit, which is `page`. `server` is the session of the
cookie, which other tabs share. Commands and logins end in a new document, which
is `Reload`. A reader that was given an older session than the current one is left
out; data of another user under one cookie is possible between a login in another
tab and the next read of the session, and `ShownIsNotOlder` speaks of one user.

### `ModelOperations`

`ModelWorkflow` over `ModelStore` and `ModelGateway`. The rows are `state`, `sync`
and `revision` of each version and `ops`, the operations that call the gateway in
the order of `created_at`; publishing and retiring call nobody and are recorded as
succeeded in the transaction that does them. `hand` says where each handler is:
`ready` before `claim`, `waiting` for the answer, `confirming` by reading a created
object back, `finishing` before `finish`, `rereading` in `_reconcile`, `publishing`
between the read of the gateway and `prepare_action`. `Save`, `Check`, `Publish`,
`Retire`, `Revoke` and `AskAgain` (the same key or id once more) begin a handler.
`native` is the object at the gateway, `flight` the requests on their way to it.

The lock of a user is held by one connection for as long as a handler runs, and
keeps that user's other handlers out; a connection may be lost, other users do not
take the lock, and so nothing here relies on it: any handlers may overlap. A write
that the gateway answers with an explicit 4xx is taken not to have happened, and an
object that is not there cannot be blocked.

### `TaskCreation`

A draft, the editor of one tab (`CreationPage.tsx`), and what the server keeps
(`DraftStore`, `CreationStore`), where other tabs of the user save the same draft.

| Variable | In the code |
| --- | --- |
| `draft` | `task_drafts`: the content of each version so far, of which the row holds the last |
| `terms` | counts the changes of what a preview depends on besides the draft: the model, the permissions, the clock |
| `previews`, `tasks` | `task_creation_previews`; the tasks with the command that created each |
| `content`, `saved`, `preview`, `confirmed`, `conflict`, `busy` | the state of `CreationEditor` |
| `commands`, `pending` | the creations submitted, and the one whose marker is there (`PendingCommand`) |
| `job` | per handler of the editor, what it awaits and what came back |
| `late` | saves and creations under way that nobody waits for |

`load`, `persist`, `goTo` (a save that goes on to the preview), `copyAsNew` and
`create` are handlers: one action starts a request, the server's action (`Serve...`)
or `Fails` answers it, and a last one (`Saved`, `Loaded`, `Previewed`, ...) is what
follows the await. `Open` is any new mount of the editor, whose effect aborts the
handlers of the one before; an aborted or failed request may still be carried out
(`ServeLate`). Two buttons, the one beside a conflict and the one of a draft that
could not be read, are not disabled while the editor is busy, so that two handlers
may be under way. Contents are values and all complete; what makes a
preview refuse a creation is that its terms are `Blocking`. A copy goes to a draft
of its own and ends here. Why a request is refused, beyond versions, content and
terms, is a choice of the server (`ServeOtherwise`).

### `MCAgentRuns`, `MCBrowserSession`, `MCModelOperations`, `MCTaskCreation`

The symmetry sets: runs, intents, users, projects, handlers and contents are interchangeable,
and none of these runs has a liveness property. `MCModelOperations` also says which
service its profile names.

## 4. The runs

| Run | Instance | What it shows |
| --- | --- | --- |
| `task_safety` | 2 processes, 2 Pods, no late Pods | types; `EpochFence`; `AskedAtMostOnce`; `RunningIsEquipped`; `NothingOutlivesTheTask`; the protocol implements `Licence` |
| `task_live` | 1 process, 1 Pod, late Pods, fairness | `StopTerminates` |
| `sup_worker` | 1 id, 2 restarts, failing disk | types; the supervisor implements `Worker` |
| `sup_live` | 1 id, 1 restart, working disk, fairness | `ChildrenAreStopped`; `StatusIsFinal` |
| `tools_settle` | 2 calls and 1 platform call, fairness | types; `ExitIsProven`; `DeletedWhenQuiet`; `EndedIsSettled`; `ClosingTaskEnds` |
| `agent_runs` | 2 runs, 2 intents, 1 completion each | types; `OneProcessPerIntent`; `WritesAreTrue`; `SyncedIsComplete`; `ReviewedIsLast`; `EndedIsQuiet` |
| `command` | 2 users, 2 commands, one of them a start | types; `NothingLeftBehind`; the pages implement `Submission` |
| `sync` | 5 versions, 2 pages of 1 event, 4 troubles, fairness | types; `CursorIsEarned`; `NeverGoesBack`; `CatchesUp` |
| `session` | 2 users, 2 sessions, 2 versions of permissions, 2 reads of a kind | types; `ShownIsNotOlder`; `LogoutMasks`; `PermissionsNeverGoBack` |
| `models` | 2 handlers, 1 service, 1 profile, 4 operations, 4 revisions | types; `AskedOnce`; `OfferedIsThere`; `RevokedIsBlocked` |
| `creation` | 2 handlers, 2 contents, 2 versions, 2 previews, 2 sets of terms, 1 command, 1 late request | types; `AcknowledgedIsStored`; `TaskIsAsConfirmed` |
| `command_denied` | as `command` | *violated*: a command that was carried out loses its marker |

The other configurations in this directory are to be run by hand; each finds the
counterexample that section 5 describes.

Bounds. `MaxEpoch = 2`: the epoch is compared for equality with that of the
execution, which is 1; the counter saturates instead of stopping. Two processes
are one crash with everything that the first left behind; a third meets the same
rows as the second. Two Pods are the recorded one and another one of its name.
`sent` counts to two, one more than allowed. Nothing else is bounded: cancels,
ticks, losses and changes of permission may recur without limit. The liveness
runs take one process, since a crash of the consumer leaves its row in states
that a failed tick leaves too, and adoption only adds a request to stop.

Of a supervisor's ids only the launches affect one another, which wait in one
queue. One id suffices here, with launches of itself in the queue; that several do
not disturb one another is proved for any number (`SupervisorProofs`). Two restarts
read a record that a restart wrote. `MaxQueue` bounds
the launches that wait, and at most one request to cancel an id is under way at a
time; the first changes no record, and a second cancel would save the same.

Two runs may be for one intent or for two, follow one another or overlap; a third
would meet the same rows, and the limit of two runs per task keeps it out while
they are open. Each run has one write, the completion, which is the only kind that
also settles its run and ends the task; the other kinds do less. Two commands in
one tab are one and its successor; a third finds what the second left. Of the
history of a task, five events with two read at a time are one more than twice
what a first read reaches; `MaxTrouble = 4` is one more than the failures after
which polling waits for the user. Two sessions and two versions are a change of
user, a change of permissions, and both; two reads of a kind are a late one and
the current one. Four operations are the creates of a service and a profile, a check
and a revocation, with a publication before it; two handlers are one and whoever
overtakes it. (Five operations, so that a published version is revoked twice, were
run once: the same holds, in 4.2 million states.) Of a draft, two versions are
one and what replaces it, two previews and two sets of terms the one that was
confirmed and the one that holds; one late request is a save or a creation whose
sender has given up, beside two handlers that have not. Under the second terms no
task can be created (`Blocking`); proofs are for any.

Fairness (`FairSpec`) of the task. `Core.tick` is called in a loop without end and each await
in it ends with a reply or a timeout, hence weak fairness of the consumer's steps;
it visits an execution again and again, hence strong fairness of `Tick`. The steps
of `stop` are strongly fair with a successful outcome: a service asked every second
is taken to answer well now and then. Requests in flight land, and a Pod being
deleted goes. Users, permissions and crashes are not fair.

`StopTerminates` says that no task stays for ever in a state where its stop could
succeed. It excludes on purpose the two states the code cannot leave: a recorded
key that does not exist at the gateway (see Divergences) and a Pod of the
task's name whose uid is not the recorded one, which `verify_pod_ownership`
refuses to delete.

Fairness of the supervisor. The event loop serves each handler, timer and
completed file operation (weak fairness of the launch under way, of saves,
timers, close events); a child that was sent SIGKILL ends; the process exits 5.5 s
after SIGTERM; deadlines pass. Nobody is obliged to ask for, cancel or lease
anything, children need not end by themselves, and disks that fail are left out of
these runs.

Fairness of the tool calls. Handlers end, with a reply or after 10 s; a deleted Pod
goes. `tick` polls the open calls of a running task and `stop` those of a closing
one about once a second, so that answers and their arrival are strongly fair, and
so are the visits of `stop` (with the agent runs settled, which is another
component's business). The supervisor is not fair: it need not show anything.
`ClosingTaskEnds` says that a task does not stay in `stop` for ever while the
supervisor shows each of its open calls as exited; a call that was lost, or whose
supervisor lost track of it, keeps its task open, as the documents ask for. Two
calls settle in any order; nothing in `ToolCalls` needs a bound.

Fairness of the task page. Requests are answered (or fail, which is a trouble) and
replies taken notice of; the timer fires. Nothing forces a user to show the page
or to ask for a resynchronisation, so `CatchesUp` says: again and again the page is
hidden, or up to date, or waits for the user and says so.

Deadlock is checked in the runs of the task, of its calls, of the commands and of
the draft; there is none, since permissions may always change, the consumer always
ticks, and an editor can always be opened anew.
It is not checked in those of the supervisor, which is down for good once
`MaxRestarts` is used up, of the task page, which stops polling a terminal task, of
the agent runs, whose task ends, and of the session and the model operations, whose
counters are bounded.

## 5. Divergences

One has a run of its own, `command_denied`: the reply to a POST that was carried
out is lost and the user's permission withdrawn. The retry under the same key is
denied before the receipt is looked up, and `retryOriginal` clears the marker on every explicit 4xx, so an
accepted command whose task was never read is no longer to be confirmed.

The configurations for the following are to be run by hand, `tlc -config
<configuration> <module>`:

* `TaskLifecycle_refused.cfg`, `RefusedKeyTerminates`. `provision` sets `key_hash`
  before it asks for the key. If the gateway refuses, the task is told to stop,
  `stop` tries to block a key that does not exist, is rejected, looks it up, finds
  nothing, and returns before its final transaction, on every later tick
  (`core.py:666`; docs/architecture.md:260).
* `TaskLifecycle_cancel.cfg` of `MCTaskLifecycle`, `CancelEndsCancelled`.
  `stop_requested` protects `cancelling` and `completing` but not `reconciling`. A
  cancelled task whose stop was delayed is reconciling; the deadline, a restart or
  a late handler moves it to `completing` with a new reason, and it ends as
  completed (`store.py:45`; core-loop-plan.md:35).
* `TaskLifecycle_project.cfg`, `ProjectIsStopped`. The reply to the PUT that stops
  the native project is not looked at, and no PUT is sent when the project's id was
  never learnt (`core.py:652`; implementation-contracts.md:31).
* `Supervisor_cancel.cfg`, `ExpiryStopsChildren`. A cancel between the registration
  and the spawn finds no child to signal, and the launch does not look at
  `cancel_requested` before it spawns. The interval skips what has been cancelled,
  so neither lease nor deadline stops the child afterwards (`supervisor.mjs:22`;
  services/task-workers/README.md:13). `ChildrenAreStopped` holds because it asks
  only for children that were not cancelled when they were spawned.
* `Supervisor_result.cfg`, `ExitedHasResult`. The close handler sets `exited`
  before it awaits the output of which the result is made: a GET in between sees
  one without the other (`supervisor.mjs:64`; services/task-workers/README.md:11).
* `ToolCalls_platform.cfg`, `PlatformCallsSettle`. A platform call is completed by
  the handler that registered it and by nothing else; if that ends before, `stop`
  finds the call open on every tick (`core.py:415`;
  docs/cairn-architecture-decision.md:82).
* `AgentRuns_cancel.cfg`, `CompletionIsNoCancellation`. `core_action` settles the
  run of a completion after two awaits. A stop that comes during them finds the run
  exited and open, and records it as cancelled with its result rejected, although
  the graph has been completed by it (`core.py:529`); the comment at `core.py:527`
  says that the order is there to prevent this.
* `PendingCommand_start.cfg`, `RefusedHasNoEffect`. A start is refused while
  `execution_services` has no fresh heartbeat (`execution_store.py:52`), or for one
  of the reasons at lines 53 to 68, any of which may pass. If it was a retry whose
  first POST is still under way, the 409 has `retryOriginal` clear the marker
  (`tasks.tsx:213`; `issueControl` at line 622 does the same), and once the service
  is ready the first POST is carried out under the same key: a task is started whose
  user was told that the command had been refused, and nothing is left in the tab by
  which its receipt could be asked for. docs/stages/phase-1b/b23-spec.md:24 says that
  an explicit rejection leaves no receipt of success. Of a refusal as out of date
  that is true, which is what `ImplementsSubmission` says.
* `TaskSync_gap.cfg`, `NoEventIsSkipped`. The initial load, and the
  resynchronisation, read at most five pages of the history from its beginning and
  then take over the cursor of the snapshot, which stands at its end. What lies
  between is never read (`tasks.tsx:553`; docs/frontend-architecture.md:113).
  `CursorIsEarned` says what does hold: everything that a first read can reach is
  on the page.
* `ModelOperations_failed.cfg` of `MCModelOperations`, `FailedLeftNothing`. A
  created object is read back in the same `try` as its creation: when that read is
  refused the operation is recorded as failed, not as unknown, and is never read
  back again although the object exists (`model_workflow.py:94`;
  docs/stages/phase-1c-model-config/spec.md, "持久化与并发").
* `BrowserSession_late.cfg`, `CompleteIsConfirmed`. A tab that is logging out
  learns from a read of the session that it is over, a new login begins and is
  logged out in its turn, and the reply to the first logout arrives:
  `finishLogout` does not ask which logout it ends, so the second is shown as
  complete while its session is alive (`state.ts:200`; docs/stages/phase-1a/spec.md:97).
* `TaskCreation_preview.cfg` of `MCTaskCreation`, `PreviewIsOfEditor`. The draft
  could not be read and is asked for twice; the first answer opens the editor, its
  user asks for the preview, the second answer unlocks the editor while the preview
  is awaited, something is typed, and the preview is shown beside it
  (`CreationPage.tsx:69`; docs/stages/phase-1c-task-creation/spec.md:28). What is
  created is what the preview shows, which `TaskIsAsConfirmed` says. With one
  handler the property holds.

Met on the way: `create_call` sets `running` when the PUT is answered, also when a
poll has recorded the exit before. The next poll sets it right; when the Pod is
deleted first, there is nobody to ask and the task stays in `stop`. A Pod whose
create request timed out and is carried out after `stop` has seen NotFound outlives
the task, which is why what is said about Pods is said without `LatePods`.

## 6. The proofs

All are checked by TLAPS, for every number of processes, Pods and ids and every
bound; they rest on the named assumptions on the constants only.

`TaskLifecycleProofs`:

* `TypeCorrect`: `TypeOK` is inductive; one lemma per group of actions.
* `LicenceIsFenced`, `EndedStaysEnded`: `EpochFence` is not inductive, since it
  does not say which epoch an execution has. `FenceInv` adds that an execution is
  started under epoch 1, that a closed task has a later one, that the consumer is
  only at work on an execution, and that while it is in `stop` its task is
  closing (nobody takes a closing task out of its hands, which is what makes the
  final transaction safe). Both theorems follow from it.
* `NeverAskedTwice`: `AskInv` ties the counters to the rows: a state of `pending`
  means that nothing was sent, and the row leaves `pending` in the step before
  the request leaves.
* `RunningTaskIsEquipped`: `KeyInv` (what the rows say of the key is true, and so
  is what `stop` has learnt of it) and `EquipInv` (the consumer's place tells
  which resources it has seen).
* `NothingIsLeftBehind`, without late Pods: `PodInv` (what `stop` believes of the
  Pod is true) and `EndInv` (the execution is stopped exactly when its task has
  ended, and the consumer has then finished with it).

* `TaskIsALicence`, the last section, without late Pods. A step moves at most one
  resource and then leaves the task alone (`OneResource`), does so only for a task
  that is open or closing (`HeldByOpenTask`), and moves the task only along the
  licence's phases (`TaskMoves`).

`SupervisorProofs`, for any set of ids, any bounds, with a disk that fails:

* `SupervisorTypeCorrect`: `TypeOK` is inductive.
* `RecordPrecedesChild`, `SupervisorIsAWorker`: both from `SupInv`, which says of
  each id separately what the launch under way, the chain of saves, the record,
  the volume and the process know of each other. `Claim`: nothing exists of an id
  without its directory, and the launch that has not spawned is the one that made
  it. `Chain`: a save awaited by the launch is there exactly while it waits, which
  is what puts the record on disk before the spawn. `Truth`: a copy that says
  exited, in memory, in a save or on disk, is of an id whose process has ended.
  `Down`: while the supervisor is down nothing of it is left.
  None of the parts is inductive alone: the step from a save to the launch it
  wakes needs all of the first three.
* `ExitedIsFinal`: when no file operation fails, `status.json` never takes back that
  a process has exited, however many saves wait when it does and however often the
  supervisor restarts. `Final` says that after a save which says exited there are
  only such saves in the chain, and that the record in memory, of which the next
  is a copy, says so too; a restart keeps it since it reads what is on disk. The
  theorem needs the working disk: a save that fails after the spawn makes
  `launch()` set the record to *unknown*, perhaps after the exit was written, and
  the next save takes that to disk. That case is the hazard at
  `supervisor.mjs:66`; the run `sup_live`, too, has a disk that works.

`ToolCallsProofs`, for any sets of calls: `ToolCallsTypeCorrect`,
`ExitedCallsHaveEnded`, `PodIsDeletedWhenQuiet` and `EndedTaskIsSettled`. They
follow from `ToolInv`: what the row, the request and the news of each call tell of
its work (`CallInv`: a request on its way means that the work is new, an exit
that it has ended), and how far the end of the task has got (`Stages`: once the
Pod is being deleted the task is not running and all is quiet, once it is gone no
reply is on its way, so that nothing can open a call between the check of `stop`
and its final transaction, or later).

`AgentRunsProofs`, for any runs and intents, with whatever replies lost and each of
the three programs restarted at any step: `AgentRunsTypeCorrect` and one theorem for each of
the invariants of the run, `OneProcessPerIntentHolds`, `NativeWritesAreTrue`,
`SyncedResultsAreComplete`, `ReviewedRunIsLast` and `EndedTaskIsQuiet`. All follow
from `AgentInv`, whose parts no one of them could do without:

* `WriteInv`, of each native write: it is sent at most once and not before its
  record, and a settled record says what the Cairn server did; the holder of the
  lock has made its record.
* `RunInv`, of each run: a PUT on its way or a run just claimed means that its
  process has not started, a saved output that it has ended, and a run that may
  still be at work (`Wanted`) is open on record. This is what lets an admission
  rely on the rows alone.
* `FlightInv`: a write that is under way is one that the runner waits for, after its
  output was saved, and a run has one at a time; that it is no longer heard, or
  reports something other than success, is why a write may be under way after it.
* `SyncInv`: after a run is settled as synced nothing of it is unanswered, and, while
  the task runs, its runner is past asking. `SyncedIsComplete` alone does not
  exclude that the next write is asked for.
* `TaskInv`: of the runs of one intent at most one is wanted, and none is after
  the task's end or a review that stops it with its results. Together with `RunInv` it
  gives the three properties about processes: what is on its way when the task
  ends, or when another run is admitted, would otherwise start one later.

`ModelOperationsProofs`, for any versions and handlers, with every reply late, lost
or repeated: `ModelsTypeCorrect`, `RequestsAreSentOnce`, `WhatIsOfferedIsThere` and
`RevocationIsReal` follow from `ModelInv`, which says of each operation that its
request leaves in the step that takes it out of *prepared* and that its outcome is
what happened (`OpInv`), of each handler that it finishes with the truth
(`HandInv`), and of each version that what is synced is at the gateway or blocked
there, and that only what is revoked is blocked (`VersionInv`). None is inductive
without the others: a handler that finishes an operation late rests on `HandInv`,
a takeover on `OpInv`. `Kept` is what every step leaves standing. It also gives
`OutcomesAreFinal`, for which there is no run: an outcome on record is never another.

`BrowserSessionProofs`, for any users, projects and versions: `SessionTypeCorrect`,
`NothingOlderIsShown`, `ViewsStayMasked` and `PermissionsOnlyAdvance`. `SessionInv`
adds to the first three what the reads under way know: an answer to a read of the
current generation is not behind the session shown (`SessionRead`), which holds
because reads under one key are one read (`OneFresh`), and a current read of a
project is for the session and the project shown (`ProjectRead`). What has been
passed by a generation may hold anything, and is discarded.

`TaskPageProofs` has two parts, which share nothing but the page they are about.
The first, for any users, keys and handlers of `PendingCommand`: `CommandTypeCorrect`,
`TabIsClean`, and `PagesKeepThePromise`, that every step of the pages, the notice
and the server is a step of `Submission` or leaves it alone, whichever commands are
starts and however often the service is unready for them. `CommandInv` says of
each key that only the command of the marker is open and that what the user was
told is true, also of requests yet to come (`KeyInv`), and of each handler that
the reply it holds is true (`HandlerInv`); `PromiseStep` is proved with it, action
by action.

The second is about `TaskSync`, for any size of a page, any bound on pages, any
number of versions and of troubles (`TaskSyncAssumption`): `FollowingTypeCorrect`,
`CursorAlwaysEarned` and `PageNeverGoesBack`. `PageInv` adds what an operation in
flight knows: it has read whole pages from where it began, and a load waits for its
last snapshot only when it has read up to the version of its first one, or as many
pages as it may (`OpInv`, of `first` and `poll` alike); a poll that is under way
is the current operation, so that nothing else moves the cursor it began from
(`PollInv`). Without
`OpInv` the step in which an operation finishes could not tell that its cursor
is earned, and without `PollInv` a poll could put back a cursor that a load
had moved; `NeverGoesBack` needs that what is shown is at most the latest seen.

`TaskCreationProofs`, for any handlers, contents and bounds: `CreationTypeCorrect`,
`AcknowledgedDraftIsStored` and `ConfirmedTaskIsCreated`. `CreationInv` has four
parts: what the server stored agrees with itself (`ServerInv`: a task is of the
preview its command names, and a command confirms the preview it is for), what is
late is of a command or a save that was made (`LateInv`), what is confirmed is what is shown (`EditorInv`), and an answer a
handler holds is true of the server (`JobsInv`). A version, once written, is never
rewritten, which keeps the answers true while other tabs go on.

Three theorems go beyond the runs: `EndedStaysEnded` (`TerminalIsFinal`),
`RecordPrecedesChild` (`RecordedBeforeSpawn`) and `OutcomesAreFinal` are about
properties that no run checks.

Only model-checked: the liveness properties `StopTerminates`,
`ChildrenAreStopped`, `ClosingTaskEnds` and `CatchesUp`, since liveness is out of
the prover's reach. Every invariant and every action property of the passing
runs, and the three refinements, are proved.

## 7. What is not modelled

The bridge and its journal, login handshakes, the
artifact store and the ledger of the agent integration, as planned above; of the
assessment the computation of its evidence; of drafts the validation of their
contents and scopes, and `taskPreview.tsx`, to which no route leads. The programs that a supervisor starts
are external: they run, and end. So are the Cairn server, LiteLLM and Kubernetes,
modelled from how the code uses them. Left out for good: the contents of results
and reports, the wording of events, the layout of pages, the generated validators
of the contracts (a schema each, by far the largest file of the repository), URL
and schema validation (pure functions on strings, covered by the repository's
tests), the operator's scripts, and cryptography, whose tokens are taken to be
unforgeable.
