# A TLA+ development of codex-monitor

codex-monitor receives events from scripts, CI, chat and file watches, keeps them
in a durable inbox, and hands each one to a Codex thread through the queue of the
native App Server that owns the thread. The Rust runtime (`rust/src/`) is the
implementation; the Python package (`codex_monitor/`) is the frozen first version of the
same protocol.

This directory specifies the parts of the runtime whose correctness depends on the order in which
processes, timeouts, crashes and messages happen. TLC checks small instances; TLAPS proves the theorems
listed below for every value of the constants.

## 1. Inventory

| Component | State | Operations | Talks to |
|---|---|---|---|
| Durable inbox (`store.rs`) | `bindings` (enabled, removed), `events` (state, attempts, next_at, accepted_at) | bind, route_action, watch_action (its binding), ingest_tx, claim, finish, defer_unavailable, recover_submitting, uncertain_events | every other component, each call one SQLite transaction |
| Delivery workers (`runtime.rs`) | spawned jobs | dispatch, deliver_one, reconcile, request_maintenance | inbox, session pool |
| RPC connections and session pool (`session.rs`) | per connection: call lock, next id, transport, `invalid`; per endpoint: one connection | connect, request_raw, close, pool connection, check_target, deliver, inspect | App Server (external), workers, owner health, reconnect |
| Requests (`store.rs`, `runtime.rs`) | `requests`, `request_updates`, `request_notifications` | request_create, request_update, request_maintenance; settlement inside finish, claim and route_action | inbox: a notification becomes an event |
| Reply outbox (`store.rs`) | `replies` | reply_put, replies, reply_ack | agents and adapters |
| File collector (`collector.rs`, `store.rs`) | `watches` (baseline, epoch), dirty flags, registrations, debounce | process_watch, run, release_registration, checkpoint, commit_sample | inbox: a change becomes an event |
| Discord gateway (`discord_gateway.rs`) | raw messages, cursors, deliveries, reactions, resume state | enqueue, catch_up, prepare, deliver, seen, connection, run | HTTP ingress of the inbox; Discord (external) |
| Owner reconnect (`reconnect.rs`, `reconnect/systemd.rs`) | unit files and services | plan, execute, rollback | service manager (external), session pool |
| Owner health (`owner_health.rs`) | cache per endpoint | attach, probe | session pool, dashboard |
| Alerts (`alerts.rs`) | last confirmed and candidate states | Tracker::update | dashboard |
| Migration (`migration.rs`) | files of a state directory | migrate | command line |
| HTTP ingress (`runtime.rs`) | none of its own | handlers over the store | senders |
| Command line, configuration and locks (`main.rs`) | serve.lock, config | one-shot commands, Serve | store |
| Terminal dashboard (`ui.rs`, `board.rs`, `resources.rs`) | view state | rendering, keys | store, owner health, reconnect |
| Isolated installer and its service (`installer.py`, `service.py` in `rust/`) | marker with the releases, their directories, the current one, launcher; definition and marker of the service | install, upgrade, rollback, uninstall; service install, start, restart, stop, remove | file system, launchd |
| Native service manager (`service.rs`) | unit files | install, start, stop | launchd, systemd |
| Python receiver (`monitor.py`, `session.py`, `http.py`, `cli.py`) | `bindings` (endpoint, enabled, removed), `events`, `decisions` | bind, rebind, enable, dashboard_action, managed_set_enabled, managed_remove, ingest, resolve, dispatch_once | App Server, senders, operators in other processes |
| Python requests (`requests.py`, `request_dispatch.py`) | `requests`, `request_updates`, `request_notifications` in a database of their own | create, transition, expire_due, pump | Python receiver: a notification becomes an event |
| Python collector, dashboards and tools (rest of `codex_monitor/`) | `managed_watches`, view state | sampling, rendering, service commands | Python receiver |

What makes each one correct, and what makes that hard:

* **Inbox and workers.** The App Server takes an event at most once and a route's events in order,
  although `thread/queue/add` has no idempotency key, its answer may be lost, the process may die between the
  write and the answer, routes are paused and removed by other processes, and senders repeat
  themselves. Receipts are true and final. One route's trouble does not stop the others. A worker that meets a row in
  a state it does not expect returns an error, which ends `serve`.
* **RPC connections.** Several tasks share one ordered byte stream. A request may be cancelled (by a
  deadline around it, or at shutdown) in the middle of a frame, and its answer may still
  come. No caller may read another's answer; "unavailable" must mean that nothing was written, because
  the inbox then hands the row over again.
* **Requests.** An update races the expiry and other updates; the revision, the state and the outbox row are
  written together, one notification per revision reaches the owner, in order.
* **Collector.** A change seen while a sample is in flight must not be lost, a paused or edited
  watch must not be committed from a stale sample, the baseline and the event change together.
* **Python receiver.** One thread delivers and also settles what is in doubt, which an operator may decide about and whose route an operator may
  move to another App Server meanwhile. The dispatcher commits before it speaks to the App Server and again afterwards; between the two it may die.
* **Python requests.** A request and the event that tells of it are in two databases, so that no transaction spans both. Capacity for the end of a
  request is reserved when it begins and must survive whatever the others do.
* **Discord gateway.** Nothing the gateway or the history showed is lost, and nothing is delivered
  twice, across a crash between any two of: raw insert, sequence, cursor, post, reaction.
* **Reconnect.** What the user confirmed is what is applied, or nothing is; a report is true of every unit and service, also
  when steps of the rollback fail; the permissions that were in force are never lost.
* **Installer.** Every command is a sequence of renames and removals; each may fail and the process may die after any of them, other
  commands run at the same time. What the current release is, what the service runs and what the markers say must agree at every moment,
  since nothing repairs them.
* **Owner health, alerts, migration.** A stale probe does not overwrite a fresh one; one blip raises no alert;
  a crash leaves a directory one of the two runtimes can open.

The hazards are listed with their lines in `PROJECT.json`, each with the properties that cover it
or the reason no property does.

## 2. Plan

Order of the work, the most important behaviour first:

1. `Delivery` (abstract), `Inbox`, `InboxProofs`, `MCInbox` -- **done**.
2. `RemoteCall` (abstract), `RpcConnection`, `RpcProofs` (inductive invariant, the safety properties, refinement of
   `RemoteCall`), `MCRpc` -- **done**.
3. `Requests`, `MCRequests` -- **done**: EXTENDS `Inbox` and composes the request ledger and its notification outbox with the
   event rows the notifications become. `RequestsProofs` -- **done**: everything its run checks is proved.
4. `Collector`, `MCCollector` -- **done**: the dispatcher loop of `collector.rs` with its jobs, epochs, dirty flags and registration
   counts, and `commit_sample`. `CollectorProofs` -- **done**: its safety is proved, registrations included.
5. `DiscordGateway`, `DiscordProofs`, `MCDiscord` -- **done**: stored messages, gateway sequence, history cursors, deliveries and reactions
   across crashes and changed configurations, with an external receiver that answers a repeated event from its receipt; its
   safety is proved.
6. `Reconnect`, `ReconnectProofs`, `MCReconnect` -- **done**: preview, change, rollback and restart of a shared owner by
   several dashboards, a failure or a death at every step; everything its run checks is proved.
7. `Installer`, `InstallerProofs`, `MCInstaller` -- **done**: the isolated installer of the native runtime and its service, as steps on the disk
   with a failure or a death at each; everything its run checks is proved.
8. `Receiver`, `Lifecycle`, `LifecycleProofs`, `MCLifecycle` -- **done**: the receiver of the Python package with its operator's commands, and
   on top of it the requests whose notifications cross two databases; everything its run checks is proved.

The other components are not modelled; section 8 says why.

Every module takes its sets and bounds as CONSTANTS with a named assumption, has one action per
operation, and states its invariants as conjunctions of named parts, so that it can be
proved about as well as checked. No module declares a RECURSIVE operator.

## 3. Modules

### Delivery and Inbox

`Delivery` says what the receiver promises about one durable inbox, in terms of what a sender and the App
Server can observe: receipts are opened, those of one
transaction together, the App Server takes an open receipt at most once and after all
earlier ones of its binding are closed, a receipt is confirmed only when it was taken and refused only when it
was not.

`Inbox` is the code. Each store operation is one SQLite transaction and therefore one action. A delivery is
several actions, because `deliver_one` awaits between them:

| Action | Code |
|---|---|
| `Bind`, `PauseOrResume`, `RemoveRoute`, `RemoveWatch` | `bind`, `watch_create`, `route_action`, `watch_action` |
| `Ingest` | `ingest_tx` |
| `Claim`, `ClaimNothing` | `claim`: the loop that settles expired rows, then takes the first eligible one |
| `Preflight`, `Submit`, `LoseAnswer` | `SessionPool::deliver`: check_target, write of `thread/queue/add`, no usable answer |
| `FinishSettled`, `FinishRetryable`, `FinishUncertain`, `DeferUnavailable` | the arms of `deliver_one` with `finish` and `defer_unavailable` |
| `Inspect`, `ReconcileAccept` | `reconcile`: evidence is read, later stored |
| `NativeAccept`, `NativeRefuse`, `NativeForget` | the App Server, external |
| `GrowOld`, `BackoffElapses` | the passage of time, as `claim` reads it |
| `Die`, `Start` | a crash or stop of `serve`; `recover_submitting` before the workers start |

State: `route` is `bindings.enabled/removed`; `events` the table, a row's place is its `seq`; `job` how far the
`deliver_one` of a row is; `found` the evidence a reconcile job has read and not stored; `wire`,
`placed`, `visible` are the App Server's: requests it may still read, submissions it took in order, and those
it still shows. `aged` marks the rows older than `MAX_AGE_SECONDS`.

Abstractions. A message is its key. Times are kept as far as guards read them: rows never deferred sort
before deferred ones and by `seq`; the order among deferred rows is left open, so TLC tries every one.
`MAX_PENDING`, the rate limit and the trace budget only make `ingest` refuse without a change, which the
model allows by not taking `Ingest`. Request notifications, which `finish`, `claim` and `route_action` settle in the
same transaction, are added by `Requests`.

A row whose submission the App Server never got and whose answer was lost stays `uncertain`, and holds its
binding, until evidence appears. `docs/OPERATIONS.md` describes a `resolve` command for it; the Rust command line
has none, so no action releases such a row, and no liveness property claims it.

### RemoteCall and RpcConnection

`RemoteCall` says what the callers of the session pool rely on when they classify the end of an RPC: an
answer is the App Server's answer to this very request, "unavailable" means the server never sees the request,
"uncertain" means nothing. `Inbox` is written against it: `Preflight` may be unavailable only before `Submit`,
`LoseAnswer` leaves the request in `wire`.

`RpcConnection` is `SessionPool::connection`, `RpcConnection::request_raw`, the `RequestGuard` and `close`, for any
number of calls, endpoints and connections. A call moves through `at`:
`pool` (before or waiting for the lock of `sessions`), `connecting` (holding it), `closing` (closing what it
retired), `waiting` (for the call lock), `sending`, `receiving`, and how it ended. A connection is named by
the call that opened it. A call that its caller makes under a deadline, or that a stop aborts, may be dropped at
each of these points; a dropped write may leave half a line in the stream, a dropped read loses what it had
read of one.

Abstractions. The stdio transport stands for all three: a websocket frame is never written or read in part. The handshake
of `connect` happens on a connection nobody else has and is one action that succeeds or fails. Notifications
and requests of the server, which `request_raw` passes over, are not modelled. `ensure_subscribed` of resident
subscriptions and `SessionPool::close` at exit are not modelled.

### Requests

`Requests` EXTENDS `Inbox` with the request ledger of `store.rs`, the outbox of its notifications, and the maintenance
tick of `serve`. Its steps are those of `Inbox` with the notifications settled in the same transaction, and its own:

| Action | Code |
|---|---|
| `RequestCreate`, `RequestUpdate` | `request_create`, `request_update` with `insert_request_notification_tx` |
| `Maintain` | `request_maintenance`: expire what is due, then link or turn into events what is pending, all in one transaction |
| `Finish`, `ClaimAndSettle`, `RemoveAndSettle` | `finish`, `claim`, `route_action` with the updates of `request_notifications` they make |
| `InboxOnly` | every other step of `Inbox`, which leaves both tables alone |
| `ExpiryComes`, `NoticeComes` | the passage of time, as `request_maintenance` reads `expires_at` and `next_attempt_at` |

State: `request` is a row of `requests`, `updates` its rows of `request_updates`, `expiry` its `expires_at` against the clock,
`notice` the rows of `request_notifications`, named by request and revision; `row` is the event it is linked to.

Abstractions. Nothing tells `completed`, `failed` and `cancelled` apart: they are "ended". An update with a used id, or a
stale revision, changes nothing and is not a step. Of the limits of a binding's queue and rate, `Maintain` keeps the
consequence, that the notification waits, as a free choice, because which of them is reached depends on clocks. The order in
which a tick takes its candidates is left open, as is which of them it takes when there are more than `Batch`. A tick takes at most one
notification of a request, and those of different requests have different keys, so none finds the event that another made in the same tick:
`Maintain` therefore writes all of them at once, the new events in any order into the first free rows (`Placings`).
The longest history of a request has three entries, so `MAX_REQUEST_UPDATES` is never reached.

A notification whose event id is already taken by an event of state `ignored` is linked to it and stays pending; the model
keeps this, and no property says that such a notification ends.

### Collector

`Collector` is the loop of `collector::run` and the rows of `managed_watches` it writes. The dispatcher keeps a *runtime* per
watch; a due watch is sampled by a *job*, which works on a copy of its runtime; when the job is joined the copy replaces the
runtime, unless the watch is in another epoch by then.

| Action | Code |
|---|---|
| `watch_create`, `watch_action` | the commands; every action begins an epoch |
| `Finish`, `Reload`, `Receive`, `Timer` | the branches of the `select!`, each followed by `Turn`: the overflow mark, then the jobs it starts |
| `Sample`, `SampleUnreadable`, `SampleFails` | a worker's answer, as `process_watch` sorts it |
| `Store` | the rest of `process_watch`: checkpoint, debounce and `commit_sample` |
| `Change` | a file changes and `notify_path` is called, external |
| `IntervalElapses`, `DebounceElapses` | the passage of time, as `next_due` and `first_seen` are read |
| `Die`, `Start` | death and restart of `serve`; the memory of the collector is lost |

State: `row` is `managed_watches`, `runtime` and `job` as above, `registered`, `subscribed` and `alias` the registrations with the
system's file watcher, `queue` and `overflow` the channel of reports. `fresh`, `streak` and `unread` are history variables
that only properties read: what the file contained since the last command, equal samples in a row, and whether the file
changed since a job last tried to read it.

Abstractions. A content is a value; `Observes` is what a watch makes of it, none if its condition has no result. The worker
pool is the bound `MaxWorkers` and the three ways a sample ends. The rotating start of the scan is a free choice among the due
watches. A reload goes through the list of watches
one by one, since the registrations that one watch gives back or takes are what the next one finds (`Reregistered`). A report names the watched file and the directory it is reported in; reports of other files and of directories, which
only make watches dirty, are left out. `Target`, the directory a path really leads to, does not change. A report and its
handling by `notify_path` are one step with the change: a later report only adds samples.
An error of the store ends the loop and with it `serve`: that is `Die`.

`ChangeIsNoticed` leaves out watches that share a directory. Of two such watches, the first may have been refused its registration, or
have lost it (section 7); when the other registers the directory again, a change from before waits for the interval of the first.

### DiscordGateway

`DiscordGateway` is one process of `discord_gateway.rs`: the connection task, the history task it spawns and the worker share
the adapter's database and nothing else, so every statement on it is an action.

| Action | Code |
|---|---|
| `Identify`, `Resume`, `ResumeRefused` | `Session::auth` and how Discord answers it |
| `Take`, `Checkpoint` | a dispatch in `connection`: `enqueue` or the start of the history task; then the sequence is stored |
| `Lose`, `Invalidate`, `SaveSession` | the connection ends, with or without the session; `run` stores what is left of it |
| `ScanChannel`, `NextPage`, `StoreNext`, `StoreCursor` | `catch_up`: request a page, `enqueue` its messages, move the cursor |
| `ScanDone`, `ScanFails` | `connection` takes the result of the history task |
| `NextPhase` | the worker's loop, with the queries of `prepare`, `deliver` and `seen` |
| `Prepare`, `PrepareFails` | a row of `prepare` |
| `Post`, `Delivered`, `DeliverFails` | a row of `deliver`: the request, its receipt, or neither |
| `React`, `NotConsumed`, `SeenFails` | a row of `seen` |
| `Start`, `Stop` | `run`, with any configuration; a signal, a fatal close code or a crash |
| `Say`, `Consume` | Discord and the native session, external |

State: `raw`, `pending`, `cursor` and `saved` are the adapter's tables (`message_routes` goes with `pending`); `session`,
`link`, `ready`, `scan` and `work` are memory; `server` is Discord's session with the log it replays on resume.

Abstractions. A message is its number, which is also the order of identifiers and of time. Heartbeats, health files and images
are left out: a missed acknowledgement is a loss of the connection. `verify` and the request for the gateway's address fail like
a lost connection. A page that is in hand when the connection is lost is stored first, since `catch_up` does not await between the
statements of a page. `delivery_max_attempts = 0`, which means no limit, is not an instance.

`catch_up` gives up after 100 pages (`MaxPages`) of a channel, but each page has moved the cursor; the next connection goes on from
there and can become ready. The model has it so (`ScanFails`), although `docs/DISCORD-GATEWAY.md` lets a reader expect that a
longer absence needs an operator.

### Reconnect

`Reconnect` is what a dashboard does to the services of one endpoint when its user confirms a plan: `reconnect::execute`, with the
preview and confirmation of `ui.rs`, for several dashboards at once.

| Action | Code |
|---|---|
| `Preview`, `Forget`, `Confirm` | `preview`; a minute, a key or another selection; the second key, and the lock |
| `Check`, `Refuse` | `fresh_account`, the second `plan` and its comparison with the confirmed one; anything that ends there |
| `Prepare` | the files are read again, and kept in a backup |
| `Stop`, `Write`, `Reload`, `Start` | the four passes over the services; residents stop first, the owner is written and started first |
| `Verify` | another process of the owner, every conversation loaded, every permission as asked |
| `Restart` | a reconnect that changes no permission |
| `Unstop`, `Unwrite`, `Unreload`, `Unstart` | the rollback, over the services whose stop was attempted |
| `StopFails` ... `UnstartFails` | each of these failing, before or after its effect |
| `Edit`, `Apply`, `Restarted`, `Subscribe`, `Work` | an editor, the service manager, residents and conversations, external |
| `Die` | the dashboard is killed; its lock goes with it |

State: `file`, `known` and `run` are what the unit file, the loaded unit and the process of a service grant; `pid` and `loaded`
identify the owner's process and the conversations it holds; `op` is how far each dashboard is, with its plan, the services
left in this pass (`todo`), those to roll back (`stopped`), and whether everything was restored. `late`, in an operation, are the units
edited since its last look at them; `inForce` is a history variable: the permissions last set by hand or reported changed.

Abstractions. A unit is the permission it grants. `Matches` stands for the comparison of a saved unit, the loaded one and the
process. A service that crashes comes back (`Restart=on-failure`). Units are reloaded and restarted by hand (`Apply`) only while no
dashboard holds the lock; they are saved by hand (`Edit`) at any time. A unit edited after the last look of a change is overwritten
without a word: no code guards against it, and the properties except it. On macOS a service that is not loaded cannot be stopped, so a
rollback there may be reported incomplete although all is restored (`Unstop`). A dashboard that dies rolls nothing back. The Python dashboard
limits restarts to one per 30 seconds; the Rust one does not, and the model has no such limit.

### Installer

`Installer` is `rust/installer.py` and `rust/service.py`, the part of the distribution that is Python. Both keep nothing in memory between
commands; the state is what is below one prefix on the disk.

| Action | Code |
|---|---|
| `Install`, `Upgrade`, `Rollback`, `Uninstall`, `ServiceInstall`, `ServiceStart`, `ServiceStop` | a command takes the lock and makes its checks; `ServiceStart` is `restart` too, `ServiceStop` is `remove` too |
| `Claim` | `_claim_or_read`: the marker of an empty prefix, which `upgrade` makes too before it refuses |
| `Copy`, `Publish` | `_prepare_release`: a stage with a copy of the binary, verified and renamed to the release |
| `Register`, `Launch`, `Switch` | the rest of `install_or_upgrade`: the marker names the release, the launcher exists, `current` is replaced |
| `Finish` | what a command does after its last change: an fsync, the state of the service, the return |
| `Unpoint`, `Unlaunch`, `Untree`, `Untreed`, `Unmark`, `Rmdir` | the removals of `uninstall`, in their order |
| `Define`, `Own`, `Load` | `install` of the service: the definition, the marker, `bootstrap` |
| `Unload`, `Undefine`, `Disown`, `RmFolder` | `stop` and `remove` |
| `Fail`, `Die` | a step, or the fsync after the one before, raises, which runs the except clauses; the process is killed, which runs nothing |
| `Unloaded`, `Populate`, `Clear` | launchd, the runtime and the operator, external |

State: `prefix`, `names`, `dir`, `current` and `launcher` are the directory, the marker's releases, their directories, the symlink and the
command; `sha` is the binary a release was made of; `folder`, `pinned` and `svcMarker` are the service's directory, definition and marker; `loaded` is
what launchd runs; `op` is how far each process is. `was` and `report`, in an operation, are history: what was current when it began, and what it told its caller.

Abstractions. A release is its name and the binary in it. A temporary file left by a death is `junk`; after that some commands refuse
until it is removed by hand. A release directory being removed is whole, torn or absent. Names of releases are not used twice: the code puts a
random part into each. The power does not fail: a rename that returned stays. Nobody changes the prefix by hand.

One constant describes the world rather than the size: `SameName` says that all processes write the prefix the same way, since the lock is a file
named after the prefix as written. The run and the theorems assume it, and section 7 says what happens otherwise.

A command ends when it leaves its lock. Between the rename of `current` and that end there is a step of its own (`Switch`, then `Finish`), since the code
can raise or be killed there: the new release is then current and no success was reported. `FailureKeepsCurrent` says so: before the
rename a failure or a death leaves the release the command found, after it the new one, and success is reported only of the new one.
That release is usable in either case (`CurrentIsUsable`), because the rename comes last.

### Receiver and Lifecycle

`Receiver` is the receiver of the Python package: `Monitor` with its dispatcher thread, and the commands that other processes give it through
the database. Every method is one transaction, except `dispatch_once`, which commits `submitting`, talks to the App Server of the route
and then commits the outcome.

| Action | Code |
|---|---|
| `bind`, `rebind` | `Monitor.bind`, `rebind` |
| `RouteAction` | `enable`, `dashboard_action`, `managed_set_enabled`, `managed_remove`, as they change a route |
| `ingest` | `Monitor.ingest`, for senders and collectors; it refuses or repeats without a change |
| `resolve` | `Monitor.resolve` under `serve.lock`: accept, discard or replay |
| `Expire`, `Dispatch` | `dispatch_once` to its first commit |
| `Submit`, `Inspect` | `deliver` and `inspect` reach the App Server |
| `Accepted`, `Unavailable`, `Uncertain`, `Permanent`, `Retryable`, `NotFound` | the receipt, and the arms of the `except` clause, with the exceptions of `session.py` that lead there |
| `StoreFails` | the second commit fails; the event stays `submitting` |
| `Take`, `Refuse`, `Forget` | the App Server, external |
| `DueComes`, `GrowOld` | the passage of time, as `next_at` and `created` are read |
| `Start`, `Die` | `serve` gets its lock; it is stopped or killed at any moment |

`Lifecycle` EXTENDS it with the tracked requests of `requests.py` and the pump of `request_dispatch.py`.

| Action | Code |
|---|---|
| `create`, `transition` | `RequestStore.create`, `transition` with `_transition_db`, `_notification_capacity` and `_insert_notification` |
| `expire_due` | one transaction of the pump |
| `pending_notifications` | the pump reads what is due, and the routes as they are now |
| `notification_deferred`, `notification_error` | one item is put off: its route was paused when read, or `ingest` raised |
| `PumpIngest`, `notification_accepted` | one item is stored as an event in one database, then marked in the other |
| `PumpFails` | an exception leaves the rest of the batch to the next pump |
| `DeadlineComes`, `NoticeComes` | the passage of time, as `expires_at` and `next_at` are read |
| `ReceiverStep` | every step of `Receiver`; a delivery starts when the pump is through, and the pump dies with the process |

State: `route` and `events` are the tables, `job` what the dispatcher works on, and `wire`, `placed` and `visible` the App Servers', as in `Inbox`, with
the server they went to and how often the event had been replayed. `request` and `notice` are the tables of the other database, `pump`
what the pump has in memory: its batch, the routes it saw enabled, and the item it has stored and not yet marked.

What differs from `Inbox`: there is one dispatcher, and it looks for events in doubt in the same order in which it delivers; an operator may replay,
which `replays` counts, and decide by hand (`manual`, the `decisions` table); a route has an App Server that `rebind` changes.

Abstractions. An expired, completed, failed or cancelled request has "ended": nothing tells them apart but the wording of its notification.
A settled event keeps no attempts and times, which nobody reads. Which route is served first is left open, as is which of the due notifications make a batch,
and which of the due requests expire in one call. The pump and `dispatch_once` need not alternate strictly: either may come again
before the other, which the loop does when the other finds nothing. What was sent on a connection that has been closed since stays on `wire`, and may be taken later or
never. Capacity, rate and trace limits of `ingest` only refuse; `max_requests` does too.
The dispatcher ends with `serve.lock`. A process that is killed does end that way; one that is stopped joins the dispatcher for 15 seconds (`Server.close`) and
releases the lock although reconciliation may take 30, so the thread can run on until the process has ended. What it might store in that moment is not modelled.

`KeepsItsPromise` says that the two receivers promise the same: until an operator decides about an event, each step of `Lifecycle` is a step of `Delivery`, or none,
with the rows of `placed` for the receipts taken. A replay or a decision by hand is a promise `Delivery` does not make; `NoBlindReplay` and `TakenInOrder` go on beyond it.

## 4. Runs

| Run | Instance | Shows |
|---|---|---|
| `inbox` | 1 managed route, 3 rows, 2 attempts, 2 jobs, 2 deaths | all safety properties of `Inbox`, and that it implements `Delivery` |
| `inbox_live` | 2 routes, 1 row each, 1 job, 1 death | the head of an enabled route is handed over or given up; a held row that the App Server shows is accepted |
| `rpc` | 4 calls, 2 endpoints, a pool of 1, 2 calls that may be dropped | all safety properties of `RpcConnection`, that it implements `RemoteCall`, and that every call returns |
| `rpc_framing` | 2 calls, 1 endpoint | a comment of `RequestGuard::drop` is not what happens: a call sends on a stream with unknown framing |
| `requests` | 1 route, 1 request and its event, up to 2 more rows, an outbox of 2, ticks of 2 items | all safety properties of `Requests` |
| `collector` | 1 debounced watch with a condition, named through an alias; 3 changes, 2 commands, 1 death | all safety properties of `Collector` |
| `collector_live` | 1 debounced watch; 2 changes, 2 commands, 1 death | a change that lasts is reported |
| `discord` | 2 messages in 2 channels, 2 configurations with different routes, pages and batches of 1, 1 refused or invalidated session, 1 loss, 1 death | all safety properties of `DiscordGateway` |
| `discord_live` | 2 messages in 2 channels, a configuration that rejects the first, 1 refused session, 1 death | every message is stored, offered and acknowledged |
| `reconnect` | 2 dashboards, an owner and 1 resident, 2 permissions; 2 confirmed operations, 1 edit or restart by hand, 1 failed command or service, 1 death | all safety properties of `Reconnect` |
| `lifecycle` | 1 route, 2 App Servers, 2 events of senders, 2 requests with 2 updates each, an outbox of 3, batches of 2, 2 attempts, 1 replay; within `Scope` | the safety properties of `Receiver` and `Lifecycle`, and that `Receiver` implements `Delivery` until an operator decides |
| `installer` | 2 processes, 3 releases of 2 binaries, one spelling of the prefix | current is usable and the service is owned between any two steps; a command that fails or dies before its last rename leaves the release that was current, and success is reported only after it |

Bounds and why they are enough:

* `MaxRows = 3` with one route: order and head-of-line properties relate two rows of a binding, and the third lets
  a held, a deferred and a fresh row exist together. Rows of different bindings only share the order of `claim` and
  the job slots; the liveness run has two bindings, and the theorems hold for any number of both.
* `MaxAttempts = 2` has a first, a last and a middle state of the retry budget; the code's value is 5.
* `MaxJobs = 2`: two deliveries in flight are the least that interleave; the code's value is 4.
* `MaxCrashes = 2`: one death while a row is being submitted, and one while the recovered row is being reconciled.
* `MaxSessions = 1` with two endpoints makes the pool full while a connection is busy, idle or broken.
* Three calls to one endpoint: one uses the connection, one waits and is dropped, which marks it, and one finds the mark and
  retires it.
* The run of `Requests` starts (`Accepted`) in a reachable state of the inbox: the route is enabled, `serve` runs and the event
  that asks for the work was accepted. The way there is what `inbox` checks. `MCRequests` gives announced revisions of a request
  two keys, since a request has at most two, and they are neighbours.
* One watch is enough for the safety of `Collector`: watches share only the places for jobs and the registration counts; the
  liveness run has no second one either, and section 7 says what the counts do. Three changes are a baseline, a candidate, a return and the candidate again; two commands are a
  pause and a resume. A queue of 1 overflows as soon as two reports wait.
* `reconnect` has a second operation, by the other dashboard, after or during the first. One failure (`MaxFails`) is enough to reach
  the rollback, which verification, a `Start` that finds something else running and an edited unit also do, without counting as one; so a failure
  in the rollback is reached as well. An owner with one resident has a first and a last service in each pass.
* `lifecycle` is cut by a state constraint (`Scope`) into three parts that share their beginning: deliveries of two events, moved, replayed and decided, and no request; requests
  and notifications whose events wait; one request beside deliveries that nobody decides about and on a route that is not moved. Every property relates
  either two events, or the ledger and the stored events, or the notifications of one request; the theorems hold without the constraint.
  `MaxUpdates = 2` leaves one update and the one reserved for the end, so that the limit bites at once; `MaxNotices = 3` is less than the four notifications
  that two requests may need.
* The keys of `inbox` are symmetric: they are only compared. So are the contents of `collector`, and the dashboards and permissions of `reconnect`. So are the processes, releases
  and binaries of `installer`. The liveness runs use no symmetry.
* Three releases are one that is current, one to roll back to and one being made; two binaries are needed because `rollback` compares them once there is
  state. Two processes contend for the lock.
* The type invariant of every module is proved and needs no run. So are `RetryBudget`, `TerminalIsFinal`, `NeverTakenBack`, `TakenInOrder`, `AcceptedIsTaken` and
  `RevisionsTakenInOrder`, which are stated in their modules and proved.

Runs without deadlock checking: `rpc` and `rpc_framing` make a finite number of calls, and stop when all have
returned. `discord` and `discord_live` stop when all messages are settled and nothing can fail any more, `reconnect` when
nothing more may be confirmed. `lifecycle` stops at the edge of its bounds, when the last event is settled and no request may be tracked any more. `installer` stops when the names of releases are used up, or when a death left a prefix that every command refuses: there
the code asks for a hand.

## 5. Fairness

`Inbox`: `dispatch` wakes at least every 500 ms while `serve` runs (weak fairness of `Dispatch`); timers run over
every RPC (`Preflight`, `LoseAnswer`); `deliver_one` stores its result without waiting for others; the
service manager restarts a dead `serve` (`Start`). Strong fairness is assumed for `Submit` and `Inspect`: the owner
of a thread is reachable again and again, though not always when asked. Nothing is assumed of the App Server itself,
of senders, or of the user's commands.

`RpcConnection`: tokio's mutexes are handed on in order, so a waiter gets its turn (weak fairness is enough, as the calls
are finitely many); connect, write and read each have a deadline, so `ConnectFails`, `SendFails` and
`ReceiveFails` happen if nothing else does. The `initialized` notification and the closing of a transport have no
deadline of their own; they write a few bytes, or kill the child, and are taken to end. No fairness is assumed of the answers.

`Collector`: tokio serves every branch of the `select!` and every job, and each sample ends within `SAMPLE_TIMEOUT` (weak
fairness of `Reload`, `Receive`, `Timer`, `Finish`, `SampleFails`, `Store`); clocks run; the service manager restarts `serve`. Strong
fairness is assumed for `Sample` and `Reports`: the file can be read, and the inbox accepts an event, again and
again, though not always.

`DiscordGateway`: tokio runs the connection, the history task and the worker (weak fairness of `Connection`, `Recovery`,
`Worker`), pauses end (`Elapse`), and the service manager restarts the process (`Start`). Which configuration it is started
with is left open. Losses, refusals and deaths are finitely many; nothing is assumed of Discord or of the native session.

`Reconnect` and `Installer` assume none: nothing in them must happen, since a dashboard may be closed and a command killed at any time. `Lifecycle` states none
either: what the Python receiver must do in the end, an operator may have to do.

## 6. Proofs

`InboxProofs` proves, for any number of routes, rows, attempts, jobs and deaths, that `Inbox` satisfies:

| Theorem | States |
|---|---|
| `TypeCorrect` | `TypeOK` |
| `Invariant` | the inductive invariant `IInv` |
| `NoDoubleDelivery` | `AtMostOnce` |
| `InOrder` | `FirstInFirstOut` |
| `ReceiptsAreTrue` | `NothingTakenIsGivenUp` and `AcceptedIsPlaced` |
| `WorkersOwnTheirRows` | `JobOwnsItsRow` and `EvidenceIsForHeldRows` |
| `AttemptsBounded` | `RetryBudget` |
| `ReceiptsSettleOnce` | `SettledIsFinal`, which no run checks: the refinement of `Delivery` says the same of receipts |
| `HeldRowsWaitForEvidence` | `HeldUntilEvidence` |
| `Implements` | the refinement of `Delivery` |

The only assumption is `InboxConstants`. The argument: `AtMostOnce` is not inductive. That a row is placed once
needs to know that a row the App Server has, or may still read, is never pending again
(`NothingTakenIsGivenUp`); that needs to know how far its job can be (`Handoff`, `JobOwnsItsRow`), since
`NativeRefuse` may let the job put the row back, but only when the request is gone from `wire`; and that two placed rows
are not one event needs the uniqueness of keys (`RowsInOrder`). `FirstInFirstOut` needs `HeadOfLine`: once a
row is handed over, every earlier row of its binding is settled, and `SettledIsFinal` keeps it so. `IInv` is
the conjunction; TLC checks it on the instance of `inbox` before the proof does for all.

The proof first abstracts every action to the *move* it makes on each row (`Move`, `NextMoves`): one of a
dozen transitions of the row's life cycle, with the condition under which it is made. Invariants about rows
follow from the moves. What deliveries and the App Server do is abstracted likewise to `NextHandoff`. Each conjunct of `IInv` has
its lemma.

`RpcProofs` proves, for any number of calls, endpoints and places in the pool, that `RpcConnection` satisfies:

| Theorem | States |
|---|---|
| `Inductive` | the inductive invariant `IInv` |
| `TypeCorrect` | `TypeOK` |
| `OwnAnswer` | `AnswerIsOwn` |
| `SafeToRepeat` | `UnavailableIsUnsent`, which no run checks: the refinement of `RemoteCall` implies it |
| `BoundedPool` | `PoolWithinCapacity` |
| `ClosedAlone` | `NobodyElseCloses` |
| `Implements` | the refinement of `RemoteCall` |

The only assumption is `RpcConstants`; that there are finitely many endpoints is needed to count the pool. The argument:
that an answer is a call's own needs to know what the lines on a stream are. Each is a fragment, or it answers a performed call
of this connection with that call's number (`Labelled`), also when the call itself was dropped long ago. Numbers of one
connection are distinct (`Distinct`), because a number is taken from a counter that no open number has reached (`Numbered`),
by the one call that holds the call lock (`HoldsTurn`), on a connection that nobody had before it was opened
(`NotYetOpened`). So equal numbers mean the same call. That an unavailable call was never sent is `Unread`: only a call that
is sending writes, and it can no longer become unavailable. The capacity needs that one call connects at a time
(`LockIsHeld`): while the lock of the pool is free, the connections of the other endpoints are all that count.

`ReconnectProofs` proves, for any number of dashboards, residents, permissions, failures and deaths, that `Reconnect`
satisfies:

| Theorem | States |
|---|---|
| `Invariant` | the inductive invariant `IInv` |
| `TypeCorrect` | `TypeOK`, with one dashboard at a time past the lock |
| `OriginalsStay` | `OriginalsAreKept` |
| `NothingElseIsOverwritten` | `OverwritesOnlyWhatItSaw` |
| `ReportsAreTrue` | `ReportsTellTruth` |

The only assumption is `ReconnectConstants`. The argument: that a change writes over nothing it did not see needs to know that all files are as
its plan has them, as it wrote them, or edited since (`SeenOrOwn`); `Check` and `Prepare` compare them, and no other dashboard writes,
because it would hold the lock (`OneAtATime`). The originals stay because from `Prepare` on a backup has all of `inForce` (`BackedUp`), also
after the files have been overwritten. That reports are true is not a matter of the last step: `Progress` says for every stage which
files, loaded units and processes are already as the report will claim. Its parts are `Begun` (until the first stop everything is as planned,
so a service that no stop was attempted of still runs with the original), `Applied` for the change, `Undone` for the rollback, unless it has already noted a
failure, and `Reconnecting`. Each action brings one service further; `NextSound` collects them, and `ExecutedTruly` reads the report off.

`DiscordProofs` proves, for any number of messages, channels, sessions, lost connections and deaths, any configurations and any
sizes of pages and batches, that `DiscordGateway` satisfies:

| Theorem | States |
|---|---|
| `Invariant` | the inductive invariant `IInv` |
| `TypeCorrect` | `TypeOK` |
| `CheckpointsAreSafe` | `CheckpointsCoverOnlyStored` |
| `ReadyIsComplete` | `ReadyMissesNothing` |
| `StoredOnlyOnce` | `StoredOnce` |
| `OnOneRoute` | `OneRoute` |
| `ReceiptsAreTrue` | `ReceiptsTellTruth` |
| `NothingIsTakenBack` | `NeverTakenBack` |

The only assumption is `GatewayConstants`. The argument has two halves that share only the stored messages. The worker's half is `RowsInv`: nobody
else changes the rows it selected, so they still are what the query of its phase found (`PrepareIsRaw`, `DeliverIsDue`, `SeenIsDelivered`), and what the receiver
has is a row with the route it was prepared for. The half of the stream and of the history: a session's log up to the sequence the connection would
store is handled (`CoverInv`), the cursor of a channel and the page being worked on leave nothing behind them (`PageInv`), and a message that is still missing is in a channel
the history task has yet to read or ahead on the stream (`CompleteInv`). When the task says it is done only the stream is left, which is `ReadyMissesNothing`.

`CollectorProofs` proves, for any number of watches, pauses, changes, directories and deaths, that `Collector` satisfies:

| Theorem | States |
|---|---|
| `EventsAreAChain` | `EventsFormChain` |
| `EpochsAgree` | the inductive invariant `EpochInv` |
| `ReportsAreOfThisEpoch` | `ReportedSinceResume` |
| `DebounceHolds` | `DebouncedIsSeenTwice` |
| `NativeInvariant` | `NInv`: registrations, paths and job copies beside the runtime of a watch |
| `TypeCorrect` | `TypeOK`; no registration count falls below zero |
| `ChangesAreNoticed` | `ChangeIsNoticed` |

The only assumption is `CollectorConstants`. The chain needs little: checkpoint and event are written together, and a job that has read has a
sample. The other two relate three copies of what is known of a watch: its row, the dispatcher's runtime and the copy of a job that is away.
Neither copy is ahead of the row's epoch, and one that is active in the row's epoch finds the row enabled (`Fits`); so a command makes every copy stale, for good. In the
row's epoch the candidate is the last sample (`Recent`), of the runtime or, from the end of the job until it is joined, of the job's copy only (`Together`).

`ChangeIsNoticed` needs the registrations. The second directory of a watch, its path and the path in a job's copy are either unknown or the one its
file really is in, a watch with a second registration has a runtime that knows the path, and a job whose copy is of the runtime's epoch belongs to
an active runtime (`PathOK`). So a report in either directory matches the runtime. Every branch of the loop ends in a turn, which takes the mark of a watch away only
by starting a job that reads it (`TurnLeads`), so what was noticed stays noticed (`CarriedOver`); and a watch whose directory is registered only in this step is
dirty, or its job has still to read. A reload visits the watches one after the
other, and what it does for one may take a registration from another only if both use the directory, which the properties except: `OnlyOf` says what one visit
touches, `ReloadKeeps` that all visits together keep what each one keeps. `Reregistered` is a recursive function over the list, so the latter is an induction. The library's
induction theorems cannot be used (they take an operator), so it is done by a well-founded order on the set of numbers below the length of the list
(`CountedUp`, `StepsExist`).

`InstallerProofs` proves, for any number of processes, releases and binaries, that `Installer` satisfies:

| Theorem | States | If |
|---|---|---|
| `Invariant` | the inductive invariant `IInv` | `SameName` |
| `TypeCorrect` | `TypeOK` | `SameName` |
| `CurrentStaysUsable` | `CurrentIsUsable` | `SameName` |
| `ServiceStaysOwned` | `RunningServiceIsOwned` | `SameName` |
| `FailureLeavesCurrent` | `FailureKeepsCurrent` | `SameName` |

The assumption on the constants is `InstallerConstants`. The argument: under one lock at most one command is past its checks (`Alone`), so what it saw when it began is
still true of everything it did not change itself; the invariant says for each step what that is, which of the four things
on disk are already there and which still are. For `FailureKeepsCurrent` it is strengthened by what a running change leaves (`Tracked`): the release it found
until its last step, its own release from then on.

`RequestsProofs` proves, for any number of requests, rows, notifications, sizes of batches and deaths, that `Requests` satisfies:

| Theorem | States |
|---|---|
| `InboxAndLedgerAgree` | the inductive invariant `RInv`, with that of `Inbox` in it |
| `Refines` | the refinement of `Delivery`, although the maintenance tick stores events past the intake |
| `InboxKeepsItsWord` | the safety properties of `Inbox`, likewise |
| `HistoryIsComplete` | state, revision and history of a request agree |
| `UpdatesAreAnnounced` | `LedgerIsAnnounced` |
| `NoticesAreTrue` | `NoticeTellsTruth` |
| `RevisionsWaitForEarlier` | `RevisionsInOrder` |
| `TerminalStays` | `TerminalIsFinal` |

The assumptions are `InboxConstants` and `RequestConstants`, which says that notifications of different requests have different keys. Every allowed transition goes up in rank and
there are three ranks above `received` (`LedgerInv`): that no request is updated more than three times, which the model's `Revision` takes for granted, is a consequence.
`RInv` adds, to that and to the invariant of the inbox, that a request has its parent event (`HasParent`), that exactly the revisions that are not quiet have a notification (`IsAnnounced`),
and that a linked notification is on the route of its request and as far as its event is (`IsTrue`). `Finish`, `ClaimAndSettle` and `RemoveAndSettle` settle an event and
its notification in one step, so `IsTrue` stays. The tick is the hard case. Its new events go into the first free rows, and no two of them, nor one of them and an old one, have the same key:
so it keeps the whole invariant of the inbox, it is one step `Receive` of `Delivery`, and every notification it does not link stays as it was. `RevisionsInOrder` follows from the candidates of a tick, of which each is the first of its request that is not settled.

`LifecycleProofs` proves, for any number of routes, App Servers, events, requests, replays, limits and deaths, that `Lifecycle` satisfies:

| Theorem | States |
|---|---|
| `Invariant` | the inductive invariant `LInv` |
| `TypeCorrect` | `LTypeOK`, `TypeOK` of `Receiver` included |
| `NoEventIsTakenTwice` | `NoBlindReplay` |
| `Implements` | the refinement of `Delivery`, until an operator decides |
| `RoutesAreInOrder` | `TakenInOrder`, which no run checks |
| `AcceptedWasTaken` | `AcceptedIsTaken`, which no run checks |
| `DoubtIsResolvedWhereSent` | `LookedForWhereSent` |
| `RequestsCanEnd` | `OpenRequestsCanEnd` |
| `NotificationsAreInOrder` | `ToldInOrder` |
| `RevisionsAreInOrder` | `RevisionsTakenInOrder`, which no run checks |

The assumptions are `ReceiverConstants` and `LifecycleConstants`. The argument about deliveries: what is pending or dead was not handed over since its last replay (`Fresh`), and what the
dispatcher works on is submitting, with an answer that is true of the App Server (`JobOK`); so only an event that was never sent is sent. While an event is open, and nobody decided about it, nothing
behind it on its route was handed over (`HeldBehind`), and what an App Server may still read belongs to an event in doubt (`WireInDoubt`): a late line can therefore not overtake.
`rebind` waits for events in doubt, so what is in doubt was sent where its route leads. Each step that changes one event is brought to one lemma, `EventChanges`, by
showing that it is one of the moves of `Follows`. The refinement needs nothing more: without a decision no event was replayed, so that one not handed over since its
last replay was never handed over, and may be refused; `OpenEventRefines` is the one lemma about the commits of `dispatch_once`. About requests: `OpenRequestsCanEnd` is inductive with `RequestsOK`, by counting: an update that announces something
and leaves the request open needs a free place besides those reserved, one that ends it turns its reservation into the notification. For `ToldInOrder` the pump matters: what it read stays pending until it marks it, and
nothing earlier of that request is pending (`PumpOK`); what is stored was announced (`ToldOK`). The order in which App Servers take the revisions is then that of the route.

Only model-checked:

* The liveness properties `HeadIsSubmitted`, `EvidenceSettles`, `CallsReturn`, `LastingChangeIsReported`, `EveryMessageIsStored`,
  `EveryMessageIsOffered` and `EveryReceiptIsShown`: temporal properties under fairness are beyond the prover.

Of the safety properties that the runs check, all are proved: what TLC still adds is that each can be violated by a plausible change of the code, and that the interesting states are reached.

## 7. Where code and comments disagree

* `rpc_framing`: a dropped request is said to keep its connection from the next caller. The next caller may already
  be waiting for the call lock, and is not stopped.
* Not a run (`Inbox`, `NothingPendingBehindRemovedRoute`): a comment of `route_action` (`store.rs`, line 295) says that removal settles the rows that could otherwise stay pending
  forever. Removing a managed watch retires its binding without settling them, and a delivery that is in flight during a removal returns to pending afterwards: claim it, remove its
  route, let the App Server be unavailable. Checked as an invariant of `Inbox` with one route and two rows, TLC finds that behaviour.
* Not a run (`Requests`, `HasRoom`): the documentation says that capacity for terminal notifications is reserved for open requests. One
  limit is checked for every notification, and nothing is reserved. The Python package does reserve it: `OpenRequestsCanEnd` of `Lifecycle` is a theorem.
* Not a run (`Collector`, `SampleFails`): the documentation says that failed observations invalidate the timing of a debounced monitor, so that downtime is
  not credited as healthy. `process_watch` returns from a failed sample without touching the candidate.
* Not a run (`Collector`, `Recounted`): the documentation says that registration counts are shared. A resumed watch releases a registration that
  its pause already released, so that the count of a directory is too low, and a later pause unwatches it under another
  active watch. The interval still notices changes, later.
* Not a run (`Installer`, `Rollback`): `upgrade` refuses while a service is installed, and asks for its removal first. `rollback` switches the release without
  asking; the service goes on with the other one, and its commands, `remove` among them, then refuse because their marker names a release that is not current.
* Not a run (`Installer`, the failing case of `Register`): a comment says that an unregistered release is removed when a candidate fails. `registered` is set after the
  marker was written; if the fsync after the rename raises, a release the marker names is removed, and every command refuses the prefix.
* Not a run (`Installer`, `Free` without `SameName`): the lock is said to exclude other mutations of the prefix. It is named after the prefix as it was written,
  although the real path is known: two spellings of one prefix are two locks.

## 8. Not modelled

* **Alerts.** `Tracker::update` is a function of the last snapshots, called by one task; its cases are unit tests of `alerts.rs`.
* **Owner health.** A read-only probe and a cache of two seconds. What it shows may be old; nothing that changes state reads
  it, `reconnect` makes its own plan twice.
* **Migration.** One command, run once under `serve.lock`. Its one hazard, a death between the rename of the database and the write of the
  configuration, is listed; the backup it made first is what an operator starts again from.
* **Reply outbox.** Three transactions on one table. Each reads and writes at once, and none depends on another's order.
* **Command line, HTTP ingress.** They check and route to store operations, which are modelled; `serve.lock` and the start of `serve` are in `Inbox`.
* **Terminal dashboard, resources, native service manager, installers of the Python package, canaries.** Input and output around the operations modelled here.
* **Event envelope.** Validation and rendering, without state.
* **Python collector, dashboards and tools.** Frozen counterparts of the Rust collector and dashboard, which are modelled or left out there; the commands by which they change routes are
  in `Receiver`. The reply outbox, conversation metadata and the columns of `managed_watches` are left out.
* Within modelled components: resident subscriptions (`ensure_subscribed`) and `SessionPool::close` of the session pool, images of the Discord
  gateway, and how unit files and processes are parsed and matched in `reconnect`.
