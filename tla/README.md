# Omni Remote Control: formal models

TLA+ models of the parts of Omni Remote Control whose correctness depends on
the order in which things happen, and of the translations between them, checked
with TLC on small instances and, for most of them, proved with TLAPS for instances
of any size.
Definitions keep the names of the Go and Kotlin functions they translate;
`PROJECT.json` maps each of them to its source lines.

## 1. The system

A Go server keeps a WebSocket to every connected device, stores what devices
report in PostgreSQL, and lets clients of its REST and MCP APIs run commands on
devices. Go agents (Linux, Windows) stay connected. An Android device connects
for short *control sessions*, which the user starts or which the server asks for
with an FCM push; outside of them it reports over HTTP.

| Component | Source | State | Operations | What is hard |
|---|---|---|---|---|
| WebSocket hub | `server/internal/ws/hub.go` | `clients`, `pendingCommands`, each connection's `SendChan` | `HandleWebSocket`, `readPump`, `writePump`, `handleMessage`, `SendCommand` | two goroutines per connection and one per HTTP request; connections that break, reconnect or are half dead; the timer of a call against a late answer |
| Waking, live requests | `hub.go`, `api/routes.go` | registry, FCM token | `EnsureOnline`, `WakeDevice`, `executeDeviceCommand` | the device is looked up four times in one request and may come and go in between |
| HTTP and MCP API | `api/routes.go` | none of its own | REST routes, MCP tools, ingest of reports | reports without a connection, deadlines of the HTTP server, errors that are dropped, two translations of each wish |
| Database layer | `db/db.go` | devices, commands, reports | upserts, inserts, queries with limits | every insert may create or change the device row; any statement may fail; the rows outlive the server |
| FCM client | `push/fcm.go` | cached OAuth token | `SendWake`, `accessToken` | a push that fails or takes long, expiry of the token |
| Control session (Android) | `ControlSessionManager.kt`, `ControlConsentReceiver.kt`, `OmniFirebaseMessagingService.kt` | `webSocket`, `isSessionActive`, `sessionApproved`, wake lock, watchdog, control mode | `startSession`, `stopSession`, approve, deny, callbacks of OkHttp | callbacks on other threads, late callbacks of an earlier socket, a watchdog that fires while it is restarted |
| Store and forward (Android) | `OmniStore.kt`, `ApiClient.kt`, `TelemetryWorker.kt`, `sendPendingSync` | a file of pending records | capture, post, flush, sync | three senders of the same records, kills of the process, records the server refuses |
| Command execution (all agents) | `executor/`, `gui/`, `win32/`; Android: accessibility, unlock, Shizuku, SMS | the system's own | one result per command | results that are not looked at, tools that are missing, deadlines |
| Agent connection (Go agents) | `internal/connection/client.go` | current socket, send mutex | `Start`, `connectAndRun`, `handleServerMessage` | a goroutine per message, answers on another connection |
| Event monitor (Go agents) | `internal/events/monitor.go` | last state of network and battery | `Emit`, `Start` | one goroutine per connection, which outlives it, all on the same unlocked fields |
| Session overlay (Go agents) | `internal/overlay/` | window, hide timer | `NotifyActivity`, `Close` | the timer's callback against new activity |
| Metrics, system information, configuration | other packages of the agents | last CPU counters, public address | reads of the operating system | readings that fail or go back, from several goroutines |

They interact as follows. An API handler calls `SendCommand`, which looks the
connection up in `clients`, stores the command as `pending`, leaves a response
channel in `pendingCommands` and queues a message on `SendChan`. `writePump`
writes it to the socket. The agent answers with a `command_response`, which
`readPump` stores in the command's row and hands to the response channel, while
the call waits for it beside a timer. `SendWake` makes an Android device call
`startSession`; on connecting it sends the records of its store.

### What makes each component correct

* Hub: the registry never holds a connection nobody will remove; queues hold
  commands for their own device only; a refused command runs nowhere; an answer
  returned is the answer stored, unless the statement that stores it failed; every
  call returns and leaves nothing behind; broken connections are forgotten.
* Waking: a live request ends; waking a device that is online does nothing.
* Control session: consent is asked for each remote session; one socket in use;
  a running session is watched, a quiet one ends, and only its own end ends it.
* Store: what is captured and not delivered stays, but for losses the code
  accepts; a refused record does not hold up the others.
* Agent: one writer at a time, no connection left open behind the field, a broken
  connection given up, an end after a signal, and of every handler whose programs
  end; the overlay hides when the control is over, and not before.
* Records of devices: what is stored about a device follows its connections, over
  failed statements, restarts and reports that come another way; what was accepted
  is stored.
* Requests: both entries make the same command of the same wish; a success that is
  reported was carried out, but where agents are known to pass over failures; a query
  returns a bounded page, and the one asked for.
* Event monitor: however the goroutines interleave, they settle, do not warn again
  and again, and a monitor alone emits an event for every change it sees.
* FCM client: no push carries a token that has ended.
* Metrics: a usage covers the interval since the reading before it, and no other.

The hazards behind these properties are listed line by line in `PROJECT.json`.

## 2. Modules

| Module | Models | Role |
|---|---|---|
| `CommandLifecycle` | what the server promises of one command: how the stored status and the reply of its call may evolve | abstract specification |
| `Hub` | `hub.go` and the inputs that reach it: connections, queues, calls | detailed; implements `CommandLifecycle` by the mapping at its end |
| `WakePath` | `EnsureOnline`, `WakeDevice`, `executeDeviceCommand` | composed with `Hub`, which it extends |
| `DeviceRecords` | the rows of devices in `db.go`, as the hub's handlers write them, with failures and restarts | component: the hub seen from the database |
| `HttpRequests` | the routes that report, ask for live data, and list devices | composed with `DeviceRecords`, which it extends |
| `CommandPath` | what REST and MCP make of a wish, what each of the three agents does about the command, what the client is told; limits of queries | translation |
| `AccessToken` | the cached token of `fcm.go` under concurrent pushes | component |
| `ControlSession` | Android's session manager | component |
| `PendingStore` | Android's store, its posters and its sync, with the server's upsert | component, the session seen from the store |
| `SessionOverlay` | the agents' banner and its timer | component |
| `AgentClient` | the agents' `client.go` and their stop by a signal | composed with `SessionOverlay`, which it extends |
| `EventMonitor` | `monitor.go`, by several goroutines at once | component |
| `Metrics` | the CPU usage of both collectors | component |
| `HubProofs` | theorems about `Hub` | |
| `HubRefinement` | `Hub` implements `CommandLifecycle`; `WakePath` implements `Hub` | |
| `DeviceProofs` | theorems about `DeviceRecords` and `HttpRequests` | |
| `CommandPathProofs`, `ControlSessionProofs`, `AgentProofs`, `PendingStoreProofs` | theorems about the module of that name | |
| `CacheProofs` | theorems about three parts that keep a value between calls: `AccessToken`, `EventMonitor`, `Metrics` | |
| `MC...` | what TLC runs; `MCParts` puts four parts that share no state side by side | |

### How they correspond to the code

**Hub.** One variable per field or channel: `clients`, `pendingCommands`,
`sendChan[k]` (a sequence of at most `SendCap`), `respChan[c]` (the buffered
channel of one call), `row[c]` for the status stored in the command's row, and `known`
for the devices that have a row. `reader[k]` and `writer[k]` say where the two goroutines of connection
`k` are, `caller[c]` where the `SendCommand` of command `c` is. A step is what a
goroutine does between two points where another can observe it: a lock, a
channel operation, a statement to the database. `register` takes three steps
(upsert, registry, acknowledgement), a response three (update, read back, hand
over), a readPump on its way out two (close, delete; its statement that marks the
device offline is in `DeviceRecords`), and a call up to five. Statements may fail as
the code lets them. `UpdateCommand` fails unheard (`hub.go:211`, `365`, `379`):
`unsaved` has the commands of which an update was lost, whose row is then behind what
the call was told. When the row cannot be read back, the call gets the agent's own
answer (`hub.go:214-217`); when it cannot be inserted, the call fails. What is merged is what nobody else can see: the lookup, the insert and
the entry in `pendingCommands` of a call, whose command is not queued yet.
`waits[c]` is the sign of the timeout: a request may ask for none, either with a
zero or with a number that overflows. The network is `link[k]`: messages
written to a link that then breaks may be lost. Sending on a closed `SendChan`
panics, as in Go; `net/http` recovers it and the deferred function still runs.
An agent answers a command it received once, on whichever connection it has.

**WakePath.** `ensure[c]` follows the request through `EnsureOnline`, with a
lookup of the registry at each place where the code has one.

**DeviceRecords.** `Hub` keeps of the database what a call depends on; this
module keeps what a device's record depends on, and drops queues and commands.
`details` and `status` are the columns: an identity is a placeholder or was registered.
`UpsertDevice`, `UpdateDeviceStatus` and `EnsureDeviceExists` are single statements,
each of which may fail, with the consequence that its caller gives it (mostly none).
So is the `UpsertSystemInfo` of a registration (`StoreProfile`), whose row no other
step reads. `Beating` has the devices whose agents register with every heartbeat: the
desktop agents. Android registers once, in `onOpen`, and sends no heartbeat. Every message handler is split
between its statements. `Restart` empties the registry and ends every connection
without its deferred function; the columns stay. `by` and `unmarked` are history
variables.

**HttpRequests.** `stage[r]` says between which two statements the handler of
request `r` is. Handlers that acknowledge (`PostReport`) end on a failed insert,
those of live data drop the error and go on. `LateReply` is the `WriteTimeout`: the
handler goes on, the client hears nothing. The payload of a report may name another
device than the path, as the routes accept. `owed[r]`, `hurt` and `gone` are history
variables: records given and not stored, requests with a failed statement, lists
during which the device was absent. Storing the push token is `StoreToken` of
`WakePath`.

**CommandPath.** A wish is an operation and the one thing about its arguments
that decides anything. `RestCommand` and `ToolCommand` translate it as the routes
and the tools do; `LinuxGui`, `WindowsGui`, `Shell` and `AndroidRun` give the
possible results of the command on a host with the programs in `tools`. A result
has the exit code that the agent reports, and `did`: whether the calls that carry the
command out were made and none of them reported a failure (calls that return nothing
report none). `Unnoticed` is a failure answered as a success; each place where an agent
may give it is a branch of its own. Steps are asking, reaching the device, executing,
giving up (the timer), answering, and answering although the hub could not store the
answer (`AnswerUnsaved`).

**AccessToken.** `holder` is the mutex, held during the request for a token.
Time is a number; the context of a push bounds its request and the push, not
its wait for the mutex. `valid` is when the token really ends: some moment of the
request plus its life; `expiry` is what the client believes.

**ControlSession.** One variable per field. The `@Synchronized` methods are one
step each. A callback that needs the lock is split: `WatchdogFires` then
`WatchdogStops`, `SocketEnds` then `OnEnd`, with anything in between. `onOpen` and `onMessage` restart
the watchdog without the lock, in two steps: they remove the copies of the runnable
(`OnOpenRemoves`, `OnMessage`) and then post one (`PostDelayed`), so that there may be
none, or several, in the looper's queue; `posted` counts those that wait for their
time, `due` those whose time has come, and `callback[s]` says where the callback is. A
command is handled after that (`HandleMessage`, `HandleStopControl`). Callbacks
use the field `webSocket`, not the socket that called. `opener`, `openedIn` and
`registered` are history variables, which no guard reads.

**PendingStore.** `store` is the file, newest first. `work[p]` is what the
executor, or the worker, is still going through; a post and the removal after it
are two steps, and so are the three parts of `sendPendingSync`. `session` is the
field `webSocket`, set from the attempt to connect on: whether the attempt succeeds
shows only in the batches that arrive. `arrived` is what `readPump` still has to
store of the message it is handling, record by record, whatever happens to the
session meanwhile. The process may be killed in any state; the file is truncated in
place, so a kill may empty it, and so may a failing read, which returns an empty list,
or a write that fails half way, in a process that lives on (`StoreEmptied`). A write
that fails without that loses what it was for: a captured record is not stored, though
its post is still queued (`EnqueueFails`), or what was to be removed stays
(`RemovalFails`, `SyncRemovalFails`). `MaxBatches` bounds the batches under way. `Without` says where each record of a filtered list
comes from, by its rank among those kept; `WithoutFilters`, an assumption that TLC
evaluates on every list of up to four records, says that this is `removeAll`.
Notifications and SMS run the same code on two lists: one is modelled, and the
difference that matters, whether an id is captured again with new contents, is
`MaxVersion`. `excused` is a history variable.

**SessionOverlay.** `initialized`, `mapped` and `timer` are the fields;
`past` holds the goroutines that are between the unlocked check of
`NotifyActivity` and its lock, `hiding` counts callbacks between the expiry of
their timer and the lock.

**AgentClient.** `conn` and `connMu` are the fields. `main`, `signal`,
`reader[s]`, `event[s]` and `handler[c]` say where the goroutines are: the one of
`Start` and `connectAndRun`, the one that waits for a signal, and those started
per connection (its reader, the listener of `client_started`) and per command.
All of them send through `sendWSMessage`, in two steps: `BeginSend` takes the
lock and the connection, `EndSend` releases it after the write, and then moves
the caller on; `DropMessage` is its early return, which reports no error. A handler tells
the overlay first (`NotifyOverlay`, `ShowOverlay`) and then runs the command, until
`FinishExecution`, which nothing obliges to happen: `exec.Command(...).Run` of a GUI
command has no deadline, and the one of a shell command kills only the shell.
Connections are model values used once; a command's name is used again once its
handler is done.

**EventMonitor.** Every read of the network or the battery and every assignment to
a field is a step, so that goroutines mix as badly as the Go memory model allows
short of torn values. `seen[m]` is the local variable of `checkNetwork`; `emitted` is
what the last event or baseline said. An event is then the listener's: it is sent on a
goroutine of its own, whose failure is dropped, so the server may never hear of it; `warnings` and `resets` are counters for the properties.

**Metrics.** `prevIdle` and `prevTotal` are the collector's fields. Counters have
`Width` bits and differences wrap; the two platforms differ in what they keep of a
reading that has not grown. `idleSince` and `busySince` are history variables.

## 3. What is checked

| Run | Instance | Question |
|---|---|---|
| `hub_registry` | 2 devices, 2 connections, 1 command | six safety properties of registry, queues and stored statuses, over statements that fail; the refinement's safety part |
| `wake_requests` | 2 devices, 1 connection, 1 command | a request leaves no trace unless its device was found, and goes to that one; live requests and calls end; a broken connection is forgotten; the whole of `Hub`, with its fairness, implements `CommandLifecycle` |
| `wake_noop` | 2 connections | *violated*: waking is not a no-op for a device that has just reconnected |
| `http_requests` | 2 devices, 2 connections, 2 requests (2 of the four in a behaviour), 1 trouble | stored status and identity against connections; what was given is stored; what is shown |
| `parts` | see below | the translation of wishes and limits; two event monitors; the access token; the CPU usage |
| `session_safety` | 2 sockets | consent, sockets, watchdog, wake lock; quiet sessions end |
| `session_stale_end` | 2 sockets | *violated*: the end of an old socket ends a new session |
| `store_sms` | 3 ids, one refused, a store of 2 | only known losses; the refused record does not hold up the others |
| `store_notifications` | 1 id, 2 contents | *violated*: a newer content is removed with the older |
| `store_sync` | 1 id | *violated*: a sync without a socket drops what it read |
| `agent` | 2 connections, 1 GUI command that comes again, 1 late callback | one writer; no connection left open; the banner will hide; broken connections are left, a signal ends the agent, only its programs hold up a handler |
| `overlay_hides` | 2 commands, 2 late callbacks | *violated*: a late callback hides the banner after a new activity |

Together the passing runs take every action of every module. Each property is
also shown to depend on the code: `PROJECT.json` names, for each, a plausible
mistake (the operators commented as mutants) under which TLC finds it violated.

### Bounds, and why they are enough

* In `wake_requests` the one connection belongs to either device, so that a request
  may wait for a device while the other is online.
* Two connections are one reconnection: the least in which an old connection's
  deferred function meets a new registration. Two devices let an entry, a queue
  or a response belong to the wrong one.
* `SendCap = 1`: one message fills the queue. The code's 64 only makes the full
  queue rarer; guards compare with the capacity and nothing else.
* One command in `hub_registry` already races with both connections, its timer
  and its own late response. Liveness has one command and one connection, which may
  break at any point and fill its queue with its own acknowledgements; a second
  command would share only the queue with the first, and the safety theorems below
  hold for any number.
* `Answer = {"completed"}`: no guard distinguishes it from `"failed"`.
* Two sockets of the session: the callbacks and the end of an old one meet a new one,
  each with its own unlocked restart of the watchdog. The theorems hold for any number.
* `MaxItems = 2` with three ids: the limit drops a record. `MaxBatches`: one batch under
  way (two with one id of two contents), while further syncs wait for the socket's
  queue; the theorems hold for any number.
* Two connections of the agent: a handler started on one answers on the other. One
  command, whose name comes again, meets the timer of its earlier activity; two
  handlers at once are in `overlay_hides` and in the theorems. `MaxCallbacks` bounds
  the callbacks waiting at once; each timer has at most one.
* `http_requests`: `MaxActors = 2` lets two connections, a connection and a request,
  or two requests take part in a behaviour, of the same device or of two.
  `MaxTroubles = 1`: one statement fails anywhere, or the server restarts once.
  `MaxItems = 2`: a record after one that could not be stored. `DeviceProofs`
  lifts all three. Of the two devices one is `Beating`: a desktop agent and a phone.
* `parts`: limits at, below and above every default and cap, negative, zero, a half,
  absent and no number; every wish, host and set of installed tools; two monitors
  (an old connection's and a new one's) and `MaxChanges = 2` changes of two addresses
  or of the battery; two pushes within `MaxTime = 8` steps, in which a token of each
  length of life (unknown, as short as a context, a step longer) is asked for, used
  and replaced; counters up to `MaxTicks = 4` that wrap at 2^4: `2 * MaxTicks < 2^Width`
  is what the code's 64 bits guarantee. Its behaviours stay in one part.
* `Device`, `Conn` and `Cmd` are symmetric in `hub_registry`, which has no
  liveness property. Deadlock is not checked: the sets of connections, commands
  and sockets are finite, so every instance may come to rest.

### Fairness

* `Hub`: a goroutine that can take its next step does (`WF` of `ReaderStep`,
  `WriterStep`, `CallStep`): the Go scheduler runs it, writes have a deadline of
  10 s, reads of 60 s, and calls a timer in each `select`. Nothing is assumed of
  agents, networks, or clients of the API: no link must break or hold, no
  command must be answered.
* `WakePath`: in addition the bounded loop of `EnsureOnline` and the 12 s
  deadline of the push end.
* `ControlSession`: time passes, the main looper runs the runnable, OkHttp's
  threads run (a callback that removed the watchdog posts it), and a socket asked to
  close ends (OkHttp cancels it after a minute). Nothing is assumed of users, pushes or
  the server.
* `HttpSpec`: goroutines go on between their statements, and a statement ends (`WF`
  of `ReaderStep` and `RequestStep`). A desktop agent that stays connected sends a
  heartbeat at each tick of its interval, which `readPump`, again and again in `ReadMessage`, reads
  among other messages (`SF` of `ReadRegister` for `Beating` only): `ConnectedSettles` and
  `IdentityReturns` assume nothing else, and say nothing of a device that leaves. Nor of
  a phone, for which both are false: after an old connection's `RemoveClient` it stays
  out of the registry for the rest of its session, and its own `client_started` writes
  placeholders over the identity that it registered just before.
* `EventMonitor`: the ticker fires and the goroutine runs (`WF` of `MonitorStep`).
  Nothing is assumed of network, battery and connections.
* `PendingStore`: WorkManager keeps running the worker, a post of the worker ends, and
  a record the server accepts, tried again and again, is stored some time. Nothing is
  assumed of the executor, the sync, sessions or users.
* `AgentClient`: goroutines run, a write ends within its 5 s deadline, Go's mutex starves nobody (`SF` of taking the lock), and its
  `select` chooses among ready cases at random, so that tickers cannot keep the
  main goroutine from `done` for ever (`SF` of `LeaveRun`). Nothing is assumed of
  executions, which may hang, the network, the server, the tickers or the user.

`AccessToken`, `CommandPath` and `Metrics` are checked for safety and state no fairness.

`QuietSessionsEnd` says what follows once nothing restarts the watchdog, and
`OthersAreDelivered` what follows once the process is no longer killed and the worker's
removals reach the file. `HandlersFinish` says that a handler gets to its execution and,
once that has ended, to its own end.
`BrokenConnectionsAreForgotten` names the one exception the code has: agents
register again with every heartbeat, and `readPump` waits for room in `SendChan`
to acknowledge it. When the queue is full by then and `writePump` has ended, that
room never comes: `readPump` stays there, and the registry keeps the connection
until the device connects anew. With the code's capacity it takes 64 messages
queued to a connection that is failing.

## 4. What is proved

`HubProofs` proves for any sets of devices, connections and commands and any
`SendCap > 0` that `HubInv` is an invariant of `Hub`. The properties alone are
not inductive. `HubInv` adds what a goroutine relies on between two steps:

* `PumpsKnow`: which local variable of `readPump` and `writePump` holds what,
* `CallsKnow`: a command not queued yet is `pending`, and the connection its call
  looked up belongs to its device, even if it left the registry since,
* `SentWasQueued`, `SentIsOpen`: what is in a queue or written was queued by its
  call, and its row stays `pending` or `timeout` until its answer is read,
* `AnswersMatch`: while a call waits, what `readPump` loaded and what is in the response
  channel are the answer that the row holds; if the row could not be updated it is
  still `pending`, and the call gets the answer itself or the pending row (`Due`).

The proof has a lemma per part and, in it, a step per action that touches what
the part speaks of. Lemmas on queues (`QueuesShrink`, `DispatchQueues`,
`QueuedBefore`, `SentBefore`) and on who may write what (`DevOfBefore`,
`TargetBefore`, `CallBefore`, `RowBefore`) carry what several parts need. It
follows that the five invariants of `hub_registry` and `RowHistory` hold.

`HubRefinement` proves `Spec => ImplementsLifecycleSafety`: `CallOffline` and
`CallInsertFails` map to `Refuse`, `CallBegins` to `Admit`, `WriteMessage` to
`Run` or a stutter, `ReadResponse` to `Store`, and the steps of a call to
`Abandon`, `Detach`, `Settle`, `Expire`, `RecordExpiry` or a stutter. Wherever the hub
stores a status, `CommandLifecycle` promises only what the code does: the status is
stored, or the command joins `unsaved`, the ones whose row may be behind (`Save`).

It then carries the hub over to live requests: `WakeSafety => Spec`, as each step of a
request is a step of the hub, a new call of `SendCommand` or no step of it at all. So
every theorem about `Hub` holds under `EnsureOnline`, the refinement included. This
needs `EnsureKnows` (part of `WakeInv`): while `EnsureOnline` waits, the command's call
has not begun, and after it the call is for the device that was waited for.
`OnlyFoundDevicesAreAsked` follows from it and from what `HubInv` says of calls that
have not begun.

`ControlSessionProofs` proves the four safety properties of `ControlSession` for
any set of sockets. That a session is watched holds although the restart takes two
unlocked steps: whoever removed the last copy is about to post one, or the session was
stopped meanwhile (`ActiveSessionIsWatched`). `SessionInv` adds `FieldsAgree`: a session is active exactly
when it has a socket, and an approval belongs to a running session. That last
part is why consent is asked again: an approval cannot wait for a push.

`AgentProofs` proves the safety properties of `AgentClient` for any sets of
connections and commands. `AgentInv` adds `WritersHold`: a goroutine that writes
holds the lock, writes to the connection in the field and is still where it
decided to send. Since setting and clearing the field need the lock, nobody
writes meanwhile; without that, a writer could be left on a closed connection.

`DeviceProofs` proves the three safety properties of `http_requests` for any sets of
devices, connections and requests, any number of records, failures and restarts, and
however many take part in a behaviour (`MaxActors` is any number). `HttpInv` adds what each goroutine relies on:

* `ConnKnows`: a connection speaks for the device whose agent opened it, and is past
  the lookup only with a device,
* `RowKnows`: who wrote a status last belongs to the device, and has not ended
  without a mark if the status is `online`; a device without a row is never online,
* `RequestKnows`: the records still to come and those not stored are the same number
  unless a statement failed, and an insert finds the row that the statement before it
  made sure of (rows are never deleted: `RowsStay`),
* `AbsenceKnown`: a list that reads a stored `offline` and finds no connection has
  seen the device absent.

Since most steps touch one connection, row or request, the lemmas `ReaderMoves`,
`ReaderWrites`, `RequestWrites`, `HandlerStep` and `HandlerRests` say once what the
others keep.

`PendingStoreProofs` proves the safety of `PendingStore` for any ids, any limit and any
number of contents per id. `PendingInv` has four parts:

* `ListsAreTyped`: what the lists hold, and that the store keeps its limit,
* `RecordsAreGenuine`: every record anywhere has a content that was captured,
* `RemovalsAreSafe`: an id that a poster is about to remove is on the server, and those
  that the sync is about to remove are on the server, arrived, in the socket's queue
  or known losses (`OnItsWay`),
* `NothingIsForgotten`: every id that was ever captured is in the store or on its way.

`OnlyKnownLosses` is not inductive: it says nothing of a record in the store that a
removal is about to take. `RemovalsAreSafe` is what the removals rely on, and it lasts because no
step takes an id off its way (`DeliveryIsForGood`). With one content per id, as SMS
have, `OnlyKnownLosses` follows; with more it is false (`store_notifications`), and
`NothingIsForgotten` is what remains true: the id is not lost, only its newest content.
The proof rests on what filtering keeps (`WithoutKeeps`: order, length and exactly the
other ids), derived from the rank of a place among those kept being a bijection.

`CommandPathProofs` proves `HistoryIsBounded` for any set of limits that clients ask
for (`PageInv`), and `SuccessMeansDone` from a lemma per agent (`LinuxIsHonest`,
`WindowsIsHonest`, `AndroidIsHonest`): no result has exit code 0 unless it was done
or belongs to a command of which agents pass over failures (`Overlooked`), and no
call reports another result unless the answer could not be stored (`PathInv`). `SameWishSameCommand` is
proved by cases of the wish: the GUI actions (`GuiWishes`) and the other operations
(`SameCommand`).

`CacheProofs` proves `UsedTokensAreValid` of `AccessToken` for any callers and lives.
`TokenInv` has the two facts it rests on: the client believes in a token no longer
than it is valid, as it counts from before the request (`ExpiryIsEarly`), and no
context ends later than `Patience` from now (`DueIsNear`), which is within the margin.

Of `EventMonitor` it proves `WarningsAreFew` for any number of goroutines: one
that has warned once more than the flag fell is still to write the flag or finds it
set (`WarnInv`); and `OneMonitorEmitsAll`, from what a sole goroutine's local
variable says of the fields it has and has not yet written.

Of `Metrics` it proves `UsageCoversItsInterval` and that the usage is a percentage, for
counters of any width. `IntervalInv` ties the history to the fields: `idleSince` and
`busySince` are the differences between the counters and the reading kept, a negative
one included. With `WrapOfSmall` (a difference that fits is not changed by the width)
and `ShareIsPercentage` (the only place that divides) this gives the answer of each
reading (`AnswerOfInterval`).

The assumptions are the named `ASSUME`s of the modules: `None` is no device,
connection, command or socket, a notice is no command, answers are `completed`
or `failed`, capacities are positive, bounds are numbers, an empty address is none,
a context is no longer than the margin of a token (12 s and 60 s in the code),
no token lives shorter than a context, and twice the ticks that a counter reaches
fit its width. `OnlyKnownLossesOfSms` alone assumes `MaxVersion = 1`, which is how the
code names SMS: by an id of their own.

Only model-checked:

* liveness (`CallsReturn`, `LiveRequestsEnd`, `BrokenConnectionsAreForgotten`,
  `ConnectedSettles`, `IdentityReturns`, `MonitorsSettle`, `QuietSessionsEnd`,
  `OthersAreDelivered`, `BrokenConnectionIsLeft`, `SignalEndsAgent`,
  `HandlersFinish`, the fair part of the refinement): the prover does not handle
  fairness.

Every safety property of a passing run is thus a theorem too, for instances of any
size.

The type invariants of `Hub`, `WakePath`, `DeviceRecords`, `ControlSession` and
`AgentClient` are proved (`HubTyping`, `WakeTypes`, `HttpTyping`, `SessionInv`,
`AgentTyping`) rather than checked.

## 5. Where code and documentation disagree

* `wake_noop`: the deferred function of a connection deletes the device's entry
  even when a newer connection owns it (`hub.go:87`).
* `session_stale_end`: `onClosed` and `onFailure` stop whatever session is
  running (`ControlSessionManager.kt:146`, `151`).
* `store_notifications`: removal by id after a post takes a newer content along
  (`ApiClient.kt:41`).
* `store_sync`: `sendPendingSync` removes records it had no socket for, or whose
  `send` returned false (`ControlSessionManager.kt:377`).
* `overlay_hides`: stopping the hide timer does not stop a callback that already
  waits for the lock (`overlay.go:162`).

## 6. Simplifications

* An agent registers under one identity: a desktop agent on connecting and again with
  every heartbeat, Android once, in `onOpen`. `Hub` lets any agent register whenever it
  is connected. `ping` is handled although no shipped agent sends it.
* A statement that reports a failure left its row as it was: an `INSERT` that is committed
  and whose confirmation is lost is not modelled. For the updates whose errors are
  dropped it makes no difference.
* A peer that never registers has no registry entry and no deferred work.
* Contents of messages, reports and records are left out; what is kept of a
  record is its id and the order of its contents.
* Marshalling and the collection of metrics in the agents do not fail; the agents'
  `stopChan`, which nothing closes, is left out.
* Time is the order of events: deadlines may pass whenever they are pending. Only
  `AccessToken` counts it.
* `EventMonitor` reads a string field in one step; Go promises less for unlocked
  strings, but the two words of a torn one would have to come from assignments that
  are ten seconds apart. The listing of interfaces is one reading.
* In `PendingStore` the server handles one batch at a time, as one `readPump` does. A
  `readPump` of an old connection that still stores its last batch while that of a
  new one reads is left out.
* `Metrics` is the CPU usage, in whole percents.
* `SuccessMeansDone` excepts what agents report as a success without having made sure;
  no document promises otherwise:
  - telemetry of every agent: a figure that cannot be read is left out or zero;
  - screenshots: on Linux two taken at once share a temporary file named by the process
    (`gui.go:227`), on Windows PowerShell goes on after a failed `CopyFromScreen` and
    exits 0 (`gui.go:291-319`), on Android the result of `compress` is dropped
    (`OmniAccessibilityService.kt:258`);
  - `click` and `list_windows` on Windows: the results of `SetCursorPos` and
    `EnumWindows` are dropped and an unknown button clicks nothing (`gui.go:61-83`,
    `win32.go:251`);
  - `get_sms`, `get_notifications`, `notification_action` and `unlock_device` on Android:
    a query that throws returns what it had (`OmniSmsManager.kt:91-95`), a listener that
    is not there an empty list (`OmniNotificationListenerService.kt:62`, `68-71`), an
    action without an input ignores the reply, and `setKeyguardDisabled` may refuse
    (`DevicePolicyHelper.kt:48`);
  - any command whose answer the hub could not store (`hub.go:211-217`).
* `SameWishSameCommand` excepts long shell commands: the MCP tool does not hand its
  timeout on (`routes.go:978`), so that the agent stops after its own 30 seconds.
* The limits of live lists travel to the device in the payload, which is left out;
  the limits modelled are those of stored history.

## 7. Not modelled, and why

* The cached public address and the reads of RAM, disk and system information: each
  call reads anew, and what it reads is the system's.
* Configuration, flags, the file of the device's identity, schema creation, wiring:
  read once, before anything runs at the same time.
* The unlock strategy, gestures, Shizuku, text input: sequences of calls into Android
  with no state that two actors share. Whether a command is carried out by them at
  all is in `CommandPath`.
* Child processes, X11 and Win32 beyond their results: among them the temporary file
  that two screenshots on Linux share.
* What the listener of events sends, and whether it arrives: `EventMonitor` ends at
  `Emit`. The send is a single try on its own goroutine, whose failure is dropped, and
  the loss of the network is emitted when there is none to send it by.
* What a client hears of a live request that outlasts the 15 s `WriteTimeout` of the HTTP
  server in `WakePath`: the handler ends, and that is what is checked.
* The order in which an agent, which runs a goroutine per message, carries out commands
  that were sent one after the other.
* Layout, permissions, preferences and boot of the Android application.
* JSON, SQL text, signatures and parsing of `/proc`.

What would be next: an abstract specification of what becomes of one captured record,
implemented by `PendingStore`, and liveness of several calls that compete for one queue.
