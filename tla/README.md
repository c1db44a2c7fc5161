# StrixMaid in TLA+

StrixMaid is a web console for hosts: a main process serves HTTP and
WebSockets, authenticates users through PAM in a *helper* process, and works
for them through a *worker* process that runs under their identity. What is hard
about it is ownership: of processes, of terminals, of frames on a shared stream,
while requests, timers, sweeps, logouts, crashes and dropped futures meet at every
`await`. These modules model that part of the program. Paths below are relative
to the repository; `core` stands for `crates/strixmaid-core/src`, `node` for
`crates/strixmaid-node/src`, `host` for `crates/strixmaid/src`.

## 1. The system

| Component | State it keeps | Operations | What makes it correct |
|---|---|---|---|
| Session manager (`core/session/mod.rs`) | pending dialogs, live sessions, their `Admin` slot, rows in the store | start of a dialog, answer, login, elevation, its end, lookup, logout, sweep, shutdown | one owner of each helper and worker; a session one finds is whole; what is taken away is ended; idle sessions end |
| Terminal registry (`core/terminal/mod.rs`) | table of terminals, reserved places, `closed` marks | open, close, end of the shell, idle sweep, `close_all_for` | the limit holds; one close per terminal; no shell is let go of; no terminal outlives its session |
| Attachment (`core/terminal/mod.rs`, `node/ws/terminal.rs`) | the attached client and its queue, the scrollback | attach with replay, pump with back pressure, stall limit, WebSocket loop | output without gap or repetition; only the right client is dropped; nobody waits for ever |
| Terminal table of a worker (`core/worker/terminal/unix.rs`, `windows.rs`) | terminals by pid, serials, marks, pseudo consoles | open, close, reap, linger | pid reuse harms nobody; a closed shell ends; its end is seen |
| Worker handle (`core/session/worker_handle.rs`) | pending calls, subscriptions, the reader | call, subscribe, drop, handshake, shutdown | every wait is bounded; no event is lost; no stream is left running |
| Worker process (`core/worker/mod.rs`) | calls and streams in flight | serve, run_subscription | answers and ends in order, an orderly end |
| Helper process (`crates/strixmaid-helper/src`, `core/session/helper.rs`) | the state of a PAM dialog, a session of PAM, a child | authenticate, spawn, close | both ends stay in step; the PAM session is closed; signals meet the worker only |
| Metrics (`core/metrics`, `core/store/metrics.rs`) | ring, tables by tier | sample, flush, roll-up, prune, query | every minute is written; a roll-up is exact; nothing is pruned before it is rolled up; a query meets no hole |
| Agent link (`host/ws_agent.rs`, `host/agent/client.rs`) | connection of a node, watermark of its backfill | connect, push, snapshot, reconnect | a connected node has a live connection; no row is passed over; the server catches up |
| WebSocket hub (`node/ws/hub.rs`, `node/ws/channels`) | subscriptions of a browser, positions in channels | subscribe, unsubscribe, publish, reply | a slow consumer loses frames only when told so; one live stream per channel |
| Control connection of the page (`web/src/lib/ws.ts`) | the socket, timers, listeners, what is confirmed | login, lock, subscribe, reconnect, confirm | one connection; the server serves what the page shows |
| Service events and actions (`core/providers/service/bus.rs`, `scm/mod.rs`) | listener or poller, its flags and queues, the flusher; the states of services | subscribe, signal, debounce, fetch, broadcast, retire, rebuild; start, stop, restart, enable, mask | one listener; a flood never blocks the reply it needs; changes and new subscribers are not forgotten; what is reported as done was done |
| Log: follow and pages (`core/providers/log`) | map of filters to what followers share; a cursor | follow, batch, drop; query page by page | one child per filter; a child without followers ends; pages join without a hole |
| Log view of the page (`web/src/logs/useLogs.ts`) | rows, cursor, buffer, the subscription | first page, older pages, follow, change of filter | the cursor belongs to the last row; rows of one filter, in order |
| Calls and their audit (`node/auth/exec.rs`, `audit.rs`) | none between requests; rows of the audit log | call as the user, again as root, write the row | nothing is done twice; one true row for what was done |
| Icon cache (`core/providers/process/icon/mod.rs`) | slots, placeholders | get, extract, cancel, evict, warm | a placeholder has somebody who fills it |
| Life cycle (`node/node.rs`, `node/lifecycle.rs`, `host/main.rs`, `host/winservice.rs`) | stage, request to stop, what the service control manager was told | start, serve, graceful and urgent stop | the store is closed, nothing is left when it says so, every stop ends |
| Store, cookies and tokens, routes, other providers, configuration | rows; none | SQL, extraction of requests, adapters of the operating system | mostly I/O and translation |

How they interact: a route calls the session manager or the registry; the
session manager starts helpers and owns `WorkerHandle`s; the registry asks the
worker for a terminal (`term.open`) through the handle and is told of the end of a
session by the teardown (`close_all_for`); the terminal table of the worker
holds the shell, and its output reaches the registry's pump over a channel of
its own, which the attachment hands to the WebSocket. The hub takes what the metrics and the other sources publish and forwards it to
the page; the agent link carries the rows of another host into the same
tables. All of it shares one tokio
runtime with several threads: between two awaits a task may be anywhere, and the
future of a request is dropped where it waits when its connection ends.

Hard behaviours, by component, with their lines, are listed under `hazards` in
`PROJECT.json`, each with the properties aimed at it.

## 2. The modules

| Module | Models | Composed with |
|---|---|---|
| `SessionManager` | the session manager with helpers, workers and rows as seen from it; end and restart of the process | - |
| `TerminalRegistry` | the registry with the session's teardown and the worker's end of `term.open` | - |
| `TerminalTable`, `ConsoleTable` | the worker's terminals, reapers and timers over reused pids, on Unix and on Windows | `MCParts` |
| `TerminalAttach` | one terminal: shell, pump, attachment, WebSockets | `MCParts` |
| `WorkerLink` | both ends of the connection to a worker | - |
| `Helper` | both ends of the channel of one helper, PAM, and the worker it starts | `MCParts` |
| `Metrics` | scheduler, ring, tables by tier | `MCData` |
| `AgentLink` | an agent and its server over several connections | - |
| `LiveStream` | abstract: what a subscriber of a channel is promised | - |
| `Hub` | the loop of a control connection, sources, streams | instance of `LiveStream` under a refinement mapping |
| `ControlClient` | the browser's end of a control connection | `MCParts` |
| `ServiceEvents` | the listener for systemd's signals, its flusher and the connection | `MCServiceEvents` |
| `ScmPoller` | the poller for services of Windows and its receivers | `MCServiceEvents` |
| `ScmActions` | actions on services of Windows, by several callers | `MCData` |
| `Exec` | calls of requests into the workers of their session, with the audit | `MCData` |
| `LogPages` | pages of a log that grows and rotates, by three kinds of cursor | `MCData` |
| `LogView` | the log in the browser: answers, subscription, buffer, filter | `MCData` |
| `LogFollow` | what followers of a log share | `MCParts` |
| `IconCache` | the cache of icons | `MCData` |
| `HostLife` | one run of the process, as a Windows service too | `MCParts` |
| `MC...` | instances for TLC | extend their module; `MCParts` extends `TerminalAttach` and `MCData` extends `Metrics`, the other components are instances there |
| `...Proofs` | invariants that are inductive, and the refinement of `Hub` | extend their module; `PartsProofs` extends `MCParts`, `DataProofs` extends `MCData` |

### SessionManager

A *conversation* is one run of `start_auth`: one helper, one pending id, at most
one worker. A conversation that logs in becomes a session, so an element of
`Convs` also names the session, its `Live` and its rows; one that elevates
becomes an `Admin`. `pending` and `sessions` are the two maps, `admin[s]` the slot
`Live.admin`, `rows` and `elevated` the database. A task is a request, the
sweeper or the stopper; `pc[t]` is the await at which it is suspended and
`sess[t]`, `conv[t]`, `at[t]`, `todo[t]` are its local variables. Each action is
the code from one await to the next, whole: `LoginCreate` is what `login_respond`
does until it asks for the worker, `LoginInsert` the rest. `Disconnect` drops the
future of a request: the `HelperConn` it holds dies (`kill_on_drop`), a
`WorkerHandle` does not end its process. `Die` and `New` are the end of the
process, orderly or not, and the start that prunes the rows.

Left out: names, credentials, audit text, the wire format. The clock is a
counter bounded by `MaxTime`; only differences of `Instant`s matter.

### TerminalRegistry

`table`, `reserving` and `closed` are the code's; `doomed[a]` is what a closer
(a request, the sweeper, the pump of a terminal, or a logout) has removed and
not yet shut down, `busy[a]` the one whose `term.close` it awaits. A DELETE takes
two critical sections: `Close` gets the terminal (`found[r]`) and `Finish` removes it, so
that two of them, or one of them and a logout, the sweep or the pump, may hold the same
terminal while its shell runs; `closed` decides among them in `Claim`. The pump leaves
its loop in three ways, `PumpEof`, `PumpFails` (a read that fails, fault `"read"`) and
`PumpStops`; after the first two it closes the terminal itself. `opening[r]` is the
terminal the worker has created for an open before `Commit`. `audits` counts the calls
of the observer. The session's teardown is here only as far as the
registry sees it. `resize` is left out: it changes the recorded size only.

### TerminalTable

Keys are pids, values carry a serial; a terminal of `Terms` stands for its
serial. `Insert` is the end of `open`, including the drop of an entry it
replaces; `Reap`, `Mark` and `Linger` are the reaper's steps with the unlocked
gaps between them; `close` is split at its awaits. With `"reuse"` the kernel gives
out the pid of a reaped shell, with `"late"` a shell may be gone before its entry
is inserted.

### TerminalAttach

One terminal and its clients. Output is a counted sequence of chunks:
`produced` by the shell, `read` by the pump, `from..to` in the events of a
queue, `seen` by the browser. An attach is `Install` (under the lock) and `Check`
(after it), the race with `shutdown` lies between; the pump's `try_send` under the
lock and its wait outside it are separate steps. The pump of the worker and the
socket are one bounded place in each direction.

### WorkerLink

`toWorker` and `fromWorker` are the socket: bounded sequences of frames. A call
or subscription is its id, and ids are not used again (`next_id`). A write that
is given up while it waits for room may leave a `"torn"` frame: the write lock
is released with part of the frame in the stream. The reader's stall, the
guard of a subscription with its watcher, and the three steps of `shutdown` are
actions of their own, as are the steps by which `serve` ends. The end of the main process, which `serve` sees as the end of its
stream, takes the way of a `Shutdown` frame and is not an action of its own. Attachments, method names and results are left out. SIGTERM has no
action here; `Helper` has the signals of a shutdown and the handshake.

### ConsoleTable

The same table with what differs on Windows: the pid is free when the reaper has
closed its handle (`"freed"`), the reaper takes the pseudo console out of its
terminal and closes it outside the lock (`"holds"`), and the main process sees the end
of a shell's output only when somebody has closed the console (`seen`). The
shells of a job end with the `Terminal` value (`Ended`).

### Helper

One helper on Unix. `toHelper` and `toMain` are the channel, `held` is where the
main process keeps the `HelperConn`, `pc[r]` the await of a request that has taken
it. The helper is one thread: `hpc` is what it reads or waits for, `phase` and
`rounds` are the dialog, `session` the session of PAM. The worker is a child of the
helper whose pid is free once it is reaped; `stage` walks through
the teardown and `WorkerHandle::shutdown`. `link` is the end of the worker's channel: after
`Connected` the reading task has it (`"reader"`), so that a request which is dropped then
(`Cancel`) or cannot write its row (`NotMarked`), and a teardown nobody finishes
(`TeardownDropped`), kill the helper and leave a worker with an open channel.
`Abandoned` names that worker; `NothingIsLeft` claims the end of every other one. `killed` remembers why the helper died without being
asked. PAM decides freely and may not return (`"stuck"`).

### Metrics

Time is counted in sampling intervals. A row is the set of the samples it
summarises, which is all the aggregates have to say about completeness and double
counting. One round is `Tick`, then flush, roll-up and prune by their transactions; errors of the
database, skipped rounds, an orderly stop and a crash fall between them. `stored` and
`rolledAt` are history. A query is an operator: `RingCovers` and `SelectTier` choose where
it is answered from, `LiveAnswerIsWhole` and `HistoryIsKept` compare the answer
with what was sampled.

### AgentLink

Rows are keys `<<minute, series>>`. A connection is used once and has a task at
the server which may outlive it, so that the tasks of an old and of a new
connection overlap. The agent's `apc` is `run_once` by its awaits, the server's
`spc[c]` the handler's; `watermark` is the local variable that advances when a
batch was sent.

### LiveStream and Hub

`LiveStream` numbers the frames of a channel and says what a subscriber is given:
the next one, the notice that n are missing, or on a channel whose frames replace each
other a later one. `Hub` has connections, tasks, tokio's broadcast (`Depth`) and watch
channels, `SelectAll` with the abort handles of `Subscriptions`, and a socket
that takes `SockCap` frames. The mapping reads `published` from the sources and
`chan`, `seen`, `told` from the live streams; `GapsAreTold` is `LiveStream!Spec`
under it.

### ControlClient

`WsClient` with one action per handler (open, message, close, the two timers) and per
method a view or the session store calls. `sock[s]` is the browser's view of a
socket, including the time between `close()` and `onclose`; the server is what
it takes (`up`), answers (`down`) and serves.

### ServiceEvents

`wire` is the connection of zbus, with the bounded queue of each signal stream: the
task that reads it waits while one is full, and with it every reply behind. The
listener is one task per spawn (`lpc`), its setup by steps (`phase`), its debounce
(`pending`, `armed`, `batch`) and the flusher's fetches are separate. `flag` is
`ListenerFlags`; retirement and the arrival of a subscriber meet there. A fetch that times
out leaves its unit out of the event; on a closed bus the unit is sent as not found.

### ScmPoller, ScmActions

The service control manager sends no events, so `ScmPoller` enumerates in rounds:
`prev` is the round before, `ppc` where the task of a subscriber stands, `polling` the
flag under the lock, `told` what a receiver has been sent. The retirement holds the lock
while it looks for receivers. In `ScmActions` a thread per caller goes through
open, control and wait; `base` is the state it saw, `starts` counts what the manager
really started, and a caller that gives up leaves its thread behind.

### Exec

A request arrives with the session it found (`snapshot`), calls the user worker,
and, refused by the kernel, once more the admin worker; `job[r][w]` is what each worker
did with it, `audited` the rows. Elevation, logout, crashes, slow workers, a dropped
request and a failing store fall between the awaits.

### LogPages, LogView

An entry is its place in the log, its time, a hash and what filters it. A cursor of
`journald` is a place, the others are time and hash, which is not the order of the log
within one instant; `TailSlack`, `CursorSlack` and `MaxScan` are the limits of the
source. `LogView` is the hook with its state as React keeps it: an update given to
`setRows` runs at the next render, so requests, frames of the subscription and
renders are actions of their own.

### LogFollow, IconCache

`LogFollow` has the map of weak references, the leases of followers and the
child with its reader; `IconCache` the slots with their placeholders, the callers that
wait for one, the guard that removes it and the warmer's round.

### HostLife

One run of `main`, by stages, for a server and an agent, in the foreground
and as a service. `asked` is a request to stop as the watch channel or the signal
holds it, `relay` the task that waits for it; `workers` has `"live"` for those of the
sessions and `"torn"` for one of a session the sweeper has removed and not yet ended, which
the stop leaves behind when it aborts the sweeper there (`node.rs:277`); `current` and `checkpoint` are
`ServiceControl`, `told` what the service control manager knows. `broken` is what
has stopped answering: the database, the workers or the other host. That the server ends by
itself (`main.rs:256`) is left out, as `axum::serve` returns only when it is told to.

### MCParts, MCData and MCServiceEvents

Components that do not interact are checked side by side: `part` is chosen at the
start and never changes, one component moves and the others keep their state, so that
the run explores the sum of their states. Each component keeps its own `Next`
and its own fairness, restricted to the behaviours that are about it. Types and the
smaller invariants of the components are conjuncts of the properties of the run
(`PartsAreSound`, `SharedWorkHasItsWorker`, `OperationsAreTrue`, `LogIsWhole`, `ListensOnce`).

## 3. What is checked

The instances are the smallest in which the meetings of interest happen: two
tasks beside the sweeper, a second owner for each thing that is reused, queues of
one or two so that they fill.

| Run | Bounds | Shows |
|---|---|---|
| `session_safety` | 3 conversations, 2 requests, sweeper, stopper, time 0..1, database errors, dropped requests, crash | `OwnersAreSingle`: one owner, one teardown; `SessionsAreWhole`: sessions and admins are backed by helper, worker and rows |
| `session_liveness` | 2 conversations, 1 request, time 0..2, sweeper, stopper, crash | teardowns complete, idle sessions and elevations end; no stray user worker, no unexplained elevated flag |
| `terminal_safety` | 1 session, 2 terminals, 2 requests, 1 place, dropped requests, timeouts, failed reads, crash | `PlacesHold`: the limit and the accounting; `ClosesAreOnce`: one closer, one report, listed terminals are open |
| `terminal_liveness` | 2 terminals, 2 places, 1 request, failed reads | no running shell is let go of, whichever closers meet; a terminal whose shell has ended, whose session is gone or that a closer holds leaves the list and is reported once |
| `attach_safety` | 2 clients, 4 chunks, queue 2, scrollback 2 | output without gap or repetition across replay, replacement and stall; nobody is dropped by mistake; a true exit frame |
| `worker_link` | 1 call, 1 subscription, socket of 1 and 2 frames, queue 1, 3 events, dropped requests, crash | no leftover entry, lost event or forgotten stream; every wait on a worker that reads ends |
| `parts` | below | the seven parts of `MCParts` |
| `data` | below | the six parts of `MCData`: `MinutesAreKept`, `LiveAnswerIsWhole`, `RollupIsExact`, `HistoryIsKept` of the metrics; `SharedWorkHasItsWorker`; `OperationsAreTrue`: one true row per operation, no restart without a start; `LogIsWhole`: pages and their view join without a hole |
| `agent_link` | 3 connections (the last undisturbed), 2 series, 2 minutes, 1 row per frame, cuts, database errors, restarts | `OnlineHasServer`, `WatermarkIsBacked`, `NoGap`; `Delivered`: the server has every row in the end unless its insert failed |
| `hub` | 1 connection, a broadcast and a watched channel, 2 streams, depth 1, 2 frames | `StreamsAreOwned`; `GapsAreTold`: the hub implements `LiveStream`; `SubscriberCatchesUp` |
| `service_events` | listener: 2 subscribers, 1 unit, 2 streams, queue 1, 2 changes, 1 fault; poller: 2 subscribers, 1 service, 2 changes, 1 failing round | `ListensOnce`: one listener or poller; `FloodLosesNothing`; `ReceiversAreTold`: what changed and lasts is told; `ReceiversAreServed`: somebody looks for every receiver |
| `log_end` | 1 follower | a violation: the follower of a child that has ended is never told so |

The parts of `parts`: the table with 2 terminals over 1 pid that is reused and shells
that exit at once; an attachment with 1 client and every buffer 1, which 4
chunks fill; a helper with 2 requests, 2 rounds of prompts and 1 fault; 2 consoles over 1
pid; a page with 1 view, 3 sockets, 4 acts of its user and 1 connection that
breaks or channel that ends; a process of each kind, started in both ways, with a
database, workers or a server that hang; 2 followers with 2 filters and 2
children of the log. The parts of `data`: 2 samples a
minute, tables of buckets of 1, 2 and 4 minutes that keep 4, 8 and 12, 5
minutes, 2 troubles of any kind; 2 callers and the warmer over 2 names with room for 1;
a request of every kind over 2 elevations and 2 faults; 2 callers on 1 service that
others change once; a log of 3 entries, of any order within 3 instants and 2 channels,
read by 2 pages of 1 entry; its view with pages of 1, 2 rows kept and one
change of the filter. `agent_link`, `data` and `service_events` do not check deadlock:
their clocks, connections and changes are bounded, so that every behaviour stops.

Three conversations are a session with its elevation and the one that replaces
it, or three sessions; two requests and the two background tasks give every pair
of tasks, and the proved properties hold for any number. A third terminal adds
nothing to `TerminalTable` that pid reuse by a second one does not have: the
properties relate a terminal to one other owner of its pid. `MaxOut = 4` fills
queue, pump, socket and terminal and leaves one chunk in the shell's hands. Three
events fill the queue and the reader and leave one on the way. Of three connections one is
old, one is new, and one stays up so that there is something to reach. With
depth 1 the second frame overwrites the first. In the tables every tier keeps more than a
bucket of the next one, as `TIERS` does; five minutes fill one bucket of the
coarsest and begin the next, and the finest table prunes within them.

Each property is tested against a plausible slip of the code, written beside the
definition it would replace (`PeekSession`, `RingFullEarly`, `DropQuietly`, ...) and
listed under `mutants`.

### Fairness

- `SessionManager`: tasks that are suspended at a bounded await go on
  (`RequestStep`, `TeardownStep`), the sweeper's interval fires, the shutdown goes
  on. Nothing obliges a user, PAM, a client or the clock. This takes
  `WorkerHandle::shutdown` to be bounded, which it is for a worker that reads
  (`worker_link`) and is not for one that does not (section 5).
- `TerminalRegistry`: opens end by an answer or by `RPC_TIMEOUT`; closers, the pump and a
  DELETE that has found its terminal go on.
- `TerminalTable`, `ConsoleTable`: `waitpid` or the wait for the handle returns for a
  shell that is over, timers fire, a pipe whose console is closed ends; SIGKILL and
  the job end a shell. No shell exits by itself.
- `TerminalAttach`: the host's tasks and timers; no browser reads, no shell reads.
- `WorkerLink`: the main process (tasks, timers); the worker reads its frames and
  cancelled streams stop. No call has to be answered and no receiver has to take
  an event.
- `Helper`: the helper's thread goes on, except within PAM; a shutdown goes on by its
  limits; a worker whose channel was shut ends, one whose channel stays open need not. No
  request is made.
- `AgentLink`: the agent's task and each handler at the server go on. Nothing obliges
  a connection to hold, except the last one.
- `Hub`: a handler goes on and its send ends by success or by its timeout; a
  stream that has something is polled again and again (strong fairness, since `select!`
  chooses at random among what is ready). The browser need not read.
- `ControlClient`: the browser fires its timers and delivers the events of its
  sockets; the server answers a socket that stays (strong fairness: it may break in between).
- `ServiceEvents`: systemd answers, the reading task, the listener, the flusher and the
  subscribers go on; a timeout is only forced where nothing else can happen.
- `HostLife`: the stages, the control thread, the waiting task and the cleanup go on by
  their limits; nobody has to ask for a stop.
- `LogFollow`: the reader sees the end of its child, the drop of what followers share
  aborts it, a follower takes what there is. No child has to end by itself.
- `ScmPoller`: the poller's rounds go on and a subscriber that asked for a poller gets
  the lock. Rounds may fail, a bounded number of times.
- `Metrics`, `IconCache`, `Exec`, `ScmActions`, `LogPages`, `LogView`: safety only.

## 4. What is proved

For every value of the constants, from the named assumptions on them alone
(`ConstantsAssumption` of a component, `MovesAssumption` of `MCServiceEvents`,
`PartsAssumption` of `MCParts`, `DataAssumption` of `MCData`). Some theorems have a
hypothesis more, which is in their statement: four exclude faults, as the runs of their
properties do; one excludes PAM modules that ask something when a session is opened, which
is where the property fails (section 5); three ask that constants of the metrics fit together.

| Module | Theorems | Hypothesis beyond the constants |
|---|---|---|
| `SessionManagerProofs` | `OwnersStaySingle`, `SessionsStayWhole`, `TypeCorrect` | - |
| | `UserWorkersAreOwned` | no request is dropped |
| | `RowsAreExplained`, `ElevationsAreExplained` | crashes are the only fault |
| `TerminalRegistryProofs` | `PlacesAlwaysHold`, `ClosesStaySingle` | finitely many terminals and requests, since places are counted (in `ConstantsAssumption`) |
| | `ShellsAreNeverLetGo` | crashes of workers and failed reads are the only faults |
| `PartsProofs` | of an attachment `ClientsStayServed`, `ExitFramesAreTrue`, `OutputIsWhole`; of the table `MarksAreTrue`, `RunningShellsAreReachable`, `ReuseStaysHarmless` | - |
| | of the seven parts together `PartsStaySound`, and with it `ConsolesStayOwned`, `ProcessStopsWell`, `PageHasOneConnection`, `FollowersShareOneChild`; `SessionsAreClosed`, `SignalsFindWorker` | - |
| | `HelperStaysInStep` | `~SessionPrompts`: `pam_open_session` asks nothing |
| `DataProofs` | `LiveAnswersAreWhole`, `SharedWorkStaysWithWorker`, `OperationsStayTrue`, `DataIsTyped` | - |
| | `MinutesStayKept` | `RingSuffices`: the ring holds more than a minute and the rounds that may be late |
| | `RollupStaysExact`, `HistoryStaysKept` | `RetainSuffices`: each table keeps a bucket of the next one and less than that one does |
| `WorkerLinkProofs` | `AnswersStayOwned`, `StreamsAreWatched`, `EventsAreKept` | - |
| `HubProofs` | `StreamsStayOwned`; `HubKeepsItsPromise`: `Hub` implements `LiveStream` | - |
| `AgentLinkProofs` | `OnlineAlwaysHasServer`, `NothingSentIsLost`, `StoreHasNoGap`, and `LinkIsInOrder`, the invariant they follow from | - |
| `ServiceEventsProofs` | `ListenerStaysSingle`, `FloodsAreHarmless`, `OneTaskListens` | - |

The argument is the same in all: an invariant holds initially, each action preserves
it (one lemma per kind of task), and it implies the properties. The properties alone are
not inductive; what each invariant adds is what the code relies on without saying so.

- `SessionManager`: an action installs what a task holds, so `HeldIsBacked` says what the
  task's conversation has at each await; a session torn down may not come back, which needs
  `RefsAreLive` (every reference is to a session that was inserted) and `InsertIsFresh` (one
  about to be inserted is referenced by nobody); `DialogFirst` keeps processes apart from
  dialogs; `StopperIsAlone` says that the stopper's list is its own; `RowGoesLast` gives
  `UserWorkerHasRow`; `DownIsEmpty` is needed for the restart. On top of it
  `NoStrayUserWorker` is inductive with `StopperRests`: the drain of a shutdown is the one
  task that tears down without being a task of the running process.
  `ElevatedRowIsExplained` needs `RowIsExplained`, that a row has a session or a task behind it,
  because an elevation marks a row only if it is there.
- `TerminalRegistry`: `OpeningIsFresh` and `UncommittedIsUnknown` say that a terminal in the
  making is known to its open only (no DELETE has found it either), and `OneStage` that a place is given back once; the
  arithmetic of the limit rests on the cardinality of `TermsOf` and `OpensOf` changing by
  one. `NoStrayShell` says a closer has the shell on its list; the loser of a race drops it from
  its list too, so `ClosedIsBusy` says that the winner still waits for the end of that shell,
  and `ListsStartEmpty` that no list is overwritten while it holds one: that of a DELETE is
  empty as long as it has only found its terminal, that of a pump has its own terminal at most.
- `TerminalTable`: `ReaperFollowsShell` ties a reaper and its timer to a shell that is over,
  `StartedOnly` ties an entry to the pid of its shell, and `TakenByCall` says that a close
  takes once; with them the two properties support each other.
- `TerminalAttach`: `RemovedIsOver` says that a client is let go of once (it has been attached
  before and never is again), so `ReasonIsTrue` holds: whatever waits in its queue or became its
  `CloseReason` is the reason it was let go of; with `CloseGoesFirst` that makes the exit frame
  true. `NothingIsLost` is about the whole content of a queue: `FlowInv` says that a queue has
  one goodbye at most, so that each chunk follows the one before it or the one before
  that, and that the sum of what a client was shown and of what is queued is what the pump has read,
  one chunk less for the client whose sender the pump holds outside the lock, attached or not.
- `ConsoleTable`: `ConsoleReaps` says that a reaper is done, and its timer runs, only when the
  shell's pid was freed, that a close that waits has taken a terminal, and that a terminal is marked by
  its own reaper or by the close that took it.
- `Helper`: `HelperTalks` says for every place of a call what may be in the two directions of
  the socket and where the helper can be then. What is sent is answered once and in order,
  also when a request is cancelled and the next one finds the answer of the one before:
  that is what `InStep` needs and cannot say itself.
- `ControlClient`, `HostLife`, `LogFollow`: `PageInv` (one socket or one timer is the page's),
  `HostInv` (what the main thread has started, what it was asked to do and what the service
  control manager was told agree, stage by stage), `LogInv` (a follower's child has the
  filter it is stored under).
- `Metrics`: `TimeInv` says that flushes follow the clock, `RecentStay` that the ring has what
  the last `ring_secs` brought, which is what a live query needs. `RoomInv` adds how far behind the
  clock a flush can be, counted in the rounds that were late, so that the minutes it is still to write
  are among those. `TableInv` is about every bucket of every table. `RowIsThere`: a bucket that was
  over at a roll-up has its row or is `Pruned`, and a pruned bucket is one that every table has been
  rolled up beyond and below which the finer tables have gone too; otherwise the next
  roll-up of a coarser table would begin without it. `RowIsExact`: a row is what was stored in its bucket,
  or the bucket is `Damaged`, one of those below it having been `Unfollowed`: made again
  after its source had been pruned, because no later row had come in time to move the start of
  the roll-up beyond it. Both need the order of a round (`RoundInv`): all roll-ups from the finest to the
  coarsest table, then all prunes in that order. The lemmas on `Align` and `Bucket` say that the
  buckets of the tables nest, whatever their widths.
- `IconCache`, `Exec`, `ScmActions`: `IconInv` (a call under way has a key, a placeholder its
  call), `CallInv` (for each await of a request, what its workers have done and whether its row is
  written), `ScmInv` (a restart about to start its service finds it stopped, or started by somebody else since).
- `WorkerLink`: `CallInv` relates `call` and `pending`; the full types of both ends are carried
  along because frames are sequences whose length decides what may be sent. For the streams
  `Watched` already speaks of a subscription whose `Subscribe` is being sent or on its way, and
  `StartsOnce` says that no second `Subscribe` is behind it and that an `end` is the last thing a
  stream sends: without it the reader could clear the entry of a stream that runs. `EventsAreKept`
  counts the events in `fromWorker`; its lemmas say how `Append` and `Tail` change the count of a frame.
- `Hub`: a stream in the making is referred to by nobody (`MakingIsAlone`), and an event that is
  being sent is one frame behind the position of its stream (`OneEventBehind`). With them every
  action maps to one action of `LiveStream` or leaves its variables alone: the two moves of the
  refinement are a poll that takes a frame (nothing changes for the subscriber yet) and the send
  that succeeds (`Deliver`, `Announce` or `Supersede`).
- `AgentLink`: `NoGap` is about the rows at the server and says nothing of what several connections
  still carry. `FramesAreBacked` asks it of each frame on its way: what is older than its rows has
  arrived or comes before it in the same connection. A frame is cut from what lies behind a watermark,
  so this needs `WatermarkIsBacked`; a watermark starts where an `agent.resume` says, so
  `ResumesAreBacked` asks that what is older than such a time has arrived as long as the answer is on
  its way. `MinutesAreWhole` is why a time can stand for its rows, and `ConnectionsAreInOrder` why a
  connection that is not dialed carries nothing.
- `ServiceEvents`: that a flood wedges nobody is a statement about every reply that is awaited.
  `RepliesAreCounted` says that the replies under way of a caller are those it has given up (`skip`)
  and the one it waits for; `LastIsExplained` that the last call of the listener is about a match
  rule only in a setup that has come so far; `StreamsAreOwned` that streams are those of a setup or
  of the loop that reads them. From these `FlusherIsNotWedged` follows: while the flusher waits, nobody
  but a polling loop has streams, so the connection is read and its reply comes. `HolderInv` says
  that the flag has one holder and in one role, as the setup and the task that follows are two.
  The poller of Windows has `PollerInv`: one poller, which exists while there is a receiver, and
  every receiver knows what the round before has seen.

`RowsAreExplained`, `LinkIsInOrder` and `DataIsTyped` state invariants that no run lists; TLC has
checked them, like every inductive invariant, on the instance of the module's run before they were proved.

Two things came out of the proofs of `Metrics`. `SampleIsKept` used to ask for every minute within
`Retain[Top]` of the running one; the invariant did not give that, and TLC found the reason on
larger bounds: the prune compares seconds, so in a minute that is not over it clears a
bucket a fraction of a minute earlier. The property now says `~Outdated`, as the prune does. And
`MinutesStayKept` needs `RingSuffices`, while the configuration only asks for
`ring_secs >= 60`, one minute: with exactly that the first sample of a minute is gone when the
minute is written (`MinuteIsComplete` in section 5).

Only model-checked: `LogIsWhole`. Which rows a page of `LogPages` has is the result of sorting and
merging, which rows `LogView` renders that of folding a queue of any length; the library's
theorems on such definitions take operators as parameters, which the installed provers
cannot instantiate. Liveness under fairness and ENABLED are out of the prover's reach: that
waits end (`CallsEnd`, `TeardownCompletes`, `EverybodyIsServed`, `NothingIsLeft`, `ReceiversAreTold`,
...) rests on TLC alone. No module here has a RECURSIVE operator.

## 5. Where the code and its comments disagree

The run `log_end` shows one of these: what followers of a log share keeps a sender of its
own channel, so a follower is not told when `journalctl` ends.

Some definitions state what a comment says and the code does not keep. No run
checks them, since one counterexample is enough; whoever changes the code
can add the name to the cfg of the module and see whether it holds:

| Definition | What happens |
|---|---|
| `NoAdminWorkerAfterLogout` (`SessionManager`) | an elevation that looked its session up before a logout installs an admin worker in it afterwards; nobody ends it |
| `NoTerminalAfterLogout` (`TerminalRegistry`) | an open that awaits the worker during a logout commits its terminal to the closed session (the end of the worker then closes it) |
| `TimeoutIsHarmless` (`WorkerLink`) | a timeout, or a dropped request, cuts a frame in half, and the worker ends at the next one |
| `MinuteIsComplete` (`Metrics`, with `RingSecs = PerMin`) | the first sample of a minute pushes one of the minute before it out of the ring, which is then written without it |
| `AgentRowsAreRolledUp` (`Metrics`) | the roll-up starts at the newest row of anybody; late rows of an agent stay behind it |
| `OnlineIsTrue` (`AgentLink`) | the late end of an old connection marks a connected node offline |
| `SubscribedMissesNothing` (`ServiceEvents`) | a subscriber returns while another one's listener still sets up its signals |
| `ChannelEndClosesSession` (`Helper`) | a request that is cancelled kills the helper, which then does not close the session of PAM |
| `EveryWriteHasItsRow` (`Exec`) | a request dropped while its worker works leaves no row in the audit log |
| `DeadWorkerEndsSession` (`Exec`) | a dead user worker fails the call but the session stays |
| `RowSaysRoot` (`Exec`) | the elevated column is what the request found at its start, not as whom it was done |
| `StartMeansRunning` (`ScmActions`) | a start while a stop is pending is reported as a success |
| `UnmaskKeepsAuto` (`ScmActions`) | unmask overwrites an enable that fell between its read and its write |
| `EndIsEnd`, `NoPageIsRefused` (`LogPages`) | a page without a cursor although older entries exist; a cursor the next request refuses |
| `FollowedStays`, `OtherFiltersAreDropped` (`LogView`) | the first answer replaces rows that came by the subscription; a page of the former filter passes when the cursors are equal |
| `UrgentMeansNow` (`HostLife`) | an urgent stop is not heard by an agent that waits for a silent server |

Two models carry a history variable for a case the code handles wrongly, so that the rest
of the property can be checked around it: `late` in `ControlClient` (a socket
that was closed tells of its end after the page has logged in again) and `missed` in
`ConsoleTable` (a shell whose reaper came before its entry was inserted). Setting
`SessionPrompts` in `Helper` adds a PAM module that asks something when the session is
opened, which nobody answers.

Read off the models or the code while writing them:

- `core/session/mod.rs:834`: the use of an elevation refreshes its own timer, not
  the session's, so a session in use by its elevation may be logged out (header, 27-29).
- `:1029`: a dialog whose answer PAM is working on has left the map, so
  `pending_timeout` does not end it.
- `:662`: `drop_elevation` between the two writes of `elevate_respond` leaves a
  row that is not marked although its session is elevated.
- `:665`: a database error after the admin worker has started leaves it running;
  with the next elevation there are two.
- `:770`: a logout whose request is dropped is finished by nobody. The worker either of
  the two leaves is `Abandoned` in `Helper`, and `NothingIsLeft` without that exception
  is violated.
- `:924`: a login that is inserted after the drain of the shutdown is not torn down.
- `core/terminal/mod.rs:905`: the idle sweep may close a terminal that was attached
  after it looked.
- `:706`: an open that timed out leaves its shell running until its worker ends.
- `:956`: a close whose request is dropped reports nothing.
- `:511`: a WebSocket that was replaced while it writes hangs until the shell reads.
- `core/worker/terminal/unix.rs:308`: a signal may be sent between `waitpid` and
  the mark; `:302`: a late close may take the next owner of the pid; `:242`: the
  entry of a shell reaped before its insertion is never marked.
- `core/session/worker_handle.rs:423`: the first wait takes the reader's handle, so
  `TERM_GRACE` is never waited; `:329`: a subscription inserted after the reader
  cleared the table sees no end (against 317); `:602`: the reader itself waits
  without limit to send `Unsubscribe` to a worker that does not read.
- `core/store/metrics.rs:117`: the newest bucket is rolled up again at every flush, also
  when part of its source was pruned meanwhile; `:104`: the choice of a table
  compares the length of a query with the retention, not how far back it starts.
- `host/agent/client.rs:287`: the agent ignores an `err` frame, so rows whose insert
  failed are sent again only if no later ones arrive.
- `node/ws/channels/metrics_live.rs:114`: a round between the snapshot and the
  subscription is in neither.
- `core/providers/service/bus.rs:578`: the setup holds streams while it awaits replies,
  which the comment above it forbids; a flood at that moment costs a timeout.
- `core/providers/service/bus.rs:459`: a fetch that fails because the bus is closed
  reports its unit as not found, as if it had vanished.
- `core/providers/process/icon/mod.rs:361`: what is due is removed before it is
  fetched again, so the cache does miss in its steady state.
- `web/src/lib/ws.ts:123`: when the source of a channel ends its entry stays confirmed
  and is not asked for again.
- `node/node.rs:110`: a session manager that cannot start leaves the store
  unclosed.

All of them are under `findings` in `PROJECT.json`, with the lines quoted, except those in
this list that contradict no comment.

## 6. Not modelled, and the plan

Not modelled, and why:

- Collectors, the providers for processes, files, network and system
  information, the parsers of `journalctl`, oslog and the event log (`LogPages` has what
  they are asked for and where their pages end): each request is
  one pass over an interface of the operating system, without state that two of them
  share. This is the larger half of the implementation, which is why the map
  covers only a small share of its lines.
- The plist scanner of macOS, the actions of systemd and launchd: one call each, or two
  snapshots compared in one task.
- Configuration, capabilities, HTTP routes, cookies, tokens and rate limits:
  parsing and translation, no state across an await.
- Framing at the level of bytes: tests of round trips cover it; torn frames, which
  tests do not reach, are in `WorkerLink`.
- The web application apart from its control connection and the view of the log: views
  without a protocol.
- Installation of the service, the Windows variants of helper and session.

What is left of the plan, in order:

1. A proof of `LogIsWhole`: the lemmas on sorted sequences, merges and folds that it needs.
2. `SessionService` and `TerminalService`, what a user is promised of a session and of
   a terminal, implemented by `SessionManager` and `TerminalRegistry` as `Hub` implements
   `LiveStream`.
3. `ControlClient` composed with `Hub`: the page against the server it really has.
4. The event log's follow on Windows.
