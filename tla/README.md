# TLA+ for Valyria App

Specifications, model-checking configurations and proofs for the parts of the
Valyria desktop app whose correctness depends on the order in which things
happen: the event stream from Core to the editor, the Core daemons behind it,
the processes in between, the requests that go the other way, and what a window
makes of all that. All paths below are relative to the repository
(`src/`). The program is the reference; every definition was translated from
it, and `PROJECT.json` ("map") names the lines each definition stands for.

## 1. The system

```
  VS Code extension (one JS thread per window)
    extension.ts, commands.ts, views/*        user actions, reopen, approvals
    session/supervisor.ts, resume.ts          connection state, resume prompt
    store/store.ts + packages/state reducer   the projection: rows, tasks, approvals
    bridge/host.ts, bridge/client.ts          the child process and its JSON-RPC client
        |  stdin: requests, in order             ^  stdout: responses, event batches, in order
        v                                        |
  valyria-bridge-host (one process per window; tokio)
    main.rs: main loop (one request at a time), supervise tasks, Host.live
    valyria-bridge: supervisor.rs (spawn_or_adopt), event_pump.rs, client.rs
        |  files in run/<id>/: sock, pid, auth.token, meta.json
        v                                        ^  event subscriptions
  Core daemon `valyria serve` (external; one per workspace, outlives the window)
```

Only `seq`, the number Core's journal gives each event, orders anything. The
extension keeps no state of its own that it cannot rebuild from the journal.

### Inventory

| Component | State | Operations | Hard part | What makes it correct |
|---|---|---|---|---|
| Event pump (`event_pump.rs`) | `delivered_last`, the coalescing window, a 64-slot channel, the probe count | subscribe, collect, send, reconnect, give up, abort | the stream drops at any point of a window; Core's replay may overlap; the channel is full | exactly the events past the cursor, once each, in order; `Closed` names the consumer's cursor; silence only if Core is silent |
| Bridge host (`main.rs`) | `Host.live` (session, client, `last_seq`, supervise task), the main loop's request | `session/open`, `session/close`, `session/restart`, `supervise`, `restart`, ~40 forwarding calls | two supervise tasks overlap in a swap; `last_seq` is raised one line before its batch is sent, read on another thread, then awaited on; an aborted task runs to its next await | a resume cursor never skips an event that nobody holds; one un-aborted stream per session |
| Event store and reducer (`store.ts`, `packages/state`) | `lastSeq`, event rows, `gapDetected`, projections of tasks, approvals, tests, models | `reset`, `ingestBatch` | batches of two sessions on one pipe; reset while old batches are on the way | the store is a prefix of the journal and catches up |
| Session supervisor (`supervisor.rs`) | the run directory shared by every window of a workspace | `try_adopt`, spawn, `poll_negotiate`, `write_pid_and_meta`, `shutdown_daemon` | no lock: every file operation interleaves with another caller's; stale files; a slow or foreign daemon | one daemon per workspace; found again after the UI is gone; shown at its real autonomy level |
| Bridge-host lifecycle (`bridge/host.ts`, `extension.ts`) | `proc`, `_client`, `respawns`, `respawnTimer`, `intentionalStop` | start, exit event, respawn timer, `markHealthy`, restart, dispose | the exit event of an old process; a timer against a user's command; close before exit | one host; bounded crash loop; recovery with handlers attached; nothing after deactivation |
| JSON-RPC client (`bridge/client.ts`) | pending requests, handlers, closed | request, notify, close | the process dies with requests pending | every request settles, none on a closed client |
| Extension session supervisor, resume prompt (`session/*.ts`) | connection state, SessionInfo, capabilities | `setConnection`, open result, prompt | a later failure overwrites `incompatible`; a prompt on the first batch of a long replay | the state shown is the session's |
| Approval flow (`views/dispatch.ts`, selectors) | the ask in the projection, the dialog, Core's pending request | ask, resolve | the check and the resolution are not atomic; the resolution names only the task | the answer given is for the question seen |
| View caches (`views/*.ts`) | last focused task, `fetching`, cached report | refresh on focus or event | a focus change while a fetch runs; answers out of order | the panel shows the focused task |
| Config writer (`config_writer.rs`) | the config file and one temporary name | read-modify-rename | two windows at once | no lost update, never a torn file |
| Request dispatch, Core client (`main.rs`, `rpc.rs`, `client.rs`) | the request being served, Core's calls under way | 45 methods: check parameters, call Core, answer | one request at a time; a call that outlives its ceiling goes on in Core; untyped method tables on both sides of a byte stream | every request is answered, with Core's answer to that request |
| Projections (`registry.ts`, `reducer.ts`, `selectors.ts`) | tasks, plans, approvals, files, tests, installs, servers, rows | decode, fold, select | events repeated, unreadable, of several tasks interleaved | what is shown is a reading of the events held |
| View models (`store/models.ts`) | none | one per surface | each surface works out the focus, the state and the ask for itself | the surfaces agree |
| Watcher, file access, git, binary lookup, generated types, DOM code, build tooling | none that matters over time | parsing, lookup, rendering | - | - |
| Core daemon | journal, streams | external | drops a stream, dies, comes back | environment of the models |

`PROJECT.json` lists the same components with the modules that model them, and
under "hazards" each place where the code is exposed to something a test hardly
reaches, with the properties that watch it.

## 2. Modules

| Module | Models | Checked by | Proofs |
|---|---|---|---|
| `OrderedDelivery` | the promise of an event pump, abstractly | as a property of `EventPump` | |
| `EventPump`, `MCEventPump` | `event_pump.rs` with Core's stream and the consumer | `EventPump.cfg` | `EventPumpProofs` |
| `SessionStream` | sessions, supervise tasks, stdout, store, host crashes | `SessionStream.cfg`, `SessionStreamReopen.cfg` | `SessionStreamProofs` |
| `SpawnOrAdopt`, `MCSpawnOrAdopt` | `supervisor.rs` by several hosts over one run directory | `SpawnOrAdopt.cfg`, `SpawnOrAdoptRace.cfg`, `SpawnOrAdoptMode.cfg` | `SpawnOrAdoptProofs` |
| `BridgeHost` | `bridge/host.ts`, `extension.ts`, `bridge/client.ts` | `BridgeHost.cfg`, `BridgeHostRestart.cfg` | `BridgeHostProofs` |
| `ApprovalFlow` | reducer and selectors for tasks and asks, `notify.ts`, `focus.ts`, the chat card, `dispatch.ts`, `permission/resolve` | `ApprovalFlow.cfg`, `ApprovalFlowMistaken.cfg` | `ApprovalFlowProofs` |
| `Projection` | `events/registry.ts`, `reducer.ts`, `selectors.ts`: pure operators | through `TaskWindow` | |
| `ViewModels` | `extension/src/store/models.ts`: pure operators over `Projection` | through `TaskWindow` | |
| `Surfaces` | `webviews/*/main.ts`: the commands each rendered surface offers, and whom `dispatch.ts` sends them to | through `TaskWindow` | |
| `JournalReading` | what the projections promise, abstractly: a reading of the events the store holds | as a property of `TaskWindow` | |
| `RebuiltStore` | what `store.ts` promises of the store, abstractly: replaying the events it holds rebuilds it | as a property of `TaskWindow` | `TaskWindowProofs` |
| `TaskWindow`, `MCTaskWindow` | one window: ingest, focus, editor panels, ownership badges, model views, runtime marker, resume prompt, connection state, with Core's answers | `TaskWindow.cfg` | `TaskWindowProofs` |
| `HostServices`, `MCHostServices` | `bridge/client.ts`, `rpc.rs`, the main loop and request methods of `main.rs`, `client.rs`, `config_writer.rs` | `HostServices.cfg` | `HostServicesProofs` |
| `SequenceLemmas` | nothing: what appending, cutting and concatenating do to a sequence | | used by the proofs |

They compose by promise: `SessionStream` does not contain a second copy of the
pump: the batch that its `Raise` takes and its `Send` puts on stdout is the
delivery that `OrderedDelivery` specifies and `EventPump` is shown to implement. `StreamCloses` is the pump's `Closed`,
`RestartDone` and `RestartGivesUp` stand for what `SpawnOrAdopt` details,
`HostDies` and `Respawn` for what `BridgeHost` details. `ApprovalFlow`'s
`IngestBatch` takes any run of the journal that leaves no hole behind the
store's `lastSeq`, which is what `StoreIsPrefix` of `SessionStream` says
arrives, its two exceptions (`FreshReopen`, `overtaken`) aside. `TaskWindow`'s
`Deliver` takes any run at all, for the sake of those two. `TaskWindow` takes from
`HostServices` that answers come in the order of the requests and that each
request is settled when the host goes; the badges depend on the first.

Definitions whose comment starts with "Mutant:" are not part of any
specification. Each is a plausible bug in the operator right after it; the
property named for it in `PROJECT.json` fails when the bug replaces the code.

### EventPump

`pc` is where `pump_loop` stands: `connect`/`resubscribe` (line 120),
`announce` (131-141), `collect` (awaiting the first event), `window`
(coalescing), `reconnect` (215-228). `buf` is `collect`'s `events`,
`delivered_last` the loop's cursor, `pos` the position of Core's stream, `chan`
the mpsc channel, `applied` the `last_seq` that `supervise` maintains. `repeated` is a history
variable: the seqs handed over more than once.

- A window may close at any moment: the 16 ms deadline is nondeterminism, only
  `MAX_BATCH` is a bound.
- Core's `since` is exclusive according to one comment and may be inclusive
  according to another (`event_pump.rs:120`, `:185`). `ReplayFrom` allows both.
- A message is its kind, its cursor, its set of seqs and `gap_before`; what an
  event says is not modelled.
- `Send` in `CloseWindow` happens with the cursor update. In the code the
  cursor moves first and `send` may wait; nobody can see the cursor meanwhile,
  and an abort at the wait loses the batch either way.
- The backoff between probes is left out; the number of probes is kept.

### SessionStream

A supervise task and its pump are one thread `t`: `cursor[t]` is what it has put
on stdout, `unsent[t]` the batch its pump has handed it and it has not put there
yet, `last_seq[t]` the `AtomicU64` of its `Live`. `op` is the main
loop: `opening` (in `spawn_or_adopt`), `started` (pump and task exist, old
`Live` not yet dropped), `stopping` (in `shutdown_daemon`, holding the lock on
`Host.live`). `reqs` and `out` are the two pipes.

- A batch is two steps, as it is two lines: `Raise` (`main.rs:679`, the
  `fetch_max`) and `Send` (`main.rs:680`, `forward_batch`). The runtime has two
  workers (`main.rs:95`), so the main loop may take a restart's cursor in between
  (`main.rs:590`, `TakeRestart`), and a new pump may start from it.
- `overtaken` is a history variable: a pump that was started at the end of a batch
  still unsent has had its own first batch sent before it. The store then has a
  hole and refuses the older batch. The new pump starts only after a daemon was
  stopped and another one has answered, the old task has one line to go; nothing in
  the code orders the two.
- Dropping a `Live` sets `aborted[t]`; the task ends at some later step
  (`AbortTakesEffect`) and may forward until then. There is no await between the
  two lines, so it never ends between them.
- `RefuseRestart` is also enabled with a live session, since whether the
  session's daemon is its own child is not tracked here.
- The reset that `reopen` does for a cursor of 0 is part of `OpenFresh` only:
  with `Reconnect` the cursor is 0 exactly when the store is empty already.
- Name reuse: `StartPump` takes any name whose task has ended. Three names are
  enough for a live task, one being swapped in and one not yet gone.
- `gapDetected` is kept, as the code does, and nothing reads it.
- Not modelled: `session/close` (the extension never sends it), the Session and
  client inside `Live`, connection-state notifications, and the heartbeat.

### SpawnOrAdopt

A host is one *caller* of `spawn_or_adopt`: a window's main loop, or one of its
supervise tasks in `restart`. Every file operation, handshake and poll is a step
of its own, in the code's order. A daemon's number stands for its pid and the
token generated for it. `Init` is every run directory an earlier, dead daemon
may have left, a partly cleaned one included.

- `CheckPid` may pass although the recorded daemon is dead: pids are recycled.
- With `Rebind` a daemon may replace a socket file in its way; without it, it
  exits. What Core does is external, so the passing run allows both.
- `CloseWindow` is a window or host that goes away at any step; daemons it
  spawned live on, as `kill_on_drop` is off outside tests.
- `MayStart` is the bound: enough daemons must be left for every open under way.
- Unix sockets; a Windows pipe has no file to unlink.

Much of what one would like to say of this component is false in general (see
section 4), so the passing run's properties are relative to `calm`, a history
variable that becomes false the moment one of these happens: two opens of the
workspace overlap; a child is left behind while it is starting or not yet
recorded (startup timeout, protocol mismatch of what answers, a window that
goes away); a live daemon that answers is passed over because it speaks another
protocol major; a host shuts down a daemon that has died and been replaced. The
properties say that these are the *only* ways: stale files, recycled pids,
daemons that die at any point, failed spawns, sequential opens by different
windows and restarts never produce a second daemon, an unreachable one or a
wrong mode. Each conjunct of `calm` is needed: without any one of them TLC finds
a violation.

### BridgeHost

One JavaScript thread: an action is one turn of its event loop (exit event,
close event, timer, command), or something a process does by itself. A client is
named by its process. `process[p] = "exited"` is a process whose exit event has
not been handled, `"gone"` one whose has. `lostTimers` counts pending timers the
field `respawnTimer` no longer holds.

- `Init` is a window with a folder open, just activated.
- `restarts = 0` in the properties: "Restart Bridge Host" breaks them (section
  4), so they are stated for windows in which nobody used it. The passing run
  nevertheless allows one restart, to cover `Restart` and what follows it in the
  type invariant.
- Not modelled: a spawn whose failure arrives as an `error` event.

### ApprovalFlow

`journal` and `pending` are Core: an ask is `approval_requested` followed by the
change of state, and a second ask may replace an open one, as
`packages/state/test/phase5.test.ts` has it. `store` holds the reducer's parts
an approval depends on (state, recency and newest ask of each task), `card` the
chat's approval card, `toasts` the notifications, `clicks` the messages of the
webview on their way to the extension, `reqs` the requests on their way to Core.

- A push to a webview takes effect at once. A card that is late and then
  clicked is the same as a click that is long on its way, which `clicks` allows.
- An ask whose payload the window cannot decode (`ok = FALSE`) changes the
  task's recency and nothing else, as in `applyDecodedNoAppend`.
- Allow, deny and the scope are one answer: which ask is hit does not depend on
  them.
- `mistaken` is a history variable: the answers that resolved another ask than
  the one they were given for. `known` in a request is the store's `lastSeq` when
  it was sent, kept for the same purpose.
- `Reset` is `reopen(root, 0)`; that the old session's batches may still come
  is `SessionStream`'s subject.

### Projection, ViewModels, Surfaces, JournalReading, RebuiltStore

`Projection` has the event decoders (which kinds there are and which of their
fields, if present, must have their type), the reducer as one fold per
projection (`advanceTask`, `foldFileChange`, `foldTestRun`, `foldModelInstall`,
`foldEngineInstall`, `foldModelServer`, put together by `applyDecoded`) and the
selectors. A payload is a record; what the code's `typeof` tests turn away is
`Null`, what a decoder refuses is `Bad`. `ViewModels` has one operator per
surface, down to what a surface decides (working, blocked, which ask, which
command's output, which model row in which order); labels and units are left out.
`Surfaces` goes one step further, to the DOM code of the five surfaces that are
rendered: which command with which argument each control posts under which
condition. That is what a user can do, and what `SurfacesAgree` and
`ManagerTellsTheTruth` speak of.

`JournalReading` is the abstract specification: the seqs of the events held, and a
variable that is a function of those events, defined without any fold (the last
event that says something wins). Runs of the journal are read in order, none twice;
a run may leave out what comes before it, and `missing` then says so; a session
opened afresh forgets everything. `TaskWindow` implements it with the seqs of the
store's rows as what is held and the selectors' results, `needsResubscribe` among
them, as what is shown. Its `Reading` shares with `Projection` only the decoder,
`TouchedPath` and two tables of kinds.

`RebuiltStore` is the other half, the promise of `store.ts:4` that the store "can
be rebuilt from scratch by replaying from seq = 0": replaying exactly the events the
store holds, whatever batches they came in, gives that store. With nothing missing
that is the journal's prefix up to `lastSeq`; after a reset with batches of the old
session on the way (run `session_reopen`) or an overtaken batch it is not, and no
property says so. What a replay computes is the operator constant `replay`; so
`RebuiltStore` knows nothing of the reducer, and `TaskWindow` implements it with
`Projection`'s `replay` and with the store's connection set aside (`Unconnected`),
which no event writes. `JournalReading` says what such a store shows. `applyBatch` is
a recursive function and the most recent task a choice of the first in recency
(`MostRecent`), so that both can be reasoned about.

### TaskWindow

The extension host is one JS thread, so an action is one turn of it: a batch, a
notification, an answer, a click. `win` is its state; a handler is a function on
`win`, and `StoreChanged`, `FocusChanged` and `SupervisorChanged` compose the
listeners in the order their emitters run them. `sent` holds the requests under
way with their answers: Core answers them in order (`Answer`, with `Effect` on
Core), the window takes them in order (`Take`), anything may happen in between.

- A view that is not in a scenario's `uses` does nothing; so is each
  disturbance (failing requests, a dying host, a reopened workspace).
- `Deliver` takes any run of the journal: one the window has, one it has in part,
  the next one and, in a scenario with `holes`, one that begins beyond the next
  event. A workspace opened again (`reopen`) implies holes (`ScenariosAssumption`),
  as the old session's batches then still come. Seven of the eleven scenarios have
  holes. Two properties say less of a store that knows of a hole
  (`needsResubscribe`): a call without an id may have lost its own end
  (`CommandShowsItsOwn`), and the model manager may have missed an install's end
  (`ManagerTellsTheTruth`).
- `missed`, `cold` and `failed` (panels), `overtaken` and `failed` (badges),
  `skipped` and `failed` (lists) are history variables. They record the ways the
  code allows a view to be behind, and nothing reads them but the properties:
  `missed` is a focus change during a fetch (dropped, `editorPanels.ts:153`),
  `cold` data asked for while not ready and never asked for again for that task,
  `overtaken` badges cleared while an answer was on its way, `skipped` a refresh
  dropped because the session was not ready, after its event was noted.
- `core.driver` says who runs a task: a cancel is a flag, a resume starts a
  driver that looks at the flag first. That is why Discard cancels before it
  resumes (`resume.ts`).
- Core refuses a cancel or a resume of a task it does not have (`Has`).
- `panels.fetching` and `panels.next` are the guard and the local data of
  `maybeRefreshData`: what is being put together is shown only when the last of
  its requests has been answered.
- The resume prompt may run on the first batch of a long replay, although
  `resume.ts:4-5` speaks of a hydrated store; `PromptResume` does as the code does.
- Not modelled: timestamps, `mergeTaskSummaries` (no caller), the order among
  models of equal rank (by display name), a `seq` that is no number.

### HostServices

A request is a promise of the window, its number the JSON-RPC id. `Forward` is
one arm of `dispatch`: the string parameters it insists on and the Core call it
makes; `Wanted` is the reply variant `CoreClient` accepts for that call. A byte
stream is a sequence of tokens: `WriteHeader` and `WriteBody` are the two writes
of a frame, `ClientReads` takes any part of what is in the pipe, `ParsesHeader`
and `ParsesBody` are turns of the loop in `onData`. `jobs` holds the handler at
work; `MayTake` is the sequential loop. `write_key` goes step by step, on a disk
whose names lead to files, together with a second host (`other`) that writes
the same file.

- `calls[c].left` says that the host no longer waits for a call; Core may still
  be at it. That is what a timeout does.
- `MCHostServices` lists the requests of the extension's call sites with the
  parameters they pass and the variant they read, and those `protocol.ts`
  declares besides. The other scenarios combine some of them: opens, restarts and
  closes; boots from the Models view and the picker; writes.
- `session/close` is modelled although the extension never sends it.
- Not modelled: a respawned host (`BridgeHost`), a second session's stream
  (`SessionStream`), the fields of a reply.

## 3. Checks that pass

| Run | Instance | What it shows |
|---|---|---|
| `event_pump` | 5 events; whole stream and a task's stream `{2,4}`; start cursors 0 and 2; batches of 2; channel of 2; 3 probes; 3 outages | `DeliveredExactly`: cursor and events agree in consumer and channel. `FullStreamHasNoGap`, `ClosedCursorExact`. `EventuallyDelivered` under fairness. `ImplementsOrderedDelivery`: refinement of `OrderedDelivery`. |
| `session_stream` | 2 events, 3 task names, 3 session requests, pipe of 2, 2 failures (lost streams, host crashes) | `StoreIsPrefix`: the store is the journal's prefix up to `lastSeq`, no gap. `ResumeCovered`: no pump restarts beyond what the store has, what is in the pipe and what a task will still send. `NoOrphanStream`. `StoreCatchesUp`: once the stream settles everything committed arrives. The first and the last unless a batch was `overtaken`. (`TypeOK` is not in the run's list; `SessionStreamProofs` proves it.) |
| `spawn_or_adopt` | 2 hosts, equal or different protocol majors, 2 modes, 3 daemons, hosts and modes symmetric | `OneDaemonWhileCalm`, `ModeShownWhileCalm`, `AdoptableWhileCalm`, `ChildAnswersWhileCalm`. |
| `bridge_host` | 3 respawns, 5 crashes, 1 restart by hand | `CrashLoopStops`, `NoneAfterDeactivate`, `AskedIsWired`: sessions only on wired clients. `Recovers`: after every crash a wired host with a session, or an exhausted budget. |
| `task_window` | eleven scenarios of one or two sources and at most nine events, batches of 2, 2 requests under way, 2 resume prompts | `ReadsTheJournal`: refinement of `JournalReading`. `StoreIsDisposable`: refinement of `RebuiltStore`. `CommandShowsItsOwn`: no command shows another's output. `SurfacesAgree`: chat, ticker, Home, history, approvals and timeline tell one story, no surface offers a new task beside an ask, all answer the same ask, and a command that names no task goes to the one shown. `PanelOfFocus`, `BadgesOfFocus`, `ListNotBehind`: what is cached is about the task or event it stands for. `ManagerTellsTheTruth`: when all is quiet the model manager and picker show Core's catalog, and each card offers what can be done with its model. `DiscardEndsTask`: discarding never sets a task running. |
| `host_services` | six scenarios: every call site once, two requests over every cut of the stream, two session requests, two boots from one or two views, two config writes against a second host | `ContractHonoured`: no request is refused for its shape, an answer is Core's, to that request, with the user's decision in it. `SecondBootAfterTimeout`: two server boots overlap in Core only after a timeout. `ConfigKeepsKeys`: no key of `config.toml` is lost unless two hosts write at once. `EverySettled`: every promise settles, unless the loop waits for ever for a daemon's hello or exit, and every notification is heard, under fairness. |
| `approval_flow` | 2 tasks, 5 events, 1 answer, 1 session opened anew, asks that cannot be decoded | `ProjectionOfPrefix`: however the journal is cut and repeated, the newest ask and state win. `NeverAnotherTask`: an answer goes to the task it was given for, although a click names none. `MistakenOnlyUnseen`: an answer hits another ask only if the window could not have known that ask. `AskReachesCard`: what Core waits for is shown, under fairness of the stream. |

Why the bounds are enough. *EventPump*: with five events, batches of two and a
start at 2, a window is cut by `MAX_BATCH`, by the deadline and by the end of
the stream, a replay overlaps a delivered batch, and three outages allow a drop
during a replay that itself follows a drop; a channel of two is full while a
third message waits. The safety half holds for all sizes (section 5).
*SessionStream* (999,534 distinct states): two events are what it takes for one to
be delivered and one missing, or for one to be in hand and the next one to overtake
it, and three requests for an open, a replacement and a replacement of that while
the first task is not yet gone. *SpawnOrAdopt*: three daemons are one left
by an earlier life, one for each host. *BridgeHost*: five crashes exceed the
budget of three, so both the exhausted budget and the budget given back by a
healthy open occur. *ApprovalFlow*: five events are a task started, an ask, its
waiting state, and two more that take away the focus or replace the ask. One
answer is enough: a second one can only find the first one's ask resolved, and
`OtherClient` resolves asks at any moment anyway. *TaskWindow* (280,784 distinct
states): the views do not read each other's state, so each has scenarios of its
own, with the disturbances that reach it. Two tasks are the one focused and the
one the focus leaves; batches of two over at most nine events give every
cut, every overlap with what came before and every hole; two requests under way are one
overtaking another's purpose. The scripts are chosen so that each projection is
written twice by events that differ. *HostServices* (81,305 distinct states):
two requests are one being served and one behind it, or two in a stream cut at
any token; the config file starts with a nested and a plain key, and both hosts
write a sibling of the nested one.

`CHECK_DEADLOCK FALSE` everywhere: journals, requests and failures are bounded,
so every model stops, and a closed pump or a closed window really does.

### Fairness

- `EventPump`: weak fairness of the pump task and of the consumer. tokio polls
  a ready task and the consumer is a loop over `recv`. Nothing is assumed of
  Core: it may stay down, in which case the pump must say `Closed`.
- `SessionStream`: weak fairness of the extension reading the pipe, of the main
  loop where it takes a request or swaps the session (`HostTurn`), and of `Raise`
  and `Send`: a ready task is polled, and no daemon is awaited there. Nothing else
  is fair. `OpenFails`, `StartPump`, `StopDone`, `RestartDone` and `RestartGivesUp`
  come after an await of a daemon that may never answer (see section 4); users,
  Core, lost streams, crashes and respawns are free. `StoreCatchesUp` is conditional
  on a session that settles: opens and restarts may fail or hang for ever, and then
  the app shows a session that is not there.
- `BridgeHost`: weak fairness of the event loop, that is, exit and close events
  are dispatched and timers go off. A session request need never be answered.
- `HostServices`: weak fairness of the host's main loop where it runs on its own
  (`HostTurn`: it takes the next request, gives a Core call up at the 30 s or 600 s
  ceiling of `CoreClient::call`, writes its file), of the stdout writer and of the
  window's event loop. Not of the end of an open or a stop: `negotiate` awaits
  `SocketClient::call` with no ceiling and `shutdown_daemon` the child's exit. Core
  owes no answer, users owe no request, a second host owes no write.
- `SpawnOrAdopt` and `TaskWindow`: safety only. That a batch comes is
  `SessionStream`'s `StoreCatchesUp`, that an answer comes `EverySettled`.
- `ApprovalFlow`: weak fairness of the batches that bring the store something
  new, which is what `StoreCatchesUp` shows for a settled session.

## 4. Where the code does not do what it says

Each is a run of its own that checks one property and fails.

- `session_reopen` (`StoreCatchesUp`). Opening the workspace again resets the
  store (`extension.ts:66-70`) before the host has dropped the old session. A
  batch of the old session that arrives after the reset is the first thing the
  empty store sees; it sets `lastSeq` beyond the events before it, and the
  replay of the new session is then ignored as already applied.
  `store.ts:63` promises a replay from 0.
- `two_daemons` (`OneDaemon`). `spawn_or_adopt` unlinks whatever is at the
  socket path after a failed adoption (`supervisor.rs:212`). If another caller's
  daemon has bound it since, there are now two. `docs/PLAN.md:734` names a
  lockfile; there is none. The run uses a Core that refuses a taken path, the
  kinder assumption.
- `stale_mode` (`AdoptedModeShown`). `meta.json` is written only after the
  startup poll succeeded and survives a shutdown, so a child that came up after
  the deadline is adopted under the mode of its predecessor.
- `bridge_host_restart` (`OneHost`). "Restart Bridge Host" starts a new process
  before the old one's exit event; that event then forgets the new process and,
  as `start` has cleared `intentionalStop`, respawns a third.
- `approval_mistaken` (`NeverMistaken`). An answer names only its task. The bridge
  host can pass the ask's `request_id` (`client.rs:270-273`) and Core has refused
  stale ones since protocol 1.8.0, but `main.rs:326` passes `None`. The guard
  compares with the store, so an ask still on its way to the store is answered by
  the answer to the one before it.

### Noted, without a run of their own

- `last_seq` is raised before its batch is sent (`main.rs:679`, `:680`), and
  `main.rs:45` calls it the "Highest `last_seq` delivered so far". A restart that reads it in
  between resumes past a batch that is not on stdout yet. The batch is not lost, as
  its task cannot be stopped between the lines (`ResumeCovered`); should the new
  pump's first batch get there before it, the store has a hole and refuses it:
  the exception `overtaken`.
- The 30 s ceiling is `CoreClient::call`'s (`client.rs:75-85`). `negotiate`
  (`session.rs:57-61`) has none, `try_adopt` (`supervisor.rs:355`) and
  `poll_negotiate` (`:391`) await it, and the startup deadline is looked at only when
  an attempt has ended (`:395`); `child.wait()` (`:122`) has none either. A daemon
  that accepts and never answers holds the one loop for ever, and with it every
  request behind: the exception `AwaitsDaemon` in `EverySettled`. Event batches and
  other notifications still come through.
- `views/models.ts:40-46` says the per-model guard keeps a re-click from booting a
  second server. The guard is released when the request's 30 s ceiling passes
  (`client.rs:36`), boots may take longer, and each of the two views has a guard
  of its own. `SecondBootAfterTimeout` states what is left of the promise: what
  keeps boots apart is the host's loop, until a timeout.
- Two hosts in `write_key` at once lose an update or one of them fails at the
  rename (`config_writer.rs:78-88`): `ConfigKeepsKeys` has the exception `met`. Today
  only the settings view sends `config/write`, and no registered view is it.
- `set_dotted` replaces a whole table when the key names one.
- A panel or badge asked for while the session is not ready stays empty until
  the focus changes or the panel is opened again (`editorPanels.ts`,
  `ownership.ts:75`).
- The model picker asks again when a server event comes, not when an install
  completes or a model is removed; it shows the old list until then.
- `protocol.ts` declares `mode` for `search/query`, the host reads `modes`.
- In the chat, allowing an ask of high risk takes a second click; the workspace
  and the review panel allow it with one. The workspace offers "Allow for task"
  whether or not Core has `approval_scope`, and for asks of high risk too.
- Cancel and Pause in the workspace name no task. While a task that was just
  created is pinned and not yet in the store, the panel shows the most recent
  task and the command goes to the pinned one: the exception in the last but one
  conjunct of `SurfacesAgree`.
- The first-run view shows a cancelled probe as one still running, and the
  verification view keeps a report for ever; `extension.ts` registers neither.
- The chat's composer looks only at the focused task, Home's at all of them:
  `SurfacesAgree` has the difference in its last conjunct about `canSubmit`.

## 5. What is proved

TLC's runs are small instances. The theorems below hold for every value of the
constants, under the named assumptions of the component's module, which TLC
evaluates on every run; nothing else is assumed. Each proof has the same shape:
an inductive invariant `IInv`, a lemma per action or group of actions that it is
kept, and the properties as consequences of it. Every invariant was first checked by
TLC on the states of the component's run, but for `TaskWindow`'s `ReadInv`, which
`StoreIsDisposable` checks there.

| Module | Theorem | States |
|---|---|---|
| `EventPumpProofs` | `TypeCorrect`, `DeliveredExactlyAlways`, `NoGapAlways`, `ClosedCursorExactAlways` | `TypeOK`, `DeliveredExactly`, `FullStreamHasNoGap`, `ClosedCursorExact` always |
| | `PumpImplementsOrderedDelivery` | the refinement of `OrderedDelivery` |
| `SessionStreamProofs` | `TypeCorrect`, `NoOrphans` | `TypeOK`, `NoOrphanStream` always |
| | `NoHole`, `ResumeLosesNothing` | `StoreIsPrefix` (its exception `overtaken` included), `ResumeCovered` always, if `~FreshReopen` |
| `BridgeHostProofs` | `TypeCorrect`, `SessionsAreWired`, `CrashLoopEnds`, `NoHostAfterDeactivate` | `TypeOK`, `AskedIsWired`, `CrashLoopStops`, `NoneAfterDeactivate` always |
| | `OneHostUntilRestart` | one host process, until somebody restarts it by hand |
| `HostServicesProofs` | `TypeCorrect`, `ContractKept`, `NoSecondBoot`, `KeysAreKept` | `TypeOK`, `ContractHonoured`, `SecondBootAfterTimeout`, `ConfigKeepsKeys` always |
| `ApprovalFlowProofs` | `TypeCorrect`, `ProjectionIsOfPrefix`, `AnswersGoWhereAsked`, `MistakesAreUnseen` | `TypeOK`, `ProjectionOfPrefix`, `NeverAnotherTask`, `MistakenOnlyUnseen` always |
| `SpawnOrAdoptProofs` | `TypeCorrect`, `OneDaemonIfCalm`, `ModeShownIfCalm`, `AdoptableIfCalm`, `ChildAnswersIfCalm` | `TypeOK` and the four `...WhileCalm` always |
| `TaskWindowProofs` | `DiscardEnds`, `BadgesAreOfFocus` | `DiscardEndsTask`, `BadgesOfFocus` always |
| | `WindowTyped`, `ListsKeepUp`, `PanelsShowFocus` | `TypeOK`, `ListNotBehind`, `PanelOfFocus` always |
| | `PanelDataIsOfFocus` | `DataOfFocus`, the first conjunct of `PanelOfFocus`, always |
| | `OneTaskIsShown` | `OneTaskShown`, the conjuncts of `SurfacesAgree` about the task shown, its ask and the commands, always |
| | `StoreRebuilt` | `StoreIsDisposable`, the refinement of `RebuiltStore`, for any runs of the journal, holes included |

### Assumptions

`PumpConstants`, `SessionConstants`, `SupervisorConstants`, `HostConstants`,
`ApprovalConstants` and `BoundsAssumption` say of the bounds that they are numbers
and of `None` and `Unknown` that they are no task and no mode. `IsFiniteSet(Hosts)`
is there because daemons are counted against a bound. In `HostServices`,
`EveryCallIsWanted` says that the two method tables fit together (each call that
`dispatch` makes is one `CoreClient` has), `NamesApart` that no method is served
twice and no reply is called like a failure, `NoneIsNoMessage` and `ScenarioLives`
that scenarios are well formed. `CallSitesFit` is the static half of
`ContractHonoured`: the host serves the method of each request a scenario asks, the
request has the parameters its arm insists on, and the caller reads what the arm
answers (`Yields`). TLC evaluates it over the table of every call site; an entry of
a table that does not fit the other side makes it false. The tables are built with
`@@`, which the prover does not know, so it takes them as they come.
`ScenariosAssumption` says of `TaskWindow`'s scripts that they are sequences and that
Core tells of its own tasks, installs what is in its catalog and has something to
tell of each task the window creates; and that a scenario in which the workspace is
opened again has holes, so no theorem about such a window rests on batches without.
`~FreshReopen` in two theorems about the stream is the
finding `session_reopen` turned round: opening the workspace afresh and an
overtaken batch are the two things that make a hole.

### The invariants, and why they are needed

*EventPump.* `DeliveredExactly` says nothing about the events the pump is holding.
`IInv` adds `StreamInv` (between batches everything the stream yielded is behind
`delivered_last`; inside a window the buffer's new events are all of those up to
the stream's position), `CursorInv` (`delivered_last` is the consumer's cursor
after everything in the channel) and `MessageInv` (every message's cursor fits its
predecessor's, only the last can be `closed`). `ChannelKept` and `ChannelSent` carry
the two actions that touch the channel; `RecvDelivers` is the refinement step:
receiving a batch is one `Deliver`, everything else a `Commit` or a stutter.

*SessionStream.* `StoreIsPrefix` is about what has been read; what is still in the
pipe decides what will be. `Chain` says that each batch in the pipe starts at most
one past the store or an *earlier* batch, so reading in order leaves no hole, though
two sessions' batches are mixed in it (`Whole`, which an overtaken batch ends).
`CursorsSafe` says that each number a pump may be started from is in the store,
reached by a batch in the pipe (`Covers`), or the end of a batch in some task's hands
(`Held`): the cursor of every task that still runs, the resume cursor of the session
that is live, swapped in or taken out, and the number the main loop carries across
an await. It holds in the middle of a batch too: `Raise` moves the cursor and takes
the batch in hand in one step, `Send` puts that batch in the pipe, and in between the
task streams and is not stopped (`HandShape`). A `Send` keeps `Chain` when its task's
cursor is covered; when it is only held, by another task's batch still in hand, that
`Send` is the overtaking. The pipe is only emptied by reading or by a crash, after
which everything starts from the store again.

*BridgeHost.* That there are never more processes than names is a matter of
counting: `Births` has each start paid for by a pending timer or an exit that was
heard of, and each exit by a crash or a SIGTERM. `OneAtATime` holds until the first
restart by hand: all but the latest process are gone and their clients closed, a
timer is pending only once the latest is gone, and the starts since the last
healthy moment fit into the respawns. It is false after a restart, which is the
finding `bridge_host_restart`.

*HostServices.* `TypeOK` has in it that the request of a handler waits, that the
handler's call is its own, and that what the window reads is whole frames.
`Framed` says that the bytes in the window's buffer, in the pipe and in the writer's
hand together are a sequence of frames, wherever they are cut; `Answers` and
`DueWaits` that a request is answered at most once, so a response in the queue,
in the pipe or half parsed is for a promise that still waits. `Contract` follows an
answer through the system: the stage of a handler is one of its request's arm
(`JobsFit`), a call is the one that arm makes, for that request and with its user's
decision (`CallsFit`), and a response is right when it is given and stays right in
the channel, the writer's hand, the pipe and the buffer (`OnItsWay`), as requests
and answered calls stay what they are; so the promise it settles gets what belongs
to it, whatever was given up or answered late before. `Latest` (a call that is open
for both sides is the last one made) gives `NoSecondBoot`; `Alone` (while no two writers met, the file is
what is owed to the user, and the writer's document is that plus its own key) gives
`KeysAreKept`, with `WriteKeeps` per step of `write_key`.

*ApprovalFlow.* `Folded` says of the projection, from any batches, what the journal's
prefix says: for each task its state, its last event and its newest readable ask.
`applyBatch` is a recursive function; `FoldedBatch` proves its result by the least
event at which it could go wrong, from `FoldedStep` for one event. `SeenWhenSent`
keeps, for a request on its way, that it named the newest ask its window knew,
and `PendingIsLastAsk` that Core waits on the last ask of the task; together they
leave only an ask the window could not know for a mistaken answer.

*SpawnOrAdopt.* While it is calm, where the one host that opens is in
`spawn_or_adopt` says which daemons may be alive (`Place`): while it looks for one
to adopt, whoever is alive is settled (serving, bound to the socket, its pid, token
and mode on record); once it has given adoption up nobody is alive; while it waits
for its child only that one is, and it has the token on disk. With nobody opening,
everything alive is settled. Each step that could break this makes `calm` false,
which is what the theorems say: there are no other ways to two daemons, an
unreachable one or a wrong mode. `Budget` (starts under way fit into the bound) is
needed for the types only.

*TaskWindow.* A turn of the window is a composition of handlers and listeners, so
the lemmas are about one of them and *any* window. `Loose` is what holds between a
change and its listeners, `Tight` after them: the store may have become anything,
and `StoreHeard` still restores `Tight`. The parts are: a discard's request is about
the task of its dialog, and as soon as its cancel was granted the task's driver is
flagged or ended (`Discards`, with `Grows`: nothing Core does to a driver takes a flag
back); an answer for the badges has the owners of the task it was asked for, and the
*last* one under way is for the task the badges stand for (`Badged`); the panels have
at most one request under way, about the data being put together (`Fetched`), and
what is shown or coming is the focused task's (`InFocus`). That answers are taken in
the order of the requests is used in `RestKept`, and without it `Badged` fails.

`SoundInv` is about the store and the lists. `Heard`: no number the store keeps is
beyond its cursor, the cursor is not beyond the journal, and every task in the store
is one of Core's; this is what makes the most recent task a task, and so the views
of `PanelOfFocus` those of the focus. `OneTaskIsShown` rests on it too, and otherwise
on what each surface offers under which name (`WorkspaceNamed`, `ReviewNamed`,
`ChatNamed`, `AskEverywhere`), for any store and focus. `ListTyped` and `ListFresh`: the
*last* list a reader asked for, whether on its way, kept until the doctor has
answered or shown, is not older than the last event the reader took note of, unless a
request failed or a refresh was skipped. That answers come in order is needed here
too: with an earlier answer taken last, the list would be set back.

`ReadInv` is the refinement's invariant: the store, its connection aside, is the
replay of the events whose rows it holds (`Replayed`), and its cursor is at the last
of them. A batch is any run of the journal: read before, in part or not, or beyond
the next event. `BatchRead` proves of the recursive function `applyBatch` that the
batch leaves the replay of what was held and then of the part of the batch that is
new (`Fresh`), by the least event at which it could go wrong: an event at or below
the cursor changes nothing, any later one takes the replay one event further
(`EventRead`, with `AppliedShape` and `RowHeld`: exactly one row more), the gap it
may leave included. Nothing is asked of where a batch begins. `ConnectionAside` says
that folding an event commutes with forgetting the connection, and the lemmas from
`Held` on that no listener and no answer writes to the store.

### Only model-checked

- Liveness: `EventuallyDelivered`, `StoreCatchesUp`, `Recovers`, `AskReachesCard`,
  `EverySettled`. The prover has no rule for fairness and `ENABLED`.
- `ReadsTheJournal` (`JournalReading` against `Projection`): that the store is the
  replay of the events it holds is proved (`StoreRebuilt`); what the replay of a journal of any
  length shows, a fold over every event against a reading without one, is induction
  over data for each of the six projections.
- That the method tables themselves fit (`CallSitesFit`, `EveryCallIsWanted`,
  `NamesApart`): finite data, evaluated by TLC.
- Of `SurfacesAgree` what `OneTaskIsShown` leaves: that each task stands once on
  Home and in the history, that a transcript is of its task, that with a submit
  button in the chat and none at Home another task works, and that no timeline line
  shows the model's text. The first rest on `SetToSortSeq` and `SelectSeq`, whose
  results are induction over data; and Home lists eight ended tasks at most, so that
  each task stands there is true of windows with fewer.
- `CommandShowsItsOwn` holds of journals in which a call without an id ends before
  the next starts, which the scripts do and no assumption says.
- `ManagerTellsTheTruth`: sorted rows (`SortSeq`), and the last record of each
  install in a journal of any length.

## 6. Not modelled, and the plan

Left out for good: the views that `extension.ts` does not register (settings,
hardware, verification, security, context, first run, about: they pass data
through), markup, generated types, file access, git, watcher, binary lookup,
build tooling. These have no behaviour over time that another part depends on.

Left out so far: the Session and CoreClient that a restart writes into
`Host.live` (identities of sessions), an incompatible daemon in the extension's
connection state, the host's heartbeat.

Modelled, in order of importance: the stream (`EventPump`, `SessionStream`), the
daemons (`SpawnOrAdopt`), the processes (`BridgeHost`), the answers
(`ApprovalFlow`), the window (`Projection`, `ViewModels`, `Surfaces`,
`TaskWindow`), the requests (`HostServices`).

Worth proving next:

1. `EventPump` and `SessionStream` together: the pump of each session replaced by
   `OrderedDelivery`, which `PumpImplementsOrderedDelivery` allows.
2. `SessionStream` and `TaskWindow` together: `RebuiltStore` with the batches that
   `NoHole` allows, in place of `TaskWindow`'s own source of batches, which would
   give that the events held are the journal's prefix.
3. Of `SurfacesAgree`, what the lists show, from a lemma that `SetToSortSeq` gives
   each element of a finite set once.
