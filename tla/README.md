# Verification of awg-manager

awg-manager is a daemon for Keenetic routers. It creates and supervises
AmneziaWG tunnels, talks to the router's own control plane (NDMS) over its RCI
HTTP interface, reacts to NDMS hooks, runs sing-box, watches its tunnels, and serves a web interface.
This directory holds TLA+ models of the parts of it in which concurrency,
failure and ordering decide correctness, the TLC configurations that check them,
and TLAPS proofs of what matters most. Paths below are relative to the
repository; `decide.go:266` and the like are in `internal/orchestrator` unless
said otherwise.

Contents: [inventory](#inventory), [modules](#modules-and-the-code),
[runs](#runs), [fairness](#fairness), [proofs](#proofs),
[disagreements](#where-code-and-comments-disagree),
[not modelled](#what-is-not-modelled), [plan](#plan).

## Inventory

### How the parts interact

    users, UI ──HTTP──> api ─────events──> tunnel orchestrator ──> operators ──┐
    NDMS hooks ──HTTP─> api/hook ──┬─────^        │  │                          │
                                   │              │  └─> tunnel store (JSON)    │
                                   └─> event dispatcher ─> query caches          │
                                                   ▲            │ reads         │ commands
                                                   │            v               v
                                   save coordinator ── RCI client (batcher, semaphore) ──> NDMS

    users, UI ──HTTP──> api ──> sing-box config orchestrator ──> config.d ──reads── sing-box
                          └──> operator, watchdog ───────start, stop, SIGHUP──────────┘
    tunnel orchestrator, api ──start, stop──> ping monitors ──toggle the link──> tunnels

An HTTP handler, a hook or the boot sequence hands an event to the orchestrator.
It decides over its cached view of the tunnels, then executes actions that drive
an operator; the operator sends RCI commands, each of which changes the router's
running configuration, invalidates query caches and asks the save coordinator
for a flash write. NDMS in turn calls hooks for the edges those commands cause,
which come back as events and must be told from what a user did in the router's
own interface.

### Components

| component | state it keeps | operations | what is hard | what makes it correct |
|---|---|---|---|---|
| **save coordinator** `internal/ndms/command/save.go` | timer, state, pending and retry counts, `flushInProgress`, two mutexes | `Request`, `fire`, `Flush` | timers dispatched while being stopped, Flush overlapping fire, failing POSTs | one POST at a time, no requested change lost, the indicator settles |
| **tunnel orchestrator** `internal/orchestrator` | cached tunnels, expected-hook tokens, one semaphore per tunnel, boot time | `HandleEvent` for 11 event types, `LoadState`, `RefreshTunnelState`, `ExpectHook` | plans decided under one lock and executed under another, hooks late, lost or reordered, cancelled and failing actions, crashes | exclusive execution per tunnel; at rest cache, store, routes and router agree; suspensions end with their WAN; only a user takes autostart away |
| **operators** `internal/tunnel/ops`, `internal/tunnel/nwg` | none of their own beyond proxies and endpoint tracking | start, stop, suspend, resume, delete, reconcile, state detection | partial failure, best-effort stops | what the orchestrator believes is what NDMS holds |
| **WAN model** `internal/tunnel/wan` | which WANs are up, two names each | `SetUp`, `PreferredUp`, ... | events repeated and decided out of order | tunnels follow their WANs |
| **tunnel store** `internal/storage` | one JSON file per tunnel | `Get`, `Save`, `Delete` | whole-record saves racing each other | intent (`Enabled`) survives |
| **RCI read path** `internal/ndms/transport` | submit channel, the batch, reply channels, slots | `Submit`, `Close`, `flush` | cancelled callers, Close at any moment, positional answers | own and fresh answers, nobody waits forever, no double reply |
| **query caches** `internal/ndms/cache`, `internal/ndms/query` | TTL entries, single flights, the event-sourced interface map | `List`, `Get`, `Invalidate*`, `On*` | invalidation during a fetch, events against snapshots | no read that begins after an invalidation returns older data; the map ends as NDMS has it |
| **event dispatcher** `internal/ndms/events` | FIFO queue, one-slot wake-up channel | `Enqueue`, `drain`, `apply` | lost wake-ups, lost and repeated hooks | every event is applied, in order |
| **sing-box config orchestrator** `internal/singbox/orchestrator` | slot files (active, disabled, draft), debounce timer, applied hash | `Save*`, drafts, `SetEnabled*`, `Reload`, `Bootstrap` | files written while a reload is under way, two copies of a slot, failing starts, adoption after a restart | what runs is what is saved; a tun is never sent SIGHUP; the last save is kept |
| **sing-box operator, process, watchdog** `internal/singbox` | pid file, generation, manual-stop intent, restart attempts | `Control`, `Start`, `Stop`, `Reload`, ticks, orphan sweep | watchdog, users and reloads racing, exits reported late, restarts of the daemon | a Stop sticks, one engine, only crashes are blamed, a dead engine comes back |
| **ping check** `internal/pingcheck` | monitors, failure counts | start, stop, probe, link toggle | a stop during a toggle, callers that share no lock | no orphaned goroutine, a stopped tunnel stays down, an enabled one is watched, a stop returns |
| **backup** `internal/server`, `internal/backup`, `internal/api/backup.go` | restore marker | quiesce, export, resume, restore | aborts half-way | tunnels are back after it |
| **boot** `cmd/awg-manager/boot.go` | boot status | cold and warm start | WAN not there yet | enabled tunnels start |
| **process lock** `internal/sys/lock` | a directory | `TryLock`, `Unlock` | stale clean-up by two processes | one holder |

The rest (sing-box router and subscriptions, DNS routes, managed servers,
HydraRoute, FreeTurn, WDTT, updater, authentication, logging, diagnostics, the
web interface) is listed component by component in `PROJECT.json` with the reason
it is left out. `PROJECT.json` also lists the hazards, at the lines where they
bite.

## Modules and the code

| module | models |
|---|---|
| `SaveCoordinator` | `internal/ndms/command/save.go` |
| `TunnelDecide` | `decide.go`, the types of `state.go`, `actions.go` |
| `TunnelOrchestrator` (extends `TunnelDecide`) | `orchestrator.go`, `execute.go`, `state.go`, and as much of the API handlers, the operators, the store, boot and backup as takes part in an event |
| `ReadBatcher` | `internal/ndms/transport/batcher.go`, with the client, semaphore and NDMS as outcomes of an exchange |
| `FreshReads` | what a read cache promises its callers: the abstract specification |
| `KeyedStore` | `internal/ndms/cache`: TTL, single flight, keyed and list store; `Promise` is its refinement mapping to `FreshReads` |
| `NdmsView` (extends `KeyedStore`) | the event dispatcher, the interface store of `internal/ndms/query/interfaces.go`, interface commands and their refreshes, NDMS and its hooks |
| `SingboxEngine` | `internal/singbox/process.go`, `operator_process.go`, `watchdog.go`, `restart_backoff.go`, and what `operator_tunnels.go` does to the process |
| `ConfigSlots` | `internal/singbox/orchestrator` |
| `PingMonitor` | `internal/pingcheck` and whoever starts and stops its monitors |
| `MCTunnel`, `MCRead`, `MCNdmsView`, `MCSlots` | values of constants for TLC |
| `SaveCoordinatorProofs`, `TunnelOrchestratorProofs`, `ReadBatcherProofs`, `NdmsViewProofs`, `SingboxEngineProofs`, `ConfigSlotsProofs`, `PingMonitorProofs` | theorems about the module of the name |

**SaveCoordinator.** Actors are the goroutines of dispatched timers and the
callers of `Flush`; `pc` says where each is. A section under `mu` is one action
(`Request`, `FireBegin`, `FireOk`, ...), `saveMu` is a variable with a holder, and
the POST is two actions, NDMS's write and the return. `Stop()` on a timer that was
already dispatched does nothing, as in Go. Durations are abstracted: an armed
timer may expire at any moment. The running configuration is a revision number;
`owed` counts mutations whose `Request()` has still to run. NDMS publishes what it
saved at a later moment (`Publish`, `save.go:80-86`): `view` is what a read would get,
`posted` what an actor's own POST has saved, `cacheFloor` the view at the last drop of the
RunningConfig cache, which a reader may fill again at any moment after it. `fire` drops
the cache after its settle delay, by when the view of its POST is published; `Flush` drops
it at once.

**TunnelDecide.** The decide functions, by their names, as operators from the
cached view of a tunnel to a sequence of action names. Actions the model cannot
tell apart share a name (the three kinds of routes, for instance).

**TunnelOrchestrator.** A handler is a goroutine in `HandleEvent`, with its event,
the plan left per tunnel, and the tunnel it executes. Its phases follow the code:
`Await` (`awaitTunnelIdle`), `SettleEnd` (`settleConfDisabled`), `Decide` (under
`o.mu`), `Pick` and `lockTunnel` (the 15 s semaphore), one action of the plan after
another, `unlockTunnel`, `Return`. Actions that drive the router are two steps,
`Begin` and `End`, between which everything else may happen; their stored record
is read at the beginning and saved as a whole at the end, as in the code. The
router keeps per tunnel its conf layer and whether a link or proxy is attached,
and emits conf hooks; hooks may be lost, late or delivered twice (`HookFault`), and a
token expires by time alone, whether its hook has come or not (`ExpireHook`).
Semaphores have a generation because a delete drops the map entry. `Crash` loses all of
the memory and, on a reboot, the links; `Startup` is the cold or the warm path of
`boot.go`. Two history variables record what the heuristics of the code cannot handle:
`astray`, the tunnels and levels of which an own hook has lost its token, and `missed`,
the tunnels to which a WAN's return was not told in time.

**ReadBatcher.** A request is one call of `Submit`; its reply channel is open,
closed with a result, or closed and empty. The loop's phases are the selects of
`flusherLoop` and `collectAndFlush` and the two halves of `flush` (before and after
the exchange). Answers carry the moment at which NDMS read them. The batch's array
comes back in command order, complete or with one element lost.

**FreshReads, KeyedStore.** The promise: a read that begins after an invalidation
never returns data older than it, unless a read of the same key overlapped the
invalidation, and every read ends. The store has one action per critical section
of `TTL.mu` and `SingleFlight.mu`: look up, lead or join a call, fetch, set, release
the waiters, forget the call. Data are versions of what NDMS holds. A call that has
released its waiters and is not yet forgotten can still be joined, as in
`singleflight.go:37-44`; an expired entry is still served when a fetch fails.
`floor` (what an invalidation guarantees) and `clash` (it met a Get) are history
variables. The refinement maps a reader's phase to the promise's open or ended
read.

**NdmsView.** NDMS's interfaces are records of versioned fields. A change queues a
hook; hooks are delivered in order, or lost, or repeated; `Enqueue` appends and
then fills the one-slot wake-up channel; the worker drains, patches the interface
map (`OnCreated`, `OnDestroyed`, `OnLayerChanged`, `OnIPChanged`) and drops TTL keys.
Layers are `conf`, which the map keeps, and `ipv4`, which it does not; an address is
set (`address`) or removed (`cleared`), and the hook of a removed one patches nothing.
Commands and bootstraps refresh the same map in two steps, NDMS's answer and the
store, since `InterfaceStore.mu` is not held across the request. `tainted` records
what the code documents as left to the next refresh.

**SingboxEngine.** A generation is one spawned process with its exit monitor and
its deliberate flag. `startMu` serialises Start, Stop and Reload; everything else
runs without it. Control is its flag, its persistence and its act; automatic
restart is the check, the budget, the second look at the intent and the start; the
monitor of a dead generation removes the pid file in two steps. `TunnelChange` is what
adding, updating or removing a sing-box tunnel does to the process: it starts an engine
that is down, whatever the intent, reloads one that runs, or stops it when the last
tunnel went. The daemon may be
restarted at any moment; the engine survives it and is adopted or swept.

**ConfigSlots.** A public method of the orchestrator is one action, because it holds
`mu`; `Reload` is validation, the decision to skip, start, stop, restart or SIGHUP,
the act and the breadcrumb. sing-box reads the whole directory whenever it starts
or is sent SIGHUP. Documents keep what validation and pruning look at: tags,
selector members, other references, a tun. `skew`, `silent` and `shadowed` are
history variables for the cases told under disagreements.

**PingMonitor.** A monitor is a goroutine with its stop channel; a select waits on
what the field `stopCh` held when the select began, which a stop sets to nil after
closing the channel. Callers are handlers of the orchestrator, which execute their
plan under the tunnel's semaphore, and API requests, which take no lock. Each has
its list of operations in the code's order. `crossed` says that two calls about a
tunnel overlapped, `untold` that an API handler started a monitor of which the
orchestrator does not know.

The modules compose where the code does: `NdmsView` runs `KeyedStore` under its
dispatcher and commands; `TunnelOrchestrator` takes its decisions from
`TunnelDecide`. Elsewhere one module stands for another at their boundary: the
monitoring actions of `TunnelOrchestrator` are the calls of `PingMonitor`, the starts
and stops of `ConfigSlots` those of `SingboxEngine`, the fetch of `KeyedStore` what
`ReadBatcher` promises.

## Runs

Limits and bounds named in the tables are constants of the modules; every cfg
sets them. `Deadlock` checking is off wherever the bounded events may simply run
out; that nobody is stuck before is what the liveness properties say.

| run | instance | shows |
|---|---|---|
| `save_flush` | 2 timers, 1 Flush, 2 revisions, 2 failures, 1 retry | `OneSaveInFlight`, `IndicatorBacked`, `YieldIsBacked`, `IndicatorSettles` |
| `save_reliable` | 3 timers, no Flush, 3 revisions, 2 failures within the 2 retries | `NoLostSave`, `EverythingSaved`, `IdleCacheInvalidated` |
| `orch_race` | 1 nativewg tunnel, 2 handlers, warm start plus 3 of start, stop, restart | `ExclusiveExecution`, the three "at rest ... agree" properties, `HandlersFinish` |
| `orch_faults` | 1 kernel tunnel, 2 handlers, warm start plus 2 of stop, delete, toggle, one outside toggle, one failing action or lost, late or doubled hook, one timeout or cancellation | types (no token or plan out of range), `HolderHasLock`, `OwnEdgesIgnored`, `DeletedIsGone` |
| `orch_recover` | 1 nativewg tunnel with a ping check, 2 WANs, 2 handlers, warm start plus 3 of start, stop, edit, backup, crash, reboot, WAN up or down | `SuspendedOnlyWhileWANDown`, `IntentKept` |
| `read_batcher` | 3 reads (sharing a path or not, one without a command, one cancellable), batch 2, channel 1, 1 change of NDMS | `RepliedOnce`, `OwnFreshAnswer`, `EmptyOnlyIfCancelled`, `EarlyAreDrained`, `SubmitsReturn`, `CloseReturns` |
| `ndms_view` | 1 interface, 2 goroutines of commands and reads, 3 changes of NDMS of which 2 may be from outside, 2 lost or repeated hooks or failing fetches | `ViewCatchesUp` |
| `ndms_reads` | 1 key, 2 readers, 3 changes, 1 failing fetch | `HooksReachStores`, `HooksDrain`, and `ReadsAreFresh`: the store implements `FreshReads`, its liveness included |
| `sb_engine` | the watchdog, 1 user, 1 reloader who also changes tunnels, 3 generations at once, a budget of 1, 2 calls, faults or restarts | `StopSticks`, `OneEngine`, `BlameOnlyCrashes`, `BudgetHonest`, `EngineRecovers` |
| `sb_slots` | a catalogue, a routing and a user slot, 2 writes, 2 toggles, 2 crashes, stops or restarts | `RunsWhatIsSaved`, `SighupKeepsTun`, `LastSaveWins` |
| `ping_monitor` | 1 tunnel of either backend, 3 monitors, 1 handler, 1 request, 4 calls of 8 kinds, threshold 2 | `NoGhost`, `StoppedStaysDown`, `WatchedWhileEnabled`, `DisabledStopReturns` |
| `ping_stop` (violation) | 1 tunnel, 1 handler, a start and a stop | `StopReturns` fails: a stop during a link toggle is lost |

Why the bounds are enough: the save coordinator has one `timer` field, so two
timers show every overlap of a replaced timer with its successor and three one
more than that; two failures exceed a retry budget of one. The semaphores and
caches of the orchestrator are per tunnel, so races need one tunnel and two
handlers; failover needs two WANs. A sweep over several tunnels works on one of them
at a time and holds only its semaphore; no run has such a sweep with two tunnels. A
batch of two with three requests and a channel of one reaches a full batch, a full channel, coalescing, a drain with work left and
requests that arrive after the drain. Stores and the interface map are per key and
per interface; two readers are a leader and one who joins or comes late, two
command goroutines a refresh that overtakes another. An engine's starts are
serialised, so what matters is one dying and one starting generation next to an
attempt that was under way; the third is an orphan of an earlier daemon. Three
slots are one that declares, one that refers and one that is never pruned.
Monitors and registers are per tunnel, and three goroutines are one that runs, one
that is waited for and one that is being started.

Other instances were checked once, with the same result: `sb_slots` with 3 writes (2.0
million states), `ping_monitor`'s invariants with a tunnel of each backend and 3 calls
(1.0 million), `orch_recover` with restarts as well (2.3 million), and without starts and
ping check but with 4 events, for a nativewg tunnel (3.4 million) and for a kernel
tunnel (4.0 million).

The scope of each run is part of what it shows. `orch_race` has no failures and
no outside edges: with them cache, store and router may rightly differ until the
next event. It has no deletes, which break `ExclusiveExecution` (below).
`orch_recover` has no failures, outside edges or toggles of autostart alone.
`save_reliable` has no Flush, which loses changes and leaves old views cached (below).
Properties name what they leave out in their own statement (`astray`, `missed`,
`tainted`, `crossed`, `raced`, `skew`, `shadowed`, `untold`), and the reason is given
under disagreements. `HandlersFinish` takes it that `StopMonitoring` returns, which
`ping_stop` shows it may not.

Every property has a mutant in `PROJECT.json`: a change to a modelled operation
as a plausible bug would make it, under which the run finds the property violated.
Mutants stand next to their originals and are used by nothing else.

## Fairness

Only what the Go runtime and the code's timeouts guarantee is assumed, and never
that a user, a hook, a failure, a crash or a WAN event happens.

- Save coordinator: weak fairness of timers, goroutine steps and POST returns (the
  client times out after 30 s); strong fairness of taking `saveMu`, since
  `sync.Mutex` hands over to a starving waiter after 1 ms.
- Orchestrator: weak fairness of a handler's own steps (router calls return or
  fail), strong fairness of taking a tunnel's semaphore, a buffered channel whose
  waiters Go serves in order, and weak fairness of the startup sequence.
- Batcher: weak fairness of the loop (the window's timer fires; the exchange is
  bounded by the client's timeout and the semaphore's 60 s backstop) and of each
  caller's select.
- Interface view and stores: weak fairness of hook delivery, of the dispatcher's
  goroutine, and of the steps of commands and readers (every request is answered or
  times out).
- Engine: strong fairness of each actor's steps, which may wait for `startMu`
  (`sync.Mutex` again); weak fairness of watchdog ticks, of exits once a process is
  signalled, of exit monitors, and of the end of pauses and crash windows.
- Ping check: weak fairness of each monitor's and caller's steps (checks, link
  commands and pauses end, tickers fire), strong fairness of a loop's stop branch,
  since a Go select picks among ready branches at random.
- Config slots: none, only safety is checked.

## Proofs

TLAPS proves these for every value of the constants that the modules' named
assumptions and the theorem's own `ASSUME` admit. An inductive invariant was first
checked with TLC on a small instance.

*SaveCoordinatorProofs*: `TypeCorrect`, `SavesSerialised` (`OneSaveInFlight`),
`YieldsAreBacked`, `IndicatorNeverStuck` (`IndicatorBacked`), `CacheDroppedWhenIdle`
(`IdleCacheInvalidated`), `NothingLostInBudget` (`NoLostSave`). Serialisation is
inductive with the types. The indicator is not: that it shows "saving" says nothing
of who will change it. The strengthened invariant relates the indicator to the
actor that set it (an armed `s.timer`, a fire past its check, a Flush before its
publication) and needs the yield property for the step in which fire gives up.
`NothingLostInBudget` and `CacheDroppedWhenIdle` assume no Flush, since with one both
are false (the first disagreements below), finitely many timers and no more failures
than retries. `RetryInv` counts: the retries made and the fires whose POST has failed
are no more than the failures, so each of those finds a retry left and arms a timer.
`CacheInv` adds that a cache which may hold an older view than the last save's is going
to be dropped: a save is still to come (`Coming`), or the actor whose POST made the last
save has still to settle (`Settling`), which it does only when that view is published.

*TunnelOrchestratorProofs*: `TypesHold` (`TypeOK`) holds without any restriction: no
token or hook count falls below zero and no handler is in a phase without what the
phase needs. `ExecutionIsExclusive` (`ExclusiveExecution`) holds
for any number of tunnels, WANs and handlers, with failures, lock timeouts,
cancellations, outside edges, crashes and reboots, under the assumption that nobody
deletes a tunnel (`"delete" \notin Kinds`), without which it is false. The inductive
invariant is `LockInv == Shape /\ Occupied /\ HoldsLock /\ ExclusiveExecution`, where
`HoldsLock` is `HolderHasLock` without its exception: the two rest on each other (a
handler may take only a semaphore that is not full, so no executing handler has it),
`Shape` says that no plan contains a delete and every semaphore is of generation 0,
and `Occupied` that a handler which waits or executes names a tunnel. That no decision
but `decideDelete` plans a delete is a lemma over every decide function.

With deletes `SemaphoreStaysWithHolder` (`HolderHasLock`) holds without any
assumption, and so does `ExclusiveUntilDeleted`: no two handlers execute a tunnel whose
map entry no delete has dropped. `EntryInv == SameEntry /\ EntryHeld /\ AloneInEntry`
restricts the argument to those tunnels; it is inductive because only the end of a
delete raises a tunnel's generation, after which the tunnel is no longer spoken of.
`DeleteLeavesNothing` (`DeletedIsGone`) assumes that nobody edits tunnels: an edit in
flight over a delete saves the tunnel again. `GoneInv` says that a plan which deletes is
the rest of a delete plan, down to its last action only in the hands of the handler
that executes it (`PlanOrder`); and, as long as no action failed and nobody touched an
interface from outside (`Unspoiled`), that a stored tunnel still has its first
semaphore, that one which is not stored has left no conf layer, cache entry or routes
(`Traceless`), and that a handler in the middle of a long action acts on a stored
tunnel (`Claims`), so that none brings a deleted one back (`DeleteInv`).

`OwnHooksRecognised` (`OwnEdgesIgnored`) needs no assumption. `OwnInv`: each own hook on
its way has its token, or its tunnel and level are `astray` (`TokensCover`). Every command
registers the token before it may cause an edge, and tokens go with the hook that
consumes them; what separates the two (a token that expires, a hook delivered twice, an
outside edge that takes the token, a restart of the daemon, a nativewg delete) is a
step that says so in `astray`.

`IntentIsKept` (`IntentKept`, an action property) needs none either. `IntentInv`: what a
handler has left to do disables no tunnel but that of its own stop or conf edge, and
nothing when it does not execute (`Minds`). That no other decision plans a
`PersistStopped` is a lemma over every decide function; the long actions save `Enabled` as
they read it, which is the exception the property names.

`IntentFollowsRouter` and `RoutesFollowRouter` (`IntentMatchesRouter`,
`RoutesMatchRouter`) are proved under `NativeAlone`: nativewg tunnels, started, stopped
and restarted by users while WANs come and go, after a cold or a warm boot, without
failures, timeouts, cancellations, outside edges, deletes, edits or restarts of the
daemon; with those the state at rest may rightly differ until the next event. The
number of tunnels, handlers, WANs and events is arbitrary, and plans are decided
from a stale cache. `NativeInv == TypeInv /\ LockInv /\ PlanInv`: a plan that is left
is one of a fixed set (`OnCourse`, `Due`), the tunnel that is executed is in the state
that the rest of its plan expects (`UnderWay`), and a tunnel nobody works on is
settled (`Settled`). The steps of the plans are the lemma; exclusion carries it from
one handler to all. `CacheFollowsRouter` (`CacheMatchesRouter`) needs `WarmAlone`, a warm
boot and no WAN events besides, because `LoadState` takes a conf layer that is up
without its proxy, as a cold boot or a suspension leaves it, for a stopped tunnel.
`CacheInv`: until
`LoadState` has read it, the router can be read off; afterwards the cache lags only
while a handler is between the two halves of a start or stop.

*ReadBatcherProofs*: `BatcherTypes`, `NoDoubleReply`, `AnswersAreOwnAndFresh`,
`NothingOnlyForCancelled`, `DrainMissesNone`, for any number of requests and paths
(finitely many requests) and any size of batch and channel. One invariant,
`BatchInv`, carries them; beyond the properties it says where a request is (not sent
yet, in the channel, in the batch, replied to), what the loop holds in each phase,
and that once the final drain is over no request enqueued before Close is left in
the channel. `MatchIsOwn` shows that the length check makes positional matching
safe against a lost element; it assumes that NDMS keeps the order of the
commands, which nothing in the daemon could detect.

*NdmsViewProofs*: `StoresKeepPromise`, the safety half of the refinement: the initial
state maps to one of `FreshReads`, and every step of `NdmsView`, hooks, commands,
expiries and failing fetches included, to a step of it or a stutter, for any keys,
interfaces and readers. `StoreInv` says that no entry, leader or waiter holds a
version below the floor of its key or of its Get (`EntriesCurrent`, `ReaderOK`) and that
a call in flight is led by a reader of its key (`CallsLed`); `PromiseInv` adds that
every version was given out by NDMS. `EveryHookReachesStores`
(`HooksReachStores`), from `HookInv`: a hook on its way tells of no more than NDMS
has done (`HooksCurrent`), and an invalidation that a delivered hook owes has been
made, met a fetch, or is still to come from the queue, the batch or the event being
applied (`DueComing`).

`MapCatchesUp` states `ViewCatchesUp`, which speaks of quiet moments only and leaves a
removed address out. `MapInv` speaks of all: the map's entry, and every answer of NDMS
that a bootstrap or refresh has still to store, becomes what NDMS holds once the events on
their way are applied (`MapSettles`, `AnswerSettles`), because the last event of each
kind tells of the present (`EventsTell`) and events are in the order of the changes,
repeated ones included (`EventOrder`).

*SingboxEngineProofs*: `OnlyCrashesBlamed` (`BlameOnlyCrashes`), `BudgetStaysHonest`
(`BudgetHonest`), `NeverTwoEngines` (`OneEngine`), `UserStopSticks` (`StopSticks`), for
any users, reloaders, budget and number of generations, with crashes, failed starts
and restarts of the daemon. One invariant, `EngineInv`, carries them: what each actor
has and may do in each phase (`ActorOK`, `HolderOK`), that the verdict of an exit
monitor is its own generation's (`MonitorOK`), what the budget counts (`BudgetOK`), that
a live engine is named by the pid file or about to be (`NamedAlive`, `SpareIsNamed`), and,
for the Stop, that a Stop nothing crossed is alone (`StopAlone`), that a stopped intent
leaves no start under way but the watchdog's (`NoStart`), that the disk follows
(`DiskFollows`), and that whoever started an engine against the intent will stop it
(`StopPending`).

*ConfigSlotsProofs*: `LastSaveKept` (`LastSaveWins`), `SighupSparesTun` (`SighupKeepsTun`),
`SavedIsRun` (`RunsWhatIsSaved`), for any slots and documents. `SlotsInv` says what the
orchestrator knows of sing-box between and within reloads: the breadcrumb names what
runs (`CrumbNames`, `CrumbTun`), a tun that runs is remembered or will be read from the
breadcrumb (`TunSeen`, `TunKnown`), without a reload to come the last validation saw the
present files (`Validated`), and what it saw is what runs (`Settled`).

*PingMonitorProofs*: `NoMonitorOrphaned` (`NoGhost`) and `StoppedLinkStaysDown`
(`StoppedStaysDown`), for any number of tunnels of either backend, monitors, handlers
and requests. `GhostInv` says that a registered monitor is its tunnel's
(`RegisteredOwn`), that calls about one tunnel which are under way together have
crossed (`Crossing`), and that `startNwgMonitor` finds the entry it cleared still clear
unless they have (`CallOK`). `DownInv`, inductive where `GhostInv` holds, adds that the
orchestrator knows of a registered monitor or is about to be told (`Known`), that a link
which is up, or which a goroutine may bring up, is a running tunnel's
(`UpWhileRunning`), and what is left of a handler's plan at each of its operations
(`HandlerOK`): when it comes to the stop of the tunnel, no monitor is registered.
`RunningTunnelWatched` (`WatchedWhileEnabled`) needs no assumptions either. `WatchInv`,
again inductive where `GhostInv` holds, says what each plan has still to do
(`OnCourse`), that a registered monitor, one about to be registered and one that
somebody stops are different monitors of which only the last may be closed (`Apart`),
and that a nativewg monitor ends only if it is stopped (`NativeRuns`).

The named assumptions on the constants are in the modules and evaluated by TLC in
every run: finite or disjoint sets (`IsFiniteSet(Tunnels)`, users and reloaders
disjoint), markers such as `NoFile` and `Absent` that are no data, first documents of
the slots that form a valid config.

Only model-checked:

- every liveness property, the liveness half of `ReadsAreFresh` included: the prover
  has no fairness or ENABLED;
- `SuspendedOnlyWhileWANDown`, an invariant of two racing handlers that `missed` alone
  does not make inductive; it is checked for nativewg and for kernel tunnels, with up
  to four events.

Neither checked nor proved: the at-rest agreement of cache, store, routes and router
for kernel tunnels, and that of the cache for cold boots and WAN events.

## Where code and comments disagree

One is kept as a violation run; TLC's trace is the demonstration.

- `ping_stop`, `internal/pingcheck/service.go:178`. StopMonitoring closes `m.stopCh`
  and sets the field to nil. A monitor inside a link toggle leaves `waitHandshake` by
  the closed channel, but its backoff (`monitor.go:202`) and its loop (`monitor.go:47`)
  select on the field, now nil, and never hear of the stop. `m.wg.Wait()` returns only
  when the ping check is stored as off (`DisabledStopReturns`); in a plain stop of the
  tunnel it never does, and the handler keeps the tunnel's semaphore.
  `monitor.go:229-230` and `monitor_test.go:20-21` promise that it does not hang.

The others were met in the models and are described here; the runs keep the
circumstances that lead to them out, in their instance or by a history variable.

Save coordinator and tunnels:

- A change requested after a Flush has sent its POST gets a timer; when that timer
  fires with the POST still out, `fire` yields to the Flush, whose POST is older than
  the change (`internal/ndms/command/save.go:169`). The indicator goes idle with a
  requested change not on flash and no timer left.
- `save.go:80-86` says that NDMS publishes the running configuration some time after a
  save and that an invalidation has to wait for it. `Flush` invalidates at once
  (`save.go:270-275`): a read after it caches the old view again, and nothing drops it
  before its TTL.
- `decideWANUp` reads the cached `Enabled`, which no stop clears (`decide.go:266`).
  `orchestrator.go:311-315` calls a stop terminal; the next WAN event undoes it.
- A cold boot without a default gateway never calls `LoadState`
  (`cmd/awg-manager/boot.go:209`); line 212 logs that it waits for a WAN up event,
  but the event then decides over no tunnel.
- The comment at `orchestrator.go:512` says an unlock after the entry was recreated
  is a no-op; with a delete and two starts it releases the new holder's semaphore,
  and two handlers execute on the tunnel.
- WAN events are handled by goroutines of their own (`internal/api/hook.go:274`); a
  down decided, or a suspend executed, after the up that followed it leaves a tunnel
  suspended with its WAN up, against `decide.go:298-303` and `:340-342` (`missed`).
- `PersistRunning` runs after a start that failed (`orchestrator.go:544`), although
  `execute.go:571-572` describes it as recording a success. A disabled tunnel that is
  started or restarted without an uplink is then stored as enabled, the cached
  `Enabled` stays cleared, and `decideWANUp` (`decide.go:266`) does not start it when
  the WAN comes: that enabled tunnels are up once their WANs are is false, and no run
  states it.
- A conf edge of the daemon's own making is taken for a user's when it comes after the
  token's TTL (`orchestrator.go:268-277`), after a restart of the daemon, which loses the
  tokens, or twice (`internal/ndms/events/hook-script.sh:43-52`); and an outside edge takes
  a token that was meant for one of the daemon's (`astray`).
- A nativewg tunnel that is started without an uplink keeps an empty `ActiveWAN`, and no
  WAN's fall suspends it.
- `executeRestoreKmod` saves the WAN that NDMS chose (`execute.go:429-440`), but
  `updateState` (`orchestrator.go:613`) has no case for it, although
  `orchestrator.go:627-629` says that the persisted WAN is mirrored into the cache. An
  edit in between brings the new one in, and a WAN event that was decided on the old
  one leaves the nativewg tunnel suspended with its WAN up (`missed`).
- An autostart flag that is toggled while the tunnel is suspended, with an edit after
  each toggle, lets the WAN come back unanswered (`decide.go:266`); at the end the
  tunnel is enabled and suspended with its WAN up (`missed`).
- An edit that is in flight while the tunnel is deleted saves it again
  (`internal/api/tunnels_crud.go:460`).
- A cancelled restart stops the tunnel and does not start it (`orchestrator.go:531`).
- An update of a tunnel may be overwritten by an action that read the record before
  (`execute.go:317`), although `internal/api/tunnels_crud.go:446-448` takes the
  handler for the sole writer.
- A nativewg tunnel bound to a WAN keeps the NDMS name, WAN events carry the kernel
  name (`decide.go:361`), so the tunnel matches no event; a suspended nativewg
  tunnel is not moved to the next WAN (`decide.go:304` against 292-293).
- The quiescence window is read twice (`orchestrator.go:325`): an edge waved through
  at its very end is decided on after it.
- An aborted backup download resumes under the cancelled context
  (`internal/api/backup.go:97`), and a quiesce that fails half-way is not resumed at
  all (`:70`).
- The save indicator may show idle while a request is queued (`save.go:196`), and
  `retryCount` is shared between batches (`save.go:218`).
- A nativewg delete announces no expected hook, so its own conf edge is taken for an
  outside one (`orchestrator.go:518`).
- A cancelled caller may get `(nil, nil)` from `Submit`: flush closes its reply
  channel, and the select may prefer it to `ctx.Done()`. `batcher.go:191` says that
  the caller has had `ctx.Err()` already. A `maxBatch` of 1 makes batches of 2.

NDMS view:

- `OnIPChanged` ignores an empty address (`query/interfaces.go:774-776`), so that a hook
  which tells of a removed address leaves the old one in the map until the next refresh.
  `ViewCatchesUp` says so: a field agrees, or it is the address and NDMS has none.
- `liststore.go:86` says that an invalidation forces the next `List` to fetch, and
  `query/interfaces.go:791-792` that a command's refresh lets the next read see the
  new state. A fetch under way when the invalidation comes sets the older value
  afterwards (`clash`), and a refresh stored after a hook that overtook it puts the
  older record back (`tainted`); both last until the TTL or the next refresh.
- An event that creates an interface invalidates the server list and not the peers
  of that interface (`dispatcher.go:181-185`), so that an entry of a former interface
  of the same name lives on for its TTL.

sing-box engine (`internal/singbox`):

- The comment in Control's stop (`operator_process.go:741-746`) says that two mirrored
  checks leave no interleaving in which the engine goes on against the user's will.
  That is right for the automatic restart; a reload or another Control that looked at
  the engine before the Stop starts it afterwards (`crossed`).
- The intent is called sticky until Control's start or restart (`operator.go:166-170`),
  and the engine never left running against the user's will
  (`operator_process.go:744-746`). Adding or updating a sing-box tunnel, or removing one
  of several, starts it again without looking at the intent
  (`operator_tunnels.go:595-597`), which stays stopped. `crossed` covers it, also when
  nothing raced.
- `setManualStop` sets the flag before it writes it, so between the two, and when the
  daemon dies there, memory and disk disagree, against `operator_process.go:696`.
- `cleanupPidIfOurs` (`process.go:642`) may remove the pid file of a successor, as its
  comment concedes; the successor then runs unseen and a second one may be started
  (`raced`).
- A Stop while a start waits for the Clash API is recorded as a failed start.
- Two Control calls that cross may leave the disk saying stopped and the memory not,
  although `operator_process.go:696` calls a state where they disagree impossible; a
  Stop whose write then fails restores the memory's value, and the restarted daemon
  believes the disk. The proof of `UserStopSticks` met this; TLC shows it with two
  users and five events. `crossed` covers it.

Config slots (`internal/singbox/orchestrator`):

- The breadcrumb of what was applied is called "fail-safe, never fail-dangerous"
  (`applied.go:45`). It is the hash of the files at validation; a file written before
  sing-box reads them and then changed back, or a start by the watchdog or Control in
  between, makes sing-box run other files than the record says, and the skip gate
  then skips the reload that would correct it (`skew`). With it the memory of whether
  the last config had a tun is wrong as well.
- A reload that a manual stop suppresses clears the breadcrumb. When the user starts
  sing-box in between and the daemon is restarted, the new one does not know of a tun
  that runs, and its next reload sends SIGHUP to it (`reload.go:138`). The proof of
  `SighupSparesTun` met this; TLC shows it with three faults. `skew` covers it.
- The hash covers enabled slots only, while sing-box reads every file of `config.d`: a
  draft applied to a disabled slot is read and not hashed.
- A Save to a disabled slot that has such a file goes to `disabled/` and is dropped by
  the next toggle (`shadowed`).

Ping check:

- A monitor that an API handler starts is not in the orchestrator's `Monitoring` flag
  (`state.go:18`: "monitor goroutine is active"), so the next stop's plan leaves it
  running, and it toggles the link of a stopped tunnel (`untold`).
- A stop that is decided while a start of the tunnel still executes has no
  StopMonitoring in its plan; a StopMonitoring that finds no entry returns although
  another caller still waits for the goroutine (`crossed`).
- `startNwgMonitor` says that its callers are serialised per tunnel
  (`facade.go:270-271`); the API handlers take no lock, and two of them at once leave a
  goroutine that nothing can stop.
- The settings handler stops the monitors before it stores that they are off
  (`internal/api/settings.go:425-427`) and does not refresh the orchestrator's cache;
  `StartMonitoringAllRunning` takes an interface that exists for a tunnel that runs.
- CheckAllNow runs a tick of the monitor's own in the caller's goroutine, next to the
  loop: two toggles of one link may overlap.

## What is not modelled

Contents (keys, peers, addresses, JSON, configuration text), durations (any timer
may fire at any moment), logging, SSE publication, and the other components, for
the reasons in `PROJECT.json`. Of the components that are modelled:

- Orchestrator: EventPingCheckFailed, whose only action toggles a link and changes no
  state of it. IPv6 and firmware with native ASC are in the constants (`MayV6`,
  `SupportsASC`) and off in the runs.
- NDMS view: the stores of servers, routes and the running configuration are further
  instances of `KeyedStore`; the interface store's uncached reads, `Dispatcher.Stop`
  and the routing listeners keep no state of it.
- Engine: adoption of an engine that is already stopping (`AttachIfRunning`), recycled
  pids, installation and updates, a config without Clash API, the quiesce for a
  backup; the file and the proxies of a changed tunnel.
- Config slots: `sing-box check`, the attribution of its errors to a slot, file system
  errors, the contents of rules. The operator's own writes of `10-tunnels.json`, which
  rename, write, restore and remove it without the orchestrator's mutex and without a
  scheduled reload (`operator_tunnels.go:400`, `561-600`): what the reloads make of a file
  that changes between validation and breadcrumb is modelled by Saves of a slot. The two
  looks at the process in one reload (`reload.go:108`, `129`) are one moment, a start
  inside `Process.Reload` does not fail on a valid directory (`process.go:567-580`), and
  `ReloadNow` happens only when a timer is armed or a write was silent; at another moment
  it repeats a reload of the same files.
- Ping check: `Service.Stop` at shutdown, statuses, the log entries made from NDMS's
  counters (`processDelta`), the NDMS profile, monitors of tunnels that are deleted
  or quiesced; an update of a check that is already on, which restarts the monitor with
  other parameters (`internal/api/pingcheck.go:337-403`). The update handler's look at the
  tunnel's state (`tunnels_crud.go:476-481`) is taken to agree with the orchestrator's
  running flag.

Subscriptions, the sing-box router with its iptables, DNS routes and the device proxy
are the largest parts left. They are mostly translations of one data format into
another, with their state in the config slots and in NDMS; their concurrency is that
of the components above.

## Plan

A module comes with its MC module, cfg, mutants and map.

1. Done: `SaveCoordinator`, `TunnelDecide`, `TunnelOrchestrator`, `ReadBatcher`, with
   the proofs above; `FreshReads`, `KeyedStore`, `NdmsView`, `SingboxEngine`,
   `ConfigSlots`, `PingMonitor`.
2. Done: the proofs of `NdmsView`, `SingboxEngine`, `ConfigSlots` and `PingMonitor`, of
   the rest of `SaveCoordinator`, and of the orchestrator's types, tokens, deletes,
   at-rest properties and stored intent. Every invariant that a passing run checks is
   stated by a theorem, except `SuspendedOnlyWhileWANDown`. Left: that one, and the
   at-rest properties for kernel tunnels, which need a run first.
3. An abstract specification of the orchestrator (a tunnel as wanted and actual
   state, changed by one operation at a time) that `TunnelOrchestrator` without
   deletes and failures implements, with its exclusive-execution part proved from
   `LockInv`.
4. The process lock and the boot sequence as a composition with the orchestrator's
   startup; then the reconciliation of the sing-box router.
