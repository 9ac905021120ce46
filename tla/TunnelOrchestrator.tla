------------------------- MODULE TunnelOrchestrator -------------------------
(***************************************************************************)
(* The tunnel lifecycle of internal/orchestrator: events from the API, the *)
(* boot sequence, NDMS hooks and WAN changes are handled concurrently by   *)
(* HandleEvent, which decides under o.mu from a cached view of the tunnels *)
(* and then executes the plan action by action under the tunnel's          *)
(* execution lock.  Four copies of the truth are kept apart: the stored    *)
(* tunnel (JSON file), the cached view, the interface held by NDMS, and    *)
(* the WAN model.                                                          *)
(*                                                                         *)
(* Each section under o.mu, each short action, and the two halves of each  *)
(* long action (what it does to the router; what it saves and caches when  *)
(* the router has answered) are one step.  Deadlines are abstracted: a     *)
(* timeout or a cancelled request may happen at any moment, and the        *)
(* quiescence window may close at any moment.                              *)
(***************************************************************************)
EXTENDS TunnelDecide

CONSTANTS Handlers,    \* goroutines that run HandleEvent
          NoTunnel,
          Kinds,       \* which events this instance lets happen
          BootKind,    \* how the daemon starts: "cold" (router boot) or "warm"
          MaxEvents,   \* bound: events from users, WANs and restarts
          MaxExt,      \* bound: interface toggles made outside the daemon
          MaxFails,    \* bound: actions that fail; hooks lost, late or sent twice
          MaxGiveUps   \* bound: cancelled requests and lock timeouts

ASSUME OrchestratorAssumption ==
    /\ NoTunnel \notin Tunnels
    /\ Kinds \subseteq {"start", "stop", "restart", "delete", "edit", "toggle",
                        "wan", "quiesce", "crash", "reboot"}
    /\ BootKind \in {"cold", "warm"}
    /\ {MaxEvents, MaxExt, MaxFails, MaxGiveUps} \subseteq Nat

VARIABLES
    store,     \* the stored tunnel: file exists, Enabled, ActiveWAN
    cache,     \* o.state.tunnels
    live,      \* NDMS: conf layer running, link or proxy attached
    routes,    \* client routes of the tunnel are installed
    wanUp,     \* wan.Model: interfaces that are up
    loaded,    \* LoadState has run (it installs anyWANUpFn)
    boot,      \* startup still to run: "cold", "warm", or "done"
    expected,  \* o.expectedHooks: live tokens per tunnel and level
    hooks,     \* NDMS conf hooks on their way to the daemon
    full,      \* execution semaphores that are taken: <<tunnel, generation>>
    cleaned,   \* generation of the tunnel's entry in o.tunnelMu
    pc, ev,    \* where each handler is, and its event
    plan,      \* actions still to execute, per tunnel
    plan2,     \* second phase of a WANDown plan
    job,       \* the group being executed: tunnel, semaphore, stored snapshot
    bounced,   \* a conf=running edge arrived while this handler settles
    firstErr,  \* first error of this handler: none, busy (lock), error
    used,      \* bounds used so far
    astray,    \* history: tunnels and levels of which a hook has lost its token
    missed     \* history: tunnels to which a returned WAN was not told in time

history    == <<astray, missed>>
routerVars == <<live, hooks>>
lockVars   == <<full, cleaned>>
vars == <<store, cache, live, routes, wanUp, loaded, boot, expected, hooks, full,
          cleaned, pc, ev, plan, plan2, job, bounced, firstErr, used,
          astray, missed>>

Level == {"running", "disabled"}

\* own: caused by a command of the daemon.
Hook == [tun : Tunnels, level : Level, own : BOOLEAN]

OwnHook(t, l) == [tun |-> t, level |-> l, own |-> TRUE]

Stored == [exists : BOOLEAN, enabled : BOOLEAN, activeWAN : WANs \cup {NoWAN}]

Event == [kind : {"none", "start", "stop", "restart", "delete", "edit", "hook", "wanup",
                  "wandown", "boot", "reconnect", "resume", "quiesce"},
          tun  : Tunnels \cup {NoTunnel},
          wan  : WANs \cup {NoWAN},
          level : Level,
          own  : BOOLEAN]

\* await: awaitTunnelIdle; settle: settleConfDisabled; sweep: the tunnel-less
\* RestoreEndpointTracking; pick, wait, run, busy: executeGroup; flip: SetEnabled
\* after a failed stop; edit: TunnelsHandler.Update; backup: quiesced.
Phase == {"idle", "await", "settle", "decide", "sweep", "pick", "wait", "run", "busy",
          "flip", "edit", "backup"}

Executing == {"run", "busy"}

NoStored  == [exists |-> FALSE, enabled |-> FALSE, activeWAN |-> NoWAN]
NoEvent   == [kind |-> "none", tun |-> NoTunnel, wan |-> NoWAN, level |-> "running",
              own |-> FALSE]
NoJob     == [tun |-> NoTunnel, gen |-> 0, snap |-> NoStored]
EmptyPlan == [t \in Tunnels |-> <<>>]
Unknown   == [known |-> FALSE, enabled |-> FALSE, running |-> FALSE,
              monitoring |-> FALSE, activeWAN |-> NoWAN, quiescent |-> FALSE]

anyWANUp == loaded /\ wanUp # {}

\* The first action of the group that h executes.
Act(h) == Head(plan[h][job[h].tun])

Popped(h) == [plan EXCEPT ![h][job[h].tun] = Tail(@)]

Noted(h, err) == [firstErr EXCEPT ![h] = IF @ = "none" THEN err ELSE @]

-----------------------------------------------------------------------------
(* The cache *)

\* tunnelStateFromStored
FromStored(s) == [Unknown EXCEPT !.known = TRUE, !.enabled = s.enabled,
                                 !.activeWAN = s.activeWAN]

\* Running as LoadState detects it; NDMS cannot be read for tunnels in bad.
Detected(t, bad) == live[t].conf /\ live[t].up /\ t \notin bad

LoadedCache(bad) ==
    [t \in Tunnels |->
        IF ~store[t].exists THEN cache[t]
        ELSE [FromStored(store[t]) EXCEPT
                 !.running = Detected(t, bad),
                 !.monitoring = Detected(t, bad) /\ t \in PingChecked]]

\* LoadState: every entry is rebuilt, runtime fields included.
LoadState ==
    \E bad \in SUBSET Tunnels :
        /\ used.fails + Cardinality(bad) <= MaxFails
        /\ used' = [used EXCEPT !.fails = @ + Cardinality(bad), !.events = @ + 1]
        /\ cache' = LoadedCache(bad)
        /\ loaded' = TRUE
        /\ bounced' = [h \in Handlers |-> FALSE]

\* RefreshTunnelState: stored fields are reloaded, runtime fields kept.
Refreshed(c, s) ==
    IF ~s.exists THEN c
    ELSE [FromStored(s) EXCEPT !.running = c.running, !.monitoring = c.monitoring,
                               !.quiescent = c.quiescent]

ensureTunnel(t, c) ==
    IF t # NoTunnel /\ ~c[t].known /\ store[t].exists
    THEN [c EXCEPT ![t] = FromStored(store[t])]
    ELSE c

\* Mutant of updateState: a stop leaves Running set.
StopForgotten(c, act, s) ==
    CASE ~c.known -> c
      [] c.known /\ act \in StartActions ->
            [c EXCEPT !.running = TRUE, !.quiescent = TRUE, !.activeWAN = s.activeWAN]
      [] c.known /\ act \in StopActions -> [c EXCEPT !.monitoring = FALSE]
      [] c.known /\ act = "Delete" -> Unknown
      [] OTHER -> c

\* Mutant of updateState: a deleted tunnel stays in the map.
DeleteForgotten(c, act, s) ==
    CASE ~c.known -> c
      [] c.known /\ act \in StartActions ->
            [c EXCEPT !.running = TRUE, !.quiescent = TRUE, !.activeWAN = s.activeWAN]
      [] c.known /\ act \in StopActions ->
            [c EXCEPT !.running = FALSE, !.monitoring = FALSE, !.activeWAN = NoWAN]
      [] OTHER -> c

\* updateState after the action act; s is the stored tunnel it left behind.
updateState(c, act, s) ==
    CASE ~c.known -> c
      [] c.known /\ act \in StartActions ->
            [c EXCEPT !.running = TRUE, !.quiescent = TRUE, !.activeWAN = s.activeWAN]
      [] c.known /\ act \in StopActions ->
            [c EXCEPT !.running = FALSE, !.monitoring = FALSE, !.activeWAN = NoWAN]
      [] c.known /\ act \in {"StartMonitoring", "StopMonitoring"} ->
            [c EXCEPT !.monitoring = (act = "StartMonitoring")]
      [] c.known /\ act = "Delete" -> Unknown
      [] OTHER -> c

-----------------------------------------------------------------------------

\* The links and proxies that are up without the daemon after a router boot.
NdmsAlone(t) == t \notin KernelTunnels /\ SupportsASC

\* ResolveActiveWAN reads the WAN that NDMS chose for the peer.
PeerVia(t, prev) ==
    IF ISPInterface[t] # AnyWAN THEN {w \in WANs : NdmsID[w] = ISPInterface[t]}
    ELSE IF wanUp = {} THEN {prev} ELSE wanUp

\* The daemon starts on a router where the tunnels in on are enabled; on a warm
\* start the previous daemon has left them running.
Init ==
    \E on \in SUBSET Tunnels :
        /\ wanUp \in SUBSET WANs
        /\ \E a \in [Tunnels -> WANs \cup {NoWAN}] :
              /\ \A t \in Tunnels :
                    a[t] \in IF t \notin on THEN {NoWAN}
                            ELSE IF t \in KernelTunnels /\ ISPInterface[t] # AnyWAN
                                 THEN {ISPInterface[t]} ELSE PeerVia(t, NoWAN)
              /\ store = [t \in Tunnels |-> [exists |-> TRUE, enabled |-> t \in on,
                                             activeWAN |-> a[t]]]
        /\ live = [t \in Tunnels |-> [conf |-> t \in on,
                                      up |-> t \in on /\ (BootKind = "warm" \/ NdmsAlone(t))]]
        /\ cache = [t \in Tunnels |-> Unknown]
        /\ routes = [t \in Tunnels |-> t \in on /\ BootKind = "warm"]
        /\ loaded = FALSE
        /\ boot = BootKind
        /\ expected = [t \in Tunnels |-> [l \in Level |-> 0]]
        /\ hooks = [k \in Hook |-> 0]
        /\ full = {}
        /\ cleaned = [t \in Tunnels |-> 0]
        /\ pc = [h \in Handlers |-> "idle"]
        /\ ev = [h \in Handlers |-> NoEvent]
        /\ plan = [h \in Handlers |-> EmptyPlan]
        /\ plan2 = [h \in Handlers |-> EmptyPlan]
        /\ job = [h \in Handlers |-> NoJob]
        /\ bounced = [h \in Handlers |-> FALSE]
        /\ firstErr = [h \in Handlers |-> "none"]
        /\ used = [events |-> 0, ext |-> 0, fails |-> 0, giveUps |-> 0]
        /\ astray = {}
        /\ missed = {}

-----------------------------------------------------------------------------
(* Events *)

Spend == used.events < MaxEvents /\ used' = [used EXCEPT !.events = @ + 1]

\* ControlHandler.Start, Stop, Restart and Service.Delete.
UserEvent(h, t) ==
    \E k \in Kinds \cap {"start", "stop", "restart", "delete"} :
        /\ pc[h] = "idle" /\ store[t].exists
        /\ Spend
        /\ pc' = [pc EXCEPT ![h] = "decide"]
        /\ ev' = [ev EXCEPT ![h] = [NoEvent EXCEPT !.kind = k, !.tun = t]]
        /\ UNCHANGED <<store, cache, routerVars, routes, wanUp, loaded, boot, history,
                       expected, lockVars, plan, plan2, job, bounced, firstErr>>

\* ControlHandler.ToggleEnabled: autostart is flipped in the store only.
ToggleEnabled(t) ==
    /\ "toggle" \in Kinds
    /\ store[t].exists
    /\ Spend
    /\ store' = [store EXCEPT ![t].enabled = ~@]
    /\ UNCHANGED <<cache, routerVars, routes, wanUp, loaded, boot, history, expected,
                   lockVars, pc, ev, plan, plan2, job, bounced, firstErr>>

\* handleWANLayerEvent: the model is updated at once, the event is handled by
\* a goroutine.  NDMS repeats hooks, so the level need not change.
WanSet(h, w) ==
    /\ "wan" \in Kinds
    /\ pc[h] = "idle"
    /\ Spend
    /\ \E up \in BOOLEAN :
          /\ wanUp' = IF up THEN wanUp \cup {w} ELSE wanUp \ {w}
          /\ ev' = [ev EXCEPT ![h] =
                [NoEvent EXCEPT !.kind = IF up THEN "wanup" ELSE "wandown", !.wan = w]]
    /\ pc' = [pc EXCEPT ![h] = "decide"]
    /\ UNCHANGED <<store, cache, routerVars, routes, loaded, boot, history, expected,
                   lockVars, plan, plan2, job, bounced, firstErr>>

\* Startup: a cold boot with a WAN up runs EventBoot, one without only logs
\* that it waits; a warm start runs EventReconnect.
Startup(h) ==
    /\ pc[h] = "idle" /\ boot # "done"
    /\ boot' = "done"
    /\ IF boot = "cold" /\ wanUp = {}
       THEN UNCHANGED <<cache, loaded, bounced, used, pc, ev>>
       ELSE /\ LoadState
            /\ pc' = [pc EXCEPT ![h] = "decide"]
            /\ ev' = [ev EXCEPT ![h] = [NoEvent EXCEPT
                         !.kind = IF boot = "cold" THEN "boot" ELSE "reconnect"]]
    /\ UNCHANGED <<store, routerVars, routes, wanUp, history, expected, lockVars, plan,
                   plan2, job, firstErr>>

\* Server.QuiesceForBackup, its tunnel part.
Quiesce(h) ==
    /\ "quiesce" \in Kinds
    /\ pc[h] = "idle" /\ used.events < MaxEvents
    /\ \A g \in Handlers : ev[g].kind # "quiesce" /\ pc[g] # "backup"
    /\ LoadState
    /\ pc' = [pc EXCEPT ![h] = "decide"]
    /\ ev' = [ev EXCEPT ![h] = [NoEvent EXCEPT !.kind = "quiesce"]]
    /\ UNCHANGED <<store, routerVars, routes, wanUp, boot, history, expected, lockVars,
                   plan, plan2, job, firstErr>>

\* Server.ResumeAfterBackup.
Resume(h) ==
    /\ pc[h] = "backup"
    /\ LoadState
    /\ pc' = [pc EXCEPT ![h] = "decide"]
    /\ ev' = [ev EXCEPT ![h] = [NoEvent EXCEPT !.kind = "resume"]]
    /\ UNCHANGED <<store, routerVars, routes, wanUp, boot, history, expected, lockVars,
                   plan, plan2, job, firstErr>>

\* The interface as NDMS holds it after a toggle made outside the daemon: the
\* proxy slot of a nativewg tunnel is the daemon's own and does not follow.
Toggled(t, on) ==
    [conf |-> on,
     up |-> IF t \in KernelTunnels \/ SupportsASC THEN on ELSE live[t].up]

\* The router's web UI, or an `interface restart` of its ping-check, toggles
\* the interface; NDMS sends the conf hook.
ExtToggle(t) ==
    /\ used.ext < MaxExt
    /\ used' = [used EXCEPT !.ext = @ + 1]
    /\ store[t].exists
    /\ live' = [live EXCEPT ![t] = Toggled(t, ~live[t].conf)]
    /\ hooks' = [hooks EXCEPT ![[tun |-> t, own |-> FALSE,
                    level |-> IF live[t].conf THEN "disabled" ELSE "running"]] = @ + 1]
    /\ UNCHANGED <<store, cache, routes, wanUp, loaded, boot, history, expected, lockVars,
                   pc, ev, plan, plan2, job, bounced, firstErr>>

\* The tokens of this tunnel and level are all needed by own hooks in flight.
AllNeeded(t, l) == hooks[OwnHook(t, l)] >= expected[t][l]

\* One of them is gone, or there is one own hook more.
Strayed(t, l) == IF AllNeeded(t, l) THEN astray \cup {<<t, l>>} ELSE astray

\* Delivery is fire-and-forget: a hook is lost when every client fails, and
\* posted once more when a client fails after the daemon has taken the request.
HookFault(k) ==
    /\ hooks[k] > 0 /\ used.fails < MaxFails
    /\ used' = [used EXCEPT !.fails = @ + 1]
    /\ \/ hooks' = [hooks EXCEPT ![k] = @ - 1] /\ UNCHANGED astray
       \/ /\ hooks' = [hooks EXCEPT ![k] = @ + 1]
          /\ astray' = IF k.own THEN Strayed(k.tun, k.level) ELSE astray
    /\ UNCHANGED <<store, cache, live, routes, wanUp, loaded, boot, missed, expected,
                   lockVars, pc, ev, plan, plan2, job, bounced, firstErr>>

\* expectedHookTTL runs out, whether or not the hook has come: its script alone
\* may take longer (six attempts of three seconds each).
ExpireHook(t, l) ==
    /\ expected[t][l] > 0
    /\ AllNeeded(t, l) => used.fails < MaxFails
    /\ used' = IF AllNeeded(t, l) THEN [used EXCEPT !.fails = @ + 1] ELSE used
    /\ astray' = Strayed(t, l)
    /\ expected' = [expected EXCEPT ![t][l] = @ - 1]
    /\ UNCHANGED <<store, cache, routerVars, routes, wanUp, loaded, boot, missed,
                   lockVars, pc, ev, plan, plan2, job, bounced, firstErr>>

\* bootQuiescenceWindow runs out.
QuiescenceEnds(t) ==
    /\ cache[t].quiescent
    /\ cache' = [cache EXCEPT ![t].quiescent = FALSE]
    /\ UNCHANGED <<store, routerVars, routes, wanUp, loaded, boot, history, expected,
                   lockVars, pc, ev, plan, plan2, job, bounced, firstErr, used>>

-----------------------------------------------------------------------------
(* HandleEvent up to decide *)

\* Mutant of ConsumeHook: a token of either level matches.
ConsumeAnyLevel(k) ==
    /\ hooks[k] > 0 /\ \E l \in Level : expected[k.tun][l] > 0
    /\ hooks' = [hooks EXCEPT ![k] = @ - 1]
    /\ expected' = [expected EXCEPT ![k.tun][k.level] = @ - 1]
    /\ astray' = IF k.own THEN astray ELSE Strayed(k.tun, k.level)
    /\ UNCHANGED <<store, cache, live, routes, wanUp, loaded, boot, missed, lockVars, pc,
                   ev, plan, plan2, job, bounced, firstErr, used>>

\* consumeExpectedHook: a hook is dropped for a token of its tunnel and level,
\* be it caused by one of our own actions or by somebody else.
ConsumeHook(k) ==
    /\ hooks[k] > 0 /\ expected[k.tun][k.level] > 0
    /\ hooks' = [hooks EXCEPT ![k] = @ - 1]
    /\ expected' = [expected EXCEPT ![k.tun][k.level] = @ - 1]
    /\ astray' = IF k.own THEN astray ELSE Strayed(k.tun, k.level)
    /\ UNCHANGED <<store, cache, live, routes, wanUp, loaded, boot, missed, lockVars, pc,
                   ev, plan, plan2, job, bounced, firstErr, used>>

\* noteConfRunning: seen by every handler that settles an edge of the tunnel.
noteConfRunning(t) ==
    [g \in Handlers |-> bounced[g] \/ (cache[t].known /\ pc[g] = "settle" /\ ev[g].tun = t)]

\* Any other hook: a running edge is noted and waits for the tunnel to be idle;
\* a disabled edge is held back if there is something it could stop.
ExternalHook(h, k) ==
    LET c == cache[k.tun] IN
    /\ pc[h] = "idle"
    /\ hooks[k] > 0 /\ expected[k.tun][k.level] = 0
    /\ hooks' = [hooks EXCEPT ![k] = @ - 1]
    /\ ev' = [ev EXCEPT ![h] = [NoEvent EXCEPT !.kind = "hook", !.tun = k.tun,
                                               !.level = k.level, !.own = k.own]]
    /\ IF k.level = "running"
       THEN /\ bounced' = noteConfRunning(k.tun)
            /\ pc' = [pc EXCEPT ![h] = IF c.known THEN "await" ELSE "decide"]
       ELSE /\ bounced' = [bounced EXCEPT ![h] = FALSE]
            /\ pc' = [pc EXCEPT ![h] =
                         IF ~c.known \/ ~c.running \/ c.quiescent THEN "decide" ELSE "settle"]
    /\ job' = [job EXCEPT ![h] = [NoJob EXCEPT !.tun = k.tun, !.gen = cleaned[k.tun]]]
    /\ UNCHANGED <<store, cache, live, routes, wanUp, loaded, boot, history, expected,
                   lockVars, plan, plan2, firstErr, used>>

\* Mutant of Await: unlocks although the lock was not obtained.
AwaitUnlocksAnyway(h) ==
    /\ pc[h] = "await"
    /\ full' = full \ {<<job[h].tun, cleaned[job[h].tun]>>}
    /\ pc' = [pc EXCEPT ![h] = "decide"]
    /\ UNCHANGED <<store, cache, routerVars, routes, wanUp, loaded, boot, history,
                   expected, cleaned, ev, plan, plan2, job, bounced, firstErr, used>>

\* awaitTunnelIdle: lock and unlock; unlockTunnel drains the current entry.
Await(h) ==
    LET t == job[h].tun IN
    /\ pc[h] = "await"
    /\ \/ /\ <<t, job[h].gen>> \notin full
          /\ full' = (full \cup {<<t, job[h].gen>>}) \ {<<t, cleaned[t]>>}
          /\ UNCHANGED used
       \/ /\ used.giveUps < MaxGiveUps
          /\ used' = [used EXCEPT !.giveUps = @ + 1]
          /\ UNCHANGED full
    /\ pc' = [pc EXCEPT ![h] = "decide"]
    /\ UNCHANGED <<store, cache, routerVars, routes, wanUp, loaded, boot, history,
                   expected, cleaned, ev, plan, plan2, job, bounced, firstErr>>

\* settleConfDisabled after confSettleDelay: the edge is dropped when a running
\* edge followed, or when NDMS still reports conf=running; or before it, when
\* the context of the hook ends.
SettleEnd(h) ==
    LET t    == ev[h].tun
        keep == cache[t].known /\ (bounced[h] \/ live[t].conf)
    IN
    /\ pc[h] = "settle"
    /\ \/ /\ \/ keep /\ UNCHANGED used
             \/ /\ used.giveUps < MaxGiveUps
                /\ used' = [used EXCEPT !.giveUps = @ + 1]
          /\ pc' = [pc EXCEPT ![h] = "idle"]
          /\ ev' = [ev EXCEPT ![h] = NoEvent]
          /\ job' = [job EXCEPT ![h] = NoJob]
       \/ /\ \/ ~keep /\ UNCHANGED used
             \/ /\ ~bounced[h] /\ used.fails < MaxFails     \* NDMS is unreadable
                /\ used' = [used EXCEPT !.fails = @ + 1]
          /\ pc' = [pc EXCEPT ![h] = "decide"]
          /\ UNCHANGED <<ev, job>>
    /\ UNCHANGED <<store, cache, routerVars, routes, wanUp, loaded, boot, history,
                   expected, lockVars, plan, plan2, bounced, firstErr>>

OnlyFor(t, p) == [EmptyPlan EXCEPT ![t] = p]

\* decide, for every event but WANDown.
decide(e, c) ==
    CASE e.kind = "start"     -> OnlyFor(e.tun, decideStart(e.tun, c[e.tun]))
      [] e.kind = "stop"      -> OnlyFor(e.tun, decideStop(e.tun, c[e.tun]))
      [] e.kind = "restart"   -> OnlyFor(e.tun, decideRestart(e.tun, c[e.tun]))
      [] e.kind = "delete"    -> OnlyFor(e.tun, decideDelete(e.tun, c[e.tun]))
      [] e.kind = "hook"      -> OnlyFor(e.tun, decideNDMSHook(e.tun, c[e.tun], e.level, anyWANUp))
      [] e.kind = "wanup"     -> [t \in Tunnels |-> decideWANUp(t, c[t], e.wan)]
      [] e.kind = "boot"      -> [t \in Tunnels |-> decideBoot(t, c[t])]
      [] e.kind \in {"reconnect", "resume"} -> [t \in Tunnels |-> decideReconnect(t, c[t])]
      [] e.kind = "quiesce"   -> [t \in Tunnels |-> decideQuiesce(t, c[t])]
      [] OTHER -> EmptyPlan

\* decideWANDown: the suspends, then the failover starts.  A tunnel suspended
\* last and started first has its two parts in one contiguous group.
decideWANDown(c, w) ==
    LET suspend   == [t \in Tunnels |-> decideWANDownSuspend(t, c[t], w)]
        failover  == [t \in Tunnels |-> decideWANDownFailover(t, c[t], w, anyWANUp)]
        suspended == {t \in Tunnels : suspend[t] # <<>>}
        started   == {t \in Tunnels : failover[t] # <<>>}
        split     == {<<suspend, failover>>}
        joined    == {<<[suspend EXCEPT ![t] = <<>>],
                        [EmptyPlan EXCEPT ![t] = suspend[t] \o failover[t]]>> : t \in started}
    IN  CASE Cardinality(started) # 1 -> split
          [] Cardinality(started) = 1 /\ suspended = started -> joined
          [] Cardinality(started) = 1 /\ suspended # started -> split \cup joined

\* The section of HandleEvent under o.mu.
Decide(h) ==
    LET e == ev[h]
        c == IF e.kind = "hook" THEN cache ELSE ensureTunnel(e.tun, cache)
    IN
    /\ pc[h] = "decide"
    /\ cache' = c
    /\ \E p \in IF e.kind = "wandown" THEN decideWANDown(c, e.wan)
                ELSE {<<decide(e, c), EmptyPlan>>} :
          /\ plan' = [plan EXCEPT ![h] = p[1]]
          /\ plan2' = [plan2 EXCEPT ![h] = p[2]]
    /\ pc' = [pc EXCEPT ![h] = IF e.kind \in {"reconnect", "resume"} THEN "sweep" ELSE "pick"]
    /\ missed' = missed \cup {t \in Tunnels : e.kind = "wanup" /\ ~c[t].enabled}
    /\ firstErr' = [firstErr EXCEPT ![h] = "none"]
    /\ UNCHANGED <<store, routerVars, routes, wanUp, loaded, boot, astray, expected,
                   lockVars, ev, job, bounced, used>>

-----------------------------------------------------------------------------
(* executeActionsGrouped, executeGroup, executeActions *)

\* executeRestoreEndpointTracking, unlocked: the runtime state of kernel
\* tunnels whose process is gone is cleared in the store.
RestoreEndpointTracking(h) ==
    /\ pc[h] = "sweep"
    /\ store' = [t \in Tunnels |->
                    IF t \in KernelTunnels /\ store[t].exists /\ ~live[t].up
                    THEN [store[t] EXCEPT !.activeWAN = NoWAN] ELSE store[t]]
    /\ pc' = [pc EXCEPT ![h] = "pick"]
    /\ UNCHANGED <<cache, routerVars, routes, wanUp, loaded, boot, history, expected,
                   lockVars, ev, plan, plan2, job, bounced, firstErr, used>>

Planned(p) == {t \in Tunnels : p[t] # <<>>}

\* The next group: any tunnel of the current phase (Go map order).
Pick(h, t) ==
    /\ pc[h] = "pick"
    /\ IF Planned(plan[h]) # {}
       THEN t \in Planned(plan[h]) /\ UNCHANGED <<plan, plan2>>
       ELSE /\ t \in Planned(plan2[h])
            /\ plan' = [plan EXCEPT ![h] = plan2[h]]
            /\ plan2' = [plan2 EXCEPT ![h] = EmptyPlan]
    /\ job' = [job EXCEPT ![h] = [NoJob EXCEPT !.tun = t, !.gen = cleaned[t]]]
    /\ pc' = [pc EXCEPT ![h] = "wait"]
    /\ UNCHANGED <<store, cache, routerVars, routes, wanUp, loaded, boot, history,
                   expected, lockVars, ev, bounced, firstErr, used>>

\* Mutant of lockTunnel: does not wait.
lockTunnelAtOnce(h) ==
    /\ pc[h] = "wait"
    /\ full' = full \cup {<<job[h].tun, job[h].gen>>}
    /\ pc' = [pc EXCEPT ![h] = "run"]
    /\ UNCHANGED <<store, cache, routerVars, routes, wanUp, loaded, boot, history,
                   expected, cleaned, ev, plan, plan2, job, bounced, firstErr, used>>

\* lockTunnel obtains the semaphore.
lockTunnel(h) ==
    /\ pc[h] = "wait"
    /\ <<job[h].tun, job[h].gen>> \notin full
    /\ full' = full \cup {<<job[h].tun, job[h].gen>>}
    /\ pc' = [pc EXCEPT ![h] = "run"]
    /\ UNCHANGED <<store, cache, routerVars, routes, wanUp, loaded, boot, history,
                   expected, cleaned, ev, plan, plan2, job, bounced, firstErr, used>>

\* lockTunnel gives up after tunnelLockTimeout: the group is skipped.
LockTimeout(h) ==
    /\ pc[h] = "wait" /\ used.giveUps < MaxGiveUps
    /\ used' = [used EXCEPT !.giveUps = @ + 1]
    /\ plan' = [plan EXCEPT ![h][job[h].tun] = <<>>]
    /\ firstErr' = Noted(h, "busy")
    /\ pc' = [pc EXCEPT ![h] = "pick"]
    /\ UNCHANGED <<store, cache, routerVars, routes, wanUp, loaded, boot, history,
                   expected, lockVars, ev, plan2, job, bounced>>

\* unlockTunnel drains the entry the map holds now.
Drained(t) == full \ {<<t, cleaned[t]>>}

\* The request context is cancelled, noticed between actions; the two startup
\* events run under a background context.
Cancel(h) ==
    /\ pc[h] \in {"sweep", "wait", "run"} /\ used.giveUps < MaxGiveUps
    /\ ev[h].kind \notin {"boot", "reconnect"}
    /\ used' = [used EXCEPT !.giveUps = @ + 1]
    /\ plan' = [plan EXCEPT ![h] = EmptyPlan]
    /\ plan2' = [plan2 EXCEPT ![h] = EmptyPlan]
    /\ full' = IF pc[h] = "run" THEN Drained(job[h].tun) ELSE full
    /\ firstErr' = Noted(h, IF pc[h] = "wait" THEN "busy" ELSE "error")
    /\ pc' = [pc EXCEPT ![h] = "pick"]
    /\ UNCHANGED <<store, cache, routerVars, routes, wanUp, loaded, boot, history,
                   expected, cleaned, ev, job, bounced>>

\* Mutant of unlockTunnel: the semaphore stays taken.
unlockForgotten(h) ==
    /\ pc[h] = "run" /\ plan[h][job[h].tun] = <<>>
    /\ pc' = [pc EXCEPT ![h] = "pick"]
    /\ UNCHANGED <<store, cache, routerVars, routes, wanUp, loaded, boot, history,
                   expected, lockVars, ev, plan, plan2, job, bounced, firstErr, used>>

\* The group is done: the deferred unlockTunnel.
unlockTunnel(h) ==
    /\ pc[h] = "run" /\ plan[h][job[h].tun] = <<>>
    /\ full' = Drained(job[h].tun)
    /\ pc' = [pc EXCEPT ![h] = "pick"]
    /\ UNCHANGED <<store, cache, routerVars, routes, wanUp, loaded, boot, history,
                   expected, cleaned, ev, plan, plan2, job, bounced, firstErr, used>>

\* HandleEvent returns.  A user stop that failed (not one that found the tunnel
\* busy) is followed by SetEnabled(false); a quiesce by the backup, or, after
\* any error, by nothing: BackupHandler returns without resuming.
Return(h) ==
    LET flip   == ev[h].kind = "stop" /\ firstErr[h] = "error"
        backup == ev[h].kind = "quiesce" /\ firstErr[h] = "none"
    IN
    /\ pc[h] = "pick" /\ Planned(plan[h]) = {} /\ Planned(plan2[h]) = {}
    /\ pc' = [pc EXCEPT ![h] = IF flip THEN "flip" ELSE IF backup THEN "backup" ELSE "idle"]
    /\ ev' = [ev EXCEPT ![h] = IF flip THEN @ ELSE NoEvent]
    /\ job' = [job EXCEPT ![h] = NoJob]
    /\ UNCHANGED <<store, cache, routerVars, routes, wanUp, loaded, boot, history,
                   expected, lockVars, plan, plan2, bounced, firstErr, used>>

\* ControlHandler.Stop after an error: SetEnabled(false), in the store only.
SetEnabled(h) ==
    /\ pc[h] = "flip"
    /\ store' = [store EXCEPT ![ev[h].tun].enabled = IF store[ev[h].tun].exists THEN FALSE ELSE @]
    /\ pc' = [pc EXCEPT ![h] = "idle"]
    /\ ev' = [ev EXCEPT ![h] = NoEvent]
    /\ UNCHANGED <<cache, routerVars, routes, wanUp, loaded, boot, history, expected,
                   lockVars, plan, plan2, job, bounced, firstErr, used>>

-----------------------------------------------------------------------------
(* executeOne: actions that are one step *)

Running(h, acts) ==
    /\ pc[h] = "run" /\ plan[h][job[h].tun] # <<>> /\ Act(h) \in acts
    /\ plan' = Popped(h)

\* ApplyClientRoutes: the routes of a deleted tunnel are gone from storage.
ApplyRoutes(h) ==
    /\ Running(h, {"ApplyRoutes"})
    /\ routes' = [routes EXCEPT ![job[h].tun] = store[job[h].tun].exists]
    /\ UNCHANGED <<store, cache, routerVars, wanUp, loaded, boot, history, expected,
                   lockVars, pc, ev, plan2, job, bounced, firstErr, used>>

RemoveRoutes(h) ==
    /\ Running(h, {"RemoveRoutes", "DeleteRoutes"})
    /\ routes' = [routes EXCEPT ![job[h].tun] = FALSE]
    /\ UNCHANGED <<store, cache, routerVars, wanUp, loaded, boot, history, expected,
                   lockVars, pc, ev, plan2, job, bounced, firstErr, used>>

Monitoring(h) ==
    /\ Running(h, {"StartMonitoring", "StopMonitoring"})
    /\ cache' = [cache EXCEPT ![job[h].tun] = updateState(@, Act(h), store[job[h].tun])]
    /\ UNCHANGED <<store, routerVars, routes, wanUp, loaded, boot, history, expected,
                   lockVars, pc, ev, plan2, job, bounced, firstErr, used>>

\* PersistRunning and PersistStopped change the store only.
Persist(h) ==
    LET t == job[h].tun IN
    /\ Running(h, {"PersistRunning", "PersistStopped"})
    /\ store[t].exists
    /\ store' = [store EXCEPT ![t] =
                    IF Act(h) = "PersistRunning" THEN [@ EXCEPT !.enabled = TRUE]
                    ELSE [@ EXCEPT !.enabled = FALSE, !.activeWAN = NoWAN]]
    /\ UNCHANGED <<cache, routerVars, routes, wanUp, loaded, boot, history, expected,
                   lockVars, pc, ev, plan2, job, bounced, firstErr, used>>

\* The tunnel is gone from the store (or, for SuspendKernel and ResumeKernel,
\* its link from the system): the action returns an error before it changed
\* anything; executeActions goes on with the next one and leaves the cache alone.
NotFound(h) ==
    /\ Running(h, (LongActions \ {"StopKernel"}) \cup {"PersistRunning", "PersistStopped"})
    /\ ~store[job[h].tun].exists
    /\ firstErr' = Noted(h, "error")
    /\ UNCHANGED <<store, cache, routerVars, routes, wanUp, loaded, boot, history,
                   expected, lockVars, pc, ev, plan2, job, bounced, used>>

\* The WAN an action resolves before it starts: resolveWAN for the kernel
\* backend, which fails when there is none; the others keep the stored one.
ResolvedWANs(t, act) ==
    IF act \notin {"ColdStartKernel", "ReconcileKernel"}
    THEN {store[t].activeWAN}
    ELSE IF ISPInterface[t] = AnyWAN THEN wanUp
         ELSE IF act = "ColdStartKernel" THEN {ISPInterface[t]} \cap wanUp
              ELSE {ISPInterface[t]}

NoUpstream(h) ==
    /\ pc[h] = "run" /\ plan[h][job[h].tun] # <<>>
    /\ store[job[h].tun].exists
    /\ ResolvedWANs(job[h].tun, Act(h)) = {}
    /\ plan' = Popped(h)
    /\ firstErr' = Noted(h, "error")
    /\ UNCHANGED <<store, cache, routerVars, routes, wanUp, loaded, boot, history,
                   expected, lockVars, pc, ev, plan2, job, bounced, used>>

-----------------------------------------------------------------------------
(* executeOne: actions that drive the router *)

BringUp == {"ColdStartKernel", "StartNativeWG", "ReconcileNativeWG"}

\* What NDMS holds after the action: the conf layer, and link or proxy.
LiveAfter(act, l) ==
    [l EXCEPT !.conf = IF act \in BringUp THEN TRUE
                       ELSE act \notin StopActions \cup {"Delete"} /\ @,
              !.up = act \in StartActions \cup {"RestoreKmod"}]

\* Mutant of ExpectHook: stops register nothing.
ExpectStartsOnly(t, act, tries) ==
    IF act \in BringUp THEN [expected EXCEPT ![t]["running"] = @ + 1] ELSE expected

\* ExpectHook of the operators, before each command that is sent.  Deleting a
\* nativewg interface registers none.
ExpectHook(t, act, tries) ==
    CASE act \in BringUp -> [expected EXCEPT ![t]["running"] = @ + tries]
      [] act \in StopActions \/ (act = "Delete" /\ t \in KernelTunnels) ->
            [expected EXCEPT ![t]["disabled"] = @ + tries]
      [] OTHER -> expected

\* NDMS sends a conf hook when the conf layer changes.
Emitted(t, conf) ==
    IF conf = live[t].conf THEN hooks
    ELSE [hooks EXCEPT ![OwnHook(t, IF conf THEN "running" ELSE "disabled")] = @ + 1]

\* A suspend that h carries out when the WAN is back, or the tunnel on another.
OutOfDate(h) ==
    /\ Act(h) \in {"SuspendKernel", "SuspendProxy"}
    /\ ev[h].wan \in wanUp \/ ~affectedByWANDown(job[h].tun, cache[job[h].tun], ev[h].wan)

\* Read the stored tunnel, resolve the WAN, drive the router to l.
Drive(h, acts, l, tries) ==
    LET t == job[h].tun
        act == Act(h)
    IN
    /\ pc[h] = "run" /\ plan[h][t] # <<>> /\ act \in acts
    /\ store[t].exists \/ act = "StopKernel"
    /\ \E w \in ResolvedWANs(t, act) :
          job' = [job EXCEPT ![h].snap = [store[t] EXCEPT !.activeWAN = w]]
    /\ expected' = ExpectHook(t, act, tries)
    /\ live' = [live EXCEPT ![t] = l]
    /\ hooks' = Emitted(t, l.conf)
    /\ astray' = IF act = "Delete" /\ t \notin KernelTunnels
                 THEN astray \cup {<<t, "disabled">>} ELSE astray
    /\ missed' = IF OutOfDate(h) THEN missed \cup {t} ELSE missed
    /\ pc' = [pc EXCEPT ![h] = "busy"]
    /\ UNCHANGED <<store, cache, routes, wanUp, loaded, boot, lockVars, ev, plan,
                   plan2, bounced, firstErr>>

\* First half of a long action.
Begin(h) ==
    /\ Drive(h, LongActions, LiveAfter(Act(h), live[job[h].tun]), 1)
    /\ UNCHANGED used

\* interfaceDownBestEffort
DownAttempts == 3

\* NDMS does not obey the conf change of a stop or a delete; the operators
\* ignore the error and go on as if it had.
StopUnheard(h) ==
    LET t == job[h].tun IN
    /\ used.fails < MaxFails
    /\ used' = [used EXCEPT !.fails = @ + 1]
    /\ Drive(h, StopActions \cup {"Delete"}, [live[t] EXCEPT !.up = @ /\ NdmsAlone(t)],
             IF Act(h) = "StopKernel" THEN DownAttempts ELSE 1)

\* Endpoint does not resolve, a file cannot be written, a command is refused:
\* what may fail before NDMS has changed anything.  A start may have registered
\* its token by then, and SuspendProxy has removed the proxy slot.  The stops are
\* best effort.
FailAction(h) ==
    LET t == job[h].tun IN
    /\ used.fails < MaxFails
    /\ used' = [used EXCEPT !.fails = @ + 1]
    /\ Running(h, ActionName \ StopActions)
    /\ \E tries \in IF Act(h) \in BringUp THEN {0, 1} ELSE {0} :
          expected' = ExpectHook(t, Act(h), tries)
    /\ live' = IF Act(h) = "SuspendProxy" THEN [live EXCEPT ![t].up = FALSE] ELSE live
    /\ firstErr' = Noted(h, "error")
    /\ UNCHANGED <<store, cache, hooks, routes, wanUp, loaded, boot, history, lockVars,
                   pc, ev, plan2, job, bounced>>

\* ReconcileNativeWG of a tunnel that is running with a handshake.
SkipReconcile(h) ==
    LET t == job[h].tun IN
    /\ Running(h, {"ReconcileNativeWG"})
    /\ live[t].conf /\ live[t].up /\ store[t].exists
    /\ cache' = [cache EXCEPT ![t] = updateState(@, "ReconcileNativeWG", store[t])]
    /\ UNCHANGED <<store, routerVars, routes, wanUp, loaded, boot, history, expected,
                   lockVars, pc, ev, plan2, job, bounced, firstErr, used>>

\* What the action saves: now is the stored tunnel, snap the copy read before.
Saved(t, act, now, snap) ==
    CASE act = "ColdStartKernel" -> {[snap EXCEPT !.enabled = TRUE]}
      [] act = "ReconcileKernel" -> {snap}
      [] act \in {"StartNativeWG", "ReconcileNativeWG"} ->
            {[snap EXCEPT !.enabled = TRUE, !.activeWAN = w] : w \in PeerVia(t, snap.activeWAN)}
      [] act = "StopKernel" -> {IF now.exists THEN [now EXCEPT !.activeWAN = NoWAN] ELSE now}
      [] act = "StopNativeWG" -> {[snap EXCEPT !.activeWAN = NoWAN]}
      [] act = "RestoreKmod" ->
            {IF w = snap.activeWAN THEN now ELSE [snap EXCEPT !.activeWAN = w] :
                w \in PeerVia(t, snap.activeWAN)}
      [] act = "Delete" -> {[now EXCEPT !.exists = FALSE]}
      [] OTHER -> {now}

\* Second half: save, drop the lock entry of a deleted tunnel, updateState.
End(h) ==
    LET t == job[h].tun
        act == Act(h)
    IN
    /\ pc[h] = "busy"
    /\ \E s \in Saved(t, act, store[t], job[h].snap) :
          /\ store' = [store EXCEPT ![t] = s]
          /\ cache' = [cache EXCEPT ![t] = updateState(@, act, s)]
          /\ missed' = IF act = "RestoreKmod" /\ s.activeWAN # cache[t].activeWAN
                       THEN missed \cup {t} ELSE missed
    /\ cleaned' = IF act = "Delete" THEN [cleaned EXCEPT ![t] = @ + 1] ELSE cleaned
    /\ plan' = Popped(h)
    /\ job' = [job EXCEPT ![h].snap = NoStored]
    /\ pc' = [pc EXCEPT ![h] = "run"]
    /\ UNCHANGED <<routerVars, routes, wanUp, loaded, boot, astray, expected, full, ev,
                   plan2, bounced, firstErr, used>>

\* A start fails half way: link or proxy are rolled back, conf is not.
FailStart(h) ==
    LET t == job[h].tun IN
    /\ pc[h] = "busy" /\ Act(h) \in BringUp
    /\ used.fails < MaxFails
    /\ used' = [used EXCEPT !.fails = @ + 1]
    /\ live' = [live EXCEPT ![t].up = FALSE]
    /\ plan' = Popped(h)
    /\ job' = [job EXCEPT ![h].snap = NoStored]
    /\ pc' = [pc EXCEPT ![h] = "run"]
    /\ firstErr' = Noted(h, "error")
    /\ UNCHANGED <<store, cache, hooks, routes, wanUp, loaded, boot, history, expected,
                   lockVars, ev, plan2, bounced>>

-----------------------------------------------------------------------------
(* Edits and restarts *)

\* TunnelsHandler.Update: read the tunnel ...
EditBegin(h, t) ==
    /\ "edit" \in Kinds
    /\ pc[h] = "idle" /\ store[t].exists
    /\ Spend
    /\ pc' = [pc EXCEPT ![h] = "edit"]
    /\ ev' = [ev EXCEPT ![h] = [NoEvent EXCEPT !.kind = "edit", !.tun = t]]
    /\ job' = [job EXCEPT ![h] = [NoJob EXCEPT !.tun = t, !.snap = store[t]]]
    /\ UNCHANGED <<store, cache, routerVars, routes, wanUp, loaded, boot, history,
                   expected, lockVars, plan, plan2, bounced, firstErr>>

\* ... and, when the service has applied the change, save and refresh.
EditEnd(h) ==
    LET t == job[h].tun
        s == job[h].snap
    IN
    /\ pc[h] = "edit"
    /\ store' = [store EXCEPT ![t] = s]
    /\ cache' = [cache EXCEPT ![t] = Refreshed(@, s)]
    /\ missed' = IF store[t] = s THEN missed ELSE missed \cup {t}
    /\ pc' = [pc EXCEPT ![h] = "idle"]
    /\ ev' = [ev EXCEPT ![h] = NoEvent]
    /\ job' = [job EXCEPT ![h] = NoJob]
    /\ UNCHANGED <<routerVars, routes, wanUp, loaded, boot, astray, expected, lockVars,
                   plan, plan2, bounced, firstErr, used>>

\* The daemon is killed or re-executed: memory is lost; the store, NDMS and the
\* installed routes survive.  A router reboot also loses links and proxies.
Crash ==
    /\ Kinds \cap {"crash", "reboot"} # {}
    /\ Spend
    /\ \/ /\ "crash" \in Kinds
          /\ boot' = "warm"
          /\ UNCHANGED <<live, routes>>
       \/ /\ "reboot" \in Kinds
          /\ boot' = "cold"
          /\ live' = [t \in Tunnels |-> [live[t] EXCEPT
                         !.up = @ /\ NdmsAlone(t)]]
          /\ routes' = [t \in Tunnels |-> FALSE]
    /\ cache' = [t \in Tunnels |-> Unknown]
    /\ loaded' = FALSE
    /\ expected' = [t \in Tunnels |-> [l \in Level |-> 0]]
    /\ full' = {}
    /\ cleaned' = [t \in Tunnels |-> 0]
    /\ pc' = [h \in Handlers |-> "idle"]
    /\ ev' = [h \in Handlers |-> NoEvent]
    /\ plan' = [h \in Handlers |-> EmptyPlan]
    /\ plan2' = [h \in Handlers |-> EmptyPlan]
    /\ job' = [h \in Handlers |-> NoJob]
    /\ bounced' = [h \in Handlers |-> FALSE]
    /\ firstErr' = [h \in Handlers |-> "none"]
    /\ astray' = {tl \in Tunnels \X Level : hooks[OwnHook(tl[1], tl[2])] > 0}
    /\ missed' = {}
    /\ UNCHANGED <<store, hooks, wanUp>>

-----------------------------------------------------------------------------

Arrive(h) ==
    \/ Startup(h) \/ Quiesce(h)
    \/ \E t \in Tunnels : UserEvent(h, t) \/ EditBegin(h, t)
    \/ \E w \in WANs : WanSet(h, w)
    \/ \E k \in Hook : ExternalHook(h, k)

OneStepAction(h) ==
    \/ ApplyRoutes(h) \/ RemoveRoutes(h) \/ Monitoring(h) \/ Persist(h)
    \/ NotFound(h) \/ NoUpstream(h) \/ SkipReconcile(h)

\* What a handler does on its own, without cancellations and failures.
Progress(h) ==
    \/ Await(h) \/ SettleEnd(h) \/ Decide(h) \/ RestoreEndpointTracking(h)
    \/ \E t \in Tunnels : Pick(h, t)
    \/ lockTunnel(h) \/ unlockTunnel(h) \/ Return(h) \/ SetEnabled(h)
    \/ OneStepAction(h) \/ Begin(h) \/ End(h)
    \/ EditEnd(h) \/ Resume(h)

Trouble(h) ==
    LockTimeout(h) \/ Cancel(h) \/ FailAction(h) \/ FailStart(h) \/ StopUnheard(h)

Environment ==
    \/ \E t \in Tunnels : ToggleEnabled(t) \/ ExtToggle(t) \/ QuiescenceEnds(t)
    \/ \E t \in Tunnels, l \in Level : ExpireHook(t, l)
    \/ \E k \in Hook : ConsumeHook(k) \/ HookFault(k)
    \/ Crash

Next ==
    \/ Environment
    \/ \E h \in Handlers : Arrive(h) \/ Progress(h) \/ Trouble(h)

Spec == Init /\ [][Next]_vars

\* Goroutines run, the router answers, a semaphore that is released again and
\* again is eventually had, and the startup sequence runs.  No event, hook,
\* failure or crash is obliged to happen.
Fairness ==
    /\ \A h \in Handlers : /\ WF_vars(Progress(h) /\ pc[h] # "wait")
                            /\ SF_vars(lockTunnel(h))
    /\ WF_vars(\E h \in Handlers : Startup(h))

FairSpec == Spec /\ Fairness

-----------------------------------------------------------------------------
(* Properties *)

\* Types: what the orchestrator keeps in memory, in the store and in NDMS, and
\* where its handlers are (no token count or plan runs out of its range).
TypeOK ==
    /\ store \in [Tunnels -> Stored]
    /\ cache \in [Tunnels -> TunnelState]
    /\ live \in [Tunnels -> [conf : BOOLEAN, up : BOOLEAN]]
    /\ routes \in [Tunnels -> BOOLEAN]
    /\ wanUp \subseteq WANs
    /\ loaded \in BOOLEAN
    /\ boot \in {"cold", "warm", "done"}
    /\ expected \in [Tunnels -> [Level -> Nat]]
    /\ hooks \in [Hook -> Nat]
    /\ full \subseteq Tunnels \X Nat
    /\ cleaned \in [Tunnels -> Nat]
    /\ pc \in [Handlers -> Phase]
    /\ ev \in [Handlers -> Event]
    /\ plan \in [Handlers -> [Tunnels -> Seq(ActionName)]]
    /\ plan2 \in [Handlers -> [Tunnels -> Seq(ActionName)]]
    /\ job \in [Handlers -> [tun : Tunnels \cup {NoTunnel}, gen : Nat, snap : Stored]]
    /\ bounced \in [Handlers -> BOOLEAN]
    /\ firstErr \in [Handlers -> {"none", "busy", "error"}]
    /\ used \in [events : Nat, ext : Nat, fails : Nat, giveUps : Nat]
    /\ astray \subseteq Tunnels \X Level
    /\ missed \subseteq Tunnels

\* The daemon is at rest: started, no handler active, no hook on its way.
Quiet ==
    /\ boot = "done"
    /\ \A h \in Handlers : pc[h] = "idle"
    /\ \A k \in Hook : hooks[k] = 0

\* A tunnel's actions are executed by one handler at a time, whatever mixes of
\* user events, hooks, sweeps, cancellations and timeouts compete for it.
ExclusiveExecution ==
    \A g, h \in Handlers :
        (g # h /\ pc[g] \in Executing /\ pc[h] \in Executing) => job[g].tun # job[h].tun

\* "already released / entry recreated after cleanup - no-op" (orchestrator.go,
\* unlockTunnel): an unlock never takes the semaphore away from the handler
\* that executes under it, unless a delete dropped the tunnel's entry.
HolderHasLock ==
    \A h \in Handlers : (pc[h] \in Executing /\ cleaned[job[h].tun] = 0)
                            => <<job[h].tun, job[h].gen>> \in full

\* The daemon reacts to a conf edge of its own making only if that edge has lost
\* its token: it was delivered twice, came after the TTL or after a restart of the
\* daemon, an outside edge took the token, or the edge is the removal of a nativewg
\* interface.  Failed starts, stops that NDMS ignores, lost edges, cancellations and
\* any race leave no edge without one.
OwnEdgesIgnored ==
    \A h \in Handlers : ev[h].own => <<ev[h].tun, ev[h].level>> \in astray

\* At rest the cached Running flag agrees with the conf layer NDMS holds.
CacheMatchesRouter ==
    (Quiet /\ loaded) => \A t \in Tunnels : cache[t].known => cache[t].running = live[t].conf

\* At rest what autostart will do on the next boot is what the router does now:
\* no race of starts, stops and restarts separates Enabled from conf.
IntentMatchesRouter ==
    Quiet => \A t \in Tunnels : store[t].exists => store[t].enabled = live[t].conf

\* At rest no client routes lead into a tunnel that is down.
RoutesMatchRouter ==
    Quiet => \A t \in Tunnels : routes[t] => live[t].conf

\* At rest a deleted tunnel has left nothing behind, if no action failed and
\* nobody else touched its interface, even if requests were cancelled or timed out.
DeletedIsGone ==
    (Quiet /\ used.fails = 0 /\ used.ext = 0) => \A t \in Tunnels :
        ~store[t].exists => ~live[t].conf /\ ~cache[t].known /\ ~routes[t]

\* "when that same iface comes back up we resume" (decide.go): at rest a tunnel is
\* suspended only while the WAN it uses is down, whatever stops, edits, backups and
\* restarts ran beside the WAN events, unless the suspend was carried out too late,
\* autostart was off when the WAN was announced, or the cached WAN was not the
\* stored one (an edit put an old record back, RestoreKmod did not tell the cache).
SuspendedOnlyWhileWANDown ==
    Quiet => \A t \in Tunnels \ missed :
        (cache[t].known /\ cache[t].enabled /\ cache[t].running /\ ~live[t].up)
            => \A w \in wanUp : ~affectedByWANDown(t, cache[t], w)

\* What autostart will do is taken away by a user's stop, a conf edge or an edit
\* only: no WAN event, startup, restart, delete or backup disables a tunnel,
\* whatever runs beside it, but by saving a copy that was read before (execute.go).
IntentKept ==
    [][\A h \in Handlers, t \in Tunnels :
          (store[t].enabled /\ ~store'[t].enabled /\ <<pc[h], plan[h]>> # <<pc'[h], plan'[h]>>)
              => \/ ev[h].tun = t /\ ev[h].kind \in {"stop", "hook", "edit"}
                 \/ pc[h] = "busy" /\ ~job[h].snap.enabled]_vars

\* Every event that is accepted is finished.
HandlersFinish == \A h \in Handlers : (pc[h] # "idle") ~> (pc[h] = "idle")

=============================================================================
