----------------------------- MODULE PingMonitor -----------------------------
(***************************************************************************)
(* The ping check (internal/pingcheck): the goroutine that probes a        *)
(* kernel tunnel and toggles its link (service.go, monitor.go), the one    *)
(* that polls NDMS for a nativewg tunnel (facade.go, nwg_monitor.go), and  *)
(* everybody who starts and stops them: the plans of the tunnel            *)
(* orchestrator, the tunnel, ping-check and settings handlers of the API.  *)
(*                                                                         *)
(* A monitor is a goroutine with its stop channel; a name is used again    *)
(* once nothing refers to it.  Stopping closes the channel and sets the    *)
(* field m.stopCh to nil, and a select waits on what the field held when   *)
(* the select began.  A call is a goroutine with the operations it still   *)
(* has to run; an operation runs for each tunnel of its set.               *)
(*                                                                         *)
(* Durations are abstracted: a ticker fires, a check returns and a pause   *)
(* ends at any moment.  What a poll of NDMS logs is left out.              *)
(***************************************************************************)
EXTENDS Naturals, Sequences, FiniteSets

CONSTANTS Tunnels,
          Monitors,       \* bound: monitors that something refers to
          NoMonitor,
          Handlers,       \* goroutines in the orchestrator's HandleEvent
          Requests,       \* goroutines of API handlers
          Kinds,          \* what they are asked to do
          FailThreshold,
          MaxCalls        \* bound on the calls

LifecycleKinds == {"start", "stop", "restart"}
TunnelKinds == {"enable", "disable"}
GlobalKinds == {"allon", "alloff", "checknow"}

ASSUME PingAssumption ==
    /\ Tunnels # {} /\ NoMonitor \notin Monitors
    /\ Handlers \cap Requests = {} /\ Monitors \cap (Handlers \cup Requests) = {}
    /\ Kinds \subseteq LifecycleKinds \cup TunnelKinds \cup GlobalKinds
    /\ FailThreshold \in Nat \ {0} /\ MaxCalls \in Nat

VARIABLES
    native,    \* the tunnels of the nativewg backend
    pingOn,    \* the stored PingCheck.Enabled
    cfgd,      \* PingCheck.Enabled in the orchestrator's cache
    flag,      \* tunnelState.Monitoring
    running,   \* the tunnel is started
    link,      \* the kernel link is up
    reg,       \* Service.monitors and Facade.nwgMonitors
    owner,     \* the tunnel of a monitor
    closed,    \* monitors whose stop channel is closed
    cleared,   \* monitors whose field stopCh is nil
    fails,     \* tunnelMonitor.failCount, up to FailThreshold
    work,      \* where each goroutine is in a loop or in sensorTick
    call,      \* what each caller still has to do
    calls,     \* number of calls so far
    crossed,   \* history: two calls about the tunnel overlapped
    untold     \* history: an API handler started a monitor the orchestrator does not know of

tunnelVars == <<native, pingOn, cfgd, flag, running, link>>
monVars == <<reg, owner, closed, cleared>>
history == <<crossed, untold>>
vars == <<tunnelVars, monVars, fails, work, call, calls, history>>

Kernel == Tunnels \ native
Callers == Handlers \cup Requests
Workers == Monitors \cup Requests

\* sel: the select it is in waits on the channel, not on nil.
NoWork == [pc |-> "gone", on |-> NoMonitor, sel |-> FALSE]

\* held: monitors whose WaitGroup it waits for; taken: nwg monitors it has
\* unregistered and stops next; fresh: the nwg monitor it registers next.
NoCall == [kind |-> "none", tuns |-> {}, todo |-> <<>>, locked |-> FALSE,
           held |-> {}, taken |-> {}, fresh |-> NoMonitor]

Active(c) == call[c].kind # "none"
Alive(m) == work[m].pc # "gone"

Init ==
    /\ native \in SUBSET Tunnels
    /\ pingOn \in [Tunnels -> BOOLEAN]
    /\ cfgd = pingOn
    /\ flag = [t \in Tunnels |-> FALSE]
    /\ running = [t \in Tunnels |-> FALSE]
    /\ link = [t \in Tunnels |-> FALSE]
    /\ reg = [t \in Tunnels |-> NoMonitor]
    /\ owner = [m \in Monitors |-> CHOOSE t \in Tunnels : TRUE]
    /\ closed = {} /\ cleared = {}
    /\ fails = [m \in Monitors |-> 0]
    /\ work = [w \in Workers |-> NoWork]
    /\ call = [c \in Callers |-> NoCall]
    /\ calls = 0
    /\ crossed = [t \in Tunnels |-> FALSE]
    /\ untold = [t \in Tunnels |-> FALSE]

-----------------------------------------------------------------------------
(* The monitors *)

\* What follows a sensorTick: the loop's select, or the return of CheckAllNow.
AfterTick(w) ==
    IF w \in Monitors THEN [pc |-> "select", on |-> w, sel |-> w \notin cleared] ELSE NoWork

\* getCheckConfig at the beginning of runMonitorLoop, and on each tick.
ReadConfig(m) ==
    IF pingOn[owner[m]] THEN [work[m] EXCEPT !.pc = "check"] ELSE NoWork

LoopBegin(m) ==
    /\ work[m].pc = "begin"
    /\ work' = [work EXCEPT ![m] = ReadConfig(m)]
    /\ UNCHANGED <<tunnelVars, monVars, fails, call, calls, history>>

\* Mutant: a tick goes on with the configuration read at the start.
TickBlind(m) ==
    /\ work[m].pc = "select"
    /\ work' = [work EXCEPT ![m].pc = IF owner[m] \in native THEN "poll" ELSE "check"]
    /\ UNCHANGED <<tunnelVars, monVars, fails, call, calls, history>>

Tick(m) ==
    /\ work[m].pc = "select"
    /\ work' = [work EXCEPT ![m] = IF owner[m] \in native THEN [@ EXCEPT !.pc = "poll"]
                                                         ELSE ReadConfig(m)]
    /\ UNCHANGED <<tunnelVars, monVars, fails, call, calls, history>>

LoopStop(m) ==
    /\ work[m].pc = "select" /\ work[m].sel /\ m \in closed
    /\ work' = [work EXCEPT ![m] = NoWork]
    /\ UNCHANGED <<tunnelVars, monVars, fails, call, calls, history>>

pollOnce(m) ==
    /\ work[m].pc = "poll"
    /\ work' = [work EXCEPT ![m] = AfterTick(m)]
    /\ UNCHANGED <<tunnelVars, monVars, fails, call, calls, history>>

\* sensorTick: a check through a link that is down fails.
CheckPassed(w) ==
    /\ work[w].pc = "check" /\ link[owner[work[w].on]]
    /\ fails' = [fails EXCEPT ![work[w].on] = 0]
    /\ work' = [work EXCEPT ![w] = AfterTick(w)]
    /\ UNCHANGED <<tunnelVars, monVars, call, calls, history>>

CheckFailed(w) ==
    LET m == work[w].on IN
    /\ work[w].pc = "check"
    /\ fails' = [fails EXCEPT ![m] = IF @ < FailThreshold THEN @ + 1 ELSE @]
    /\ work' = [work EXCEPT ![w] = IF fails'[m] < FailThreshold THEN AfterTick(w)
                                                                ELSE [@ EXCEPT !.pc = "down"]]
    /\ UNCHANGED <<tunnelVars, monVars, call, calls, history>>

\* doLinkToggle: either `ip link set` may fail.
ToggleDown(w) ==
    /\ work[w].pc = "down"
    /\ \E ok \in BOOLEAN : link' = [link EXCEPT ![owner[work[w].on]] = @ /\ ~ok]
    /\ work' = [work EXCEPT ![w].pc = "up"]
    /\ UNCHANGED <<native, pingOn, cfgd, flag, running, monVars, fails, call, calls, history>>

\* m.stopCh is read without the mutex: a stop since the check may be seen or not.
ToggleUp(w) ==
    LET m == work[w].on IN
    /\ work[w].pc = "up"
    /\ \E ok \in BOOLEAN : link' = [link EXCEPT ![owner[m]] = @ \/ ok]
    /\ \E sel \in {m \notin cleared, TRUE} :
          work' = [work EXCEPT ![w] = [@ EXCEPT !.pc = "handshake", !.sel = sel]]
    /\ UNCHANGED <<native, pingOn, cfgd, flag, running, monVars, fails, call, calls, history>>

\* waitHandshake: a handshake, or the deadline or the stop channel; the latter
\* two lead to the backoff, which reads m.stopCh again.
Handshake(w) ==
    /\ work[w].pc = "handshake" /\ link[owner[work[w].on]]
    /\ fails' = [fails EXCEPT ![work[w].on] = 0]
    /\ work' = [work EXCEPT ![w] = AfterTick(w)]
    /\ UNCHANGED <<tunnelVars, monVars, call, calls, history>>

NoHandshake(w) ==
    LET m == work[w].on IN
    /\ work[w].pc = "handshake"
    /\ fails' = [fails EXCEPT ![m] = 0]
    /\ work' = [work EXCEPT ![w] = [@ EXCEPT !.pc = "backoff", !.sel = m \notin cleared]]
    /\ UNCHANGED <<tunnelVars, monVars, call, calls, history>>

BackoffEnd(w) ==
    /\ work[w].pc = "backoff"
    /\ work' = [work EXCEPT ![w] = AfterTick(w)]
    /\ UNCHANGED <<tunnelVars, monVars, fails, call, calls, history>>

TickStep(w) ==
    \/ CheckPassed(w) \/ CheckFailed(w) \/ ToggleDown(w) \/ ToggleUp(w)
    \/ Handshake(w) \/ NoHandshake(w) \/ BackoffEnd(w)

MonitorStep(m) == LoopBegin(m) \/ Tick(m) \/ LoopStop(m) \/ pollOnce(m) \/ TickStep(m)

-----------------------------------------------------------------------------
(* The calls *)

Op(name, ts) == <<[op |-> name, on |-> ts]>>

\* The plans of decideStart, decideStop and decideRestart, as far as they
\* concern the ping check, over the orchestrator's cache.
StartPlan(t) ==
    Op("Start", {t}) \o
    (IF cfgd[t] THEN Op("StartMonitoring", {t}) \o Op("Told", {t}) ELSE <<>>)

\* Mutant: the tunnel is stopped before its monitor.
StopPlanSwapped(t) ==
    Op("Stop", {t}) \o (IF flag[t] THEN Op("StopMonitoring", {t}) ELSE <<>>)

StopPlan(t) ==
    (IF flag[t] THEN Op("StopMonitoring", {t}) \o Op("Untold", {t}) ELSE <<>>) \o Op("Stop", {t})

RestartPlan(t) == (IF running[t] THEN StopPlan(t) ELSE <<>>) \o StartPlan(t)

Plan(kind, t) ==
    CASE kind = "start"   -> StartPlan(t)
      [] kind = "stop"    -> StopPlan(t)
      [] kind = "restart" -> RestartPlan(t)

\* TunnelsHandler.Update saves, refreshes and then starts or stops; the
\* handler that removes a nativewg tunnel's ping check stops first.
TogglePlan(kind, t) ==
    LET store == Op("Save", {t}) \o Op("Refresh", {t}) IN
    CASE kind = "enable" /\ t \in Kernel  -> store \o Op("StartIfRunning", {t})
      [] kind = "enable" /\ t \in native  -> store \o Op("StartMonitoring", {t})
      [] kind = "disable" /\ t \in Kernel -> store \o Op("StopMonitoring", {t})
      [] kind = "disable" /\ t \in native -> Op("StopMonitoring", {t}) \o store

\* SettingsHandler.Update and CheckNow; neither refreshes the orchestrator.
GlobalPlan(kind) ==
    CASE kind = "allon"    -> Op("Save", Tunnels) \o Op("StartIfPresent", Kernel)
                                 \o Op("StartMonitoring", native)
      [] kind = "alloff"   -> Op("StopMonitoring", Kernel) \o Op("StopMonitoring", native)
                                 \o Op("Save", Tunnels)
      [] kind = "checknow" -> Op("CheckNow", Kernel)

Begin(c, kind, ts, todo) ==
    /\ ~Active(c) /\ calls < MaxCalls
    /\ calls' = calls + 1
    /\ call' = [call EXCEPT ![c] = [NoCall EXCEPT !.kind = kind, !.tuns = ts, !.todo = todo]]
    /\ crossed' = [t \in Tunnels |->
                      crossed[t] \/ (t \in ts /\ \E d \in Callers : Active(d) /\ t \in call[d].tuns)]
    /\ UNCHANGED <<tunnelVars, monVars, fails, work, untold>>

Event(h) ==
    \E kind \in Kinds \cap LifecycleKinds, t \in Tunnels :
        /\ kind = "start" => ~running[t]
        /\ Begin(h, kind, {t}, Plan(kind, t))

Request(r) ==
    \/ \E kind \in Kinds \cap TunnelKinds, t \in Tunnels :
          /\ pingOn[t] = (kind = "disable")
          /\ Begin(r, kind, {t}, TogglePlan(kind, t))
    \/ \E kind \in Kinds \cap GlobalKinds : Begin(r, kind, Tunnels, GlobalPlan(kind))

\* The orchestrator executes under the tunnel's semaphore, decided before.  An
\* event that gives up after 15 s does nothing to a monitor and is left out.
lockTunnel(h) ==
    /\ Active(h) /\ ~call[h].locked
    /\ \A g \in Handlers \ {h} : ~(call[g].locked /\ call[g].tuns = call[h].tuns)
    /\ call' = [call EXCEPT ![h].locked = TRUE]
    /\ UNCHANGED <<tunnelVars, monVars, fails, work, calls, history>>

\* The caller is at the operation op, for the tunnel t.
At(c, op, t) ==
    /\ Active(c) /\ call[c].todo # <<>>
    /\ c \in Handlers => call[c].locked
    /\ call[c].held = {} /\ call[c].taken = {}
    /\ c \in Requests => work[c].pc = "gone"
    /\ Head(call[c].todo).op = op /\ t \in Head(call[c].todo).on

\* What is left once the operation ran for the tunnels ts.
Rest(c, ts) ==
    LET s == Head(call[c].todo) IN
    IF s.on \subseteq ts THEN Tail(call[c].todo) ELSE Op(s.op, s.on \ ts) \o Tail(call[c].todo)

Done(c, ts) == [call EXCEPT ![c].todo = Rest(c, ts)]

Start(c) == \E t \in Tunnels :
    /\ At(c, "Start", t)
    /\ running' = [running EXCEPT ![t] = TRUE]
    /\ link' = [link EXCEPT ![t] = TRUE]
    /\ call' = Done(c, {t})
    /\ UNCHANGED <<native, pingOn, cfgd, flag, monVars, fails, work, calls, history>>

Stop(c) == \E t \in Tunnels :
    /\ At(c, "Stop", t)
    /\ running' = [running EXCEPT ![t] = FALSE]
    /\ link' = [link EXCEPT ![t] = FALSE]
    /\ flag' = [flag EXCEPT ![t] = FALSE]
    /\ call' = Done(c, {t})
    /\ UNCHANGED <<native, pingOn, cfgd, monVars, fails, work, calls, history>>

\* updateState after ActionStartMonitoring and ActionStopMonitoring.
Tell(c) == \E t \in Tunnels, op \in {"Told", "Untold"} :
    /\ At(c, op, t)
    /\ flag' = [flag EXCEPT ![t] = (op = "Told")]
    /\ call' = Done(c, {t})
    /\ UNCHANGED <<native, pingOn, cfgd, running, link, monVars, fails, work, calls, history>>

Save(c) == \E t \in Tunnels :
    /\ At(c, "Save", t)
    /\ pingOn' = [pingOn EXCEPT ![t] = (call[c].kind \in {"enable", "allon"})]
    /\ call' = Done(c, {t})
    /\ UNCHANGED <<native, cfgd, flag, running, link, monVars, fails, work, calls, history>>

RefreshTunnelState(c) == \E t \in Tunnels :
    /\ At(c, "Refresh", t)
    /\ cfgd' = [cfgd EXCEPT ![t] = pingOn[t]]
    /\ call' = Done(c, {t})
    /\ UNCHANGED <<native, pingOn, flag, running, link, monVars, fails, work, calls, history>>

\* A monitor nothing refers to.
Free(m) ==
    /\ m \in Monitors /\ ~Alive(m)
    /\ \A t \in Tunnels : reg[t] # m
    /\ \A c \in Callers : m \notin call[c].held \cup call[c].taken \cup {call[c].fresh}
    /\ \A w \in Workers : work[w].on # m

\* A new monitor of t begins its loop.
Spawn(m, t, pc) ==
    /\ Free(m)
    /\ owner' = [owner EXCEPT ![m] = t]
    /\ closed' = closed \ {m} /\ cleared' = cleared \ {m}
    /\ fails' = [fails EXCEPT ![m] = 0]
    /\ work' = [work EXCEPT ![m] = [pc |-> pc, on |-> m, sel |-> TRUE]]

\* Service.StartMonitoring, at once under the mutex.
Register(c, t) ==
    IF reg[t] # NoMonitor \/ ~pingOn[t]
    THEN UNCHANGED <<monVars, fails, work, untold>>
    ELSE LET m == CHOOSE n \in Monitors : Free(n) IN
         /\ Spawn(m, t, "begin")
         /\ reg' = [reg EXCEPT ![t] = m]
         /\ untold' = [untold EXCEPT ![t] = @ \/ c \in Requests]

StartMonitoring(c) == \E t \in Kernel :
    /\ At(c, "StartMonitoring", t)
    /\ Register(c, t)
    /\ call' = Done(c, {t})
    /\ UNCHANGED <<tunnelVars, calls, crossed>>

\* The update handler asks for the state of the tunnel; StartMonitoringAllRunning
\* takes an interface that exists for a tunnel that runs.
StartIf(c) == \E t \in Kernel, op \in {"StartIfRunning", "StartIfPresent"} :
    /\ At(c, op, t)
    /\ \/ /\ running[t] \/ op = "StartIfPresent"
          /\ Register(c, t)
       \/ ~running[t] /\ UNCHANGED <<monVars, fails, work, untold>>
    /\ call' = Done(c, {t})
    /\ UNCHANGED <<tunnelVars, calls, crossed>>

\* Mutant: the goroutine is not waited for.
StopMonitoringNoWait(c) == \E t \in Kernel :
    LET ts == Head(call[c].todo).on
        ms == {reg[u] : u \in ts} \ {NoMonitor} IN
    /\ At(c, "StopMonitoring", t)
    /\ reg' = [u \in Tunnels |-> IF u \in ts THEN NoMonitor ELSE reg[u]]
    /\ closed' = closed \cup ms /\ cleared' = cleared \cup ms
    /\ call' = Done(c, ts)
    /\ UNCHANGED <<tunnelVars, owner, fails, work, calls, history>>

\* Mutant: the entry stays in the map.
StopMonitoringKeeps(c) == \E t \in Kernel :
    LET ts == Head(call[c].todo).on
        ms == {reg[u] : u \in ts} \ {NoMonitor} IN
    /\ At(c, "StopMonitoring", t)
    /\ closed' = closed \cup ms /\ cleared' = cleared \cup ms
    /\ call' = [Done(c, ts) EXCEPT ![c].held = ms]
    /\ UNCHANGED <<tunnelVars, reg, owner, fails, work, calls, history>>

\* StopMonitoring, or for all tunnels StopMonitoringAll: unregister, close the
\* channel, clear the field, and wait for the goroutine outside the mutex.
StopMonitoring(c) == \E t \in Kernel :
    LET ts == Head(call[c].todo).on
        ms == {reg[u] : u \in ts} \ {NoMonitor} IN
    /\ At(c, "StopMonitoring", t)
    /\ reg' = [u \in Tunnels |-> IF u \in ts THEN NoMonitor ELSE reg[u]]
    /\ closed' = closed \cup ms /\ cleared' = cleared \cup ms
    /\ call' = [Done(c, ts) EXCEPT ![c].held = ms]
    /\ UNCHANGED <<tunnelVars, owner, fails, work, calls, history>>

\* startNwgMonitor: the old monitor is unregistered, then stopped; the new one
\* runs before it is registered.
startNwgMonitor(c) == \E t \in native :
    /\ At(c, "StartMonitoring", t)
    /\ IF pingOn[t]
       THEN /\ reg' = [reg EXCEPT ![t] = NoMonitor]
            /\ call' = [call EXCEPT ![c].todo = Op("RunNwg", {t}) \o Op("RegisterNwg", {t})
                                                   \o Rest(c, {t}),
                                    ![c].taken = {reg[t]} \ {NoMonitor}]
       ELSE call' = Done(c, {t}) /\ UNCHANGED reg
    /\ UNCHANGED <<tunnelVars, owner, closed, cleared, fails, work, calls, history>>

RunNwg(c) == \E t \in native :
    LET m == CHOOSE n \in Monitors : Free(n) IN
    /\ At(c, "RunNwg", t)
    /\ Spawn(m, t, "poll")
    /\ call' = [Done(c, {t}) EXCEPT ![c].fresh = m]
    /\ untold' = [untold EXCEPT ![t] = @ \/ c \in Requests]
    /\ UNCHANGED <<tunnelVars, reg, calls, crossed>>

RegisterNwg(c) == \E t \in native :
    /\ At(c, "RegisterNwg", t)
    /\ reg' = [reg EXCEPT ![t] = call[c].fresh]
    /\ call' = [Done(c, {t}) EXCEPT ![c].fresh = NoMonitor]
    /\ UNCHANGED <<tunnelVars, owner, closed, cleared, fails, work, calls, history>>

\* stopNwgMonitor, or for all tunnels the end of Facade.StopMonitoringAll.
stopNwgMonitor(c) == \E t \in native :
    LET ts == Head(call[c].todo).on IN
    /\ At(c, "StopMonitoring", t)
    /\ reg' = [u \in Tunnels |-> IF u \in ts THEN NoMonitor ELSE reg[u]]
    /\ call' = [Done(c, ts) EXCEPT ![c].taken = {reg[u] : u \in ts} \ {NoMonitor}]
    /\ UNCHANGED <<tunnelVars, owner, closed, cleared, fails, work, calls, history>>

\* nwgMonitor.stop.
StopTaken(c) == \E m \in call[c].taken :
    /\ call[c].held = {}
    /\ closed' = closed \cup {m}
    /\ call' = [call EXCEPT ![c].taken = @ \ {m}, ![c].held = {m}]
    /\ UNCHANGED <<tunnelVars, reg, owner, cleared, fails, work, calls, history>>

\* m.wg.Wait() returns.
Waited(c) ==
    /\ call[c].held # {} /\ \A m \in call[c].held : ~Alive(m)
    /\ call' = [call EXCEPT ![c].held = {}]
    /\ UNCHANGED <<tunnelVars, monVars, fails, work, calls, history>>

\* CheckAllNow runs a sensorTick of the monitor it finds in the caller's goroutine.
CheckAllNow(c) == \E t \in Kernel :
    /\ At(c, "CheckNow", t)
    /\ work' = IF reg[t] # NoMonitor /\ pingOn[t]
               THEN [work EXCEPT ![c] = [pc |-> "check", on |-> reg[t], sel |-> FALSE]] ELSE work
    /\ call' = Done(c, {t})
    /\ UNCHANGED <<tunnelVars, monVars, fails, calls, history>>

\* An operation on no tunnel, and the end of the call.
Skip(c) ==
    /\ Active(c) /\ call[c].todo # <<>> /\ Head(call[c].todo).on = {}
    /\ call' = [call EXCEPT ![c].todo = Tail(@)]
    /\ UNCHANGED <<tunnelVars, monVars, fails, work, calls, history>>

Return(c) ==
    /\ Active(c) /\ call[c].todo = <<>> /\ call[c].held = {} /\ call[c].taken = {}
    /\ c \in Requests => work[c].pc = "gone"
    /\ call' = [call EXCEPT ![c] = NoCall]
    /\ UNCHANGED <<tunnelVars, monVars, fails, work, calls, history>>

CallStep(c) ==
    \/ Start(c) \/ Stop(c) \/ Tell(c) \/ Save(c) \/ RefreshTunnelState(c)
    \/ StartMonitoring(c) \/ StartIf(c) \/ StopMonitoring(c)
    \/ startNwgMonitor(c) \/ RunNwg(c) \/ RegisterNwg(c) \/ stopNwgMonitor(c)
    \/ StopTaken(c) \/ Waited(c) \/ CheckAllNow(c) \/ Skip(c) \/ Return(c)
    \/ c \in Handlers /\ lockTunnel(c)
    \/ c \in Requests /\ TickStep(c)

Next ==
    \/ \E m \in Monitors : MonitorStep(m)
    \/ \E c \in Callers : CallStep(c)
    \/ \E h \in Handlers : Event(h)
    \/ \E r \in Requests : Request(r)

\* Checks, link commands, pauses and NDMS polls end, tickers fire and
\* goroutines run; select does not prefer a tick to a closed channel for ever.
\* Nobody has to call.
Fairness ==
    /\ \A m \in Monitors : WF_vars(MonitorStep(m)) /\ SF_vars(LoopStop(m))
    /\ \A c \in Callers : WF_vars(CallStep(c))

Spec == Init /\ [][Next]_vars /\ Fairness

-----------------------------------------------------------------------------
(* Properties *)

AtRest(t) == \A c \in Callers : Active(c) => t \notin call[c].tuns

\* No goroutine is orphaned: a monitor that runs is registered, or somebody who
\* took it out of the register waits for its end.  For a nativewg tunnel
\* startNwgMonitor promises it to callers that take turns only.
NoGhost ==
    \A m \in Monitors : Alive(m) =>
        \/ reg[owner[m]] = m
        \/ \E c \in Callers : m \in call[c].held \cup call[c].taken \cup {call[c].fresh}
        \/ owner[m] \in native /\ crossed[owner[m]]

\* The link of a stopped tunnel stays down: no toggle that was under way, or is
\* begun later, brings it up again, as long as calls about the tunnel took turns
\* and the orchestrator knows of its monitor.
StoppedStaysDown ==
    \A t \in Kernel : (AtRest(t) /\ ~running[t] /\ ~crossed[t] /\ ~untold[t]) => ~link[t]

\* A running tunnel with the ping check on, as the orchestrator knows, is
\* watched by a live monitor once its calls, taking turns, are over.
WatchedWhileEnabled ==
    \A t \in Tunnels :
        (AtRest(t) /\ running[t] /\ pingOn[t] /\ cfgd[t] /\ ~crossed[t])
            => reg[t] # NoMonitor /\ Alive(reg[t])

Waiting(c) == call[c].held # {}

\* A stop returns if the ping check is stored as off: whatever the monitor was
\* doing and whether or not it noticed its stop channel, its next reading of
\* the configuration ends it.
DisabledStopReturns ==
    \A c \in Callers :
        (Waiting(c) /\ \A m \in call[c].held : ~pingOn[owner[m]])
            ~> (~Waiting(c) \/ \E m \in call[c].held : pingOn[owner[m]])

\* "stopCh allows early exit when StopMonitoring is called during link toggle,
\* preventing the HTTP handler from blocking" (waitHandshake): StopMonitoring
\* always returns.
StopReturns == \A c \in Callers : Waiting(c) ~> ~Waiting(c)

=============================================================================
