---------------------------- MODULE SingboxEngine ----------------------------
(***************************************************************************)
(* The life of the sing-box engine: Process (internal/singbox/process.go), *)
(* the operator's Control and automatic restart (operator_process.go), its *)
(* tunnel changes (operator_tunnels.go), the watchdog (watchdog.go) and    *)
(* the crash-loop backoff (restart_backoff.go).                            *)
(*                                                                         *)
(* A process generation g is one spawned sing-box, with its exit monitor   *)
(* and its deliberate flag; a number is used again once nothing refers to  *)
(* it.  startMu serialises Start, Stop and Reload; IsRunning, the          *)
(* watchdog's checks and the monitors run without it.                      *)
(*                                                                         *)
(* Durations are abstracted: a pause ends and an attempt leaves the crash  *)
(* window at any moment, a run was healthy or was not.  sing-box is        *)
(* installed, its config declares a Clash API, and there is always work    *)
(* for it (legacy tunnels or an active slot).                              *)
(***************************************************************************)
EXTENDS Naturals, FiniteSets

CONSTANTS Watchdog,    \* the watchdog's goroutine
          Users,       \* API calls of Control
          Reloaders,   \* callers of orchestrator.Reload and of tunnel changes
          NoOne,
          Budget,      \* restartFreeBudget
          MaxGens,     \* bound: engines alive, dying or awaited at once
          MaxEvents    \* bound: calls, reloads, faults and restarts of the daemon

ASSUME EngineAssumption ==
    /\ Watchdog \notin Users \cup Reloaders /\ Users \cap Reloaders = {}
    /\ NoOne \notin {Watchdog} \cup Users \cup Reloaders
    /\ Budget \in Nat \ {0} /\ MaxGens \in Nat /\ MaxEvents \in Nat

VARIABLES
    gen,       \* the generations: process, deliberate flag, exit monitor
    pidFile,   \* the generation the pid file names, 0 for none
    curGen,    \* Process.curGen, 0 for nil
    startMu,   \* holder of Process.startMu
    stopped,   \* Operator.manuallyStopped
    disk,      \* the persisted intent
    attempts,  \* restartBackoff.attempts
    paused,    \* now is before restartBackoff.suppressedUntil
    swept,     \* Watchdog.swept
    act,       \* where each actor is
    real,      \* history: the attempts whose start really happened or failed
    crossed,   \* history: another start or a restart of the daemon crossed the last
               \* stop, or a tunnel was changed since
    raced,     \* history: a monitor removed the pid file of a successor
    events     \* calls, reloads, faults and restarts of the daemon so far

backoff == <<attempts, paused, real>>
intent  == <<stopped, disk, crossed>>
vars == <<gen, pidFile, curGen, startMu, intent, backoff, swept, act, raced, events>>

Actors == {Watchdog} \cup Users \cup Reloaders
Gens == 1 .. MaxGens

NoGen == [up |-> FALSE, signalled |-> FALSE, crashed |-> FALSE, deliberate |-> FALSE,
          mon |-> "none", verdict |-> FALSE]

\* op: what the actor is doing; snap: IsRunning when Control began; prev: the
\* intent before; g: its generation; spawned: the start forked a process;
\* tok: the backoff token; then: what follows the stop it is in.
Idle == [pc |-> "idle", op |-> "none", snap |-> FALSE, prev |-> FALSE, g |-> 0,
         spawned |-> FALSE, tok |-> 0, then |-> "done"]

\* IsRunning: the pid file names a live sing-box.
IsRunning == pidFile # 0 /\ gen[pidFile].up

Init ==
    /\ gen = [g \in Gens |-> NoGen]
    /\ pidFile = 0 /\ curGen = 0
    /\ startMu = NoOne
    /\ stopped = FALSE /\ disk = FALSE
    /\ attempts = {} /\ paused = FALSE
    /\ swept = FALSE
    /\ act = [a \in Actors |-> Idle]
    /\ real = {} /\ crossed = FALSE /\ raced = FALSE
    /\ events = 0

At(a, pc) == act[a].pc = pc

\* The actor goes on at pc; the actor has finished.
Goto(a, pc) == [act EXCEPT ![a].pc = pc]
Done(a) == [act EXCEPT ![a] = Idle]

\* The actor goes on to stop the engine, and then to next.
StopThen(a, next) == [act EXCEPT ![a].pc = "lockstop", ![a].then = next]

\* A call, a fault or a restart happens.
Happens == events < MaxEvents /\ events' = events + 1

\* A Stop of the user is under way.
Stopping == \E u \in Users : act[u].op = "stop"

-----------------------------------------------------------------------------
(* The process and its exit monitor *)

\* sing-box dies by itself (crash, OOM killer, a failed SIGHUP).
Crash(g) ==
    /\ gen[g].up /\ ~gen[g].signalled
    /\ Happens
    /\ gen' = [gen EXCEPT ![g].up = FALSE, ![g].crashed = TRUE]
    /\ UNCHANGED <<pidFile, curGen, startMu, intent, backoff, swept, act, raced>>

\* A signalled sing-box exits.
Exit(g) ==
    /\ gen[g].up /\ gen[g].signalled
    /\ gen' = [gen EXCEPT ![g].up = FALSE]
    /\ UNCHANGED <<pidFile, curGen, startMu, intent, backoff, swept, act, raced, events>>

\* The monitor's Wait returns: it takes its own generation's flag, and
\* cleanupPidIfOurs removes the pid file if it is ours.
MonitorCleanup(g) ==
    /\ gen[g].mon = "armed" /\ ~gen[g].up
    /\ gen' = [gen EXCEPT ![g].verdict = gen[g].deliberate, ![g].mon = "exit"]
    /\ pidFile' = IF pidFile = g THEN 0 ELSE pidFile
    /\ UNCHANGED <<curGen, startMu, intent, backoff, swept, act, raced, events>>

\* The window cleanupPidIfOurs documents: it has read the file as ours and is
\* held up before it removes it ...
MonitorStall(g) ==
    /\ gen[g].mon = "armed" /\ ~gen[g].up /\ pidFile = g
    /\ Happens
    /\ gen' = [gen EXCEPT ![g].verdict = gen[g].deliberate, ![g].mon = "remove"]
    /\ UNCHANGED <<pidFile, curGen, startMu, intent, backoff, swept, act, raced>>

\* ... whatever it holds by now.
MonitorRemove(g) ==
    /\ gen[g].mon = "remove"
    /\ gen' = [gen EXCEPT ![g].mon = "exit"]
    /\ pidFile' = 0
    /\ raced' = (raced \/ pidFile \notin {0, g})
    /\ UNCHANGED <<curGen, startMu, intent, backoff, swept, act, events>>

\* resetLocked.
ResetBackoff == attempts' = {} /\ paused' = FALSE /\ real' = {}

\* OnExit, handleExit: an exit that was not ours is recorded as a crash;
\* NoteCrash clears the counters after a run of restartHealthyRun.
MonitorExit(g) ==
    /\ gen[g].mon = "exit"
    /\ gen' = [gen EXCEPT ![g] = NoGen]
    /\ \/ ~gen[g].verdict /\ ResetBackoff
       \/ UNCHANGED backoff
    /\ UNCHANGED <<pidFile, curGen, startMu, intent, swept, act, raced, events>>

-----------------------------------------------------------------------------
(* startLocked *)

\* An automatic start has failed.
Failed(a) == [act EXCEPT ![a] = [Idle EXCEPT !.pc = "failed", !.tok = act[a].tok]]

\* What the caller of Start does with its result.
AfterStart(a, res) ==
    CASE act[a].op \notin {"start", "restart", "apply", "auto"} -> Done(a)
      [] res = "err" -> (IF act[a].op = "auto" THEN Failed(a) ELSE Done(a))
      [] OTHER -> [act EXCEPT ![a].pc = "clash", ![a].spawned = (res = "ok"), ![a].g = 0]

\* Mutant of LockStart: IsRunning is not checked again under startMu.
LockStartUnchecked(a) ==
    /\ At(a, "lockstart")
    /\ startMu = NoOne
    /\ startMu' = a
    /\ act' = Goto(a, "spawn")
    /\ UNCHANGED <<gen, pidFile, curGen, intent, backoff, swept, raced, events>>

\* startMu.Lock; nothing to do when the engine runs.
LockStart(a) ==
    /\ At(a, "lockstart")
    /\ startMu = NoOne
    /\ IF IsRunning
       THEN act' = AfterStart(a, "noop") /\ UNCHANGED startMu
       ELSE act' = Goto(a, "spawn") /\ startMu' = a
    /\ UNCHANGED <<gen, pidFile, curGen, intent, backoff, swept, raced, events>>

\* Generations nothing refers to.
Unused == {g \in Gens : gen[g].mon = "none" /\ ~gen[g].up /\ g # pidFile
                        /\ \A a \in Actors : act[a].g # g}

\* cmd.Start: the process lives, the pid file does not name it yet.
Spawn(a) ==
    /\ At(a, "spawn")
    /\ Unused # {}
    /\ LET g == CHOOSE g \in Unused : TRUE IN
       /\ gen' = [gen EXCEPT ![g] = [NoGen EXCEPT !.up = TRUE]]
       /\ act' = [act EXCEPT ![a].pc = "pid", ![a].g = g]
    /\ UNCHANGED <<pidFile, curGen, startMu, intent, backoff, swept, raced, events>>

\* The binary, its directory or its log cannot be used.
SpawnFail(a) ==
    /\ At(a, "spawn")
    /\ Happens
    /\ startMu' = NoOne
    /\ act' = AfterStart(a, "err")
    /\ UNCHANGED <<gen, pidFile, curGen, intent, backoff, swept, raced>>

WritePid(a) ==
    /\ At(a, "pid")
    /\ pidFile' = act[a].g
    /\ curGen' = act[a].g
    /\ act' = Goto(a, "grace")
    /\ UNCHANGED <<gen, startMu, intent, backoff, swept, raced, events>>

\* startupGracePeriod: an early exit is the caller's error, afterwards the
\* monitor takes over.
Grace(a) ==
    LET g == act[a].g IN
    /\ At(a, "grace")
    /\ startMu' = NoOne
    /\ IF gen[g].up
       THEN /\ gen' = [gen EXCEPT ![g].mon = "armed"]
            /\ act' = AfterStart(a, "ok")
            /\ UNCHANGED pidFile
       ELSE /\ pidFile' = IF pidFile = g THEN 0 ELSE pidFile
            /\ act' = AfterStart(a, "err")
            /\ gen' = [gen EXCEPT ![g] = NoGen]
    /\ UNCHANGED <<curGen, intent, backoff, swept, raced, events>>

\* writePID fails: the child is killed and awaited.
WritePidFail(a) ==
    /\ At(a, "pid")
    /\ Happens
    /\ gen' = [gen EXCEPT ![act[a].g].up = FALSE]
    /\ startMu' = NoOne
    /\ act' = AfterStart(a, "err")
    /\ UNCHANGED <<pidFile, curGen, intent, backoff, swept, raced>>

-----------------------------------------------------------------------------
(* stopLocked *)

\* Where the caller of Stop goes on.  Reload's stop keeps startMu for its start.
AfterStop(a) ==
    CASE act[a].then = "done" -> Done(a)
      [] act[a].then = "failed" -> Failed(a)
      [] OTHER -> [act EXCEPT ![a].pc = act[a].then, ![a].g = 0, ![a].then = "done"]

\* Mutant of Mark: the coming exit is not marked as ours.
MarkNothing(g) == gen' = [gen EXCEPT ![g].signalled = TRUE]

\* The current generation is marked before the signal lands.
Mark(g) ==
    gen' = [h \in Gens |-> [gen[h] EXCEPT !.signalled = @ \/ h = g,
                                          !.deliberate = @ \/ h = curGen]]

\* stopLocked from readPID to SIGTERM.
LockStop(a) ==
    /\ At(a, "lockstop")
    /\ startMu = NoOne
    /\ IF pidFile = 0
       THEN act' = AfterStop(a) /\ UNCHANGED <<gen, startMu>>
       ELSE /\ Mark(pidFile)
            /\ act' = [act EXCEPT ![a].pc = "dying", ![a].g = pidFile]
            /\ startMu' = a
    /\ UNCHANGED <<pidFile, curGen, intent, backoff, swept, raced, events>>

\* The process is gone, or after SIGTERM and SIGKILL the wait gives up on it.
Stopped(a) ==
    /\ At(a, "dying")
    /\ IF gen[act[a].g].up THEN Happens ELSE UNCHANGED events
    /\ pidFile' = 0
    /\ act' = AfterStop(a)
    /\ startMu' = IF act[a].then = "spawn" THEN a ELSE NoOne
    /\ UNCHANGED <<gen, curGen, intent, backoff, swept, raced>>

-----------------------------------------------------------------------------
(* Process.Reload: one hold of startMu *)

\* No pid: a fresh start.  A live process gets SIGHUP; a tun inbound, or a
\* signal that fails, takes a stop and a start instead.
LockReload(a) ==
    /\ At(a, "lockreload")
    /\ startMu = NoOne
    /\ \/ /\ pidFile = 0
          /\ act' = Goto(a, "spawn") /\ startMu' = a
          /\ UNCHANGED gen
       \/ /\ IsRunning
          /\ act' = [act EXCEPT ![a].pc = "hup", ![a].g = pidFile] /\ startMu' = a
          /\ UNCHANGED gen
       \/ /\ pidFile # 0
          /\ Mark(pidFile)
          /\ act' = [act EXCEPT ![a].pc = "dying", ![a].g = pidFile, ![a].then = "spawn"]
          /\ startMu' = a
    /\ UNCHANGED <<pidFile, curGen, intent, backoff, swept, raced, events>>

\* 150 ms after SIGHUP: a process that did not survive it is started again.
AfterHup(a) ==
    /\ At(a, "hup")
    /\ IF gen[act[a].g].up
       THEN act' = Done(a) /\ startMu' = NoOne
       ELSE act' = Goto(a, "spawn") /\ UNCHANGED startMu
    /\ UNCHANGED <<gen, pidFile, curGen, intent, backoff, swept, raced, events>>

-----------------------------------------------------------------------------
(* startAndWait after Start; autoRestartIfCrashed after startAndWait *)

\* Mutant of Settle: the attempt of a start that did nothing is kept.
SettleKept(a) ==
    IF act[a].spawned THEN real' = attempts \cap (real \cup {act[a].tok}) /\ UNCHANGED attempts
                      ELSE UNCHANGED <<attempts, real>>

\* The token: Commit after a spawn, Rollback when somebody else had started it.
\* A Reset in between may have cleared the attempt.
Settle(a) ==
    IF act[a].spawned THEN real' = attempts \cap (real \cup {act[a].tok}) /\ UNCHANGED attempts
                      ELSE attempts' = attempts \ {act[a].tok} /\ UNCHANGED real

\* The Clash API answers, whoever started the engine.
ClashReady(a) ==
    /\ At(a, "clash")
    /\ \E g \in Gens : gen[g].up
    /\ IF act[a].op = "auto"
       THEN Settle(a) /\ act' = IF act[a].spawned THEN Goto(a, "recheck") ELSE Done(a)
       ELSE act' = Done(a) /\ UNCHANGED <<attempts, real>>
    /\ UNCHANGED <<gen, pidFile, curGen, startMu, intent, paused, swept, raced, events>>

\* It does not answer in time: the half-started engine is stopped.
ClashFail(a) ==
    /\ At(a, "clash")
    /\ \/ (\A g \in Gens : ~gen[g].up) /\ UNCHANGED events
       \/ Happens
    /\ act' = StopThen(a, IF act[a].op = "auto" THEN "failed" ELSE "done")
    /\ UNCHANGED <<gen, pidFile, curGen, startMu, intent, backoff, swept, raced>>

\* A failed automatic start spends its token.
AutoFailed(a) ==
    /\ At(a, "failed")
    /\ real' = attempts \cap (real \cup {act[a].tok})
    /\ act' = Done(a)
    /\ UNCHANGED <<gen, pidFile, curGen, startMu, intent, attempts, paused, swept, raced, events>>

\* Mutant of Recheck: the restart does not look at the intent again.
RecheckSkipped(a) ==
    /\ At(a, "recheck")
    /\ act' = Done(a)
    /\ UNCHANGED <<gen, pidFile, curGen, startMu, intent, backoff, swept, raced, events>>

\* A Stop came while the automatic start was under way: take it down again.
Recheck(a) ==
    /\ At(a, "recheck")
    /\ act' = IF stopped THEN StopThen(a, "done") ELSE Done(a)
    /\ UNCHANGED <<gen, pidFile, curGen, startMu, intent, backoff, swept, raced, events>>

-----------------------------------------------------------------------------
(* The watchdog *)

\* tick: the orphan sweep comes first, once per daemon.
Tick ==
    /\ At(Watchdog, "idle")
    /\ ~swept \/ ~IsRunning
    /\ act' = Goto(Watchdog, IF swept THEN "check" ELSE "sweep")
    /\ UNCHANGED <<gen, pidFile, curGen, startMu, intent, backoff, swept, raced, events>>

\* runOrphanSweep reads the tracked pid.
SweepRead ==
    /\ At(Watchdog, "sweep")
    /\ act' = [act EXCEPT ![Watchdog].pc = "kill",
                          ![Watchdog].g = IF IsRunning THEN pidFile ELSE 0]
    /\ UNCHANGED <<gen, pidFile, curGen, startMu, intent, backoff, swept, raced, events>>

\* sweepOrphanProcesses kills every other engine of ours, as a crash for
\* whoever is watching it.
SweepKill ==
    LET orphans == {g \in Gens : gen[g].up /\ g # act[Watchdog].g} IN
    /\ At(Watchdog, "kill")
    /\ gen' = [g \in Gens |-> [gen[g] EXCEPT !.up = @ /\ g \notin orphans,
                                             !.crashed = @ \/ g \in orphans]]
    /\ swept' = TRUE
    /\ act' = [act EXCEPT ![Watchdog] = [Idle EXCEPT !.pc = "check"]]
    /\ UNCHANGED <<pidFile, curGen, startMu, intent, backoff, raced, events>>

\* Reconcile and autoRestartIfCrashed honour the intent.
Check ==
    /\ At(Watchdog, "check")
    /\ act' = IF stopped THEN Done(Watchdog) ELSE Goto(Watchdog, "allow")
    /\ UNCHANGED <<gen, pidFile, curGen, startMu, intent, backoff, swept, raced, events>>

\* restartBackoff.Allow: a token within the budget, or a pause.
Allow ==
    /\ At(Watchdog, "allow")
    /\ \/ /\ IsRunning \/ paused
          /\ act' = Done(Watchdog)
          /\ UNCHANGED backoff
       \/ /\ ~IsRunning /\ ~paused /\ Cardinality(attempts) < Budget
          /\ LET t == CHOOSE t \in (1 .. Budget) \ attempts : TRUE IN
             /\ attempts' = attempts \cup {t}
             /\ act' = [act EXCEPT ![Watchdog].pc = "lockstart", ![Watchdog].op = "auto",
                                   ![Watchdog].tok = t]
          /\ UNCHANGED <<paused, real>>
       \/ /\ ~IsRunning /\ ~paused /\ Cardinality(attempts) >= Budget
          /\ paused' = TRUE
          /\ act' = Done(Watchdog)
          /\ UNCHANGED <<attempts, real>>
    /\ UNCHANGED <<gen, pidFile, curGen, startMu, intent, swept, raced, events>>

WatchdogStep == Tick \/ SweepRead \/ SweepKill \/ Check \/ Allow

\* Time: the pause ends; an old attempt leaves restartCrashWindow.
PauseEnds ==
    /\ paused /\ paused' = FALSE
    /\ UNCHANGED <<gen, pidFile, curGen, startMu, intent, attempts, real, swept, act, raced,
                   events>>

\* Mutant of WindowSlides: Allow does not prune the attempts.
WindowSlidesNever == FALSE /\ UNCHANGED vars

WindowSlides ==
    /\ \E t \in attempts \ {act[Watchdog].tok} :
          attempts' = attempts \ {t} /\ real' = real \ {t}
    /\ UNCHANGED <<gen, pidFile, curGen, startMu, intent, paused, swept, act, raced, events>>

-----------------------------------------------------------------------------
(* Control, ClearManualStop, QuiesceStop *)

\* Another call that may start the engine is under way.
Busy(a) == \E b \in (Users \cup Reloaders) \ {a} : act[b].pc # "idle"

\* An API call begins; it reads IsRunning at once.
Begin(u, op) ==
    /\ At(u, "idle")
    /\ Happens
    /\ op = "clear" => stopped
    /\ act' = [act EXCEPT ![u] = [Idle EXCEPT !.op = op, !.snap = IsRunning,
                                              !.pc = IF op = "quiesce" THEN "act" ELSE "flag"]]
    /\ crossed' = (crossed \/ Stopping)
    /\ UNCHANGED <<gen, pidFile, curGen, startMu, stopped, disk, backoff, swept, raced>>

\* setManualStop: the flag first.
Flag(u) ==
    LET v == act[u].op = "stop" IN
    /\ At(u, "flag")
    /\ stopped' = v
    /\ crossed' = IF v THEN Busy(u) ELSE crossed
    /\ act' = [act EXCEPT ![u].pc = "persist", ![u].prev = stopped]
    /\ UNCHANGED <<gen, pidFile, curGen, startMu, disk, backoff, swept, raced, events>>

\* ... then the disk.
Persist(u) ==
    /\ At(u, "persist")
    /\ disk' = (act[u].op = "stop")
    /\ act' = IF act[u].op = "clear" THEN Done(u)
              ELSE [act EXCEPT ![u].pc = "act", ![u].prev = FALSE]
    /\ UNCHANGED <<gen, pidFile, curGen, startMu, stopped, crossed, backoff, swept, raced, events>>

\* The write fails: the flag is rolled back and the process left alone.  What
\* is rolled back to, or is left on disk, may be a Stop that was crossed before.
PersistFail(u) ==
    /\ At(u, "persist")
    /\ Happens
    /\ stopped' = act[u].prev
    /\ crossed' = (crossed \/ act[u].prev \/ disk)
    /\ act' = Done(u)
    /\ UNCHANGED <<gen, pidFile, curGen, startMu, disk, backoff, swept, raced>>

\* Control after setManualStop: stop looks again, start and restart use the
\* IsRunning they began with.  QuiesceStop only stops.
Act(u) ==
    LET op == act[u].op
        stop == op \in {"stop", "quiesce"}
    IN
    /\ At(u, "act")
    /\ IF op = "quiesce" THEN UNCHANGED backoff ELSE ResetBackoff
    /\ act' = CASE stop /\ IsRunning -> StopThen(u, "done")
                [] stop /\ ~IsRunning -> Done(u)
                [] ~stop /\ ~act[u].snap -> Goto(u, "lockstart")
                [] ~stop /\ act[u].snap /\ op = "start" -> Done(u)
                [] OTHER -> StopThen(u, "lockstart")
    /\ UNCHANGED <<gen, pidFile, curGen, startMu, intent, swept, raced, events>>

UserStep(u) == Flag(u) \/ Persist(u) \/ Act(u)

\* The process branches of orchestrator.Reload: cold start unless stopped by
\* hand, restart when the tun inbound toggled, otherwise Process.Reload.
Reload(r) ==
    /\ At(r, "idle")
    /\ Happens
    /\ \/ /\ ~IsRunning /\ ~stopped
          /\ act' = [act EXCEPT ![r].pc = "lockstart", ![r].op = "cold"]
       \/ /\ IsRunning
          /\ act' = [act EXCEPT ![r].pc = "lockstop", ![r].op = "reload", ![r].then = "lockstart"]
       \/ /\ IsRunning
          /\ act' = [act EXCEPT ![r].pc = "lockreload", ![r].op = "reload"]
    /\ crossed' = (crossed \/ Stopping \/ stopped)
    /\ UNCHANGED <<gen, pidFile, curGen, startMu, stopped, disk, backoff, swept, raced>>

\* AddTunnels, UpdateTunnel and RemoveTunnel end in applyConfig: a reload of a
\* live engine, or startAndWait, whatever the intent is.  RemoveTunnel of the
\* last tunnel only stops the engine.
TunnelChange(r) ==
    /\ At(r, "idle")
    /\ Happens
    /\ \/ /\ ~IsRunning
          /\ act' = [act EXCEPT ![r].pc = "lockstart", ![r].op = "apply"]
       \/ /\ IsRunning
          /\ act' = [act EXCEPT ![r].pc = "lockreload", ![r].op = "reload"]
       \/ act' = [act EXCEPT ![r].pc = "lockstop", ![r].op = "reload"]
    /\ crossed' = (crossed \/ Stopping \/ stopped)
    /\ UNCHANGED <<gen, pidFile, curGen, startMu, stopped, disk, backoff, swept, raced>>

-----------------------------------------------------------------------------
\* The daemon dies and comes back: the operator starts from the persisted
\* intent and adopts an engine the pid file names; monitors and callers are
\* gone, and the engine survives.
DaemonRestart ==
    /\ Happens
    /\ gen' = [g \in Gens |-> [gen[g] EXCEPT !.mon = "none"]]
    /\ act' = [a \in Actors |-> Idle]
    /\ stopped' = disk
    /\ crossed' = (crossed \/ (disk /\ \E a \in Actors : act[a].pc # "idle"))
    /\ curGen' = 0 /\ startMu' = NoOne
    /\ ResetBackoff
    /\ swept' = FALSE
    /\ UNCHANGED <<pidFile, disk, raced>>

StartStep(a) == LockStart(a) \/ Spawn(a) \/ WritePid(a) \/ Grace(a)
StopStep(a) == LockStop(a) \/ Stopped(a) \/ LockReload(a) \/ AfterHup(a)
WaitStep(a) == ClashReady(a) \/ ClashFail(a) \/ AutoFailed(a) \/ Recheck(a)
ActorStep(a) == StartStep(a) \/ StopStep(a) \/ WaitStep(a)

Monitor(g) == MonitorCleanup(g) \/ MonitorRemove(g) \/ MonitorExit(g)

Next ==
    \/ \E g \in Gens : Crash(g) \/ Exit(g) \/ Monitor(g) \/ MonitorStall(g)
    \/ \E a \in Actors : ActorStep(a) \/ SpawnFail(a) \/ WritePidFail(a)
    \/ WatchdogStep \/ PauseEnds \/ WindowSlides
    \/ \E u \in Users : UserStep(u) \/ PersistFail(u)
    \/ \E u \in Users, op \in {"start", "stop", "restart", "clear", "quiesce"} : Begin(u, op)
    \/ \E r \in Reloaders : Reload(r) \/ TunnelChange(r)
    \/ DaemonRestart

\* sync.Mutex hands startMu to every waiter in the end (starvation mode), a
\* signalled process dies, and the watchdog ticks for ever.
Fairness ==
    /\ \A a \in Actors : SF_vars(ActorStep(a))
    /\ \A u \in Users : WF_vars(UserStep(u))
    /\ WF_vars(WatchdogStep)
    /\ \A g \in Gens : WF_vars(Exit(g)) /\ WF_vars(Monitor(g))
    /\ WF_vars(PauseEnds) /\ WF_vars(WindowSlides)

Spec == Init /\ [][Next]_vars /\ Fairness

-----------------------------------------------------------------------------
(* Properties *)

Quiet == swept /\ \A a \in Actors : act[a].pc = "idle"

Alive == {g \in Gens : gen[g].up /\ ~gen[g].signalled}

\* A Stop of the user sticks (Control, autoRestartIfCrashed: "the user's Stop
\* is sacred"): once everybody is done and the intent is stopped, no engine
\* runs, whatever the watchdog was doing when the Stop came and however the
\* engine and the daemon died.  It does not hold when another start or reload,
\* or a restart of the daemon, crossed the Stop, nor when a tunnel was changed
\* after it: applyConfig starts the engine without looking at the intent.
StopSticks == Quiet /\ stopped => Alive = {} \/ crossed \/ raced

\* Never two engines (startMu, the orphan sweep), apart from the window
\* cleanupPidIfOurs documents and from what a dead daemon left behind until the
\* first tick has swept it.
OneEngine == Cardinality(Alive) <= 1 \/ raced \/ ~swept

\* handleExit counts only real crashes: an exit that Stop, Reload or a restart
\* asked for is never recorded, also when the next start is already under way
\* (the deliberate flag belongs to the generation).
BlameOnlyCrashes ==
    \A g \in Gens : gen[g].mon = "exit" /\ ~gen[g].verdict => gen[g].crashed

\* The crash budget is honest: each recorded attempt is one that forked an
\* engine or failed, or is still under way (restartToken's Commit and Rollback).
BudgetHonest == attempts \subseteq real \cup {act[Watchdog].tok}

\* The watchdog is the restart authority: an engine that is down and not
\* stopped by hand comes back, or the user stops it.
EngineRecovers == (~stopped /\ ~IsRunning) ~> (stopped \/ IsRunning)
=============================================================================
