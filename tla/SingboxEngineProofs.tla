------------------------- MODULE SingboxEngineProofs -------------------------
(***************************************************************************)
(* The engine's safety, for any number of callers, any budget and any      *)
(* number of processes: BlameOnlyCrashes, BudgetHonest, OneEngine and      *)
(* StopSticks, from the inductive invariant EngineInv.                     *)
(***************************************************************************)
EXTENDS SingboxEngine, FiniteSetTheorems, TLAPS

Pcs == {"idle", "flag", "persist", "act", "lockstart", "spawn", "pid", "grace", "clash",
        "recheck", "failed", "lockstop", "dying", "lockreload", "hup", "sweep", "kill",
        "check", "allow"}
Ops == {"none", "auto", "start", "stop", "restart", "clear", "quiesce", "cold", "reload",
        "apply"}
Nexts == {"done", "failed", "lockstart", "spawn"}

Generation == [up : BOOLEAN, signalled : BOOLEAN, crashed : BOOLEAN, deliberate : BOOLEAN,
               mon : {"none", "armed", "remove", "exit"}, verdict : BOOLEAN]
Activity == [pc : Pcs, op : Ops, snap : BOOLEAN, prev : BOOLEAN, g : {0} \cup Gens,
             spawned : BOOLEAN, tok : 0 .. Budget, then : Nexts]

TypeOK ==
  /\ gen \in [Gens -> Generation] /\ pidFile \in {0} \cup Gens /\ curGen \in {0} \cup Gens
  /\ act \in [Actors -> Activity]
  /\ stopped \in BOOLEAN /\ disk \in BOOLEAN /\ crossed \in BOOLEAN /\ raced \in BOOLEAN
  /\ swept \in BOOLEAN /\ paused \in BOOLEAN
  /\ attempts \in SUBSET (1 .. Budget) /\ real \in SUBSET (1 .. Budget)

Starting == {"lockstart", "spawn", "pid", "grace", "clash"}

(* What an actor may be doing, by itself. *)
ActorOK(a) ==
  LET x == act[a] IN
  /\ x.pc = "idle" => x = Idle
  /\ x.then = "spawn" => x.pc = "dying"
  /\ a = Watchdog =>
       /\ x.pc \in {"idle", "sweep", "kill", "check", "allow", "failed", "recheck", "lockstop",
                    "dying"} \cup Starting
       /\ x.op \in {"none", "auto"} /\ (x.pc \in Starting => x.op = "auto")
       /\ x.then \in {"done", "failed"}
       /\ x.pc \notin {"lockstop", "dying"} => x.then = "done"
       /\ x.pc \in {"sweep", "kill", "check", "allow"} => x.tok = 0
  /\ a # Watchdog => x.op # "auto" /\ x.pc # "failed" /\ x.then # "failed"
  /\ x.op \in {"stop", "quiesce"} =>
       x.pc \in {"flag", "persist", "act", "lockstop", "dying"} /\ x.then = "done"

(* startMu, and what its holder knows of the process. *)
HolderOK(a) ==
  LET x == act[a]
      g == act[a].g IN
  /\ x.pc \in {"spawn", "pid", "grace", "dying", "hup"} => startMu = a
  /\ x.pc \in {"spawn", "pid"} => ~IsRunning
  /\ x.pc \in {"pid", "grace"} => g \in Gens /\ gen[g].mon = "none" /\ ~gen[g].signalled
  /\ x.pc = "pid" => pidFile # g
  /\ x.pc = "grace" => curGen = g
  /\ x.pc \in {"grace", "dying", "hup"} => g \in Gens /\ pidFile \in {0, g}
  /\ x.pc = "dying" => ~gen[g].up \/ gen[g].signalled

(* The monitors' view: a signal that was ours is marked as ours. *)
MonitorOK(g) ==
  /\ gen[g].mon = "armed" =>
       /\ gen[g].signalled => gen[g].deliberate
       /\ ~gen[g].up => gen[g].deliberate \/ gen[g].crashed
       /\ pidFile = g => curGen = g
  /\ gen[g].mon \in {"exit", "remove"} => ~gen[g].up /\ (~gen[g].verdict => gen[g].crashed)

(* The attempt under way is the only one that may still be settled. *)
Unsettled ==
  \/ act[Watchdog].pc \in Starting \cup {"failed"}
  \/ act[Watchdog].then = "failed"

BudgetOK ==
  /\ attempts \subseteq real \cup {act[Watchdog].tok}
  /\ ~Unsettled => attempts \subseteq real

(* An engine that lives is named by the pid file, or about to be. *)
NamedAlive ==
  swept /\ ~raced => \A g \in Alive : g = pidFile \/ \E a \in Actors : act[a].pc = "pid" /\ act[a].g = g

SpareIsNamed ==
  act[Watchdog].pc = "kill" /\ ~raced /\ act[Watchdog].g \in Alive => act[Watchdog].g = pidFile

Others == Users \cup Reloaders

(* A Stop under way that nothing crossed. *)
StopAlone ==
  \A u \in Users : ~crossed /\ act[u].op = "stop" /\ act[u].pc # "flag" =>
    stopped /\ \A b \in Others \ {u} : act[b].pc = "idle"

(* While stopped, nobody but the watchdog has a start under way. *)
NoStart ==
  stopped /\ ~crossed =>
    /\ \A r \in Reloaders : act[r].pc = "idle"
    /\ \A u \in Users : act[u].pc \in {"idle", "flag"} \/ act[u].op \in {"stop", "quiesce"}

(* The intent on disk is the one in memory, or about to be replaced. *)
DiskFollows ==
  disk /\ ~stopped /\ ~crossed =>
    \E u \in Users : act[u].pc = "persist" /\ act[u].op # "stop" /\ act[u].prev

(* Somebody is going to stop the engine the pid file names. *)
PendingBy(a) ==
  LET x == act[a] IN
  \/ x.pc = "lockstop" \/ (x.op = "stop" /\ x.pc \in {"persist", "act"})
  \/ a = Watchdog /\ (x.pc \in {"grace", "recheck"} \/ (x.pc = "clash" /\ x.spawned))

Pending == \E a \in Actors : PendingBy(a)

StopPending == stopped /\ ~crossed /\ ~raced /\ pidFile \in Alive => Pending

EngineInv ==
  /\ TypeOK
  /\ \A a \in Actors : ActorOK(a)
  /\ \A a \in Actors : HolderOK(a)
  /\ \A g \in Gens : MonitorOK(g)
  /\ BudgetOK /\ NamedAlive /\ SpareIsNamed
  /\ StopAlone /\ NoStart /\ DiskFollows /\ StopPending

------------------------------------------------------------------------------
(* Frames. *)

LEMMA Distinct ==
  /\ Watchdog \in Actors /\ Users \subseteq Actors /\ Reloaders \subseteq Actors
  /\ Watchdog \notin Others /\ NoOne \notin Actors /\ Users \cap Reloaders = {}
  /\ Actors = {Watchdog} \cup Others /\ 0 \notin Gens
BY EngineAssumption DEF Actors, Others, Gens

LEMMA Blank ==
  /\ Idle \in Activity /\ Idle.pc = "idle" /\ Idle.op = "none" /\ Idle.tok = 0 /\ Idle.then = "done"
  /\ Idle.g = 0 /\ ~Idle.spawned
  /\ NoGen \in Generation /\ ~NoGen.up /\ ~NoGen.signalled /\ NoGen.mon = "none"
<1>1. 0 \in 0 .. Budget
  BY EngineAssumption
<1> QED BY <1>1 DEF Idle, NoGen, Activity, Generation, Pcs, Ops, Nexts

(* Nothing of the intent changes, and a caller that is past it moves on. *)
LEMMA IntentStays ==
  ASSUME EngineInv, NEW a \in Actors, NEW x \in Activity, act' = [act EXCEPT ![a] = x],
         UNCHANGED intent,
         a = Watchdog \/ (act[a].pc \notin {"idle", "flag", "persist"} /\ (x.op = act[a].op \/ x = Idle))
  PROVE  StopAlone' /\ NoStart' /\ DiskFollows'
<1>1. /\ act'[a] = x /\ \A b \in Actors \ {a} : act'[b] = act[b]
      /\ UNCHANGED <<stopped, disk, crossed>>
  BY DEF EngineInv, TypeOK, intent
<1>2. CASE a = Watchdog
  <2>1. \A b \in Others : act'[b] = act[b] /\ b \in Actors
    BY <1>1, <1>2, Distinct
  <2>2. \A u \in Users : u \in Others
    BY DEF Others
  <2>3. \A r \in Reloaders : r \in Others
    BY DEF Others
  <2> QED BY <1>1, <2>1, <2>2, <2>3 DEF EngineInv, StopAlone, NoStart, DiskFollows
<1>3. CASE a # Watchdog
  <2>1. act[a].pc \notin {"idle", "flag", "persist"} /\ (x.op = act[a].op \/ x = Idle)
    BY <1>3
  <2>2. a \in Others /\ \A b \in Others : b # a => act'[b] = act[b]
    BY <1>1, <1>3, Distinct
  <2>3. StopAlone'
    <3> SUFFICES ASSUME NEW u \in Users, ~crossed, act'[u].op = "stop", act'[u].pc # "flag"
                 PROVE  stopped /\ \A b \in Others \ {u} : act'[b].pc = "idle"
      BY <1>1 DEF StopAlone
    <3>1. CASE u = a
      <4>1. act[a].op = "stop" /\ act[a].pc # "flag"
        BY <1>1, <2>1, <3>1, Blank
      <4> QED BY <2>2, <3>1, <4>1 DEF EngineInv, StopAlone
    <3>2. CASE u # a
      <4>1. act'[u] = act[u]
        BY <2>2, <3>2 DEF Others
      <4>2. act[a].pc = "idle"
        BY <2>2, <3>2, <4>1 DEF EngineInv, StopAlone
      <4> QED BY <2>1, <4>2
    <3> QED BY <3>1, <3>2
  <2>4. NoStart'
    <3> SUFFICES ASSUME stopped, ~crossed
                 PROVE  /\ \A r \in Reloaders : act'[r].pc = "idle"
                        /\ \A u \in Users : act'[u].pc \in {"idle", "flag"} \/ act'[u].op \in {"stop", "quiesce"}
      BY <1>1 DEF NoStart
    <3>1. /\ \A r \in Reloaders : act[r].pc = "idle"
          /\ \A u \in Users : act[u].pc \in {"idle", "flag"} \/ act[u].op \in {"stop", "quiesce"}
      BY DEF EngineInv, NoStart
    <3>2. a \notin Reloaders
      BY <2>1, <3>1
    <3>3. \A r \in Reloaders : act'[r].pc = "idle"
      BY <2>2, <3>1, <3>2 DEF Others
    <3>4. ASSUME NEW u \in Users
          PROVE  act'[u].pc \in {"idle", "flag"} \/ act'[u].op \in {"stop", "quiesce"}
      <4>1. CASE u = a
        BY <1>1, <2>1, <3>1, <4>1, Blank
      <4>2. CASE u # a
        BY <2>2, <3>1, <4>2 DEF Others
      <4> QED BY <4>1, <4>2
    <3> QED BY <3>3, <3>4
  <2>5. DiskFollows'
    BY <1>1, <2>1, <2>2 DEF EngineInv, DiskFollows, Others
  <2> QED BY <2>3, <2>4, <2>5
<1> QED BY <1>2, <1>3

LEMMA BudgetStays ==
  ASSUME EngineInv, UNCHANGED <<attempts, real>>,
         ~Unsettled \/ act'[Watchdog] = act[Watchdog] \/ (act'[Watchdog].tok = act[Watchdog].tok /\ Unsettled')
  PROVE  BudgetOK'
BY DEF EngineInv, BudgetOK, Unsettled

(* An actor moves on and leaves the processes alone: what is left to show  *)
(* is what it knows and what it means to do.                               *)
LEMMA MoveStep ==
  ASSUME EngineInv, NEW a \in Actors, NEW x \in Activity, act' = [act EXCEPT ![a] = x],
         UNCHANGED <<gen, pidFile, curGen, swept, raced>>,
         startMu \in {NoOne, a} \/ startMu' = startMu, act[a].pc # "pid",
         ActorOK(a)', HolderOK(a)',
         a = Watchdog /\ x.pc = "kill" => x.g \in {0, pidFile},
         attempts' \in SUBSET (1 .. Budget), real' \in SUBSET (1 .. Budget), paused' \in BOOLEAN, BudgetOK',
         stopped' \in BOOLEAN, disk' \in BOOLEAN, crossed' \in BOOLEAN,
         StopAlone', NoStart', DiskFollows', StopPending'
  PROVE  EngineInv'
<1>1. act' \in [Actors -> Activity] /\ act'[a] = x /\ \A b \in Actors \ {a} : act'[b] = act[b]
  BY DEF EngineInv, TypeOK
<1>2. TypeOK'
  BY <1>1 DEF EngineInv, TypeOK
<1>3. \A b \in Actors : ActorOK(b)'
  BY <1>1 DEF EngineInv, ActorOK
<1>4. \A b \in Actors : HolderOK(b)'
  <2> SUFFICES ASSUME NEW b \in Actors, b # a PROVE HolderOK(b)'
    OBVIOUS
  <2>1. act'[b] = act[b] /\ b # NoOne /\ HolderOK(b)
    BY <1>1, Distinct DEF EngineInv
  <2>2. startMu = b => startMu' = b
    BY <2>1
  <2> QED BY <2>1, <2>2 DEF HolderOK, IsRunning
<1>5. \A g \in Gens : MonitorOK(g)'
  BY DEF EngineInv, MonitorOK
<1>6. Alive' = Alive
  BY DEF Alive
<1>7. NamedAlive'
  BY <1>1, <1>6 DEF EngineInv, NamedAlive
<1>8. SpareIsNamed'
  <2>1. 0 \notin Alive
    BY Distinct DEF Alive
  <2>2. CASE a = Watchdog
    BY <1>1, <1>6, <2>1, <2>2 DEF SpareIsNamed
  <2>3. CASE a # Watchdog
    <3>1. act'[Watchdog] = act[Watchdog]
      BY <1>1, <2>3, Distinct
    <3> QED BY <1>6, <3>1 DEF EngineInv, SpareIsNamed
  <2> QED BY <2>2, <2>3
<1> QED BY <1>2, <1>3, <1>4, <1>5, <1>7, <1>8 DEF EngineInv

LEMMA ControlStep ==
  ASSUME EngineInv, NEW a \in Actors, NEW x \in Activity, act' = [act EXCEPT ![a] = x],
         UNCHANGED <<gen, pidFile, curGen, swept, raced, intent>>,
         startMu \in {NoOne, a} \/ startMu' = startMu, act[a].pc # "pid",
         ActorOK(a)', HolderOK(a)',
         a = Watchdog \/ (act[a].pc \notin {"idle", "flag", "persist"} /\ (x.op = act[a].op \/ x = Idle)),
         a = Watchdog /\ x.pc = "kill" => x.g \in {0, pidFile},
         attempts' \in SUBSET (1 .. Budget), real' \in SUBSET (1 .. Budget), paused' \in BOOLEAN, BudgetOK',
         stopped /\ ~crossed /\ pidFile \in Alive /\ PendingBy(a) => PendingBy(a)'
  PROVE  EngineInv'
<1>1. /\ act'[a] = x /\ \A b \in Actors \ {a} : act'[b] = act[b]
      /\ UNCHANGED <<stopped, disk, crossed>>
  BY DEF EngineInv, TypeOK, intent
<1>2. stopped' \in BOOLEAN /\ disk' \in BOOLEAN /\ crossed' \in BOOLEAN
  BY <1>1 DEF EngineInv, TypeOK
<1>3. StopPending'
  <2> SUFFICES ASSUME stopped, ~crossed, ~raced, pidFile \in Alive' PROVE Pending'
    BY <1>1 DEF StopPending
  <2>1. pidFile \in Alive
    BY DEF Alive
  <2>2. PICK b \in Actors : PendingBy(b)
    BY <2>1 DEF EngineInv, StopPending, Pending
  <2>3. PendingBy(b)'
    BY <1>1, <2>1, <2>2 DEF PendingBy
  <2> QED BY <2>3 DEF Pending
<1>4. StopAlone' /\ NoStart' /\ DiskFollows'
  BY IntentStays
<1> QED BY <1>2, <1>3, <1>4, MoveStep

(* A process ends, or its monitor moves on. *)
LEMMA ProcessStep ==
  ASSUME EngineInv, NEW h \in Gens, NEW x \in Generation, gen' = [gen EXCEPT ![h] = x], ~x.up,
         gen[h].mon = "none" => x.mon = "none" /\ x.signalled = gen[h].signalled,
         UNCHANGED <<act, startMu, curGen, swept, intent>>, raced' \in BOOLEAN, raced => raced',
         pidFile' = pidFile \/ (pidFile' = 0 /\ (raced' \/ pidFile = 0 \/ ~gen[pidFile].up)),
         MonitorOK(h)',
         attempts' \in SUBSET (1 .. Budget), real' \in SUBSET (1 .. Budget), paused' \in BOOLEAN, BudgetOK'
  PROVE  EngineInv'
<1>1. /\ gen' \in [Gens -> Generation] /\ gen'[h] = x /\ \A g \in Gens \ {h} : gen'[g] = gen[g]
      /\ UNCHANGED <<stopped, disk, crossed>>
  BY DEF EngineInv, TypeOK, intent
<1>2. TypeOK'
  BY <1>1 DEF EngineInv, TypeOK
<1>3. \A b \in Actors : ActorOK(b)'
  BY DEF EngineInv, ActorOK
<1>4. \A g \in Gens : gen'[g].up => gen[g].up /\ gen'[g] = gen[g]
  BY <1>1
<1>5. Alive' \subseteq Alive
  BY <1>4 DEF Alive
<1>6. pidFile' \in {0, pidFile} /\ pidFile \in {0} \cup Gens
  BY DEF EngineInv, TypeOK
<1>7. IsRunning' => IsRunning
  BY <1>4, <1>6 DEF IsRunning
<1>8. ASSUME NEW b \in Actors PROVE HolderOK(b)'
  <2>1. HolderOK(b)
    BY <1>8 DEF EngineInv
  <2>2. act[b].pc \in {"pid", "grace"} => gen'[act[b].g].mon = "none" /\ ~gen'[act[b].g].signalled
    <3> SUFFICES ASSUME act[b].pc \in {"pid", "grace"}
                 PROVE  gen'[act[b].g].mon = "none" /\ ~gen'[act[b].g].signalled
      OBVIOUS
    <3>1. act[b].g \in Gens /\ gen[act[b].g].mon = "none" /\ ~gen[act[b].g].signalled
      BY <2>1 DEF HolderOK
    <3> QED BY <1>1, <3>1
  <2> QED BY <1>1, <1>4, <1>6, <1>7, <2>1, <2>2, Distinct DEF HolderOK
<1>9. \A g \in Gens : MonitorOK(g)'
  BY <1>1, <1>6, Distinct DEF EngineInv, MonitorOK
<1>10. \A g \in Alive' : ~raced' /\ g = pidFile => g = pidFile'
  BY <1>5, <1>6, Distinct DEF Alive
<1>11. NamedAlive' /\ SpareIsNamed'
  BY <1>5, <1>10 DEF EngineInv, NamedAlive, SpareIsNamed
<1>12. pidFile' \in Alive' => pidFile \in Alive
  BY <1>5, <1>6, Distinct DEF Alive
<1>13. StopPending'
  BY <1>1, <1>12 DEF EngineInv, StopPending, Pending, PendingBy
<1>14. StopAlone' /\ NoStart' /\ DiskFollows'
  BY <1>1 DEF EngineInv, StopAlone, NoStart, DiskFollows
<1> QED BY <1>2, <1>3, <1>8, <1>9, <1>11, <1>13, <1>14 DEF EngineInv

(* The processes and their monitors. *)

LEMMA CrashKeeps == ASSUME EngineInv, NEW g \in Gens, Crash(g) PROVE EngineInv'
<1> DEFINE x == [gen[g] EXCEPT !.up = FALSE, !.crashed = TRUE]
<1>1. /\ gen[g] \in Generation /\ gen' = [gen EXCEPT ![g] = x]
      /\ UNCHANGED <<pidFile, curGen, startMu, intent, attempts, paused, real, swept, act, raced>>
  BY DEF Crash, EngineInv, TypeOK, backoff
<1>2. /\ x \in Generation /\ ~x.up /\ x.crashed /\ x.mon = gen[g].mon /\ x.signalled = gen[g].signalled
      /\ x.deliberate = gen[g].deliberate
  BY <1>1 DEF Generation
<1>3. gen'[g] = x
  BY <1>1 DEF EngineInv, TypeOK
<1> HIDE DEF x
<1>4. MonitorOK(g)'
  BY <1>1, <1>2, <1>3 DEF EngineInv, MonitorOK
<1>5. BudgetOK' /\ attempts' \in SUBSET (1 .. Budget) /\ real' \in SUBSET (1 .. Budget) /\ paused' \in BOOLEAN
      /\ raced' \in BOOLEAN
  BY <1>1, BudgetStays DEF EngineInv, TypeOK
<1> QED BY <1>1, <1>2, <1>4, <1>5, ProcessStep

LEMMA ExitKeeps == ASSUME EngineInv, NEW g \in Gens, Exit(g) PROVE EngineInv'
<1> DEFINE x == [gen[g] EXCEPT !.up = FALSE]
<1>1. /\ gen[g] \in Generation /\ gen' = [gen EXCEPT ![g] = x] /\ gen[g].up /\ gen[g].signalled
      /\ UNCHANGED <<pidFile, curGen, startMu, intent, attempts, paused, real, swept, act, raced>>
  BY DEF Exit, EngineInv, TypeOK, backoff
<1>2. /\ x \in Generation /\ ~x.up /\ x.mon = gen[g].mon /\ x.signalled = gen[g].signalled
      /\ x.deliberate = gen[g].deliberate /\ x.verdict = gen[g].verdict
  BY <1>1 DEF Generation
<1>3. gen'[g] = x
  BY <1>1 DEF EngineInv, TypeOK
<1> HIDE DEF x
<1>4. MonitorOK(g)'
  BY <1>1, <1>2, <1>3 DEF EngineInv, MonitorOK
<1>5. BudgetOK' /\ attempts' \in SUBSET (1 .. Budget) /\ real' \in SUBSET (1 .. Budget) /\ paused' \in BOOLEAN
      /\ raced' \in BOOLEAN
  BY <1>1, BudgetStays DEF EngineInv, TypeOK
<1> QED BY <1>1, <1>2, <1>4, <1>5, ProcessStep

(* The verdict is the generation's own flag, and a process that is gone    *)
(* without it has crashed.                                                 *)
LEMMA MonitorLooksKeeps ==
  ASSUME EngineInv, NEW g \in Gens, MonitorCleanup(g) \/ MonitorStall(g) PROVE EngineInv'
<1>1. PICK p \in {"exit", "remove"} : gen' = [gen EXCEPT ![g].verdict = gen[g].deliberate, ![g].mon = p]
  BY DEF MonitorCleanup, MonitorStall
<1> DEFINE x == [gen[g] EXCEPT !.verdict = gen[g].deliberate, !.mon = p]
<1>2. /\ gen[g] \in Generation /\ gen' = [gen EXCEPT ![g] = x] /\ ~gen[g].up /\ gen[g].mon = "armed"
      /\ UNCHANGED <<curGen, startMu, intent, attempts, paused, real, swept, act, raced>>
  BY <1>1 DEF MonitorCleanup, MonitorStall, EngineInv, TypeOK, backoff
<1>3. pidFile' = pidFile \/ (pidFile' = 0 /\ pidFile = g)
  BY DEF MonitorCleanup, MonitorStall
<1>4. x \in Generation /\ ~x.up /\ x.mon = p /\ x.verdict = gen[g].deliberate /\ x.crashed = gen[g].crashed
  BY <1>2 DEF Generation
<1>5. gen'[g] = x
  BY <1>2 DEF EngineInv, TypeOK
<1> HIDE DEF x
<1>6. MonitorOK(g)'
  BY <1>2, <1>4, <1>5 DEF EngineInv, MonitorOK
<1>7. BudgetOK' /\ attempts' \in SUBSET (1 .. Budget) /\ real' \in SUBSET (1 .. Budget) /\ paused' \in BOOLEAN
      /\ raced' \in BOOLEAN
  BY <1>2, BudgetStays DEF EngineInv, TypeOK
<1>8. pidFile' = pidFile \/ (pidFile' = 0 /\ ~gen[pidFile].up)
  BY <1>2, <1>3
<1> QED BY <1>2, <1>4, <1>6, <1>7, <1>8, ProcessStep

LEMMA MonitorRemoveKeeps == ASSUME EngineInv, NEW g \in Gens, MonitorRemove(g) PROVE EngineInv'
<1> DEFINE x == [gen[g] EXCEPT !.mon = "exit"]
<1>1. /\ gen[g] \in Generation /\ gen' = [gen EXCEPT ![g] = x] /\ gen[g].mon = "remove"
      /\ pidFile' = 0 /\ raced' = (raced \/ pidFile \notin {0, g})
      /\ UNCHANGED <<curGen, startMu, intent, attempts, paused, real, swept, act>>
  BY DEF MonitorRemove, EngineInv, TypeOK, backoff
<1>2. ~gen[g].up /\ (~gen[g].verdict => gen[g].crashed)
  BY <1>1 DEF EngineInv, MonitorOK
<1>3. x \in Generation /\ ~x.up /\ x.mon = "exit" /\ x.verdict = gen[g].verdict /\ x.crashed = gen[g].crashed
  BY <1>1, <1>2 DEF Generation
<1>4. gen'[g] = x
  BY <1>1 DEF EngineInv, TypeOK
<1> HIDE DEF x
<1>5. MonitorOK(g)'
  BY <1>2, <1>3, <1>4 DEF MonitorOK
<1>6. BudgetOK' /\ attempts' \in SUBSET (1 .. Budget) /\ real' \in SUBSET (1 .. Budget) /\ paused' \in BOOLEAN
      /\ raced' \in BOOLEAN /\ (raced => raced')
  BY <1>1, BudgetStays DEF EngineInv, TypeOK
<1>7. pidFile' = pidFile \/ (pidFile' = 0 /\ (raced' \/ pidFile = 0 \/ ~gen[pidFile].up))
  BY <1>1, <1>2
<1> QED BY <1>1, <1>3, <1>5, <1>6, <1>7, ProcessStep

LEMMA MonitorExitKeeps == ASSUME EngineInv, NEW g \in Gens, MonitorExit(g) PROVE EngineInv'
<1>1. /\ gen' = [gen EXCEPT ![g] = NoGen] /\ gen[g].mon = "exit"
      /\ UNCHANGED <<pidFile, curGen, startMu, intent, swept, act, raced>>
      /\ UNCHANGED <<attempts, paused, real>> \/ ResetBackoff
  BY DEF MonitorExit, backoff
<1>2. gen'[g] = NoGen
  BY <1>1 DEF EngineInv, TypeOK
<1>3. MonitorOK(g)'
  BY <1>2, Blank DEF MonitorOK
<1>4. BudgetOK' /\ attempts' \in SUBSET (1 .. Budget) /\ real' \in SUBSET (1 .. Budget) /\ paused' \in BOOLEAN
      /\ raced' \in BOOLEAN
  <2>1. CASE UNCHANGED <<attempts, paused, real>>
    BY <1>1, <2>1, BudgetStays DEF EngineInv, TypeOK
  <2>2. CASE ResetBackoff
    BY <1>1, <2>2 DEF EngineInv, TypeOK, ResetBackoff, BudgetOK
  <2> QED BY <1>1, <2>1, <2>2
<1> QED BY <1>1, <1>3, <1>4, Blank, ProcessStep

------------------------------------------------------------------------------
(* The callers of Start and Stop. *)

LEMMA FailedIs ==
  ASSUME EngineInv, NEW a \in Actors
  PROVE  \E x \in Activity : /\ x.pc = "failed" /\ x.op = "none" /\ x.tok = act[a].tok /\ x.then = "done"
                             /\ Failed(a) = [act EXCEPT ![a] = x]
<1> DEFINE x == [Idle EXCEPT !.pc = "failed", !.tok = act[a].tok]
<1>1. act[a].tok \in 0 .. Budget /\ "failed" \in Pcs
  BY DEF EngineInv, TypeOK, Activity, Pcs
<1>2. Idle \in Activity /\ Idle.op = "none" /\ Idle.then = "done"
  BY Blank
<1>3. x \in Activity /\ x.pc = "failed" /\ x.op = "none" /\ x.tok = act[a].tok /\ x.then = "done"
  BY <1>1, <1>2 DEF Activity
<1>4. Failed(a) = [act EXCEPT ![a] = x]
  BY DEF Failed
<1> QED BY <1>3, <1>4

(* What an actor's move does to the clauses about itself. *)
LEMMA AfterStartMoves ==
  ASSUME EngineInv, NEW a \in Actors, NEW res \in {"ok", "noop", "err"},
         act[a].pc \in Starting \ {"clash"}, act' = AfterStart(a, res)
  PROVE  \E x \in Activity :
            /\ act' = [act EXCEPT ![a] = x] /\ x.pc \in {"idle", "failed", "clash"}
            /\ a = Watchdog \/ x.op = act[a].op \/ x = Idle
            /\ a = Watchdog => /\ x.tok = act[a].tok /\ x.pc # "idle"
                               /\ res = "ok" => x.pc = "clash" /\ x.spawned
            /\ ActorOK(a)' /\ HolderOK(a)'
<1>1. ActorOK(a) /\ act \in [Actors -> Activity]
  BY DEF EngineInv, TypeOK
<1>2. ASSUME NEW x, act' = [act EXCEPT ![a] = x] PROVE act'[a] = x
  BY <1>1, <1>2
<1>3. ASSUME NEW x \in Activity, act' = [act EXCEPT ![a] = x], x.pc \in {"idle", "failed", "clash"}
      PROVE  HolderOK(a)'
  BY <1>2, <1>3 DEF HolderOK
<1>4. /\ act[a].op \notin {"stop", "quiesce"} /\ act[a].then # "spawn"
      /\ a = Watchdog => act[a].op = "auto" /\ act[a].then = "done"
      /\ a # Watchdog => act[a].op # "auto" /\ act[a].then # "failed"
  BY <1>1 DEF ActorOK, Starting
<1>5. CASE act' = Done(a) /\ a # Watchdog
  <2>1. act' = [act EXCEPT ![a] = Idle] /\ act'[a] = Idle
    BY <1>2, <1>5 DEF Done
  <2>2. ActorOK(a)'
    BY <1>5, <2>1, Blank DEF ActorOK
  <2> QED BY <1>3, <1>5, <2>1, <2>2, Blank
<1>6. CASE act' = Failed(a) /\ a = Watchdog /\ res = "err"
  <2>1. PICK x \in Activity : /\ x.pc = "failed" /\ x.op = "none" /\ x.tok = act[a].tok /\ x.then = "done"
                              /\ act' = [act EXCEPT ![a] = x]
    BY <1>6, FailedIs
  <2>2. ActorOK(a)'
    BY <1>2, <1>6, <2>1 DEF ActorOK, Starting
  <2> QED BY <1>3, <1>6, <2>1, <2>2
<1>7. CASE /\ act' = [act EXCEPT ![a].pc = "clash", ![a].spawned = (res = "ok"), ![a].g = 0]
  <2>1. PICK s \in BOOLEAN : s = (res = "ok")
    OBVIOUS
  <2> DEFINE x == [act[a] EXCEPT !.pc = "clash", !.spawned = s, !.g = 0]
  <2>2. act' = [act EXCEPT ![a] = x]
    BY <1>1, <1>7, <2>1
  <2>3. /\ x \in Activity /\ x.pc = "clash" /\ x.op = act[a].op /\ x.tok = act[a].tok
        /\ x.then = act[a].then /\ x.spawned = s
    <3>1. act[a] \in Activity /\ "clash" \in Pcs
      BY <1>1 DEF Pcs
    <3> QED BY <3>1 DEF Activity
  <2> HIDE DEF x
  <2>4. ActorOK(a)'
    BY <1>2, <1>4, <2>2, <2>3 DEF ActorOK, Starting
  <2> QED BY <1>3, <2>1, <2>2, <2>3, <2>4
<1>8. \/ act' = Done(a) /\ act[a].op # "auto"
      \/ act' = Failed(a) /\ act[a].op = "auto" /\ res = "err"
      \/ act' = [act EXCEPT ![a].pc = "clash", ![a].spawned = (res = "ok"), ![a].g = 0]
  BY DEF AfterStart
<1> QED BY <1>4, <1>5, <1>6, <1>7, <1>8

LEMMA AfterStopMoves ==
  ASSUME EngineInv, NEW a \in Actors, act[a].pc \in {"lockstop", "dying"}, act' = AfterStop(a)
  PROVE  \E x \in Activity :
            /\ act' = [act EXCEPT ![a] = x] /\ x.pc \in {"idle", "failed", "lockstart", "spawn"}
            /\ x.pc = "spawn" <=> act[a].then = "spawn"
            /\ a = Watchdog \/ x.op = act[a].op \/ x = Idle
            /\ a = Watchdog => ~Unsettled \/ (x.tok = act[a].tok /\ x.pc = "failed")
            /\ ActorOK(a)' /\ (x.pc # "spawn" => HolderOK(a)')
<1>1. ActorOK(a) /\ act \in [Actors -> Activity]
  BY DEF EngineInv, TypeOK
<1>2. ASSUME NEW x, act' = [act EXCEPT ![a] = x] PROVE act'[a] = x
  BY <1>1, <1>2
<1>3. ASSUME NEW x \in Activity, act' = [act EXCEPT ![a] = x], x.pc \in {"idle", "failed", "lockstart"}
      PROVE  HolderOK(a)'
  BY <1>2, <1>3 DEF HolderOK
<1>4. /\ act[a].then # "done" => act[a].op \notin {"stop", "quiesce"}
      /\ a = Watchdog => act[a].then \in {"done", "failed"}
      /\ a # Watchdog => act[a].op # "auto" /\ act[a].then # "failed"
      /\ act[a].then \in Nexts
  BY <1>1 DEF ActorOK, Activity
<1>5. CASE act[a].then = "done"
  <2>1. act' = [act EXCEPT ![a] = Idle] /\ act'[a] = Idle
    BY <1>2, <1>5 DEF AfterStop, Done
  <2>2. ActorOK(a)'
    BY <2>1, Blank DEF ActorOK, Starting
  <2>3. a = Watchdog => ~Unsettled
    BY <1>5 DEF Unsettled, Starting
  <2> QED BY <1>3, <1>5, <2>1, <2>2, <2>3, Blank
<1>6. CASE act[a].then = "failed"
  <2>1. a = Watchdog /\ act' = Failed(a)
    BY <1>4, <1>6 DEF AfterStop
  <2>2. PICK x \in Activity : /\ x.pc = "failed" /\ x.op = "none" /\ x.tok = act[a].tok /\ x.then = "done"
                              /\ act' = [act EXCEPT ![a] = x]
    BY <2>1, FailedIs
  <2>3. ActorOK(a)'
    BY <1>2, <2>1, <2>2 DEF ActorOK, Starting
  <2> QED BY <1>3, <1>6, <2>1, <2>2, <2>3
<1>7. CASE act[a].then \in {"lockstart", "spawn"}
  <2> DEFINE x == [act[a] EXCEPT !.pc = act[a].then, !.g = 0, !.then = "done"]
  <2>1. act' = [act EXCEPT ![a] = x]
    BY <1>1, <1>7 DEF AfterStop
  <2>2. act[a].then \in Pcs /\ 0 \in {0} \cup Gens /\ "done" \in Nexts
    BY <1>7 DEF Pcs, Nexts
  <2>3. x \in Activity /\ x.pc = act[a].then /\ x.op = act[a].op /\ x.then = "done"
    BY <1>1, <2>2 DEF Activity
  <2> HIDE DEF x
  <2>4. ActorOK(a)'
    BY <1>2, <1>4, <1>7, <2>1, <2>3 DEF ActorOK
  <2> QED BY <1>3, <1>4, <1>7, <2>1, <2>3, <2>4
<1> QED BY <1>4, <1>5, <1>6, <1>7 DEF Nexts

LEMMA GotoIs ==
  ASSUME EngineInv, NEW a \in Actors, NEW p \in Pcs
  PROVE  \E x \in Activity : /\ x.pc = p /\ x.op = act[a].op /\ x.g = act[a].g /\ x.tok = act[a].tok
                             /\ x.then = act[a].then /\ x.spawned = act[a].spawned /\ x.prev = act[a].prev
                             /\ Goto(a, p) = [act EXCEPT ![a] = x]
<1> DEFINE x == [act[a] EXCEPT !.pc = p]
<1>1. act[a] \in Activity /\ Goto(a, p) = [act EXCEPT ![a] = x]
  BY DEF EngineInv, TypeOK, Goto
<1>2. /\ x \in Activity /\ x.pc = p /\ x.op = act[a].op /\ x.g = act[a].g /\ x.tok = act[a].tok
      /\ x.then = act[a].then /\ x.spawned = act[a].spawned /\ x.prev = act[a].prev
  BY <1>1 DEF Activity
<1> QED BY <1>1, <1>2

LEMMA StopThenIs ==
  ASSUME EngineInv, NEW a \in Actors, NEW n \in Nexts
  PROVE  \E x \in Activity : /\ x.pc = "lockstop" /\ x.op = act[a].op /\ x.tok = act[a].tok /\ x.then = n
                             /\ StopThen(a, n) = [act EXCEPT ![a] = x]
<1> DEFINE x == [act[a] EXCEPT !.pc = "lockstop", !.then = n]
<1>1. act[a] \in Activity /\ StopThen(a, n) = [act EXCEPT ![a] = x] /\ "lockstop" \in Pcs
  BY DEF EngineInv, TypeOK, StopThen, Pcs
<1>2. x \in Activity /\ x.pc = "lockstop" /\ x.op = act[a].op /\ x.tok = act[a].tok /\ x.then = n
  BY <1>1 DEF Activity
<1> QED BY <1>1, <1>2

LEMMA MovedTo ==
  ASSUME EngineInv, NEW a \in Actors, NEW x \in Activity, act' = [act EXCEPT ![a] = x]
  PROVE  act' \in [Actors -> Activity] /\ act'[a] = x /\ \A b \in Actors \ {a} : act'[b] = act[b]
BY DEF EngineInv, TypeOK

(* The budget, when the step leaves the attempts alone and the watchdog    *)
(* keeps its token.                                                        *)
LEMMA TokenKept ==
  ASSUME EngineInv, NEW a \in Actors, NEW x \in Activity, act' = [act EXCEPT ![a] = x],
         UNCHANGED <<attempts, paused, real>>,
         a = Watchdog => \/ ~Unsettled
                         \/ x.tok = act[a].tok /\ (x.pc \in Starting \cup {"failed"} \/ x.then = "failed")
  PROVE  /\ BudgetOK' /\ attempts' \in SUBSET (1 .. Budget) /\ real' \in SUBSET (1 .. Budget)
         /\ paused' \in BOOLEAN
<1>1. a # Watchdog => act'[Watchdog] = act[Watchdog]
  BY MovedTo, Distinct
<1>2. a = Watchdog => ~Unsettled \/ (act'[Watchdog].tok = act[Watchdog].tok /\ Unsettled')
  BY MovedTo DEF Unsettled
<1>3. BudgetOK'
  BY <1>1, <1>2, BudgetStays
<1> QED BY <1>3 DEF EngineInv, TypeOK

LEMMA LockStartKeeps == ASSUME EngineInv, NEW a \in Actors, LockStart(a) PROVE EngineInv'
<1>1. /\ act[a].pc = "lockstart" /\ startMu = NoOne
      /\ UNCHANGED <<gen, pidFile, curGen, swept, raced, intent, attempts, paused, real>>
  BY DEF LockStart, At, backoff
<1>2. ActorOK(a)
  BY DEF EngineInv
<1>3. ~PendingBy(a)
  BY <1>1, <1>2 DEF PendingBy, ActorOK
<1>4. CASE IsRunning
  <2>1. act' = AfterStart(a, "noop")
    BY <1>4 DEF LockStart
  <2>2. PICK x \in Activity :
            /\ act' = [act EXCEPT ![a] = x] /\ x.pc \in {"idle", "failed", "clash"}
            /\ a = Watchdog \/ x.op = act[a].op \/ x = Idle
            /\ a = Watchdog => x.tok = act[a].tok /\ x.pc # "idle"
            /\ ActorOK(a)' /\ HolderOK(a)'
    BY <1>1, <2>1, AfterStartMoves DEF Starting
  <2>3. BudgetOK' /\ attempts' \in SUBSET (1 .. Budget) /\ real' \in SUBSET (1 .. Budget) /\ paused' \in BOOLEAN
    BY <1>1, <2>2, TokenKept DEF Starting
  <2> QED BY <1>1, <1>3, <2>2, <2>3, ControlStep
<1>5. CASE ~IsRunning
  <2>1. PICK x \in Activity : /\ x.pc = "spawn" /\ x.op = act[a].op /\ x.tok = act[a].tok
                              /\ x.then = act[a].then /\ act' = [act EXCEPT ![a] = x]
    BY <1>5, GotoIs DEF LockStart, Pcs
  <2>2. startMu' = a /\ act'[a] = x
    BY <1>5, <2>1, MovedTo DEF LockStart
  <2>3. ActorOK(a)'
    BY <1>1, <1>2, <2>1, <2>2 DEF ActorOK, Starting
  <2>4. HolderOK(a)'
    BY <1>1, <1>5, <2>1, <2>2 DEF HolderOK, IsRunning
  <2>5. BudgetOK' /\ attempts' \in SUBSET (1 .. Budget) /\ real' \in SUBSET (1 .. Budget) /\ paused' \in BOOLEAN
    BY <1>1, <2>1, TokenKept DEF Starting
  <2> QED BY <1>1, <1>3, <2>1, <2>3, <2>4, <2>5, ControlStep
<1> QED BY <1>4, <1>5

LEMMA SpawnFailKeeps == ASSUME EngineInv, NEW a \in Actors, SpawnFail(a) PROVE EngineInv'
<1>1. /\ act[a].pc = "spawn" /\ act' = AfterStart(a, "err") /\ startMu' = NoOne
      /\ UNCHANGED <<gen, pidFile, curGen, swept, raced, intent, attempts, paused, real>>
  BY DEF SpawnFail, At, backoff
<1>2. ActorOK(a) /\ startMu = a
  BY <1>1 DEF EngineInv, HolderOK
<1>3. ~PendingBy(a)
  BY <1>1, <1>2 DEF PendingBy, ActorOK
<1>4. PICK x \in Activity :
         /\ act' = [act EXCEPT ![a] = x] /\ x.pc \in {"idle", "failed", "clash"}
         /\ a = Watchdog \/ x.op = act[a].op \/ x = Idle
         /\ a = Watchdog => x.tok = act[a].tok /\ x.pc # "idle"
         /\ ActorOK(a)' /\ HolderOK(a)'
  BY <1>1, AfterStartMoves DEF Starting
<1>5. BudgetOK' /\ attempts' \in SUBSET (1 .. Budget) /\ real' \in SUBSET (1 .. Budget) /\ paused' \in BOOLEAN
  BY <1>1, <1>4, TokenKept DEF Starting
<1> QED BY <1>1, <1>2, <1>3, <1>4, <1>5, ControlStep

(* stopLocked begins: the signal is marked as ours before it lands. *)
LEMMA MarkedKeeps ==
  ASSUME EngineInv, NEW a \in Actors, NEW x \in Activity, act' = [act EXCEPT ![a] = x],
         startMu = NoOne, startMu' = a, pidFile # 0, Mark(pidFile), x.pc = "dying", x.g = pidFile,
         act[a].pc \in {"lockstop", "lockreload"}, x.op = act[a].op, ActorOK(a)',
         a = Watchdog => x.tok = act[a].tok /\ x.then = act[a].then,
         UNCHANGED <<pidFile, curGen, swept, raced, intent, attempts, paused, real>>
  PROVE  EngineInv'
<1>1. act' \in [Actors -> Activity] /\ act'[a] = x /\ \A b \in Actors \ {a} : act'[b] = act[b]
  BY MovedTo
<1>2. \A h \in Gens : /\ gen'[h] \in Generation /\ gen'[h].up = gen[h].up /\ gen'[h].mon = gen[h].mon
                      /\ gen'[h].crashed = gen[h].crashed /\ gen'[h].verdict = gen[h].verdict
                      /\ gen'[h].signalled = (gen[h].signalled \/ h = pidFile)
                      /\ gen'[h].deliberate = (gen[h].deliberate \/ h = curGen)
  <2> SUFFICES ASSUME NEW h \in Gens
               PROVE  /\ gen'[h] \in Generation /\ gen'[h].up = gen[h].up /\ gen'[h].mon = gen[h].mon
                      /\ gen'[h].crashed = gen[h].crashed /\ gen'[h].verdict = gen[h].verdict
                      /\ gen'[h].signalled = (gen[h].signalled \/ h = pidFile)
                      /\ gen'[h].deliberate = (gen[h].deliberate \/ h = curGen)
    OBVIOUS
  <2>1. /\ gen[h] \in Generation
        /\ gen'[h] = [gen[h] EXCEPT !.signalled = gen[h].signalled \/ h = pidFile,
                                    !.deliberate = gen[h].deliberate \/ h = curGen]
    BY DEF Mark, EngineInv, TypeOK
  <2> QED BY <2>1 DEF Generation
<1>3. gen' \in [Gens -> Generation]
  BY <1>2 DEF Mark
<1>4. TypeOK'
  BY <1>1, <1>3 DEF EngineInv, TypeOK, intent
<1>5. \A b \in Actors : ActorOK(b)'
  BY <1>1 DEF EngineInv, ActorOK
<1>6. pidFile \in Gens /\ ~(pidFile \in Alive') /\ Alive' \subseteq Alive
  BY <1>2 DEF EngineInv, TypeOK, Alive
<1>7. \A b \in Actors : act[b].pc \notin {"spawn", "pid", "grace", "dying", "hup"}
  BY Distinct DEF EngineInv, HolderOK
<1>8. \A b \in Actors : HolderOK(b)'
  <2>1. HolderOK(a)'
    BY <1>1, <1>2, <1>6 DEF HolderOK
  <2>2. ASSUME NEW b \in Actors, b # a PROVE HolderOK(b)'
    BY <1>1, <1>7, <2>2 DEF HolderOK
  <2> QED BY <2>1, <2>2
<1>9. ASSUME NEW h \in Gens PROVE MonitorOK(h)'
  <2>1. MonitorOK(h)
    BY <1>9 DEF EngineInv
  <2>2. /\ gen'[h].up = gen[h].up /\ gen'[h].mon = gen[h].mon
        /\ gen'[h].crashed = gen[h].crashed /\ gen'[h].verdict = gen[h].verdict
        /\ gen'[h].signalled = (gen[h].signalled \/ h = pidFile)
        /\ gen'[h].deliberate = (gen[h].deliberate \/ h = curGen)
    BY <1>2, <1>9
  <2> QED BY <2>1, <2>2 DEF MonitorOK
<1>10. BudgetOK'
  <2>1. a = Watchdog => ~Unsettled \/ (x.tok = act[a].tok /\ x.then = "failed")
    BY DEF Unsettled, Starting
  <2> QED BY <2>1, TokenKept
<1>11. NamedAlive' /\ SpareIsNamed' /\ StopPending'
  <2>1. NamedAlive'
    BY <1>1, <1>6, <1>7 DEF EngineInv, NamedAlive
  <2>2. SpareIsNamed'
    <3>1. act'[Watchdog] = act[Watchdog] \/ act'[Watchdog].pc = "dying"
      BY <1>1, Distinct
    <3> QED BY <1>6, <3>1 DEF EngineInv, SpareIsNamed
  <2>3. StopPending'
    BY <1>6 DEF StopPending
  <2> QED BY <2>1, <2>2, <2>3
<1>12. StopAlone' /\ NoStart' /\ DiskFollows'
  BY IntentStays
<1> QED BY <1>4, <1>5, <1>8, <1>9, <1>10, <1>11, <1>12 DEF EngineInv

LEMMA LockStopKeeps == ASSUME EngineInv, NEW a \in Actors, LockStop(a) PROVE EngineInv'
<1>1. /\ act[a].pc = "lockstop" /\ startMu = NoOne
      /\ UNCHANGED <<pidFile, curGen, swept, raced, intent, attempts, paused, real>>
  BY DEF LockStop, At, backoff
<1>2. ActorOK(a)
  BY DEF EngineInv
<1>3. CASE pidFile = 0
  <2>1. act' = AfterStop(a) /\ UNCHANGED <<gen, startMu>>
    BY <1>3 DEF LockStop
  <2>2. PICK x \in Activity :
            /\ act' = [act EXCEPT ![a] = x] /\ x.pc \in {"idle", "failed", "lockstart", "spawn"}
            /\ x.pc = "spawn" <=> act[a].then = "spawn"
            /\ a = Watchdog \/ x.op = act[a].op \/ x = Idle
            /\ a = Watchdog => ~Unsettled \/ (x.tok = act[a].tok /\ x.pc = "failed")
            /\ ActorOK(a)' /\ (x.pc # "spawn" => HolderOK(a)')
    BY <1>1, <2>1, AfterStopMoves
  <2>3. HolderOK(a)'
    BY <1>1, <1>2, <2>2 DEF ActorOK
  <2>4. BudgetOK' /\ attempts' \in SUBSET (1 .. Budget) /\ real' \in SUBSET (1 .. Budget) /\ paused' \in BOOLEAN
    BY <1>1, <2>2, TokenKept
  <2>5. pidFile \notin Alive
    BY <1>3, Distinct DEF Alive
  <2> QED BY <1>1, <2>1, <2>2, <2>3, <2>4, <2>5, ControlStep
<1>4. CASE pidFile # 0
  <2>1. /\ Mark(pidFile) /\ startMu' = a
        /\ act' = [act EXCEPT ![a].pc = "dying", ![a].g = pidFile]
    BY <1>4 DEF LockStop
  <2>2. pidFile \in {0} \cup Gens /\ "dying" \in Pcs
    BY DEF EngineInv, TypeOK, Pcs
  <2> DEFINE x == [act[a] EXCEPT !.pc = "dying", !.g = pidFile]
  <2>3. act[a] \in Activity /\ act' = [act EXCEPT ![a] = x]
    BY <2>1 DEF EngineInv, TypeOK
  <2>4. /\ x \in Activity /\ x.pc = "dying" /\ x.op = act[a].op /\ x.g = pidFile /\ x.tok = act[a].tok
        /\ x.then = act[a].then
    BY <2>2, <2>3 DEF Activity
  <2> HIDE DEF x
  <2>5. ActorOK(a)'
    BY <1>1, <1>2, <2>3, <2>4, MovedTo DEF ActorOK, Starting
  <2> QED BY <1>1, <1>4, <2>1, <2>3, <2>4, <2>5, MarkedKeeps
<1> QED BY <1>3, <1>4

(* Process.Reload. *)
LEMMA LockReloadKeeps == ASSUME EngineInv, NEW a \in Actors, LockReload(a) PROVE EngineInv'
<1>1. /\ act[a].pc = "lockreload" /\ startMu = NoOne /\ startMu' = a
      /\ UNCHANGED <<pidFile, curGen, swept, raced, intent, attempts, paused, real>>
  BY DEF LockReload, At, backoff
<1>2. ActorOK(a) /\ pidFile \in {0} \cup Gens
  BY DEF EngineInv, TypeOK
<1>3. a # Watchdog /\ act[a].op \notin {"stop", "quiesce"} /\ ~PendingBy(a)
  BY <1>1, <1>2 DEF ActorOK, PendingBy, Starting
<1>4. {"spawn", "hup", "dying"} \subseteq Pcs /\ "spawn" \in Nexts
  BY DEF Pcs, Nexts
<1>5. CASE pidFile = 0 /\ act' = Goto(a, "spawn") /\ UNCHANGED gen
  <2>1. PICK x \in Activity : /\ x.pc = "spawn" /\ x.op = act[a].op /\ x.then = act[a].then
                              /\ act' = [act EXCEPT ![a] = x]
    BY <1>4, <1>5, GotoIs
  <2>2. ActorOK(a)' /\ HolderOK(a)'
    BY <1>1, <1>2, <1>3, <1>5, <2>1, MovedTo DEF ActorOK, HolderOK, IsRunning
  <2>3. BudgetOK' /\ attempts' \in SUBSET (1 .. Budget) /\ real' \in SUBSET (1 .. Budget) /\ paused' \in BOOLEAN
    BY <1>1, <1>3, <2>1, TokenKept
  <2> QED BY <1>1, <1>3, <1>5, <2>1, <2>2, <2>3, ControlStep
<1>6. CASE IsRunning /\ act' = [act EXCEPT ![a].pc = "hup", ![a].g = pidFile] /\ UNCHANGED gen
  <2> DEFINE x == [act[a] EXCEPT !.pc = "hup", !.g = pidFile]
  <2>1. act[a] \in Activity /\ act' = [act EXCEPT ![a] = x]
    BY <1>6 DEF EngineInv, TypeOK
  <2>2. x \in Activity /\ x.pc = "hup" /\ x.op = act[a].op /\ x.g = pidFile /\ x.then = act[a].then
    BY <1>2, <1>4, <2>1 DEF Activity
  <2> HIDE DEF x
  <2>3. ActorOK(a)' /\ HolderOK(a)'
    BY <1>1, <1>2, <1>3, <1>6, <2>1, <2>2, MovedTo DEF ActorOK, HolderOK, IsRunning
  <2>4. BudgetOK' /\ attempts' \in SUBSET (1 .. Budget) /\ real' \in SUBSET (1 .. Budget) /\ paused' \in BOOLEAN
    BY <1>1, <1>3, <2>1, <2>2, TokenKept
  <2> QED BY <1>1, <1>3, <1>6, <2>1, <2>2, <2>3, <2>4, ControlStep
<1>7. CASE /\ pidFile # 0 /\ Mark(pidFile)
           /\ act' = [act EXCEPT ![a].pc = "dying", ![a].g = pidFile, ![a].then = "spawn"]
  <2> DEFINE x == [act[a] EXCEPT !.pc = "dying", !.g = pidFile, !.then = "spawn"]
  <2>1. act[a] \in Activity /\ act' = [act EXCEPT ![a] = x]
    BY <1>7 DEF EngineInv, TypeOK
  <2>2. x \in Activity /\ x.pc = "dying" /\ x.op = act[a].op /\ x.g = pidFile /\ x.then = "spawn"
    BY <1>2, <1>4, <2>1 DEF Activity
  <2> HIDE DEF x
  <2>3. ActorOK(a)'
    BY <1>2, <1>3, <2>1, <2>2, MovedTo DEF ActorOK
  <2> QED BY <1>1, <1>3, <1>7, <2>1, <2>2, <2>3, MarkedKeeps
<1> QED BY <1>5, <1>6, <1>7 DEF LockReload

LEMMA AfterHupKeeps == ASSUME EngineInv, NEW a \in Actors, AfterHup(a) PROVE EngineInv'
<1>1. /\ act[a].pc = "hup"
      /\ UNCHANGED <<gen, pidFile, curGen, swept, raced, intent, attempts, paused, real>>
  BY DEF AfterHup, At, backoff
<1>2. ActorOK(a) /\ startMu = a /\ act[a].g \in Gens /\ pidFile \in {0, act[a].g}
  BY <1>1 DEF EngineInv, HolderOK
<1>3. a # Watchdog /\ act[a].op \notin {"stop", "quiesce"} /\ ~PendingBy(a)
  BY <1>1, <1>2 DEF ActorOK, PendingBy, Starting
<1>4. CASE gen[act[a].g].up
  <2>1. act' = [act EXCEPT ![a] = Idle] /\ startMu' = NoOne
    BY <1>4 DEF AfterHup, Done
  <2>2. ActorOK(a)' /\ HolderOK(a)'
    BY <1>3, <2>1, MovedTo, Blank DEF ActorOK, HolderOK
  <2>3. BudgetOK' /\ attempts' \in SUBSET (1 .. Budget) /\ real' \in SUBSET (1 .. Budget) /\ paused' \in BOOLEAN
    BY <1>1, <1>3, <2>1, TokenKept, Blank
  <2> QED BY <1>1, <1>2, <1>3, <2>1, <2>2, <2>3, ControlStep, Blank
<1>5. CASE ~gen[act[a].g].up
  <2>1. act' = Goto(a, "spawn") /\ startMu' = startMu /\ "spawn" \in Pcs
    BY <1>5 DEF AfterHup, Pcs
  <2>2. PICK x \in Activity : /\ x.pc = "spawn" /\ x.op = act[a].op /\ x.then = act[a].then
                              /\ act' = [act EXCEPT ![a] = x]
    BY <2>1, GotoIs
  <2>3. ActorOK(a)'
    BY <1>1, <1>2, <1>3, <2>2, MovedTo DEF ActorOK
  <2>4. HolderOK(a)'
    BY <1>1, <1>2, <1>5, <2>1, <2>2, MovedTo DEF HolderOK, IsRunning
  <2>5. BudgetOK' /\ attempts' \in SUBSET (1 .. Budget) /\ real' \in SUBSET (1 .. Budget) /\ paused' \in BOOLEAN
    BY <1>1, <1>3, <2>2, TokenKept
  <2> QED BY <1>1, <1>2, <1>3, <2>1, <2>2, <2>3, <2>4, <2>5, ControlStep
<1> QED BY <1>4, <1>5

(* stopLocked ends: no engine that lives is left without its name. *)
LEMMA StoppedKeeps == ASSUME EngineInv, NEW a \in Actors, Stopped(a) PROVE EngineInv'
<1>1. /\ act[a].pc = "dying" /\ act' = AfterStop(a) /\ pidFile' = 0
      /\ startMu' = IF act[a].then = "spawn" THEN a ELSE NoOne
      /\ UNCHANGED <<gen, curGen, swept, raced, intent, attempts, paused, real>>
  BY DEF Stopped, At, backoff
<1>2. /\ startMu = a /\ act[a].g \in Gens /\ pidFile \in {0, act[a].g}
      /\ ~gen[act[a].g].up \/ gen[act[a].g].signalled
  BY <1>1 DEF EngineInv, HolderOK
<1>3. PICK x \in Activity :
         /\ act' = [act EXCEPT ![a] = x] /\ x.pc \in {"idle", "failed", "lockstart", "spawn"}
         /\ x.pc = "spawn" <=> act[a].then = "spawn"
         /\ a = Watchdog \/ x.op = act[a].op \/ x = Idle
         /\ a = Watchdog => ~Unsettled \/ (x.tok = act[a].tok /\ x.pc = "failed")
         /\ ActorOK(a)' /\ (x.pc # "spawn" => HolderOK(a)')
  BY <1>1, AfterStopMoves
<1>4. act' \in [Actors -> Activity] /\ act'[a] = x /\ \A b \in Actors \ {a} : act'[b] = act[b]
  BY <1>3, MovedTo
<1>5. TypeOK'
  BY <1>1, <1>4 DEF EngineInv, TypeOK, intent
<1>6. \A b \in Actors : ActorOK(b)'
  BY <1>3, <1>4 DEF EngineInv, ActorOK
<1>7. \A b \in Actors : b # a => act[b].pc \notin {"spawn", "pid", "grace", "dying", "hup"}
  BY <1>2 DEF EngineInv, HolderOK
<1>8. \A b \in Actors : HolderOK(b)'
  <2>1. HolderOK(a)'
    BY <1>1, <1>3, <1>4 DEF HolderOK, IsRunning
  <2>2. ASSUME NEW b \in Actors, b # a PROVE HolderOK(b)'
    BY <1>4, <1>7, <2>2 DEF HolderOK
  <2> QED BY <2>1, <2>2
<1>9. \A g \in Gens : MonitorOK(g)'
  BY <1>1, Distinct DEF EngineInv, MonitorOK
<1>10. BudgetOK'
  BY <1>1, <1>3, TokenKept
<1>11. Alive' = Alive /\ pidFile \notin Alive /\ 0 \notin Alive
  BY <1>1, <1>2, Distinct DEF Alive
<1>12. NamedAlive'
  <2>1. \A b \in Actors : act[b].pc # "pid"
    BY <1>1, <1>7
  <2> QED BY <1>1, <1>11, <2>1 DEF EngineInv, NamedAlive
<1>13. SpareIsNamed'
  <2>1. act'[Watchdog] = act[Watchdog] \/ act'[Watchdog].pc # "kill"
    BY <1>3, <1>4, Distinct
  <2> QED BY <1>1, <1>11, <2>1 DEF EngineInv, SpareIsNamed
<1>14. StopPending'
  BY <1>1, <1>11 DEF StopPending
<1>15. StopAlone' /\ NoStart' /\ DiskFollows'
  BY <1>1, <1>3, IntentStays
<1> QED BY <1>5, <1>6, <1>8, <1>9, <1>10, <1>12, <1>13, <1>14, <1>15 DEF EngineInv

(* startLocked. *)

LEMMA SpawnKeeps == ASSUME EngineInv, NEW a \in Actors, Spawn(a) PROVE EngineInv'
<1>1. /\ act[a].pc = "spawn"
      /\ UNCHANGED <<pidFile, curGen, startMu, intent, attempts, paused, real, swept, raced>>
  BY DEF Spawn, At, backoff
<1>2. PICK g \in Unused : /\ gen' = [gen EXCEPT ![g] = [NoGen EXCEPT !.up = TRUE]]
                          /\ act' = [act EXCEPT ![a].pc = "pid", ![a].g = g]
  BY DEF Spawn
<1>3. /\ g \in Gens /\ g # pidFile /\ \A b \in Actors : act[b].g # g
  BY DEF Unused
<1>4. ActorOK(a) /\ startMu = a /\ ~IsRunning /\ ~PendingBy(a)
  BY <1>1 DEF EngineInv, HolderOK, ActorOK, PendingBy
<1> DEFINE x == [act[a] EXCEPT !.pc = "pid", !.g = g]
           y == [NoGen EXCEPT !.up = TRUE]
<1>5. act[a] \in Activity /\ act' = [act EXCEPT ![a] = x] /\ "pid" \in Pcs
  BY <1>2 DEF EngineInv, TypeOK, Pcs
<1>6. x \in Activity /\ x.pc = "pid" /\ x.op = act[a].op /\ x.g = g /\ x.tok = act[a].tok /\ x.then = act[a].then
  BY <1>3, <1>5 DEF Activity
<1>7. y \in Generation /\ ~y.signalled /\ y.mon = "none" /\ gen' = [gen EXCEPT ![g] = y]
  BY <1>2, Blank DEF Generation
<1> HIDE DEF x, y
<1>8. gen' \in [Gens -> Generation] /\ gen'[g] = y /\ \A h \in Gens \ {g} : gen'[h] = gen[h]
  BY <1>3, <1>7 DEF EngineInv, TypeOK
<1>9. act' \in [Actors -> Activity] /\ act'[a] = x /\ \A b \in Actors \ {a} : act'[b] = act[b]
  BY <1>5, <1>6, MovedTo
<1>10. TypeOK'
  BY <1>1, <1>8, <1>9 DEF EngineInv, TypeOK, intent
<1>11. \A b \in Actors : ActorOK(b)'
  <2>1. ActorOK(a)'
    BY <1>1, <1>4, <1>6, <1>9 DEF ActorOK, Starting
  <2> QED BY <1>9, <2>1 DEF EngineInv, ActorOK
<1>12. \A b \in Actors : b # a => act[b].pc \notin {"spawn", "pid", "grace", "dying", "hup"}
  BY <1>4 DEF EngineInv, HolderOK
<1>13. ~IsRunning'
  BY <1>1, <1>3, <1>4, <1>8 DEF IsRunning, EngineInv, TypeOK
<1>14. \A b \in Actors : HolderOK(b)'
  <2>1. HolderOK(a)'
    BY <1>1, <1>3, <1>4, <1>6, <1>7, <1>8, <1>9, <1>13 DEF HolderOK
  <2>2. ASSUME NEW b \in Actors, b # a PROVE HolderOK(b)'
    BY <1>9, <1>12, <2>2 DEF HolderOK
  <2> QED BY <2>1, <2>2
<1>15. \A h \in Gens : MonitorOK(h)'
  BY <1>1, <1>7, <1>8 DEF EngineInv, MonitorOK
<1>16. BudgetOK'
  BY <1>1, <1>5, <1>6, TokenKept DEF Starting
<1>17. Alive' \subseteq Alive \cup {g}
  BY <1>8 DEF Alive
<1>18. NamedAlive'
  BY <1>1, <1>6, <1>9, <1>17 DEF EngineInv, NamedAlive
<1>19. SpareIsNamed'
  <2>1. \/ act'[Watchdog] = act[Watchdog] /\ act[Watchdog].g # g
        \/ act'[Watchdog].pc # "kill"
    BY <1>3, <1>6, <1>9, Distinct
  <2> QED BY <1>1, <1>17, <2>1 DEF EngineInv, SpareIsNamed
<1>20. StopPending'
  <2> SUFFICES ASSUME stopped, ~crossed, ~raced, pidFile \in Alive' PROVE Pending'
    BY <1>1 DEF StopPending, intent
  <2>1. PICK b \in Actors : PendingBy(b)
    BY <1>3, <1>17 DEF EngineInv, StopPending, Pending
  <2>2. PendingBy(b)'
    BY <1>4, <1>9, <2>1 DEF PendingBy
  <2> QED BY <2>2 DEF Pending
<1>21. StopAlone' /\ NoStart' /\ DiskFollows'
  BY <1>1, <1>5, <1>6, IntentStays
<1> QED BY <1>10, <1>11, <1>14, <1>15, <1>16, <1>18, <1>19, <1>20, <1>21 DEF EngineInv

(* The start that a Stop may find under way is the watchdog's. *)
LEMMA WritePidKeeps == ASSUME EngineInv, NEW a \in Actors, WritePid(a) PROVE EngineInv'
<1>1. /\ act[a].pc = "pid" /\ pidFile' = act[a].g /\ curGen' = act[a].g /\ act' = Goto(a, "grace")
      /\ UNCHANGED <<gen, startMu, intent, attempts, paused, real, swept, raced>>
  BY DEF WritePid, At, backoff
<1>2. /\ ActorOK(a) /\ startMu = a /\ ~IsRunning /\ act[a].g \in Gens
      /\ gen[act[a].g].mon = "none" /\ ~gen[act[a].g].signalled
  BY <1>1 DEF EngineInv, HolderOK
<1>3. PICK x \in Activity : /\ x.pc = "grace" /\ x.op = act[a].op /\ x.g = act[a].g /\ x.tok = act[a].tok
                            /\ x.then = act[a].then /\ act' = [act EXCEPT ![a] = x]
  BY <1>1, GotoIs DEF Pcs
<1>4. act' \in [Actors -> Activity] /\ act'[a] = x /\ \A b \in Actors \ {a} : act'[b] = act[b]
  BY <1>3, MovedTo
<1>5. TypeOK'
  BY <1>1, <1>2, <1>4 DEF EngineInv, TypeOK, intent
<1>6. \A b \in Actors : ActorOK(b)'
  <2>1. ActorOK(a)'
    BY <1>1, <1>2, <1>3, <1>4 DEF ActorOK, Starting
  <2> QED BY <1>4, <2>1 DEF EngineInv, ActorOK
<1>7. \A b \in Actors : b # a => act[b].pc \notin {"spawn", "pid", "grace", "dying", "hup"}
  BY <1>2 DEF EngineInv, HolderOK
<1>8. \A b \in Actors : HolderOK(b)'
  <2>1. HolderOK(a)'
    BY <1>1, <1>2, <1>3, <1>4 DEF HolderOK
  <2>2. ASSUME NEW b \in Actors, b # a PROVE HolderOK(b)'
    BY <1>4, <1>7, <2>2 DEF HolderOK
  <2> QED BY <2>1, <2>2
<1>9. \A h \in Gens : MonitorOK(h)'
  BY <1>1, <1>2 DEF EngineInv, MonitorOK
<1>10. BudgetOK'
  BY <1>1, <1>3, TokenKept DEF Starting
<1>11. Alive' = Alive /\ pidFile \notin Alive
  BY <1>1, <1>2, Distinct DEF Alive, IsRunning
<1>12. NamedAlive'
  BY <1>1, <1>7, <1>11 DEF EngineInv, NamedAlive
<1>13. SpareIsNamed'
  <2>1. act'[Watchdog] = act[Watchdog] \/ act'[Watchdog].pc # "kill"
    BY <1>3, <1>4, Distinct
  <2> QED BY <1>1, <1>11, <2>1 DEF EngineInv, SpareIsNamed
<1>14. StopPending'
  <2> SUFFICES ASSUME stopped, ~crossed PROVE Pending'
    BY <1>1 DEF StopPending, intent
  <2>1. a \notin Users /\ a \notin Reloaders
    BY <1>1, <1>2 DEF EngineInv, NoStart, ActorOK
  <2>2. a = Watchdog
    BY <2>1, Distinct DEF Others
  <2> QED BY <1>3, <1>4, <2>2 DEF Pending, PendingBy
<1>15. StopAlone' /\ NoStart' /\ DiskFollows'
  BY <1>1, <1>3, IntentStays
<1> QED BY <1>5, <1>6, <1>8, <1>9, <1>10, <1>12, <1>13, <1>14, <1>15 DEF EngineInv

(* The start ends: the monitor takes over, or the process is awaited. *)
LEMMA StartEnds ==
  ASSUME EngineInv, NEW a \in Actors, act[a].pc \in {"pid", "grace"}, NEW res \in {"ok", "err"},
         NEW g \in Gens, g = act[a].g,
         act' = AfterStart(a, res), startMu' = NoOne,
         NEW y \in Generation, gen' = [gen EXCEPT ![g] = y],
         UNCHANGED <<curGen, intent, attempts, paused, real, swept, raced>>,
         pidFile' = pidFile \/ (pidFile' = 0 /\ pidFile = g),
         ~y.up \/ (act[a].pc = "grace" /\ y.up = gen[g].up /\ ~y.signalled /\ pidFile' = pidFile /\ res = "ok"),
         act[a].pc = "grace" /\ ~y.up => pidFile' = 0,
         MonitorOK(g)'
  PROVE  EngineInv'
<1>1. /\ ActorOK(a) /\ startMu = a /\ ~gen[g].signalled
      /\ act[a].pc = "pid" => pidFile # g
      /\ act[a].pc = "grace" => pidFile \in {0, g}
  BY DEF EngineInv, HolderOK
<1>3. gen' \in [Gens -> Generation] /\ gen'[g] = y /\ \A h \in Gens \ {g} : gen'[h] = gen[h]
  BY DEF EngineInv, TypeOK
<1>4. PICK x \in Activity :
         /\ act' = [act EXCEPT ![a] = x] /\ x.pc \in {"idle", "failed", "clash"}
         /\ a = Watchdog \/ x.op = act[a].op \/ x = Idle
         /\ a = Watchdog => /\ x.tok = act[a].tok /\ x.pc # "idle"
                            /\ res = "ok" => x.pc = "clash" /\ x.spawned
         /\ ActorOK(a)' /\ HolderOK(a)'
  BY AfterStartMoves DEF Starting
<1>5. act' \in [Actors -> Activity] /\ act'[a] = x /\ \A b \in Actors \ {a} : act'[b] = act[b]
  BY <1>4, MovedTo
<1>6. TypeOK'
  BY <1>3, <1>5 DEF EngineInv, TypeOK, intent
<1>7. \A b \in Actors : ActorOK(b)'
  BY <1>4, <1>5 DEF EngineInv, ActorOK
<1>8. \A b \in Actors : b # a => act[b].pc \notin {"spawn", "pid", "grace", "dying", "hup"}
  BY <1>1 DEF EngineInv, HolderOK
<1>9. \A b \in Actors : HolderOK(b)'
  <2>1. ASSUME NEW b \in Actors, b # a PROVE HolderOK(b)'
    BY <1>5, <1>8, <2>1 DEF HolderOK
  <2> QED BY <1>4, <2>1
<1>10. \A h \in Gens : MonitorOK(h)'
  <2>1. ASSUME NEW h \in Gens, h # g PROVE MonitorOK(h)'
    <3>1. MonitorOK(h) /\ gen'[h] = gen[h] /\ (pidFile' = h => pidFile = h)
      BY <1>3, <2>1, Distinct DEF EngineInv
    <3> QED BY <3>1 DEF MonitorOK
  <2> QED BY <2>1
<1>11. BudgetOK'
  BY <1>4, TokenKept DEF Starting
<1>12. /\ Alive' \subseteq Alive /\ (~y.up => g \notin Alive')
       /\ \A h \in Alive' : h = pidFile => h = pidFile'
  <2>1. \A h \in Gens : gen'[h].up /\ ~gen'[h].signalled => gen[h].up /\ ~gen[h].signalled
    BY <1>1, <1>3
  <2>2. ~y.up => ~gen'[g].up
    BY <1>3
  <2>3. Alive' \subseteq Alive /\ (~y.up => g \notin Alive')
    BY <2>1, <2>2 DEF Alive
  <2>4. ASSUME NEW h \in Alive', h = pidFile PROVE h = pidFile'
    <3>1. CASE pidFile' = pidFile
      BY <2>4, <3>1
    <3>2. CASE pidFile' = 0 /\ pidFile = g /\ pidFile' # pidFile
      BY <1>1, <2>3, <2>4, <3>2
    <3> QED BY <3>1, <3>2
  <2> QED BY <2>3, <2>4
<1>13. NamedAlive'
  <2> SUFFICES ASSUME swept, ~raced, NEW h \in Alive' PROVE h = pidFile'
    BY DEF NamedAlive
  <2>1. h = pidFile \/ \E b \in Actors : act[b].pc = "pid" /\ act[b].g = h
    BY <1>12 DEF EngineInv, NamedAlive
  <2>2. CASE h = pidFile
    BY <1>12, <2>2
  <2>3. CASE \E b \in Actors : act[b].pc = "pid" /\ act[b].g = h
    <3>1. act[a].pc = "pid" /\ h = g
      BY <1>8, <2>3
    <3> QED BY <1>12, <3>1
  <2> QED BY <2>1, <2>2, <2>3
<1>14. SpareIsNamed'
  <2>1. act'[Watchdog] = act[Watchdog] \/ act'[Watchdog].pc # "kill"
    BY <1>4, <1>5, Distinct
  <2> QED BY <1>12, <2>1 DEF EngineInv, SpareIsNamed
<1>15. StopPending'
  <2> SUFFICES ASSUME stopped, ~crossed, ~raced, pidFile' \in Alive' PROVE Pending'
    BY DEF StopPending, intent
  <2>1. pidFile' = pidFile /\ pidFile \in Alive
    BY <1>12, Distinct DEF Alive
  <2>2. PICK b \in Actors : PendingBy(b)
    BY <2>1 DEF EngineInv, StopPending, Pending
  <2>3. CASE b # a
    BY <1>5, <2>2, <2>3 DEF Pending, PendingBy
  <2>4. CASE b = a
    <3>1. a = Watchdog /\ act[a].pc = "grace"
      BY <1>1, <2>2, <2>4 DEF PendingBy, ActorOK
    <3>2. y.up
      <4>1. pidFile' # 0
        BY <2>1, Distinct DEF Alive
      <4> QED BY <3>1, <4>1
    <3>3. x.pc = "clash" /\ x.spawned
      BY <1>4, <3>1, <3>2
    <3> QED BY <1>5, <3>1, <3>3 DEF Pending, PendingBy
  <2> QED BY <2>3, <2>4
<1>16. StopAlone' /\ NoStart' /\ DiskFollows'
  BY <1>4, IntentStays
<1> QED BY <1>6, <1>7, <1>9, <1>10, <1>11, <1>13, <1>14, <1>15, <1>16 DEF EngineInv

LEMMA GraceKeeps == ASSUME EngineInv, NEW a \in Actors, Grace(a) PROVE EngineInv'
<1>1. /\ act[a].pc = "grace" /\ startMu' = NoOne
      /\ UNCHANGED <<curGen, intent, attempts, paused, real, swept, raced>>
  BY DEF Grace, At, backoff
<1>2. PICK g \in Gens : /\ g = act[a].g /\ gen[g] \in Generation /\ ~gen[g].signalled /\ curGen = g
                        /\ pidFile \in {0, g}
  BY <1>1 DEF EngineInv, HolderOK, TypeOK
<1>3. CASE gen[g].up
  <2> DEFINE y == [gen[g] EXCEPT !.mon = "armed"]
  <2>1. gen' = [gen EXCEPT ![g] = y] /\ act' = AfterStart(a, "ok") /\ UNCHANGED pidFile
    BY <1>2, <1>3 DEF Grace
  <2>2. y \in Generation /\ y.up = gen[g].up /\ ~y.signalled /\ y.mon = "armed"
    BY <1>2 DEF Generation
  <2>3. gen'[g] = y
    BY <2>1 DEF EngineInv, TypeOK
  <2> HIDE DEF y
  <2>4. MonitorOK(g)'
    BY <1>1, <1>2, <1>3, <2>2, <2>3 DEF MonitorOK
  <2> QED BY <1>1, <1>2, <1>3, <2>1, <2>2, <2>4, StartEnds
<1>4. CASE ~gen[g].up
  <2>1. /\ gen' = [gen EXCEPT ![g] = NoGen] /\ act' = AfterStart(a, "err")
        /\ pidFile' = IF pidFile = g THEN 0 ELSE pidFile
    BY <1>2, <1>4 DEF Grace
  <2>2. gen'[g] = NoGen
    BY <2>1 DEF EngineInv, TypeOK
  <2>3. MonitorOK(g)'
    BY <2>2, Blank DEF MonitorOK
  <2>4. pidFile' = 0 /\ (pidFile' = pidFile \/ (pidFile' = 0 /\ pidFile = g))
    BY <1>2, <2>1
  <2> QED BY <1>1, <1>2, <2>1, <2>3, <2>4, Blank, StartEnds
<1> QED BY <1>3, <1>4

LEMMA WritePidFailKeeps == ASSUME EngineInv, NEW a \in Actors, WritePidFail(a) PROVE EngineInv'
<1>1. /\ act[a].pc = "pid" /\ startMu' = NoOne /\ act' = AfterStart(a, "err")
      /\ gen' = [gen EXCEPT ![act[a].g].up = FALSE]
      /\ UNCHANGED <<pidFile, curGen, intent, attempts, paused, real, swept, raced>>
  BY DEF WritePidFail, At, backoff
<1>2. PICK g \in Gens : /\ g = act[a].g /\ gen[g] \in Generation /\ gen[g].mon = "none"
  BY <1>1 DEF EngineInv, HolderOK, TypeOK
<1> DEFINE y == [gen[g] EXCEPT !.up = FALSE]
<1>3. gen' = [gen EXCEPT ![g] = y]
  BY <1>1, <1>2 DEF EngineInv, TypeOK
<1>4. y \in Generation /\ ~y.up /\ y.mon = "none"
  BY <1>2 DEF Generation
<1>5. gen'[g] = y
  BY <1>3 DEF EngineInv, TypeOK
<1> HIDE DEF y
<1>6. MonitorOK(g)'
  BY <1>4, <1>5 DEF MonitorOK
<1> QED BY <1>1, <1>2, <1>3, <1>4, <1>6, StartEnds

(* startAndWait and autoRestartIfCrashed after the start. *)

LEMMA ClashReadyKeeps == ASSUME EngineInv, NEW a \in Actors, ClashReady(a) PROVE EngineInv'
<1>1. /\ act[a].pc = "clash"
      /\ UNCHANGED <<gen, pidFile, curGen, startMu, intent, paused, swept, raced>>
  BY DEF ClashReady, At
<1>2. ActorOK(a) /\ act[a].op \notin {"stop", "quiesce"}
  BY <1>1 DEF EngineInv, ActorOK
<1>3. /\ attempts \in SUBSET (1 .. Budget) /\ real \in SUBSET (1 .. Budget) /\ paused' \in BOOLEAN
      /\ attempts \subseteq real \cup {act[Watchdog].tok}
  BY <1>1 DEF EngineInv, TypeOK, BudgetOK
<1>4. CASE act' = Done(a) /\ (a # Watchdog \/ ~act[a].spawned)
  <2>1. act' = [act EXCEPT ![a] = Idle] /\ act'[a] = Idle
    BY <1>4, Blank, MovedTo DEF Done
  <2>2. ActorOK(a)' /\ HolderOK(a)'
    BY <2>1, Blank DEF ActorOK, HolderOK, Starting
  <2>3. ~PendingBy(a)
    BY <1>1, <1>4 DEF PendingBy
  <2>4. BudgetOK' /\ attempts' \in SUBSET (1 .. Budget) /\ real' \in SUBSET (1 .. Budget)
    <3>1. CASE a # Watchdog
      <4>1. UNCHANGED <<attempts, real>>
        BY <1>1, <1>2, <3>1 DEF ClashReady, ActorOK
      <4>2. act'[Watchdog] = act[Watchdog]
        BY <2>1, <3>1, Blank, MovedTo, Distinct
      <4> QED BY <1>3, <4>1, <4>2, BudgetStays
    <3>2. CASE a = Watchdog
      <4>1. attempts' = attempts \ {act[a].tok} /\ UNCHANGED real
        BY <1>1, <1>2, <1>4, <3>2 DEF ClashReady, Settle, ActorOK, Starting
      <4> QED BY <1>3, <3>2, <4>1 DEF BudgetOK
    <3> QED BY <3>1, <3>2
  <2> QED BY <1>1, <1>3, <2>1, <2>2, <2>3, <2>4, Blank, ControlStep
<1>5. CASE act' = Goto(a, "recheck") /\ a = Watchdog /\ act[a].spawned
  <2>1. PICK x \in Activity : /\ x.pc = "recheck" /\ x.op = act[a].op /\ x.tok = act[a].tok
                              /\ x.then = act[a].then /\ act' = [act EXCEPT ![a] = x]
    BY <1>5, GotoIs DEF Pcs
  <2>2. act'[a] = x
    BY <2>1, MovedTo
  <2>3. ActorOK(a)' /\ HolderOK(a)'
    BY <1>1, <1>2, <1>5, <2>1, <2>2 DEF ActorOK, HolderOK, Starting
  <2>4. PendingBy(a)'
    BY <1>5, <2>1, <2>2 DEF PendingBy
  <2>5. real' = attempts \cap (real \cup {act[a].tok}) /\ UNCHANGED attempts
    BY <1>1, <1>2, <1>5 DEF ClashReady, Settle, ActorOK, Starting
  <2>6. BudgetOK' /\ attempts' \in SUBSET (1 .. Budget) /\ real' \in SUBSET (1 .. Budget)
    BY <1>3, <1>5, <2>5 DEF BudgetOK
  <2> QED BY <1>1, <1>3, <1>5, <2>1, <2>3, <2>4, <2>6, ControlStep
<1>6. \/ act' = Done(a) /\ (a # Watchdog \/ ~act[a].spawned)
      \/ act' = Goto(a, "recheck") /\ a = Watchdog /\ act[a].spawned
  BY <1>1, <1>2 DEF ClashReady, ActorOK, Starting
<1> QED BY <1>4, <1>5, <1>6

LEMMA ClashFailKeeps == ASSUME EngineInv, NEW a \in Actors, ClashFail(a) PROVE EngineInv'
<1>1. /\ act[a].pc = "clash"
      /\ UNCHANGED <<gen, pidFile, curGen, startMu, intent, attempts, paused, real, swept, raced>>
  BY DEF ClashFail, At, backoff
<1>2. ActorOK(a) /\ act[a].op \notin {"stop", "quiesce"}
  BY <1>1 DEF EngineInv, ActorOK
<1>3. PICK n \in {"failed", "done"} : (n = "failed" <=> act[a].op = "auto") /\ act' = StopThen(a, n)
  BY DEF ClashFail
<1>4. PICK x \in Activity : /\ x.pc = "lockstop" /\ x.op = act[a].op /\ x.tok = act[a].tok /\ x.then = n
                            /\ act' = [act EXCEPT ![a] = x]
  BY <1>3, StopThenIs DEF Nexts
<1>5. act'[a] = x
  BY <1>4, MovedTo
<1>6. ActorOK(a)' /\ HolderOK(a)'
  BY <1>1, <1>2, <1>3, <1>4, <1>5 DEF ActorOK, HolderOK, Starting
<1>7. PendingBy(a)'
  BY <1>4, <1>5 DEF PendingBy
<1>8. a = Watchdog => x.then = "failed"
  BY <1>1, <1>2, <1>3, <1>4 DEF ActorOK, Starting
<1>9. BudgetOK' /\ attempts' \in SUBSET (1 .. Budget) /\ real' \in SUBSET (1 .. Budget) /\ paused' \in BOOLEAN
  BY <1>1, <1>4, <1>8, TokenKept
<1> QED BY <1>1, <1>4, <1>6, <1>7, <1>9, ControlStep

LEMMA AutoFailedKeeps == ASSUME EngineInv, NEW a \in Actors, AutoFailed(a) PROVE EngineInv'
<1>1. /\ act[a].pc = "failed" /\ act' = [act EXCEPT ![a] = Idle]
      /\ real' = attempts \cap (real \cup {act[a].tok})
      /\ UNCHANGED <<gen, pidFile, curGen, startMu, intent, attempts, paused, swept, raced>>
  BY DEF AutoFailed, At, Done
<1>2. a = Watchdog
  BY <1>1 DEF EngineInv, ActorOK
<1>3. act'[a] = Idle
  BY <1>1, Blank, MovedTo
<1>4. ActorOK(a)' /\ HolderOK(a)'
  BY <1>3, Blank DEF ActorOK, HolderOK, Starting
<1>5. ~PendingBy(a)
  BY <1>1 DEF PendingBy
<1>6. /\ attempts \in SUBSET (1 .. Budget) /\ real \in SUBSET (1 .. Budget) /\ paused' \in BOOLEAN
      /\ attempts \subseteq real \cup {act[Watchdog].tok}
  BY <1>1 DEF EngineInv, TypeOK, BudgetOK
<1>7. BudgetOK' /\ attempts' \in SUBSET (1 .. Budget) /\ real' \in SUBSET (1 .. Budget)
  BY <1>1, <1>2, <1>6 DEF BudgetOK
<1> QED BY <1>1, <1>2, <1>4, <1>5, <1>6, <1>7, Blank, ControlStep

(* The restart looks at the intent again before it lets go of the engine. *)
LEMMA RecheckKeeps == ASSUME EngineInv, NEW a \in Actors, Recheck(a) PROVE EngineInv'
<1>1. /\ act[a].pc = "recheck"
      /\ UNCHANGED <<gen, pidFile, curGen, startMu, intent, attempts, paused, real, swept, raced>>
  BY DEF Recheck, At, backoff
<1>2. ActorOK(a) /\ act[a].op \notin {"stop", "quiesce"} /\ (a = Watchdog => ~Unsettled)
  BY <1>1 DEF EngineInv, ActorOK, Unsettled, Starting
<1>3. CASE stopped
  <2>1. act' = StopThen(a, "done")
    BY <1>3 DEF Recheck
  <2>2. PICK x \in Activity : /\ x.pc = "lockstop" /\ x.op = act[a].op /\ x.then = "done"
                              /\ act' = [act EXCEPT ![a] = x]
    BY <2>1, StopThenIs DEF Nexts
  <2>3. act'[a] = x
    BY <2>2, MovedTo
  <2>4. ActorOK(a)' /\ HolderOK(a)'
    BY <1>1, <1>2, <2>2, <2>3 DEF ActorOK, HolderOK, Starting
  <2>5. PendingBy(a)'
    BY <2>2, <2>3 DEF PendingBy
  <2>6. BudgetOK' /\ attempts' \in SUBSET (1 .. Budget) /\ real' \in SUBSET (1 .. Budget) /\ paused' \in BOOLEAN
    BY <1>1, <1>2, <2>2, TokenKept
  <2> QED BY <1>1, <2>2, <2>4, <2>5, <2>6, ControlStep
<1>4. CASE ~stopped
  <2>1. act' = [act EXCEPT ![a] = Idle] /\ act'[a] = Idle
    BY <1>4, Blank, MovedTo DEF Recheck, Done
  <2>2. ActorOK(a)' /\ HolderOK(a)'
    BY <2>1, Blank DEF ActorOK, HolderOK, Starting
  <2>3. BudgetOK' /\ attempts' \in SUBSET (1 .. Budget) /\ real' \in SUBSET (1 .. Budget) /\ paused' \in BOOLEAN
    BY <1>1, <1>2, <2>1, Blank, TokenKept
  <2> QED BY <1>1, <1>4, <2>1, <2>2, <2>3, Blank, ControlStep
<1> QED BY <1>3, <1>4

(* The watchdog. *)

LEMMA WatchdogMoves ==
  ASSUME EngineInv, NEW x \in Activity, act' = [act EXCEPT ![Watchdog] = x],
         act[Watchdog].pc \in {"idle", "sweep", "check", "allow"}, x.op \in {"none", "auto"},
         x.pc \in {"idle", "sweep", "kill", "check", "allow"}, x.tok = 0, x.then = "done", x.pc = "idle" => x = Idle,
         x.pc = "kill" => x.g \in {0, pidFile},
         UNCHANGED <<gen, pidFile, curGen, startMu, intent, attempts, real, swept, raced>>, paused' \in BOOLEAN
  PROVE  EngineInv'
<1>1. Watchdog \in Actors
  BY Distinct
<1>2. act'[Watchdog] = x
  BY <1>1, MovedTo
<1>3. ActorOK(Watchdog)' /\ HolderOK(Watchdog)'
  BY <1>2, Blank DEF ActorOK, HolderOK, Starting
<1>4. ~PendingBy(Watchdog)
  BY DEF PendingBy
<1>5. ~Unsettled
  BY <1>1 DEF Unsettled, Starting, EngineInv, ActorOK
<1>6. BudgetOK' /\ attempts' \in SUBSET (1 .. Budget) /\ real' \in SUBSET (1 .. Budget)
  BY <1>5, BudgetStays DEF EngineInv, TypeOK
<1> QED BY <1>1, <1>3, <1>4, <1>6, ControlStep

LEMMA WatchdogAtRest ==
  ASSUME EngineInv, act[Watchdog].pc \in {"idle", "sweep", "kill", "check", "allow"}
  PROVE  act[Watchdog].tok = 0 /\ act[Watchdog].op \in {"none", "auto"} /\ act[Watchdog].then = "done" /\ ~Unsettled /\ act[Watchdog] \in Activity
<1>1. ActorOK(Watchdog) /\ act[Watchdog] \in Activity
  BY Distinct DEF EngineInv, TypeOK
<1> QED BY <1>1, Blank DEF ActorOK, Unsettled, Starting

LEMMA TickKeeps == ASSUME EngineInv, Tick PROVE EngineInv'
<1>1. /\ act[Watchdog].pc = "idle"
      /\ UNCHANGED <<gen, pidFile, curGen, startMu, intent, attempts, paused, real, swept, raced>>
  BY DEF Tick, At, backoff
<1>2. PICK p \in {"check", "sweep"} : act' = Goto(Watchdog, p)
  BY DEF Tick
<1>3. PICK x \in Activity : /\ x.pc = p /\ x.op = act[Watchdog].op /\ x.tok = act[Watchdog].tok
                            /\ x.then = act[Watchdog].then /\ act' = [act EXCEPT ![Watchdog] = x]
  <2>1. p \in Pcs /\ Watchdog \in Actors
    BY Distinct DEF Pcs
  <2> QED BY <1>2, <2>1, GotoIs
<1> QED BY <1>1, <1>3, WatchdogAtRest, WatchdogMoves DEF EngineInv, TypeOK

LEMMA SweepReadKeeps == ASSUME EngineInv, SweepRead PROVE EngineInv'
<1>1. /\ act[Watchdog].pc = "sweep"
      /\ UNCHANGED <<gen, pidFile, curGen, startMu, intent, attempts, paused, real, swept, raced>>
  BY DEF SweepRead, At, backoff
<1>2. PICK h \in {0, pidFile} : act' = [act EXCEPT ![Watchdog].pc = "kill", ![Watchdog].g = h]
  BY DEF SweepRead
<1> DEFINE x == [act[Watchdog] EXCEPT !.pc = "kill", !.g = h]
<1>3. act[Watchdog] \in Activity /\ act' = [act EXCEPT ![Watchdog] = x] /\ h \in {0} \cup Gens
  BY <1>2, Distinct DEF EngineInv, TypeOK
<1>4. /\ x \in Activity /\ x.pc = "kill" /\ x.op = act[Watchdog].op /\ x.tok = act[Watchdog].tok
      /\ x.then = act[Watchdog].then /\ x.g = h
  BY <1>3 DEF Activity, Pcs
<1> HIDE DEF x
<1> QED BY <1>1, <1>3, <1>4, WatchdogAtRest, WatchdogMoves DEF EngineInv, TypeOK

(* The orphan sweep: what it spares is what the pid file names. *)
LEMMA SweepKillKeeps == ASSUME EngineInv, SweepKill PROVE EngineInv'
<1> DEFINE orphans == {g \in Gens : gen[g].up /\ g # act[Watchdog].g}
<1>0. /\ At(Watchdog, "kill") /\ swept' = TRUE
      /\ gen' = [g \in Gens |-> [gen[g] EXCEPT !.up = gen[g].up /\ g \notin orphans,
                                               !.crashed = gen[g].crashed \/ g \in orphans]]
      /\ act' = [act EXCEPT ![Watchdog] = [Idle EXCEPT !.pc = "check"]]
      /\ UNCHANGED <<pidFile, curGen, startMu, intent, backoff, raced>>
  BY Zenon DEF SweepKill
<1>1. /\ act[Watchdog].pc = "kill" /\ swept' = TRUE
      /\ UNCHANGED <<pidFile, curGen, startMu, intent, attempts, paused, real, raced>>
  BY <1>0 DEF At, backoff
<1>2. PICK w \in {0} \cup Gens : w = act[Watchdog].g
  BY Distinct DEF EngineInv, TypeOK, Activity
<1> DEFINE x == [Idle EXCEPT !.pc = "check"]
<1>3. act' = [act EXCEPT ![Watchdog] = x] /\ x \in Activity /\ x.pc = "check" /\ x.op = "none" /\ x.tok = 0 /\ x.then = "done"
  BY <1>0, Blank DEF Activity, Pcs
<1> HIDE DEF x, orphans
<1>4. /\ act' \in [Actors -> Activity] /\ act'[Watchdog] = x
      /\ \A b \in Actors \ {Watchdog} : act'[b] = act[b]
  BY <1>3, MovedTo, Distinct
<1>5. ASSUME NEW h \in Gens
      PROVE  /\ gen'[h] \in Generation /\ gen'[h].mon = gen[h].mon /\ gen'[h].signalled = gen[h].signalled
             /\ gen'[h].deliberate = gen[h].deliberate /\ gen'[h].verdict = gen[h].verdict
             /\ gen'[h].up = (gen[h].up /\ h = w) /\ (gen[h].crashed => gen'[h].crashed)
             /\ gen[h].up /\ ~gen'[h].up => gen'[h].crashed
  <2>1. PICK o \in BOOLEAN : o <=> h \in orphans
    OBVIOUS
  <2>4. o <=> gen[h].up /\ h # w
    BY <1>2, <2>1 DEF orphans
  <2>2. gen[h] \in Generation
    BY DEF EngineInv, TypeOK
  <2>3. gen'[h] = [gen[h] EXCEPT !.up = gen[h].up /\ ~o, !.crashed = gen[h].crashed \/ o]
    BY <1>0, <2>1
  <2> QED BY <2>2, <2>3, <2>4 DEF Generation
<1>6. gen' \in [Gens -> Generation]
  BY <1>0, <1>5
<1>7. TypeOK'
  BY <1>1, <1>4, <1>6 DEF EngineInv, TypeOK, intent
<1>8. \A b \in Actors : ActorOK(b)'
  <2>1. ActorOK(Watchdog)'
    BY <1>3, <1>4 DEF ActorOK, Starting
  <2>2. ASSUME NEW b \in Actors, b # Watchdog PROVE ActorOK(b)'
    BY <1>4, <2>2 DEF EngineInv, ActorOK
  <2> QED BY <2>1, <2>2
<1>9. \A b \in Actors : HolderOK(b)'
  <2>1. HolderOK(Watchdog)'
    BY <1>3, <1>4 DEF HolderOK
  <2>2. IsRunning' => IsRunning
    BY <1>1, <1>5 DEF IsRunning, EngineInv, TypeOK
  <2>3. ASSUME NEW b \in Actors, b # Watchdog PROVE HolderOK(b)'
    <3>1. act'[b] = act[b] /\ HolderOK(b)
      BY <1>4, <2>3 DEF EngineInv
    <3> QED BY <1>1, <1>5, <2>2, <3>1 DEF HolderOK
  <2> QED BY <2>1, <2>3
<1>10. ASSUME NEW h \in Gens PROVE MonitorOK(h)'
  <2>1. MonitorOK(h)
    BY DEF EngineInv
  <2> QED BY <1>1, <1>5, <2>1 DEF MonitorOK
<1>11. BudgetOK'
  <2>1. ~Unsettled
    BY <1>1, WatchdogAtRest
  <2> QED BY <1>1, <2>1, BudgetStays
<1>12. Alive' \subseteq Alive /\ Alive' \subseteq {w}
  BY <1>5 DEF Alive
<1>13. NamedAlive' /\ SpareIsNamed'
  BY <1>1, <1>2, <1>3, <1>4, <1>12 DEF EngineInv, NamedAlive, SpareIsNamed
<1>14. StopPending'
  <2> SUFFICES ASSUME stopped, ~crossed, ~raced, pidFile \in Alive' PROVE Pending'
    BY <1>1 DEF StopPending, intent
  <2>1. PICK b \in Actors : PendingBy(b)
    BY <1>12 DEF EngineInv, StopPending, Pending
  <2>2. b # Watchdog
    BY <1>1, <2>1 DEF PendingBy
  <2> QED BY <1>4, <2>1, <2>2 DEF Pending, PendingBy
<1>15. StopAlone' /\ NoStart' /\ DiskFollows'
  BY <1>1, <1>3, IntentStays, Distinct
<1> QED BY <1>7, <1>8, <1>9, <1>10, <1>11, <1>13, <1>14, <1>15 DEF EngineInv

LEMMA CheckKeeps == ASSUME EngineInv, Check PROVE EngineInv'
<1>1. /\ act[Watchdog].pc = "check"
      /\ UNCHANGED <<gen, pidFile, curGen, startMu, intent, attempts, paused, real, swept, raced>>
  BY DEF Check, At, backoff
<1>2. CASE act' = Done(Watchdog)
  BY <1>1, <1>2, Blank, WatchdogMoves DEF EngineInv, TypeOK, Done
<1>3. CASE act' = Goto(Watchdog, "allow")
  <2>1. PICK x \in Activity : /\ x.pc = "allow" /\ x.op = act[Watchdog].op /\ x.tok = act[Watchdog].tok
                              /\ x.then = act[Watchdog].then /\ act' = [act EXCEPT ![Watchdog] = x]
    BY <1>3, GotoIs, Distinct DEF Pcs
  <2> QED BY <1>1, <2>1, WatchdogAtRest, WatchdogMoves DEF EngineInv, TypeOK
<1> QED BY <1>2, <1>3 DEF Check

(* A token is free while the budget is not spent. *)
LEMMA TokenFree ==
  ASSUME attempts \in SUBSET (1 .. Budget), Cardinality(attempts) < Budget
  PROVE  (1 .. Budget) \ attempts # {}
<1> SUFFICES ASSUME attempts = 1 .. Budget PROVE FALSE
  OBVIOUS
<1>1. Cardinality(1 .. Budget) = Budget
  BY FS_Interval, EngineAssumption
<1> QED BY <1>1, EngineAssumption

LEMMA AllowKeeps == ASSUME EngineInv, Allow PROVE EngineInv'
<1>1. /\ act[Watchdog].pc = "allow"
      /\ UNCHANGED <<gen, pidFile, curGen, startMu, intent, swept, raced>>
  BY DEF Allow, At
<1>2. /\ attempts \in SUBSET (1 .. Budget) /\ real \in SUBSET (1 .. Budget) /\ paused \in BOOLEAN
      /\ attempts \subseteq real
  BY <1>1, WatchdogAtRest DEF EngineInv, TypeOK, BudgetOK
<1>3. CASE act' = Done(Watchdog) /\ UNCHANGED <<attempts, real>> /\ paused' \in BOOLEAN
  BY <1>1, <1>3, Blank, WatchdogMoves DEF Done
<1>4. CASE Cardinality(attempts) < Budget /\ UNCHANGED <<paused, real>>
           /\ \E t \in (1 .. Budget) \ attempts :
                /\ attempts' = attempts \cup {t}
                /\ act' = [act EXCEPT ![Watchdog].pc = "lockstart", ![Watchdog].op = "auto",
                                      ![Watchdog].tok = t]
  <2>1. PICK t \in (1 .. Budget) \ attempts :
                /\ attempts' = attempts \cup {t}
                /\ act' = [act EXCEPT ![Watchdog].pc = "lockstart", ![Watchdog].op = "auto",
                                      ![Watchdog].tok = t]
    BY <1>4
  <2> DEFINE x == [act[Watchdog] EXCEPT !.pc = "lockstart", !.op = "auto", !.tok = t]
  <2>2. Watchdog \in Actors /\ act[Watchdog] \in Activity /\ act' = [act EXCEPT ![Watchdog] = x]
    BY <2>1, Distinct DEF EngineInv, TypeOK
  <2>3. x \in Activity /\ x.pc = "lockstart" /\ x.op = "auto" /\ x.tok = t /\ x.then = act[Watchdog].then
    <3>1. t \in 0 .. Budget
      BY <2>1, EngineAssumption
    <3> QED BY <2>2, <3>1 DEF Activity, Pcs, Ops
  <2> HIDE DEF x
  <2>4. act'[Watchdog] = x
    BY <2>2, <2>3, MovedTo
  <2>5. x.then = "done"
    BY <1>1, <2>3, WatchdogAtRest
  <2>6. ActorOK(Watchdog)' /\ HolderOK(Watchdog)'
    BY <2>3, <2>4, <2>5 DEF ActorOK, HolderOK, Starting
  <2>7. ~PendingBy(Watchdog)
    BY <1>1 DEF PendingBy
  <2>8. BudgetOK' /\ attempts' \in SUBSET (1 .. Budget) /\ real' \in SUBSET (1 .. Budget)
    BY <1>2, <1>4, <2>1, <2>3, <2>4 DEF BudgetOK, Unsettled, Starting
  <2> QED BY <1>1, <1>2, <1>4, <2>2, <2>3, <2>6, <2>7, <2>8, ControlStep
<1>5. CASE ~IsRunning /\ ~paused /\ Cardinality(attempts) < Budget
  <2>1. (1 .. Budget) \ attempts # {}
    BY <1>2, <1>5, TokenFree
  <2>2. CASE act' = Done(Watchdog) /\ UNCHANGED backoff
    BY <1>2, <1>3, <2>2 DEF backoff
  <2>3. CASE /\ LET t == CHOOSE t \in (1 .. Budget) \ attempts : TRUE IN
                /\ attempts' = attempts \cup {t}
                /\ act' = [act EXCEPT ![Watchdog].pc = "lockstart", ![Watchdog].op = "auto",
                                      ![Watchdog].tok = t]
             /\ UNCHANGED <<paused, real>>
    <3>1. PICK t \in (1 .. Budget) \ attempts : t = CHOOSE s \in (1 .. Budget) \ attempts : TRUE
      BY <2>1
    <3>2. /\ attempts' = attempts \cup {t}
          /\ act' = [act EXCEPT ![Watchdog].pc = "lockstart", ![Watchdog].op = "auto", ![Watchdog].tok = t]
      BY <2>3, <3>1
    <3> QED BY <1>4, <1>5, <2>3, <3>2
  <2>4. ~(Cardinality(attempts) >= Budget)
    <3>1. IsFiniteSet(1 .. Budget)
      BY FS_Interval, EngineAssumption
    <3>2. IsFiniteSet(attempts)
      BY <1>2, <3>1, FS_Subset
    <3>3. Cardinality(attempts) \in Nat
      BY <3>2, FS_CardinalityType
    <3> QED BY <1>5, <3>3, EngineAssumption
  <2> QED BY <1>5, <2>2, <2>3, <2>4, Zenon DEF Allow
<1>6. CASE ~(~IsRunning /\ ~paused /\ Cardinality(attempts) < Budget)
  BY <1>2, <1>3, <1>6 DEF Allow, backoff
<1> QED BY <1>5, <1>6

(* Time. *)

LEMMA BackoffStep ==
  ASSUME EngineInv, UNCHANGED <<gen, pidFile, curGen, startMu, intent, swept, act, raced>>,
         attempts' \in SUBSET (1 .. Budget), real' \in SUBSET (1 .. Budget), paused' \in BOOLEAN, BudgetOK'
  PROVE  EngineInv'
<1>1. TypeOK' /\ (\A a \in Actors : ActorOK(a)') /\ (\A a \in Actors : HolderOK(a)') /\ \A g \in Gens : MonitorOK(g)'
  BY DEF EngineInv, TypeOK, ActorOK, HolderOK, IsRunning, MonitorOK, intent
<1>2. NamedAlive' /\ SpareIsNamed'
  BY DEF EngineInv, NamedAlive, SpareIsNamed, Alive
<1>3. StopAlone' /\ NoStart' /\ DiskFollows' /\ StopPending'
  BY DEF EngineInv, StopAlone, NoStart, DiskFollows, StopPending, Pending, PendingBy, Alive, intent
<1> QED BY <1>1, <1>2, <1>3 DEF EngineInv

LEMMA TimeKeeps == ASSUME EngineInv, PauseEnds \/ WindowSlides PROVE EngineInv'
<1>1. /\ attempts \in SUBSET (1 .. Budget) /\ real \in SUBSET (1 .. Budget) /\ paused \in BOOLEAN /\ BudgetOK
  BY DEF EngineInv, TypeOK
<1>2. CASE PauseEnds
  BY <1>1, <1>2, BackoffStep DEF PauseEnds, BudgetOK, Unsettled
<1>3. CASE WindowSlides
  <2>1. PICK t : t # act[Watchdog].tok /\ attempts' = attempts \ {t} /\ real' = real \ {t}
    BY <1>3 DEF WindowSlides
  <2>2. UNCHANGED <<gen, pidFile, curGen, startMu, intent, paused, swept, act, raced>>
    BY <1>3 DEF WindowSlides
  <2>3. BudgetOK'
    BY <1>1, <2>1, <2>2 DEF BudgetOK, Unsettled
  <2> QED BY <1>1, <2>1, <2>2, <2>3, BackoffStep
<1> QED BY <1>2, <1>3

(* Control, Reload and the daemon. *)

LEMMA AtIdle == ASSUME EngineInv, NEW a \in Actors, act[a].pc = "idle" PROVE act[a] = Idle
BY DEF EngineInv, ActorOK

(* A caller moves on; what it may do to the intent is left to show. *)
LEMMA CallerStep ==
  ASSUME EngineInv, NEW a \in Others, NEW x \in Activity, act' = [act EXCEPT ![a] = x],
         UNCHANGED <<gen, pidFile, curGen, startMu, attempts, paused, real, swept, raced>>, act[a].pc # "pid",
         x.pc \notin {"spawn", "pid", "grace", "dying", "hup"}, ActorOK(a)',
         stopped' \in BOOLEAN, disk' \in BOOLEAN, crossed' \in BOOLEAN,
         StopAlone', NoStart', DiskFollows', StopPending'
  PROVE  EngineInv'
<1>1. a \in Actors /\ a # Watchdog
  BY Distinct
<1>2. act'[a] = x
  BY <1>1, MovedTo
<1>3. HolderOK(a)'
  BY <1>2 DEF HolderOK
<1>4. BudgetOK' /\ attempts' \in SUBSET (1 .. Budget) /\ real' \in SUBSET (1 .. Budget) /\ paused' \in BOOLEAN
  BY <1>1, TokenKept
<1> QED BY <1>1, <1>3, <1>4, MoveStep

LEMMA BeginKeeps ==
  ASSUME EngineInv, NEW u \in Users, NEW op \in {"start", "stop", "restart", "clear", "quiesce"}, Begin(u, op)
  PROVE  EngineInv'
<1>1. /\ act[u].pc = "idle" /\ crossed' = (crossed \/ Stopping)
      /\ UNCHANGED <<gen, pidFile, curGen, startMu, stopped, disk, attempts, paused, real, swept, raced>>
  BY DEF Begin, At, backoff
<1>2. u \in Others /\ u \in Actors /\ u # Watchdog /\ act[u] = Idle
  BY <1>1, AtIdle, Distinct DEF Others
<1>3. PICK s \in BOOLEAN : s = IsRunning
  BY DEF IsRunning, EngineInv, TypeOK, Generation
<1>4. PICK p \in {"act", "flag"} : p = IF op = "quiesce" THEN "act" ELSE "flag"
  OBVIOUS
<1> DEFINE x == [Idle EXCEPT !.op = op, !.snap = s, !.pc = p]
<1>5. act' = [act EXCEPT ![u] = x]
  BY <1>3, <1>4 DEF Begin
<1>6. x \in Activity /\ x.pc = p /\ x.op = op /\ x.then = "done"
  BY Blank DEF Activity, Pcs, Ops
<1> HIDE DEF x
<1>7. act'[u] = x /\ \A b \in Actors \ {u} : act'[b] = act[b]
  BY <1>2, <1>5, <1>6, MovedTo
<1>8. ActorOK(u)'
  BY <1>2, <1>4, <1>6, <1>7 DEF ActorOK
<1>9. stopped' \in BOOLEAN /\ disk' \in BOOLEAN /\ crossed' \in BOOLEAN
  BY <1>1 DEF EngineInv, TypeOK, Stopping
<1>10. StopAlone'
  BY <1>1, <1>4, <1>6, <1>7, Distinct DEF StopAlone, Stopping
<1>11. NoStart'
  <2> SUFFICES ASSUME stopped', ~crossed'
               PROVE  /\ \A r \in Reloaders : act'[r].pc = "idle"
                      /\ \A v \in Users : act'[v].pc \in {"idle", "flag"} \/ act'[v].op \in {"stop", "quiesce"}
    BY DEF NoStart
  <2>1. /\ \A r \in Reloaders : act[r].pc = "idle"
        /\ \A v \in Users : act[v].pc \in {"idle", "flag"} \/ act[v].op \in {"stop", "quiesce"}
    BY <1>1 DEF EngineInv, NoStart
  <2>2. x.pc = "flag" \/ x.op = "quiesce"
    BY <1>4, <1>6
  <2> QED BY <1>7, <2>1, <2>2, Distinct
<1>12. DiskFollows'
  BY <1>1, <1>2, <1>7, Distinct DEF EngineInv, DiskFollows
<1>13. StopPending'
  <2> SUFFICES ASSUME stopped, ~crossed, ~raced, pidFile \in Alive' PROVE Pending'
    BY <1>1 DEF StopPending
  <2>1. pidFile \in Alive
    BY <1>1 DEF Alive
  <2>2. PICK b \in Actors : PendingBy(b)
    BY <2>1 DEF EngineInv, StopPending, Pending
  <2>3. b # u
    BY <1>1, <1>2, <2>2 DEF PendingBy
  <2> QED BY <1>7, <2>2, <2>3 DEF Pending, PendingBy
<1> QED BY <1>1, <1>2, <1>4, <1>5, <1>6, <1>8, <1>9, <1>10, <1>11, <1>12, <1>13, CallerStep

LEMMA FlagKeeps == ASSUME EngineInv, NEW u \in Users, Flag(u) PROVE EngineInv'
<1>1. /\ act[u].pc = "flag" /\ stopped' = (act[u].op = "stop")
      /\ crossed' = IF act[u].op = "stop" THEN Busy(u) ELSE crossed
      /\ act' = [act EXCEPT ![u].pc = "persist", ![u].prev = stopped]
      /\ UNCHANGED <<gen, pidFile, curGen, startMu, disk, attempts, paused, real, swept, raced>>
  BY DEF Flag, At, backoff
<1>2. u \in Others /\ u \in Actors /\ u # Watchdog /\ ActorOK(u)
  BY Distinct DEF Others, EngineInv
<1> DEFINE x == [act[u] EXCEPT !.pc = "persist", !.prev = stopped]
<1>3. act[u] \in Activity /\ act' = [act EXCEPT ![u] = x] /\ stopped \in BOOLEAN
  BY <1>1, <1>2 DEF EngineInv, TypeOK
<1>4. x \in Activity /\ x.pc = "persist" /\ x.op = act[u].op /\ x.then = act[u].then /\ x.prev = stopped
  BY <1>3 DEF Activity, Pcs
<1> HIDE DEF x
<1>5. act'[u] = x /\ \A b \in Actors \ {u} : act'[b] = act[b]
  BY <1>2, <1>3, <1>4, MovedTo
<1>6. ActorOK(u)'
  BY <1>1, <1>2, <1>4, <1>5 DEF ActorOK
<1>7. stopped' \in BOOLEAN /\ disk' \in BOOLEAN /\ crossed' \in BOOLEAN
  BY <1>1 DEF EngineInv, TypeOK, Busy
<1>8. CASE act[u].op = "stop"
  <2>1. stopped' /\ crossed' = Busy(u)
    BY <1>1, <1>8
  <2>2. ASSUME ~crossed', NEW b \in Others, b # u PROVE act'[b] = Idle
    <3>1. act[b].pc = "idle" /\ b \in Actors
      BY <2>1, <2>2, Distinct DEF Busy, Others
    <3> QED BY <1>5, <2>2, <3>1, AtIdle
  <2>3. StopAlone'
    BY <2>1, <2>2, Blank DEF StopAlone, Others
  <2>4. NoStart'
    <3>1. ASSUME ~crossed', NEW r \in Reloaders PROVE act'[r].pc = "idle"
      BY <2>2, <3>1, Blank, Distinct DEF Others
    <3>2. ASSUME ~crossed', NEW v \in Users PROVE act'[v].pc \in {"idle", "flag"} \/ act'[v].op \in {"stop", "quiesce"}
      BY <1>4, <1>5, <1>8, <2>2, <3>2, Blank DEF Others
    <3> QED BY <3>1, <3>2 DEF NoStart
  <2>5. DiskFollows'
    BY <2>1 DEF DiskFollows
  <2>6. StopPending'
    BY <1>2, <1>4, <1>5, <1>8 DEF StopPending, Pending, PendingBy
  <2> QED BY <1>1, <1>2, <1>3, <1>4, <1>6, <1>7, <2>3, <2>4, <2>5, <2>6, CallerStep
<1>9. CASE act[u].op # "stop"
  <2>1. ~stopped' /\ crossed' = crossed
    BY <1>1, <1>9
  <2>2. StopAlone'
    <3> SUFFICES ASSUME NEW v \in Users, ~crossed, act'[v].op = "stop", act'[v].pc # "flag" PROVE FALSE
      BY <2>1 DEF StopAlone
    <3>1. v # u /\ act'[v] = act[v]
      BY <1>4, <1>5, <1>9, Distinct
    <3> QED BY <1>1, <1>2, <3>1 DEF EngineInv, StopAlone
  <2>3. NoStart' /\ StopPending'
    BY <2>1 DEF NoStart, StopPending
  <2>4. DiskFollows'
    <3> SUFFICES ASSUME disk', ~stopped', ~crossed'
                 PROVE  \E v \in Users : act'[v].pc = "persist" /\ act'[v].op # "stop" /\ act'[v].prev
      BY Zenon DEF DiskFollows
    <3>0. disk /\ ~crossed
      BY <1>1, <2>1
    <3>1. CASE stopped
      BY <1>4, <1>5, <1>9, <3>1
    <3>2. CASE ~stopped
      <4>1. PICK v \in Users : act[v].pc = "persist" /\ act[v].op # "stop" /\ act[v].prev
        BY <3>0, <3>2 DEF EngineInv, DiskFollows
      <4>2. act'[v] = act[v]
        BY <1>1, <1>5, <4>1, Distinct
      <4> QED BY <4>1, <4>2
    <3> QED BY <3>1, <3>2
  <2> QED BY <1>1, <1>2, <1>3, <1>4, <1>6, <1>7, <2>2, <2>3, <2>4, CallerStep
<1> QED BY <1>8, <1>9

LEMMA PersistKeeps == ASSUME EngineInv, NEW u \in Users, Persist(u) PROVE EngineInv'
<1>1. /\ act[u].pc = "persist" /\ disk' = (act[u].op = "stop")
      /\ UNCHANGED <<gen, pidFile, curGen, startMu, stopped, crossed, attempts, paused, real, swept, raced>>
  BY DEF Persist, At, backoff
<1>2. u \in Others /\ u \in Actors /\ u # Watchdog /\ ActorOK(u) /\ act[u] \in Activity
  BY Distinct DEF Others, EngineInv, TypeOK
<1>3. \E x \in Activity : /\ act' = [act EXCEPT ![u] = x]
                          /\ \/ x = Idle /\ act[u].op = "clear"
                             \/ x.pc = "act" /\ x.op = act[u].op /\ x.then = act[u].then
  <2>1. CASE act[u].op = "clear"
    BY <2>1, Blank DEF Persist, Done
  <2>2. CASE act[u].op # "clear"
    <3> DEFINE x == [act[u] EXCEPT !.pc = "act", !.prev = FALSE]
    <3>1. act' = [act EXCEPT ![u] = x]
      BY <1>2, <2>2 DEF Persist, EngineInv, TypeOK
    <3>2. x \in Activity /\ x.pc = "act" /\ x.op = act[u].op /\ x.then = act[u].then
      BY <1>2 DEF Activity, Pcs
    <3> QED BY <3>1, <3>2
  <2> QED BY <2>1, <2>2
<1>4. PICK x \in Activity : /\ act' = [act EXCEPT ![u] = x]
                            /\ \/ x = Idle /\ act[u].op = "clear"
                               \/ x.pc = "act" /\ x.op = act[u].op /\ x.then = act[u].then
  BY <1>3
<1>5. act'[u] = x /\ \A b \in Actors \ {u} : act'[b] = act[b]
  BY <1>2, <1>4, MovedTo
<1>6. ActorOK(u)'
  BY <1>1, <1>2, <1>4, <1>5, Blank DEF ActorOK
<1>7. stopped' \in BOOLEAN /\ disk' \in BOOLEAN /\ crossed' \in BOOLEAN
  BY <1>1 DEF EngineInv, TypeOK
<1>8. StopAlone'
  <2> SUFFICES ASSUME NEW v \in Users, ~crossed, act'[v].op = "stop", act'[v].pc # "flag"
               PROVE  stopped /\ \A b \in Others \ {v} : act'[b].pc = "idle"
    BY <1>1 DEF StopAlone
  <2>1. CASE v = u
    <3>1. act[u].op = "stop"
      BY <1>4, <1>5, <2>1, Blank
    <3>2. stopped /\ \A b \in Others \ {u} : act[b].pc = "idle"
      BY <1>1, <3>1 DEF EngineInv, StopAlone
    <3> QED BY <1>5, <2>1, <3>2, Distinct
  <2>2. CASE v # u
    <3>1. act'[v] = act[v]
      BY <1>5, <2>2, Distinct
    <3> QED BY <1>1, <1>2, <2>2, <3>1 DEF EngineInv, StopAlone
  <2> QED BY <2>1, <2>2
<1>9. NoStart'
  <2> SUFFICES ASSUME stopped, ~crossed
               PROVE  /\ \A r \in Reloaders : act'[r].pc = "idle"
                      /\ \A v \in Users : act'[v].pc \in {"idle", "flag"} \/ act'[v].op \in {"stop", "quiesce"}
    BY <1>1 DEF NoStart
  <2>1. /\ \A r \in Reloaders : act[r].pc = "idle"
        /\ \A v \in Users : act[v].pc \in {"idle", "flag"} \/ act[v].op \in {"stop", "quiesce"}
    BY DEF EngineInv, NoStart
  <2>2. x.op \in {"stop", "quiesce"}
    BY <1>1, <1>4, <2>1
  <2> QED BY <1>5, <2>1, <2>2, Distinct
<1>10. DiskFollows'
  BY <1>1 DEF EngineInv, DiskFollows, StopAlone
<1>11. StopPending'
  <2> SUFFICES ASSUME stopped, ~crossed, ~raced, pidFile \in Alive' PROVE Pending'
    BY <1>1 DEF StopPending
  <2>1. pidFile \in Alive
    BY <1>1 DEF Alive
  <2>2. PICK b \in Actors : PendingBy(b)
    BY <2>1 DEF EngineInv, StopPending, Pending
  <2>3. CASE b # u
    BY <1>5, <2>2, <2>3 DEF Pending, PendingBy
  <2>4. CASE b = u
    BY <1>1, <1>2, <1>4, <1>5, <2>2, <2>4 DEF Pending, PendingBy
  <2> QED BY <2>3, <2>4
<1>12. x.pc \in {"idle", "act"}
  BY <1>4, Blank
<1> QED BY <1>1, <1>2, <1>4, <1>6, <1>7, <1>8, <1>9, <1>10, <1>11, <1>12, CallerStep

LEMMA PersistFailKeeps == ASSUME EngineInv, NEW u \in Users, PersistFail(u) PROVE EngineInv'
<1>1. /\ act[u].pc = "persist" /\ stopped' = act[u].prev /\ act' = [act EXCEPT ![u] = Idle]
      /\ crossed' = (crossed \/ act[u].prev \/ disk)
      /\ UNCHANGED <<gen, pidFile, curGen, startMu, disk, attempts, paused, real, swept, raced>>
  BY DEF PersistFail, At, Done, backoff
<1>2. u \in Others /\ u \in Actors /\ u # Watchdog /\ act[u].prev \in BOOLEAN
  BY Distinct DEF Others, EngineInv, TypeOK, Activity
<1>3. act'[u] = Idle /\ \A b \in Actors \ {u} : act'[b] = act[b]
  BY <1>1, <1>2, Blank, MovedTo
<1>4. ActorOK(u)'
  BY <1>2, <1>3, Blank DEF ActorOK
<1>5. stopped' \in BOOLEAN /\ disk' \in BOOLEAN /\ crossed' \in BOOLEAN
  BY <1>1, <1>2 DEF EngineInv, TypeOK
<1>6. ~crossed' => ~crossed /\ ~stopped' /\ ~disk'
  BY <1>1
<1>7. StopAlone'
  <2> SUFFICES ASSUME NEW v \in Users, ~crossed, act'[v].op = "stop", act'[v].pc # "flag" PROVE FALSE
    BY <1>6 DEF StopAlone
  <2>1. v # u /\ act'[v] = act[v]
    BY <1>3, Blank, Distinct
  <2> QED BY <1>1, <1>2, <2>1 DEF EngineInv, StopAlone
<1>8. NoStart' /\ DiskFollows' /\ StopPending'
  BY <1>6 DEF NoStart, DiskFollows, StopPending
<1> QED BY <1>1, <1>2, <1>4, <1>5, <1>7, <1>8, Blank, CallerStep

LEMMA ActKeeps == ASSUME EngineInv, NEW u \in Users, Act(u) PROVE EngineInv'
<1>1. /\ act[u].pc = "act"
      /\ UNCHANGED <<gen, pidFile, curGen, startMu, intent, swept, raced>>
  BY DEF Act, At
<1>2. u \in Others /\ u \in Actors /\ u # Watchdog /\ ActorOK(u)
  BY Distinct DEF Others, EngineInv
<1>3. \/ act[u].op \in {"stop", "quiesce"} /\ IsRunning /\ act' = StopThen(u, "done")
      \/ act[u].op \in {"stop", "quiesce"} /\ ~IsRunning /\ act' = Done(u)
      \/ act[u].op \notin {"stop", "quiesce"} /\ (act' = Goto(u, "lockstart") \/ act' = Done(u) \/ act' = StopThen(u, "lockstart"))
  <2>1. CASE act[u].op \in {"stop", "quiesce"}
    BY <2>1 DEF Act
  <2>2. CASE act[u].op \notin {"stop", "quiesce"}
    BY <2>2 DEF Act
  <2> QED BY <2>1, <2>2
<1>4. act'[Watchdog] = act[Watchdog] =>
        /\ BudgetOK' /\ attempts' \in SUBSET (1 .. Budget) /\ real' \in SUBSET (1 .. Budget)
        /\ paused' \in BOOLEAN
  <2>1. CASE act[u].op = "quiesce"
    <3>1. UNCHANGED <<attempts, paused, real>>
      BY <2>1 DEF Act, backoff
    <3> QED BY <3>1, BudgetStays DEF EngineInv, TypeOK
  <2>2. CASE act[u].op # "quiesce"
    <3>1. attempts' = {} /\ real' = {} /\ paused' = FALSE
      BY <2>2 DEF Act, ResetBackoff
    <3> QED BY <3>1 DEF BudgetOK
  <2> QED BY <2>1, <2>2
<1>5. ASSUME NEW x \in Activity, act' = [act EXCEPT ![u] = x], x.op = act[u].op \/ x = Idle,
             x.pc \notin {"spawn", "pid", "grace", "dying", "hup"}, ActorOK(u)',
             act[u].op = "stop" /\ pidFile \in Alive => x.pc = "lockstop"
      PROVE  EngineInv'
  <2>1. act'[u] = x /\ act'[Watchdog] = act[Watchdog]
    BY <1>2, <1>5, MovedTo, Distinct
  <2>2. HolderOK(u)'
    BY <1>5, <2>1 DEF HolderOK
  <2>3. pidFile \in Alive /\ PendingBy(u) => PendingBy(u)'
    BY <1>1, <1>2, <1>5, <2>1 DEF PendingBy
  <2> QED BY <1>1, <1>2, <1>4, <1>5, <2>1, <2>2, <2>3, ControlStep
<1>6. CASE act' = Done(u) /\ (act[u].op = "stop" => ~IsRunning)
  <2>1. act' = [act EXCEPT ![u] = Idle] /\ act'[u] = Idle
    BY <1>2, <1>6, Blank, MovedTo DEF Done
  <2>2. ActorOK(u)'
    BY <1>2, <2>1, Blank DEF ActorOK
  <2>3. pidFile \in Alive => IsRunning
    BY Distinct DEF Alive, IsRunning
  <2> QED BY <1>5, <1>6, <2>1, <2>2, <2>3, Blank
<1>7. CASE act' = Goto(u, "lockstart") /\ act[u].op \notin {"stop", "quiesce"}
  <2>1. PICK x \in Activity : /\ x.pc = "lockstart" /\ x.op = act[u].op /\ x.then = act[u].then
                              /\ act' = [act EXCEPT ![u] = x]
    BY <1>2, <1>7, GotoIs DEF Pcs
  <2>2. ActorOK(u)'
    BY <1>1, <1>2, <1>7, <2>1, MovedTo DEF ActorOK
  <2> QED BY <1>5, <1>7, <2>1, <2>2
<1>8. ASSUME NEW n \in {"done", "lockstart"}, act' = StopThen(u, n), n = "done" \/ act[u].op \notin {"stop", "quiesce"}
      PROVE  EngineInv'
  <2>0. n \in Nexts
    BY DEF Nexts
  <2>1. PICK x \in Activity : /\ x.pc = "lockstop" /\ x.op = act[u].op /\ x.then = n
                              /\ act' = [act EXCEPT ![u] = x]
    BY <1>2, <1>8, <2>0, StopThenIs
  <2>2. ActorOK(u)'
    BY <1>1, <1>2, <1>8, <2>1, MovedTo DEF ActorOK
  <2> QED BY <1>5, <2>1, <2>2
<1> QED BY <1>3, <1>6, <1>7, <1>8

LEMMA ReloadKeeps == ASSUME EngineInv, NEW r \in Reloaders, Reload(r) \/ TunnelChange(r) PROVE EngineInv'
<1>1. /\ act[r].pc = "idle" /\ crossed' = (crossed \/ Stopping \/ stopped)
      /\ UNCHANGED <<gen, pidFile, curGen, startMu, stopped, disk, attempts, paused, real, swept, raced>>
  BY DEF Reload, TunnelChange, At, backoff
<1>2. r \in Others /\ r \in Actors /\ r # Watchdog /\ r \notin Users /\ act[r] = Idle
  BY <1>1, AtIdle, Distinct DEF Others
<1>3. \E x \in Activity : /\ act' = [act EXCEPT ![r] = x] /\ x.pc \in {"lockstart", "lockstop", "lockreload"}
                          /\ x.op \in {"cold", "reload", "apply"} /\ x.then \in {"done", "lockstart"}
  <2>1. ASSUME NEW p \in {"lockstart", "lockstop", "lockreload"}, NEW o \in {"cold", "reload", "apply"},
               NEW n \in {"done", "lockstart"},
               act' = [act EXCEPT ![r].pc = p, ![r].op = o, ![r].then = n]
        PROVE  \E x \in Activity : /\ act' = [act EXCEPT ![r] = x] /\ x.pc \in {"lockstart", "lockstop", "lockreload"}
                                   /\ x.op \in {"cold", "reload", "apply"} /\ x.then \in {"done", "lockstart"}
    <3> DEFINE x == [act[r] EXCEPT !.pc = p, !.op = o, !.then = n]
    <3>1. act' = [act EXCEPT ![r] = x]
      BY <1>2, <2>1 DEF EngineInv, TypeOK
    <3>2. act[r] \in Activity /\ p \in Pcs /\ o \in Ops /\ n \in Nexts
      BY <1>2, Blank DEF Pcs, Ops, Nexts
    <3>3. x \in Activity /\ x.pc = p /\ x.op = o /\ x.then = n
      BY <3>2 DEF Activity
    <3> QED BY <3>1, <3>3
  <2>2. ASSUME NEW p \in {"lockstart", "lockstop", "lockreload"}, NEW o \in {"cold", "reload", "apply"},
               act' = [act EXCEPT ![r].pc = p, ![r].op = o]
        PROVE  \E x \in Activity : /\ act' = [act EXCEPT ![r] = x] /\ x.pc \in {"lockstart", "lockstop", "lockreload"}
                                   /\ x.op \in {"cold", "reload", "apply"} /\ x.then \in {"done", "lockstart"}
    <3> DEFINE x == [act[r] EXCEPT !.pc = p, !.op = o]
    <3>1. act' = [act EXCEPT ![r] = x]
      BY <1>2, <2>2 DEF EngineInv, TypeOK
    <3>2. act[r] \in Activity /\ p \in Pcs /\ o \in Ops /\ act[r].then = "done"
      BY <1>2, Blank DEF Pcs, Ops
    <3>3. x \in Activity /\ x.pc = p /\ x.op = o /\ x.then = "done"
      BY <3>2 DEF Activity
    <3> QED BY <3>1, <3>3
  <2> QED BY <2>1, <2>2 DEF Reload, TunnelChange
<1>4. PICK x \in Activity : /\ act' = [act EXCEPT ![r] = x] /\ x.pc \in {"lockstart", "lockstop", "lockreload"}
                            /\ x.op \in {"cold", "reload", "apply"} /\ x.then \in {"done", "lockstart"}
  BY <1>3
<1>5. act'[r] = x /\ \A b \in Actors \ {r} : act'[b] = act[b]
  BY <1>2, <1>4, MovedTo
<1>6. ActorOK(r)'
  BY <1>2, <1>4, <1>5 DEF ActorOK
<1>7. stopped' \in BOOLEAN /\ disk' \in BOOLEAN /\ crossed' \in BOOLEAN
  BY <1>1 DEF EngineInv, TypeOK, Stopping
<1>8. \A u \in Users : act'[u] = act[u]
  BY <1>2, <1>5, Distinct
<1>9. StopAlone'
  BY <1>1, <1>8 DEF StopAlone, Stopping
<1>10. NoStart' /\ StopPending'
  BY <1>1 DEF NoStart, StopPending
<1>11. DiskFollows'
  BY <1>1, <1>8 DEF EngineInv, DiskFollows
<1> QED BY <1>1, <1>2, <1>4, <1>6, <1>7, <1>9, <1>10, <1>11, CallerStep

(* The daemon comes back with the intent it finds on disk. *)
LEMMA DaemonRestartKeeps == ASSUME EngineInv, DaemonRestart PROVE EngineInv'
<1>1. /\ gen' = [g \in Gens |-> [gen[g] EXCEPT !.mon = "none"]] /\ act' = [a \in Actors |-> Idle]
      /\ stopped' = disk /\ crossed' = (crossed \/ (disk /\ \E a \in Actors : act[a].pc # "idle"))
      /\ curGen' = 0 /\ startMu' = NoOne /\ attempts' = {} /\ paused' = FALSE /\ real' = {} /\ swept' = FALSE
      /\ UNCHANGED <<pidFile, disk, raced>>
  BY DEF DaemonRestart, ResetBackoff
<1>2. \A a \in Actors : act'[a] = Idle
  BY <1>1
<1>3. ASSUME NEW h \in Gens
      PROVE  /\ gen'[h] \in Generation /\ gen'[h].mon = "none" /\ gen'[h].up = gen[h].up
             /\ gen'[h].signalled = gen[h].signalled
  <2>1. gen[h] \in Generation /\ gen'[h] = [gen[h] EXCEPT !.mon = "none"]
    BY <1>1 DEF EngineInv, TypeOK
  <2> QED BY <2>1 DEF Generation
<1>4. TypeOK'
  <2>1. gen' \in [Gens -> Generation]
    BY <1>1, <1>3
  <2>2. act' \in [Actors -> Activity]
    BY <1>1, Blank
  <2>3. crossed' \in BOOLEAN
    BY <1>1 DEF EngineInv, TypeOK
  <2> QED BY <1>1, <2>1, <2>2, <2>3 DEF EngineInv, TypeOK
<1>5. \A a \in Actors : ActorOK(a)' /\ HolderOK(a)'
  BY <1>2, Blank DEF ActorOK, HolderOK, Starting
<1>6. \A g \in Gens : MonitorOK(g)'
  BY <1>3 DEF MonitorOK
<1>7. BudgetOK' /\ NamedAlive' /\ SpareIsNamed'
  BY <1>1, <1>2, Blank, Distinct DEF BudgetOK, NamedAlive, SpareIsNamed
<1>8. StopAlone' /\ NoStart' /\ DiskFollows'
  BY <1>1, <1>2, Blank, Distinct DEF StopAlone, NoStart, DiskFollows
<1>9. StopPending'
  <2> SUFFICES ASSUME disk, ~crossed', ~raced, pidFile \in Alive' PROVE FALSE
    BY <1>1 DEF StopPending
  <2>1. ~crossed /\ \A a \in Actors : act[a] = Idle
    BY <1>1, AtIdle
  <2>2. stopped
    BY <2>1, Blank, Distinct DEF EngineInv, DiskFollows
  <2>3. pidFile \in Alive
    BY <1>1, <1>3 DEF Alive
  <2> QED BY <2>1, <2>2, <2>3, Blank DEF EngineInv, StopPending, Pending, PendingBy
<1> QED BY <1>4, <1>5, <1>6, <1>7, <1>8, <1>9 DEF EngineInv

------------------------------------------------------------------------------
(* The invariant and what follows from it. *)

LEMMA EngineInvInitially == Init => EngineInv
<1> SUFFICES ASSUME Init PROVE EngineInv
  OBVIOUS
<1>1. \A a \in Actors : act[a] = Idle
  BY DEF Init
<1>2. \A g \in Gens : gen[g] = NoGen
  BY DEF Init
<1>3. TypeOK
  BY Blank DEF Init, TypeOK
<1>4. \A a \in Actors : ActorOK(a) /\ HolderOK(a)
  BY <1>1, Blank DEF ActorOK, HolderOK, Starting
<1>5. \A g \in Gens : MonitorOK(g)
  BY <1>2, Blank DEF MonitorOK
<1>6. BudgetOK /\ NamedAlive /\ SpareIsNamed
  BY <1>1, Blank, Distinct DEF Init, BudgetOK, NamedAlive, SpareIsNamed
<1>7. StopAlone /\ NoStart /\ DiskFollows /\ StopPending
  BY <1>1, Blank, Distinct DEF Init, StopAlone, NoStart, DiskFollows, StopPending
<1> QED BY <1>3, <1>4, <1>5, <1>6, <1>7 DEF EngineInv

LEMMA EngineInvStep == EngineInv /\ [Next]_vars => EngineInv'
<1> SUFFICES ASSUME EngineInv, [Next]_vars PROVE EngineInv'
  OBVIOUS
<1>1. CASE \E g \in Gens : Crash(g) \/ Exit(g) \/ Monitor(g) \/ MonitorStall(g)
  BY <1>1, CrashKeeps, ExitKeeps, MonitorLooksKeeps, MonitorRemoveKeeps, MonitorExitKeeps DEF Monitor
<1>2. ASSUME NEW a \in Actors, ActorStep(a) \/ SpawnFail(a) \/ WritePidFail(a) PROVE EngineInv'
  <2>1. CASE StartStep(a) \/ SpawnFail(a) \/ WritePidFail(a)
    BY <2>1, LockStartKeeps, SpawnKeeps, WritePidKeeps, GraceKeeps, SpawnFailKeeps, WritePidFailKeeps DEF StartStep
  <2>2. CASE StopStep(a)
    BY <2>2, LockStopKeeps, StoppedKeeps, LockReloadKeeps, AfterHupKeeps DEF StopStep
  <2>3. CASE WaitStep(a)
    BY <2>3, ClashReadyKeeps, ClashFailKeeps, AutoFailedKeeps, RecheckKeeps DEF WaitStep
  <2> QED BY <1>2, <2>1, <2>2, <2>3 DEF ActorStep
<1>3. CASE WatchdogStep
  BY <1>3, TickKeeps, SweepReadKeeps, SweepKillKeeps, CheckKeeps, AllowKeeps DEF WatchdogStep
<1>4. CASE PauseEnds \/ WindowSlides
  BY <1>4, TimeKeeps
<1>5. CASE \E u \in Users : UserStep(u) \/ PersistFail(u)
  BY <1>5, FlagKeeps, PersistKeeps, ActKeeps, PersistFailKeeps DEF UserStep
<1>6. CASE \E u \in Users, op \in {"start", "stop", "restart", "clear", "quiesce"} : Begin(u, op)
  BY <1>6, BeginKeeps
<1>7. CASE \E r \in Reloaders : Reload(r) \/ TunnelChange(r)
  BY <1>7, ReloadKeeps
<1>8. CASE DaemonRestart
  BY <1>8, DaemonRestartKeeps
<1>9. CASE UNCHANGED vars
  <2>1. UNCHANGED <<gen, pidFile, curGen, startMu, intent, attempts, paused, real, swept, act, raced>>
    BY <1>9 DEF vars, backoff
  <2>2. BudgetOK' /\ attempts' \in SUBSET (1 .. Budget) /\ real' \in SUBSET (1 .. Budget) /\ paused' \in BOOLEAN
    BY <2>1, BudgetStays DEF EngineInv, TypeOK
  <2> QED BY <2>1, <2>2, BackoffStep
<1> QED BY <1>1, <1>2, <1>3, <1>4, <1>5, <1>6, <1>7, <1>8, <1>9 DEF Next

(* The inductive invariant of the engine, its operator and its watchdog.   *)
THEOREM EngineInvariant == Spec => []EngineInv
<1>1. Init => EngineInv
  BY EngineInvInitially
<1>2. EngineInv /\ [Next]_vars => EngineInv'
  BY EngineInvStep
<1> QED BY <1>1, <1>2, PTL DEF Spec

(* handleExit records only real crashes: an exit that Stop, Reload or a    *)
(* restart asked for carries its own generation's deliberate flag, however *)
(* late its monitor runs.                                                  *)
THEOREM OnlyCrashesBlamed == Spec => []BlameOnlyCrashes
<1>1. EngineInv => BlameOnlyCrashes
  BY DEF EngineInv, MonitorOK, BlameOnlyCrashes
<1> QED BY <1>1, EngineInvariant, PTL

(* Each attempt the restart backoff counts forked an engine, failed, or is *)
(* under way: restartToken is committed or rolled back on every path.      *)
THEOREM BudgetStaysHonest == Spec => []BudgetHonest
<1>1. EngineInv => BudgetHonest
  BY DEF EngineInv, BudgetOK, BudgetHonest
<1> QED BY <1>1, EngineInvariant, PTL

(* startMu and the orphan sweep leave at most one engine alive, whoever    *)
(* starts, stops and reloads, once the daemon has swept and while no       *)
(* monitor has hit the window of cleanupPidIfOurs.                         *)
THEOREM NeverTwoEngines == Spec => []OneEngine
<1>1. ASSUME EngineInv, swept, ~raced PROVE Cardinality(Alive) <= 1
  <2>1. ASSUME NEW g \in Alive, NEW h \in Alive PROVE g = h
    <3>1. ASSUME NEW a \in Actors, act[a].pc = "pid" PROVE startMu = a /\ pidFile \notin Alive
      BY <1>1, <3>1, Distinct DEF EngineInv, HolderOK, IsRunning, Alive
    <3>2. CASE pidFile \in Alive
      BY <1>1, <2>1, <3>1, <3>2 DEF EngineInv, NamedAlive
    <3>3. CASE pidFile \notin Alive
      <4>1. PICK a \in Actors : act[a].pc = "pid" /\ act[a].g = g
        BY <1>1, <2>1, <3>3 DEF EngineInv, NamedAlive
      <4>2. PICK b \in Actors : act[b].pc = "pid" /\ act[b].g = h
        BY <1>1, <2>1, <3>3 DEF EngineInv, NamedAlive
      <4> QED BY <3>1, <4>1, <4>2
    <3> QED BY <3>2, <3>3
  <2>2. CASE Alive = {}
    BY <2>2, FS_EmptySet
  <2>3. CASE Alive # {}
    <3>1. PICK g \in Alive : TRUE
      BY <2>3
    <3>2. Alive = {g}
      BY <2>1, <3>1
    <3> QED BY <3>2, FS_Singleton
  <2> QED BY <2>2, <2>3
<1>2. EngineInv => OneEngine
  BY <1>1 DEF OneEngine
<1> QED BY <1>2, EngineInvariant, PTL

(* The user's Stop is sacred: once everybody is done and the intent is     *)
(* stopped no engine is alive, whatever the watchdog was doing when the    *)
(* Stop came, however the engine died, and after a restart of the daemon,  *)
(* unless another start or reload crossed it or a tunnel was changed since *)
(* (applyConfig starts the engine without looking at the intent).          *)
THEOREM UserStopSticks == Spec => []StopSticks
<1>1. ASSUME EngineInv, Quiet, stopped, ~crossed, ~raced PROVE Alive = {}
  <2>1. \A a \in Actors : act[a] = Idle
    BY <1>1, AtIdle DEF Quiet
  <2>2. ~Pending
    BY <2>1, Blank DEF Pending, PendingBy
  <2>3. pidFile \notin Alive
    BY <1>1, <2>2 DEF EngineInv, StopPending
  <2>4. \A g \in Alive : g = pidFile
    BY <1>1, <2>1, Blank DEF EngineInv, NamedAlive, Quiet
  <2> QED BY <2>3, <2>4
<1>2. EngineInv => StopSticks
  BY <1>1 DEF StopSticks
<1> QED BY <1>2, EngineInvariant, PTL

==============================================================================
