---------------------- MODULE TunnelOrchestratorProofs ----------------------
(***************************************************************************)
(* Theorems about TunnelOrchestrator, in the order of their sections: the  *)
(* execution semaphores of o.tunnelMu keep two handlers off one tunnel;    *)
(* types; the tokens of the daemon's own edges; who may take the stored    *)
(* intent away; intent, routes, cache and router of nativewg tunnels at    *)
(* rest; semaphores and leftovers of deleted tunnels. Each section starts  *)
(* with the circumstances and the inductive invariant its theorems rest on.*)
(***************************************************************************)
EXTENDS TunnelOrchestrator, FiniteSetTheorems, SequenceTheorems, TLAPS

\* What a plan holds while nobody deletes.
Kept == ActionName \ {"Delete"}

PlansOf == [Tunnels -> Seq(Kept)]

\* Shapes: the fields that the locks depend on.
Shape ==
    /\ pc \in [Handlers -> Phase]
    /\ ev = [h \in Handlers |-> ev[h]]
    /\ \A h \in Handlers : ev[h].kind # "delete"
    /\ plan \in [Handlers -> PlansOf]
    /\ plan2 \in [Handlers -> PlansOf]
    /\ cleaned = [t \in Tunnels |-> 0]
    /\ job = [h \in Handlers |-> job[h]]
    /\ \A h \in Handlers : job[h] = [tun |-> job[h].tun, gen |-> 0, snap |-> job[h].snap]

\* The tunnel of a handler that awaits, waits or executes is a tunnel, and a
\* long action under way is still the head of its plan.
Occupied ==
    /\ \A h \in Handlers : pc[h] \in {"await", "wait", "run", "busy"} => job[h].tun \in Tunnels
    /\ \A h \in Handlers : pc[h] = "busy" => plan[h][job[h].tun] # <<>>

\* While nobody deletes, every handler that executes holds its semaphore.
HoldsLock == \A h \in Handlers : pc[h] \in Executing => <<job[h].tun, job[h].gen>> \in full

LockInv == Shape /\ Occupied /\ HoldsLock /\ ExclusiveExecution

-----------------------------------------------------------------------------

\* The building blocks of decide.go never delete.
LEMMA BlocksKept ==
    ASSUME NEW t, NEW c
    PROVE  /\ StartPlan(t) \in Seq(Kept)
           /\ StopMonitoringIf(c) \in Seq(Kept)
           /\ appendPostStartActions(t) \in Seq(Kept)
           /\ appendQuiesceStopActions(t, c) \in Seq(Kept)
  <1>1. /\ <<"ApplyRoutes", "StartMonitoring", "PersistRunning">> \in Seq(Kept)
        /\ <<"ApplyRoutes", "PersistRunning">> \in Seq(Kept)
        /\ <<"StopMonitoring">> \in Seq(Kept)
        /\ <<>> \in Seq(Kept)
    BY DEF Kept, ActionName, LongActions, ShortActions, StartActions, StopActions
  <1>2. <<StartAction(t)>> \in Seq(Kept) /\ <<StopAction(t)>> \in Seq(Kept)
    BY DEF StartAction, StopAction, Kept, ActionName, LongActions, ShortActions,
           StartActions, StopActions
  <1>3. appendPostStartActions(t) \in Seq(Kept) /\ StopMonitoringIf(c) \in Seq(Kept)
    BY <1>1 DEF appendPostStartActions, StopMonitoringIf
  <1> QED
    BY <1>2, <1>3 DEF StartPlan, appendQuiesceStopActions

\* No decision but decideDelete deletes.
LEMMA DecisionsKept ==
    ASSUME NEW t, NEW c, NEW w, NEW level, NEW up
    PROVE  /\ decideStart(t, c) \in Seq(Kept)
           /\ decideStop(t, c) \in Seq(Kept)
           /\ decideRestart(t, c) \in Seq(Kept)
           /\ decideNDMSHook(t, c, level, up) \in Seq(Kept)
           /\ decideBoot(t, c) \in Seq(Kept)
           /\ decideReconnect(t, c) \in Seq(Kept)
           /\ decideWANUp(t, c, w) \in Seq(Kept)
           /\ decideWANDownSuspend(t, c, w) \in Seq(Kept)
           /\ decideWANDownFailover(t, c, w, up) \in Seq(Kept)
           /\ decideQuiesce(t, c) \in Seq(Kept)
  <1>1. /\ <<>> \in Seq(Kept)
        /\ \A a \in Kept : <<a>> \in Seq(Kept)
        /\ \A p, q \in Seq(Kept) : p \o q \in Seq(Kept)
    OBVIOUS
  <1>2. \A a \in {"ColdStartKernel", "StartNativeWG", "ReconcileNativeWG", "ReconcileKernel",
                  "ResumeKernel", "SuspendKernel", "SuspendProxy", "RestoreKmod",
                  "StartMonitoring"} : a \in Kept
    BY DEF Kept, ActionName, LongActions, ShortActions, StartActions, StopActions
  <1>3. <<StopAction(t), "RemoveRoutes", "PersistStopped">> \in Seq(Kept)
    BY DEF StopAction, Kept, ActionName, LongActions, ShortActions, StartActions, StopActions
  <1>4. decideStart(t, c) \in Seq(Kept)
    BY BlocksKept, <1>1 DEF decideStart
  <1>5. decideStop(t, c) \in Seq(Kept)
    BY BlocksKept, <1>1, <1>3 DEF decideStop
  <1>6. decideRestart(t, c) \in Seq(Kept)
    BY BlocksKept, <1>1 DEF decideRestart
  <1>7. decideNDMSHook(t, c, level, up) \in Seq(Kept)
    BY <1>1, <1>4, <1>5 DEF decideNDMSHook
  <1>8. decideBoot(t, c) \in Seq(Kept)
    BY BlocksKept, <1>1, <1>2 DEF decideBoot
  <1>9. decideReconnect(t, c) \in Seq(Kept)
    BY BlocksKept, <1>1, <1>2 DEF decideReconnect
  <1>10. decideWANUp(t, c, w) \in Seq(Kept)
    BY BlocksKept, <1>1, <1>2 DEF decideWANUp
  <1>11. decideWANDownSuspend(t, c, w) \in Seq(Kept)
    BY <1>1, <1>2 DEF decideWANDownSuspend
  <1>12. decideWANDownFailover(t, c, w, up) \in Seq(Kept)
    BY BlocksKept, <1>1 DEF decideWANDownFailover
  <1>13. decideQuiesce(t, c) \in Seq(Kept)
    BY BlocksKept, <1>1 DEF decideQuiesce
  <1> QED
    BY <1>4, <1>5, <1>6, <1>7, <1>8, <1>9, <1>10, <1>11, <1>12, <1>13

\* Whatever a handler decides, its plans are plans without a delete.
LEMMA PlansKept ==
    ASSUME NEW e, NEW c, e.kind # "delete"
    PROVE  /\ decide(e, c) \in PlansOf
           /\ EmptyPlan \in PlansOf
           /\ \A p \in decideWANDown(c, e.wan) : p[1] \in PlansOf /\ p[2] \in PlansOf
  <1> USE DEF PlansOf
  <1>1. EmptyPlan \in PlansOf
    BY DEF EmptyPlan
  <1>2. ASSUME NEW t, NEW p \in Seq(Kept)
        PROVE  OnlyFor(t, p) \in PlansOf
    BY <1>1 DEF OnlyFor
  <1>3. decide(e, c) \in PlansOf
    BY <1>1, <1>2, DecisionsKept DEF decide
  <1>4. ASSUME NEW p \in decideWANDown(c, e.wan)
        PROVE  p[1] \in PlansOf /\ p[2] \in PlansOf
    <2> DEFINE suspend  == [t \in Tunnels |-> decideWANDownSuspend(t, c[t], e.wan)]
               failover == [t \in Tunnels |-> decideWANDownFailover(t, c[t], e.wan, anyWANUp)]
    <2>1. suspend \in PlansOf /\ failover \in PlansOf
      BY DecisionsKept
    <2>2. \/ p = <<suspend, failover>>
          \/ \E t \in Tunnels : p = <<[suspend EXCEPT ![t] = <<>>],
                                      [EmptyPlan EXCEPT ![t] = suspend[t] \o failover[t]]>>
      BY <1>4 DEF decideWANDown
    <2> HIDE DEF suspend, failover
    <2>3. ASSUME NEW t \in Tunnels
          PROVE  suspend[t] \o failover[t] \in Seq(Kept) /\ <<>> \in Seq(Kept)
      BY <2>1
    <2>4. CASE p = <<suspend, failover>>
      BY <2>1, <2>4
    <2>5. ASSUME NEW t \in Tunnels,
                 p = <<[suspend EXCEPT ![t] = <<>>],
                       [EmptyPlan EXCEPT ![t] = suspend[t] \o failover[t]]>>
          PROVE  p[1] \in PlansOf /\ p[2] \in PlansOf
      <3>1. p[1] = [suspend EXCEPT ![t] = <<>>]
        BY <2>5
      <3>2. p[2] = [EmptyPlan EXCEPT ![t] = suspend[t] \o failover[t]]
        BY <2>5
      <3> QED
        BY <1>1, <2>1, <2>3, <3>1, <3>2
    <2> QED
      BY <2>2, <2>4, <2>5
  <1> QED
    BY <1>1, <1>3, <1>4

-----------------------------------------------------------------------------

\* What one handler may do to the locks: step aside, go on executing, release
\* its own semaphore, or take one that is free.
Steps(h) ==
    \/ /\ pc'[h] \notin Executing
       /\ pc'[h] \in {"await", "wait"} => job'[h].tun \in Tunnels
       /\ full' = full
    \/ /\ pc[h] \in Executing /\ pc'[h] \in Executing
       /\ job'[h].tun = job[h].tun
       /\ pc'[h] = "busy" => plan'[h][job[h].tun] # <<>>
       /\ full' = full
    \/ /\ pc[h] \in Executing /\ pc'[h] = "pick"
       /\ full' = full \ {<<job[h].tun, 0>>}
    \/ /\ pc[h] = "wait" /\ pc'[h] = "run"
       /\ job'[h].tun = job[h].tun
       /\ <<job[h].tun, 0>> \notin full
       /\ full' = full \cup {<<job[h].tun, 0>>}

\* No other handler is touched.
OthersKept(h) ==
    \A g \in Handlers \ {h} :
        pc'[g] = pc[g] /\ job'[g].tun = job[g].tun /\ plan'[g] = plan[g]

\* Such a step of one handler keeps the locks of all of them.
LEMMA OneHandler ==
    ASSUME LockInv, NEW h \in Handlers, Shape', OthersKept(h), Steps(h)
    PROVE  LockInv'
  <1> USE DEF Executing
  <1>1. /\ \A g \in Handlers : job[g].gen = 0 /\ job'[g].gen = 0
        /\ pc \in [Handlers -> Phase] /\ pc' \in [Handlers -> Phase]
    BY DEF LockInv, Shape
  <1>2. /\ \A g \in Handlers : pc[g] \in Executing => <<job[g].tun, 0>> \in full
        /\ \A g \in Handlers : pc[g] \in {"await", "wait", "run", "busy"} => job[g].tun \in Tunnels
        /\ \A g \in Handlers : pc[g] = "busy" => plan[g][job[g].tun] # <<>>
        /\ \A g, k \in Handlers :
              (g # k /\ pc[g] \in Executing /\ pc[k] \in Executing) => job[g].tun # job[k].tun
    BY <1>1 DEF LockInv, HoldsLock, ExclusiveExecution, Occupied
  <1>3. Occupied'
    BY <1>2 DEF Occupied, Steps, OthersKept
  <1>4. ASSUME NEW g \in Handlers, pc'[g] \in Executing
        PROVE  <<job'[g].tun, 0>> \in full'
    <2>1. CASE g = h
      BY <1>2, <1>4, <2>1 DEF Steps
    <2>2. CASE g # h
      <3>1. pc[g] \in Executing /\ job'[g].tun = job[g].tun /\ <<job[g].tun, 0>> \in full
        BY <1>2, <1>4, <2>2 DEF OthersKept
      <3>2. pc[h] \in Executing => <<job[g].tun, 0>> # <<job[h].tun, 0>>
        BY <1>2, <2>2, <3>1
      <3> QED
        BY <3>1, <3>2 DEF Steps
    <2> QED
      BY <2>1, <2>2
  <1>5. ASSUME NEW g \in Handlers, g # h, pc'[g] \in Executing, pc'[h] \in Executing
        PROVE  job'[g].tun # job'[h].tun
    <2>1. pc[g] \in Executing /\ job'[g].tun = job[g].tun /\ <<job[g].tun, 0>> \in full
      BY <1>2, <1>5 DEF OthersKept
    <2>2. CASE pc[h] \in Executing
      BY <1>2, <1>5, <2>1, <2>2 DEF Steps
    <2>3. CASE pc[h] \notin Executing
      <3>1. job'[h].tun = job[h].tun /\ <<job[h].tun, 0>> \notin full
        BY <1>5, <2>3 DEF Steps
      <3> QED
        BY <2>1, <3>1
    <2> QED
      BY <2>2, <2>3
  <1>6. HoldsLock'
    BY <1>1, <1>4 DEF HoldsLock
  <1>7. ExclusiveExecution'
    <2> SUFFICES ASSUME NEW g \in Handlers, NEW k \in Handlers,
                        g # k, pc'[g] \in Executing, pc'[k] \in Executing
                 PROVE  job'[g].tun # job'[k].tun
      BY DEF ExclusiveExecution
    <2>1. CASE g = h
      BY <1>5, <2>1
    <2>2. CASE k = h
      BY <1>5, <2>2
    <2>3. CASE g # h /\ k # h
      BY <1>2, <2>3 DEF OthersKept
    <2> QED
      BY <2>1, <2>2, <2>3
  <1> QED
    BY <1>3, <1>6, <1>7 DEF LockInv

-----------------------------------------------------------------------------

\* A handler that moves on without executing anything.
Moved(h) ==
    /\ \E p \in Phase \ {"await", "wait", "run", "busy"} : pc' = [pc EXCEPT ![h] = p]
    /\ \E e : e.kind # "delete" /\ ev' = [ev EXCEPT ![h] = e]
    /\ UNCHANGED <<plan, plan2, job, full, cleaned>>

LEMMA MovedKeeps ==
    ASSUME LockInv, NEW h \in Handlers, Moved(h)
    PROVE  LockInv'
  <1>1. Shape'
    BY DEF LockInv, Shape, Moved
  <1>2. OthersKept(h)
    BY DEF LockInv, Shape, Moved, OthersKept
  <1>3. Steps(h)
    BY DEF LockInv, Shape, Moved, Steps, Executing
  <1> QED
    BY <1>1, <1>2, <1>3, OneHandler

\* A handler that is done with the first action of its group.
LEMMA PoppedShape ==
    ASSUME LockInv, NEW h \in Handlers, job[h].tun \in Tunnels, plan[h][job[h].tun] # <<>>
    PROVE  /\ Popped(h) \in [Handlers -> PlansOf]
           /\ \A g \in Handlers \ {h} : Popped(h)[g] = plan[g]
           /\ Act(h) # "Delete"
  <1>1. plan[h][job[h].tun] \in Seq(Kept)
    BY DEF LockInv, Shape, PlansOf
  <1>2. Tail(plan[h][job[h].tun]) \in Seq(Kept) /\ Head(plan[h][job[h].tun]) \in Kept
    BY <1>1
  <1> QED
    BY <1>2 DEF LockInv, Shape, PlansOf, Popped, Act, Kept

\* The actions that take one step.
LEMMA PoppedKeeps ==
    ASSUME LockInv, NEW h \in Handlers,
           pc[h] = "run", plan[h][job[h].tun] # <<>>, plan' = Popped(h),
           UNCHANGED <<pc, ev, plan2, job, full, cleaned>>
    PROVE  LockInv'
  <1>1. job[h].tun \in Tunnels
    BY DEF LockInv, Occupied
  <1>2. Shape'
    BY <1>1, PoppedShape DEF LockInv, Shape
  <1>3. OthersKept(h)
    BY <1>1, PoppedShape DEF OthersKept
  <1>4. Steps(h)
    BY DEF Steps, Executing
  <1> QED
    BY <1>2, <1>3, <1>4, OneHandler

-----------------------------------------------------------------------------

\* Events that arrive, except for hooks and edits, and what follows them
\* outside executeGroup.
LEMMA ArrivalsKeep ==
    ASSUME "delete" \notin Kinds, LockInv, NEW h \in Handlers,
           \/ \E t \in Tunnels : UserEvent(h, t)
           \/ \E w \in WANs : WanSet(h, w)
           \/ Startup(h) \/ Quiesce(h) \/ Resume(h) \/ SetEnabled(h)
           \/ RestoreEndpointTracking(h)
    PROVE  LockInv'
  <1> USE DEF Phase, NoEvent
  <1>0. pc[h] \in Phase /\ pc = [pc EXCEPT ![h] = pc[h]] /\ ev = [ev EXCEPT ![h] = ev[h]]
        /\ ev[h].kind # "delete"
    BY DEF LockInv, Shape
  <1>1. ASSUME NEW t \in Tunnels, UserEvent(h, t) PROVE Moved(h)
    BY <1>1 DEF UserEvent, Moved, lockVars
  <1>2. ASSUME NEW w \in WANs, WanSet(h, w) PROVE Moved(h)
    BY <1>2 DEF WanSet, Moved, lockVars
  <1>3. ASSUME Startup(h) PROVE Moved(h)
    BY <1>0, <1>3 DEF Startup, Moved, lockVars
  <1>4. ASSUME Quiesce(h) PROVE Moved(h)
    BY <1>4 DEF Quiesce, Moved, lockVars
  <1>5. ASSUME Resume(h) PROVE Moved(h)
    BY <1>5 DEF Resume, Moved, lockVars
  <1>6. ASSUME SetEnabled(h) PROVE Moved(h)
    BY <1>6 DEF SetEnabled, Moved, lockVars
  <1>7. ASSUME RestoreEndpointTracking(h) PROVE Moved(h)
    BY <1>0, <1>7 DEF RestoreEndpointTracking, Moved, lockVars
  <1> QED
    BY <1>1, <1>2, <1>3, <1>4, <1>5, <1>6, <1>7, MovedKeeps
\* Hooks, edits and settling: the handler's tunnel changes, nobody executes.
LEMMA HooksKeep ==
    ASSUME LockInv, NEW h \in Handlers,
           \/ \E k \in Hook : ExternalHook(h, k)
           \/ \E t \in Tunnels : EditBegin(h, t)
           \/ EditEnd(h) \/ SettleEnd(h) \/ Await(h)
    PROVE  LockInv'
  <1> USE DEF Phase, NoEvent, NoJob, Executing
  <1>0. /\ pc \in [Handlers -> Phase] /\ ev = [g \in Handlers |-> ev[g]]
        /\ job = [g \in Handlers |-> job[g]]
        /\ cleaned = [t \in Tunnels |-> 0]
    BY DEF LockInv, Shape
  <1>1. ASSUME NEW k \in Hook, ExternalHook(h, k) PROVE LockInv'
    <2>1. k.tun \in Tunnels
      BY DEF Hook
    <2>2. Shape'
      BY <1>1, <2>1 DEF LockInv, Shape, ExternalHook, lockVars
    <2>3. OthersKept(h)
      BY <1>0, <1>1 DEF ExternalHook, OthersKept
    <2>4. Steps(h)
      BY <1>0, <1>1, <2>1 DEF ExternalHook, Steps, lockVars
    <2> QED
      BY <2>2, <2>3, <2>4, OneHandler
  <1>2. ASSUME NEW t \in Tunnels, EditBegin(h, t) PROVE LockInv'
    <2>1. Shape'
      BY <1>2 DEF LockInv, Shape, EditBegin, lockVars
    <2>2. OthersKept(h)
      BY <1>0, <1>2 DEF EditBegin, OthersKept
    <2>3. Steps(h)
      BY <1>0, <1>2 DEF EditBegin, Steps, lockVars
    <2> QED
      BY <2>1, <2>2, <2>3, OneHandler
  <1>3. CASE EditEnd(h)
    <2>1. Shape'
      BY <1>3 DEF LockInv, Shape, EditEnd, lockVars
    <2>2. OthersKept(h)
      BY <1>0, <1>3 DEF EditEnd, OthersKept
    <2>3. Steps(h)
      BY <1>0, <1>3 DEF EditEnd, Steps, lockVars
    <2> QED
      BY <2>1, <2>2, <2>3, OneHandler
  <1>4. CASE SettleEnd(h)
    <2>0. /\ \/ /\ pc' = [pc EXCEPT ![h] = "idle"]
                /\ ev' = [ev EXCEPT ![h] = NoEvent]
                /\ job' = [job EXCEPT ![h] = NoJob]
             \/ pc' = [pc EXCEPT ![h] = "decide"] /\ UNCHANGED <<ev, job>>
          /\ UNCHANGED <<plan, plan2, cleaned>>
      BY <1>4, Zenon DEF SettleEnd, lockVars
    <2>1. Shape'
      BY <2>0 DEF LockInv, Shape
    <2>2. OthersKept(h)
      BY <1>0, <1>4 DEF SettleEnd, OthersKept
    <2>3. Steps(h)
      BY <1>0, <1>4 DEF SettleEnd, Steps, lockVars
    <2> QED
      BY <2>1, <2>2, <2>3, OneHandler
  <1>5. CASE Await(h)
    <2>1. job[h].tun \in Tunnels /\ job[h].gen = 0
      BY <1>5 DEF LockInv, Shape, Occupied, Await
    <2>2. full' = full
      BY <1>0, <1>5, <2>1 DEF Await
    <2>3. Shape'
      BY <1>5 DEF LockInv, Shape, Await
    <2>4. OthersKept(h)
      BY <1>0, <1>5 DEF Await, OthersKept
    <2>5. Steps(h)
      BY <1>0, <1>5, <2>2 DEF Await, Steps
    <2> QED
      BY <2>3, <2>4, <2>5, OneHandler
  <1> QED
    BY <1>1, <1>2, <1>3, <1>4, <1>5

\* executeGroup: deciding, taking and releasing the semaphore, giving up.
LEMMA GroupsKeep ==
    ASSUME LockInv, NEW h \in Handlers,
           \/ Decide(h)
           \/ \E t \in Tunnels : Pick(h, t)
           \/ lockTunnel(h) \/ LockTimeout(h) \/ Cancel(h) \/ unlockTunnel(h) \/ Return(h)
    PROVE  LockInv'
  <1> USE DEF Phase, NoEvent, NoJob, Executing
  <1>0. /\ pc \in [Handlers -> Phase] /\ ev = [g \in Handlers |-> ev[g]]
        /\ job = [g \in Handlers |-> job[g]]
        /\ plan \in [Handlers -> PlansOf] /\ plan2 \in [Handlers -> PlansOf]
        /\ cleaned = [t \in Tunnels |-> 0]
        /\ job[h].gen = 0
        /\ ev[h].kind # "delete"
    BY DEF LockInv, Shape
  <1>e. EmptyPlan \in PlansOf
    BY DEF EmptyPlan, PlansOf
  <1>1. CASE Decide(h)
    <2> DEFINE c == IF ev[h].kind = "hook" THEN cache ELSE ensureTunnel(ev[h].tun, cache)
    <2>1. PICK p \in IF ev[h].kind = "wandown" THEN decideWANDown(c, ev[h].wan)
                     ELSE {<<decide(ev[h], c), EmptyPlan>>} :
             plan' = [plan EXCEPT ![h] = p[1]] /\ plan2' = [plan2 EXCEPT ![h] = p[2]]
      BY <1>1 DEF Decide
    <2>2. p[1] \in PlansOf /\ p[2] \in PlansOf
      <3> HIDE DEF c
      <3> QED
        BY <1>0, <1>e, <2>1, PlansKept
    <2>3. Shape'
      BY <1>0, <1>1, <2>1, <2>2 DEF LockInv, Shape, Decide, lockVars
    <2>4. OthersKept(h)
      BY <1>0, <1>1, <2>1 DEF Decide, OthersKept
    <2>5. Steps(h)
      BY <1>0, <1>1 DEF Decide, Steps, lockVars
    <2> QED
      BY <2>3, <2>4, <2>5, OneHandler
  <1>2. ASSUME NEW t \in Tunnels, Pick(h, t) PROVE LockInv'
    <2>1. Shape'
      BY <1>0, <1>2, <1>e DEF LockInv, Shape, Pick, lockVars
    <2>2. OthersKept(h)
      BY <1>0, <1>2 DEF Pick, OthersKept
    <2>3. Steps(h)
      BY <1>0, <1>2 DEF Pick, Steps, lockVars
    <2> QED
      BY <2>1, <2>2, <2>3, OneHandler
  <1>3. CASE lockTunnel(h)
    <2>1. Shape'
      BY <1>3 DEF LockInv, Shape, lockTunnel
    <2>2. OthersKept(h)
      BY <1>0, <1>3 DEF lockTunnel, OthersKept
    <2>3. Steps(h)
      BY <1>0, <1>3 DEF lockTunnel, Steps
    <2> QED
      BY <2>1, <2>2, <2>3, OneHandler
  <1>4. CASE LockTimeout(h)
    <2>0. [plan[h] EXCEPT ![job[h].tun] = <<>>] \in PlansOf
      <3>1. plan[h] \in [Tunnels -> Seq(Kept)] /\ <<>> \in Seq(Kept)
        BY <1>0 DEF PlansOf
      <3> QED
        BY <3>1 DEF PlansOf
    <2>1. plan' \in [Handlers -> PlansOf]
      BY <1>0, <1>4, <2>0 DEF LockTimeout
    <2>2. Shape'
      BY <1>4, <2>1 DEF LockInv, Shape, LockTimeout, lockVars
    <2>3. OthersKept(h)
      BY <1>0, <1>4 DEF LockTimeout, OthersKept
    <2>4. Steps(h)
      BY <1>0, <1>4 DEF LockTimeout, Steps, lockVars
    <2> QED
      BY <2>2, <2>3, <2>4, OneHandler
  <1>5. CASE Cancel(h)
    <2>1. Shape'
      BY <1>0, <1>5, <1>e DEF LockInv, Shape, Cancel
    <2>2. OthersKept(h)
      BY <1>0, <1>5 DEF Cancel, OthersKept
    <2>3. pc[h] = "run" => job[h].tun \in Tunnels
      BY DEF LockInv, Occupied
    <2>4. Steps(h)
      BY <1>0, <1>5, <2>3 DEF Cancel, Drained, Steps
    <2> QED
      BY <2>1, <2>2, <2>4, OneHandler
  <1>6. CASE unlockTunnel(h)
    <2>1. Shape'
      BY <1>6 DEF LockInv, Shape, unlockTunnel
    <2>2. OthersKept(h)
      BY <1>0, <1>6 DEF unlockTunnel, OthersKept
    <2>3. job[h].tun \in Tunnels
      BY <1>6 DEF LockInv, Occupied, unlockTunnel
    <2>4. Steps(h)
      BY <1>0, <1>6, <2>3 DEF unlockTunnel, Drained, Steps
    <2> QED
      BY <2>1, <2>2, <2>4, OneHandler
  <1>7. CASE Return(h)
    <2>1. Shape'
      BY <1>0, <1>7 DEF LockInv, Shape, Return, lockVars
    <2>2. OthersKept(h)
      BY <1>0, <1>7 DEF Return, OthersKept
    <2>3. Steps(h)
      BY <1>0, <1>7 DEF Return, Steps, lockVars
    <2> QED
      BY <2>1, <2>2, <2>3, OneHandler
  <1> QED
    BY <1>1, <1>2, <1>3, <1>4, <1>5, <1>6, <1>7
\* executeOne: one-step actions, the two halves of the long ones, failures.
LEMMA ActionsKeep ==
    ASSUME LockInv, NEW h \in Handlers,
           \/ OneStepAction(h) \/ FailAction(h)
           \/ Begin(h) \/ StopUnheard(h) \/ End(h) \/ FailStart(h)
    PROVE  LockInv'
  <1> USE DEF Phase, Executing
  <1>0. /\ pc \in [Handlers -> Phase] /\ job = [g \in Handlers |-> job[g]]
        /\ \A g \in Handlers : job[g] = [tun |-> job[g].tun, gen |-> 0, snap |-> job[g].snap]
        /\ plan \in [Handlers -> PlansOf]
    BY DEF LockInv, Shape
  <1>1. CASE OneStepAction(h) \/ FailAction(h)
    <2>1. /\ pc[h] = "run" /\ plan[h][job[h].tun] # <<>> /\ plan' = Popped(h)
          /\ UNCHANGED <<pc, ev, plan2, job, full, cleaned>>
      BY <1>1, Zenon DEF OneStepAction, ApplyRoutes, RemoveRoutes, Monitoring, Persist,
         NotFound, NoUpstream, SkipReconcile, FailAction, Running, lockVars
    <2> QED
      BY <2>1, PoppedKeeps
  <1>2. CASE Begin(h) \/ StopUnheard(h)
    <2>1. /\ pc[h] = "run" /\ plan[h][job[h].tun] # <<>>
          /\ \E x : job' = [job EXCEPT ![h].snap = x]
          /\ pc' = [pc EXCEPT ![h] = "busy"]
          /\ UNCHANGED <<ev, plan, plan2, full, cleaned>>
      BY <1>2 DEF Begin, StopUnheard, Drive, lockVars
    <2>2. /\ \A g \in Handlers : job'[g].tun = job[g].tun
          /\ \A g \in Handlers : job'[g] = [tun |-> job'[g].tun, gen |-> 0, snap |-> job'[g].snap]
          /\ job' = [g \in Handlers |-> job'[g]]
      BY <1>0, <2>1
    <2>3. Shape'
      BY <1>0, <2>1, <2>2 DEF LockInv, Shape
    <2>4. OthersKept(h)
      BY <1>0, <2>1, <2>2 DEF OthersKept
    <2>5. Steps(h)
      BY <1>0, <2>1, <2>2 DEF Steps
    <2> QED
      BY <2>3, <2>4, <2>5, OneHandler
  <1>3. CASE End(h) \/ FailStart(h)
    <2>1. pc[h] = "busy" /\ job[h].tun \in Tunnels /\ plan[h][job[h].tun] # <<>>
      BY <1>3 DEF End, FailStart, LockInv, Occupied
    <2>2. Act(h) # "Delete"
      BY <2>1, PoppedShape
    <2>3. /\ plan' = Popped(h)
          /\ job' = [job EXCEPT ![h].snap = NoStored]
          /\ pc' = [pc EXCEPT ![h] = "run"]
          /\ UNCHANGED <<ev, plan2, full, cleaned>>
      BY <1>3, <2>2 DEF End, FailStart, lockVars
    <2>4. /\ \A g \in Handlers : job'[g].tun = job[g].tun
          /\ \A g \in Handlers : job'[g] = [tun |-> job'[g].tun, gen |-> 0, snap |-> job'[g].snap]
          /\ job' = [g \in Handlers |-> job'[g]]
      BY <1>0, <2>3
    <2>5. Shape'
      BY <1>0, <2>1, <2>3, <2>4, PoppedShape DEF LockInv, Shape
    <2>6. OthersKept(h)
      BY <1>0, <2>1, <2>3, <2>4, PoppedShape DEF OthersKept
    <2>7. Steps(h)
      BY <1>0, <2>1, <2>3, <2>4 DEF Steps
    <2> QED
      BY <2>5, <2>6, <2>7, OneHandler
  <1> QED
    BY <1>1, <1>2, <1>3

\* Everything else the world does, crashes of the daemon included.
LEMMA EnvironmentKeeps ==
    ASSUME LockInv, Environment \/ UNCHANGED vars
    PROVE  LockInv'
  <1>1. CASE Crash
    <2>1. /\ pc' = [h \in Handlers |-> "idle"] /\ ev' = [h \in Handlers |-> NoEvent]
          /\ plan' = [h \in Handlers |-> EmptyPlan] /\ plan2' = [h \in Handlers |-> EmptyPlan]
          /\ job' = [h \in Handlers |-> NoJob]
          /\ cleaned' = [t \in Tunnels |-> 0]
      BY <1>1 DEF Crash
    <2>2. EmptyPlan \in PlansOf
      BY DEF EmptyPlan, PlansOf
    <2>3. Shape'
      BY <2>1, <2>2 DEF Shape, Phase, NoEvent, NoJob
    <2>4. Occupied' /\ HoldsLock' /\ ExclusiveExecution'
      BY <2>1 DEF Occupied, HoldsLock, ExclusiveExecution, Executing
    <2> QED
      BY <2>3, <2>4 DEF LockInv
  <1>2. CASE ~Crash
    <2>1. UNCHANGED <<pc, ev, plan, plan2, job, full, cleaned>>
      BY <1>2 DEF Environment, ToggleEnabled, ExtToggle, QuiescenceEnds, ExpireHook, ConsumeHook,
                  HookFault, lockVars, vars
    <2> QED
      BY <2>1 DEF LockInv, Shape, Occupied, HoldsLock, ExclusiveExecution
  <1> QED
    BY <1>1, <1>2

\* No step of the system breaks the lock invariant while nobody deletes.
LEMMA LocksInductive ==
    ASSUME "delete" \notin Kinds, LockInv, [Next]_vars
    PROVE  LockInv'
  <1>1. CASE Environment \/ UNCHANGED vars
    BY <1>1, EnvironmentKeeps
  <1>2. ASSUME NEW h \in Handlers, Arrive(h) PROVE LockInv'
    BY <1>2, ArrivalsKeep, HooksKeep DEF Arrive
  <1>3. ASSUME NEW h \in Handlers, Progress(h) PROVE LockInv'
    BY <1>3, ArrivalsKeep, HooksKeep, GroupsKeep, ActionsKeep DEF Progress
  <1>4. ASSUME NEW h \in Handlers, Trouble(h) PROVE LockInv'
    BY <1>4, GroupsKeep, ActionsKeep DEF Trouble
  <1> QED
    BY <1>1, <1>2, <1>3, <1>4 DEF Next

\* At start nobody executes.
LEMMA LocksInitially == Init => LockInv
  <1> SUFFICES ASSUME Init
               PROVE  LockInv
    OBVIOUS
  <1>1. /\ pc = [h \in Handlers |-> "idle"] /\ ev = [h \in Handlers |-> NoEvent]
        /\ plan = [h \in Handlers |-> EmptyPlan] /\ plan2 = [h \in Handlers |-> EmptyPlan]
        /\ job = [h \in Handlers |-> NoJob]
        /\ cleaned = [t \in Tunnels |-> 0]
    BY DEF Init
  <1>2. EmptyPlan \in PlansOf
    BY DEF EmptyPlan, PlansOf
  <1>3. Shape
    BY <1>1, <1>2 DEF Shape, Phase, NoEvent, NoJob
  <1>4. Occupied /\ HoldsLock /\ ExclusiveExecution
    BY <1>1 DEF Occupied, HoldsLock, ExclusiveExecution, Executing
  <1> QED
    BY <1>3, <1>4 DEF LockInv

\* Without deletes two handlers never execute actions of the same tunnel
\* (lockTunnel, orchestrator.go:484), however many handlers, tunnels, events,
\* failures, timeouts, cancelled requests and restarts there are.
THEOREM ExecutionIsExclusive ==
    ASSUME "delete" \notin Kinds
    PROVE  Spec => []ExclusiveExecution
  <1>1. LockInv => ExclusiveExecution
    BY DEF LockInv
  <1> QED
    BY <1>1, LocksInitially, LocksInductive, PTL DEF Spec

-----------------------------------------------------------------------------
(* Types, deletes included *)

\* What may be planned for a tunnel: ReconcileKernel is for kernel tunnels.
Fitting(t) == IF t \in KernelTunnels THEN ActionName ELSE ActionName \ {"ReconcileKernel"}

FittingPlans == {p \in [Tunnels -> Seq(ActionName)] : \A t \in Tunnels : p[t] \in Seq(Fitting(t))}

Job == [tun : Tunnels \cup {NoTunnel}, gen : Nat, snap : Stored]

\* What the outside world and the daemon's tables hold.
WorldTyped ==
    /\ store \in [Tunnels -> Stored]
    /\ cache \in [Tunnels -> TunnelState]
    /\ live \in [Tunnels -> [conf : BOOLEAN, up : BOOLEAN]]
    /\ routes \in [Tunnels -> BOOLEAN]
    /\ wanUp \subseteq WANs
    /\ expected \in [Tunnels -> [Level -> Nat]]
    /\ hooks \in [Hook -> Nat]

BooksTyped ==
    /\ loaded \in BOOLEAN
    /\ boot \in {"cold", "warm", "done"}
    /\ full \subseteq Tunnels \X Nat
    /\ cleaned \in [Tunnels -> Nat]
    /\ bounced \in [Handlers -> BOOLEAN]
    /\ firstErr \in [Handlers -> {"none", "busy", "error"}]
    /\ used \in [events : Nat, ext : Nat, fails : Nat, giveUps : Nat]

\* A handler that needs a tunnel has one: p is where it is, e its event, j its
\* group and q its plan.
AtDesk(p, e, j, q) ==
    /\ p \in {"await", "wait", "run", "busy", "edit"} => j.tun \in Tunnels
    /\ p = "busy" => q[j.tun] # <<>>
    /\ e.kind \in {"start", "stop", "restart", "delete", "hook", "edit"} => e.tun \in Tunnels
    /\ p = "flip" => e.kind = "stop"
    /\ p = "settle" => e.kind = "hook"

DesksTyped ==
    /\ pc \in [Handlers -> Phase]
    /\ ev \in [Handlers -> Event]
    /\ plan \in [Handlers -> FittingPlans]
    /\ plan2 \in [Handlers -> FittingPlans]
    /\ job \in [Handlers -> Job]
    /\ \A h \in Handlers : AtDesk(pc[h], ev[h], job[h], plan[h])

TypeInv == WorldTyped /\ BooksTyped /\ DesksTyped

\* A step that is one handler's.
DeskStep(h) ==
    /\ pc' = [pc EXCEPT ![h] = pc'[h]] /\ pc'[h] \in Phase
    /\ ev' = [ev EXCEPT ![h] = ev'[h]] /\ ev'[h] \in Event
    /\ plan' = [plan EXCEPT ![h] = plan'[h]] /\ plan'[h] \in FittingPlans
    /\ plan2' = [plan2 EXCEPT ![h] = plan2'[h]] /\ plan2'[h] \in FittingPlans
    /\ job' = [job EXCEPT ![h] = job'[h]] /\ job'[h] \in Job
    /\ AtDesk(pc'[h], ev'[h], job'[h], plan'[h])

\* It leaves every other handler as it was.
LEMMA DeskStepTyped ==
    ASSUME DesksTyped, NEW h \in Handlers, DeskStep(h)
    PROVE  DesksTyped'
  <1>1. /\ pc' \in [Handlers -> Phase] /\ ev' \in [Handlers -> Event]
        /\ plan' \in [Handlers -> FittingPlans] /\ plan2' \in [Handlers -> FittingPlans]
        /\ job' \in [Handlers -> Job]
    BY DEF DesksTyped, DeskStep
  <1>2. ASSUME NEW g \in Handlers PROVE AtDesk(pc'[g], ev'[g], job'[g], plan'[g])
    <2>1. CASE g = h
      BY <2>1 DEF DeskStep
    <2>2. CASE g # h
      <3>1. pc'[g] = pc[g] /\ ev'[g] = ev[g] /\ job'[g] = job[g] /\ plan'[g] = plan[g]
        BY <2>2 DEF DesksTyped, DeskStep
      <3> QED
        BY <3>1 DEF DesksTyped
    <2> QED
      BY <2>1, <2>2
  <1> QED
    BY <1>1, <1>2 DEF DesksTyped

LEMMA WorldStays ==
    ASSUME WorldTyped, UNCHANGED <<store, cache, live, routes, wanUp, expected, hooks>>
    PROVE  WorldTyped'
  BY DEF WorldTyped

LEMMA BooksStay ==
    ASSUME BooksTyped, UNCHANGED <<loaded, boot, full, cleaned, bounced, firstErr, used>>
    PROVE  BooksTyped'
  BY DEF BooksTyped

LEMMA DesksStay ==
    ASSUME DesksTyped, UNCHANGED <<pc, ev, plan, plan2, job>>
    PROVE  DesksTyped'
  BY DEF DesksTyped

\* Whatever decide.go plans for a tunnel fits it.
LEMMA DecisionsFit ==
    ASSUME NEW t, NEW c, NEW w, NEW level, NEW up
    PROVE  /\ decideStart(t, c) \in Seq(Fitting(t))
           /\ decideStop(t, c) \in Seq(Fitting(t))
           /\ decideRestart(t, c) \in Seq(Fitting(t))
           /\ decideDelete(t, c) \in Seq(Fitting(t))
           /\ decideNDMSHook(t, c, level, up) \in Seq(Fitting(t))
           /\ decideBoot(t, c) \in Seq(Fitting(t))
           /\ decideReconnect(t, c) \in Seq(Fitting(t))
           /\ decideWANUp(t, c, w) \in Seq(Fitting(t))
           /\ decideWANDownSuspend(t, c, w) \in Seq(Fitting(t))
           /\ decideWANDownFailover(t, c, w, up) \in Seq(Fitting(t))
           /\ decideQuiesce(t, c) \in Seq(Fitting(t))
  <1> DEFINE F == Fitting(t)
  <1>a. /\ ActionName \ {"ReconcileKernel"} \subseteq F
        /\ t \in KernelTunnels => "ReconcileKernel" \in F
    BY DEF Fitting, ActionName, LongActions, StartActions
  <1>1. /\ <<>> \in Seq(F)
        /\ \A a \in F : <<a>> \in Seq(F)
        /\ \A p, q \in Seq(F) : p \o q \in Seq(F)
    OBVIOUS
  <1>2. \A a \in {"ColdStartKernel", "StartNativeWG", "ReconcileNativeWG", "ResumeKernel",
                  "SuspendKernel", "SuspendProxy", "RestoreKmod", "StartMonitoring",
                  "StopMonitoring", "StopKernel", "StopNativeWG", "RemoveRoutes", "DeleteRoutes",
                  "PersistStopped", "PersistRunning", "ApplyRoutes", "Delete"} : a \in F
    BY <1>a DEF ActionName, LongActions, ShortActions, StartActions, StopActions
  <1> HIDE DEF F
  <1>3. /\ <<"ApplyRoutes", "StartMonitoring", "PersistRunning">> \in Seq(F)
        /\ <<"ApplyRoutes", "PersistRunning">> \in Seq(F)
        /\ <<"DeleteRoutes", "Delete">> \in Seq(F)
    BY <1>2
  <1>4. /\ StopMonitoringIf(c) \in Seq(F) /\ appendPostStartActions(t) \in Seq(F)
    BY <1>1, <1>2, <1>3 DEF appendPostStartActions, StopMonitoringIf
  <1>5. StartAction(t) \in F /\ StopAction(t) \in F
    BY <1>2 DEF StartAction, StopAction
  <1>6. StartPlan(t) \in Seq(F) /\ appendQuiesceStopActions(t, c) \in Seq(F)
    BY <1>1, <1>4, <1>5 DEF StartPlan, appendQuiesceStopActions
  <1>7. <<StopAction(t), "RemoveRoutes", "PersistStopped">> \in Seq(F)
    BY <1>2, <1>5
  <1>8. decideStart(t, c) \in Seq(F)
    BY <1>1, <1>6 DEF decideStart
  <1>9. decideStop(t, c) \in Seq(F)
    BY <1>1, <1>4, <1>7 DEF decideStop
  <1>10. decideRestart(t, c) \in Seq(F)
    BY <1>1, <1>6 DEF decideRestart
  <1>11. decideDelete(t, c) \in Seq(F)
    BY <1>1, <1>3, <1>4 DEF decideDelete
  <1>12. decideNDMSHook(t, c, level, up) \in Seq(F)
    BY <1>1, <1>8, <1>9 DEF decideNDMSHook
  <1>13. decideBoot(t, c) \in Seq(F)
    BY <1>1, <1>2, <1>4, <1>6, <1>a DEF decideBoot
  <1>14. decideReconnect(t, c) \in Seq(F)
    BY <1>1, <1>2, <1>6, <1>a DEF decideReconnect
  <1>15. decideWANUp(t, c, w) \in Seq(F)
    BY <1>1, <1>2, <1>6, <1>a DEF decideWANUp
  <1>16. decideWANDownSuspend(t, c, w) \in Seq(F)
    BY <1>1, <1>2 DEF decideWANDownSuspend
  <1>17. decideWANDownFailover(t, c, w, up) \in Seq(F)
    BY <1>1, <1>6 DEF decideWANDownFailover
  <1>18. decideQuiesce(t, c) \in Seq(F)
    BY <1>1, <1>6 DEF decideQuiesce
  <1> QED
    BY <1>8, <1>9, <1>10, <1>11, <1>12, <1>13, <1>14, <1>15, <1>16, <1>17, <1>18 DEF F

\* A plan that fits every tunnel is a fitting plan.
LEMMA FittingIsPlan ==
    ASSUME NEW p, p = [t \in Tunnels |-> p[t]], \A t \in Tunnels : p[t] \in Seq(Fitting(t))
    PROVE  p \in FittingPlans
  <1>1. ASSUME NEW t \in Tunnels PROVE p[t] \in Seq(ActionName)
    BY DEF Fitting
  <1> QED
    BY <1>1 DEF FittingPlans

\* Whatever a handler decides is a fitting plan.
LEMMA PlansFit ==
    ASSUME NEW e, NEW c
    PROVE  /\ decide(e, c) \in FittingPlans
           /\ EmptyPlan \in FittingPlans
           /\ \A p \in decideWANDown(c, e.wan) : p[1] \in FittingPlans /\ p[2] \in FittingPlans
  <1>0. ASSUME NEW t PROVE <<>> \in Seq(Fitting(t))
    OBVIOUS
  <1>1. EmptyPlan \in FittingPlans
    BY <1>0, FittingIsPlan DEF EmptyPlan
  <1>2. ASSUME NEW t, NEW p \in Seq(Fitting(t))
        PROVE  OnlyFor(t, p) \in FittingPlans
    <2>1. OnlyFor(t, p) = [u \in Tunnels |-> IF u = t THEN p ELSE <<>>]
      BY DEF OnlyFor, EmptyPlan
    <2>2. ASSUME NEW u \in Tunnels PROVE OnlyFor(t, p)[u] \in Seq(Fitting(u))
      BY <1>0, <2>1
    <2>3. OnlyFor(t, p) = [u \in Tunnels |-> OnlyFor(t, p)[u]]
      BY <2>1
    <2> QED
      BY <2>2, <2>3, FittingIsPlan
  <1>3. /\ [t \in Tunnels |-> decideWANUp(t, c[t], e.wan)] \in FittingPlans
        /\ [t \in Tunnels |-> decideBoot(t, c[t])] \in FittingPlans
        /\ [t \in Tunnels |-> decideReconnect(t, c[t])] \in FittingPlans
        /\ [t \in Tunnels |-> decideQuiesce(t, c[t])] \in FittingPlans
    BY DecisionsFit, FittingIsPlan
  <1>4. decide(e, c) \in FittingPlans
    BY <1>1, <1>2, <1>3, DecisionsFit DEF decide
  <1>5. ASSUME NEW p \in decideWANDown(c, e.wan)
        PROVE  p[1] \in FittingPlans /\ p[2] \in FittingPlans
    <2> DEFINE suspend  == [t \in Tunnels |-> decideWANDownSuspend(t, c[t], e.wan)]
               failover == [t \in Tunnels |-> decideWANDownFailover(t, c[t], e.wan, anyWANUp)]
    <2>1. suspend \in FittingPlans /\ failover \in FittingPlans
      BY DecisionsFit, FittingIsPlan
    <2>2. \/ p = <<suspend, failover>>
          \/ \E t \in Tunnels : p = <<[suspend EXCEPT ![t] = <<>>],
                                      [EmptyPlan EXCEPT ![t] = suspend[t] \o failover[t]]>>
      BY <1>5 DEF decideWANDown
    <2> HIDE DEF suspend, failover
    <2>3. CASE p = <<suspend, failover>>
      BY <2>1, <2>3
    <2>4. ASSUME NEW t \in Tunnels,
                 p = <<[suspend EXCEPT ![t] = <<>>],
                       [EmptyPlan EXCEPT ![t] = suspend[t] \o failover[t]]>>
          PROVE  p[1] \in FittingPlans /\ p[2] \in FittingPlans
      <3>1. p[1] = [suspend EXCEPT ![t] = <<>>]
        BY <2>4
      <3>2. p[2] = OnlyFor(t, suspend[t] \o failover[t])
        BY <2>4 DEF OnlyFor
      <3>3. suspend[t] \in Seq(Fitting(t)) /\ failover[t] \in Seq(Fitting(t))
        BY <2>1 DEF FittingPlans
      <3>4. suspend[t] \o failover[t] \in Seq(Fitting(t))
        BY <3>3
      <3>5. p[1] = [u \in Tunnels |-> p[1][u]] /\ \A u \in Tunnels : p[1][u] \in Seq(Fitting(u))
        BY <1>0, <2>1, <3>1 DEF FittingPlans
      <3>6. p[1] \in FittingPlans
        BY <3>5, FittingIsPlan
      <3>7. p[2] \in FittingPlans
        BY <1>2, <3>2, <3>4
      <3> QED
        BY <3>6, <3>7
    <2> QED
      BY <2>2, <2>3, <2>4
  <1> QED
    BY <1>1, <1>4, <1>5

\* The first action of a plan fits its tunnel, and so does what follows it.
LEMMA PoppedFits ==
    ASSUME DesksTyped, NEW h \in Handlers, job[h].tun \in Tunnels, plan[h][job[h].tun] # <<>>
    PROVE  /\ Popped(h) = [plan EXCEPT ![h] = Popped(h)[h]]
           /\ Popped(h)[h] \in FittingPlans
           /\ Act(h) \in Fitting(job[h].tun)
  <1> DEFINE t == job[h].tun
             p == [plan[h] EXCEPT ![t] = Tail(@)]
  <1>1. plan[h] \in FittingPlans /\ plan[h][t] \in Seq(Fitting(t))
    BY DEF DesksTyped, FittingPlans
  <1>0. ASSUME NEW S, NEW q \in Seq(S), q # <<>> PROVE Tail(q) \in Seq(S) /\ Head(q) \in S
    BY <1>0
  <1>2. Tail(plan[h][t]) \in Seq(Fitting(t)) /\ Head(plan[h][t]) \in Fitting(t)
    BY <1>0, <1>1
  <1>3. Popped(h) = [plan EXCEPT ![h] = p] /\ Popped(h)[h] = p
    BY DEF Popped, DesksTyped
  <1>4. p = [u \in Tunnels |-> p[u]] /\ \A u \in Tunnels : p[u] \in Seq(Fitting(u))
    BY <1>1, <1>2 DEF FittingPlans
  <1>5. p \in FittingPlans
    <2> HIDE DEF p
    <2> QED
      BY <1>4, FittingIsPlan
  <1> QED
    BY <1>2, <1>3, <1>5 DEF Act

\* The stored tunnel without its tunnel: what loading and refreshing yield.
LEMMA StatesTyped ==
    /\ Unknown \in TunnelState
    /\ \A s \in Stored : FromStored(s) \in TunnelState
    /\ \A c \in TunnelState, s \in Stored : Refreshed(c, s) \in TunnelState
    /\ \A c \in TunnelState, s \in Stored, a \in ActionName : updateState(c, a, s) \in TunnelState
    /\ NoStored \in Stored
  <1>1. Unknown \in TunnelState /\ NoStored \in Stored
    BY DEF Unknown, TunnelState, NoStored, Stored
  <1>2. ASSUME NEW s \in Stored PROVE FromStored(s) \in TunnelState
    BY DEF FromStored, Unknown, TunnelState, Stored
  <1>3. ASSUME NEW c \in TunnelState, NEW s \in Stored PROVE Refreshed(c, s) \in TunnelState
    BY <1>2 DEF Refreshed, TunnelState
  <1>4. ASSUME NEW c \in TunnelState, NEW s \in Stored, NEW a \in ActionName
        PROVE  updateState(c, a, s) \in TunnelState
    <2>1. CASE ~c.known
      BY <2>1 DEF updateState
    <2>2. CASE c.known /\ a \in StartActions
      <3>1. updateState(c, a, s) =
                [c EXCEPT !.running = TRUE, !.quiescent = TRUE, !.activeWAN = s.activeWAN]
        BY <2>2 DEF updateState, StartActions, StopActions
      <3> QED
        BY <3>1 DEF TunnelState, Stored
    <2>3. CASE c.known /\ a \in StopActions
      <3>1. updateState(c, a, s) =
                [c EXCEPT !.running = FALSE, !.monitoring = FALSE, !.activeWAN = NoWAN]
        BY <2>3 DEF updateState, StartActions, StopActions
      <3> QED
        BY <3>1 DEF TunnelState
    <2>4. CASE c.known /\ a \in {"StartMonitoring", "StopMonitoring"}
      BY <2>4 DEF updateState, TunnelState, StartActions, StopActions
    <2>5. CASE c.known /\ a = "Delete"
      BY <1>1, <2>5 DEF updateState, StartActions, StopActions
    <2>6. CASE c.known /\ a \notin StartActions \cup StopActions
                         \cup {"StartMonitoring", "StopMonitoring", "Delete"}
      BY <2>6 DEF updateState
    <2> QED
      BY <2>1, <2>2, <2>3, <2>4, <2>5, <2>6
  <1> QED
    BY <1>1, <1>2, <1>3, <1>4

\* LoadState fills the cache and the books.
LEMMA LoadStateTyped ==
    ASSUME WorldTyped, BooksTyped, LoadState
    PROVE  /\ cache' \in [Tunnels -> TunnelState]
           /\ loaded' \in BOOLEAN
           /\ bounced' \in [Handlers -> BOOLEAN]
           /\ used' \in [events : Nat, ext : Nat, fails : Nat, giveUps : Nat]
  <1>1. PICK bad \in SUBSET Tunnels :
             /\ used' = [used EXCEPT !.fails = @ + Cardinality(bad), !.events = @ + 1]
             /\ cache' = LoadedCache(bad)
             /\ loaded' = TRUE
             /\ bounced' = [h \in Handlers |-> FALSE]
    BY DEF LoadState
  <1>2. Cardinality(bad) \in Nat
    BY FS_CardinalityType, FS_Subset, DecideAssumption
  <1>3. used' \in [events : Nat, ext : Nat, fails : Nat, giveUps : Nat]
    <2> DEFINE n == Cardinality(bad)
    <2>1. n \in Nat /\ used' = [used EXCEPT !.fails = @ + n, !.events = @ + 1]
      BY <1>1, <1>2
    <2> HIDE DEF n
    <2>2. used = [events |-> used.events, ext |-> used.ext, fails |-> used.fails,
                  giveUps |-> used.giveUps]
          /\ used.events \in Nat /\ used.ext \in Nat /\ used.fails \in Nat /\ used.giveUps \in Nat
      BY DEF BooksTyped
    <2>3. used' = [events |-> used.events + 1, ext |-> used.ext, fails |-> used.fails + n,
                   giveUps |-> used.giveUps]
      BY <2>1, <2>2
    <2> QED
      BY <2>1, <2>2, <2>3
  <1>4. ASSUME NEW t \in Tunnels PROVE LoadedCache(bad)[t] \in TunnelState
    <2>1. FromStored(store[t]) \in TunnelState /\ cache[t] \in TunnelState
          /\ Detected(t, bad) \in BOOLEAN
      BY StatesTyped DEF WorldTyped, Detected
    <2>2. LoadedCache(bad)[t] = IF ~store[t].exists THEN cache[t]
              ELSE [FromStored(store[t]) EXCEPT !.running = Detected(t, bad),
                        !.monitoring = Detected(t, bad) /\ t \in PingChecked]
      BY DEF LoadedCache
    <2> QED
      BY <2>1, <2>2 DEF TunnelState
  <1>5. cache' \in [Tunnels -> TunnelState]
    BY <1>1, <1>4 DEF LoadedCache
  <1> QED
    BY <1>1, <1>3, <1>5

-----------------------------------------------------------------------------

\* Events that arrive: UserEvent, WanSet, Startup, Quiesce, Resume, EditBegin.
LEMMA ArrivalsTyped ==
    ASSUME TypeInv, NEW h \in Handlers,
           \/ \E t \in Tunnels : UserEvent(h, t) \/ EditBegin(h, t)
           \/ \E w \in WANs : WanSet(h, w)
           \/ Startup(h) \/ Quiesce(h) \/ Resume(h)
    PROVE  TypeInv'
  <1> USE DEF Phase, lockVars, routerVars
  <1>0. WorldTyped /\ BooksTyped /\ DesksTyped
    BY DEF TypeInv
  <1>s. ASSUME Spend PROVE used' \in [events : Nat, ext : Nat, fails : Nat, giveUps : Nat]
    BY <1>0, <1>s DEF Spend, BooksTyped
  <1>1. ASSUME NEW t \in Tunnels, UserEvent(h, t) PROVE TypeInv'
    <2>1. WorldTyped'
      BY <1>0, <1>1, WorldStays DEF UserEvent
    <2>2. BooksTyped'
      BY <1>0, <1>1, <1>s DEF UserEvent, BooksTyped
    <2>a. PICK k \in Kinds \cap {"start", "stop", "restart", "delete"} :
             ev' = [ev EXCEPT ![h] = [NoEvent EXCEPT !.kind = k, !.tun = t]]
      BY <1>1 DEF UserEvent
    <2>b. ev'[h] \in Event /\ ev'[h].tun = t
      BY <1>0, <2>a DEF DesksTyped, NoEvent, Event, Level
    <2>3. DeskStep(h)
      BY <1>0, <1>1, <2>a, <2>b DEF UserEvent, DesksTyped, DeskStep, AtDesk
    <2> QED
      BY <1>0, <2>1, <2>2, <2>3, DeskStepTyped DEF TypeInv
  <1>2. ASSUME NEW t \in Tunnels, EditBegin(h, t) PROVE TypeInv'
    <2>1. WorldTyped'
      BY <1>0, <1>2, WorldStays DEF EditBegin
    <2>2. BooksTyped'
      BY <1>0, <1>2, <1>s DEF EditBegin, BooksTyped
    <2>3. [NoJob EXCEPT !.tun = t, !.snap = store[t]] \in Job
      BY <1>0 DEF NoJob, Job, WorldTyped
    <2>b. ev'[h] \in Event /\ ev'[h].tun = t /\ job'[h] \in Job /\ job'[h].tun = t
      BY <1>0, <1>2, <2>3 DEF EditBegin, DesksTyped, NoEvent, Event, Level, NoJob
    <2>4. DeskStep(h)
      BY <1>0, <1>2, <2>b DEF EditBegin, DesksTyped, DeskStep, AtDesk
    <2> QED
      BY <1>0, <2>1, <2>2, <2>4, DeskStepTyped DEF TypeInv
  <1>3. ASSUME NEW w \in WANs, WanSet(h, w) PROVE TypeInv'
    <2>1. WorldTyped'
      BY <1>0, <1>3 DEF WanSet, WorldTyped
    <2>2. BooksTyped'
      BY <1>0, <1>3, <1>s DEF WanSet, BooksTyped
    <2>b. ev'[h] \in Event /\ ev'[h].kind \in {"wanup", "wandown"}
      <3>1. PICK k \in {"wanup", "wandown"} :
               ev' = [ev EXCEPT ![h] = [NoEvent EXCEPT !.kind = k, !.wan = w]]
        BY <1>3 DEF WanSet
      <3>2. ev'[h] = [NoEvent EXCEPT !.kind = k, !.wan = w]
        BY <1>0, <3>1 DEF DesksTyped
      <3> QED
        BY <3>2 DEF NoEvent, Event, Level
    <2>3. DeskStep(h)
      BY <1>0, <1>3, <2>b DEF WanSet, DesksTyped, DeskStep, AtDesk
    <2> QED
      BY <1>0, <2>1, <2>2, <2>3, DeskStepTyped DEF TypeInv
  <1>4. CASE Quiesce(h) \/ Resume(h)
    <2>0. LoadState
      BY <1>4 DEF Quiesce, Resume
    <2>1. WorldTyped'
      BY <1>0, <1>4, <2>0, LoadStateTyped DEF Quiesce, Resume, WorldTyped
    <2>2. BooksTyped'
      BY <1>0, <1>4, <2>0, LoadStateTyped DEF Quiesce, Resume, BooksTyped
    <2>b. ev'[h] \in Event /\ ev'[h].kind \in {"quiesce", "resume"}
      <3>1. PICK k \in {"quiesce", "resume"} : ev'[h] = [NoEvent EXCEPT !.kind = k]
        BY <1>0, <1>4 DEF Quiesce, Resume, DesksTyped
      <3> QED
        BY <3>1 DEF NoEvent, Event, Level
    <2>3. DeskStep(h)
      BY <1>0, <1>4, <2>b DEF Quiesce, Resume, DesksTyped, DeskStep, AtDesk
    <2> QED
      BY <1>0, <2>1, <2>2, <2>3, DeskStepTyped DEF TypeInv
  <1>5. CASE Startup(h)
    <2>1. CASE boot = "cold" /\ wanUp = {}
      <3>1. WorldTyped' /\ DesksTyped'
        BY <1>0, <1>5, <2>1, WorldStays, DesksStay DEF Startup
      <3>2. BooksTyped'
        BY <1>0, <1>5, <2>1 DEF Startup, BooksTyped
      <3> QED
        BY <3>1, <3>2 DEF TypeInv
    <2>2. CASE ~(boot = "cold" /\ wanUp = {})
      <3>0. LoadState
        BY <1>5, <2>2 DEF Startup
      <3>1. WorldTyped'
        BY <1>0, <1>5, <3>0, LoadStateTyped DEF Startup, WorldTyped
      <3>2. BooksTyped'
        BY <1>0, <1>5, <3>0, LoadStateTyped DEF Startup, BooksTyped
      <3>b. ev'[h] \in Event /\ ev'[h].kind \in {"boot", "reconnect"}
        <4>1. PICK k \in {"boot", "reconnect"} : ev'[h] = [NoEvent EXCEPT !.kind = k]
          BY <1>0, <1>5, <2>2 DEF Startup, DesksTyped
        <4> QED
          BY <4>1 DEF NoEvent, Event, Level
      <3>3. DeskStep(h)
        BY <1>0, <1>5, <2>2, <3>b DEF Startup, DesksTyped, DeskStep, AtDesk
      <3> QED
        BY <1>0, <3>1, <3>2, <3>3, DeskStepTyped DEF TypeInv
    <2> QED
      BY <2>1, <2>2
  <1> QED
    BY <1>1, <1>2, <1>3, <1>4, <1>5

\* Conf hooks up to the decision: ExternalHook, Await, SettleEnd.
LEMMA HooksTyped ==
    ASSUME TypeInv, NEW h \in Handlers,
           (\E k \in Hook : ExternalHook(h, k)) \/ Await(h) \/ SettleEnd(h)
    PROVE  TypeInv'
  <1> USE DEF Phase, lockVars, routerVars
  <1>0. WorldTyped /\ BooksTyped /\ DesksTyped
    BY DEF TypeInv
  <1>j. NoJob \in Job /\ NoEvent \in Event /\ NoEvent.kind = "none"
    BY DEF NoJob, Job, NoStored, Stored, NoEvent, Event, Level
  <1>1. ASSUME NEW k \in Hook, ExternalHook(h, k) PROVE TypeInv'
    <2>0. k.tun \in Tunnels /\ k.level \in Level /\ k.own \in BOOLEAN
      BY DEF Hook
    <2>1. WorldTyped'
      <3>1. hooks' \in [Hook -> Nat]
        <4>1. hooks[k] \in Nat /\ hooks[k] > 0 /\ hooks' = [hooks EXCEPT ![k] = hooks[k] - 1]
          BY <1>0, <1>1 DEF ExternalHook, WorldTyped
        <4>2. hooks[k] - 1 \in Nat
          BY <4>1
        <4> QED
          BY <1>0, <4>1, <4>2 DEF WorldTyped
      <3> QED
        BY <1>0, <1>1, <3>1 DEF ExternalHook, WorldTyped
    <2>2. bounced' \in [Handlers -> BOOLEAN]
      BY <1>0, <1>1, <2>0 DEF ExternalHook, BooksTyped, WorldTyped, noteConfRunning, TunnelState
    <2>3. BooksTyped'
      BY <1>0, <1>1, <2>2 DEF ExternalHook, BooksTyped
    <2>4. [NoJob EXCEPT !.tun = k.tun, !.gen = cleaned[k.tun]] \in Job
      BY <1>0, <2>0 DEF NoJob, Job, BooksTyped, NoStored, Stored
    <2>b. /\ ev'[h] \in Event /\ ev'[h].kind = "hook" /\ ev'[h].tun = k.tun
          /\ job'[h] \in Job /\ job'[h].tun = k.tun
      BY <1>0, <1>1, <2>0, <2>4 DEF ExternalHook, DesksTyped, NoEvent, Event, Level, NoJob
    <2>5. DeskStep(h)
      BY <1>0, <1>1, <2>0, <2>b DEF ExternalHook, DesksTyped, DeskStep, AtDesk
    <2> QED
      BY <1>0, <2>1, <2>3, <2>5, DeskStepTyped DEF TypeInv
  <1>2. CASE Await(h)
    <2>1. WorldTyped'
      BY <1>0, <1>2, WorldStays DEF Await
    <2>0. job[h].tun \in Tunnels /\ job[h].gen \in Nat
      BY <1>0, <1>2 DEF Await, DesksTyped, AtDesk, Job
    <2>2. full' \subseteq Tunnels \X Nat
      BY <1>0, <1>2, <2>0 DEF Await, BooksTyped
    <2>3. BooksTyped'
      BY <1>0, <1>2, <2>2 DEF Await, BooksTyped
    <2>4. DeskStep(h)
      BY <1>0, <1>2 DEF Await, DesksTyped, DeskStep, AtDesk
    <2> QED
      BY <1>0, <2>1, <2>3, <2>4, DeskStepTyped DEF TypeInv
  <1>3. CASE SettleEnd(h)
    <2>1. WorldTyped'
      BY <1>0, <1>3, WorldStays DEF SettleEnd
    <2>2. BooksTyped'
      BY <1>0, <1>3 DEF SettleEnd, BooksTyped
    <2>3. DeskStep(h)
      BY <1>0, <1>3, <1>j DEF SettleEnd, DesksTyped, DeskStep, AtDesk
    <2> QED
      BY <1>0, <2>1, <2>2, <2>3, DeskStepTyped DEF TypeInv
  <1> QED
    BY <1>1, <1>2, <1>3

\* Whatever bound is used up, the counts stay counts.
LEMMA UsedTyped ==
    ASSUME BooksTyped
    PROVE  /\ [used EXCEPT !.ext = @ + 1] \in [events : Nat, ext : Nat, fails : Nat, giveUps : Nat]
           /\ [used EXCEPT !.fails = @ + 1] \in [events : Nat, ext : Nat, fails : Nat, giveUps : Nat]
           /\ [used EXCEPT !.giveUps = @ + 1] \in [events : Nat, ext : Nat, fails : Nat, giveUps : Nat]
  BY DEF BooksTyped

\* Deciding and what frames the execution of a group.
LEMMA GroupsTyped ==
    ASSUME TypeInv, NEW h \in Handlers,
           \/ Decide(h) \/ RestoreEndpointTracking(h)
           \/ \E t \in Tunnels : Pick(h, t)
           \/ lockTunnel(h) \/ LockTimeout(h) \/ Cancel(h) \/ unlockTunnel(h) \/ Return(h)
           \/ SetEnabled(h) \/ EditEnd(h)
    PROVE  TypeInv'
  <1> USE DEF Phase, lockVars, routerVars
  <1>0. WorldTyped /\ BooksTyped /\ DesksTyped
    BY DEF TypeInv
  <1>j. NoJob \in Job /\ NoEvent \in Event /\ NoEvent.kind = "none"
    BY DEF NoJob, Job, NoStored, Stored, NoEvent, Event, Level
  <1>e. EmptyPlan \in FittingPlans
    BY PlansFit
  <1>d. /\ pc[h] \in Phase /\ ev[h] \in Event /\ job[h] \in Job
        /\ plan[h] \in FittingPlans /\ plan2[h] \in FittingPlans
        /\ AtDesk(pc[h], ev[h], job[h], plan[h])
        /\ pc = [pc EXCEPT ![h] = pc[h]] /\ ev = [ev EXCEPT ![h] = ev[h]]
        /\ job = [job EXCEPT ![h] = job[h]] /\ plan = [plan EXCEPT ![h] = plan[h]]
        /\ plan2 = [plan2 EXCEPT ![h] = plan2[h]]
    BY <1>0 DEF DesksTyped
  <1>1. CASE Decide(h)
    <2> DEFINE c == IF ev[h].kind = "hook" THEN cache ELSE ensureTunnel(ev[h].tun, cache)
    <2>1. PICK p \in IF ev[h].kind = "wandown" THEN decideWANDown(c, ev[h].wan)
                     ELSE {<<decide(ev[h], c), EmptyPlan>>} :
             plan' = [plan EXCEPT ![h] = p[1]] /\ plan2' = [plan2 EXCEPT ![h] = p[2]]
      BY <1>1 DEF Decide
    <2>2. cache' \in [Tunnels -> TunnelState]
      <3>1. cache' = c
        BY <1>1 DEF Decide
      <3>2. \A t \in Tunnels : FromStored(store[t]) \in TunnelState
        BY <1>0, StatesTyped DEF WorldTyped
      <3> QED
        BY <1>0, <1>d, <3>1, <3>2 DEF ensureTunnel, WorldTyped, Event
    <2> HIDE DEF c
    <2>3. p[1] \in FittingPlans /\ p[2] \in FittingPlans
      <3>1. CASE ev[h].kind = "wandown"
        BY <2>1, <3>1, PlansFit
      <3>2. CASE ev[h].kind # "wandown"
        <4>1. p = <<decide(ev[h], c), EmptyPlan>>
          BY <2>1, <3>2
        <4> QED
          BY <4>1, PlansFit
      <3> QED
        BY <3>1, <3>2
    <2>4. WorldTyped'
      BY <1>0, <1>1, <2>2 DEF Decide, WorldTyped
    <2>5. BooksTyped'
      BY <1>0, <1>1 DEF Decide, BooksTyped
    <2>6. DeskStep(h)
      BY <1>0, <1>d, <1>1, <2>1, <2>3 DEF Decide, DesksTyped, DeskStep, AtDesk
    <2> QED
      BY <1>0, <2>4, <2>5, <2>6, DeskStepTyped DEF TypeInv
  <1>2. CASE RestoreEndpointTracking(h)
    <2>1. store' \in [Tunnels -> Stored]
      BY <1>0, <1>2 DEF RestoreEndpointTracking, WorldTyped, Stored
    <2>2. WorldTyped'
      BY <1>0, <1>2, <2>1 DEF RestoreEndpointTracking, WorldTyped
    <2>3. BooksTyped'
      BY <1>0, <1>2, BooksStay DEF RestoreEndpointTracking
    <2>4. DeskStep(h)
      BY <1>0, <1>d, <1>2 DEF RestoreEndpointTracking, DesksTyped, DeskStep, AtDesk
    <2> QED
      BY <1>0, <2>2, <2>3, <2>4, DeskStepTyped DEF TypeInv
  <1>3. ASSUME NEW t \in Tunnels, Pick(h, t) PROVE TypeInv'
    <2>1. WorldTyped' /\ BooksTyped'
      BY <1>0, <1>3, WorldStays, BooksStay DEF Pick
    <2>2. job'[h] \in Job /\ job'[h].tun = t
      BY <1>0, <1>3 DEF Pick, NoJob, Job, BooksTyped, DesksTyped, NoStored, Stored
    <2>3. DeskStep(h)
      BY <1>0, <1>d, <1>e, <1>3, <2>2 DEF Pick, DesksTyped, DeskStep, AtDesk
    <2> QED
      BY <1>0, <2>1, <2>3, DeskStepTyped DEF TypeInv
  <1>4. CASE lockTunnel(h)
    <2>0. job[h].tun \in Tunnels /\ job[h].gen \in Nat
      BY <1>d, <1>4 DEF lockTunnel, AtDesk, Job
    <2>1. WorldTyped'
      BY <1>0, <1>4, WorldStays DEF lockTunnel
    <2>2. BooksTyped'
      BY <1>0, <1>4, <2>0 DEF lockTunnel, BooksTyped
    <2>3. DeskStep(h)
      BY <1>0, <1>d, <1>4 DEF lockTunnel, DesksTyped, DeskStep, AtDesk
    <2> QED
      BY <1>0, <2>1, <2>2, <2>3, DeskStepTyped DEF TypeInv
  <1>5. CASE LockTimeout(h)
    <2> DEFINE p == [plan[h] EXCEPT ![job[h].tun] = <<>>]
    <2>1. plan' = [plan EXCEPT ![h] = p] /\ plan'[h] = p
      BY <1>0, <1>5 DEF LockTimeout, DesksTyped
    <2>a. plan[h] = [u \in Tunnels |-> plan[h][u]] /\ \A u \in Tunnels : plan[h][u] \in Seq(Fitting(u))
      BY <1>d DEF FittingPlans
    <2>b. p = [u \in Tunnels |-> IF u = job[h].tun THEN <<>> ELSE plan[h][u]]
      BY <2>a
    <2>c. ASSUME NEW u \in Tunnels PROVE <<>> \in Seq(Fitting(u))
      OBVIOUS
    <2> HIDE DEF p
    <2>2. p = [u \in Tunnels |-> p[u]] /\ \A u \in Tunnels : p[u] \in Seq(Fitting(u))
      BY <2>a, <2>b, <2>c
    <2>3. plan'[h] \in FittingPlans
      BY <2>1, <2>2, FittingIsPlan
    <2>4. WorldTyped'
      BY <1>0, <1>5, WorldStays DEF LockTimeout
    <2>5. BooksTyped'
      <3>1. used' \in [events : Nat, ext : Nat, fails : Nat, giveUps : Nat]
        BY <1>0, <1>5, UsedTyped DEF LockTimeout
      <3>2. firstErr' \in [Handlers -> {"none", "busy", "error"}]
        BY <1>0, <1>5 DEF LockTimeout, BooksTyped, Noted
      <3> QED
        BY <1>0, <1>5, <3>1, <3>2 DEF LockTimeout, BooksTyped
    <2>6. DeskStep(h)
      BY <1>0, <1>d, <1>5, <2>1, <2>3 DEF LockTimeout, DesksTyped, DeskStep, AtDesk
    <2> QED
      BY <1>0, <2>4, <2>5, <2>6, DeskStepTyped DEF TypeInv
  <1>6. CASE Cancel(h)
    <2>1. WorldTyped'
      BY <1>0, <1>6, WorldStays DEF Cancel
    <2>2. BooksTyped'
      BY <1>0, <1>6 DEF Cancel, BooksTyped, Noted, Drained
    <2>3. DeskStep(h)
      BY <1>0, <1>d, <1>e, <1>6 DEF Cancel, DesksTyped, DeskStep, AtDesk
    <2> QED
      BY <1>0, <2>1, <2>2, <2>3, DeskStepTyped DEF TypeInv
  <1>7. CASE unlockTunnel(h)
    <2>1. WorldTyped'
      BY <1>0, <1>7, WorldStays DEF unlockTunnel
    <2>2. BooksTyped'
      BY <1>0, <1>7 DEF unlockTunnel, BooksTyped, Drained
    <2>3. DeskStep(h)
      BY <1>0, <1>d, <1>7 DEF unlockTunnel, DesksTyped, DeskStep, AtDesk
    <2> QED
      BY <1>0, <2>1, <2>2, <2>3, DeskStepTyped DEF TypeInv
  <1>8. CASE Return(h)
    <2>1. WorldTyped' /\ BooksTyped'
      BY <1>0, <1>8, WorldStays, BooksStay DEF Return
    <2>2. DeskStep(h)
      BY <1>0, <1>d, <1>j, <1>8 DEF Return, DesksTyped, DeskStep, AtDesk
    <2> QED
      BY <1>0, <2>1, <2>2, DeskStepTyped DEF TypeInv
  <1>9. CASE SetEnabled(h)
    <2>0. ev[h].tun \in Tunnels
      BY <1>d, <1>9 DEF SetEnabled, AtDesk
    <2>1. store' \in [Tunnels -> Stored]
      <3> DEFINE s == [store[ev[h].tun] EXCEPT !.enabled =
                          IF store[ev[h].tun].exists THEN FALSE ELSE @]
      <3>1. store' = [store EXCEPT ![ev[h].tun] = s]
        BY <1>0, <1>9, <2>0 DEF SetEnabled, WorldTyped
      <3>2. s \in Stored
        BY <1>0, <2>0 DEF WorldTyped, Stored
      <3> HIDE DEF s
      <3> QED
        BY <1>0, <3>1, <3>2 DEF WorldTyped
    <2>2. WorldTyped'
      BY <1>0, <1>9, <2>1 DEF SetEnabled, WorldTyped
    <2>3. BooksTyped'
      BY <1>0, <1>9, BooksStay DEF SetEnabled
    <2>4. DeskStep(h)
      BY <1>0, <1>d, <1>j, <1>9 DEF SetEnabled, DesksTyped, DeskStep, AtDesk
    <2> QED
      BY <1>0, <2>2, <2>3, <2>4, DeskStepTyped DEF TypeInv
  <1>10. CASE EditEnd(h)
    <2>0. job[h].tun \in Tunnels /\ job[h].snap \in Stored
      BY <1>d, <1>10 DEF EditEnd, AtDesk, Job
    <2>1. store' \in [Tunnels -> Stored] /\ cache' \in [Tunnels -> TunnelState]
      BY <1>0, <1>10, <2>0, StatesTyped DEF EditEnd, WorldTyped
    <2>2. WorldTyped'
      BY <1>0, <1>10, <2>1 DEF EditEnd, WorldTyped
    <2>3. BooksTyped'
      BY <1>0, <1>10, BooksStay DEF EditEnd
    <2>4. DeskStep(h)
      BY <1>0, <1>d, <1>j, <1>10 DEF EditEnd, DesksTyped, DeskStep, AtDesk
    <2> QED
      BY <1>0, <2>2, <2>3, <2>4, DeskStepTyped DEF TypeInv
  <1> QED
    BY <1>1, <1>2, <1>3, <1>4, <1>5, <1>6, <1>7, <1>8, <1>9, <1>10

\* The WANs an action may note in the store are WANs.
LEMMA WansTyped ==
    ASSUME WorldTyped, NEW t \in Tunnels, NEW v \in WANs \cup {NoWAN}
    PROVE  /\ PeerVia(t, v) \subseteq WANs \cup {NoWAN}
           /\ \A a \in Fitting(t) : ResolvedWANs(t, a) \subseteq WANs \cup {NoWAN}
  <1>1. PeerVia(t, v) \subseteq WANs \cup {NoWAN}
    BY DEF PeerVia, WorldTyped
  <1>2. ASSUME NEW a \in Fitting(t) PROVE ResolvedWANs(t, a) \subseteq WANs \cup {NoWAN}
    <2>1. CASE a \notin {"ColdStartKernel", "ReconcileKernel"}
      BY <2>1 DEF ResolvedWANs, WorldTyped, Stored
    <2>2. CASE a = "ColdStartKernel"
      BY <2>2 DEF ResolvedWANs, WorldTyped
    <2>3. CASE a = "ReconcileKernel"
      <3>1. ISPInterface[t] = AnyWAN \/ ISPInterface[t] \in WANs
        BY <2>3, DecideAssumption DEF Fitting
      <3> QED
        BY <2>3, <3>1 DEF ResolvedWANs, WorldTyped
    <2> QED
      BY <2>1, <2>2, <2>3
  <1> QED
    BY <1>1, <1>2

\* What an action saves is a stored tunnel.
LEMMA SavedTyped ==
    ASSUME WorldTyped, NEW t \in Tunnels, NEW a, NEW n \in Stored, NEW s \in Stored
    PROVE  Saved(t, a, n, s) \subseteq Stored
  <1>1. PeerVia(t, s.activeWAN) \subseteq WANs \cup {NoWAN}
    BY WansTyped DEF Stored
  <1>2. \A w \in WANs \cup {NoWAN} :
           /\ [s EXCEPT !.activeWAN = w] \in Stored
           /\ [n EXCEPT !.activeWAN = w] \in Stored
           /\ [s EXCEPT !.enabled = TRUE, !.activeWAN = w] \in Stored
    BY DEF Stored
  <1>3. [s EXCEPT !.enabled = TRUE] \in Stored /\ [n EXCEPT !.exists = FALSE] \in Stored
    BY DEF Stored
  <1>4. CASE a = "ColdStartKernel"
    BY <1>3, <1>4 DEF Saved
  <1>5. CASE a = "ReconcileKernel"
    BY <1>5 DEF Saved
  <1>6. CASE a \in {"StartNativeWG", "ReconcileNativeWG"}
    <2>1. Saved(t, a, n, s) =
             {[s EXCEPT !.enabled = TRUE, !.activeWAN = w] : w \in PeerVia(t, s.activeWAN)}
      BY <1>6 DEF Saved
    <2> QED
      BY <1>1, <1>2, <2>1
  <1>7. CASE a = "StopKernel"
    BY <1>2, <1>7 DEF Saved
  <1>8. CASE a = "StopNativeWG"
    BY <1>2, <1>8 DEF Saved
  <1>9. CASE a = "RestoreKmod"
    <2>1. Saved(t, a, n, s) =
             {IF w = s.activeWAN THEN n ELSE [s EXCEPT !.activeWAN = w] :
                  w \in PeerVia(t, s.activeWAN)}
      BY <1>9 DEF Saved
    <2> QED
      BY <1>1, <1>2, <2>1
  <1>10. CASE a = "Delete"
    BY <1>3, <1>10 DEF Saved
  <1>11. CASE a \notin {"ColdStartKernel", "ReconcileKernel", "StartNativeWG", "ReconcileNativeWG",
                        "StopKernel", "StopNativeWG", "RestoreKmod", "Delete"}
    BY <1>11 DEF Saved
  <1> QED
    BY <1>4, <1>5, <1>6, <1>7, <1>8, <1>9, <1>10, <1>11

\* executeOne: the actions that take one step, and those that fail at once.
LEMMA ShortTyped ==
    ASSUME TypeInv, NEW h \in Handlers, OneStepAction(h) \/ FailAction(h)
    PROVE  TypeInv'
  <1> USE DEF lockVars, routerVars
  <1>0. WorldTyped /\ BooksTyped /\ DesksTyped
    BY DEF TypeInv
  <1>1. /\ pc[h] = "run" /\ plan[h][job[h].tun] # <<>> /\ plan' = Popped(h)
        /\ UNCHANGED <<pc, ev, plan2, job, hooks, wanUp, loaded, boot, full, cleaned, bounced>>
    BY Zenon DEF OneStepAction, ApplyRoutes, RemoveRoutes, Monitoring, Persist,
       NotFound, NoUpstream, SkipReconcile, FailAction, Running
  <1>2. job[h].tun \in Tunnels
    BY <1>0, <1>1 DEF DesksTyped, AtDesk
  <1>3. plan' = [plan EXCEPT ![h] = plan'[h]] /\ plan'[h] \in FittingPlans
    BY <1>0, <1>1, <1>2, PoppedFits
  <1>4. DeskStep(h)
    BY <1>0, <1>1, <1>3 DEF DesksTyped, DeskStep, AtDesk
  <1>5. Act(h) \in ActionName
    BY <1>0, <1>1, <1>2, PoppedFits DEF Fitting
  <1>6. store' \in [Tunnels -> Stored]
    <2>1. CASE UNCHANGED store
      BY <1>0, <2>1 DEF WorldTyped
    <2>2. CASE Persist(h)
      <3>1. store[job[h].tun] \in Stored
        BY <1>0, <1>2 DEF WorldTyped
      <3>2. PICK s \in Stored : store' = [store EXCEPT ![job[h].tun] = s]
        BY <2>2, <3>1 DEF Persist, Stored
      <3> QED
        BY <1>0, <1>2, <3>2 DEF WorldTyped
    <2> QED
      BY <2>1, <2>2 DEF OneStepAction, ApplyRoutes, RemoveRoutes, Monitoring,
         NotFound, NoUpstream, SkipReconcile, FailAction
  <1>7. cache' \in [Tunnels -> TunnelState]
    <2>1. CASE UNCHANGED cache
      BY <1>0, <2>1 DEF WorldTyped
    <2>2. CASE Monitoring(h) \/ SkipReconcile(h)
      <3>0. "ReconcileNativeWG" \in ActionName
        BY DEF ActionName, LongActions, StartActions
      <3>1. PICK a \in ActionName :
               cache' = [cache EXCEPT ![job[h].tun] = updateState(@, a, store[job[h].tun])]
        BY <1>5, <2>2, <3>0 DEF Monitoring, SkipReconcile
      <3> QED
        BY <1>0, <1>2, <3>1, StatesTyped DEF WorldTyped
    <2> QED
      BY <2>1, <2>2 DEF OneStepAction, ApplyRoutes, RemoveRoutes, Persist,
         NotFound, NoUpstream, FailAction
  <1>8. routes' \in [Tunnels -> BOOLEAN]
    <2>1. CASE UNCHANGED routes
      BY <1>0, <2>1 DEF WorldTyped
    <2>2. CASE ApplyRoutes(h) \/ RemoveRoutes(h)
      BY <1>0, <1>2, <2>2 DEF ApplyRoutes, RemoveRoutes, WorldTyped, Stored
    <2> QED
      BY <2>1, <2>2 DEF OneStepAction, Monitoring, SkipReconcile, Persist,
         NotFound, NoUpstream, FailAction
  <1>9. used' \in [events : Nat, ext : Nat, fails : Nat, giveUps : Nat]
    <2>1. CASE UNCHANGED used
      BY <1>0, <2>1 DEF BooksTyped
    <2>2. CASE FailAction(h)
      BY <1>0, <2>2, UsedTyped DEF FailAction
    <2> QED
      BY <2>1, <2>2 DEF OneStepAction, ApplyRoutes, RemoveRoutes, Monitoring, SkipReconcile,
         Persist, NotFound, NoUpstream
  <1>10. firstErr' \in [Handlers -> {"none", "busy", "error"}]
    <2>1. CASE UNCHANGED firstErr
      BY <1>0, <2>1 DEF BooksTyped
    <2>2. CASE firstErr' = Noted(h, "error")
      BY <1>0, <2>2 DEF BooksTyped, Noted
    <2> QED
      BY <2>1, <2>2 DEF OneStepAction, ApplyRoutes, RemoveRoutes, Monitoring, SkipReconcile,
         Persist, NotFound, NoUpstream, FailAction
  <1>a. /\ live' \in [Tunnels -> [conf : BOOLEAN, up : BOOLEAN]]
        /\ expected' \in [Tunnels -> [Level -> Nat]]
    <2>1. CASE UNCHANGED <<live, expected>>
      BY <1>0, <2>1 DEF WorldTyped
    <2>2. CASE FailAction(h)
      <3> DEFINE t == job[h].tun
      <3>1. PICK n \in {0, 1} : expected' = ExpectHook(t, Act(h), n)
        BY <2>2 DEF FailAction
      <3>2. live' = live \/ live' = [live EXCEPT ![t].up = FALSE]
        BY <2>2 DEF FailAction
      <3>3. t \in Tunnels
        BY <1>2
      <3> HIDE DEF t
      <3>4. live' \in [Tunnels -> [conf : BOOLEAN, up : BOOLEAN]]
        BY <1>0, <3>2, <3>3 DEF WorldTyped
      <3>5. expected' \in [Tunnels -> [Level -> Nat]]
        BY <1>0, <3>1, <3>3 DEF ExpectHook, WorldTyped, Level
      <3> QED
        BY <3>4, <3>5
    <2> QED
      BY <2>1, <2>2, Zenon DEF OneStepAction, ApplyRoutes, RemoveRoutes, Monitoring, SkipReconcile,
         Persist, NotFound, NoUpstream
  <1>11. WorldTyped'
    BY <1>0, <1>1, <1>6, <1>7, <1>8, <1>a DEF WorldTyped
  <1>12. BooksTyped'
    BY <1>0, <1>1, <1>9, <1>10 DEF BooksTyped
  <1> QED
    BY <1>0, <1>4, <1>11, <1>12, DeskStepTyped DEF TypeInv

\* What an action leaves in NDMS is the state of an interface.
LEMMA LiveTyped ==
    ASSUME NEW l \in [conf : BOOLEAN, up : BOOLEAN], NEW a, NEW b \in BOOLEAN
    PROVE  /\ LiveAfter(a, l) \in [conf : BOOLEAN, up : BOOLEAN]
           /\ [l EXCEPT !.up = @ /\ b] \in [conf : BOOLEAN, up : BOOLEAN]
  <1> DEFINE c == IF a \in BringUp THEN TRUE ELSE a \notin StopActions \cup {"Delete"} /\ l.conf
             u == a \in StartActions \cup {"RestoreKmod"}
             v == l.up /\ b
  <1>1. l.conf \in BOOLEAN /\ l.up \in BOOLEAN
    OBVIOUS
  <1>2. c \in BOOLEAN /\ u \in BOOLEAN /\ v \in BOOLEAN
    <2>1. c \in BOOLEAN
      BY <1>1
    <2>2. u \in BOOLEAN
      OBVIOUS
    <2>3. v \in BOOLEAN
      BY <1>1
    <2> QED
      BY <2>1, <2>2, <2>3
  <1>3. LiveAfter(a, l) = [l EXCEPT !.conf = c, !.up = u] /\ [l EXCEPT !.up = @ /\ b] = [l EXCEPT !.up = v]
    BY Zenon DEF LiveAfter
  <1> HIDE DEF c, u, v
  <1> QED
    BY <1>2, <1>3

\* executeOne: the first half of a long action.
LEMMA BeginTyped ==
    ASSUME TypeInv, NEW h \in Handlers, Begin(h) \/ StopUnheard(h)
    PROVE  TypeInv'
  <1> USE DEF lockVars, routerVars
  <1> DEFINE t == job[h].tun
  <1>0. WorldTyped /\ BooksTyped /\ DesksTyped
    BY DEF TypeInv
  <1>1. /\ pc[h] = "run" /\ plan[h][t] # <<>>
        /\ \E w \in ResolvedWANs(t, Act(h)) :
              job' = [job EXCEPT ![h].snap = [store[t] EXCEPT !.activeWAN = w]]
        /\ \E n \in Nat : expected' = ExpectHook(t, Act(h), n)
        /\ \E l \in [conf : BOOLEAN, up : BOOLEAN] :
              live' = [live EXCEPT ![t] = l] /\ hooks' = Emitted(t, l.conf)
        /\ pc' = [pc EXCEPT ![h] = "busy"]
        /\ UNCHANGED <<store, cache, routes, wanUp, loaded, boot, full, cleaned, ev, plan,
                       plan2, bounced, firstErr>>
    <2>0. pc[h] = "run" => t \in Tunnels
      BY <1>0 DEF DesksTyped, AtDesk
    <2>1. CASE Begin(h)
      <3>1. LiveAfter(Act(h), live[t]) \in [conf : BOOLEAN, up : BOOLEAN]
        <4>1. live[t] \in [conf : BOOLEAN, up : BOOLEAN]
          BY <1>0, <2>0, <2>1 DEF WorldTyped, Begin, Drive
        <4> QED
          BY <4>1, LiveTyped
      <3> QED
        BY <2>1, <3>1 DEF Begin, Drive
    <2>2. CASE StopUnheard(h)
      <3>1. [live[t] EXCEPT !.up = @ /\ NdmsAlone(t)] \in [conf : BOOLEAN, up : BOOLEAN]
        <4>1. live[t] \in [conf : BOOLEAN, up : BOOLEAN]
          BY <1>0, <2>0, <2>2 DEF WorldTyped, StopUnheard, Drive
        <4>2. NdmsAlone(t) \in BOOLEAN
          BY DecideAssumption DEF NdmsAlone
        <4> QED
          BY <4>1, <4>2, LiveTyped
      <3> QED
        BY <2>2, <3>1 DEF StopUnheard, Drive, DownAttempts
    <2> QED
      BY <2>1, <2>2
  <1>2. t \in Tunnels
    BY <1>0, <1>1 DEF DesksTyped, AtDesk
  <1>3. Act(h) \in Fitting(t) /\ store[t] \in Stored
    BY <1>0, <1>1, <1>2, PoppedFits DEF WorldTyped
  <1> HIDE DEF t
  <1>4. PICK n \in Nat : expected' = ExpectHook(t, Act(h), n)
    BY <1>1
  <1>5. expected' \in [Tunnels -> [Level -> Nat]]
    BY <1>0, <1>2, <1>4 DEF ExpectHook, WorldTyped, Level
  <1>6. PICK l \in [conf : BOOLEAN, up : BOOLEAN] :
           live' = [live EXCEPT ![t] = l] /\ hooks' = Emitted(t, l.conf)
    BY <1>1
  <1>7. live' \in [Tunnels -> [conf : BOOLEAN, up : BOOLEAN]]
    BY <1>0, <1>2, <1>6 DEF WorldTyped
  <1>8. hooks' \in [Hook -> Nat]
    <2> DEFINE k == OwnHook(t, IF l.conf THEN "running" ELSE "disabled")
    <2>1. k \in Hook
      BY <1>2 DEF OwnHook, Hook, Level
    <2>2. hooks' = hooks \/ hooks' = [hooks EXCEPT ![k] = @ + 1]
      BY <1>6 DEF Emitted
    <2> HIDE DEF k
    <2> QED
      BY <1>0, <2>1, <2>2 DEF WorldTyped
  <1>9. WorldTyped'
    BY <1>0, <1>1, <1>5, <1>7, <1>8 DEF WorldTyped
  <1>10. used' \in [events : Nat, ext : Nat, fails : Nat, giveUps : Nat]
    BY <1>0, UsedTyped DEF Begin, StopUnheard, BooksTyped
  <1>11. BooksTyped'
    BY <1>0, <1>1, <1>10 DEF BooksTyped
  <1>12. job' = [job EXCEPT ![h] = job'[h]] /\ job'[h] \in Job /\ job'[h].tun = t
    <2>1. PICK w \in ResolvedWANs(t, Act(h)) :
             job' = [job EXCEPT ![h].snap = [store[t] EXCEPT !.activeWAN = w]]
      BY <1>1
    <2>2. w \in WANs \cup {NoWAN}
      BY <1>0, <1>2, <1>3, <2>1, WansTyped
    <2> DEFINE s == [store[t] EXCEPT !.activeWAN = w]
    <2>3. s \in Stored
      BY <1>3, <2>2 DEF Stored
    <2>4. job' = [job EXCEPT ![h].snap = s]
      BY <2>1
    <2> HIDE DEF s
    <2> QED
      BY <1>0, <2>3, <2>4 DEF DesksTyped, Job, t
  <1>13. DeskStep(h)
    BY <1>0, <1>1, <1>2, <1>12 DEF DesksTyped, DeskStep, AtDesk, Phase
  <1> QED
    BY <1>0, <1>9, <1>11, <1>13, DeskStepTyped DEF TypeInv

\* executeOne: the second half of a long action.
LEMMA EndTyped ==
    ASSUME TypeInv, NEW h \in Handlers, End(h) \/ FailStart(h)
    PROVE  TypeInv'
  <1> USE DEF lockVars, routerVars
  <1> DEFINE t == job[h].tun
  <1>0. WorldTyped /\ BooksTyped /\ DesksTyped
    BY DEF TypeInv
  <1>1. /\ pc[h] = "busy" /\ plan' = Popped(h) /\ job' = [job EXCEPT ![h].snap = NoStored]
        /\ pc' = [pc EXCEPT ![h] = "run"]
        /\ UNCHANGED <<hooks, routes, wanUp, loaded, boot, expected, full, ev, plan2, bounced>>
    BY DEF End, FailStart
  <1>2. t \in Tunnels /\ plan[h][t] # <<>> /\ job[h] \in Job
    BY <1>0, <1>1 DEF DesksTyped, AtDesk
  <1>3. plan' = [plan EXCEPT ![h] = plan'[h]] /\ plan'[h] \in FittingPlans /\ Act(h) \in ActionName
    BY <1>0, <1>1, <1>2, PoppedFits DEF Fitting
  <1>4. job' = [job EXCEPT ![h] = job'[h]] /\ job'[h] \in Job /\ job'[h].tun = t
    BY <1>0, <1>1, <1>2, StatesTyped DEF DesksTyped, Job
  <1>5. DeskStep(h)
    BY <1>0, <1>1, <1>2, <1>3, <1>4 DEF DesksTyped, DeskStep, AtDesk, Phase
  <1>6. CASE End(h)
    <2>1. PICK s \in Saved(t, Act(h), store[t], job[h].snap) :
             /\ store' = [store EXCEPT ![t] = s]
             /\ cache' = [cache EXCEPT ![t] = updateState(@, Act(h), s)]
      BY <1>6 DEF End
    <2>2. s \in Stored
      <3>1. store[t] \in Stored /\ job[h].snap \in Stored
        BY <1>0, <1>2 DEF WorldTyped, Job
      <3> QED
        BY <1>0, <1>2, <2>1, <3>1, SavedTyped
    <2>3. store' \in [Tunnels -> Stored]
      BY <1>0, <1>2, <2>1, <2>2 DEF WorldTyped
    <2>4. cache' \in [Tunnels -> TunnelState]
      <3>1. updateState(cache[t], Act(h), s) \in TunnelState
        BY <1>0, <1>2, <1>3, <2>2, StatesTyped DEF WorldTyped
      <3> QED
        BY <1>0, <1>2, <2>1, <3>1 DEF WorldTyped
    <2>5. WorldTyped'
      BY <1>0, <1>1, <1>6, <2>3, <2>4 DEF End, WorldTyped
    <2>6. cleaned' \in [Tunnels -> Nat]
      BY <1>0, <1>2, <1>6 DEF End, BooksTyped
    <2>7. BooksTyped'
      BY <1>0, <1>1, <1>6, <2>6 DEF End, BooksTyped
    <2> QED
      BY <1>0, <1>5, <2>5, <2>7, DeskStepTyped DEF TypeInv
  <1>7. CASE FailStart(h)
    <2>1. live' \in [Tunnels -> [conf : BOOLEAN, up : BOOLEAN]]
      BY <1>0, <1>2, <1>7 DEF FailStart, WorldTyped
    <2>2. WorldTyped'
      BY <1>0, <1>1, <1>7, <2>1 DEF FailStart, WorldTyped
    <2>3. used' \in [events : Nat, ext : Nat, fails : Nat, giveUps : Nat]
      BY <1>0, <1>7, UsedTyped DEF FailStart
    <2>4. firstErr' \in [Handlers -> {"none", "busy", "error"}]
      BY <1>0, <1>7 DEF FailStart, Noted, BooksTyped
    <2>5. BooksTyped'
      BY <1>0, <1>1, <1>7, <2>3, <2>4 DEF FailStart, BooksTyped
    <2> QED
      BY <1>0, <1>5, <2>2, <2>5, DeskStepTyped DEF TypeInv
  <1> QED
    BY <1>6, <1>7

\* The world outside the handlers.
LEMMA EnvironmentTyped ==
    ASSUME TypeInv, Environment \/ UNCHANGED vars
    PROVE  TypeInv'
  <1> USE DEF lockVars, routerVars
  <1>0. WorldTyped /\ BooksTyped /\ DesksTyped
    BY DEF TypeInv
  <1>s. ASSUME Spend PROVE used' \in [events : Nat, ext : Nat, fails : Nat, giveUps : Nat]
    BY <1>0, <1>s DEF Spend, BooksTyped
  <1>h. ASSUME NEW k \in Hook, hooks[k] > 0, hooks' = [hooks EXCEPT ![k] = @ - 1]
        PROVE  hooks' \in [Hook -> Nat]
    <2>1. hooks[k] \in Nat /\ hooks[k] - 1 \in Nat
      BY <1>0, <1>h DEF WorldTyped
    <2> QED
      BY <1>0, <1>h, <2>1 DEF WorldTyped
  <1>x. ASSUME NEW t \in Tunnels, NEW l \in Level, expected[t][l] > 0,
               expected' = [expected EXCEPT ![t][l] = @ - 1]
        PROVE  expected' \in [Tunnels -> [Level -> Nat]]
    <2>1. expected[t] \in [Level -> Nat] /\ expected[t][l] \in Nat /\ expected[t][l] - 1 \in Nat
      BY <1>0, <1>x DEF WorldTyped
    <2>2. [expected[t] EXCEPT ![l] = @ - 1] \in [Level -> Nat]
      BY <2>1
    <2>3. expected' = [expected EXCEPT ![t] = [expected[t] EXCEPT ![l] = @ - 1]]
      BY <1>0, <1>x DEF WorldTyped
    <2> QED
      BY <1>0, <2>2, <2>3 DEF WorldTyped
  <1>1. ASSUME NEW t \in Tunnels, ToggleEnabled(t) PROVE TypeInv'
    <2>1. store' \in [Tunnels -> Stored]
      <3>1. store' = [store EXCEPT ![t] = [store[t] EXCEPT !.enabled = ~store[t].enabled]]
        BY <1>0, <1>1 DEF ToggleEnabled, WorldTyped
      <3>2. store[t] \in Stored /\ (~store[t].enabled) \in BOOLEAN
        BY <1>0 DEF WorldTyped
      <3>3. [store[t] EXCEPT !.enabled = ~store[t].enabled] \in Stored
        BY <3>2 DEF Stored
      <3> QED
        BY <1>0, <3>1, <3>3 DEF WorldTyped
    <2>2. WorldTyped' /\ DesksTyped'
      BY <1>0, <1>1, <2>1, DesksStay DEF ToggleEnabled, WorldTyped
    <2>3. BooksTyped'
      BY <1>0, <1>1, <1>s DEF ToggleEnabled, BooksTyped
    <2> QED
      BY <2>2, <2>3 DEF TypeInv
  <1>2. ASSUME NEW t \in Tunnels, ExtToggle(t) PROVE TypeInv'
    <2> DEFINE k == [tun |-> t, own |-> FALSE,
                     level |-> IF live[t].conf THEN "disabled" ELSE "running"]
    <2>1. k \in Hook
      BY DEF Hook, Level
    <2>2. hooks' = [hooks EXCEPT ![k] = @ + 1]
      BY <1>2 DEF ExtToggle
    <2> HIDE DEF k
    <2>3. hooks' \in [Hook -> Nat]
      BY <1>0, <2>1, <2>2 DEF WorldTyped
    <2>4. Toggled(t, ~live[t].conf) \in [conf : BOOLEAN, up : BOOLEAN]
      <3>1. live[t].up \in BOOLEAN /\ (~live[t].conf) \in BOOLEAN
        BY <1>0 DEF WorldTyped
      <3> QED
        BY <3>1 DEF Toggled
    <2>5. live' \in [Tunnels -> [conf : BOOLEAN, up : BOOLEAN]]
      BY <1>0, <1>2, <2>4 DEF ExtToggle, WorldTyped
    <2>6. WorldTyped' /\ DesksTyped'
      BY <1>0, <1>2, <2>3, <2>5, DesksStay DEF ExtToggle, WorldTyped
    <2>7. BooksTyped'
      BY <1>0, <1>2, UsedTyped DEF ExtToggle, BooksTyped
    <2> QED
      BY <2>6, <2>7 DEF TypeInv
  <1>3. ASSUME NEW t \in Tunnels, QuiescenceEnds(t) PROVE TypeInv'
    <2>1. cache' \in [Tunnels -> TunnelState]
      BY <1>0, <1>3 DEF QuiescenceEnds, WorldTyped, TunnelState
    <2>2. WorldTyped' /\ DesksTyped'
      BY <1>0, <1>3, <2>1, DesksStay DEF QuiescenceEnds, WorldTyped
    <2>3. BooksTyped'
      BY <1>0, <1>3, BooksStay DEF QuiescenceEnds
    <2> QED
      BY <2>2, <2>3 DEF TypeInv
  <1>4. ASSUME NEW t \in Tunnels, NEW l \in Level, ExpireHook(t, l) PROVE TypeInv'
    <2>1. WorldTyped' /\ DesksTyped'
      BY <1>0, <1>4, <1>x, DesksStay DEF ExpireHook, WorldTyped
    <2>2. used' \in [events : Nat, ext : Nat, fails : Nat, giveUps : Nat]
      BY <1>0, <1>4, UsedTyped DEF ExpireHook, BooksTyped
    <2>3. BooksTyped'
      BY <1>0, <1>4, <2>2 DEF ExpireHook, BooksTyped
    <2> QED
      BY <2>1, <2>3 DEF TypeInv
  <1>5. ASSUME NEW k \in Hook, ConsumeHook(k) PROVE TypeInv'
    <2>0. k.tun \in Tunnels /\ k.level \in Level
      BY DEF Hook
    <2>1. hooks' \in [Hook -> Nat] /\ expected' \in [Tunnels -> [Level -> Nat]]
      BY <1>5, <1>h, <1>x, <2>0 DEF ConsumeHook
    <2>2. WorldTyped' /\ DesksTyped' /\ BooksTyped'
      BY <1>0, <1>5, <2>1, DesksStay, BooksStay DEF ConsumeHook, WorldTyped
    <2> QED
      BY <2>2 DEF TypeInv
  <1>6. ASSUME NEW k \in Hook, HookFault(k) PROVE TypeInv'
    <2>1. hooks' \in [Hook -> Nat]
      <3>1. CASE hooks' = [hooks EXCEPT ![k] = @ - 1]
        BY <1>6, <1>h, <3>1 DEF HookFault
      <3>2. CASE hooks' = [hooks EXCEPT ![k] = @ + 1]
        BY <1>0, <3>2 DEF WorldTyped
      <3> QED
        BY <1>6, <3>1, <3>2 DEF HookFault
    <2>2. WorldTyped' /\ DesksTyped'
      BY <1>0, <1>6, <2>1, DesksStay DEF HookFault, WorldTyped
    <2>3. BooksTyped'
      BY <1>0, <1>6, UsedTyped DEF HookFault, BooksTyped
    <2> QED
      BY <2>2, <2>3 DEF TypeInv
  <1>7. CASE Crash
    <2>1. live' \in [Tunnels -> [conf : BOOLEAN, up : BOOLEAN]] /\ routes' \in [Tunnels -> BOOLEAN]
      <3>1. CASE UNCHANGED <<live, routes>>
        BY <1>0, <3>1 DEF WorldTyped
      <3>2. CASE /\ live' = [t \in Tunnels |-> [live[t] EXCEPT !.up = @ /\ NdmsAlone(t)]]
                 /\ routes' = [t \in Tunnels |-> FALSE]
        <4>1. ASSUME NEW t \in Tunnels
              PROVE  [live[t] EXCEPT !.up = @ /\ NdmsAlone(t)] \in [conf : BOOLEAN, up : BOOLEAN]
          <5>1. NdmsAlone(t) \in BOOLEAN /\ live[t] \in [conf : BOOLEAN, up : BOOLEAN]
            BY <1>0, DecideAssumption DEF NdmsAlone, WorldTyped
          <5> QED
            BY <5>1, LiveTyped
        <4> QED
          BY <3>2, <4>1
      <3> QED
        BY <1>7, <3>1, <3>2, Zenon DEF Crash
    <2>2. /\ cache' \in [Tunnels -> TunnelState]
          /\ expected' \in [Tunnels -> [Level -> Nat]]
      BY <1>7, StatesTyped DEF Crash
    <2>3. WorldTyped'
      BY <1>0, <1>7, <2>1, <2>2 DEF Crash, WorldTyped
    <2>4. BooksTyped'
      BY <1>0, <1>7, <1>s DEF Crash, BooksTyped
    <2>5. NoJob \in Job /\ NoEvent \in Event /\ NoEvent.kind = "none" /\ EmptyPlan \in FittingPlans
      BY PlansFit DEF NoJob, Job, NoStored, Stored, NoEvent, Event, Level
    <2>6. DesksTyped'
      BY <1>7, <2>5 DEF Crash, DesksTyped, AtDesk, Phase
    <2> QED
      BY <2>3, <2>4, <2>6 DEF TypeInv
  <1>8. CASE UNCHANGED vars
    BY <1>0, <1>8, WorldStays, BooksStay, DesksStay DEF vars, TypeInv
  <1> QED
    BY <1>1, <1>2, <1>3, <1>4, <1>5, <1>6, <1>7, <1>8 DEF Environment

\* No step leaves the types, and no handler is ever where it needs a tunnel that
\* it does not have.
LEMMA TypesInductive ==
    ASSUME TypeInv, [Next]_vars
    PROVE  TypeInv'
  <1>1. CASE Environment \/ UNCHANGED vars
    BY <1>1, EnvironmentTyped
  <1>2. ASSUME NEW h \in Handlers, Arrive(h) PROVE TypeInv'
    BY <1>2, ArrivalsTyped, HooksTyped DEF Arrive
  <1>3. ASSUME NEW h \in Handlers, Progress(h) PROVE TypeInv'
    BY <1>3, ArrivalsTyped, HooksTyped, GroupsTyped, ShortTyped, BeginTyped, EndTyped DEF Progress
  <1>4. ASSUME NEW h \in Handlers, Trouble(h) PROVE TypeInv'
    BY <1>4, GroupsTyped, ShortTyped, BeginTyped, EndTyped DEF Trouble
  <1> QED
    BY <1>1, <1>2, <1>3, <1>4 DEF Next

LEMMA TypesInitially == Init => TypeInv
  <1> SUFFICES ASSUME Init
               PROVE  TypeInv
    OBVIOUS
  <1>1. wanUp \subseteq WANs
    BY DEF Init
  <1>2. store \in [Tunnels -> Stored]
    <2>1. \E on \in SUBSET Tunnels : \E a \in [Tunnels -> WANs \cup {NoWAN}] :
             store = [t \in Tunnels |-> [exists |-> TRUE, enabled |-> t \in on, activeWAN |-> a[t]]]
      BY DEF Init
    <2> QED
      BY <2>1 DEF Stored
  <1>3. live \in [Tunnels -> [conf : BOOLEAN, up : BOOLEAN]] /\ routes \in [Tunnels -> BOOLEAN]
    <2>1. \E on \in SUBSET Tunnels :
             live = [t \in Tunnels |-> [conf |-> t \in on,
                                         up |-> t \in on /\ (BootKind = "warm" \/ NdmsAlone(t))]]
      BY DEF Init
    <2>2. \E on \in SUBSET Tunnels : routes = [t \in Tunnels |-> t \in on /\ BootKind = "warm"]
      BY DEF Init
    <2> QED
      BY <2>1, <2>2
  <1>4. WorldTyped
    BY <1>1, <1>2, <1>3, StatesTyped DEF Init, WorldTyped
  <1>5. BooksTyped
    <2>1. boot \in {"cold", "warm", "done"} /\ loaded \in BOOLEAN /\ full \subseteq Tunnels \X Nat
      BY OrchestratorAssumption DEF Init
    <2>2. /\ cleaned \in [Tunnels -> Nat] /\ bounced \in [Handlers -> BOOLEAN]
          /\ firstErr \in [Handlers -> {"none", "busy", "error"}]
      BY DEF Init
    <2>3. used \in [events : Nat, ext : Nat, fails : Nat, giveUps : Nat]
      BY DEF Init
    <2> QED
      BY <2>1, <2>2, <2>3 DEF BooksTyped
  <1>6. NoJob \in Job /\ NoEvent \in Event /\ NoEvent.kind = "none" /\ EmptyPlan \in FittingPlans
    BY PlansFit DEF NoJob, Job, NoStored, Stored, NoEvent, Event, Level
  <1>7. DesksTyped
    BY <1>6 DEF Init, DesksTyped, AtDesk, Phase
  <1> QED
    BY <1>4, <1>5, <1>7 DEF TypeInv

\* The two history variables, and what each step does to them.
HistoryTyped == astray \subseteq Tunnels \X Level /\ missed \subseteq Tunnels

LEMMA HistoryInductive ==
    ASSUME TypeInv, HistoryTyped, [Next]_vars
    PROVE  HistoryTyped'
  <1> USE DEF history
  <1>0. DesksTyped
    BY DEF TypeInv
  <1>1. CASE UNCHANGED history
    BY <1>1 DEF HistoryTyped
  <1>s. \A t \in Tunnels, l \in Level : Strayed(t, l) \subseteq Tunnels \X Level
    BY DEF Strayed, HistoryTyped
  <1>2. CASE Environment
    <2>1. ASSUME NEW k \in Hook, ConsumeHook(k) \/ HookFault(k) PROVE HistoryTyped'
      <3>1. k.tun \in Tunnels /\ k.level \in Level
        BY DEF Hook
      <3>2. missed' = missed /\ (astray' = astray \/ astray' = Strayed(k.tun, k.level))
        BY <2>1 DEF ConsumeHook, HookFault
      <3> QED
        BY <1>s, <3>1, <3>2 DEF HistoryTyped
    <2>2. ASSUME NEW t \in Tunnels, NEW l \in Level, ExpireHook(t, l) PROVE HistoryTyped'
      <3>1. missed' = missed /\ astray' = Strayed(t, l)
        BY <2>2 DEF ExpireHook
      <3> QED
        BY <1>s, <3>1 DEF HistoryTyped
    <2>3. CASE Crash
      BY <2>3 DEF Crash, HistoryTyped
    <2> QED
      BY <1>1, <1>2, <2>1, <2>2, <2>3
         DEF Environment, ToggleEnabled, ExtToggle, QuiescenceEnds
  <1>3. ASSUME NEW h \in Handlers, Arrive(h) PROVE UNCHANGED history
    BY <1>3 DEF Arrive, Startup, Quiesce, UserEvent, EditBegin, WanSet, ExternalHook
  <1>4. ASSUME NEW h \in Handlers, Progress(h) \/ Trouble(h) PROVE HistoryTyped'
    <2>1. CASE Begin(h) \/ StopUnheard(h)
      <3>1. /\ pc[h] = "run"
            /\ astray' \subseteq astray \cup {<<job[h].tun, "disabled">>}
            /\ missed' \subseteq missed \cup {job[h].tun}
        BY <2>1 DEF Begin, StopUnheard, Drive
      <3>2. job[h].tun \in Tunnels
        BY <1>0, <3>1 DEF DesksTyped, AtDesk
      <3> QED
        BY <3>1, <3>2 DEF HistoryTyped, Level
    <2>2. CASE End(h) \/ EditEnd(h)
      <3>1. /\ pc[h] \in {"busy", "edit"} /\ astray' = astray
            /\ missed' \subseteq missed \cup {job[h].tun}
        BY <2>2 DEF End, EditEnd
      <3>2. job[h].tun \in Tunnels
        BY <1>0, <3>1 DEF DesksTyped, AtDesk
      <3> QED
        BY <3>1, <3>2 DEF HistoryTyped
    <2>3. CASE Decide(h)
      <3>1. astray' = astray /\ missed' \subseteq missed \cup Tunnels
        BY <2>3 DEF Decide
      <3> QED
        BY <3>1 DEF HistoryTyped
    <2>4. ASSUME Await(h) \/ SettleEnd(h) \/ RestoreEndpointTracking(h)
                 \/ (\E t \in Tunnels : Pick(h, t))
                 \/ lockTunnel(h) \/ unlockTunnel(h) \/ Return(h) \/ SetEnabled(h) \/ Resume(h)
          PROVE  UNCHANGED history
      BY <2>4, Zenon DEF Await, SettleEnd, RestoreEndpointTracking, Pick, lockTunnel, unlockTunnel,
                  Return, SetEnabled, Resume
    <2>5. ASSUME OneStepAction(h) \/ LockTimeout(h) \/ Cancel(h) \/ FailAction(h) \/ FailStart(h)
          PROVE  UNCHANGED history
      BY <2>5, Zenon DEF OneStepAction, ApplyRoutes, RemoveRoutes, Monitoring, Persist, NotFound,
                  NoUpstream, SkipReconcile, LockTimeout, Cancel, FailAction, FailStart
    <2> QED
      BY <1>1, <1>4, <2>1, <2>2, <2>3, <2>4, <2>5 DEF Progress, Trouble
  <1> QED
    BY <1>1, <1>2, <1>3, <1>4 DEF Next, vars

\* Every table of the orchestrator keeps its type through every mix of events,
\* deletes, crashes, failures and timeouts: no token or hook count runs below
\* zero, no plan holds an action of the other backend's reconcile, and no
\* handler executes, awaits, settles or edits without a tunnel.
THEOREM TypesHold == Spec => []TypeOK
  <1>1. TypeInv /\ HistoryTyped => TypeOK
    <2> SUFFICES ASSUME TypeInv, HistoryTyped
                 PROVE  TypeOK
      OBVIOUS
    <2>1. FittingPlans \subseteq [Tunnels -> Seq(ActionName)]
      BY DEF FittingPlans
    <2>2. /\ plan \in [Handlers -> [Tunnels -> Seq(ActionName)]]
          /\ plan2 \in [Handlers -> [Tunnels -> Seq(ActionName)]]
      BY <2>1 DEF TypeInv, DesksTyped
    <2> QED
      BY <2>2 DEF TypeInv, WorldTyped, BooksTyped, DesksTyped, HistoryTyped, TypeOK, Job
  <1>2. Init => HistoryTyped
    BY DEF Init, HistoryTyped
  <1> QED
    BY <1>1, <1>2, TypesInitially, TypesInductive, HistoryInductive, PTL DEF Spec

-----------------------------------------------------------------------------
(* The daemon's own edges *)

\* Every own hook on its way is covered by a token, except where one has been lost.
TokensCover ==
    \A t \in Tunnels, l \in Level :
        <<t, l>> \in astray \/ hooks[OwnHook(t, l)] <= expected[t][l]

OwnInv == TypeInv /\ TokensCover /\ OwnEdgesIgnored

LEMMA OwnHookTyped ==
    ASSUME NEW u \in Tunnels, NEW m \in Level
    PROVE  /\ OwnHook(u, m) \in Hook
           /\ OwnHook(u, m).tun = u /\ OwnHook(u, m).level = m /\ OwnHook(u, m).own
  BY DEF OwnHook, Hook

\* What covers the hooks of every tunnel and level in a step that forgets no
\* loss: the level is lost from now on, or it has not more own hooks than before
\* for the tokens it has.
LEMMA CoverKept ==
    ASSUME OwnInv, astray \subseteq astray',
           \A u \in Tunnels, m \in Level :
              \/ <<u, m>> \in astray'
              \/ hooks'[OwnHook(u, m)] + expected[u][m] <= hooks[OwnHook(u, m)] + expected'[u][m],
           \A u \in Tunnels, m \in Level :
              hooks'[OwnHook(u, m)] \in Int /\ expected'[u][m] \in Int
    PROVE  TokensCover'
  <1> SUFFICES ASSUME NEW u \in Tunnels, NEW m \in Level, <<u, m>> \notin astray'
               PROVE  hooks'[OwnHook(u, m)] <= expected'[u][m]
    BY DEF TokensCover
  <1>1. hooks[OwnHook(u, m)] <= expected[u][m]
    BY DEF OwnInv, TokensCover
  <1>2. hooks[OwnHook(u, m)] \in Nat /\ expected[u][m] \in Nat
    BY OwnHookTyped DEF OwnInv, TypeInv, WorldTyped
  <1>3. /\ hooks'[OwnHook(u, m)] + expected[u][m] <= hooks[OwnHook(u, m)] + expected'[u][m]
        /\ hooks'[OwnHook(u, m)] \in Int /\ expected'[u][m] \in Int
    OBVIOUS
  <1> QED
    BY <1>1, <1>2, <1>3

\* An action that changes the conf layer has registered the token of its hook,
\* except for the removal of a nativewg interface.
LEMMA DriveCovered ==
    ASSUME OwnInv, NEW h \in Handlers, Begin(h) \/ StopUnheard(h)
    PROVE  TokensCover' /\ astray \subseteq astray'
  <1> DEFINE t == job[h].tun
  <1>0. WorldTyped /\ DesksTyped
    BY DEF OwnInv, TypeInv
  <1>1. PICK n \in Nat \ {0}, l \in {LiveAfter(Act(h), live[t]), [live[t] EXCEPT !.up = @ /\ NdmsAlone(t)]} :
           /\ pc[h] = "run" /\ plan[h][t] # <<>>
           /\ expected' = ExpectHook(t, Act(h), n)
           /\ hooks' = Emitted(t, l.conf)
           /\ astray' = IF Act(h) = "Delete" /\ t \notin KernelTunnels
                        THEN astray \cup {<<t, "disabled">>} ELSE astray
    <2>1. CASE Begin(h)
      BY <2>1 DEF Begin, Drive
    <2>2. CASE StopUnheard(h)
      BY <2>2 DEF StopUnheard, Drive, DownAttempts
    <2> QED
      BY <2>1, <2>2
  <1>2. t \in Tunnels
    BY <1>0, <1>1 DEF DesksTyped, AtDesk
  <1>4. /\ hooks \in [Hook -> Nat] /\ expected \in [Tunnels -> [Level -> Nat]]
        /\ live[t] \in [conf : BOOLEAN, up : BOOLEAN]
    BY <1>0, <1>2 DEF WorldTyped
  <1>5. l.conf = live[t].conf
        \/ (Act(h) \in BringUp /\ l.conf = TRUE)
        \/ (Act(h) \in StopActions \cup {"Delete"} /\ l.conf = FALSE)
    BY <1>1, <1>4 DEF LiveAfter
  <1> HIDE DEF t
  <1> DEFINE lev == IF l.conf THEN "running" ELSE "disabled"
             k == OwnHook(t, lev)
  <1>6. \A u \in Tunnels, m \in Level :
           OwnHook(u, m) \in Hook /\ (OwnHook(u, m) = k => u = t /\ m = lev)
    BY DEF OwnHook, Hook
  <1>7. lev \in Level /\ k \in Hook
    BY <1>2, <1>6 DEF Level
  <1>8. hooks' = hooks \/ (hooks' = [hooks EXCEPT ![k] = @ + 1] /\ l.conf # live[t].conf)
    BY <1>1 DEF Emitted
  <1>9. \A u \in Tunnels, m \in Level : expected'[u][m] >= expected[u][m]
    BY <1>1, <1>2, <1>4 DEF ExpectHook, Level
  <1>10. \/ l.conf = live[t].conf
         \/ <<t, lev>> \in astray'
         \/ expected'[t][lev] >= expected[t][lev] + 1
    BY <1>1, <1>2, <1>4, <1>5 DEF ExpectHook, Level, BringUp, StopActions
  <1>11. \A u \in Tunnels, m \in Level : expected'[u][m] \in Nat
    BY <1>1, <1>2, <1>4 DEF ExpectHook, Level
  <1>12. astray \subseteq astray'
    BY <1>1
  <1> HIDE DEF k, lev
  <1>13. ASSUME NEW u \in Tunnels, NEW m \in Level
         PROVE  /\ \/ <<u, m>> \in astray'
                   \/ hooks'[OwnHook(u, m)] + expected[u][m]
                        <= hooks[OwnHook(u, m)] + expected'[u][m]
                /\ hooks'[OwnHook(u, m)] \in Int
    <2>0. hooks[OwnHook(u, m)] \in Nat /\ expected[u][m] \in Nat /\ expected'[u][m] \in Nat
          /\ expected'[u][m] >= expected[u][m]
      BY <1>4, <1>6, <1>9, <1>11
    <2>1. CASE hooks' = hooks \/ OwnHook(u, m) # k
      <3>1. hooks'[OwnHook(u, m)] = hooks[OwnHook(u, m)]
        BY <1>4, <1>6, <1>8, <2>1
      <3> QED
        BY <2>0, <3>1
    <2>2. CASE OwnHook(u, m) = k /\ hooks' = [hooks EXCEPT ![k] = @ + 1]
               /\ l.conf # live[t].conf
      <3>1. u = t /\ m = lev /\ hooks'[OwnHook(u, m)] = hooks[OwnHook(u, m)] + 1
        BY <1>4, <1>6, <1>7, <2>2
      <3> QED
        BY <1>10, <2>0, <2>2, <3>1
    <2> QED
      BY <1>8, <2>1, <2>2
  <1>14. TokensCover'
    <2>1. \A u \in Tunnels, m \in Level :
             \/ <<u, m>> \in astray'
             \/ hooks'[OwnHook(u, m)] + expected[u][m] <= hooks[OwnHook(u, m)] + expected'[u][m]
      BY <1>13
    <2>2. ASSUME NEW u \in Tunnels, NEW m \in Level
          PROVE  hooks'[OwnHook(u, m)] \in Int /\ expected'[u][m] \in Int
      <3>1. expected'[u][m] \in Nat
        BY <1>11
      <3>2. hooks'[OwnHook(u, m)] \in Int
        BY <1>13, Zenon
      <3>3. expected'[u][m] \in Int
        BY <3>1
      <3> QED
        BY <3>2, <3>3
    <2> QED
      BY <1>12, <2>1, <2>2, CoverKept, Zenon
  <1> QED
    BY <1>12, <1>14

\* A token that is spent, lost or expires, or a hook that is posted again: the
\* level is lost where no token was to spare.
LEMMA TokensConsumed ==
    ASSUME OwnInv,
           \/ \E k \in Hook : ConsumeHook(k) \/ HookFault(k)
           \/ \E t \in Tunnels, l \in Level : ExpireHook(t, l)
    PROVE  TokensCover' /\ astray \subseteq astray'
  <1>0. /\ hooks \in [Hook -> Nat] /\ expected \in [Tunnels -> [Level -> Nat]]
        /\ \A k \in Hook : hooks[k] \in Nat
        /\ \A t \in Tunnels, l \in Level : expected[t][l] \in Nat
    BY DEF OwnInv, TypeInv, WorldTyped
  <1>1. \A u \in Tunnels, m \in Level :
           OwnHook(u, m) \in Hook /\ OwnHook(u, m).own
           /\ OwnHook(u, m).tun = u /\ OwnHook(u, m).level = m
    BY OwnHookTyped
  <1>a. \A k \in Hook : k.tun \in Tunnels /\ k.level \in Level /\ k.own \in BOOLEAN
                        /\ (k.own => k = OwnHook(k.tun, k.level))
    BY DEF Hook, OwnHook
  <1>b. \A u \in Tunnels, m \in Level :
           <<u, m>> \in astray \/ hooks[OwnHook(u, m)] <= expected[u][m]
    BY DEF OwnInv, TokensCover
  <1>c. \A u \in Tunnels, m \in Level :
           /\ astray \subseteq Strayed(u, m)
           /\ <<u, m>> \in Strayed(u, m) \/ hooks[OwnHook(u, m)] < expected[u][m]
    <2> SUFFICES ASSUME NEW u \in Tunnels, NEW m \in Level
                 PROVE  /\ astray \subseteq Strayed(u, m)
                        /\ <<u, m>> \in Strayed(u, m) \/ hooks[OwnHook(u, m)] < expected[u][m]
      OBVIOUS
    <2>1. hooks[OwnHook(u, m)] \in Nat /\ expected[u][m] \in Nat
      BY <1>0, <1>1
    <2> QED
      BY <2>1 DEF Strayed, AllNeeded
  <1>2. ASSUME NEW k \in Hook, ConsumeHook(k) PROVE TokensCover' /\ astray \subseteq astray'
    <2>1. /\ hooks' = [hooks EXCEPT ![k] = @ - 1]
          /\ expected' = [expected EXCEPT ![k.tun][k.level] = @ - 1]
          /\ astray' = IF k.own THEN astray ELSE Strayed(k.tun, k.level)
      BY <1>2 DEF ConsumeHook
    <2>2. astray \subseteq astray'
      BY <1>a, <1>c, <2>1
    <2>3. ASSUME NEW u \in Tunnels, NEW m \in Level
          PROVE  <<u, m>> \in astray' \/ hooks'[OwnHook(u, m)] <= expected'[u][m]
      <3>1. CASE u = k.tun /\ m = k.level /\ k.own
        <4>1. /\ OwnHook(u, m) = k /\ hooks'[k] = hooks[k] - 1
              /\ expected'[u][m] = expected[u][m] - 1
          BY <1>0, <1>a, <2>1, <3>1
        <4> QED
          BY <1>0, <1>b, <2>2, <4>1
      <3>2. CASE u = k.tun /\ m = k.level /\ ~k.own
        <4>1. /\ OwnHook(u, m) # k /\ hooks'[OwnHook(u, m)] = hooks[OwnHook(u, m)]
              /\ expected'[u][m] = expected[u][m] - 1 /\ astray' = Strayed(u, m)
          BY <1>0, <1>1, <2>1, <3>2
        <4> QED
          BY <1>0, <1>1, <1>c, <4>1
      <3>3. CASE ~(u = k.tun /\ m = k.level)
        <4>1. /\ OwnHook(u, m) # k /\ hooks'[OwnHook(u, m)] = hooks[OwnHook(u, m)]
              /\ expected'[u][m] = expected[u][m]
          BY <1>0, <1>1, <2>1, <3>3
        <4> QED
          BY <1>b, <2>2, <4>1
      <3> QED
        BY <1>a, <3>1, <3>2, <3>3
    <2> QED
      BY <2>2, <2>3 DEF TokensCover
  <1>3. ASSUME NEW k \in Hook, HookFault(k) PROVE TokensCover' /\ astray \subseteq astray'
    <2>0. expected' = expected
      BY <1>3 DEF HookFault
    <2>1. CASE hooks' = [hooks EXCEPT ![k] = @ - 1] /\ astray' = astray
      <3>1. \A j \in Hook : hooks'[j] <= hooks[j] /\ hooks'[j] \in Int
        BY <1>0, <2>1
      <3>2. ASSUME NEW u \in Tunnels, NEW m \in Level
            PROVE  <<u, m>> \in astray' \/ hooks'[OwnHook(u, m)] <= expected'[u][m]
        BY <1>0, <1>1, <1>b, <2>0, <2>1, <3>1
      <3> QED
        BY <2>1, <3>2 DEF TokensCover
    <2>2. CASE /\ hooks' = [hooks EXCEPT ![k] = @ + 1]
               /\ astray' = IF k.own THEN Strayed(k.tun, k.level) ELSE astray
      <3>1. astray \subseteq astray'
        BY <1>a, <1>c, <2>2
      <3>2. ASSUME NEW u \in Tunnels, NEW m \in Level
            PROVE  <<u, m>> \in astray' \/ hooks'[OwnHook(u, m)] <= expected'[u][m]
        <4>1. CASE OwnHook(u, m) = k
          <5>1. k.own /\ u = k.tun /\ m = k.level /\ hooks'[k] = hooks[k] + 1
                /\ astray' = Strayed(u, m)
            BY <1>0, <1>1, <2>2, <4>1
          <5> QED
            BY <1>0, <1>1, <1>c, <2>0, <4>1, <5>1
        <4>2. CASE OwnHook(u, m) # k
          <5>1. hooks'[OwnHook(u, m)] = hooks[OwnHook(u, m)]
            BY <1>0, <1>1, <2>2, <4>2
          <5> QED
            BY <1>b, <2>0, <3>1, <5>1
        <4> QED
          BY <4>1, <4>2
      <3> QED
        BY <3>1, <3>2 DEF TokensCover
    <2> QED
      BY <1>3, <2>1, <2>2 DEF HookFault
  <1>4. ASSUME NEW t \in Tunnels, NEW l \in Level, ExpireHook(t, l)
        PROVE  TokensCover' /\ astray \subseteq astray'
    <2>1. /\ hooks' = hooks /\ astray' = Strayed(t, l)
          /\ expected' = [expected EXCEPT ![t][l] = @ - 1]
      BY <1>4 DEF ExpireHook, routerVars
    <2>2. astray \subseteq astray'
      BY <1>c, <2>1
    <2>3. ASSUME NEW u \in Tunnels, NEW m \in Level
          PROVE  <<u, m>> \in astray' \/ hooks'[OwnHook(u, m)] <= expected'[u][m]
      <3>1. CASE u = t /\ m = l
        <4>1. expected'[u][m] = expected[u][m] - 1
          BY <1>0, <2>1, <3>1
        <4> QED
          BY <1>0, <1>1, <1>c, <2>1, <3>1, <4>1
      <3>2. CASE ~(u = t /\ m = l)
        <4>1. expected'[u][m] = expected[u][m]
          BY <1>0, <2>1, <3>2
        <4> QED
          BY <1>b, <2>1, <2>2, <4>1
      <3> QED
        BY <3>1, <3>2
    <2> QED
      BY <2>2, <2>3 DEF TokensCover
  <1> QED
    BY <1>2, <1>3, <1>4

\* The other steps of a handler send no hook and take no token away, and the
\* events they announce are not conf edges.
NoEdge(h) ==
    /\ UNCHANGED <<hooks, astray>>
    /\ expected' = expected \/ FailAction(h)
    /\ ev' = ev \/ \E e : ~e.own /\ ev' = [ev EXCEPT ![h] = e]

LEMMA NoEdgeKeeps ==
    ASSUME OwnInv, NEW h \in Handlers, NoEdge(h)
    PROVE  TokensCover' /\ OwnEdgesIgnored'
  <1>0. /\ hooks \in [Hook -> Nat] /\ expected \in [Tunnels -> [Level -> Nat]] /\ DesksTyped
    BY DEF OwnInv, TypeInv, WorldTyped
  <1>1. ASSUME expected' = expected PROVE TokensCover'
    BY <1>1 DEF OwnInv, TokensCover, NoEdge
  <1>2. ASSUME FailAction(h) PROVE TokensCover'
    <2> DEFINE t == job[h].tun
    <2>1. t \in Tunnels
      BY <1>0, <1>2 DEF FailAction, Running, DesksTyped, AtDesk
    <2>2. PICK n \in {0, 1} : expected' = ExpectHook(t, Act(h), n)
      BY <1>2 DEF FailAction
    <2> HIDE DEF t
    <2>3. \A u \in Tunnels, m \in Level : expected'[u][m] >= expected[u][m] /\ expected'[u][m] \in Nat
      BY <1>0, <2>1, <2>2 DEF ExpectHook, Level
    <2>4. \A u \in Tunnels, m \in Level :
             /\ hooks'[OwnHook(u, m)] = hooks[OwnHook(u, m)] /\ hooks[OwnHook(u, m)] \in Nat
             /\ expected[u][m] \in Nat
      BY <1>0, OwnHookTyped DEF NoEdge
    <2>5. astray' = astray
      BY DEF NoEdge
    <2>6. ASSUME NEW u \in Tunnels, NEW m \in Level
          PROVE  <<u, m>> \in astray' \/ hooks'[OwnHook(u, m)] <= expected'[u][m]
      <3>1. <<u, m>> \in astray \/ hooks[OwnHook(u, m)] <= expected[u][m]
        BY DEF OwnInv, TokensCover
      <3> QED
        BY <2>3, <2>4, <2>5, <3>1
    <2> QED
      BY <2>6 DEF TokensCover
  <1>3. OwnEdgesIgnored'
    BY <1>0 DEF OwnInv, OwnEdgesIgnored, NoEdge, DesksTyped
  <1> QED
    BY <1>1, <1>2, <1>3 DEF NoEdge

\* An own hook that finds no token is one of those that have lost theirs.
LEMMA ExternalHookKeeps ==
    ASSUME OwnInv, NEW h \in Handlers, NEW k \in Hook, ExternalHook(h, k)
    PROVE  TokensCover' /\ OwnEdgesIgnored'
  <1>1. k.tun \in Tunnels /\ k.level \in Level /\ (k.own => k = OwnHook(k.tun, k.level))
    BY DEF Hook, OwnHook
  <1>2. /\ hooks[k] > 0 /\ expected[k.tun][k.level] = 0
        /\ hooks' = [hooks EXCEPT ![k] = @ - 1]
        /\ ev' = [ev EXCEPT ![h] = [NoEvent EXCEPT !.kind = "hook", !.tun = k.tun,
                                                   !.level = k.level, !.own = k.own]]
        /\ UNCHANGED <<expected, astray>>
    BY DEF ExternalHook, history
  <1>3. /\ hooks \in [Hook -> Nat] /\ ev \in [Handlers -> Event]
        /\ \A u \in Tunnels, m \in Level : expected[u][m] \in Nat
    BY DEF OwnInv, TypeInv, WorldTyped, DesksTyped
  <1>4. k.own => <<k.tun, k.level>> \in astray
    BY <1>1, <1>2, <1>3 DEF OwnInv, TokensCover
  <1>5. OwnEdgesIgnored'
    <2> SUFFICES ASSUME NEW g \in Handlers, ev'[g].own
                 PROVE  <<ev'[g].tun, ev'[g].level>> \in astray
      BY <1>2 DEF OwnEdgesIgnored
    <2>1. CASE g = h
      <3>1. ev'[g].own = k.own /\ ev'[g].tun = k.tun /\ ev'[g].level = k.level
        BY <1>2, <1>3, <2>1 DEF NoEvent
      <3> QED
        BY <1>4, <3>1
    <2>2. CASE g # h
      <3>1. ev'[g] = ev[g]
        BY <1>2, <1>3, <2>2
      <3> QED
        BY <3>1 DEF OwnInv, OwnEdgesIgnored
    <2> QED
      BY <2>1, <2>2
  <1>6. TokensCover'
    <2>1. \A j \in Hook : hooks'[j] <= hooks[j] /\ hooks'[j] \in Int /\ hooks[j] \in Nat
      BY <1>2, <1>3
    <2>2. ASSUME NEW u \in Tunnels, NEW m \in Level
          PROVE  <<u, m>> \in astray \/ hooks'[OwnHook(u, m)] <= expected[u][m]
      BY <1>3, <2>1, OwnHookTyped DEF OwnInv, TokensCover
    <2> QED
      BY <1>2, <2>2 DEF TokensCover
  <1> QED
    BY <1>5, <1>6

\* After a restart of the daemon the hooks still on their way have lost theirs.
LEMMA CrashCovered ==
    ASSUME OwnInv, Crash
    PROVE  TokensCover' /\ OwnEdgesIgnored'
  <1>1. /\ hooks' = hooks /\ expected' = [t \in Tunnels |-> [l \in Level |-> 0]]
        /\ ev' = [h \in Handlers |-> NoEvent]
        /\ astray' = {tl \in Tunnels \X Level : hooks[OwnHook(tl[1], tl[2])] > 0}
    BY DEF Crash
  <1>2. ASSUME NEW t \in Tunnels, NEW l \in Level
        PROVE  <<t, l>> \in astray' \/ hooks'[OwnHook(t, l)] <= expected'[t][l]
    <2>1. hooks[OwnHook(t, l)] \in Nat
      BY OwnHookTyped DEF OwnInv, TypeInv, WorldTyped
    <2>2. expected'[t][l] = 0
      BY <1>1
    <2> QED
      BY <1>1, <2>1, <2>2
  <1>3. OwnEdgesIgnored'
    BY <1>1 DEF OwnEdgesIgnored, NoEvent
  <1> QED
    BY <1>2, <1>3 DEF TokensCover

LEMMA OwnInductive ==
    ASSUME OwnInv, [Next]_vars
    PROVE  OwnInv'
  <1> USE DEF routerVars, history
  <1>0. TypeInv'
    BY TypesInductive DEF OwnInv
  <1>n. NoEvent.own = FALSE
    BY DEF NoEvent
  <1>1. CASE (Environment \/ UNCHANGED vars) /\ ~Crash
    <2>1. UNCHANGED ev
      BY <1>1 DEF Environment, ToggleEnabled, ExtToggle, QuiescenceEnds, ExpireHook, ConsumeHook,
            HookFault, vars
    <2>2. ASSUME UNCHANGED <<hooks, expected, astray>> PROVE TokensCover'
      BY <2>2 DEF OwnInv, TokensCover
    <2>3. ASSUME NEW t \in Tunnels, ExtToggle(t) PROVE TokensCover'
      <3> DEFINE k == [tun |-> t, own |-> FALSE,
                       level |-> IF live[t].conf THEN "disabled" ELSE "running"]
      <3>1. hooks' = [hooks EXCEPT ![k] = @ + 1] /\ UNCHANGED <<expected, astray>>
        BY <2>3 DEF ExtToggle
      <3>2. k.own = FALSE
        OBVIOUS
      <3> HIDE DEF k
      <3>3. \A u \in Tunnels, m \in Level : hooks'[OwnHook(u, m)] = hooks[OwnHook(u, m)]
        BY <3>1, <3>2, OwnHookTyped DEF OwnInv, TypeInv, WorldTyped
      <3> QED
        BY <3>1, <3>3 DEF OwnInv, TokensCover
    <2>4. CASE UNCHANGED <<hooks, expected, astray>>
      BY <1>0, <2>1, <2>2, <2>4 DEF OwnInv, OwnEdgesIgnored
    <2>5. ASSUME NEW t \in Tunnels, ExtToggle(t) PROVE OwnInv'
      <3>1. astray' = astray
        BY <2>5 DEF ExtToggle
      <3> QED
        BY <1>0, <2>1, <2>3, <2>5, <3>1 DEF OwnInv, OwnEdgesIgnored
    <2>6. ASSUME \/ \E k \in Hook : ConsumeHook(k) \/ HookFault(k)
                 \/ \E t \in Tunnels, l \in Level : ExpireHook(t, l)
          PROVE  OwnInv'
      <3>1. TokensCover' /\ astray \subseteq astray'
        BY <2>6, TokensConsumed
      <3> QED
        BY <1>0, <2>1, <3>1 DEF OwnInv, OwnEdgesIgnored
    <2> QED
      BY <1>1, <2>4, <2>5, <2>6 DEF Environment, ToggleEnabled, QuiescenceEnds, vars
  <1>c. CASE Crash
    BY <1>0, <1>c, CrashCovered DEF OwnInv
  <1>2. ASSUME NEW h \in Handlers, Arrive(h) PROVE OwnInv'
    <2>1. ASSUME NEW t \in Tunnels, UserEvent(h, t) PROVE NoEdge(h)
      BY <2>1 DEF UserEvent, NoEdge, NoEvent
    <2>2. ASSUME NEW t \in Tunnels, EditBegin(h, t) PROVE NoEdge(h)
      BY <2>2 DEF EditBegin, NoEdge, NoEvent
    <2>3. ASSUME NEW w \in WANs, WanSet(h, w) PROVE NoEdge(h)
      BY <2>3 DEF WanSet, NoEdge, NoEvent
    <2>4. ASSUME Startup(h) PROVE NoEdge(h)
      BY <2>4 DEF Startup, NoEdge, NoEvent
    <2>5. ASSUME Quiesce(h) PROVE NoEdge(h)
      BY <2>5 DEF Quiesce, NoEdge, NoEvent
    <2>6. CASE NoEdge(h)
      BY <1>0, <2>6, NoEdgeKeeps DEF OwnInv
    <2>7. ASSUME NEW k \in Hook, ExternalHook(h, k) PROVE OwnInv'
      BY <1>0, <2>7, ExternalHookKeeps DEF OwnInv
    <2> QED
      BY <1>2, <2>1, <2>2, <2>3, <2>4, <2>5, <2>6, <2>7 DEF Arrive
  <1>3. ASSUME NEW h \in Handlers, Progress(h) \/ Trouble(h) PROVE OwnInv'
    <2>1. CASE Begin(h) \/ StopUnheard(h)
      <3>1. ev' = ev
        BY <2>1 DEF Begin, StopUnheard, Drive
      <3>2. TokensCover' /\ astray \subseteq astray'
        BY <2>1, DriveCovered
      <3> QED
        BY <1>0, <3>1, <3>2 DEF OwnInv, OwnEdgesIgnored
    <2>2. ASSUME Await(h) \/ Decide(h) \/ RestoreEndpointTracking(h)
                 \/ (\E t \in Tunnels : Pick(h, t))
                 \/ lockTunnel(h) \/ unlockTunnel(h) \/ LockTimeout(h) \/ Cancel(h)
          PROVE  NoEdge(h)
      BY <2>2 DEF Await, Decide, RestoreEndpointTracking, Pick, lockTunnel, unlockTunnel,
                  LockTimeout, Cancel, NoEdge
    <2>3. ASSUME SettleEnd(h) \/ SetEnabled(h) \/ EditEnd(h) PROVE NoEdge(h)
      BY <1>n, <2>3 DEF SettleEnd, SetEnabled, EditEnd, NoEdge
    <2>4. ASSUME Return(h) PROVE NoEdge(h)
      <3>1. /\ UNCHANGED <<hooks, expected, astray>>
            /\ ev' = [ev EXCEPT ![h] = ev[h]] \/ ev' = [ev EXCEPT ![h] = NoEvent]
        BY <2>4 DEF Return
      <3>2. [ev EXCEPT ![h] = ev[h]] = ev
        BY DEF OwnInv, TypeInv, DesksTyped
      <3> QED
        BY <1>n, <3>1, <3>2 DEF NoEdge
    <2>5. ASSUME Resume(h) PROVE NoEdge(h)
      BY <2>5 DEF Resume, NoEdge, NoEvent
    <2>6. ASSUME OneStepAction(h) PROVE NoEdge(h)
      BY <2>6 DEF OneStepAction, ApplyRoutes, RemoveRoutes, Monitoring, Persist,
                  NotFound, NoUpstream, SkipReconcile, NoEdge
    <2>7. ASSUME End(h) \/ FailStart(h) PROVE NoEdge(h)
      BY <2>7 DEF End, FailStart, NoEdge
    <2>8. ASSUME FailAction(h) PROVE NoEdge(h)
      <3>1. UNCHANGED <<hooks, astray, ev>>
        BY <2>8 DEF FailAction
      <3> QED
        BY <2>8, <3>1 DEF NoEdge
    <2>9. CASE NoEdge(h)
      BY <1>0, <2>9, NoEdgeKeeps DEF OwnInv
    <2> QED
      BY <1>3, <2>1, <2>2, <2>3, <2>4, <2>5, <2>6, <2>7, <2>8, <2>9 DEF Progress, Trouble
  <1> QED
    BY <1>1, <1>c, <1>2, <1>3 DEF Next

LEMMA OwnInitially ==
    ASSUME Init
    PROVE  OwnInv
  <1>1. TypeInv
    BY TypesInitially
  <1>2. hooks = [k \in Hook |-> 0] /\ expected = [t \in Tunnels |-> [l \in Level |-> 0]]
        /\ ev = [h \in Handlers |-> NoEvent]
    BY DEF Init
  <1>3. TokensCover
    BY <1>2, OwnHookTyped DEF TokensCover
  <1>4. OwnEdgesIgnored
    BY <1>2 DEF OwnEdgesIgnored, NoEvent
  <1> QED
    BY <1>1, <1>3, <1>4 DEF OwnInv

\* The daemon takes an edge of its own making for a user's (consumeExpectedHook,
\* orchestrator.go:268) only after one of that tunnel and level has lost its token:
\* the hook was posted twice, it came after the TTL or after a restart of the
\* daemon, somebody else's edge took the token, or a nativewg interface was
\* removed.  Nothing else does it: each command has registered its token before
\* the hook can come, whatever the number of concurrent handlers, failed commands,
\* stops NDMS ignores, lost hooks, cancelled requests and timeouts.
THEOREM OwnHooksRecognised == Spec => []OwnEdgesIgnored
  <1>1. OwnInv => OwnEdgesIgnored
    BY DEF OwnInv
  <1> QED
    BY <1>1, OwnInitially, OwnInductive, PTL DEF Spec

-----------------------------------------------------------------------------
(* The stored intent *)

\* What a plan holds that does not come from a user's stop or a conf edge.
Mild == ActionName \ {"PersistStopped"}

MildPlans == [Tunnels -> Seq(Mild)]

Carrying == {"sweep", "pick", "wait", "run", "busy"}

\* A handler that is not executing has nothing left to do, one that is will
\* disable the tunnel of its own stop or edge only, and an edit is of its tunnel.
Minds(p, e, j, q, r) ==
    /\ p \in Carrying \/ (q \in MildPlans /\ r \in MildPlans)
    /\ \A t \in Tunnels : \/ e.tun = t /\ e.kind \in {"stop", "hook"}
                          \/ q[t] \in Seq(Mild) /\ r[t] \in Seq(Mild)
    /\ p = "edit" => e.kind = "edit" /\ e.tun = j.tun

IntentInv ==
    /\ TypeInv
    /\ \A h \in Handlers : Minds(pc[h], ev[h], job[h], plan[h], plan2[h])

\* No decision but decideStop, which decideNDMSHook uses, disables a tunnel.
LEMMA DecisionsMild ==
    ASSUME NEW t, NEW c, NEW w, NEW up
    PROVE  /\ decideStart(t, c) \in Seq(Mild)
           /\ decideRestart(t, c) \in Seq(Mild)
           /\ decideDelete(t, c) \in Seq(Mild)
           /\ decideBoot(t, c) \in Seq(Mild)
           /\ decideReconnect(t, c) \in Seq(Mild)
           /\ decideWANUp(t, c, w) \in Seq(Mild)
           /\ decideWANDownSuspend(t, c, w) \in Seq(Mild)
           /\ decideWANDownFailover(t, c, w, up) \in Seq(Mild)
           /\ decideQuiesce(t, c) \in Seq(Mild)
  <1> DEFINE M == Mild
  <1>1. /\ <<>> \in Seq(M)
        /\ \A a \in M : <<a>> \in Seq(M)
        /\ \A p, q \in Seq(M) : p \o q \in Seq(M)
    OBVIOUS
  <1>2. \A a \in {"ColdStartKernel", "StartNativeWG", "ReconcileNativeWG", "ReconcileKernel",
                  "ResumeKernel", "SuspendKernel", "SuspendProxy", "RestoreKmod", "StartMonitoring",
                  "StopMonitoring", "StopKernel", "StopNativeWG", "DeleteRoutes",
                  "PersistRunning", "ApplyRoutes", "Delete"} : a \in M
    BY DEF Mild, ActionName, LongActions, ShortActions, StartActions, StopActions
  <1> HIDE DEF M
  <1>3. /\ <<"ApplyRoutes", "StartMonitoring", "PersistRunning">> \in Seq(M)
        /\ <<"ApplyRoutes", "PersistRunning">> \in Seq(M)
        /\ <<"DeleteRoutes", "Delete">> \in Seq(M)
    BY <1>2
  <1>4. StopMonitoringIf(c) \in Seq(M) /\ appendPostStartActions(t) \in Seq(M)
    BY <1>1, <1>2, <1>3 DEF appendPostStartActions, StopMonitoringIf
  <1>5. StartAction(t) \in M /\ StopAction(t) \in M
    BY <1>2 DEF StartAction, StopAction
  <1>6. StartPlan(t) \in Seq(M) /\ appendQuiesceStopActions(t, c) \in Seq(M)
    BY <1>1, <1>4, <1>5 DEF StartPlan, appendQuiesceStopActions
  <1>8. decideStart(t, c) \in Seq(M)
    BY <1>1, <1>6 DEF decideStart
  <1>10. decideRestart(t, c) \in Seq(M)
    BY <1>1, <1>6 DEF decideRestart
  <1>11. decideDelete(t, c) \in Seq(M)
    BY <1>1, <1>3, <1>4 DEF decideDelete
  <1>13. decideBoot(t, c) \in Seq(M)
    BY <1>1, <1>2, <1>4, <1>6 DEF decideBoot
  <1>14. decideReconnect(t, c) \in Seq(M)
    BY <1>1, <1>2, <1>6 DEF decideReconnect
  <1>15. decideWANUp(t, c, w) \in Seq(M)
    BY <1>1, <1>2, <1>6 DEF decideWANUp
  <1>16. decideWANDownSuspend(t, c, w) \in Seq(M)
    BY <1>1, <1>2 DEF decideWANDownSuspend
  <1>17. decideWANDownFailover(t, c, w, up) \in Seq(M)
    BY <1>1, <1>6 DEF decideWANDownFailover
  <1>18. decideQuiesce(t, c) \in Seq(M)
    BY <1>1, <1>6 DEF decideQuiesce
  <1> QED
    BY <1>8, <1>10, <1>11, <1>13, <1>14, <1>15, <1>16, <1>17, <1>18 DEF M

\* Whatever a handler decides, only the tunnel of its own stop or edge is disabled.
LEMMA PlansMild ==
    ASSUME NEW e, NEW c
    PROVE  /\ EmptyPlan \in MildPlans
           /\ \A t \in Tunnels : \/ e.tun = t /\ e.kind \in {"stop", "hook"}
                                 \/ decide(e, c)[t] \in Seq(Mild)
           /\ \A p \in decideWANDown(c, e.wan) : p[1] \in MildPlans /\ p[2] \in MildPlans
  <1>0. <<>> \in Seq(Mild)
    OBVIOUS
  <1>1. EmptyPlan \in MildPlans
    BY <1>0 DEF EmptyPlan, MildPlans
  <1>2. ASSUME NEW t \in Tunnels, ~(e.tun = t /\ e.kind \in {"stop", "hook"})
        PROVE  decide(e, c)[t] \in Seq(Mild)
    <2>1. ASSUME NEW u, NEW p, u = t => p \in Seq(Mild)
          PROVE  OnlyFor(u, p)[t] \in Seq(Mild)
      BY <1>0, <2>1 DEF OnlyFor, EmptyPlan
    <2>2. CASE e.kind \in {"stop", "hook"}
      <3>1. PICK p : decide(e, c) = OnlyFor(e.tun, p)
        BY <2>2 DEF decide
      <3> QED
        BY <1>2, <2>1, <2>2, <3>1
    <2>3. CASE e.kind \in {"start", "restart", "delete"}
      <3>1. PICK p \in Seq(Mild) : decide(e, c) = OnlyFor(e.tun, p)
        BY <2>3, DecisionsMild DEF decide
      <3> QED
        BY <2>1, <3>1
    <2>4. CASE e.kind \notin {"start", "restart", "delete", "stop", "hook"}
      BY <1>0, <2>4, DecisionsMild DEF decide, EmptyPlan
    <2> QED
      BY <2>2, <2>3, <2>4
  <1>3. ASSUME NEW p \in decideWANDown(c, e.wan)
        PROVE  p[1] \in MildPlans /\ p[2] \in MildPlans
    <2> DEFINE suspend  == [t \in Tunnels |-> decideWANDownSuspend(t, c[t], e.wan)]
               failover == [t \in Tunnels |-> decideWANDownFailover(t, c[t], e.wan, anyWANUp)]
    <2>1. suspend \in MildPlans /\ failover \in MildPlans
      BY DecisionsMild DEF MildPlans
    <2>2. \/ p = <<suspend, failover>>
          \/ \E t \in Tunnels : p = <<[suspend EXCEPT ![t] = <<>>],
                                      [EmptyPlan EXCEPT ![t] = suspend[t] \o failover[t]]>>
      BY <1>3 DEF decideWANDown
    <2> HIDE DEF suspend, failover
    <2>3. CASE p = <<suspend, failover>>
      BY <2>1, <2>3
    <2>4. ASSUME NEW t \in Tunnels,
                 p = <<[suspend EXCEPT ![t] = <<>>],
                       [EmptyPlan EXCEPT ![t] = suspend[t] \o failover[t]]>>
          PROVE  p[1] \in MildPlans /\ p[2] \in MildPlans
      <3>1. p[1] = [suspend EXCEPT ![t] = <<>>]
        BY <2>4
      <3>2. p[2] = [EmptyPlan EXCEPT ![t] = suspend[t] \o failover[t]]
        BY <2>4
      <3>3. suspend[t] \in Seq(Mild) /\ failover[t] \in Seq(Mild)
        BY <2>1 DEF MildPlans
      <3>4. suspend[t] \o failover[t] \in Seq(Mild)
        BY <3>3
      <3> QED
        BY <1>0, <1>1, <2>1, <3>1, <3>2, <3>4 DEF MildPlans
    <2> QED
      BY <2>2, <2>3, <2>4
  <1> QED
    BY <1>1, <1>2, <1>3

\* A step of one handler leaves the desks of the others alone.
MindStep(h) ==
    /\ \E x : pc' = [pc EXCEPT ![h] = x]
    /\ \E x : ev' = [ev EXCEPT ![h] = x]
    /\ \E x : job' = [job EXCEPT ![h] = x]
    /\ \E x : plan' = [plan EXCEPT ![h] = x]
    /\ \E x : plan2' = [plan2 EXCEPT ![h] = x]

LEMMA OtherMinds ==
    ASSUME DesksTyped, NEW h \in Handlers, MindStep(h), NEW g \in Handlers, g # h
    PROVE  pc'[g] = pc[g] /\ ev'[g] = ev[g] /\ job'[g] = job[g] /\ plan'[g] = plan[g]
           /\ plan2'[g] = plan2[g]
  BY DEF DesksTyped, MindStep

\* Every step of a handler is one, and every step that is not is nobody's.
LEMMA EveryMindStep ==
    ASSUME DesksTyped, NEW h \in Handlers, Arrive(h) \/ Progress(h) \/ Trouble(h)
    PROVE  MindStep(h)
  <1>1. /\ pc = [pc EXCEPT ![h] = pc[h]] /\ ev = [ev EXCEPT ![h] = ev[h]]
        /\ job = [job EXCEPT ![h] = job[h]] /\ plan = [plan EXCEPT ![h] = plan[h]]
        /\ plan2 = [plan2 EXCEPT ![h] = plan2[h]]
    BY DEF DesksTyped
  <1>2. /\ pc' = pc => \E x : pc' = [pc EXCEPT ![h] = x]
        /\ ev' = ev => \E x : ev' = [ev EXCEPT ![h] = x]
        /\ job' = job => \E x : job' = [job EXCEPT ![h] = x]
        /\ plan' = plan => \E x : plan' = [plan EXCEPT ![h] = x]
        /\ plan2' = plan2 => \E x : plan2' = [plan2 EXCEPT ![h] = x]
    BY <1>1
  <1>p. /\ \E x : Popped(h) = [plan EXCEPT ![h] = x]
        /\ \E x : [plan EXCEPT ![h][job[h].tun] = <<>>] = [plan EXCEPT ![h] = x]
        /\ \A s : \E x : [job EXCEPT ![h].snap = s] = [job EXCEPT ![h] = x]
    BY DEF Popped
  <1>3. CASE Arrive(h)
    BY <1>2, <1>3, Zenon DEF Arrive, Startup, Quiesce, UserEvent, EditBegin, WanSet, ExternalHook,
       MindStep
  <1>4. CASE Await(h) \/ SettleEnd(h) \/ RestoreEndpointTracking(h) \/ SetEnabled(h) \/ EditEnd(h)
             \/ Resume(h) \/ lockTunnel(h) \/ unlockTunnel(h)
    BY <1>2, <1>4, Zenon DEF Await, SettleEnd, RestoreEndpointTracking, SetEnabled, EditEnd, Resume,
       lockTunnel, unlockTunnel, MindStep
  <1>5. CASE Decide(h) \/ Return(h) \/ Cancel(h) \/ (\E t \in Tunnels : Pick(h, t))
    BY <1>2, <1>5, Zenon DEF Decide, Return, Cancel, Pick, MindStep
  <1>6. CASE LockTimeout(h)
    BY <1>2, <1>p, <1>6, Zenon DEF LockTimeout, MindStep
  <1>7. CASE OneStepAction(h) \/ FailAction(h)
    <2>1. plan' = Popped(h) /\ UNCHANGED <<pc, ev, job, plan2>>
      BY <1>7, Zenon DEF OneStepAction, ApplyRoutes, RemoveRoutes, Monitoring, Persist, NotFound,
         NoUpstream, SkipReconcile, FailAction, Running
    <2> QED
      BY <1>2, <1>p, <2>1, Zenon DEF MindStep
  <1>8. CASE Begin(h) \/ StopUnheard(h)
    <2>1. /\ \E s : job' = [job EXCEPT ![h].snap = s]
          /\ pc' = [pc EXCEPT ![h] = "busy"] /\ UNCHANGED <<ev, plan, plan2>>
      BY <1>8, Zenon DEF Begin, StopUnheard, Drive
    <2> QED
      BY <1>2, <1>p, <2>1, Zenon DEF MindStep
  <1>9. CASE End(h) \/ FailStart(h)
    <2>1. /\ plan' = Popped(h) /\ job' = [job EXCEPT ![h].snap = NoStored]
          /\ pc' = [pc EXCEPT ![h] = "run"] /\ UNCHANGED <<ev, plan2>>
      BY <1>9, Zenon DEF End, FailStart
    <2> QED
      BY <1>2, <1>p, <2>1, Zenon DEF MindStep
  <1> QED
    BY <1>3, <1>4, <1>5, <1>6, <1>7, <1>8, <1>9, Zenon DEF Progress, Trouble

\* An event arrives at, or leaves, a handler that has nothing planned.
LEMMA MindsAway ==
    ASSUME NEW e, NEW j, NEW p, NEW q \in MildPlans, NEW r \in MildPlans,
           p = "edit" => e.kind = "edit" /\ e.tun = j.tun
    PROVE  Minds(p, e, j, q, r)
  BY DEF Minds, MildPlans

\* A handler goes on with what is left of its plans.
LEMMA MindsOn ==
    ASSUME NEW e, NEW i, NEW j, NEW o, NEW p \in Carrying, NEW q, NEW r, NEW q1, NEW r1,
           Minds(o, e, i, q, r),
           \A t \in Tunnels : q[t] \in Seq(Mild) /\ r[t] \in Seq(Mild)
                                 => q1[t] \in Seq(Mild) /\ r1[t] \in Seq(Mild)
    PROVE  Minds(p, e, j, q1, r1)
  BY DEF Minds, Carrying

LEMMA ArrivalsMind ==
    ASSUME IntentInv, NEW h \in Handlers,
           Arrive(h) \/ Await(h) \/ SettleEnd(h) \/ SetEnabled(h) \/ EditEnd(h) \/ Resume(h)
    PROVE  Minds(pc'[h], ev'[h], job'[h], plan'[h], plan2'[h])
  <1>0. /\ pc \in [Handlers -> Phase] /\ ev \in [Handlers -> Event] /\ job \in [Handlers -> Job]
        /\ Minds(pc[h], ev[h], job[h], plan[h], plan2[h])
    BY DEF IntentInv, TypeInv, DesksTyped
  <1>1. pc[h] \notin Carrying /\ UNCHANGED <<plan, plan2>>
    BY Zenon DEF Arrive, Startup, Quiesce, UserEvent, EditBegin, WanSet, ExternalHook, Await,
       SettleEnd, SetEnabled, EditEnd, Resume, Carrying
  <1>2. plan'[h] \in MildPlans /\ plan2'[h] \in MildPlans
    BY <1>0, <1>1 DEF Minds
  <1>3. pc'[h] = "edit" => ev'[h].kind = "edit" /\ ev'[h].tun = job'[h].tun
    <2>1. ASSUME NEW t \in Tunnels, EditBegin(h, t)
          PROVE  ev'[h].kind = "edit" /\ ev'[h].tun = job'[h].tun
      BY <1>0, <2>1 DEF EditBegin, NoEvent, NoJob
    <2>2. ASSUME Startup(h), pc'[h] = "edit" PROVE FALSE
      BY <1>0, <2>2 DEF Startup
    <2>3. ASSUME \/ Quiesce(h) \/ (\E t \in Tunnels : UserEvent(h, t)) \/ (\E w \in WANs : WanSet(h, w))
                 \/ Await(h) \/ SetEnabled(h) \/ EditEnd(h) \/ Resume(h)
          PROVE  pc'[h] # "edit"
      BY <1>0, <2>3 DEF Quiesce, UserEvent, WanSet, Await, SetEnabled, EditEnd, Resume
    <2>4. ASSUME NEW k \in Hook, ExternalHook(h, k) PROVE pc'[h] # "edit"
      BY <1>0, <2>4 DEF ExternalHook
    <2>5. ASSUME SettleEnd(h) PROVE pc'[h] # "edit"
      <3>1. pc' = [pc EXCEPT ![h] = "idle"] \/ pc' = [pc EXCEPT ![h] = "decide"]
        BY <2>5, Zenon DEF SettleEnd
      <3> QED
        BY <1>0, <3>1
    <2> QED
      BY <2>1, <2>2, <2>3, <2>4, <2>5, Zenon DEF Arrive
  <1> QED
    BY <1>2, <1>3, MindsAway

LEMMA GroupsMind ==
    ASSUME IntentInv, NEW h \in Handlers,
           \/ Decide(h) \/ RestoreEndpointTracking(h) \/ (\E t \in Tunnels : Pick(h, t))
           \/ lockTunnel(h) \/ unlockTunnel(h) \/ LockTimeout(h) \/ Cancel(h) \/ Return(h)
    PROVE  Minds(pc'[h], ev'[h], job'[h], plan'[h], plan2'[h])
  <1>0. /\ pc \in [Handlers -> Phase] /\ ev \in [Handlers -> Event] /\ job \in [Handlers -> Job]
        /\ plan \in [Handlers -> FittingPlans] /\ plan2 \in [Handlers -> FittingPlans]
        /\ Minds(pc[h], ev[h], job[h], plan[h], plan2[h])
    BY DEF IntentInv, TypeInv, DesksTyped
  <1>e. <<>> \in Seq(Mild) /\ EmptyPlan \in MildPlans /\ \A t \in Tunnels : EmptyPlan[t] = <<>>
    BY PlansMild DEF EmptyPlan
  <1>1. CASE Decide(h)
    <2> DEFINE c == IF ev[h].kind = "hook" THEN cache ELSE ensureTunnel(ev[h].tun, cache)
    <2>1. PICK p \in IF ev[h].kind = "wandown" THEN decideWANDown(c, ev[h].wan)
                     ELSE {<<decide(ev[h], c), EmptyPlan>>} :
             plan' = [plan EXCEPT ![h] = p[1]] /\ plan2' = [plan2 EXCEPT ![h] = p[2]]
      BY <1>1 DEF Decide
    <2>2. pc'[h] \in Carrying /\ ev' = ev
      BY <1>0, <1>1 DEF Decide, Carrying
    <2>3. plan'[h] = p[1] /\ plan2'[h] = p[2]
      BY <1>0, <2>1
    <2> HIDE DEF c
    <2>4. \A t \in Tunnels : \/ ev[h].tun = t /\ ev[h].kind \in {"stop", "hook"}
                             \/ p[1][t] \in Seq(Mild) /\ p[2][t] \in Seq(Mild)
      <3>1. CASE ev[h].kind = "wandown"
        <4>1. p[1] \in MildPlans /\ p[2] \in MildPlans
          BY <2>1, <3>1, PlansMild
        <4> QED
          BY <4>1 DEF MildPlans
      <3>2. CASE ev[h].kind # "wandown"
        <4>1. p[1] = decide(ev[h], c) /\ p[2] = EmptyPlan
          BY <2>1, <3>2
        <4> QED
          BY <1>e, <4>1, PlansMild
      <3> QED
        BY <3>1, <3>2
    <2> QED
      BY <2>2, <2>3, <2>4 DEF Minds, Carrying
  <1>2. CASE RestoreEndpointTracking(h) \/ lockTunnel(h) \/ unlockTunnel(h)
    <2>1. pc'[h] \in Carrying /\ UNCHANGED <<ev, job, plan, plan2>>
      BY <1>0, <1>2 DEF RestoreEndpointTracking, lockTunnel, unlockTunnel, Carrying
    <2> QED
      BY <1>0, <2>1, MindsOn
  <1>3. ASSUME NEW t \in Tunnels, Pick(h, t)
        PROVE  Minds(pc'[h], ev'[h], job'[h], plan'[h], plan2'[h])
    <2>1. pc'[h] \in Carrying /\ ev' = ev
      BY <1>0, <1>3 DEF Pick, Carrying
    <2>2. \/ plan'[h] = plan[h] /\ plan2'[h] = plan2[h]
          \/ plan'[h] = plan2[h] /\ plan2'[h] = EmptyPlan
      BY <1>0, <1>3 DEF Pick
    <2>3. \A u \in Tunnels : plan[h][u] \in Seq(Mild) /\ plan2[h][u] \in Seq(Mild)
                                => plan'[h][u] \in Seq(Mild) /\ plan2'[h][u] \in Seq(Mild)
      BY <1>e, <2>2
    <2> QED
      BY <1>0, <2>1, <2>3, MindsOn
  <1>4. CASE LockTimeout(h)
    <2>1. pc'[h] \in Carrying /\ ev' = ev /\ plan2' = plan2
      BY <1>0, <1>4 DEF LockTimeout, Carrying
    <2>2. plan' = [plan EXCEPT ![h] = [plan[h] EXCEPT ![job[h].tun] = <<>>]]
      BY <1>0, <1>4 DEF LockTimeout
    <2>3. \A u \in Tunnels : plan'[h][u] = plan[h][u] \/ plan'[h][u] = <<>>
      BY <1>0, <2>2 DEF FittingPlans
    <2>4. \A u \in Tunnels : plan[h][u] \in Seq(Mild) /\ plan2[h][u] \in Seq(Mild)
                                => plan'[h][u] \in Seq(Mild) /\ plan2'[h][u] \in Seq(Mild)
      BY <1>e, <2>1, <2>3
    <2> QED
      BY <1>0, <2>1, <2>4, MindsOn
  <1>5. CASE Cancel(h)
    <2>1. pc'[h] # "edit" /\ plan'[h] = EmptyPlan /\ plan2'[h] = EmptyPlan
      BY <1>0, <1>5 DEF Cancel
    <2> QED
      BY <1>e, <2>1, MindsAway
  <1>6. CASE Return(h)
    <2>1. /\ pc'[h] # "edit" /\ UNCHANGED <<plan, plan2>>
          /\ Planned(plan[h]) = {} /\ Planned(plan2[h]) = {}
      BY <1>0, <1>6 DEF Return
    <2>2. \A t \in Tunnels : plan[h][t] = <<>> /\ plan2[h][t] = <<>>
      BY <2>1 DEF Planned
    <2>3. plan'[h] \in MildPlans /\ plan2'[h] \in MildPlans
      BY <1>0, <1>e, <2>1, <2>2 DEF FittingPlans, MildPlans
    <2> QED
      BY <2>1, <2>3, MindsAway
  <1> QED
    BY <1>1, <1>2, <1>3, <1>4, <1>5, <1>6

LEMMA ActionsMind ==
    ASSUME IntentInv, NEW h \in Handlers,
           \/ OneStepAction(h) \/ FailAction(h) \/ Begin(h) \/ StopUnheard(h) \/ End(h) \/ FailStart(h)
    PROVE  Minds(pc'[h], ev'[h], job'[h], plan'[h], plan2'[h])
  <1>0. /\ DesksTyped /\ pc \in [Handlers -> Phase] /\ plan \in [Handlers -> FittingPlans]
        /\ Minds(pc[h], ev[h], job[h], plan[h], plan2[h])
    BY DEF IntentInv, TypeInv, DesksTyped
  <1>1. CASE Begin(h) \/ StopUnheard(h)
    <2>1. pc' = [pc EXCEPT ![h] = "busy"] /\ UNCHANGED <<ev, plan, plan2>>
      BY <1>1, Zenon DEF Begin, StopUnheard, Drive
    <2>2. pc'[h] \in Carrying
      BY <1>0, <2>1 DEF Carrying
    <2> QED
      BY <1>0, <2>1, <2>2, MindsOn
  <1>2. CASE OneStepAction(h) \/ FailAction(h) \/ End(h) \/ FailStart(h)
    <2>1. /\ pc[h] \in {"run", "busy"} /\ plan' = Popped(h) /\ UNCHANGED <<ev, plan2>>
          /\ pc' = pc \/ pc' = [pc EXCEPT ![h] = "run"]
      BY <1>2, Zenon DEF OneStepAction, ApplyRoutes, RemoveRoutes, Monitoring, Persist, NotFound,
         NoUpstream, SkipReconcile, FailAction, Running, End, FailStart
    <2>2. pc'[h] \in Carrying
      BY <1>0, <2>1 DEF Carrying
    <2>3. job[h].tun \in Tunnels /\ (pc[h] = "busy" => plan[h][job[h].tun] # <<>>)
      BY <1>0, <2>1 DEF DesksTyped, AtDesk
    <2>4. plan[h][job[h].tun] # <<>>
      BY <1>2, <2>3, Zenon DEF OneStepAction, ApplyRoutes, RemoveRoutes, Monitoring, Persist, NotFound,
         NoUpstream, SkipReconcile, FailAction, Running, End, FailStart
    <2>5. plan'[h] = [plan[h] EXCEPT ![job[h].tun] = Tail(plan[h][job[h].tun])]
      BY <1>0, <2>1 DEF Popped
    <2>6. ASSUME NEW u \in Tunnels, plan[h][u] \in Seq(Mild)
          PROVE  plan'[h][u] \in Seq(Mild)
      <3>1. plan'[h][u] = plan[h][u] \/ (u = job[h].tun /\ plan'[h][u] = Tail(plan[h][u]))
        BY <1>0, <2>3, <2>5 DEF FittingPlans
      <3>2. ASSUME NEW s \in Seq(Mild), s # <<>> PROVE Tail(s) \in Seq(Mild)
        BY <3>2
      <3> QED
        BY <2>4, <2>6, <3>1, <3>2, Zenon
    <2> QED
      BY <1>0, <2>1, <2>2, <2>6, MindsOn
  <1> QED
    BY <1>1, <1>2

\* The environment touches no desk, but a crash clears them all.
LEMMA NobodysStep ==
    ASSUME Environment \/ UNCHANGED vars
    PROVE  \/ UNCHANGED <<pc, ev, job, plan, plan2>>
           \/ /\ pc' = [h \in Handlers |-> "idle"] /\ ev' = [h \in Handlers |-> NoEvent]
              /\ plan' = [h \in Handlers |-> EmptyPlan] /\ plan2' = [h \in Handlers |-> EmptyPlan]
              /\ job' = [h \in Handlers |-> NoJob] /\ store' = store
  BY DEF Environment, ToggleEnabled, ExtToggle, QuiescenceEnds, ExpireHook, ConsumeHook, HookFault,
         Crash, vars

LEMMA IntentInductive ==
    ASSUME IntentInv, [Next]_vars
    PROVE  IntentInv'
  <1>0. TypeInv' /\ DesksTyped
    BY TypesInductive DEF IntentInv, TypeInv
  <1>1. CASE Environment \/ UNCHANGED vars
    <2>1. CASE UNCHANGED <<pc, ev, job, plan, plan2>>
      BY <1>0, <2>1 DEF IntentInv
    <2>2. ASSUME /\ pc' = [h \in Handlers |-> "idle"] /\ ev' = [h \in Handlers |-> NoEvent]
                 /\ plan' = [h \in Handlers |-> EmptyPlan] /\ plan2' = [h \in Handlers |-> EmptyPlan]
                 /\ job' = [h \in Handlers |-> NoJob]
          PROVE  IntentInv'
      <3>1. EmptyPlan \in MildPlans
        BY PlansMild
      <3>2. ASSUME NEW g \in Handlers PROVE Minds(pc'[g], ev'[g], job'[g], plan'[g], plan2'[g])
        BY <2>2, <3>1, MindsAway
      <3> QED
        BY <1>0, <3>2 DEF IntentInv
    <2> QED
      BY <1>1, <2>1, <2>2, NobodysStep
  <1>2. ASSUME NEW h \in Handlers, Arrive(h) \/ Progress(h) \/ Trouble(h)
        PROVE  IntentInv'
    <2>1. Minds(pc'[h], ev'[h], job'[h], plan'[h], plan2'[h])
      BY <1>2, ArrivalsMind, GroupsMind, ActionsMind, Zenon DEF Progress, Trouble
    <2>2. MindStep(h)
      BY <1>0, <1>2, EveryMindStep
    <2>3. ASSUME NEW g \in Handlers, g # h
          PROVE  Minds(pc'[g], ev'[g], job'[g], plan'[g], plan2'[g])
      BY <1>0, <2>2, <2>3, OtherMinds DEF IntentInv
    <2> QED
      BY <1>0, <2>1, <2>3 DEF IntentInv
  <1> QED
    BY <1>1, <1>2 DEF Next

LEMMA IntentInitially == Init => IntentInv
  <1> SUFFICES ASSUME Init
               PROVE  IntentInv
    OBVIOUS
  <1>1. EmptyPlan \in MildPlans
    BY PlansMild
  <1>2. ASSUME NEW h \in Handlers PROVE Minds(pc[h], ev[h], job[h], plan[h], plan2[h])
    BY <1>1, MindsAway DEF Init
  <1> QED
    BY <1>2, TypesInitially DEF IntentInv

\* What an action saves is disabled only if one of the two copies it has is.
LEMMA SavedEnabled ==
    ASSUME NEW t, NEW act, NEW now \in Stored, NEW snap \in Stored, NEW s \in Saved(t, act, now, snap)
    PROVE  s.enabled \/ ~now.enabled \/ ~snap.enabled
  <1> USE DEF Stored
  <1>1. CASE act = "ColdStartKernel"
    BY <1>1 DEF Saved
  <1>2. CASE act \in {"StartNativeWG", "ReconcileNativeWG"}
    <2>1. \E w : s = [snap EXCEPT !.enabled = TRUE, !.activeWAN = w]
      BY <1>2 DEF Saved
    <2> QED
      BY <2>1
  <1>3. CASE act = "RestoreKmod"
    <2>1. s = now \/ \E w : s = [snap EXCEPT !.activeWAN = w]
      BY <1>3 DEF Saved
    <2> QED
      BY <2>1
  <1>4. CASE act \in {"ReconcileKernel", "StopKernel", "StopNativeWG", "Delete"}
    BY <1>4 DEF Saved
  <1>5. CASE act \notin {"ColdStartKernel", "StartNativeWG", "ReconcileNativeWG", "RestoreKmod",
                         "ReconcileKernel", "StopKernel", "StopNativeWG", "Delete"}
    BY <1>5 DEF Saved
  <1> QED
    BY <1>1, <1>2, <1>3, <1>4, <1>5

\* The ways in which one handler disables a tunnel.
LEMMA WhoDisables ==
    ASSUME IntentInv, NEW h \in Handlers, Arrive(h) \/ Progress(h) \/ Trouble(h),
           NEW t \in Tunnels, store[t].enabled, ~store'[t].enabled
    PROVE  \/ ev[h].tun = t /\ ev[h].kind \in {"stop", "hook", "edit"}
           \/ pc[h] = "busy" /\ ~job[h].snap.enabled
  <1>0. /\ DesksTyped /\ store \in [Tunnels -> Stored] /\ store # store'
        /\ Minds(pc[h], ev[h], job[h], plan[h], plan2[h])
    BY DEF IntentInv, TypeInv, WorldTyped
  <1>1. CASE Persist(h)
    <2>1. /\ pc[h] = "run" /\ plan[h][job[h].tun] # <<>>
          /\ Act(h) \in {"PersistRunning", "PersistStopped"}
      BY <1>1 DEF Persist, Running
    <2>2. job[h].tun \in Tunnels
      BY <1>0, <2>1 DEF DesksTyped, AtDesk
    <2>3. t = job[h].tun /\ Act(h) = "PersistStopped"
      BY <1>0, <1>1, <2>1, <2>2 DEF Persist, Stored
    <2>4. plan[h][t] \notin Seq(Mild)
      <3> SUFFICES ASSUME plan[h][t] \in Seq(Mild)
                   PROVE  FALSE
        OBVIOUS
      <3>1. Head(plan[h][t]) \in Mild
        BY <2>1, <2>3
      <3> QED
        BY <2>3, <3>1 DEF Mild, Act
    <2> QED
      BY <1>0, <2>4 DEF Minds
  <1>2. CASE SetEnabled(h)
    <2>1. ev[h].kind = "stop" /\ ev[h].tun \in Tunnels
      BY <1>0, <1>2 DEF SetEnabled, DesksTyped, AtDesk
    <2>2. t = ev[h].tun
      BY <1>0, <1>2, <2>1 DEF SetEnabled
    <2> QED
      BY <2>1, <2>2
  <1>3. CASE RestoreEndpointTracking(h)
    <2>1. store'[t].enabled = store[t].enabled
      BY <1>0, <1>3 DEF RestoreEndpointTracking, Stored
    <2> QED
      BY <2>1
  <1>4. CASE EditEnd(h)
    <2>1. ev[h].kind = "edit" /\ ev[h].tun = job[h].tun /\ job[h].tun \in Tunnels
      BY <1>0, <1>4 DEF EditEnd, Minds, DesksTyped, AtDesk
    <2>2. t = job[h].tun
      BY <1>0, <1>4, <2>1 DEF EditEnd
    <2> QED
      BY <2>1, <2>2
  <1>5. CASE End(h)
    <2>1. pc[h] = "busy" /\ job[h].tun \in Tunnels /\ job[h].snap \in Stored
      BY <1>0, <1>5 DEF End, DesksTyped, AtDesk, Job
    <2>2. PICK s \in Saved(job[h].tun, Act(h), store[job[h].tun], job[h].snap) :
             store' = [store EXCEPT ![job[h].tun] = s]
      BY <1>5 DEF End
    <2>3. t = job[h].tun /\ ~s.enabled
      BY <1>0, <2>1, <2>2
    <2>4. store[t] \in Stored
      BY <1>0
    <2> DEFINE now == store[t]
               snap == job[h].snap
    <2>5. now \in Stored /\ snap \in Stored /\ s \in Saved(t, Act(h), now, snap)
      BY <2>1, <2>2, <2>3, <2>4
    <2>6. now.enabled
      OBVIOUS
    <2> HIDE DEF now, snap
    <2>7. ~snap.enabled
      BY <2>3, <2>5, <2>6, SavedEnabled
    <2> QED
      BY <2>1, <2>7 DEF snap
  <1>6. CASE store' = store
    BY <1>0, <1>6
  <1>7. ASSUME Arrive(h) PROVE store' = store
    BY <1>7, Zenon DEF Arrive, Startup, Quiesce, UserEvent, EditBegin, WanSet, ExternalHook
  <1>8. ASSUME Trouble(h) PROVE store' = store
    BY <1>8, Zenon DEF Trouble, LockTimeout, Cancel, FailAction, FailStart, StopUnheard, Drive
  <1>9. ASSUME Await(h) \/ SettleEnd(h) \/ Decide(h) \/ (\E u \in Tunnels : Pick(h, u)) \/ lockTunnel(h)
               \/ unlockTunnel(h) \/ Return(h) \/ Begin(h) \/ Resume(h)
        PROVE  store' = store
    BY <1>9, Zenon DEF Await, SettleEnd, Decide, Pick, lockTunnel, unlockTunnel, Return, Begin, Drive,
       Resume
  <1>10. ASSUME ApplyRoutes(h) \/ RemoveRoutes(h) \/ Monitoring(h) \/ NotFound(h) \/ NoUpstream(h)
                \/ SkipReconcile(h)
         PROVE  store' = store
    BY <1>10, Zenon DEF ApplyRoutes, RemoveRoutes, Monitoring, NotFound, NoUpstream, SkipReconcile
  <1> QED
    BY <1>1, <1>2, <1>3, <1>4, <1>5, <1>6, <1>7, <1>8, <1>9, <1>10, Zenon DEF Progress, OneStepAction

\* Whatever runs beside it, a handler of a WAN event, a startup, a restart, a
\* delete or a backup never takes a tunnel's autostart away, except by saving the
\* copy it had read before somebody enabled the tunnel (SaveTunnel in execute.go).
THEOREM IntentIsKept == Spec => IntentKept
  <1>1. ASSUME IntentInv, [Next]_vars, NEW h \in Handlers, NEW t \in Tunnels,
               store[t].enabled, ~store'[t].enabled, <<pc[h], plan[h]>> # <<pc'[h], plan'[h]>>
        PROVE  \/ ev[h].tun = t /\ ev[h].kind \in {"stop", "hook", "edit"}
               \/ pc[h] = "busy" /\ ~job[h].snap.enabled
    <2>0. DesksTyped
      BY <1>1 DEF IntentInv, TypeInv
    <2>1. CASE Environment \/ UNCHANGED vars
      BY <1>1, <2>1, NobodysStep
    <2>2. ASSUME NEW g \in Handlers, Arrive(g) \/ Progress(g) \/ Trouble(g)
          PROVE  g = h
      <3>1. MindStep(g)
        BY <2>0, <2>2, EveryMindStep
      <3> QED
        BY <1>1, <2>0, <3>1, OtherMinds
    <2>3. CASE Arrive(h) \/ Progress(h) \/ Trouble(h)
      BY <1>1, <2>3, WhoDisables
    <2> QED
      BY <1>1, <2>1, <2>2, <2>3 DEF Next
  <1>2. IntentInv /\ [Next]_vars =>
           [\A h \in Handlers, t \in Tunnels :
               (store[t].enabled /\ ~store'[t].enabled /\ <<pc[h], plan[h]>> # <<pc'[h], plan'[h]>>)
                   => \/ ev[h].tun = t /\ ev[h].kind \in {"stop", "hook", "edit"}
                      \/ pc[h] = "busy" /\ ~job[h].snap.enabled]_vars
    BY <1>1
  <1> QED
    BY <1>2, IntentInitially, IntentInductive, PTL DEF Spec, IntentKept

-----------------------------------------------------------------------------
(* Intent, routes and router of nativewg tunnels *)

\* The nativewg tunnels of a daemon left to itself: users start, stop and
\* restart them and WANs come and go, but nobody deletes or edits them, flips
\* their autostart or toggles their interfaces, and nothing fails, times out,
\* is cancelled or restarted.
NativeAlone ==
    /\ KernelTunnels = {}
    /\ Kinds \subseteq {"start", "stop", "restart", "wan"}
    /\ MaxExt = 0 /\ MaxFails = 0 /\ MaxGiveUps = 0

\* What is left of a plan.  After a start: routes, monitoring, intent.
AfterStart == {<<"ApplyRoutes", "PersistRunning">>,
               <<"ApplyRoutes", "StartMonitoring", "PersistRunning">>,
               <<"StartMonitoring", "PersistRunning">>, <<"PersistRunning">>}

AfterStop == <<"RemoveRoutes", "PersistStopped">>

Starting == {<<a>> \o p : a \in {"StartNativeWG", "ReconcileNativeWG"}, p \in AfterStart}

\* A stop, or the stop of a restart.
Stopping == {<<"StopNativeWG">> \o p : p \in Starting \cup {AfterStop}}

Unmonitoring == {<<"StopMonitoring">> \o p : p \in Stopping}

FailingOver == {<<"SuspendProxy">> \o p : p \in Starting}

\* Plans that decide whether the tunnel is up.
Deciding == Starting \cup Stopping \cup Unmonitoring \cup FailingOver

\* Plans that leave that alone.
Sparing == {<<>>, <<"StartMonitoring">>, <<"RestoreKmod">>, <<"RestoreKmod", "StartMonitoring">>,
            <<"SuspendProxy">>}

Whole == Deciding \cup Sparing

\* The tunnel's autostart, conf layer and routes agree.
Settled(t) == store[t].enabled = live[t].conf /\ (routes[t] => live[t].conf)

\* What must hold of the tunnel when p is what is left to do between actions.
Due(t, p) ==
    \/ p \in Deciding
    \/ p \in AfterStart /\ live[t].conf
    \/ p \in Sparing /\ Settled(t)
    \/ p = AfterStop /\ ~live[t].conf
    \/ p = <<"PersistStopped">> /\ ~live[t].conf /\ ~routes[t]

\* The same inside a long action, the first of p, which has read the copy s.
UnderWay(t, p, s) ==
    \/ p \in Starting /\ live[t].conf
    \/ p \in Stopping /\ ~live[t].conf
    \/ p \in FailingOver
    \/ /\ p \in Sparing \ {<<>>} /\ Head(p) \in {"SuspendProxy", "RestoreKmod"}
       /\ Settled(t) /\ s.enabled = store[t].enabled

Works(h, t) == pc[h] \in Executing /\ job[h].tun = t

\* One handler: what it does and what it still has to do.
OnCourse(h) ==
    /\ firstErr[h] # "error" /\ pc[h] \notin {"flip", "edit"}
    /\ ev[h].kind \notin {"delete", "quiesce"}
    /\ \A t \in Tunnels : plan2[h][t] \in Whole /\ (~Works(h, t) => plan[h][t] \in Whole)
    /\ pc[h] = "run" => Due(job[h].tun, plan[h][job[h].tun])
    /\ pc[h] = "busy" => /\ UnderWay(job[h].tun, plan[h][job[h].tun], job[h].snap)
                         /\ job[h].snap.exists

\* Whatever nobody is working on is settled.
PlanInv ==
    /\ \A t \in Tunnels : store[t].exists
    /\ \A h \in Handlers : OnCourse(h)
    /\ \A t \in Tunnels : (\A h \in Handlers : ~Works(h, t)) => Settled(t)

NativeInv == TypeInv /\ LockInv /\ PlanInv

\* First action and rest of a sequence that is put together.
LEMMA HeadAndTail ==
    ASSUME NEW S, NEW a \in S, NEW p \in Seq(S)
    PROVE  /\ <<a>> \o p \in Seq(S) /\ <<a>> \o p # <<>>
           /\ Head(<<a>> \o p) = a
           /\ Tail(<<a>> \o p) = p
  <1> DEFINE c == <<a>> \o p
             q == Tail(c)
  <1>1. <<a>> \in Seq(S) /\ Len(<<a>>) = 1 /\ <<a>>[1] = a
    OBVIOUS
  <1>2. /\ c \in Seq(S) /\ Len(c) = Len(p) + 1
        /\ \A i \in 1..Len(p) + 1 : c[i] = IF i <= 1 THEN <<a>>[i] ELSE p[i - 1]
    BY <1>1, ConcatProperties
  <1>3. Len(p) \in Nat /\ c # <<>>
    BY <1>2
  <1> HIDE DEF c
  <1>4. Head(c) = a
    BY <1>1, <1>2, <1>3
  <1>5. q \in Seq(S) /\ Len(q) = Len(p) /\ \A i \in 1..Len(q) : q[i] = p[i]
    BY <1>2, <1>3
  <1>6. q = p
    <2> HIDE DEF q
    <2> QED
      BY <1>5, SeqEqual
  <1> QED
    BY <1>2, <1>3, <1>4, <1>6 DEF c

\* First action and rest of every plan of a nativewg tunnel.
LEMMA PlanShapes ==
    /\ \A p \in AfterStart : \/ Head(p) \in {"ApplyRoutes", "StartMonitoring"} /\ Tail(p) \in AfterStart
                             \/ Head(p) = "PersistRunning" /\ Tail(p) = <<>>
    /\ Head(AfterStop) = "RemoveRoutes" /\ Tail(AfterStop) = <<"PersistStopped">>
    /\ Head(<<"PersistStopped">>) = "PersistStopped" /\ Tail(<<"PersistStopped">>) = <<>>
    /\ \A p \in Starting : /\ Head(p) \in {"StartNativeWG", "ReconcileNativeWG"}
                           /\ Tail(p) \in AfterStart
    /\ \A p \in Stopping : Head(p) = "StopNativeWG" /\ Tail(p) \in Starting \cup {AfterStop}
    /\ \A p \in Unmonitoring : Head(p) = "StopMonitoring" /\ Tail(p) \in Stopping
    /\ \A p \in FailingOver : Head(p) = "SuspendProxy" /\ Tail(p) \in Starting
    /\ \A p \in Sparing \ {<<>>} : /\ Head(p) \in {"StartMonitoring", "RestoreKmod", "SuspendProxy"}
                                   /\ Tail(p) \in Sparing
    /\ <<>> \notin Deciding \cup AfterStart \cup {AfterStop, <<"PersistStopped">>}
    /\ Starting \subseteq Seq(ActionName) /\ AfterStop \in Seq(ActionName)
  <1>0. {"ApplyRoutes", "StartMonitoring", "StopMonitoring", "PersistRunning", "PersistStopped",
         "RemoveRoutes", "StartNativeWG", "ReconcileNativeWG", "StopNativeWG", "SuspendProxy"}
            \subseteq ActionName
    BY DEF ActionName, LongActions, ShortActions, StartActions, StopActions
  <1>1. ASSUME NEW p \in AfterStart
        PROVE  \/ Head(p) \in {"ApplyRoutes", "StartMonitoring"} /\ Tail(p) \in AfterStart
               \/ Head(p) = "PersistRunning" /\ Tail(p) = <<>>
    <2>1. CASE p = <<"ApplyRoutes", "PersistRunning">>
      BY <2>1 DEF AfterStart
    <2>2. CASE p = <<"ApplyRoutes", "StartMonitoring", "PersistRunning">>
      BY <2>2 DEF AfterStart
    <2>3. CASE p = <<"StartMonitoring", "PersistRunning">>
      BY <2>3 DEF AfterStart
    <2>4. CASE p = <<"PersistRunning">>
      BY <2>4
    <2> QED
      BY <2>1, <2>2, <2>3, <2>4 DEF AfterStart
  <1>2. /\ Head(AfterStop) = "RemoveRoutes" /\ Tail(AfterStop) = <<"PersistStopped">>
        /\ Head(<<"PersistStopped">>) = "PersistStopped" /\ Tail(<<"PersistStopped">>) = <<>>
    BY DEF AfterStop
  <1>3. AfterStart \subseteq Seq(ActionName) /\ AfterStop \in Seq(ActionName) /\ <<>> \notin AfterStart
        /\ AfterStop # <<>> /\ <<"PersistStopped">> # <<>>
    <2>1. /\ <<"ApplyRoutes", "PersistRunning">> \in Seq(ActionName)
          /\ <<"ApplyRoutes", "StartMonitoring", "PersistRunning">> \in Seq(ActionName)
          /\ <<"StartMonitoring", "PersistRunning">> \in Seq(ActionName)
          /\ <<"PersistRunning">> \in Seq(ActionName)
      BY <1>0
    <2>2. AfterStop \in Seq(ActionName)
      BY <1>0 DEF AfterStop
    <2>3. <<>> \notin AfterStart /\ AfterStop # <<>> /\ <<"PersistStopped">> # <<>>
      BY DEF AfterStart, AfterStop
    <2> QED
      BY <2>1, <2>2, <2>3 DEF AfterStart
  <1>4. ASSUME NEW p \in Starting
        PROVE  /\ Head(p) \in {"StartNativeWG", "ReconcileNativeWG"} /\ Tail(p) \in AfterStart
               /\ p \in Seq(ActionName) /\ p # <<>>
    <2>1. PICK a \in {"StartNativeWG", "ReconcileNativeWG"}, q \in AfterStart : p = <<a>> \o q
      BY DEF Starting
    <2>2. a \in ActionName /\ q \in Seq(ActionName)
      BY <1>0, <1>3
    <2> QED
      BY <2>1, <2>2, HeadAndTail
  <1>5. ASSUME NEW p \in Stopping
        PROVE  /\ Head(p) = "StopNativeWG" /\ Tail(p) \in Starting \cup {AfterStop}
               /\ p \in Seq(ActionName) /\ p # <<>>
    <2>1. PICK q \in Starting \cup {AfterStop} : p = <<"StopNativeWG">> \o q
      BY DEF Stopping
    <2>2. q \in Seq(ActionName) /\ "StopNativeWG" \in ActionName
      BY <1>0, <1>3, <1>4
    <2> QED
      BY <2>1, <2>2, HeadAndTail
  <1>6. ASSUME NEW p \in Unmonitoring
        PROVE  Head(p) = "StopMonitoring" /\ Tail(p) \in Stopping /\ p # <<>>
    <2>1. PICK q \in Stopping : p = <<"StopMonitoring">> \o q
      BY DEF Unmonitoring
    <2>2. q \in Seq(ActionName) /\ "StopMonitoring" \in ActionName
      BY <1>0, <1>5
    <2> QED
      BY <2>1, <2>2, HeadAndTail
  <1>7. ASSUME NEW p \in FailingOver
        PROVE  Head(p) = "SuspendProxy" /\ Tail(p) \in Starting /\ p # <<>>
    <2>1. PICK q \in Starting : p = <<"SuspendProxy">> \o q
      BY DEF FailingOver
    <2>2. q \in Seq(ActionName) /\ "SuspendProxy" \in ActionName
      BY <1>0, <1>4
    <2> QED
      BY <2>1, <2>2, HeadAndTail
  <1>8. ASSUME NEW p \in Sparing, p # <<>>
        PROVE  /\ Head(p) \in {"StartMonitoring", "RestoreKmod", "SuspendProxy"}
               /\ Tail(p) \in Sparing
    <2>1. CASE p = <<"RestoreKmod", "StartMonitoring">>
      BY <2>1 DEF Sparing
    <2>2. CASE p = <<"StartMonitoring">>
      BY <2>2 DEF Sparing
    <2>3. CASE p = <<"RestoreKmod">>
      BY <2>3 DEF Sparing
    <2>4. CASE p = <<"SuspendProxy">>
      BY <2>4 DEF Sparing
    <2> QED
      BY <1>8, <2>1, <2>2, <2>3, <2>4 DEF Sparing
  <1>9. <<>> \notin Deciding \cup AfterStart \cup {AfterStop, <<"PersistStopped">>}
    BY <1>3, <1>4, <1>5, <1>6, <1>7 DEF Deciding
  <1> QED
    BY <1>1, <1>2, <1>3, <1>4, <1>5, <1>6, <1>7, <1>8, <1>9

\* What decide.go plans for a nativewg tunnel is one of these plans; a failover
\* is planned only after a suspend.
LEMMA NativeDecisions ==
    ASSUME NEW t, t \notin KernelTunnels, NEW c, NEW w, NEW level, NEW up
    PROVE  /\ decideStart(t, c) \in Whole
           /\ decideStop(t, c) \in Whole
           /\ decideRestart(t, c) \in Whole
           /\ decideNDMSHook(t, c, level, up) \in Whole
           /\ decideBoot(t, c) \in Whole
           /\ decideReconnect(t, c) \in Whole
           /\ decideWANUp(t, c, w) \in Whole
           /\ decideWANDownSuspend(t, c, w) \in {<<>>, <<"SuspendProxy">>}
           /\ decideWANDownFailover(t, c, w, up) \in {<<>>} \cup Starting
           /\ decideWANDownFailover(t, c, w, up) # <<>>
                 => decideWANDownSuspend(t, c, w) = <<"SuspendProxy">>
  <1>0. <<>> \in Whole /\ Starting \subseteq Whole /\ Stopping \subseteq Whole
        /\ Unmonitoring \subseteq Whole /\ Sparing \subseteq Whole
    BY DEF Whole, Deciding, Sparing
  <1>1. appendPostStartActions(t) \in AfterStart
    BY DEF appendPostStartActions, AfterStart
  <1>2. StartPlan(t) \in Starting /\ <<"ReconcileNativeWG">> \o appendPostStartActions(t) \in Starting
    BY <1>1 DEF StartPlan, StartAction, Starting
  <1>3. decideStart(t, c) \in Whole
    BY <1>0, <1>2 DEF decideStart
  <1>s. ASSUME NEW q \in Starting \cup {AfterStop}
        PROVE  /\ StopMonitoringIf(c) \o (<<"StopNativeWG">> \o q) \in Whole
               /\ q \in Seq(ActionName)
               /\ StopMonitoringIf(c) \in Seq(ActionName)
    <2>1. <<"StopNativeWG">> \o q \in Stopping
      BY DEF Stopping
    <2>2. /\ {"StopNativeWG", "StopMonitoring", "StartNativeWG", "ReconcileNativeWG", "ApplyRoutes",
              "StartMonitoring", "PersistRunning", "RemoveRoutes", "PersistStopped"} \subseteq ActionName
      BY DEF ActionName, LongActions, ShortActions, StartActions, StopActions
    <2>3. q \in Seq(ActionName)
      BY PlanShapes
    <2>4. <<"StopNativeWG">> \o q \in Seq(ActionName)
      BY <2>2, <2>3, HeadAndTail
    <2>5. CASE c.monitoring
      <3>1. StopMonitoringIf(c) = <<"StopMonitoring">>
        BY <2>5 DEF StopMonitoringIf
      <3>2. <<"StopMonitoring">> \in Seq(ActionName)
        BY <2>2
      <3>3. <<"StopMonitoring">> \o (<<"StopNativeWG">> \o q) \in Unmonitoring
        BY <2>1 DEF Unmonitoring
      <3> QED
        BY <1>0, <2>3, <3>1, <3>2, <3>3
    <2>6. CASE ~c.monitoring
      <3>1. StopMonitoringIf(c) = <<>>
        BY <2>6 DEF StopMonitoringIf
      <3>2. <<>> \o (<<"StopNativeWG">> \o q) = <<"StopNativeWG">> \o q
        BY <2>4, ConcatEmptySeq
      <3> QED
        BY <1>0, <2>1, <2>3, <3>1, <3>2
    <2> QED
      BY <2>5, <2>6
  <1>4. decideStop(t, c) \in Whole
    <2>1. <<StopAction(t), "RemoveRoutes", "PersistStopped">> = <<"StopNativeWG">> \o AfterStop
      BY DEF StopAction, AfterStop
    <2> QED
      BY <1>0, <1>s, <2>1 DEF decideStop
  <1>5. decideRestart(t, c) \in Whole
    <2>0. <<"StopNativeWG">> \in Seq(ActionName)
      BY DEF ActionName, LongActions, StopActions
    <2>1. (StopMonitoringIf(c) \o <<"StopNativeWG">>) \o StartPlan(t)
              = StopMonitoringIf(c) \o (<<"StopNativeWG">> \o StartPlan(t))
      BY <1>2, <1>s, <2>0, ConcatAssociative
    <2>2. appendQuiesceStopActions(t, c) \o StartPlan(t) \in Whole
      BY <1>2, <1>s, <2>1 DEF appendQuiesceStopActions, StopAction
    <2>3. <<>> \o StartPlan(t) = StartPlan(t)
      BY <1>2, <1>s, ConcatEmptySeq
    <2> QED
      BY <1>0, <1>2, <2>2, <2>3 DEF decideRestart
  <1>6. decideNDMSHook(t, c, level, up) \in Whole
    BY <1>0, <1>3, <1>4 DEF decideNDMSHook
  <1>7. decideBoot(t, c) \in Whole
    BY <1>0, <1>2, DecideAssumption DEF decideBoot
  <1>8. decideReconnect(t, c) \in Whole
    <2>1. <<"RestoreKmod">> \o <<"StartMonitoring">> = <<"RestoreKmod", "StartMonitoring">>
      <3> DEFINE x == <<"RestoreKmod">> \o <<"StartMonitoring">>
                 y == <<"RestoreKmod", "StartMonitoring">>
      <3>0. <<"RestoreKmod">> \in Seq(ActionName) /\ <<"StartMonitoring">> \in Seq(ActionName)
            /\ y \in Seq(ActionName)
        BY DEF ActionName, LongActions, ShortActions
      <3>1. x \in Seq(ActionName) /\ Len(x) = 2 /\ x[1] = "RestoreKmod" /\ x[2] = "StartMonitoring"
        BY <3>0, ConcatProperties
      <3>2. Len(y) = 2 /\ y[1] = "RestoreKmod" /\ y[2] = "StartMonitoring"
        OBVIOUS
      <3> HIDE DEF x, y
      <3>3. x = y
        BY <3>0, <3>1, <3>2, SeqEqual
      <3> QED
        BY <3>3 DEF x, y
    <2>2. <<"RestoreKmod">> \o <<>> = <<"RestoreKmod">>
      OBVIOUS
    <2>3. {<<"RestoreKmod">>, <<"RestoreKmod", "StartMonitoring">>} \subseteq Whole
      BY DEF Whole, Sparing
    <2> QED
      BY <1>0, <1>2, <2>1, <2>2, <2>3, DecideAssumption DEF decideReconnect
  <1>9. decideWANUp(t, c, w) \in Whole
    BY <1>0, <1>2 DEF decideWANUp
  <1>10. decideWANDownSuspend(t, c, w) \in {<<>>, <<"SuspendProxy">>}
    BY DEF decideWANDownSuspend
  <1>11. /\ decideWANDownFailover(t, c, w, up) \in {<<>>} \cup Starting
         /\ decideWANDownFailover(t, c, w, up) # <<>>
                 => decideWANDownSuspend(t, c, w) = <<"SuspendProxy">>
    BY <1>2 DEF decideWANDownFailover
  <1> QED
    BY <1>3, <1>4, <1>5, <1>6, <1>7, <1>8, <1>9, <1>10, <1>11

\* Whatever a handler decides, its plans are such plans.
LEMMA NativePlans ==
    ASSUME NEW e, NEW c, e.kind \notin {"delete", "quiesce"}, KernelTunnels = {}
    PROVE  /\ \A t \in Tunnels : decide(e, c)[t] \in Whole /\ EmptyPlan[t] \in Whole
           /\ \A p \in decideWANDown(c, e.wan) : \A t \in Tunnels : p[1][t] \in Whole /\ p[2][t] \in Whole
  <1>0. <<>> \in Whole /\ <<"SuspendProxy">> \in Whole /\ Starting \subseteq Whole
        /\ FailingOver \subseteq Whole
    BY DEF Whole, Deciding, Sparing
  <1>1. ASSUME NEW t \in Tunnels PROVE EmptyPlan[t] \in Whole
    BY <1>0 DEF EmptyPlan
  <1>2. ASSUME NEW u, NEW p \in Whole, NEW t \in Tunnels PROVE OnlyFor(u, p)[t] \in Whole
    BY <1>0 DEF OnlyFor, EmptyPlan
  <1>3. ASSUME NEW t \in Tunnels PROVE decide(e, c)[t] \in Whole
    BY <1>1, <1>2, NativeDecisions DEF decide
  <1>4. ASSUME NEW p \in decideWANDown(c, e.wan), NEW u \in Tunnels
        PROVE  p[1][u] \in Whole /\ p[2][u] \in Whole
    <2> DEFINE suspend  == [t \in Tunnels |-> decideWANDownSuspend(t, c[t], e.wan)]
               failover == [t \in Tunnels |-> decideWANDownFailover(t, c[t], e.wan, anyWANUp)]
    <2>1. ASSUME NEW t \in Tunnels
          PROVE  /\ suspend[t] \in {<<>>, <<"SuspendProxy">>} /\ failover[t] \in {<<>>} \cup Starting
                 /\ failover[t] # <<>> => suspend[t] = <<"SuspendProxy">>
      BY NativeDecisions
    <2>2. \/ p = <<suspend, failover>>
          \/ \E t \in Tunnels : /\ failover[t] # <<>>
                                /\ p = <<[suspend EXCEPT ![t] = <<>>],
                                         [EmptyPlan EXCEPT ![t] = suspend[t] \o failover[t]]>>
      BY <1>4 DEF decideWANDown
    <2>d. DOMAIN suspend = Tunnels
      OBVIOUS
    <2> HIDE DEF suspend, failover
    <2>3. CASE p = <<suspend, failover>>
      BY <1>0, <2>1, <2>3
    <2>4. ASSUME NEW t \in Tunnels, failover[t] # <<>>,
                 p = <<[suspend EXCEPT ![t] = <<>>],
                       [EmptyPlan EXCEPT ![t] = suspend[t] \o failover[t]]>>
          PROVE  p[1][u] \in Whole /\ p[2][u] \in Whole
      <3>1. p[1][u] \in {<<>>, suspend[u]}
        BY <2>4, <2>d
      <3>2. suspend[t] \o failover[t] \in FailingOver
        BY <2>1, <2>4 DEF FailingOver
      <3>3. p[2][u] \in {<<>>, suspend[t] \o failover[t]}
        BY <2>4 DEF EmptyPlan
      <3> QED
        BY <1>0, <2>1, <3>1, <3>2, <3>3
    <2> QED
      BY <2>2, <2>3, <2>4
  <1> QED
    BY <1>1, <1>3, <1>4

-----------------------------------------------------------------------------

\* Nothing of the tunnel that the plans depend on has changed.
SameTunnel(t) ==
    /\ store'[t].exists = store[t].exists /\ store'[t].enabled = store[t].enabled
    /\ live'[t].conf = live[t].conf
    /\ routes'[t] = routes[t]

SameDesk(g) ==
    /\ pc'[g] = pc[g] /\ ev'[g] = ev[g] /\ job'[g] = job[g] /\ firstErr'[g] = firstErr[g]
    /\ plan'[g] = plan[g] /\ plan2'[g] = plan2[g]

\* A handler stays on course while nobody touches its tunnel.
LEMMA SameCourse ==
    ASSUME NEW g \in Handlers, OnCourse(g), SameDesk(g),
           \A t \in Tunnels : Works(g, t) => SameTunnel(t),
           pc[g] \in Executing => job[g].tun \in Tunnels
    PROVE  OnCourse(g)'
  <1>0. \A t : Works(g, t)' <=> Works(g, t)
    BY DEF Works, SameDesk
  <1>1. /\ firstErr'[g] # "error" /\ pc'[g] \notin {"flip", "edit"}
        /\ ev'[g].kind \notin {"delete", "quiesce"}
        /\ \A t \in Tunnels : plan2'[g][t] \in Whole /\ (~Works(g, t)' => plan'[g][t] \in Whole)
    BY <1>0 DEF OnCourse, SameDesk
  <1>2. ASSUME pc'[g] = "run" PROVE Due(job[g].tun, plan[g][job[g].tun])'
    <2>1. SameTunnel(job[g].tun) /\ pc[g] = "run"
      BY <1>2 DEF Works, Executing, SameDesk
    <2>2. Due(job[g].tun, plan[g][job[g].tun])
      BY <2>1 DEF OnCourse
    <2> QED
      BY <2>1, <2>2 DEF SameDesk, SameTunnel, Due, Settled
  <1>3. ASSUME pc'[g] = "busy"
        PROVE  UnderWay(job[g].tun, plan[g][job[g].tun], job[g].snap)' /\ job'[g].snap.exists
    <2>1. SameTunnel(job[g].tun) /\ pc[g] = "busy"
      BY <1>3 DEF Works, Executing, SameDesk
    <2>2. UnderWay(job[g].tun, plan[g][job[g].tun], job[g].snap) /\ job[g].snap.exists
      BY <2>1 DEF OnCourse
    <2> QED
      BY <2>1, <2>2 DEF SameDesk, SameTunnel, UnderWay, Settled
  <1> QED
    BY <1>1, <1>2, <1>3 DEF OnCourse

\* A step of one handler that touches no tunnel but its own, stays on course and
\* leaves a settled tunnel behind.
LEMMA OneOnCourse ==
    ASSUME NativeInv, NEW h \in Handlers,
           \A g \in Handlers \ {h} : SameDesk(g),
           \A t \in Tunnels : store'[t].exists,
           \A t \in Tunnels : ~Works(h, t) => SameTunnel(t),
           OnCourse(h)',
           \A t \in Tunnels : (Works(h, t) /\ ~Works(h, t)') => Settled(t)'
    PROVE  PlanInv'
  <1>1. ASSUME NEW g \in Handlers PROVE OnCourse(g)'
    <2>1. CASE g = h
      BY <2>1
    <2>2. CASE g # h
      <3>1. OnCourse(g) /\ SameDesk(g)
        BY <2>2 DEF NativeInv, PlanInv
      <3>2. ASSUME NEW t \in Tunnels, Works(g, t) PROVE ~Works(h, t)
        BY <2>2, <3>2 DEF NativeInv, LockInv, ExclusiveExecution, Works
      <3>3. pc[g] \in Executing => job[g].tun \in Tunnels
        BY DEF NativeInv, LockInv, Occupied, Executing
      <3> QED
        BY <3>1, <3>2, <3>3, SameCourse
    <2> QED
      BY <2>1, <2>2
  <1>2. ASSUME NEW t \in Tunnels, \A g \in Handlers : ~Works(g, t)' PROVE Settled(t)'
    <2>1. CASE Works(h, t)
      BY <1>2, <2>1
    <2>2. CASE ~Works(h, t)
      <3>1. \A g \in Handlers : ~Works(g, t)
        BY <1>2, <2>2 DEF Works, SameDesk
      <3>2. Settled(t) /\ SameTunnel(t)
        BY <2>2, <3>1 DEF NativeInv, PlanInv
      <3> QED
        BY <3>2 DEF Settled, SameTunnel
    <2> QED
      BY <2>1, <2>2
  <1> QED
    BY <1>1, <1>2 DEF PlanInv

\* A handler that is not executing, before and after: only its event, its group
\* and its plans change.
LEMMA AsideOnCourse ==
    ASSUME NativeInv, NEW h \in Handlers,
           pc[h] \notin Executing, pc'[h] \notin Executing \cup {"flip", "edit"},
           \A g \in Handlers \ {h} : SameDesk(g),
           \A t \in Tunnels : SameTunnel(t),
           firstErr'[h] # "error", ev'[h].kind \notin {"delete", "quiesce"},
           \A t \in Tunnels : plan'[h][t] \in Whole /\ plan2'[h][t] \in Whole
    PROVE  PlanInv'
  <1>1. OnCourse(h)'
    BY DEF OnCourse, Executing
  <1>2. \A t : ~Works(h, t)
    BY DEF Works
  <1>3. \A t \in Tunnels : store'[t].exists
    BY DEF NativeInv, PlanInv, SameTunnel
  <1> QED
    BY <1>1, <1>2, <1>3, OneOnCourse

\* Events, hooks and what a handler does before and after it executes.
LEMMA AsideStepsOnCourse ==
    ASSUME NativeAlone, NativeInv, NEW h \in Handlers,
           \/ \E t \in Tunnels : UserEvent(h, t)
           \/ \E w \in WANs : WanSet(h, w)
           \/ Startup(h) \/ Resume(h)
           \/ \E k \in Hook : ExternalHook(h, k)
           \/ Await(h) \/ SettleEnd(h) \/ RestoreEndpointTracking(h)
           \/ \E t \in Tunnels : Pick(h, t)
           \/ Return(h)
    PROVE  PlanInv'
  <1> USE DEF Executing, routerVars
  <1>0. /\ pc \in [Handlers -> Phase] /\ ev \in [Handlers -> Event] /\ job \in [Handlers -> Job]
        /\ plan \in [Handlers -> FittingPlans] /\ plan2 \in [Handlers -> FittingPlans]
        /\ firstErr \in [Handlers -> {"none", "busy", "error"}]
    BY DEF NativeInv, TypeInv, DesksTyped, BooksTyped
  <1>1. /\ firstErr[h] # "error" /\ pc[h] \notin {"flip", "edit"}
        /\ ev[h].kind \notin {"delete", "quiesce"}
        /\ pc[h] \notin Executing => \A t \in Tunnels : plan[h][t] \in Whole
        /\ \A t \in Tunnels : plan2[h][t] \in Whole
    BY DEF NativeInv, PlanInv, OnCourse, Works
  <1>e. /\ NoEvent.kind = "none"
        /\ \A t \in Tunnels : EmptyPlan[t] \in Whole
    BY DEF NoEvent, EmptyPlan, Whole, Sparing
  <1>2. ASSUME NEW t \in Tunnels, UserEvent(h, t) PROVE PlanInv'
    <2>0. PICK k \in Kinds \cap {"start", "stop", "restart", "delete"} :
             ev' = [ev EXCEPT ![h] = [NoEvent EXCEPT !.kind = k, !.tun = t]]
      BY <1>2 DEF UserEvent
    <2>1. ev'[h].kind \notin {"delete", "quiesce"}
      BY <1>0, <2>0 DEF NativeAlone, NoEvent
    <2>2. /\ pc' = [pc EXCEPT ![h] = "decide"] /\ pc[h] = "idle"
          /\ UNCHANGED <<store, live, routes, plan, plan2, job, firstErr>>
      BY <1>2 DEF UserEvent
    <2>3. \A g \in Handlers \ {h} : SameDesk(g)
      BY <1>0, <2>0, <2>2 DEF SameDesk
    <2>4. \A u \in Tunnels : SameTunnel(u)
      BY <2>2 DEF SameTunnel
    <2> QED
      BY <1>0, <1>1, <2>1, <2>2, <2>3, <2>4, AsideOnCourse
  <1>3. ASSUME NEW w \in WANs, WanSet(h, w) PROVE PlanInv'
    <2>0. PICK k \in {"wanup", "wandown"} :
             ev' = [ev EXCEPT ![h] = [NoEvent EXCEPT !.kind = k, !.wan = w]]
      BY <1>3 DEF WanSet
    <2>1. ev'[h].kind \notin {"delete", "quiesce"}
      BY <1>0, <2>0 DEF NoEvent
    <2>2. /\ pc' = [pc EXCEPT ![h] = "decide"] /\ pc[h] = "idle"
          /\ UNCHANGED <<store, live, routes, plan, plan2, job, firstErr>>
      BY <1>3 DEF WanSet
    <2>3. \A g \in Handlers \ {h} : SameDesk(g)
      BY <1>0, <2>0, <2>2 DEF SameDesk
    <2>4. \A u \in Tunnels : SameTunnel(u)
      BY <2>2 DEF SameTunnel
    <2> QED
      BY <1>0, <1>1, <2>1, <2>2, <2>3, <2>4, AsideOnCourse
  <1>4. CASE Startup(h) \/ Resume(h)
    <2>0. ev' = ev \/ \E k \in {"boot", "reconnect", "resume"} :
             ev' = [ev EXCEPT ![h] = [NoEvent EXCEPT !.kind = k]]
      BY <1>4 DEF Startup, Resume
    <2>1. ev'[h].kind \notin {"delete", "quiesce"}
      BY <1>0, <1>1, <2>0 DEF NoEvent
    <2>2. /\ pc' = pc \/ pc' = [pc EXCEPT ![h] = "decide"]
          /\ pc[h] \in {"idle", "backup"}
          /\ UNCHANGED <<store, live, routes, plan, plan2, job, firstErr>>
      BY <1>4 DEF Startup, Resume
    <2>3. \A g \in Handlers \ {h} : SameDesk(g)
      BY <1>0, <2>0, <2>2 DEF SameDesk
    <2>4. \A u \in Tunnels : SameTunnel(u)
      BY <2>2 DEF SameTunnel
    <2> QED
      BY <1>0, <1>1, <2>1, <2>2, <2>3, <2>4, AsideOnCourse
  <1>5. ASSUME NEW k \in Hook, ExternalHook(h, k) PROVE PlanInv'
    <2>0. ev' = [ev EXCEPT ![h] = [NoEvent EXCEPT !.kind = "hook", !.tun = k.tun,
                                                  !.level = k.level, !.own = k.own]]
      BY <1>5 DEF ExternalHook
    <2>1. ev'[h].kind \notin {"delete", "quiesce"}
      BY <1>0, <2>0 DEF NoEvent
    <2>2. /\ \E p \in {"await", "decide", "settle"} : pc' = [pc EXCEPT ![h] = p]
          /\ \E j : job' = [job EXCEPT ![h] = j]
          /\ pc[h] = "idle"
          /\ UNCHANGED <<store, live, routes, plan, plan2, firstErr>>
      BY <1>5 DEF ExternalHook
    <2>3. \A g \in Handlers \ {h} : SameDesk(g)
      BY <1>0, <2>0, <2>2 DEF SameDesk
    <2>4. \A u \in Tunnels : SameTunnel(u)
      BY <2>2 DEF SameTunnel
    <2> QED
      BY <1>0, <1>1, <2>1, <2>2, <2>3, <2>4, AsideOnCourse
  <1>6. CASE Await(h) \/ SettleEnd(h)
    <2>2. /\ \E p \in {"idle", "decide"} : pc' = [pc EXCEPT ![h] = p]
          /\ ev' = ev \/ ev' = [ev EXCEPT ![h] = NoEvent]
          /\ job' = job \/ job' = [job EXCEPT ![h] = NoJob]
          /\ pc[h] \in {"await", "settle"}
          /\ UNCHANGED <<store, live, routes, plan, plan2, firstErr>>
      BY <1>6 DEF Await, SettleEnd
    <2>1. ev'[h].kind \notin {"delete", "quiesce"}
      BY <1>0, <1>1, <1>e, <2>2
    <2>3. \A g \in Handlers \ {h} : SameDesk(g)
      BY <1>0, <2>2 DEF SameDesk
    <2>4. \A u \in Tunnels : SameTunnel(u)
      BY <2>2 DEF SameTunnel
    <2> QED
      BY <1>0, <1>1, <2>1, <2>2, <2>3, <2>4, AsideOnCourse
  <1>7. CASE RestoreEndpointTracking(h)
    <2>1. /\ pc' = [pc EXCEPT ![h] = "pick"] /\ pc[h] = "sweep"
          /\ UNCHANGED <<live, routes, ev, plan, plan2, job, firstErr>>
      BY <1>7 DEF RestoreEndpointTracking
    <2>2. \A u \in Tunnels : store'[u] = store[u]
      BY <1>7 DEF RestoreEndpointTracking, NativeAlone
    <2>3. \A g \in Handlers \ {h} : SameDesk(g)
      BY <1>0, <2>1 DEF SameDesk
    <2>4. \A u \in Tunnels : SameTunnel(u)
      BY <2>1, <2>2 DEF SameTunnel
    <2> QED
      BY <1>0, <1>1, <2>1, <2>3, <2>4, AsideOnCourse
  <1>8. ASSUME NEW t \in Tunnels, Pick(h, t) PROVE PlanInv'
    <2>1. /\ pc' = [pc EXCEPT ![h] = "wait"] /\ pc[h] = "pick"
          /\ \E j : job' = [job EXCEPT ![h] = j]
          /\ \/ UNCHANGED <<plan, plan2>>
             \/ /\ plan' = [plan EXCEPT ![h] = plan2[h]]
                /\ plan2' = [plan2 EXCEPT ![h] = EmptyPlan]
          /\ UNCHANGED <<store, live, routes, ev, firstErr>>
      BY <1>8 DEF Pick
    <2>2. \A u \in Tunnels : plan'[h][u] \in Whole /\ plan2'[h][u] \in Whole
      BY <1>0, <1>1, <1>e, <2>1
    <2>3. \A g \in Handlers \ {h} : SameDesk(g)
      BY <1>0, <2>1 DEF SameDesk
    <2>4. \A u \in Tunnels : SameTunnel(u)
      BY <2>1 DEF SameTunnel
    <2> QED
      BY <1>0, <1>1, <2>1, <2>2, <2>3, <2>4, AsideOnCourse
  <1>9. CASE Return(h)
    <2>1. /\ \E p \in {"idle", "backup"} : pc' = [pc EXCEPT ![h] = p]
          /\ ev' = [ev EXCEPT ![h] = NoEvent] /\ job' = [job EXCEPT ![h] = NoJob]
          /\ pc[h] = "pick"
          /\ UNCHANGED <<store, live, routes, plan, plan2, firstErr>>
      BY <1>1, <1>9 DEF Return
    <2>2. ev'[h].kind \notin {"delete", "quiesce"}
      BY <1>0, <1>e, <2>1
    <2>3. \A g \in Handlers \ {h} : SameDesk(g)
      BY <1>0, <2>1 DEF SameDesk
    <2>4. \A u \in Tunnels : SameTunnel(u)
      BY <2>1 DEF SameTunnel
    <2> QED
      BY <1>0, <1>1, <2>1, <2>2, <2>3, <2>4, AsideOnCourse
  <1> QED
    BY <1>2, <1>3, <1>4, <1>5, <1>6, <1>7, <1>8, <1>9

\* Deciding, taking and releasing the semaphore.
LEMMA FramesOnCourse ==
    ASSUME NativeAlone, NativeInv, NEW h \in Handlers,
           Decide(h) \/ lockTunnel(h) \/ unlockTunnel(h)
    PROVE  PlanInv'
  <1> USE DEF Executing, routerVars
  <1>0. /\ pc \in [Handlers -> Phase] /\ ev \in [Handlers -> Event] /\ job \in [Handlers -> Job]
        /\ plan \in [Handlers -> FittingPlans] /\ plan2 \in [Handlers -> FittingPlans]
        /\ firstErr \in [Handlers -> {"none", "busy", "error"}]
    BY DEF NativeInv, TypeInv, DesksTyped, BooksTyped
  <1>1. /\ firstErr[h] # "error" /\ pc[h] \notin {"flip", "edit"}
        /\ ev[h].kind \notin {"delete", "quiesce"}
        /\ \A t \in Tunnels : plan2[h][t] \in Whole /\ (~Works(h, t) => plan[h][t] \in Whole)
        /\ pc[h] = "run" => Due(job[h].tun, plan[h][job[h].tun])
        /\ \A t \in Tunnels : store[t].exists
    BY DEF NativeInv, PlanInv, OnCourse
  <1>2. CASE Decide(h)
    <2> DEFINE c == IF ev[h].kind = "hook" THEN cache ELSE ensureTunnel(ev[h].tun, cache)
    <2>1. PICK p \in IF ev[h].kind = "wandown" THEN decideWANDown(c, ev[h].wan)
                     ELSE {<<decide(ev[h], c), EmptyPlan>>} :
             plan' = [plan EXCEPT ![h] = p[1]] /\ plan2' = [plan2 EXCEPT ![h] = p[2]]
      BY <1>2 DEF Decide
    <2> HIDE DEF c
    <2>2. ASSUME NEW t \in Tunnels PROVE p[1][t] \in Whole /\ p[2][t] \in Whole
      <3>1. CASE ev[h].kind = "wandown"
        BY <1>1, <2>1, <3>1, NativePlans DEF NativeAlone
      <3>2. CASE ev[h].kind # "wandown"
        <4>1. p = <<decide(ev[h], c), EmptyPlan>>
          BY <2>1, <3>2
        <4> QED
          BY <1>1, <4>1, NativePlans DEF NativeAlone
      <3> QED
        BY <3>1, <3>2
    <2>3. /\ \E q \in {"sweep", "pick"} : pc' = [pc EXCEPT ![h] = q]
          /\ pc[h] = "decide" /\ firstErr' = [firstErr EXCEPT ![h] = "none"]
          /\ UNCHANGED <<store, live, routes, ev, job>>
      BY <1>2 DEF Decide
    <2>4. \A g \in Handlers \ {h} : SameDesk(g)
      BY <1>0, <2>1, <2>3 DEF SameDesk
    <2>5. \A u \in Tunnels : SameTunnel(u)
      BY <2>3 DEF SameTunnel
    <2>6. \A t \in Tunnels : plan'[h][t] \in Whole /\ plan2'[h][t] \in Whole
      BY <1>0, <2>1, <2>2
    <2> QED
      BY <1>0, <1>1, <2>3, <2>4, <2>5, <2>6, AsideOnCourse
  <1>3. CASE lockTunnel(h)
    <2>1. /\ pc' = [pc EXCEPT ![h] = "run"] /\ pc[h] = "wait"
          /\ <<job[h].tun, job[h].gen>> \notin full
          /\ UNCHANGED <<store, live, routes, ev, plan, plan2, job, firstErr>>
      BY <1>3 DEF lockTunnel
    <2>2. job[h].tun \in Tunnels /\ \A g \in Handlers : job[g].gen = 0
      BY <2>1 DEF NativeInv, LockInv, Occupied, Shape
    <2>3. \A g \in Handlers : ~Works(g, job[h].tun)
      BY <2>1, <2>2 DEF NativeInv, LockInv, HoldsLock, Works
    <2>4. Settled(job[h].tun) /\ plan[h][job[h].tun] \in Whole
      BY <1>1, <2>2, <2>3 DEF NativeInv, PlanInv
    <2>5. \A g \in Handlers \ {h} : SameDesk(g)
      BY <1>0, <2>1 DEF SameDesk
    <2>6. \A u \in Tunnels : SameTunnel(u)
      BY <2>1 DEF SameTunnel
    <2>7. Due(job[h].tun, plan[h][job[h].tun])'
      BY <2>1, <2>4 DEF Due, Whole, Settled
    <2>8. \A t : ~Works(h, t)
      BY <2>1 DEF Works
    <2>9. OnCourse(h)'
      BY <1>0, <1>1, <2>1, <2>7, <2>8 DEF OnCourse
    <2> QED
      BY <1>1, <2>1, <2>5, <2>6, <2>8, <2>9, OneOnCourse
  <1>4. CASE unlockTunnel(h)
    <2>1. /\ pc' = [pc EXCEPT ![h] = "pick"] /\ pc[h] = "run" /\ plan[h][job[h].tun] = <<>>
          /\ UNCHANGED <<store, live, routes, ev, plan, plan2, job, firstErr>>
      BY <1>4 DEF unlockTunnel
    <2>2. Settled(job[h].tun)
      BY <1>1, <2>1, PlanShapes DEF Due
    <2>3. <<>> \in Whole
      BY DEF Whole, Sparing
    <2>5. \A g \in Handlers \ {h} : SameDesk(g)
      BY <1>0, <2>1 DEF SameDesk
    <2>6. \A u \in Tunnels : SameTunnel(u)
      BY <2>1 DEF SameTunnel
    <2>7. OnCourse(h)'
      BY <1>0, <1>1, <2>1, <2>3 DEF OnCourse, Works
    <2>8. \A t \in Tunnels : Works(h, t) => Settled(t)'
      BY <2>1, <2>2 DEF Works, Settled
    <2> QED
      BY <1>1, <2>1, <2>5, <2>6, <2>7, <2>8, OneOnCourse
  <1> QED
    BY <1>2, <1>3, <1>4

\* The first action of the due plan p, and q, what is left of it.
DueFor(t, p, q) ==
    \/ Head(p) = "ApplyRoutes" /\ live[t].conf /\ q \in AfterStart
    \/ Head(p) = "StartMonitoring" /\ live[t].conf /\ q \in AfterStart
    \/ Head(p) = "StartMonitoring" /\ Settled(t) /\ q \in Sparing
    \/ Head(p) = "PersistRunning" /\ live[t].conf /\ q = <<>>
    \/ Head(p) \in {"StartNativeWG", "ReconcileNativeWG"} /\ p \in Starting
    \/ Head(p) = "StopNativeWG" /\ p \in Stopping
    \/ Head(p) = "StopMonitoring" /\ q \in Stopping
    \/ Head(p) = "SuspendProxy" /\ p \in FailingOver
    \/ Head(p) \in {"SuspendProxy", "RestoreKmod"} /\ p \in Sparing /\ Settled(t)
    \/ Head(p) = "RemoveRoutes" /\ ~live[t].conf /\ q = <<"PersistStopped">>
    \/ Head(p) = "PersistStopped" /\ ~live[t].conf /\ ~routes[t] /\ q = <<>>

LEMMA DueSteps ==
    ASSUME NEW t, NEW p, Due(t, p), p # <<>>, NEW q, q = Tail(p)
    PROVE  DueFor(t, p, q)
  <1> USE DEF DueFor
  <1>1. CASE p \in Deciding
    BY <1>1, PlanShapes DEF Deciding
  <1>2. CASE p \in AfterStart /\ live[t].conf
    BY <1>2, PlanShapes
  <1>3. CASE p \in Sparing /\ Settled(t)
    BY <1>3, PlanShapes
  <1>4. CASE p = AfterStop /\ ~live[t].conf
    BY <1>4, PlanShapes
  <1>5. CASE p = <<"PersistStopped">> /\ ~live[t].conf /\ ~routes[t]
    BY <1>5, PlanShapes
  <1> QED
    BY <1>1, <1>2, <1>3, <1>4, <1>5 DEF Due

\* A handler finishes an action on its tunnel and has q left to do.
LEMMA PopOnCourse ==
    ASSUME NativeInv, NEW h \in Handlers, pc[h] \in Executing,
           NEW t \in Tunnels, t = job[h].tun, plan[h][t] # <<>>,
           NEW q, q = Tail(plan[h][t]),
           plan' = Popped(h),
           pc' = [pc EXCEPT ![h] = "run"],
           \/ job' = job
           \/ job' = [job EXCEPT ![h].snap = NoStored],
           UNCHANGED <<ev, plan2, firstErr>>,
           \A u \in Tunnels \ {t} : SameTunnel(u),
           store'[t].exists,
           Due(t, q)'
    PROVE  PlanInv'
  <1>0. /\ pc \in [Handlers -> Phase] /\ ev \in [Handlers -> Event] /\ job \in [Handlers -> Job]
        /\ plan \in [Handlers -> FittingPlans] /\ plan2 \in [Handlers -> FittingPlans]
        /\ DesksTyped
    BY DEF NativeInv, TypeInv, DesksTyped
  <1>1. /\ plan' = [plan EXCEPT ![h] = plan'[h]]
        /\ plan'[h] = [plan[h] EXCEPT ![t] = q]
    BY <1>0, PoppedFits DEF Popped
  <1>2. /\ job'[h].tun = t
        /\ \A g \in Handlers \ {h} : job'[g] = job[g]
    BY <1>0 DEF Job
  <1>3. \A g \in Handlers \ {h} : SameDesk(g)
    BY <1>0, <1>1, <1>2 DEF SameDesk
  <1>4. plan[h] \in [Tunnels -> Seq(ActionName)]
    BY <1>0 DEF FittingPlans
  <1>5. /\ firstErr[h] # "error" /\ ev[h].kind \notin {"delete", "quiesce"}
        /\ \A u \in Tunnels : plan2[h][u] \in Whole /\ (u # t => plan[h][u] \in Whole)
    BY DEF NativeInv, PlanInv, OnCourse, Works
  <1>6. plan'[h][t] = q /\ \A u \in Tunnels : u # t => plan'[h][u] = plan[h][u]
    BY <1>1, <1>4
  <1>7. pc'[h] = "run" /\ \A u : Works(h, u)' <=> u = t
    BY <1>0, <1>2 DEF Works, Executing
  <1>8. OnCourse(h)'
    BY <1>2, <1>5, <1>6, <1>7 DEF OnCourse
  <1>9. /\ \A u \in Tunnels : store'[u].exists
        /\ \A u \in Tunnels : ~Works(h, u) => SameTunnel(u)
        /\ \A u \in Tunnels : Works(h, u) => Works(h, u)'
    BY <1>7 DEF NativeInv, PlanInv, SameTunnel, Works
  <1> QED
    BY <1>3, <1>8, <1>9, OneOnCourse

\* The short actions.
LEMMA ShortOnCourse ==
    ASSUME NativeInv, NEW h \in Handlers, OneStepAction(h)
    PROVE  PlanInv'
  <1>a. PICK t, p, q : t = job[h].tun /\ p = plan[h][t] /\ q = Tail(p)
    OBVIOUS
  <1> USE DEF Executing, routerVars
  <1>1. pc[h] = "run" /\ p # <<>> /\ Act(h) = Head(p) /\ plan' = Popped(h) /\ pc' = pc /\ job' = job
        /\ ev' = ev /\ plan2' = plan2 /\ live' = live
    BY <1>a DEF OneStepAction, ApplyRoutes, RemoveRoutes, Monitoring, Persist, NotFound, NoUpstream,
           SkipReconcile, Running, Act
  <1>2. /\ t \in Tunnels /\ Due(t, p)
        /\ \A u \in Tunnels : store[u].exists
        /\ pc \in [Handlers -> Phase]
        /\ store \in [Tunnels -> Stored] /\ routes \in [Tunnels -> BOOLEAN]
        /\ live \in [Tunnels -> [conf : BOOLEAN, up : BOOLEAN]]
    BY <1>a, <1>1 DEF NativeInv, PlanInv, OnCourse, LockInv, Occupied, TypeInv, WorldTyped, DesksTyped
  <1>3. pc' = [pc EXCEPT ![h] = "run"]
    BY <1>1, <1>2
  <1>d. DueFor(t, p, q)
    <2>1. Due(t, p) /\ p # <<>>
      BY <1>a, <1>1, <1>2
    <2> QED
      BY <1>a, <2>1, DueSteps
  <1>e. <<>> \in Sparing
    BY DEF Sparing
  <1>4. CASE ApplyRoutes(h)
    <2>1. /\ Act(h) = "ApplyRoutes" /\ routes' = [routes EXCEPT ![t] = store[t].exists]
          /\ UNCHANGED <<store, firstErr>>
      BY <1>a, <1>4 DEF ApplyRoutes, Running
    <2>2. live[t].conf /\ q \in AfterStart
      BY <1>1, <1>d, <2>1 DEF DueFor
    <2>3. Due(t, q)'
      BY <1>1, <2>2 DEF Due
    <2>4. \A u \in Tunnels \ {t} : SameTunnel(u)
      BY <1>1, <1>2, <2>1 DEF SameTunnel
    <2> QED
      BY <1>a, <1>1, <1>2, <1>3, <2>1, <2>3, <2>4, PopOnCourse
  <1>5. CASE RemoveRoutes(h)
    <2>1. /\ Act(h) \in {"RemoveRoutes", "DeleteRoutes"} /\ routes' = [routes EXCEPT ![t] = FALSE]
          /\ UNCHANGED <<store, firstErr>>
      BY <1>a, <1>5 DEF RemoveRoutes, Running
    <2>2. ~live[t].conf /\ q = <<"PersistStopped">>
      BY <1>1, <1>d, <2>1 DEF DueFor
    <2>3. Due(t, q)'
      BY <1>1, <1>2, <2>1, <2>2 DEF Due
    <2>4. \A u \in Tunnels \ {t} : SameTunnel(u)
      BY <1>1, <1>2, <2>1 DEF SameTunnel
    <2> QED
      BY <1>a, <1>1, <1>2, <1>3, <2>1, <2>3, <2>4, PopOnCourse
  <1>6. CASE Monitoring(h)
    <2>1. /\ Act(h) \in {"StartMonitoring", "StopMonitoring"}
          /\ UNCHANGED <<store, routes, firstErr>>
      BY <1>a, <1>6 DEF Monitoring, Running
    <2>2. \/ live[t].conf /\ q \in AfterStart
          \/ Settled(t) /\ q \in Sparing
          \/ q \in Stopping
      BY <1>1, <1>d, <2>1 DEF DueFor
    <2>3. Due(t, q)'
      BY <1>1, <2>1, <2>2 DEF Due, Settled, Deciding
    <2>4. \A u \in Tunnels \ {t} : SameTunnel(u)
      BY <1>1, <1>2, <2>1 DEF SameTunnel
    <2> QED
      BY <1>a, <1>1, <1>2, <1>3, <2>1, <2>3, <2>4, PopOnCourse
  <1>7. CASE Persist(h)
    <2>1. /\ Act(h) \in {"PersistRunning", "PersistStopped"}
          /\ store' = [store EXCEPT ![t] =
                          IF Act(h) = "PersistRunning" THEN [@ EXCEPT !.enabled = TRUE]
                          ELSE [@ EXCEPT !.enabled = FALSE, !.activeWAN = NoWAN]]
          /\ UNCHANGED <<routes, firstErr>>
      BY <1>a, <1>7 DEF Persist, Running
    <2>2. /\ q = <<>>
          /\ \/ Act(h) = "PersistRunning" /\ live[t].conf
             \/ Act(h) = "PersistStopped" /\ ~live[t].conf /\ ~routes[t]
      BY <1>1, <1>d, <2>1 DEF DueFor
    <2>s. /\ store'[t].exists = store[t].exists
          /\ Act(h) = "PersistRunning" => store'[t].enabled = TRUE
          /\ Act(h) = "PersistStopped" => store'[t].enabled = FALSE
          /\ \A u \in Tunnels \ {t} : store'[u] = store[u]
      BY <1>2, <2>1 DEF Stored
    <2>5. Settled(t)'
      <3>1. live'[t].conf \in BOOLEAN /\ routes'[t] = routes[t] /\ live'[t].conf = live[t].conf
        BY <1>1, <1>2, <2>1
      <3>2. store'[t].enabled = live'[t].conf
        BY <2>2, <2>s, <3>1
      <3>3. routes'[t] => live'[t].conf
        BY <2>2, <3>1
      <3> QED
        BY <3>2, <3>3 DEF Settled
    <2>3. Due(t, q)'
      BY <1>e, <2>2, <2>5 DEF Due
    <2>4. \A u \in Tunnels \ {t} : SameTunnel(u)
      BY <1>1, <1>2, <2>1, <2>s DEF SameTunnel
    <2> QED
      BY <1>a, <1>1, <1>2, <1>3, <2>1, <2>3, <2>4, <2>s, PopOnCourse
  <1>8. ~NotFound(h)
    BY <1>a, <1>2 DEF NotFound
  <1>9. ~NoUpstream(h)
    <2>1. Act(h) \notin {"ColdStartKernel", "ReconcileKernel"}
      BY <1>1, <1>d DEF DueFor
    <2> QED
      BY <2>1 DEF NoUpstream, ResolvedWANs
  <1>10. CASE SkipReconcile(h)
    <2>1. /\ Act(h) = "ReconcileNativeWG" /\ live[t].conf
          /\ UNCHANGED <<store, routes, firstErr>>
      BY <1>a, <1>10 DEF SkipReconcile, Running
    <2>2. q \in AfterStart
      <3>1. p \in Starting
        BY <1>1, <1>d, <2>1 DEF DueFor
      <3> QED
        BY <1>a, <3>1, PlanShapes
    <2>3. Due(t, q)'
      BY <1>1, <2>1, <2>2 DEF Due
    <2>4. \A u \in Tunnels \ {t} : SameTunnel(u)
      BY <1>1, <1>2, <2>1 DEF SameTunnel
    <2> QED
      BY <1>a, <1>1, <1>2, <1>3, <2>1, <2>3, <2>4, PopOnCourse
  <1> QED
    BY <1>4, <1>5, <1>6, <1>7, <1>8, <1>9, <1>10 DEF OneStepAction

\* The router has been driven where the plan leads.
LEMMA BeginOnCourse ==
    ASSUME NativeInv, NEW h \in Handlers, Begin(h)
    PROVE  PlanInv'
  <1>a. PICK t, p, q : t = job[h].tun /\ p = plan[h][t] /\ q = Tail(p)
    OBVIOUS
  <1> USE DEF Executing, routerVars
  <1>1. /\ pc[h] = "run" /\ p # <<>> /\ Act(h) = Head(p) /\ Act(h) \in LongActions
        /\ pc' = [pc EXCEPT ![h] = "busy"]
        /\ live' = [live EXCEPT ![t] = LiveAfter(Act(h), live[t])]
        /\ UNCHANGED <<store, routes, ev, plan, plan2, firstErr>>
    BY <1>a DEF Begin, Drive, Act
  <1>2. /\ t \in Tunnels /\ Due(t, p)
        /\ \A u \in Tunnels : store[u].exists
        /\ pc \in [Handlers -> Phase] /\ job \in [Handlers -> Job]
        /\ store \in [Tunnels -> Stored]
        /\ live \in [Tunnels -> [conf : BOOLEAN, up : BOOLEAN]]
    BY <1>a, <1>1 DEF NativeInv, PlanInv, OnCourse, LockInv, Occupied, TypeInv, WorldTyped, DesksTyped
  <1>3. PICK w \in ResolvedWANs(t, Act(h)) :
           job' = [job EXCEPT ![h].snap = [store[t] EXCEPT !.activeWAN = w]]
    BY <1>a DEF Begin, Drive
  <1>4. /\ job'[h].tun = t
        /\ job'[h].snap.exists = store[t].exists
        /\ job'[h].snap.enabled = store[t].enabled
        /\ \A g \in Handlers \ {h} : job'[g] = job[g]
    BY <1>a, <1>2, <1>3 DEF Job, Stored
  <1>d. DueFor(t, p, q)
    BY <1>a, <1>1, <1>2, DueSteps
  <1>5. /\ live'[t].conf = LiveAfter(Act(h), live[t]).conf
        /\ \A u \in Tunnels \ {t} : live'[u] = live[u]
    BY <1>1, <1>2
  <1>l. /\ Act(h) \in BringUp => live'[t].conf = TRUE
        /\ Act(h) \in StopActions => live'[t].conf = FALSE
        /\ Act(h) \in {"SuspendProxy", "RestoreKmod"} => live'[t].conf = live[t].conf
    BY <1>2, <1>5 DEF LiveAfter, BringUp, StopActions
  <1>s. PICK s : s = job'[h].snap
    OBVIOUS
  <1>6. UnderWay(t, p, s)'
    <2>1. CASE Head(p) \in {"StartNativeWG", "ReconcileNativeWG"} /\ p \in Starting
      BY <1>1, <1>l, <2>1 DEF UnderWay, BringUp
    <2>2. CASE Head(p) = "StopNativeWG" /\ p \in Stopping
      BY <1>1, <1>l, <2>2 DEF UnderWay, StopActions
    <2>3. CASE p \in FailingOver
      BY <2>3 DEF UnderWay
    <2>4. CASE Head(p) \in {"SuspendProxy", "RestoreKmod"} /\ p \in Sparing /\ Settled(t)
      <3>1. Settled(t)'
        BY <1>1, <1>l, <2>4 DEF Settled
      <3> QED
        BY <1>1, <1>4, <1>s, <2>4, <3>1 DEF UnderWay
    <2> QED
      BY <1>1, <1>d, <2>1, <2>2, <2>3, <2>4 DEF DueFor, LongActions, StartActions, StopActions
  <1>7. /\ firstErr[h] # "error" /\ ev[h].kind \notin {"delete", "quiesce"}
        /\ \A u \in Tunnels : plan2[h][u] \in Whole /\ (u # t => plan[h][u] \in Whole)
    BY <1>a DEF NativeInv, PlanInv, OnCourse, Works
  <1>8. pc'[h] = "busy" /\ \A u : Works(h, u)' <=> u = t
    BY <1>1, <1>2, <1>4 DEF Works
  <1>9. OnCourse(h)'
    <2>1. plan'[h][job'[h].tun] = p /\ job'[h].snap.exists
      BY <1>a, <1>1, <1>2, <1>4
    <2>2. UnderWay(job[h].tun, plan[h][job[h].tun], job[h].snap)'
      BY <1>4, <1>6, <1>s, <2>1
    <2> QED
      BY <1>1, <1>7, <1>8, <2>1, <2>2 DEF OnCourse
  <1>10. \A g \in Handlers \ {h} : SameDesk(g)
    BY <1>1, <1>2, <1>4 DEF SameDesk
  <1>11. /\ \A u \in Tunnels : store'[u].exists
         /\ \A u \in Tunnels : ~Works(h, u) => SameTunnel(u)
         /\ \A u \in Tunnels : Works(h, u) => Works(h, u)'
    BY <1>a, <1>1, <1>2, <1>5, <1>8 DEF SameTunnel, Works
  <1> QED
    BY <1>9, <1>10, <1>11, OneOnCourse

\* What a long action on a nativewg tunnel saves: the copy s it has read or the
\* stored tunnel as it is now.
LEMMA NativeSaves ==
    ASSUME NEW t, NEW act, NEW now \in Stored, NEW s \in Stored, NEW x \in Saved(t, act, now, s),
           act \in {"StartNativeWG", "ReconcileNativeWG", "StopNativeWG", "SuspendProxy",
                    "RestoreKmod"}
    PROVE  /\ s.exists /\ now.exists => x.exists
           /\ act \in {"SuspendProxy", "RestoreKmod"} /\ s.enabled = now.enabled
                 => x.enabled = now.enabled
  <1>1. CASE act \in {"StartNativeWG", "ReconcileNativeWG"}
    <2>1. \E w : x = [s EXCEPT !.enabled = TRUE, !.activeWAN = w]
      BY <1>1 DEF Saved
    <2> QED
      BY <1>1, <2>1 DEF Stored
  <1>2. CASE act = "StopNativeWG"
    <2>1. x = [s EXCEPT !.activeWAN = NoWAN]
      BY <1>2 DEF Saved
    <2> QED
      BY <1>2, <2>1 DEF Stored
  <1>3. CASE act = "RestoreKmod"
    <2>1. x = now \/ \E w : x = [s EXCEPT !.activeWAN = w]
      BY <1>3 DEF Saved
    <2> QED
      BY <1>3, <2>1 DEF Stored
  <1>4. CASE act = "SuspendProxy"
    <2>1. x = now
      BY <1>4 DEF Saved
    <2> QED
      BY <2>1
  <1> QED
    BY <1>1, <1>2, <1>3, <1>4

\* The long action is over and its result saved.
LEMMA EndOnCourse ==
    ASSUME NativeInv, NEW h \in Handlers, End(h)
    PROVE  PlanInv'
  <1>a. PICK t, p, q : t = job[h].tun /\ p = plan[h][t] /\ q = Tail(p)
    OBVIOUS
  <1> USE DEF Executing, routerVars
  <1>1. /\ pc[h] = "busy" /\ Act(h) = Head(p) /\ plan' = Popped(h)
        /\ pc' = [pc EXCEPT ![h] = "run"] /\ job' = [job EXCEPT ![h].snap = NoStored]
        /\ UNCHANGED <<live, routes, ev, plan2, firstErr>>
    BY <1>a DEF End, Act
  <1>2. PICK x \in Saved(t, Act(h), store[t], job[h].snap) : store' = [store EXCEPT ![t] = x]
    BY <1>a DEF End
  <1>3. /\ t \in Tunnels /\ p # <<>>
        /\ UnderWay(t, p, job[h].snap) /\ job[h].snap.exists
        /\ \A u \in Tunnels : store[u].exists
        /\ store \in [Tunnels -> Stored] /\ job[h].snap \in Stored
    BY <1>a, <1>1 DEF NativeInv, PlanInv, OnCourse, LockInv, Occupied, TypeInv, WorldTyped,
                      DesksTyped, AtDesk, Job
  <1>4. store'[t] = x /\ \A u \in Tunnels \ {t} : store'[u] = store[u]
    BY <1>2, <1>3
  <1>5. ASSUME Act(h) \in {"StartNativeWG", "ReconcileNativeWG", "StopNativeWG", "SuspendProxy",
                           "RestoreKmod"}, Due(t, q)'
        PROVE  PlanInv'
    <2>1. x.exists
      BY <1>2, <1>3, <1>5, NativeSaves
    <2>2. \A u \in Tunnels \ {t} : SameTunnel(u)
      BY <1>1, <1>4 DEF SameTunnel
    <2> QED
      BY <1>a, <1>1, <1>3, <1>4, <1>5, <2>1, <2>2, PopOnCourse
  <1>6. CASE p \in Starting /\ live[t].conf
    <2>1. Act(h) \in {"StartNativeWG", "ReconcileNativeWG"} /\ q \in AfterStart
      BY <1>a, <1>1, <1>6, PlanShapes
    <2>2. Due(t, q)'
      BY <1>1, <1>6, <2>1 DEF Due
    <2> QED
      BY <1>5, <2>1, <2>2
  <1>7. CASE p \in Stopping /\ ~live[t].conf
    <2>1. Act(h) = "StopNativeWG" /\ q \in Starting \cup {AfterStop}
      BY <1>a, <1>1, <1>7, PlanShapes
    <2>2. Due(t, q)'
      BY <1>1, <1>7, <2>1 DEF Due, Deciding
    <2> QED
      BY <1>5, <2>1, <2>2
  <1>8. CASE p \in FailingOver
    <2>1. Act(h) = "SuspendProxy" /\ q \in Starting
      BY <1>a, <1>1, <1>8, PlanShapes
    <2>2. Due(t, q)'
      BY <2>1 DEF Due, Deciding
    <2> QED
      BY <1>5, <2>1, <2>2
  <1>9. CASE /\ p \in Sparing \ {<<>>} /\ Head(p) \in {"SuspendProxy", "RestoreKmod"}
             /\ Settled(t) /\ job[h].snap.enabled = store[t].enabled
    <2>1. Act(h) \in {"SuspendProxy", "RestoreKmod"} /\ q \in Sparing
      BY <1>a, <1>1, <1>9, PlanShapes
    <2>2. x.enabled = store[t].enabled
      BY <1>2, <1>3, <1>9, <2>1, NativeSaves
    <2>3. Settled(t)'
      BY <1>1, <1>4, <1>9, <2>2 DEF Settled
    <2>4. Due(t, q)'
      BY <2>1, <2>3 DEF Due
    <2> QED
      BY <1>5, <2>1, <2>4
  <1> QED
    BY <1>3, <1>6, <1>7, <1>8, <1>9 DEF UnderWay

\* No step of any handler or of the surroundings leaves the course.
LEMMA NativeInductive ==
    ASSUME NativeAlone, NativeInv, [Next]_vars
    PROVE  NativeInv'
  <1>0. TypeInv' /\ LockInv'
    BY TypesInductive, LocksInductive DEF NativeInv, NativeAlone
  <1>u. used.ext \in Nat /\ used.fails \in Nat /\ used.giveUps \in Nat
    BY DEF NativeInv, TypeInv, BooksTyped
  <1>1. CASE Environment \/ UNCHANGED vars
    <2>1. ~Crash /\ \A t \in Tunnels : ~ToggleEnabled(t) /\ ~ExtToggle(t)
      BY <1>u DEF NativeAlone, Crash, ToggleEnabled, ExtToggle
    <2>2. UNCHANGED <<store, live, routes, pc, ev, plan, plan2, job, firstErr>>
      BY <1>1, <2>1 DEF Environment, QuiescenceEnds, ExpireHook, ConsumeHook, HookFault, vars,
                        routerVars
    <2>3. \A t : Settled(t)' = Settled(t)
      BY <2>2 DEF Settled
    <2>4. \A h, t : Works(h, t)' = Works(h, t)
      BY <2>2 DEF Works
    <2>5. ASSUME NEW h \in Handlers PROVE OnCourse(h)'
      <3>1. OnCourse(h) /\ SameDesk(h) /\ \A t : SameTunnel(t)
        BY <2>2 DEF NativeInv, PlanInv, SameDesk, SameTunnel
      <3>2. pc[h] \in Executing => job[h].tun \in Tunnels
        BY DEF NativeInv, LockInv, Occupied, Executing
      <3> QED
        BY <3>1, <3>2, SameCourse
    <2>6. PlanInv'
      BY <2>2, <2>3, <2>4, <2>5 DEF NativeInv, PlanInv
    <2> QED
      BY <1>0, <2>6 DEF NativeInv
  <1>2. ASSUME NEW h \in Handlers, Arrive(h) PROVE PlanInv'
    <2>1. ~Quiesce(h) /\ \A t \in Tunnels : ~EditBegin(h, t)
      BY DEF NativeAlone, Quiesce, EditBegin
    <2> QED
      BY <1>2, <2>1, AsideStepsOnCourse DEF Arrive
  <1>3. ASSUME NEW h \in Handlers, Progress(h) PROVE PlanInv'
    <2>1. ~SetEnabled(h) /\ ~EditEnd(h)
      BY DEF NativeInv, PlanInv, OnCourse, SetEnabled, EditEnd
    <2> QED
      BY <1>3, <2>1, AsideStepsOnCourse, FramesOnCourse, ShortOnCourse, BeginOnCourse, EndOnCourse
         DEF Progress
  <1>4. ASSUME NEW h \in Handlers PROVE ~Trouble(h)
    BY <1>u DEF NativeAlone, Trouble, LockTimeout, Cancel, FailAction, FailStart, StopUnheard
  <1> QED
    BY <1>0, <1>1, <1>2, <1>3, <1>4 DEF Next, NativeInv

LEMMA NativeInitially == Init => NativeInv
  <1> SUFFICES ASSUME Init
               PROVE  NativeInv
    OBVIOUS
  <1>1. TypeInv /\ LockInv
    BY TypesInitially, LocksInitially
  <1>2. PICK on \in SUBSET Tunnels :
           /\ \E a \in [Tunnels -> WANs \cup {NoWAN}] :
                 /\ \A t \in Tunnels :
                       a[t] \in IF t \notin on THEN {NoWAN}
                               ELSE IF t \in KernelTunnels /\ ISPInterface[t] # AnyWAN
                                    THEN {ISPInterface[t]} ELSE PeerVia(t, NoWAN)
                 /\ store = [t \in Tunnels |-> [exists |-> TRUE, enabled |-> t \in on,
                                                activeWAN |-> a[t]]]
           /\ live = [t \in Tunnels |-> [conf |-> t \in on,
                                         up |-> t \in on /\ (BootKind = "warm" \/ NdmsAlone(t))]]
           /\ routes = [t \in Tunnels |-> t \in on /\ BootKind = "warm"]
    BY Zenon DEF Init
  <1>3. ASSUME NEW t \in Tunnels PROVE store[t].exists /\ Settled(t)
    <2>1. store[t].exists = TRUE /\ store[t].enabled = (t \in on)
      BY <1>2
    <2>2. live[t].conf = (t \in on)
      BY <1>2
    <2>3. routes[t] => t \in on
      BY <1>2
    <2> QED
      BY <2>1, <2>2, <2>3 DEF Settled
  <1>5. ASSUME NEW h \in Handlers PROVE OnCourse(h)
    <2>1. /\ pc[h] = "idle" /\ ev[h] = NoEvent /\ firstErr[h] = "none"
          /\ plan[h] = EmptyPlan /\ plan2[h] = EmptyPlan
      BY DEF Init
    <2>2. NoEvent.kind = "none" /\ \A t \in Tunnels : EmptyPlan[t] \in Whole
      BY DEF NoEvent, EmptyPlan, Whole, Sparing
    <2> QED
      BY <2>1, <2>2 DEF OnCourse
  <1> QED
    BY <1>1, <1>3, <1>5 DEF NativeInv, PlanInv

\* When nobody works every tunnel is settled.
LEMMA QuietIsSettled ==
    ASSUME NativeInv, Quiet
    PROVE  \A t \in Tunnels : Settled(t)
  <1>1. \A h, t : h \in Handlers => ~Works(h, t)
    BY DEF Quiet, Works, Executing
  <1> QED
    BY <1>1 DEF NativeInv, PlanInv

\* However starts, stops, restarts, WAN changes, the daemon's start and the hooks
\* they cause interleave over any number of nativewg tunnels and handlers, once
\* everything is at rest the stored Enabled flag of each tunnel is what NDMS
\* holds (executePersistRunning and executePersistStopped, execute.go:573, 602):
\* plans are decided from a cache that may be stale, but the execution lock
\* spans each plan and every plan that changes conf ends by saving what it left.
THEOREM IntentFollowsRouter ==
    ASSUME NativeAlone
    PROVE  Spec => []IntentMatchesRouter
  <1>1. NativeInv => IntentMatchesRouter
    BY QuietIsSettled DEF IntentMatchesRouter, Settled
  <1> QED
    BY <1>1, NativeInitially, NativeInductive, PTL DEF Spec

\* The same for the client routes: at rest none of them leads into a tunnel that
\* is down, because the routes of a stop are removed, and those of a start
\* installed, under the lock of the plan that changed conf.
THEOREM RoutesFollowRouter ==
    ASSUME NativeAlone
    PROVE  Spec => []RoutesMatchRouter
  <1>1. NativeInv => RoutesMatchRouter
    BY QuietIsSettled DEF RoutesMatchRouter, Settled
  <1> QED
    BY <1>1, NativeInitially, NativeInductive, PTL DEF Spec

-----------------------------------------------------------------------------
(* The cache and the router *)

\* The same daemon after a warm start, while no WAN changes.
WarmAlone == NativeAlone /\ BootKind = "warm" /\ "wan" \notin Kinds

\* Actions that leave conf layer and proxy of a tunnel agreeing.
Calm == ActionName \ {"SuspendProxy", "RestoreKmod"}

\* NDMS has been told and the cache has not.
Switching(h, t) == pc[h] = "busy" /\ job[h].tun = t /\ plan[h][t] \in Starting \cup Stopping

\* Until LoadState has run, the router is in a state it can read off.
BeforeLoad ==
    /\ \A t \in Tunnels : live[t].conf = live[t].up
    /\ \A h \in Handlers :
          /\ ev[h].kind \notin {"reconnect", "resume", "wandown"}
          /\ \A t \in Tunnels : plan[h][t] \in Seq(Calm) /\ plan2[h][t] \in Seq(Calm)

\* From then on the cache lags behind the router only inside a start or a stop.
AfterLoad ==
    \A t \in Tunnels :
        /\ cache[t].known
        /\ (\A h \in Handlers : ~Switching(h, t)) => cache[t].running = live[t].conf

CacheInv ==
    /\ boot = IF loaded THEN "done" ELSE "warm"
    /\ \A h \in Handlers : pc[h] # "backup"
    /\ ~loaded => BeforeLoad
    /\ loaded => AfterLoad

\* Only a reconnect restores a proxy and only a lost WAN suspends one.
LEMMA CalmPlans ==
    ASSUME NEW e, NEW c, NEW t \in Tunnels, t \notin KernelTunnels,
           e.kind \notin {"delete", "quiesce", "reconnect", "resume"}
    PROVE  decide(e, c)[t] \in Seq(Calm) /\ EmptyPlan[t] \in Seq(Calm)
  <1>1. /\ <<>> \in Seq(Calm)
        /\ \A a \in Calm : <<a>> \in Seq(Calm)
        /\ \A p, q \in Seq(Calm) : p \o q \in Seq(Calm)
    OBVIOUS
  <1>2. \A a \in {"StartNativeWG", "ReconcileNativeWG", "StartMonitoring", "StopMonitoring",
                  "StopNativeWG", "RemoveRoutes", "PersistStopped", "PersistRunning",
                  "ApplyRoutes"} : a \in Calm
    BY DEF Calm, ActionName, LongActions, ShortActions, StartActions, StopActions
  <1>3. /\ <<"ApplyRoutes", "StartMonitoring", "PersistRunning">> \in Seq(Calm)
        /\ <<"ApplyRoutes", "PersistRunning">> \in Seq(Calm)
        /\ <<"StopNativeWG", "RemoveRoutes", "PersistStopped">> \in Seq(Calm)
    BY <1>2
  <1>4. StartAction(t) = "StartNativeWG" /\ StopAction(t) = "StopNativeWG"
    BY DEF StartAction, StopAction
  <1>5. ASSUME NEW x
        PROVE  /\ StartPlan(t) \in Seq(Calm) /\ appendPostStartActions(t) \in Seq(Calm)
               /\ StopMonitoringIf(x) \in Seq(Calm)
               /\ appendQuiesceStopActions(t, x) \in Seq(Calm)
    <2>1. appendPostStartActions(t) \in Seq(Calm) /\ StopMonitoringIf(x) \in Seq(Calm)
      BY <1>1, <1>2, <1>3 DEF appendPostStartActions, StopMonitoringIf
    <2> QED
      BY <1>1, <1>2, <1>4, <2>1 DEF StartPlan, appendQuiesceStopActions
  <1>6. ASSUME NEW x, NEW w, NEW level, NEW up
        PROVE  /\ decideStart(t, x) \in Seq(Calm) /\ decideStop(t, x) \in Seq(Calm)
               /\ decideRestart(t, x) \in Seq(Calm) /\ decideNDMSHook(t, x, level, up) \in Seq(Calm)
               /\ decideBoot(t, x) \in Seq(Calm) /\ decideWANUp(t, x, w) \in Seq(Calm)
    <2>1. decideStart(t, x) \in Seq(Calm)
      BY <1>1, <1>5 DEF decideStart
    <2>2. decideStop(t, x) \in Seq(Calm)
      BY <1>1, <1>3, <1>4, <1>5 DEF decideStop
    <2>3. decideRestart(t, x) \in Seq(Calm)
      BY <1>1, <1>5 DEF decideRestart
    <2>4. decideNDMSHook(t, x, level, up) \in Seq(Calm)
      BY <1>1, <2>1, <2>2 DEF decideNDMSHook
    <2>5. decideBoot(t, x) \in Seq(Calm)
      BY <1>1, <1>2, <1>5 DEF decideBoot
    <2>6. decideWANUp(t, x, w) \in Seq(Calm)
      BY <1>1, <1>5 DEF decideWANUp
    <2> QED
      BY <2>1, <2>2, <2>3, <2>4, <2>5, <2>6
  <1>7. EmptyPlan[t] = <<>>
    BY DEF EmptyPlan
  <1>8. ASSUME NEW u, NEW p, u = t => p \in Seq(Calm)
        PROVE  OnlyFor(u, p)[t] \in Seq(Calm)
    BY <1>1, <1>8 DEF OnlyFor, EmptyPlan
  <1>9. decide(e, c)[t] \in Seq(Calm)
    <2>1. CASE e.kind \in {"start", "stop", "restart", "hook"}
      BY <1>6, <1>8, <2>1 DEF decide
    <2>2. CASE e.kind \in {"wanup", "boot"}
      BY <1>6, <2>2 DEF decide
    <2>3. CASE e.kind \notin {"start", "stop", "restart", "hook", "wanup", "boot"}
      <3>1. decide(e, c) = EmptyPlan
        BY <2>3 DEF decide
      <3> QED
        BY <1>1, <1>7, <3>1
    <2> QED
      BY <2>1, <2>2, <2>3
  <1> QED
    BY <1>1, <1>7, <1>9

\* What updateState does to Running.
LEMMA RunningUpdated ==
    ASSUME NEW c \in TunnelState, c.known, NEW s, NEW a
    PROVE  /\ a \in StartActions => /\ updateState(c, a, s).known
                                    /\ updateState(c, a, s).running = TRUE
           /\ a \in StopActions => /\ updateState(c, a, s).known
                                   /\ ~updateState(c, a, s).running
           /\ a \in {"StartMonitoring", "StopMonitoring", "SuspendProxy", "RestoreKmod"} =>
                 /\ updateState(c, a, s).known
                 /\ updateState(c, a, s).running = c.running
  <1>1. CASE a \in StartActions
    <2>1. updateState(c, a, s) =
              [c EXCEPT !.running = TRUE, !.quiescent = TRUE, !.activeWAN = s.activeWAN]
      BY <1>1 DEF updateState, StartActions, StopActions
    <2> QED
      BY <1>1, <2>1 DEF TunnelState, StartActions, StopActions
  <1>2. CASE a \in StopActions
    <2>1. updateState(c, a, s) =
              [c EXCEPT !.running = FALSE, !.monitoring = FALSE, !.activeWAN = NoWAN]
      BY <1>2 DEF updateState, StartActions, StopActions
    <2> QED
      BY <1>2, <2>1 DEF TunnelState, StartActions, StopActions
  <1>3. CASE a \in {"StartMonitoring", "StopMonitoring"}
    <2>1. \E b : updateState(c, a, s) = [c EXCEPT !.monitoring = b]
      BY <1>3 DEF updateState, StartActions, StopActions
    <2> QED
      BY <1>3, <2>1 DEF TunnelState, StartActions, StopActions
  <1>4. CASE a \in {"SuspendProxy", "RestoreKmod"}
    <2>1. updateState(c, a, s) = c
      BY <1>4 DEF updateState, StartActions, StopActions
    <2> QED
      BY <1>4, <2>1 DEF StartActions, StopActions
  <1> QED
    BY <1>1, <1>2, <1>3, <1>4

\* Whatever a handler does, it is at its own desk.
LEMMA OthersSame ==
    ASSUME TypeInv, NEW h \in Handlers, Arrive(h) \/ Progress(h)
    PROVE  \A g \in Handlers \ {h} : SameDesk(g)
  <1> USE DEF SameDesk
  <1>0. /\ pc \in [Handlers -> Phase] /\ ev \in [Handlers -> Event] /\ job \in [Handlers -> Job]
        /\ plan \in [Handlers -> FittingPlans] /\ plan2 \in [Handlers -> FittingPlans]
        /\ firstErr \in [Handlers -> {"none", "busy", "error"}]
    BY DEF TypeInv, DesksTyped, BooksTyped
  <1>1. CASE Arrive(h)
    <2>1. ASSUME NEW t \in Tunnels, UserEvent(h, t) \/ EditBegin(h, t)
          PROVE  \A g \in Handlers \ {h} : SameDesk(g)
      BY <1>0, <2>1 DEF UserEvent, EditBegin
    <2>2. ASSUME NEW w \in WANs, WanSet(h, w) PROVE \A g \in Handlers \ {h} : SameDesk(g)
      BY <1>0, <2>2 DEF WanSet
    <2>3. ASSUME NEW k \in Hook, ExternalHook(h, k) PROVE \A g \in Handlers \ {h} : SameDesk(g)
      BY <1>0, <2>3 DEF ExternalHook
    <2>4. CASE Startup(h) \/ Quiesce(h)
      BY <1>0, <2>4 DEF Startup, Quiesce
    <2> QED
      BY <1>1, <2>1, <2>2, <2>3, <2>4 DEF Arrive
  <1>2. CASE Progress(h)
    <2>1. CASE Await(h) \/ SettleEnd(h) \/ RestoreEndpointTracking(h)
      BY <1>0, <2>1 DEF Await, SettleEnd, RestoreEndpointTracking
    <2>2. CASE Decide(h)
      BY <1>0, <2>2 DEF Decide
    <2>3. ASSUME NEW t \in Tunnels, Pick(h, t) PROVE \A g \in Handlers \ {h} : SameDesk(g)
      BY <1>0, <2>3 DEF Pick
    <2>4. CASE lockTunnel(h) \/ unlockTunnel(h)
      BY <1>0, <2>4 DEF lockTunnel, unlockTunnel
    <2>5. CASE Return(h) \/ SetEnabled(h) \/ EditEnd(h) \/ Resume(h)
      BY <1>0, <2>5 DEF Return, SetEnabled, EditEnd, Resume
    <2>6. CASE OneStepAction(h)
      <3>1. /\ plan' = Popped(h) /\ UNCHANGED <<pc, ev, job, plan2>>
            /\ firstErr' = firstErr \/ firstErr' = Noted(h, "error")
        BY <2>6 DEF OneStepAction, ApplyRoutes, RemoveRoutes, Monitoring, Persist, NotFound,
                    NoUpstream, SkipReconcile, Running
      <3> QED
        BY <1>0, <3>1 DEF Popped, Noted
    <2>7. CASE Begin(h) \/ End(h)
      BY <1>0, <2>7 DEF Begin, Drive, End, Popped
    <2> QED
      BY <1>2, <2>1, <2>2, <2>3, <2>4, <2>5, <2>6, <2>7 DEF Progress
  <1> QED
    BY <1>1, <1>2

\* A step of one handler after which its tunnel's cache entry is right again, as
\* right as before, or excused.
LEMMA CacheFollows ==
    ASSUME NativeInv, CacheInv, NEW h \in Handlers,
           UNCHANGED <<boot, loaded>>,
           \A g \in Handlers \ {h} : SameDesk(g),
           pc'[h] # "backup",
           ~loaded => /\ \A t \in Tunnels : live'[t].conf = live'[t].up
                      /\ ev'[h].kind \notin {"reconnect", "resume", "wandown"}
                      /\ \A t \in Tunnels : plan'[h][t] \in Seq(Calm) /\ plan2'[h][t] \in Seq(Calm),
           loaded => \A t \in Tunnels :
                        /\ cache'[t].known
                        /\ \/ /\ cache'[t].running = cache[t].running
                              /\ live'[t].conf = live[t].conf
                              /\ Switching(h, t) => Switching(h, t)'
                           \/ cache'[t].running = live'[t].conf
                           \/ Switching(h, t)'
    PROVE  CacheInv'
  <1>1. /\ boot' = IF loaded' THEN "done" ELSE "warm"
        /\ \A g \in Handlers : pc'[g] # "backup"
    BY DEF CacheInv, SameDesk
  <1>2. ASSUME ~loaded' PROVE BeforeLoad'
    <2>1. BeforeLoad /\ ~loaded
      BY <1>2 DEF CacheInv
    <2>2. ASSUME NEW g \in Handlers
          PROVE  /\ ev'[g].kind \notin {"reconnect", "resume", "wandown"}
                 /\ \A t \in Tunnels : plan'[g][t] \in Seq(Calm) /\ plan2'[g][t] \in Seq(Calm)
      <3>1. CASE g = h
        BY <2>1, <3>1
      <3>2. CASE g # h
        <4>1. ev'[g] = ev[g] /\ plan'[g] = plan[g] /\ plan2'[g] = plan2[g]
          BY <3>2 DEF SameDesk
        <4> QED
          BY <2>1, <4>1 DEF BeforeLoad
      <3> QED
        BY <3>1, <3>2
    <2> QED
      BY <2>1, <2>2 DEF BeforeLoad
  <1>3. ASSUME loaded' PROVE AfterLoad'
    <2>1. AfterLoad /\ loaded
      BY <1>3 DEF CacheInv
    <2>2. ASSUME NEW t \in Tunnels, \A g \in Handlers : ~Switching(g, t)'
          PROVE  cache'[t].running = live'[t].conf
      <3>1. CASE /\ cache'[t].running = cache[t].running
                 /\ live'[t].conf = live[t].conf
                 /\ Switching(h, t) => Switching(h, t)'
        <4>1. ASSUME NEW g \in Handlers PROVE ~Switching(g, t)
          <5>1. CASE g = h
            BY <2>2, <3>1, <5>1
          <5>2. CASE g # h
            BY <2>2, <5>2 DEF SameDesk, Switching
          <5> QED
            BY <5>1, <5>2
        <4> QED
          BY <2>1, <3>1, <4>1 DEF AfterLoad
      <3> QED
        BY <2>1, <2>2, <3>1
    <2> QED
      BY <2>1, <2>2 DEF AfterLoad
  <1> QED
    BY <1>1, <1>2, <1>3 DEF CacheInv

\* A step outside the long actions that leaves the router alone.
LEMMA AsideFollows ==
    ASSUME NativeInv, CacheInv, NEW h \in Handlers,
           UNCHANGED <<boot, loaded, live>>,
           \A g \in Handlers \ {h} : SameDesk(g),
           pc[h] # "busy", pc'[h] # "backup",
           ~loaded => /\ ev'[h].kind \notin {"reconnect", "resume", "wandown"}
                      /\ \A t \in Tunnels : plan'[h][t] \in Seq(Calm) /\ plan2'[h][t] \in Seq(Calm),
           loaded => \A t \in Tunnels : cache'[t].known /\ cache'[t].running = cache[t].running
    PROVE  CacheInv'
  <1>1. \A t : ~Switching(h, t)
    BY DEF Switching
  <1>2. ~loaded => \A t \in Tunnels : live'[t].conf = live'[t].up
    BY DEF CacheInv, BeforeLoad
  <1> QED
    BY <1>1, <1>2, CacheFollows

\* Events, hooks, decisions and the frame of a group.
LEMMA AsideStepsFollow ==
    ASSUME WarmAlone, NativeInv, CacheInv, NEW h \in Handlers,
           \/ \E t \in Tunnels : UserEvent(h, t)
           \/ \E k \in Hook : ExternalHook(h, k)
           \/ Await(h) \/ SettleEnd(h) \/ RestoreEndpointTracking(h)
           \/ \E t \in Tunnels : Pick(h, t)
           \/ lockTunnel(h) \/ unlockTunnel(h) \/ Return(h) \/ Decide(h)
    PROVE  CacheInv'
  <1> USE DEF routerVars
  <1>0. /\ pc \in [Handlers -> Phase] /\ ev \in [Handlers -> Event] /\ job \in [Handlers -> Job]
        /\ plan \in [Handlers -> FittingPlans] /\ plan2 \in [Handlers -> FittingPlans]
        /\ TypeInv
    BY DEF NativeInv, TypeInv, DesksTyped
  <1>1. \A g \in Handlers \ {h} : SameDesk(g)
    BY <1>0, OthersSame DEF Arrive, Progress
  <1>2. /\ pc[h] # "backup" /\ ev[h].kind \notin {"delete", "quiesce"}
        /\ ~loaded => /\ ev[h].kind \notin {"reconnect", "resume", "wandown"}
                      /\ \A t \in Tunnels : plan[h][t] \in Seq(Calm) /\ plan2[h][t] \in Seq(Calm)
        /\ loaded => \A t \in Tunnels : cache[t].known
    BY DEF CacheInv, BeforeLoad, AfterLoad, NativeInv, PlanInv, OnCourse
  <1>e. /\ NoEvent.kind = "none"
        /\ \A t \in Tunnels : EmptyPlan[t] \in Seq(Calm)
    BY DEF NoEvent, EmptyPlan
  <1>3. ASSUME UNCHANGED <<boot, loaded, live, cache>>, pc[h] # "busy", pc'[h] # "backup",
               ev'[h].kind \in {ev[h].kind, "none", "start", "stop", "restart", "hook"},
               \/ UNCHANGED <<plan, plan2>>
               \/ plan'[h] = plan2[h] /\ plan2'[h] = EmptyPlan
        PROVE  CacheInv'
    <2>1. ~loaded => /\ ev'[h].kind \notin {"reconnect", "resume", "wandown"}
                     /\ \A t \in Tunnels : plan'[h][t] \in Seq(Calm) /\ plan2'[h][t] \in Seq(Calm)
      BY <1>2, <1>e, <1>3
    <2>2. loaded => \A t \in Tunnels : cache'[t].known /\ cache'[t].running = cache[t].running
      BY <1>2, <1>3
    <2> QED
      BY <1>1, <1>3, <2>1, <2>2, AsideFollows
  <1>4. ASSUME NEW t \in Tunnels, UserEvent(h, t) PROVE CacheInv'
    <2>0. PICK k \in Kinds \cap {"start", "stop", "restart", "delete"} :
             ev' = [ev EXCEPT ![h] = [NoEvent EXCEPT !.kind = k, !.tun = t]]
      BY <1>4 DEF UserEvent
    <2>1. ev'[h].kind \in {"start", "stop", "restart"}
      BY <1>0, <2>0 DEF NativeAlone, WarmAlone, NoEvent
    <2>2. /\ pc' = [pc EXCEPT ![h] = "decide"] /\ pc[h] = "idle"
          /\ UNCHANGED <<boot, loaded, live, cache, plan, plan2>>
      BY <1>4 DEF UserEvent
    <2> QED
      BY <1>0, <1>3, <2>1, <2>2
  <1>5. ASSUME NEW k \in Hook, ExternalHook(h, k) PROVE CacheInv'
    <2>0. ev' = [ev EXCEPT ![h] = [NoEvent EXCEPT !.kind = "hook", !.tun = k.tun,
                                                  !.level = k.level, !.own = k.own]]
      BY <1>5 DEF ExternalHook
    <2>1. ev'[h].kind = "hook"
      BY <1>0, <2>0 DEF NoEvent
    <2>2. /\ \E p \in {"await", "decide", "settle"} : pc' = [pc EXCEPT ![h] = p]
          /\ pc[h] = "idle"
          /\ UNCHANGED <<boot, loaded, live, cache, plan, plan2>>
      BY <1>5 DEF ExternalHook
    <2> QED
      BY <1>0, <1>3, <2>1, <2>2
  <1>6. CASE Await(h) \/ SettleEnd(h) \/ RestoreEndpointTracking(h)
    <2>1. /\ \E p \in {"idle", "decide", "pick"} : pc' = [pc EXCEPT ![h] = p]
          /\ ev' = ev \/ ev' = [ev EXCEPT ![h] = NoEvent]
          /\ pc[h] \in {"await", "settle", "sweep"}
          /\ UNCHANGED <<boot, loaded, live, cache, plan, plan2>>
      BY <1>6 DEF Await, SettleEnd, RestoreEndpointTracking
    <2> QED
      BY <1>0, <1>e, <1>3, <2>1
  <1>7. ASSUME NEW t \in Tunnels, Pick(h, t) PROVE CacheInv'
    <2>1. /\ pc' = [pc EXCEPT ![h] = "wait"] /\ pc[h] = "pick"
          /\ \/ UNCHANGED <<plan, plan2>>
             \/ /\ plan' = [plan EXCEPT ![h] = plan2[h]]
                /\ plan2' = [plan2 EXCEPT ![h] = EmptyPlan]
          /\ UNCHANGED <<boot, loaded, live, cache, ev>>
      BY <1>7 DEF Pick
    <2> QED
      BY <1>0, <1>3, <2>1
  <1>8. CASE lockTunnel(h) \/ unlockTunnel(h)
    <2>1. /\ \E p \in {"run", "pick"} : pc' = [pc EXCEPT ![h] = p]
          /\ pc[h] \in {"wait", "run"}
          /\ UNCHANGED <<boot, loaded, live, cache, ev, plan, plan2>>
      BY <1>8 DEF lockTunnel, unlockTunnel
    <2> QED
      BY <1>0, <1>3, <2>1
  <1>9. CASE Return(h)
    <2>1. /\ \E p \in {"idle", "flip"} : pc' = [pc EXCEPT ![h] = p]
          /\ pc[h] = "pick"
          /\ ev' = [ev EXCEPT ![h] = ev[h]] \/ ev' = [ev EXCEPT ![h] = NoEvent]
          /\ UNCHANGED <<boot, loaded, live, cache, plan, plan2>>
      BY <1>2, <1>9 DEF Return
    <2> QED
      BY <1>0, <1>e, <1>3, <2>1
  <1>10. CASE Decide(h)
    <2> DEFINE c == IF ev[h].kind = "hook" THEN cache ELSE ensureTunnel(ev[h].tun, cache)
    <2>0. /\ cache' = c
          /\ \E p \in IF ev[h].kind = "wandown" THEN decideWANDown(c, ev[h].wan)
                      ELSE {<<decide(ev[h], c), EmptyPlan>>} :
                plan' = [plan EXCEPT ![h] = p[1]] /\ plan2' = [plan2 EXCEPT ![h] = p[2]]
          /\ \E p \in {"sweep", "pick"} : pc' = [pc EXCEPT ![h] = p]
          /\ pc[h] = "decide"
          /\ UNCHANGED <<boot, loaded, live, ev>>
      BY <1>10 DEF Decide
    <2>1. loaded => c = cache
      <3>1. ev[h].tun \in Tunnels \cup {NoTunnel}
        BY <1>0 DEF Event
      <3> QED
        BY <1>2, <3>1 DEF ensureTunnel
    <2> HIDE DEF c
    <2>2. ASSUME ~loaded, NEW t \in Tunnels
          PROVE  plan'[h][t] \in Seq(Calm) /\ plan2'[h][t] \in Seq(Calm)
      <3>1. ev[h].kind \notin {"delete", "quiesce", "reconnect", "resume", "wandown"}
        BY <1>2, <2>2
      <3>2. plan'[h] = decide(ev[h], c) /\ plan2'[h] = EmptyPlan
        BY <1>0, <2>0, <3>1
      <3>3. t \notin KernelTunnels
        BY DEF WarmAlone, NativeAlone
      <3> QED
        BY <3>1, <3>2, <3>3, CalmPlans
    <2>3. loaded => \A t \in Tunnels : cache'[t].known /\ cache'[t].running = cache[t].running
      BY <1>2, <2>0, <2>1
    <2>4. pc'[h] # "backup" /\ pc[h] # "busy"
      BY <1>0, <2>0
    <2>5. ~loaded => ev'[h].kind \notin {"reconnect", "resume", "wandown"}
      BY <1>2, <2>0
    <2> QED
      BY <1>1, <2>0, <2>2, <2>3, <2>4, <2>5, AsideFollows
  <1> QED
    BY <1>4, <1>5, <1>6, <1>7, <1>8, <1>9, <1>10

\* The daemon starts: LoadState reads every tunnel off the router.
LEMMA StartupFollows ==
    ASSUME WarmAlone, NativeInv, CacheInv, NEW h \in Handlers, Startup(h)
    PROVE  CacheInv'
  <1>1. boot = "warm" /\ ~loaded /\ BeforeLoad
    BY DEF Startup, CacheInv
  <1>2. /\ LoadState /\ boot' = "done" /\ UNCHANGED <<live, plan, job>>
        /\ pc' = [pc EXCEPT ![h] = "decide"]
    BY <1>1 DEF Startup, routerVars
  <1>3. PICK bad \in SUBSET Tunnels :
           /\ used.fails + Cardinality(bad) <= MaxFails
           /\ cache' = LoadedCache(bad) /\ loaded' = TRUE
    BY <1>2 DEF LoadState
  <1>4. bad = {}
    <2>1. IsFiniteSet(bad) /\ Cardinality(bad) \in Nat
      BY FS_CardinalityType, FS_Subset, DecideAssumption
    <2>2. used.fails \in Nat /\ MaxFails = 0
      BY DEF WarmAlone, NativeAlone, NativeInv, TypeInv, BooksTyped
    <2>3. Cardinality(bad) = 0
      <3> DEFINE n == Cardinality(bad)
      <3>1. n \in Nat /\ used.fails + n <= MaxFails
        BY <1>3, <2>1
      <3> HIDE DEF n
      <3>2. n = 0
        BY <2>2, <3>1
      <3> QED
        BY <3>2 DEF n
    <2> QED
      BY <2>1, <2>3, FS_EmptySet
  <1>5. ASSUME NEW t \in Tunnels
        PROVE  cache'[t].known /\ cache'[t].running = live[t].conf
    <2>1. live[t].conf = live[t].up /\ live[t].conf \in BOOLEAN
      BY <1>1 DEF BeforeLoad, NativeInv, TypeInv, WorldTyped
    <2>2. Detected(t, bad) = live[t].conf
      BY <1>4, <2>1 DEF Detected
    <2>3. store[t].exists /\ FromStored(store[t]) \in TunnelState
      BY StatesTyped DEF NativeInv, PlanInv, TypeInv, WorldTyped
    <2>4. cache'[t] = [FromStored(store[t]) EXCEPT
                          !.running = Detected(t, bad),
                          !.monitoring = Detected(t, bad) /\ t \in PingChecked]
      BY <1>3, <2>3 DEF LoadedCache
    <2>5. cache'[t].running = Detected(t, bad)
      BY <2>3, <2>4 DEF TunnelState
    <2>6. FromStored(store[t]).known = TRUE
      BY DEF FromStored, Unknown
    <2>7. cache'[t].known = FromStored(store[t]).known
      BY <2>3, <2>4 DEF TunnelState
    <2> QED
      BY <2>2, <2>5, <2>6, <2>7
  <1>6. AfterLoad'
    BY <1>2, <1>5 DEF AfterLoad
  <1>7. \A g \in Handlers : pc'[g] # "backup"
    BY <1>2 DEF CacheInv, NativeInv, TypeInv, DesksTyped
  <1> QED
    BY <1>2, <1>3, <1>6, <1>7 DEF CacheInv

\* What is left of a calm plan is calm.
LEMMA CalmPopped ==
    ASSUME NativeInv, NEW h \in Handlers, job[h].tun \in Tunnels, plan[h][job[h].tun] # <<>>,
           \A t \in Tunnels : plan[h][t] \in Seq(Calm)
    PROVE  /\ \A t \in Tunnels : Popped(h)[h][t] \in Seq(Calm)
           /\ Act(h) \in Calm
  <1>a. PICK u : u = job[h].tun
    OBVIOUS
  <1>1. plan \in [Handlers -> FittingPlans] /\ plan[h] \in [Tunnels -> Seq(ActionName)]
    BY DEF NativeInv, TypeInv, DesksTyped, FittingPlans
  <1>2. Popped(h)[h] = [plan[h] EXCEPT ![u] = Tail(@)]
    BY <1>a, <1>1 DEF Popped
  <1>3. ASSUME NEW S, NEW q \in Seq(S), q # <<>> PROVE Tail(q) \in Seq(S) /\ Head(q) \in S
    BY <1>3
  <1>4. Tail(plan[h][u]) \in Seq(Calm) /\ Head(plan[h][u]) \in Calm
    BY <1>a, <1>3
  <1>5. Popped(h)[h][u] = Tail(plan[h][u])
        /\ \A t \in Tunnels \ {u} : Popped(h)[h][t] = plan[h][t]
    BY <1>a, <1>1, <1>2
  <1> QED
    BY <1>a, <1>4, <1>5 DEF Act

\* The short actions.
LEMMA ShortFollows ==
    ASSUME NativeInv, CacheInv, NEW h \in Handlers, OneStepAction(h)
    PROVE  CacheInv'
  <1>a. PICK t : t = job[h].tun
    OBVIOUS
  <1> USE DEF routerVars
  <1>1. /\ pc[h] = "run" /\ plan[h][t] # <<>> /\ plan' = Popped(h)
        /\ UNCHANGED <<pc, job, ev, plan2, live, boot, loaded>>
    BY <1>a DEF OneStepAction, ApplyRoutes, RemoveRoutes, Monitoring, Persist, NotFound, NoUpstream,
                SkipReconcile, Running
  <1>2. /\ t \in Tunnels /\ TypeInv /\ cache \in [Tunnels -> TunnelState]
    BY <1>a, <1>1 DEF NativeInv, LockInv, Occupied, TypeInv, WorldTyped
  <1>3. \A g \in Handlers \ {h} : SameDesk(g)
    BY <1>2, OthersSame DEF Progress
  <1>4. ASSUME ~loaded
        PROVE  /\ ev'[h].kind \notin {"reconnect", "resume", "wandown"}
               /\ \A u \in Tunnels : plan'[h][u] \in Seq(Calm) /\ plan2'[h][u] \in Seq(Calm)
    <2>1. /\ ev[h].kind \notin {"reconnect", "resume", "wandown"}
          /\ \A u \in Tunnels : plan[h][u] \in Seq(Calm) /\ plan2[h][u] \in Seq(Calm)
      BY <1>4 DEF CacheInv, BeforeLoad
    <2> QED
      BY <1>a, <1>1, <1>2, <2>1, CalmPopped
  <1>5. loaded => \A u \in Tunnels : cache[u].known
    BY DEF CacheInv, AfterLoad
  <1>6. CASE UNCHANGED cache
    BY <1>1, <1>3, <1>4, <1>5, <1>6, AsideFollows
  <1>7. CASE Monitoring(h)
    <2>1. /\ Act(h) \in {"StartMonitoring", "StopMonitoring"}
          /\ cache' = [cache EXCEPT ![t] = updateState(@, Act(h), store[t])]
      BY <1>a, <1>7 DEF Monitoring, Running
    <2>2. ASSUME loaded, NEW u \in Tunnels
          PROVE  cache'[u].known /\ cache'[u].running = cache[u].running
      <3>1. CASE u = t
        <4>1. cache'[t] = updateState(cache[t], Act(h), store[t])
          BY <1>2, <2>1
        <4>2. cache[t].known /\ cache[t] \in TunnelState
          BY <1>2, <1>5, <2>2
        <4>3. /\ updateState(cache[t], Act(h), store[t]).known
              /\ updateState(cache[t], Act(h), store[t]).running = cache[t].running
          BY <2>1, <4>2, RunningUpdated, Zenon
        <4> QED
          BY <3>1, <4>1, <4>3
      <3>2. CASE u # t
        BY <1>2, <1>5, <2>1, <2>2, <3>2
      <3> QED
        BY <3>1, <3>2
    <2> QED
      BY <1>1, <1>3, <1>4, <2>2, AsideFollows
  <1>8. CASE SkipReconcile(h)
    <2>1. /\ live[t].conf
          /\ cache' = [cache EXCEPT ![t] = updateState(@, "ReconcileNativeWG", store[t])]
      BY <1>a, <1>8 DEF SkipReconcile, Running
    <2>2. ASSUME loaded, NEW u \in Tunnels
          PROVE  /\ cache'[u].known
                 /\ \/ cache'[u].running = cache[u].running
                    \/ cache'[u].running = live'[u].conf
      <3>1. CASE u = t
        <4>1. cache'[t] = updateState(cache[t], "ReconcileNativeWG", store[t])
          BY <1>2, <2>1
        <4>2. cache[t].known /\ cache[t] \in TunnelState /\ "ReconcileNativeWG" \in StartActions
          BY <1>2, <1>5, <2>2 DEF StartActions
        <4>5. /\ updateState(cache[t], "ReconcileNativeWG", store[t]).known
              /\ updateState(cache[t], "ReconcileNativeWG", store[t]).running = TRUE
          BY <4>2, RunningUpdated, Zenon
        <4>3. cache'[t].known /\ cache'[t].running = TRUE
          BY <4>1, <4>5
        <4>4. live'[t].conf = TRUE
          BY <1>1, <1>2, <2>1 DEF TypeInv, WorldTyped
        <4> QED
          BY <3>1, <4>3, <4>4
      <3>2. CASE u # t
        BY <1>2, <1>5, <2>1, <2>2, <3>2
      <3> QED
        BY <3>1, <3>2
    <2>3. /\ \A u : ~Switching(h, u)
          /\ ~loaded => \A u \in Tunnels : live'[u].conf = live'[u].up
          /\ \A u \in Tunnels : live'[u].conf = live[u].conf
          /\ pc'[h] # "backup"
      BY <1>1 DEF Switching, CacheInv, BeforeLoad
    <2> QED
      BY <1>1, <1>3, <1>4, <2>2, <2>3, CacheFollows
  <1> QED
    BY <1>6, <1>7, <1>8 DEF OneStepAction, ApplyRoutes, RemoveRoutes, Persist, NotFound, NoUpstream

\* NDMS is told.
LEMMA BeginFollows ==
    ASSUME NativeInv, CacheInv, NEW h \in Handlers, Begin(h)
    PROVE  CacheInv'
  <1>a. PICK t, p, q : t = job[h].tun /\ p = plan[h][t] /\ q = Tail(p)
    OBVIOUS
  <1> USE DEF Executing, routerVars
  <1>1. /\ pc[h] = "run" /\ p # <<>> /\ Act(h) = Head(p) /\ Act(h) \in LongActions
        /\ pc' = [pc EXCEPT ![h] = "busy"]
        /\ live' = [live EXCEPT ![t] = LiveAfter(Act(h), live[t])]
        /\ UNCHANGED <<cache, boot, loaded, ev, plan, plan2>>
    BY <1>a DEF Begin, Drive, Act
  <1>2. /\ t \in Tunnels /\ Due(t, p) /\ TypeInv
        /\ pc \in [Handlers -> Phase] /\ job \in [Handlers -> Job]
        /\ live \in [Tunnels -> [conf : BOOLEAN, up : BOOLEAN]]
    BY <1>a, <1>1 DEF NativeInv, PlanInv, OnCourse, LockInv, Occupied, TypeInv, WorldTyped, DesksTyped
  <1>3. \A g \in Handlers \ {h} : SameDesk(g)
    BY <1>2, OthersSame DEF Progress
  <1>d. DueFor(t, p, q)
    BY <1>a, <1>1, <1>2, DueSteps
  <1>4. job'[h].tun = t /\ pc'[h] = "busy"
    <2>1. \E s : job' = [job EXCEPT ![h].snap = s]
      BY DEF Begin, Drive
    <2> QED
      BY <1>a, <1>1, <1>2, <2>1 DEF Job
  <1>5. /\ live'[t] = LiveAfter(Act(h), live[t])
        /\ \A u \in Tunnels \ {t} : live'[u] = live[u]
    BY <1>1, <1>2
  <1>6. \/ Act(h) \in {"StartNativeWG", "ReconcileNativeWG"} /\ p \in Starting
        \/ Act(h) = "StopNativeWG" /\ p \in Stopping
        \/ Act(h) \in {"SuspendProxy", "RestoreKmod"}
    BY <1>1, <1>d DEF DueFor, LongActions, StartActions, StopActions
  <1>l. /\ Act(h) \in {"StartNativeWG", "ReconcileNativeWG"} =>
              live'[t].conf = TRUE /\ live'[t].up = TRUE
        /\ Act(h) = "StopNativeWG" => live'[t].conf = FALSE /\ live'[t].up = FALSE
        /\ Act(h) \in {"SuspendProxy", "RestoreKmod"} => live'[t].conf = live[t].conf
    <2> DEFINE c == IF Act(h) \in BringUp THEN TRUE
                    ELSE Act(h) \notin StopActions \cup {"Delete"} /\ live[t].conf
               v == Act(h) \in StartActions \cup {"RestoreKmod"}
    <2>1. live'[t] = [live[t] EXCEPT !.conf = c, !.up = v]
      BY <1>5, Zenon DEF LiveAfter
    <2>2. /\ Act(h) \in {"StartNativeWG", "ReconcileNativeWG"} => c = TRUE /\ v = TRUE
          /\ Act(h) = "StopNativeWG" => c = FALSE /\ v = FALSE
      BY DEF BringUp, StopActions, StartActions
    <2>3. live[t].conf \in BOOLEAN
      BY <1>2
    <2>4. Act(h) \in {"SuspendProxy", "RestoreKmod"} => c = live[t].conf
      BY <2>3 DEF BringUp, StopActions
    <2> HIDE DEF c, v
    <2>5. live'[t].conf = c /\ live'[t].up = v
      BY <1>2, <2>1
    <2> QED
      BY <2>2, <2>4, <2>5
  <1>7. ASSUME ~loaded
        PROVE  /\ \A u \in Tunnels : live'[u].conf = live'[u].up
               /\ ev'[h].kind \notin {"reconnect", "resume", "wandown"}
               /\ \A u \in Tunnels : plan'[h][u] \in Seq(Calm) /\ plan2'[h][u] \in Seq(Calm)
    <2>1. BeforeLoad
      BY <1>7 DEF CacheInv
    <2>2. Act(h) \in Calm
      BY <1>a, <1>1, <1>2, <2>1, CalmPopped DEF BeforeLoad
    <2>3. live'[t].conf = live'[t].up
      <3>1. Act(h) \in {"StartNativeWG", "ReconcileNativeWG", "StopNativeWG"}
        BY <1>6, <2>2 DEF Calm
      <3>2. ASSUME NEW b, live'[t].conf = b, live'[t].up = b PROVE live'[t].conf = live'[t].up
        BY <3>2
      <3>3. CASE Act(h) \in {"StartNativeWG", "ReconcileNativeWG"}
        BY <1>l, <3>2, <3>3
      <3>4. CASE Act(h) = "StopNativeWG"
        BY <1>l, <3>2, <3>4
      <3> QED
        BY <3>1, <3>3, <3>4
    <2>4. \A u \in Tunnels : live'[u].conf = live'[u].up
      BY <1>5, <2>1, <2>3 DEF BeforeLoad
    <2> QED
      BY <1>1, <2>1, <2>4 DEF BeforeLoad
  <1>8. ASSUME loaded, NEW u \in Tunnels
        PROVE  /\ cache'[u].known
               /\ \/ /\ cache'[u].running = cache[u].running
                     /\ live'[u].conf = live[u].conf
                     /\ Switching(h, u) => Switching(h, u)'
                  \/ Switching(h, u)'
    <2>1. cache'[u].known /\ cache'[u] = cache[u] /\ ~Switching(h, u)
      BY <1>1, <1>8 DEF CacheInv, AfterLoad, Switching
    <2>2. CASE u # t
      BY <1>5, <2>1, <2>2
    <2>3. CASE u = t /\ p \in Starting \cup Stopping
      BY <1>a, <1>1, <1>4, <2>1, <2>3 DEF Switching
    <2>4. CASE u = t /\ p \notin Starting \cup Stopping
      BY <1>6, <1>l, <2>1, <2>4
    <2> QED
      BY <2>2, <2>3, <2>4
  <1> QED
    BY <1>1, <1>3, <1>4, <1>7, <1>8, CacheFollows

\* The cache is told.
LEMMA EndFollows ==
    ASSUME NativeInv, CacheInv, NEW h \in Handlers, End(h)
    PROVE  CacheInv'
  <1>a. PICK t, p : t = job[h].tun /\ p = plan[h][t]
    OBVIOUS
  <1> USE DEF Executing, routerVars
  <1>1. /\ pc[h] = "busy" /\ Act(h) = Head(p) /\ plan' = Popped(h)
        /\ pc' = [pc EXCEPT ![h] = "run"]
        /\ UNCHANGED <<live, boot, loaded, ev, plan2>>
    BY <1>a DEF End, Act
  <1>2. PICK x : cache' = [cache EXCEPT ![t] = updateState(@, Act(h), x)]
    BY <1>a DEF End
  <1>3. /\ t \in Tunnels /\ p # <<>> /\ TypeInv
        /\ UnderWay(t, p, job[h].snap)
        /\ pc \in [Handlers -> Phase]
        /\ cache \in [Tunnels -> TunnelState]
        /\ live \in [Tunnels -> [conf : BOOLEAN, up : BOOLEAN]]
    BY <1>a, <1>1 DEF NativeInv, PlanInv, OnCourse, LockInv, Occupied, TypeInv, WorldTyped,
                      DesksTyped, AtDesk
  <1>4. \A g \in Handlers \ {h} : SameDesk(g)
    BY <1>3, OthersSame DEF Progress
  <1>5. \/ Act(h) \in {"StartNativeWG", "ReconcileNativeWG"} /\ live[t].conf
        \/ Act(h) = "StopNativeWG" /\ ~live[t].conf
        \/ Act(h) \in {"SuspendProxy", "RestoreKmod"} /\ p \notin Starting \cup Stopping
    <2>1. CASE p \in Starting /\ live[t].conf
      BY <1>1, <2>1, PlanShapes
    <2>2. CASE p \in Stopping /\ ~live[t].conf
      BY <1>1, <2>2, PlanShapes
    <2>3. CASE p \in FailingOver \/ Head(p) \in {"SuspendProxy", "RestoreKmod"}
      <3>1. Head(p) \in {"SuspendProxy", "RestoreKmod"}
        BY <2>3, PlanShapes
      <3>2. p \notin Starting \cup Stopping
        BY <3>1, PlanShapes
      <3> QED
        BY <1>1, <3>1, <3>2
    <2> QED
      BY <1>3, <2>1, <2>2, <2>3 DEF UnderWay
  <1>6. ASSUME ~loaded
        PROVE  /\ \A u \in Tunnels : live'[u].conf = live'[u].up
               /\ ev'[h].kind \notin {"reconnect", "resume", "wandown"}
               /\ \A u \in Tunnels : plan'[h][u] \in Seq(Calm) /\ plan2'[h][u] \in Seq(Calm)
    <2>1. BeforeLoad
      BY <1>6 DEF CacheInv
    <2>2. \A u \in Tunnels : plan'[h][u] \in Seq(Calm)
      BY <1>a, <1>1, <1>3, <2>1, CalmPopped DEF BeforeLoad
    <2> QED
      BY <1>1, <2>1, <2>2 DEF BeforeLoad
  <1>7. ASSUME loaded, NEW u \in Tunnels
        PROVE  /\ cache'[u].known
               /\ \/ /\ cache'[u].running = cache[u].running
                     /\ live'[u].conf = live[u].conf
                     /\ ~Switching(h, u)
                  \/ cache'[u].running = live'[u].conf
    <2>1. cache[u].known
      BY <1>7 DEF CacheInv, AfterLoad
    <2>2. CASE u # t
      BY <1>a, <1>1, <1>2, <1>3, <2>1, <2>2 DEF Switching
    <2>3. CASE u = t
      <3>1. cache'[t] = updateState(cache[t], Act(h), x) /\ cache[t].known /\ cache[t] \in TunnelState
        BY <1>2, <1>3, <2>1, <2>3
      <3>2. CASE Act(h) \in {"StartNativeWG", "ReconcileNativeWG"} /\ live[t].conf
        <4>0. Act(h) \in StartActions
          BY <3>2 DEF StartActions
        <4>3. /\ updateState(cache[t], Act(h), x).known
              /\ updateState(cache[t], Act(h), x).running = TRUE
          BY <3>1, <4>0, RunningUpdated, Zenon
        <4>1. cache'[t].known /\ cache'[t].running = TRUE
          BY <3>1, <4>3
        <4>2. live'[t].conf = TRUE
          BY <1>1, <1>3, <3>2
        <4> QED
          BY <2>3, <4>1, <4>2
      <3>3. CASE Act(h) = "StopNativeWG" /\ ~live[t].conf
        <4>0. Act(h) \in StopActions
          BY <3>3 DEF StopActions
        <4>3. /\ updateState(cache[t], Act(h), x).known
              /\ ~updateState(cache[t], Act(h), x).running
          BY <3>1, <4>0, RunningUpdated, Zenon
        <4>4. cache'[t] \in TunnelState
          BY <1>3, TypesInductive DEF TypeInv, WorldTyped, Next, Progress, vars
        <4>1. cache'[t].known /\ cache'[t].running = FALSE
          BY <3>1, <4>3, <4>4 DEF TunnelState
        <4>2. live'[t].conf = FALSE
          BY <1>1, <1>3, <3>3
        <4> QED
          BY <2>3, <4>1, <4>2
      <3>4. CASE Act(h) \in {"SuspendProxy", "RestoreKmod"} /\ p \notin Starting \cup Stopping
        <4>3. /\ updateState(cache[t], Act(h), x).known
              /\ updateState(cache[t], Act(h), x).running = cache[t].running
          BY <3>1, <3>4, RunningUpdated, Zenon
        <4>1. cache'[t].known /\ cache'[t].running = cache[t].running
          BY <3>1, <4>3
        <4>2. ~Switching(h, t)
          BY <1>a, <3>4 DEF Switching
        <4> QED
          BY <1>1, <2>3, <4>1, <4>2
      <3> QED
        BY <1>5, <3>2, <3>3, <3>4
    <2> QED
      BY <2>2, <2>3
  <1>8. pc'[h] # "backup"
    BY <1>1, <1>3
  <1> QED
    BY <1>1, <1>4, <1>6, <1>7, <1>8, CacheFollows

LEMMA CacheInductive ==
    ASSUME WarmAlone, NativeInv, CacheInv, [Next]_vars
    PROVE  CacheInv'
  <1>u. used.ext \in Nat /\ used.fails \in Nat /\ used.giveUps \in Nat
    BY DEF NativeInv, TypeInv, BooksTyped
  <1>1. CASE Environment \/ UNCHANGED vars
    <2>1. ~Crash /\ \A t \in Tunnels : ~ToggleEnabled(t) /\ ~ExtToggle(t)
      BY <1>u DEF WarmAlone, NativeAlone, Crash, ToggleEnabled, ExtToggle
    <2>2. UNCHANGED <<live, boot, loaded, pc, ev, plan, plan2, job>>
      BY <1>1, <2>1 DEF Environment, QuiescenceEnds, ExpireHook, ConsumeHook, HookFault, vars,
                        routerVars
    <2>3. \/ cache' = cache
          \/ \E t \in Tunnels : cache' = [cache EXCEPT ![t].quiescent = FALSE]
      BY <1>1, <2>1 DEF Environment, QuiescenceEnds, ExpireHook, ConsumeHook, HookFault, vars
    <2>4. ASSUME NEW t \in Tunnels
          PROVE  cache'[t].known = cache[t].known /\ cache'[t].running = cache[t].running
      <3>1. cache \in [Tunnels -> TunnelState]
        BY DEF NativeInv, TypeInv, WorldTyped
      <3> QED
        BY <2>3, <3>1 DEF TunnelState
    <2>5. \A h, t : Switching(h, t)' = Switching(h, t)
      BY <2>2 DEF Switching
    <2>6. BeforeLoad => BeforeLoad'
      BY <2>2 DEF BeforeLoad
    <2>7. AfterLoad => AfterLoad'
      BY <2>2, <2>4, <2>5 DEF AfterLoad
    <2> QED
      BY <2>2, <2>6, <2>7 DEF CacheInv
  <1>2. ASSUME NEW h \in Handlers, Arrive(h) PROVE CacheInv'
    <2>1. /\ ~Quiesce(h) /\ \A t \in Tunnels : ~EditBegin(h, t)
          /\ \A w \in WANs : ~WanSet(h, w)
      BY DEF WarmAlone, NativeAlone, Quiesce, EditBegin, WanSet
    <2> QED
      BY <1>2, <2>1, AsideStepsFollow, StartupFollows DEF Arrive
  <1>3. ASSUME NEW h \in Handlers, Progress(h) PROVE CacheInv'
    <2>1. ~SetEnabled(h) /\ ~EditEnd(h) /\ ~Resume(h)
      BY DEF NativeInv, PlanInv, OnCourse, CacheInv, SetEnabled, EditEnd, Resume
    <2> QED
      BY <1>3, <2>1, AsideStepsFollow, ShortFollows, BeginFollows, EndFollows DEF Progress
  <1>4. ASSUME NEW h \in Handlers PROVE ~Trouble(h)
    BY <1>u DEF WarmAlone, NativeAlone, Trouble, LockTimeout, Cancel, FailAction, FailStart,
                StopUnheard
  <1> QED
    BY <1>1, <1>2, <1>3, <1>4 DEF Next

\* A daemon that restarts beside running nativewg tunnels and then starts, stops
\* and restarts them, in any interleaving, never keeps a wrong Running flag
\* (updateState and LoadState, orchestrator.go:613, 210): at rest the cache agrees
\* with NDMS.  LoadState may run in the middle of a user's start or stop, when
\* what it reads is about to change; the second half of that action then
\* corrects the entry.
THEOREM CacheFollowsRouter ==
    ASSUME WarmAlone
    PROVE  Spec => []CacheMatchesRouter
  <1> DEFINE Inv == NativeInv /\ CacheInv
  <1>1. Init => Inv
    <2> SUFFICES ASSUME Init
                 PROVE  CacheInv
      BY NativeInitially
    <2>1. /\ boot = "warm" /\ ~loaded
          /\ \A h \in Handlers : /\ pc[h] = "idle" /\ ev[h] = NoEvent
                                 /\ plan[h] = EmptyPlan /\ plan2[h] = EmptyPlan
      BY DEF Init, WarmAlone
    <2>2. ASSUME NEW t \in Tunnels PROVE live[t].conf = live[t].up
      <3>1. PICK on \in SUBSET Tunnels :
               live = [u \in Tunnels |-> [conf |-> u \in on,
                          up |-> u \in on /\ (BootKind = "warm" \/ NdmsAlone(u))]]
        BY DEF Init
      <3>2. live[t].conf = (t \in on)
        BY <3>1
      <3>3. live[t].up = (t \in on /\ (BootKind = "warm" \/ NdmsAlone(t)))
        BY <3>1
      <3>4. live[t].up = (t \in on)
        BY <3>3 DEF WarmAlone
      <3> QED
        BY <3>2, <3>4
    <2>3. NoEvent.kind = "none" /\ \A t \in Tunnels : EmptyPlan[t] \in Seq(Calm)
      BY DEF NoEvent, EmptyPlan
    <2>4. BeforeLoad
      BY <2>1, <2>2, <2>3 DEF BeforeLoad
    <2> QED
      BY <2>1, <2>4 DEF CacheInv
  <1>2. Inv /\ [Next]_vars => Inv'
    BY NativeInductive, CacheInductive DEF WarmAlone
  <1>3. Inv => CacheMatchesRouter
    <2> SUFFICES ASSUME Inv, Quiet, loaded, NEW t \in Tunnels
                 PROVE  cache[t].running = live[t].conf
      BY DEF CacheMatchesRouter
    <2>1. \A h \in Handlers : ~Switching(h, t)
      BY DEF Quiet, Switching
    <2> QED
      BY <2>1 DEF CacheInv, AfterLoad
  <1> QED
    BY <1>1, <1>2, <1>3, PTL DEF Spec

-----------------------------------------------------------------------------
(* Semaphores and deleted tunnels, deletes included *)

\* A tunnel that no delete has finished for since the daemon started: everyone
\* who awaits, waits for or holds its semaphore means the same entry of
\* o.tunnelMu, the one who executes holds it, and he is alone.
SameEntry ==
    \A h \in Handlers :
        (pc[h] \in {"await", "wait", "run", "busy"} /\ cleaned[job[h].tun] = 0) => job[h].gen = 0

EntryHeld ==
    \A h \in Handlers :
        (pc[h] \in Executing /\ cleaned[job[h].tun] = 0) => <<job[h].tun, 0>> \in full

AloneInEntry ==
    \A g, h \in Handlers :
        (g # h /\ pc[g] \in Executing /\ pc[h] \in Executing /\ cleaned[job[h].tun] = 0)
            => job[g].tun # job[h].tun

EntryInv == SameEntry /\ EntryHeld /\ AloneInEntry

\* Only h moves.
SoleStep(h) ==
    \A g \in Handlers \ {h} :
        pc'[g] = pc[g] /\ job'[g] = job[g] /\ plan'[g] = plan[g] /\ plan2'[g] = plan2[g]

\* What h may do to the semaphores, deletes included: step aside, go on
\* executing (and drop the tunnel's entry), release the entry the map holds
\* now, or take the one it found.
Latches(h) ==
    \/ /\ pc'[h] \notin Executing
       /\ pc'[h] \in {"await", "wait"} => job'[h].gen = cleaned[job'[h].tun]
       /\ \A t \in Tunnels : cleaned[t] = 0 => (<<t, 0>> \in full' <=> <<t, 0>> \in full)
       /\ cleaned' = cleaned
    \/ /\ pc[h] \in Executing /\ pc'[h] \in Executing
       /\ job'[h].tun = job[h].tun /\ job'[h].gen = job[h].gen
       /\ full' = full
       /\ cleaned' \in {cleaned, [cleaned EXCEPT ![job[h].tun] = @ + 1]}
    \/ /\ pc[h] \in Executing /\ pc'[h] = "pick"
       /\ full' = full \ {<<job[h].tun, cleaned[job[h].tun]>>}
       /\ cleaned' = cleaned
    \/ /\ pc[h] = "wait" /\ pc'[h] = "run"
       /\ job'[h].tun = job[h].tun /\ job'[h].gen = job[h].gen
       /\ <<job[h].tun, job[h].gen>> \notin full
       /\ full' = full \cup {<<job[h].tun, job[h].gen>>}
       /\ cleaned' = cleaned

\* The tunnel of a handler that needs one, and its count of deletes.
LEMMA TunnelAtHand ==
    ASSUME TypeInv, NEW h \in Handlers, pc[h] \in {"await", "wait", "run", "busy"}
    PROVE  /\ job[h].tun \in Tunnels /\ job[h].gen \in Nat
           /\ cleaned[job[h].tun] \in Nat
  BY DEF TypeInv, DesksTyped, BooksTyped, AtDesk, Job

\* Such a step keeps the entries of all handlers.
LEMMA LatchStep ==
    ASSUME TypeInv, TypeInv', EntryInv, NEW h \in Handlers, SoleStep(h), Latches(h)
    PROVE  EntryInv'
  <1> USE DEF Executing
  <1>0. /\ cleaned \in [Tunnels -> Nat] /\ cleaned' \in [Tunnels -> Nat]
        /\ \A g \in Handlers : pc[g] \in {"await", "wait", "run", "busy"} => job[g].tun \in Tunnels
        /\ \A g \in Handlers : pc'[g] \in {"await", "wait", "run", "busy"} => job'[g].tun \in Tunnels
    BY DEF TypeInv, BooksTyped, DesksTyped, AtDesk
  <1>1. ASSUME NEW t \in Tunnels, cleaned'[t] = 0 PROVE cleaned[t] = 0
    <2>1. CASE cleaned' = cleaned
      BY <1>1, <2>1
    <2>2. CASE cleaned' = [cleaned EXCEPT ![job[h].tun] = @ + 1]
      BY <1>0, <1>1, <2>2
    <2> QED
      BY <2>1, <2>2 DEF Latches
  <1>2. SameEntry'
    <2> SUFFICES ASSUME NEW g \in Handlers, pc'[g] \in {"await", "wait", "run", "busy"},
                        cleaned'[job'[g].tun] = 0
                 PROVE  job'[g].gen = 0
      BY DEF SameEntry
    <2>1. cleaned[job'[g].tun] = 0
      BY <1>0, <1>1
    <2>2. CASE g # h
      BY <2>1, <2>2 DEF SoleStep, EntryInv, SameEntry
    <2>3. CASE g = h
      BY <2>1, <2>3 DEF Latches, EntryInv, SameEntry
    <2> QED
      BY <2>2, <2>3
  <1>3. AloneInEntry'
    <2> SUFFICES ASSUME NEW g \in Handlers, NEW k \in Handlers, g # k,
                        pc'[g] \in Executing, pc'[k] \in Executing,
                        cleaned'[job'[k].tun] = 0, job'[g].tun = job'[k].tun
                 PROVE  FALSE
      BY DEF AloneInEntry
    <2>1. cleaned[job'[k].tun] = 0
      BY <1>0, <1>1
    <2>2. ASSUME NEW a \in Handlers, a # h, pc'[a] \in Executing, pc'[h] \in Executing,
                 job'[a].tun = job'[h].tun, cleaned[job'[a].tun] = 0
          PROVE  FALSE
      <3>1. pc[a] \in Executing /\ job'[a].tun = job[a].tun
        BY <2>2 DEF SoleStep
      <3>2. <<job[a].tun, 0>> \in full
        BY <2>2, <3>1 DEF EntryInv, EntryHeld
      <3>3. CASE pc[h] \in Executing
        BY <2>2, <3>1, <3>3 DEF Latches, EntryInv, AloneInEntry
      <3>4. CASE pc[h] \notin Executing
        <4>1. pc[h] = "wait" /\ job'[h].tun = job[h].tun /\ <<job[h].tun, job[h].gen>> \notin full
          BY <2>2, <3>4 DEF Latches
        <4>2. job[h].gen = 0
          BY <2>2, <4>1 DEF EntryInv, SameEntry
        <4> QED
          BY <2>2, <3>1, <3>2, <4>1, <4>2
      <3> QED
        BY <3>3, <3>4
    <2>3. CASE g = h
      BY <2>1, <2>2, <2>3
    <2>4. CASE k = h
      BY <2>1, <2>2, <2>4
    <2>5. CASE g # h /\ k # h
      BY <2>1, <2>5 DEF SoleStep, EntryInv, AloneInEntry
    <2> QED
      BY <2>3, <2>4, <2>5
  <1>4. EntryHeld'
    <2> SUFFICES ASSUME NEW g \in Handlers, pc'[g] \in Executing, cleaned'[job'[g].tun] = 0
                 PROVE  <<job'[g].tun, 0>> \in full'
      BY DEF EntryHeld
    <2>1. cleaned[job'[g].tun] = 0 /\ job'[g].tun \in Tunnels
      BY <1>0, <1>1
    <2>2. CASE g = h
      <3>1. CASE pc[h] \in Executing
        BY <2>1, <2>2, <3>1 DEF Latches, EntryInv, EntryHeld
      <3>2. CASE pc[h] \notin Executing
        BY <2>1, <2>2, <3>2 DEF Latches, EntryInv, SameEntry
      <3> QED
        BY <3>1, <3>2
    <2>3. CASE g # h
      <3>1. pc[g] \in Executing /\ job'[g].tun = job[g].tun
        BY <2>3 DEF SoleStep
      <3>2. <<job[g].tun, 0>> \in full
        BY <2>1, <3>1 DEF EntryInv, EntryHeld
      <3>3. pc[h] \in Executing => job[h].tun # job[g].tun
        BY <2>1, <2>3, <3>1 DEF EntryInv, AloneInEntry
      <3> QED
        BY <2>1, <3>1, <3>2, <3>3 DEF Latches
    <2> QED
      BY <2>2, <2>3
  <1> QED
    BY <1>2, <1>3, <1>4 DEF EntryInv

\* A handler's steps outside executeGroup.
LEMMA AsideLatches ==
    ASSUME TypeInv, EntryInv, NEW h \in Handlers,
           \/ Arrive(h) \/ Await(h) \/ SettleEnd(h) \/ EditEnd(h) \/ Resume(h) \/ SetEnabled(h)
           \/ RestoreEndpointTracking(h)
    PROVE  SoleStep(h) /\ Latches(h)
  <1> USE DEF Phase, Executing
  <1>0. pc \in [Handlers -> Phase] /\ job \in [Handlers -> Job] /\ cleaned \in [Tunnels -> Nat]
    BY DEF TypeInv, DesksTyped, BooksTyped
  <1>1. ASSUME NEW x \in Phase \ {"await", "wait", "run", "busy"}, NEW j,
               pc' = [pc EXCEPT ![h] = x], job' = [job EXCEPT ![h] = j] \/ job' = job,
               UNCHANGED <<plan, plan2, full, cleaned>>
        PROVE  SoleStep(h) /\ Latches(h)
    BY <1>0, <1>1 DEF SoleStep, Latches
  <1>2. CASE Arrive(h)
    <2>1. ASSUME NEW t \in Tunnels, UserEvent(h, t) PROVE SoleStep(h) /\ Latches(h)
      BY <1>1, <2>1 DEF UserEvent, lockVars
    <2>2. ASSUME NEW t \in Tunnels, EditBegin(h, t) PROVE SoleStep(h) /\ Latches(h)
      BY <1>1, <2>2 DEF EditBegin, lockVars
    <2>3. ASSUME NEW w \in WANs, WanSet(h, w) PROVE SoleStep(h) /\ Latches(h)
      BY <1>1, <2>3 DEF WanSet, lockVars
    <2>4. CASE Startup(h)
      <3>1. /\ pc[h] = "idle"
            /\ pc' = pc \/ pc' = [pc EXCEPT ![h] = "decide"]
            /\ UNCHANGED <<plan, plan2, job, full, cleaned>>
        BY <2>4, Zenon DEF Startup, lockVars
      <3>2. pc' = [pc EXCEPT ![h] = "idle"] \/ pc' = [pc EXCEPT ![h] = "decide"]
        BY <1>0, <3>1, <2>4 DEF Startup
      <3> QED
        BY <1>1, <3>1, <3>2
    <2>5. CASE Quiesce(h)
      BY <1>1, <2>5 DEF Quiesce, lockVars
    <2>6. ASSUME NEW k \in Hook, ExternalHook(h, k) PROVE SoleStep(h) /\ Latches(h)
      <3>1. k.tun \in Tunnels
        BY DEF Hook
      <3>2. /\ \E x \in {"await", "decide", "settle"} : pc' = [pc EXCEPT ![h] = x]
            /\ job' = [job EXCEPT ![h] = [NoJob EXCEPT !.tun = k.tun, !.gen = cleaned[k.tun]]]
            /\ plan' = plan /\ plan2' = plan2 /\ full' = full /\ cleaned' = cleaned
        BY <2>6 DEF ExternalHook, lockVars
      <3>3. job'[h].tun = k.tun /\ job'[h].gen = cleaned[k.tun]
        BY <1>0, <3>2 DEF NoJob
      <3>4. SoleStep(h)
        BY <1>0, <3>2 DEF SoleStep
      <3> QED
        BY <1>0, <3>1, <3>2, <3>3, <3>4 DEF Latches
    <2> QED
      BY <1>2, <2>1, <2>2, <2>3, <2>4, <2>5, <2>6 DEF Arrive
  <1>3. CASE Await(h)
    <2> DEFINE t == job[h].tun
    <2>1. /\ pc[h] = "await" /\ pc' = [pc EXCEPT ![h] = "decide"]
          /\ \/ /\ <<t, job[h].gen>> \notin full
                /\ full' = (full \cup {<<t, job[h].gen>>}) \ {<<t, cleaned[t]>>}
             \/ full' = full
          /\ plan' = plan /\ plan2' = plan2 /\ job' = job /\ cleaned' = cleaned
      BY <1>3 DEF Await
    <2>2. SoleStep(h)
      BY <1>0, <2>1 DEF SoleStep
    <2>3. ASSUME NEW u \in Tunnels, cleaned[u] = 0
          PROVE  <<u, 0>> \in full' <=> <<u, 0>> \in full
      <3>1. CASE u = t
        <4>1. job[h].gen = 0
          BY <2>1, <2>3, <3>1 DEF EntryInv, SameEntry
        <4> QED
          BY <2>1, <2>3, <3>1, <4>1
      <3>2. CASE u # t
        BY <2>1, <3>2
      <3> QED
        BY <3>1, <3>2
    <2>4. pc'[h] = "decide"
      BY <1>0, <2>1
    <2> QED
      BY <2>1, <2>2, <2>3, <2>4 DEF Latches
  <1>4. CASE SettleEnd(h)
    <2>1. /\ \/ pc' = [pc EXCEPT ![h] = "idle"] /\ job' = [job EXCEPT ![h] = NoJob]
             \/ pc' = [pc EXCEPT ![h] = "decide"] /\ job' = job
          /\ UNCHANGED <<plan, plan2, full, cleaned>>
      BY <1>4 DEF SettleEnd, lockVars
    <2> QED
      BY <1>1, <2>1
  <1>5. CASE EditEnd(h)
    BY <1>1, <1>5 DEF EditEnd, lockVars
  <1>6. CASE Resume(h)
    BY <1>1, <1>6 DEF Resume, lockVars
  <1>7. CASE SetEnabled(h)
    BY <1>1, <1>7 DEF SetEnabled, lockVars
  <1>8. CASE RestoreEndpointTracking(h)
    BY <1>1, <1>8 DEF RestoreEndpointTracking, lockVars
  <1> QED
    BY <1>2, <1>3, <1>4, <1>5, <1>6, <1>7, <1>8

\* executeGroup: deciding, taking and releasing the semaphore, giving up.
LEMMA GroupLatches ==
    ASSUME TypeInv, EntryInv, NEW h \in Handlers,
           \/ Decide(h) \/ \E t \in Tunnels : Pick(h, t)
           \/ lockTunnel(h) \/ LockTimeout(h) \/ Cancel(h) \/ unlockTunnel(h) \/ Return(h)
    PROVE  SoleStep(h) /\ Latches(h)
  <1> USE DEF Executing
  <1>0. /\ pc \in [Handlers -> Phase] /\ job \in [Handlers -> Job] /\ cleaned \in [Tunnels -> Nat]
        /\ plan = [g \in Handlers |-> plan[g]] /\ plan2 = [g \in Handlers |-> plan2[g]]
    BY DEF TypeInv, DesksTyped, BooksTyped
  <1>1. CASE Decide(h)
    <2>1. /\ \E x \in {"sweep", "pick"} : pc' = [pc EXCEPT ![h] = x]
          /\ \E p : plan' = [plan EXCEPT ![h] = p]
          /\ \E p : plan2' = [plan2 EXCEPT ![h] = p]
          /\ UNCHANGED <<job, full, cleaned>>
      BY <1>1 DEF Decide, lockVars
    <2> QED
      BY <1>0, <2>1 DEF SoleStep, Latches
  <1>2. ASSUME NEW t \in Tunnels, Pick(h, t) PROVE SoleStep(h) /\ Latches(h)
    <2>1. /\ pc' = [pc EXCEPT ![h] = "wait"]
          /\ job' = [job EXCEPT ![h] = [NoJob EXCEPT !.tun = t, !.gen = cleaned[t]]]
          /\ plan' = plan \/ \E p : plan' = [plan EXCEPT ![h] = p]
          /\ plan2' = plan2 \/ \E p : plan2' = [plan2 EXCEPT ![h] = p]
          /\ full' = full /\ cleaned' = cleaned
      BY <1>2 DEF Pick, lockVars
    <2>2. job'[h].tun = t /\ job'[h].gen = cleaned[t]
      BY <1>0, <2>1 DEF NoJob
    <2> QED
      BY <1>0, <2>1, <2>2 DEF SoleStep, Latches
  <1>3. CASE lockTunnel(h)
    BY <1>0, <1>3 DEF lockTunnel, SoleStep, Latches
  <1>4. CASE LockTimeout(h)
    BY <1>0, <1>4 DEF LockTimeout, SoleStep, Latches, lockVars
  <1>5. CASE Cancel(h)
    BY <1>0, <1>5 DEF Cancel, Drained, SoleStep, Latches
  <1>6. CASE unlockTunnel(h)
    BY <1>0, <1>6 DEF unlockTunnel, Drained, SoleStep, Latches
  <1>7. CASE Return(h)
    BY <1>0, <1>7 DEF Return, SoleStep, Latches, lockVars
  <1> QED
    BY <1>1, <1>2, <1>3, <1>4, <1>5, <1>6, <1>7

\* executeOne: one-step actions, the two halves of the long ones, failures.
LEMMA ActionLatches ==
    ASSUME TypeInv, NEW h \in Handlers,
           \/ OneStepAction(h) \/ FailAction(h)
           \/ Begin(h) \/ StopUnheard(h) \/ End(h) \/ FailStart(h)
    PROVE  SoleStep(h) /\ Latches(h)
  <1> USE DEF Executing
  <1>0. /\ pc \in [Handlers -> Phase] /\ job \in [Handlers -> Job] /\ cleaned \in [Tunnels -> Nat]
        /\ plan = [g \in Handlers |-> plan[g]]
    BY DEF TypeInv, DesksTyped, BooksTyped
  <1>1. CASE OneStepAction(h) \/ FailAction(h)
    <2>1. /\ pc[h] = "run" /\ plan' = Popped(h)
          /\ UNCHANGED <<pc, plan2, job, full, cleaned>>
      BY <1>1, Zenon DEF OneStepAction, ApplyRoutes, RemoveRoutes, Monitoring, Persist,
         NotFound, NoUpstream, SkipReconcile, FailAction, Running, lockVars
    <2> QED
      BY <1>0, <2>1 DEF Popped, SoleStep, Latches
  <1>2. CASE Begin(h) \/ StopUnheard(h)
    <2>1. /\ pc[h] = "run" /\ pc' = [pc EXCEPT ![h] = "busy"]
          /\ \E x : job' = [job EXCEPT ![h].snap = x]
          /\ UNCHANGED <<plan, plan2, full, cleaned>>
      BY <1>2 DEF Begin, StopUnheard, Drive, lockVars
    <2> QED
      BY <1>0, <2>1 DEF SoleStep, Latches, Job
  <1>3. CASE End(h) \/ FailStart(h)
    <2>1. /\ pc[h] = "busy" /\ pc' = [pc EXCEPT ![h] = "run"]
          /\ job' = [job EXCEPT ![h].snap = NoStored]
          /\ plan' = Popped(h)
          /\ cleaned' \in {cleaned, [cleaned EXCEPT ![job[h].tun] = @ + 1]}
          /\ plan2' = plan2 /\ full' = full
      BY <1>3 DEF End, FailStart, lockVars
    <2> QED
      BY <1>0, <2>1 DEF Popped, SoleStep, Latches, Job
  <1> QED
    BY <1>1, <1>2, <1>3

\* Whatever a handler does, it is the only one to move.
LEMMA HandlerLatches ==
    ASSUME TypeInv, EntryInv, NEW h \in Handlers, Arrive(h) \/ Progress(h) \/ Trouble(h)
    PROVE  SoleStep(h) /\ Latches(h)
  <1>1. CASE Arrive(h)
    BY <1>1, AsideLatches
  <1>2. CASE Progress(h)
    BY <1>2, AsideLatches, GroupLatches, ActionLatches DEF Progress
  <1>3. CASE Trouble(h)
    BY <1>3, GroupLatches, ActionLatches DEF Trouble
  <1> QED
    BY <1>1, <1>2, <1>3

\* No step of the system breaks the entries.
LEMMA EntriesInductive ==
    ASSUME TypeInv, EntryInv, [Next]_vars
    PROVE  TypeInv' /\ EntryInv'
  <1>0. TypeInv'
    BY TypesInductive
  <1>1. CASE Crash
    <2>1. pc' = [h \in Handlers |-> "idle"]
      BY <1>1 DEF Crash
    <2> QED
      BY <1>0, <2>1 DEF EntryInv, SameEntry, EntryHeld, AloneInEntry, Executing
  <1>2. CASE (Environment /\ ~Crash) \/ UNCHANGED vars
    <2>1. UNCHANGED <<pc, job, full, cleaned>>
      BY <1>2 DEF Environment, ToggleEnabled, ExtToggle, QuiescenceEnds, ExpireHook, ConsumeHook,
                  HookFault, lockVars, vars
    <2> QED
      BY <1>0, <2>1 DEF EntryInv, SameEntry, EntryHeld, AloneInEntry
  <1>3. ASSUME NEW h \in Handlers, Arrive(h) \/ Progress(h) \/ Trouble(h) PROVE EntryInv'
    BY <1>0, <1>3, HandlerLatches, LatchStep
  <1> QED
    BY <1>0, <1>1, <1>2, <1>3 DEF Next, Environment

LEMMA EntriesInitially == Init => EntryInv
  <1> SUFFICES ASSUME Init
               PROVE  EntryInv
    OBVIOUS
  <1>1. pc = [h \in Handlers |-> "idle"]
    BY DEF Init
  <1> QED
    BY <1>1 DEF EntryInv, SameEntry, EntryHeld, AloneInEntry, Executing

\* No unlock, timeout or cancelled request takes a semaphore away from the
\* handler that executes under it (unlockTunnel, orchestrator.go:507), until a
\* delete of that very tunnel drops its entry (cleanupTunnelLock): however many
\* handlers, tunnels, deletes of other tunnels, failures and restarts there are.
THEOREM SemaphoreStaysWithHolder == Spec => []HolderHasLock
  <1>1. EntryInv => HolderHasLock
    BY DEF EntryInv, SameEntry, EntryHeld, HolderHasLock, Executing
  <1> QED
    BY <1>1, TypesInitially, EntriesInitially, EntriesInductive, PTL DEF Spec

\* Deletes included: two handlers never execute actions of the same tunnel
\* unless a delete of that tunnel has dropped its semaphore (lockTunnel,
\* orchestrator.go:484, cleanupTunnelLock, orchestrator.go:518).
THEOREM ExclusiveUntilDeleted == Spec => []AloneInEntry
  <1>1. EntryInv => AloneInEntry
    BY DEF EntryInv
  <1> QED
    BY <1>1, TypesInitially, EntriesInitially, EntriesInductive, PTL DEF Spec

\* A plan that deletes ends with the delete, which follows the removal of the
\* routes; only the one who executes it is down to its last action.
DeletePlans == {<<"StopMonitoring", "DeleteRoutes", "Delete">>, <<"DeleteRoutes", "Delete">>,
                <<"Delete">>}

Ordered(p, q, j, ph) ==
    /\ \A t \in Tunnels :
          /\ p[t] \in Seq(Kept) \cup DeletePlans
          /\ p[t] = <<"Delete">> => ph \in Executing /\ j.tun = t
    /\ q \in PlansOf

PlanOrder == \A h \in Handlers : Ordered(plan[h], plan2[h], job[h], pc[h])

\* First action and rest of the plans that delete and of those that do not.
LEMMA DeleteTails ==
    /\ \A p \in DeletePlans : p # <<>> /\ Tail(p) \in DeletePlans \cup {<<>>}
    /\ \A p \in DeletePlans : Head(p) = "Delete" => p = <<"Delete">>
    /\ \A p \in DeletePlans : Tail(p) = <<"Delete">> => Head(p) = "DeleteRoutes"
    /\ \A p \in Seq(Kept) : p # <<>> => Head(p) # "Delete" /\ Tail(p) \in Seq(Kept)
    /\ <<"Delete">> \notin Seq(Kept)
    /\ Tail(<<"Delete">>) = <<>>
  <1>1. ASSUME NEW p \in DeletePlans
        PROVE  /\ p # <<>> /\ Tail(p) \in DeletePlans \cup {<<>>}
               /\ Head(p) = "Delete" => p = <<"Delete">>
               /\ Tail(p) = <<"Delete">> => Head(p) = "DeleteRoutes"
    <2>1. CASE p = <<"StopMonitoring", "DeleteRoutes", "Delete">>
      <3>1. Tail(p) = <<"DeleteRoutes", "Delete">> /\ Head(p) = "StopMonitoring" /\ p # <<>>
        BY <2>1
      <3>2. <<"DeleteRoutes", "Delete">> # <<"Delete">>
        OBVIOUS
      <3> QED
        BY <3>1, <3>2 DEF DeletePlans
    <2>2. CASE p = <<"DeleteRoutes", "Delete">>
      <3>1. Tail(p) = <<"Delete">> /\ Head(p) = "DeleteRoutes" /\ p # <<>>
        BY <2>2
      <3> QED
        BY <3>1 DEF DeletePlans
    <2>3. CASE p = <<"Delete">>
      <3>1. Tail(p) = <<>> /\ Head(p) = "Delete" /\ p # <<>>
        BY <2>3
      <3> QED
        BY <2>3, <3>1
    <2> QED
      BY <2>1, <2>2, <2>3 DEF DeletePlans
  <1>2. ASSUME NEW p \in Seq(Kept), p # <<>>
        PROVE  Head(p) # "Delete" /\ Tail(p) \in Seq(Kept)
    <2>1. Head(p) \in Kept /\ Tail(p) \in Seq(Kept)
      BY <1>2
    <2> QED
      BY <2>1 DEF Kept
  <1>3. <<"Delete">> \notin Seq(Kept) /\ Tail(<<"Delete">>) = <<>>
    <2>1. Head(<<"Delete">>) = "Delete" /\ <<"Delete">> # <<>>
      OBVIOUS
    <2>2. Tail(<<"Delete">>) = <<>>
      OBVIOUS
    <2>3. ASSUME <<"Delete">> \in Seq(Kept) PROVE FALSE
      <3>1. Head(<<"Delete">>) # "Delete"
        BY <1>2, <2>1, <2>3, Zenon
      <3> QED
        BY <2>1, <3>1, Zenon
    <2> QED
      BY <2>2, <2>3, Zenon
  <1> QED
    BY <1>1, <1>2, <1>3

\* Whatever a handler decides is ordered.
LEMMA DecidedInOrder ==
    ASSUME NEW e \in Event, NEW c, NEW j, NEW ph
    PROVE  /\ Ordered(decide(e, c), EmptyPlan, j, ph)
           /\ \A p \in decideWANDown(c, e.wan) : Ordered(p[1], p[2], j, ph)
  <1>1. ASSUME NEW p \in PlansOf, NEW q \in PlansOf PROVE Ordered(p, q, j, ph)
    BY DeleteTails DEF PlansOf, Ordered
  <1>2. EmptyPlan \in PlansOf
    BY DEF EmptyPlan, PlansOf
  <1>3. CASE e.kind # "delete"
    BY <1>1, <1>2, <1>3, PlansKept
  <1>4. CASE e.kind = "delete"
    <2>1. decide(e, c) = OnlyFor(e.tun, decideDelete(e.tun, c[e.tun]))
      BY <1>4 DEF decide
    <2>2. decideDelete(e.tun, c[e.tun]) \in
             {<<>>, <<"DeleteRoutes", "Delete">>, <<"StopMonitoring", "DeleteRoutes", "Delete">>}
      <3>1. <<>> \o <<"DeleteRoutes", "Delete">> = <<"DeleteRoutes", "Delete">>
        OBVIOUS
      <3>2. <<"StopMonitoring">> \o <<"DeleteRoutes", "Delete">>
               = <<"StopMonitoring", "DeleteRoutes", "Delete">>
        <4> DEFINE p == <<"StopMonitoring">> \o <<"DeleteRoutes", "Delete">>
                   q == <<"StopMonitoring", "DeleteRoutes", "Delete">>
        <4>1. /\ p \in Seq(ActionName) /\ Len(p) = 3
              /\ p[1] = "StopMonitoring" /\ p[2] = "DeleteRoutes" /\ p[3] = "Delete"
          BY ConcatProperties DEF ActionName, LongActions, ShortActions
        <4>2. /\ q \in Seq(ActionName) /\ Len(q) = 3
              /\ q[1] = "StopMonitoring" /\ q[2] = "DeleteRoutes" /\ q[3] = "Delete"
          BY DEF ActionName, LongActions, ShortActions
        <4> HIDE DEF p, q
        <4>3. \A i \in 1..Len(p) : p[i] = q[i]
          BY <4>1, <4>2
        <4>4. p = q
          BY <4>1, <4>2, <4>3, SeqEqual
        <4> QED
          BY <4>4 DEF p, q
      <3> QED
        BY <3>1, <3>2 DEF decideDelete, StopMonitoringIf
    <2>3. /\ <<>> # <<"Delete">> /\ <<"DeleteRoutes", "Delete">> # <<"Delete">>
          /\ <<"StopMonitoring", "DeleteRoutes", "Delete">> # <<"Delete">>
          /\ <<>> \in Seq(Kept)
      OBVIOUS
    <2>4. ASSUME NEW t \in Tunnels
          PROVE  decide(e, c)[t] \in Seq(Kept) \cup DeletePlans /\ decide(e, c)[t] # <<"Delete">>
      <3>1. decide(e, c)[t] \in {<<>>, decideDelete(e.tun, c[e.tun])}
        BY <2>1 DEF OnlyFor, EmptyPlan
      <3>2. CASE decide(e, c)[t] = <<>>
        BY <2>3, <3>2
      <3>3. CASE decide(e, c)[t] = decideDelete(e.tun, c[e.tun])
        BY <2>2, <2>3, <3>3 DEF DeletePlans
      <3> QED
        BY <3>1, <3>2, <3>3
    <2>5. Ordered(decide(e, c), EmptyPlan, j, ph)
      BY <1>2, <2>4 DEF Ordered
    <2>6. ASSUME NEW p \in decideWANDown(c, e.wan) PROVE Ordered(p[1], p[2], j, ph)
      <3> DEFINE f == [NoEvent EXCEPT !.wan = e.wan]
      <3>1. f.kind # "delete" /\ f.wan = e.wan
        BY DEF NoEvent
      <3> HIDE DEF f
      <3>2. p \in decideWANDown(c, f.wan)
        BY <3>1, <2>6
      <3> QED
        BY <1>1, <3>1, <3>2, PlansKept
    <2> QED
      BY <2>5, <2>6
  <1> QED
    BY <1>3, <1>4

\* One handler's step keeps the order if its own plan stays in order.
LEMMA OneInOrder ==
    ASSUME PlanOrder, NEW h \in Handlers, SoleStep(h),
           Ordered(plan'[h], plan2'[h], job'[h], pc'[h])
    PROVE  PlanOrder'
  <1> SUFFICES ASSUME NEW g \in Handlers
               PROVE  Ordered(plan'[g], plan2'[g], job'[g], pc'[g])
    BY DEF PlanOrder
  <1>1. CASE g = h
    BY <1>1
  <1>2. CASE g # h
    <2>1. pc'[g] = pc[g] /\ job'[g] = job[g] /\ plan'[g] = plan[g] /\ plan2'[g] = plan2[g]
      BY <1>2 DEF SoleStep
    <2> QED
      BY <2>1 DEF PlanOrder
  <1> QED
    BY <1>1, <1>2

\* A handler that keeps its plans, and goes on executing if it did.
LEMMA KeptInOrder ==
    ASSUME PlanOrder, NEW h \in Handlers, SoleStep(h), plan'[h] = plan[h], plan2'[h] = plan2[h],
           pc[h] \in Executing => pc'[h] \in Executing /\ job'[h].tun = job[h].tun
    PROVE  PlanOrder'
  <1>1. Ordered(plan[h], plan2[h], job[h], pc[h])
    BY DEF PlanOrder
  <1>2. Ordered(plan'[h], plan2'[h], job'[h], pc'[h])
    BY <1>1 DEF Ordered
  <1> QED
    BY <1>2, OneInOrder

\* A handler that is done with the first action of its group.
LEMMA PoppedInOrder ==
    ASSUME TypeInv, PlanOrder, NEW h \in Handlers, SoleStep(h), pc[h] \in Executing,
           plan[h][job[h].tun] # <<>>, plan' = Popped(h), plan2'[h] = plan2[h],
           pc'[h] \in Executing, job'[h].tun = job[h].tun
    PROVE  PlanOrder'
  <1> DEFINE t == job[h].tun
  <1>1. t \in Tunnels
    BY TunnelAtHand DEF Executing
  <1>2. Ordered(plan[h], plan2[h], job[h], pc[h])
    BY DEF PlanOrder
  <1>3. plan[h] = [u \in Tunnels |-> plan[h][u]] /\ plan = [g \in Handlers |-> plan[g]]
    BY DEF TypeInv, DesksTyped, FittingPlans
  <1>4. plan'[h] = [plan[h] EXCEPT ![t] = Tail(@)]
    BY <1>3 DEF Popped
  <1>5. plan'[h][t] = Tail(plan[h][t]) /\ \A u \in Tunnels \ {t} : plan'[h][u] = plan[h][u]
    BY <1>1, <1>3, <1>4
  <1>6. Tail(plan[h][t]) \in Seq(Kept) \cup DeletePlans
    <2>1. plan[h][t] \in Seq(Kept) \cup DeletePlans
      BY <1>1, <1>2 DEF Ordered
    <2>2. CASE plan[h][t] \in Seq(Kept)
      BY <2>2, DeleteTails
    <2>3. CASE plan[h][t] \in DeletePlans
      <3>1. <<>> \in Seq(Kept)
        OBVIOUS
      <3> QED
        BY <2>3, <3>1, DeleteTails
    <2> QED
      BY <2>1, <2>2, <2>3
  <1>7. Ordered(plan'[h], plan2'[h], job'[h], pc'[h])
    <2>1. ASSUME NEW u \in Tunnels
          PROVE  /\ plan'[h][u] \in Seq(Kept) \cup DeletePlans
                 /\ plan'[h][u] = <<"Delete">> => pc'[h] \in Executing /\ job'[h].tun = u
      <3>1. CASE u = t
        BY <1>5, <1>6, <3>1
      <3>2. CASE u # t
        BY <1>2, <1>5, <3>2 DEF Ordered
      <3> QED
        BY <3>1, <3>2
    <2>2. plan2'[h] \in PlansOf
      BY <1>2 DEF Ordered
    <2> QED
      BY <2>1, <2>2 DEF Ordered
  <1> QED
    BY <1>7, OneInOrder

\* No step of a handler breaks the order of its plans.
LEMMA OrderKept ==
    ASSUME TypeInv, EntryInv, PlanOrder, NEW h \in Handlers, Arrive(h) \/ Progress(h) \/ Trouble(h)
    PROVE  PlanOrder'
  <1> USE DEF Executing
  <1>0. /\ pc \in [Handlers -> Phase] /\ job \in [Handlers -> Job]
        /\ plan = [g \in Handlers |-> plan[g]] /\ plan2 = [g \in Handlers |-> plan2[g]]
        /\ ev \in [Handlers -> Event]
    BY DEF TypeInv, DesksTyped
  <1>s. SoleStep(h)
    BY HandlerLatches
  <1>e. EmptyPlan \in PlansOf /\ Ordered(EmptyPlan, EmptyPlan, job'[h], pc'[h])
    <2>1. EmptyPlan \in PlansOf
      BY DEF EmptyPlan, PlansOf
    <2>2. <<>> # <<"Delete">> /\ <<>> \in Seq(Kept)
      OBVIOUS
    <2> QED
      BY <2>1, <2>2 DEF Ordered, EmptyPlan
  <1>o. Ordered(plan[h], plan2[h], job[h], pc[h])
    BY DEF PlanOrder
  <1>1. CASE \/ Arrive(h) \/ Await(h) \/ SettleEnd(h) \/ EditEnd(h) \/ Resume(h) \/ SetEnabled(h)
             \/ RestoreEndpointTracking(h) \/ lockTunnel(h) \/ Return(h)
    <2>1. pc[h] \notin Executing /\ plan' = plan /\ plan2' = plan2
      BY <1>1 DEF Arrive, UserEvent, EditBegin, WanSet, Startup, Quiesce, ExternalHook, Await,
                  SettleEnd, EditEnd, Resume, SetEnabled, RestoreEndpointTracking, lockTunnel, Return
    <2> QED
      BY <1>s, <2>1, KeptInOrder
  <1>2. CASE Decide(h)
    <2> DEFINE c == IF ev[h].kind = "hook" THEN cache ELSE ensureTunnel(ev[h].tun, cache)
    <2>1. PICK p \in IF ev[h].kind = "wandown" THEN decideWANDown(c, ev[h].wan)
                     ELSE {<<decide(ev[h], c), EmptyPlan>>} :
             plan' = [plan EXCEPT ![h] = p[1]] /\ plan2' = [plan2 EXCEPT ![h] = p[2]]
      BY <1>2 DEF Decide
    <2>2. Ordered(p[1], p[2], job'[h], pc'[h])
      <3> HIDE DEF c
      <3>1. ev[h] \in Event
        BY <1>0
      <3>2. CASE ev[h].kind = "wandown"
        BY <2>1, <3>1, <3>2, DecidedInOrder
      <3>3. CASE ev[h].kind # "wandown"
        <4>1. p[1] = decide(ev[h], c) /\ p[2] = EmptyPlan
          BY <2>1, <3>3
        <4> QED
          BY <3>1, <4>1, DecidedInOrder
      <3> QED
        BY <3>2, <3>3
    <2>3. plan'[h] = p[1] /\ plan2'[h] = p[2]
      BY <1>0, <2>1
    <2> QED
      BY <1>s, <2>2, <2>3, OneInOrder
  <1>3. ASSUME NEW t \in Tunnels, Pick(h, t) PROVE PlanOrder'
    <2>1. \/ plan'[h] = plan[h] /\ plan2'[h] = plan2[h]
          \/ plan'[h] = plan2[h] /\ plan2'[h] = EmptyPlan
      BY <1>0, <1>3 DEF Pick
    <2>2. pc[h] \notin Executing
      BY <1>3 DEF Pick
    <2>3. CASE plan'[h] = plan[h] /\ plan2'[h] = plan2[h]
      BY <1>s, <2>2, <2>3, KeptInOrder
    <2>4. CASE plan'[h] = plan2[h] /\ plan2'[h] = EmptyPlan
      <3>1. Ordered(plan2[h], EmptyPlan, job'[h], pc'[h])
        BY <1>o, <1>e, DeleteTails DEF Ordered, PlansOf
      <3> QED
        BY <1>s, <2>4, <3>1, OneInOrder
    <2> QED
      BY <2>1, <2>3, <2>4
  <1>4. CASE LockTimeout(h)
    <2>1. /\ pc[h] = "wait" /\ plan' = [plan EXCEPT ![h][job[h].tun] = <<>>] /\ plan2' = plan2
      BY <1>4 DEF LockTimeout
    <2>2. \A t \in Tunnels : plan'[h][t] \in {<<>>, plan[h][t]}
      <3>1. plan[h] = [u \in Tunnels |-> plan[h][u]]
        BY DEF TypeInv, DesksTyped, FittingPlans
      <3> QED
        BY <1>0, <2>1, <3>1
    <2>3. <<>> # <<"Delete">> /\ <<>> \in Seq(Kept)
      OBVIOUS
    <2>4. Ordered(plan'[h], plan2'[h], job'[h], pc'[h])
      BY <1>o, <2>1, <2>2, <2>3 DEF Ordered
    <2> QED
      BY <1>s, <2>4, OneInOrder
  <1>5. CASE Cancel(h)
    <2>1. plan'[h] = EmptyPlan /\ plan2'[h] = EmptyPlan
      BY <1>0, <1>5 DEF Cancel
    <2> QED
      BY <1>e, <1>s, <2>1, OneInOrder
  <1>6. CASE unlockTunnel(h)
    <2>1. pc[h] = "run" /\ plan[h][job[h].tun] = <<>> /\ plan' = plan /\ plan2' = plan2
      BY <1>6 DEF unlockTunnel
    <2>2. <<>> # <<"Delete">>
      OBVIOUS
    <2>3. Ordered(plan'[h], plan2'[h], job'[h], pc'[h])
      BY <1>o, <2>1, <2>2 DEF Ordered
    <2> QED
      BY <1>s, <2>3, OneInOrder
  <1>7. CASE OneStepAction(h) \/ FailAction(h)
    <2>1. /\ pc[h] = "run" /\ plan[h][job[h].tun] # <<>> /\ plan' = Popped(h)
          /\ UNCHANGED <<pc, plan2, job>>
      BY <1>7, Zenon DEF OneStepAction, ApplyRoutes, RemoveRoutes, Monitoring, Persist,
         NotFound, NoUpstream, SkipReconcile, FailAction, Running
    <2> QED
      BY <1>s, <2>1, PoppedInOrder
  <1>8. CASE Begin(h) \/ StopUnheard(h)
    <2>1. /\ plan' = plan /\ plan2' = plan2 /\ pc' = [pc EXCEPT ![h] = "busy"]
          /\ \E x : job' = [job EXCEPT ![h].snap = x]
      BY <1>8 DEF Begin, StopUnheard, Drive
    <2>2. pc'[h] = "busy" /\ job'[h].tun = job[h].tun
      BY <1>0, <2>1 DEF Job
    <2> QED
      BY <1>s, <2>1, <2>2, KeptInOrder
  <1>9. CASE End(h) \/ FailStart(h)
    <2>1. /\ pc[h] = "busy" /\ plan' = Popped(h) /\ plan2' = plan2
          /\ pc' = [pc EXCEPT ![h] = "run"] /\ job' = [job EXCEPT ![h].snap = NoStored]
      BY <1>9 DEF End, FailStart
    <2>2. pc'[h] = "run" /\ job'[h].tun = job[h].tun
      BY <1>0, <2>1 DEF Job
    <2>3. plan[h][job[h].tun] # <<>>
      BY <2>1 DEF TypeInv, DesksTyped, AtDesk
    <2> QED
      BY <1>s, <2>1, <2>2, <2>3, PoppedInOrder
  <1> QED
    BY <1>1, <1>2, <1>3, <1>4, <1>5, <1>6, <1>7, <1>8, <1>9 DEF Progress, Trouble

\* Nothing has failed, and nobody else has touched an interface.
Unspoiled == used.fails = 0 /\ used.ext = 0

Traceless(t) == ~live[t].conf /\ ~cache[t].known /\ ~routes[t]

\* What the long action that h is in has already seen or done.
Claims(h) ==
    /\ pc[h] = "busy" => Act(h) \in LongActions
    /\ (pc[h] = "busy" /\ Act(h) # "StopKernel") => store[job[h].tun].exists /\ job[h].snap.exists
    /\ (pc[h] = "busy" /\ Act(h) = "Delete") => ~live[job[h].tun].conf
    /\ (pc[h] \in Executing /\ plan[h][job[h].tun] = <<"Delete">>) => ~routes[job[h].tun]

\* A stored tunnel still has its first semaphore, one that is not stored has
\* left no trace, and the claims hold.
DeleteInv ==
    /\ \A t \in Tunnels : store[t].exists => cleaned[t] = 0
    /\ \A t \in Tunnels : ~store[t].exists => Traceless(t)
    /\ \A h \in Handlers : Claims(h)

NoEdits == \A h \in Handlers : pc[h] # "edit"

GoneInv == NoEdits /\ PlanOrder /\ (Unspoiled => DeleteInv)

\* A step of h that neither stores nor deletes a tunnel, leaves no trace of one
\* that is gone, and brings up only the tunnel that h executes.
Harmless(h) ==
    /\ cleaned' = cleaned
    /\ \A t \in Tunnels : store'[t].exists = store[t].exists
    /\ \A t \in Tunnels : ~store[t].exists =>
          /\ live'[t].conf => live[t].conf
          /\ cache'[t].known => cache[t].known
          /\ routes'[t] => routes[t]
    /\ \A t \in Tunnels : ~(pc[h] \in Executing /\ job[h].tun = t) =>
          /\ live'[t].conf => live[t].conf
          /\ routes'[t] => routes[t]

\* The claims of the others survive a step of h that keeps the stored tunnels.
LEMMA OthersClaim ==
    ASSUME TypeInv, EntryInv, DeleteInv, NEW h \in Handlers, SoleStep(h), Harmless(h),
           NEW g \in Handlers \ {h}
    PROVE  Claims(g)'
  <1> USE DEF Executing
  <1>0. pc'[g] = pc[g] /\ job'[g] = job[g] /\ plan'[g] = plan[g] /\ Act(g)' = Act(g) /\ Claims(g)
    BY DEF SoleStep, Act, DeleteInv
  <1>1. ASSUME pc[g] \in Executing, store[job[g].tun].exists
        PROVE  /\ job[g].tun \in Tunnels
               /\ live'[job[g].tun].conf => live[job[g].tun].conf
               /\ routes'[job[g].tun] => routes[job[g].tun]
    <2>1. job[g].tun \in Tunnels
      BY <1>1, TunnelAtHand
    <2>2. cleaned[job[g].tun] = 0
      BY <1>1, <2>1 DEF DeleteInv
    <2>3. ~(pc[h] \in Executing /\ job[h].tun = job[g].tun)
      BY <1>1, <2>2 DEF EntryInv, AloneInEntry
    <2> QED
      BY <2>1, <2>3 DEF Harmless
  <1>2. pc[g] \in Executing => job[g].tun \in Tunnels
    BY TunnelAtHand
  <1>3. (pc[g] = "busy" /\ Act(g) # "StopKernel")
            => store'[job[g].tun].exists /\ job[g].snap.exists
    BY <1>0, <1>2 DEF Claims, Harmless
  <1>4. (pc[g] = "busy" /\ Act(g) = "Delete") => ~live'[job[g].tun].conf
    BY <1>0, <1>1 DEF Claims
  <1>5. (pc[g] \in Executing /\ plan[g][job[g].tun] = <<"Delete">>) => ~routes'[job[g].tun]
    <2> SUFFICES ASSUME pc[g] \in Executing, plan[g][job[g].tun] = <<"Delete">>
                 PROVE  ~routes'[job[g].tun]
      OBVIOUS
    <2>1. ~routes[job[g].tun]
      BY <1>0 DEF Claims
    <2>2. CASE store[job[g].tun].exists
      BY <1>1, <2>1, <2>2
    <2>3. CASE ~store[job[g].tun].exists
      BY <1>2, <2>1, <2>3 DEF Harmless
    <2> QED
      BY <2>2, <2>3
  <1> QED
    BY <1>0, <1>3, <1>4, <1>5 DEF Claims

\* A harmless step of h keeps the invariant if h can claim what it should.
LEMMA HarmlessKeeps ==
    ASSUME TypeInv, EntryInv, DeleteInv, NEW h \in Handlers, SoleStep(h), Harmless(h), Claims(h)'
    PROVE  DeleteInv'
  <1>1. \A t \in Tunnels : store'[t].exists => cleaned'[t] = 0
    BY DEF DeleteInv, Harmless
  <1>2. ASSUME NEW t \in Tunnels, ~store'[t].exists PROVE Traceless(t)'
    BY <1>2 DEF DeleteInv, Harmless, Traceless
  <1>3. ASSUME NEW g \in Handlers PROVE Claims(g)'
    BY <1>3, OthersClaim
  <1> QED
    BY <1>1, <1>2, <1>3 DEF DeleteInv

\* Bounds are only ever used up.
LEMMA UsedGrows ==
    ASSUME TypeInv, [Next]_vars, Unspoiled'
    PROVE  Unspoiled
  <1> USE DEF TypeInv, BooksTyped
  <1>1. CASE LoadState
    <2>1. PICK bad \in SUBSET Tunnels :
             used' = [used EXCEPT !.fails = @ + Cardinality(bad), !.events = @ + 1]
      BY <1>1 DEF LoadState
    <2>2. Cardinality(bad) \in Nat
      BY <2>1, DecideAssumption, FS_Subset, FS_CardinalityType
    <2> QED
      BY <2>1, <2>2 DEF Unspoiled
  <1>2. CASE used' \in {used, [used EXCEPT !.events = @ + 1], [used EXCEPT !.giveUps = @ + 1],
                        [used EXCEPT !.fails = @ + 1], [used EXCEPT !.ext = @ + 1]}
    BY <1>2 DEF Unspoiled
  <1>3. ASSUME NEW h \in Handlers, Arrive(h)
        PROVE  LoadState \/ used' \in {used, [used EXCEPT !.events = @ + 1]}
    BY <1>3, Zenon DEF Arrive, UserEvent, EditBegin, WanSet, Startup, Quiesce, ExternalHook, Spend
  <1>4. ASSUME NEW h \in Handlers, Progress(h)
        PROVE  LoadState \/ used' \in {used, [used EXCEPT !.giveUps = @ + 1], [used EXCEPT !.fails = @ + 1]}
    BY <1>4, Zenon DEF Progress, Await, SettleEnd, Decide, RestoreEndpointTracking, Pick, lockTunnel,
         unlockTunnel, Return, SetEnabled, OneStepAction, ApplyRoutes, RemoveRoutes, Monitoring,
         Persist, NotFound, NoUpstream, SkipReconcile, Begin, End, EditEnd, Resume
  <1>5. ASSUME NEW h \in Handlers, Trouble(h)
        PROVE  used' \in {[used EXCEPT !.giveUps = @ + 1], [used EXCEPT !.fails = @ + 1]}
    BY <1>5, Zenon DEF Trouble, LockTimeout, Cancel, FailAction, FailStart, StopUnheard
  <1>6. ASSUME Environment \/ UNCHANGED vars
        PROVE  used' \in {used, [used EXCEPT !.events = @ + 1], [used EXCEPT !.fails = @ + 1],
                          [used EXCEPT !.ext = @ + 1]}
    BY <1>6, Zenon DEF Environment, ToggleEnabled, ExtToggle, QuiescenceEnds, ExpireHook,
         ConsumeHook, HookFault, Crash, Spend, vars
  <1> QED
    BY <1>1, <1>2, <1>3, <1>4, <1>5, <1>6 DEF Next

\* Loading the state finds only what is stored.
LEMMA LoadedKnown ==
    ASSUME TypeInv, LoadState, NEW t \in Tunnels, ~store[t].exists
    PROVE  cache'[t].known = cache[t].known
  <1>1. PICK bad \in SUBSET Tunnels : cache' = LoadedCache(bad)
    BY DEF LoadState
  <1> QED
    BY <1>1 DEF LoadedCache

\* What a step leaves of a tunnel when it touches neither router nor routes.
LEMMA SameRouter ==
    ASSUME NEW h \in Handlers, UNCHANGED <<live, routes, cleaned>>,
           \A t \in Tunnels : store'[t].exists = store[t].exists,
           \A t \in Tunnels : ~store[t].exists => (cache'[t].known => cache[t].known)
    PROVE  Harmless(h)
  BY DEF Harmless

\* A handler's steps outside executeOne.
LEMMA FramesKeepGone ==
    ASSUME TypeInv, EntryInv, PlanOrder, NoEdits, DeleteInv, "edit" \notin Kinds,
           NEW h \in Handlers,
           \/ Arrive(h) \/ Await(h) \/ SettleEnd(h) \/ EditEnd(h) \/ Resume(h) \/ SetEnabled(h)
           \/ RestoreEndpointTracking(h)
           \/ Decide(h) \/ \E t \in Tunnels : Pick(h, t)
           \/ lockTunnel(h) \/ LockTimeout(h) \/ Cancel(h) \/ unlockTunnel(h) \/ Return(h)
    PROVE  DeleteInv' /\ pc'[h] # "edit"
  <1> USE DEF Executing, routerVars, lockVars
  <1>0. /\ pc \in [Handlers -> Phase] /\ store \in [Tunnels -> Stored]
        /\ cache \in [Tunnels -> TunnelState]
    BY DEF TypeInv, DesksTyped, WorldTyped
  <1>s. SoleStep(h)
    BY HandlerLatches DEF Progress, Trouble
  <1>1. ASSUME Harmless(h), pc'[h] \notin Executing \cup {"edit"}
        PROVE  DeleteInv' /\ pc'[h] # "edit"
    <2>1. Claims(h)'
      BY <1>1 DEF Claims
    <2> QED
      BY <1>1, <1>s, <2>1, HarmlessKeeps
  <1>2. CASE \/ \E t \in Tunnels : UserEvent(h, t)
             \/ \E w \in WANs : WanSet(h, w)
             \/ \E k \in Hook : ExternalHook(h, k)
             \/ Await(h) \/ SettleEnd(h)
             \/ \E t \in Tunnels : Pick(h, t)
             \/ LockTimeout(h) \/ Cancel(h) \/ unlockTunnel(h) \/ Return(h)
    <2>1. /\ store' = store /\ cache' = cache /\ live' = live /\ routes' = routes
          /\ cleaned' = cleaned
      BY <1>2 DEF UserEvent, WanSet, ExternalHook, Await, SettleEnd, Pick, LockTimeout, Cancel,
                  unlockTunnel, Return
    <2>2. \E x \in {"decide", "await", "settle", "idle", "wait", "pick", "flip", "backup"} :
             pc' = [pc EXCEPT ![h] = x]
      BY <1>2 DEF UserEvent, WanSet, ExternalHook, Await, SettleEnd, Pick, LockTimeout, Cancel,
                  unlockTunnel, Return
    <2>3. pc'[h] \notin Executing \cup {"edit"}
      BY <1>0, <2>2
    <2> QED
      BY <1>1, <2>1, <2>3, SameRouter
  <1>3. CASE Startup(h)
    <2>1. /\ store' = store /\ live' = live /\ routes' = routes /\ cleaned' = cleaned
          /\ LoadState \/ cache' = cache
      BY <1>3 DEF Startup
    <2>2. pc'[h] \in {"idle", "decide"}
      BY <1>0, <1>3 DEF Startup
    <2>3. Harmless(h)
      BY <2>1, LoadedKnown, SameRouter
    <2> QED
      BY <1>1, <2>2, <2>3
  <1>4. CASE Quiesce(h) \/ Resume(h)
    <2>1. /\ store' = store /\ live' = live /\ routes' = routes /\ cleaned' = cleaned /\ LoadState
      BY <1>4 DEF Quiesce, Resume
    <2>2. pc'[h] = "decide"
      BY <1>0, <1>4 DEF Quiesce, Resume
    <2>3. Harmless(h)
      BY <2>1, LoadedKnown, SameRouter
    <2> QED
      BY <1>1, <2>2, <2>3
  <1>5. CASE SetEnabled(h)
    <2>1. /\ \E x : store' = [store EXCEPT ![ev[h].tun].enabled = x]
          /\ cache' = cache /\ live' = live /\ routes' = routes /\ cleaned' = cleaned
      BY <1>5 DEF SetEnabled
    <2>2. pc'[h] = "idle"
      BY <1>0, <1>5 DEF SetEnabled
    <2>3. \A t \in Tunnels : store'[t].exists = store[t].exists
      BY <1>0, <2>1 DEF Stored
    <2>4. Harmless(h)
      BY <2>1, <2>3, SameRouter
    <2> QED
      BY <1>1, <2>2, <2>4
  <1>6. CASE RestoreEndpointTracking(h)
    <2>1. /\ store' = [t \in Tunnels |->
                          IF t \in KernelTunnels /\ store[t].exists /\ ~live[t].up
                          THEN [store[t] EXCEPT !.activeWAN = NoWAN] ELSE store[t]]
          /\ cache' = cache /\ live' = live /\ routes' = routes /\ cleaned' = cleaned
      BY <1>6 DEF RestoreEndpointTracking
    <2>2. pc'[h] = "pick"
      BY <1>0, <1>6 DEF RestoreEndpointTracking
    <2>3. \A t \in Tunnels : store'[t].exists = store[t].exists
      BY <1>0, <2>1 DEF Stored
    <2>4. Harmless(h)
      BY <2>1, <2>3, SameRouter
    <2> QED
      BY <1>1, <2>2, <2>4
  <1>7. CASE Decide(h)
    <2>1. /\ store' = store /\ live' = live /\ routes' = routes /\ cleaned' = cleaned
          /\ cache' \in {cache, ensureTunnel(ev[h].tun, cache)}
      BY <1>7 DEF Decide
    <2>2. pc'[h] \in {"sweep", "pick"}
      BY <1>0, <1>7 DEF Decide
    <2>3. \A t \in Tunnels : ~store[t].exists => (cache'[t].known => cache[t].known)
      BY <1>0, <2>1 DEF ensureTunnel
    <2>4. Harmless(h)
      BY <2>1, <2>3, SameRouter
    <2> QED
      BY <1>1, <2>2, <2>4
  <1>8. CASE lockTunnel(h)
    <2>1. /\ store' = store /\ cache' = cache /\ live' = live /\ routes' = routes
          /\ cleaned' = cleaned /\ plan' = plan /\ job' = job
          /\ pc[h] = "wait" /\ pc' = [pc EXCEPT ![h] = "run"]
      BY <1>8 DEF lockTunnel
    <2>2. pc'[h] = "run"
      BY <1>0, <2>1
    <2>3. job[h].tun \in Tunnels
      BY <2>1, TunnelAtHand
    <2>4. plan'[h][job'[h].tun] # <<"Delete">>
      BY <2>1, <2>3 DEF PlanOrder, Ordered
    <2>5. Claims(h)'
      BY <2>2, <2>4 DEF Claims
    <2>6. Harmless(h)
      BY <2>1, SameRouter
    <2> QED
      BY <1>s, <2>2, <2>5, <2>6, HarmlessKeeps
  <1>9. ~EditEnd(h) /\ ~ \E t \in Tunnels : EditBegin(h, t)
    BY DEF EditEnd, EditBegin, NoEdits
  <1> QED
    BY <1>2, <1>3, <1>4, <1>5, <1>6, <1>7, <1>8, <1>9 DEF Arrive

\* updateState adds no tunnel to the map, and takes a deleted one out.
LEMMA UpdatedKnown ==
    ASSUME NEW c \in TunnelState, NEW a, NEW s
    PROVE  /\ updateState(c, a, s).known => c.known
           /\ a = "Delete" => ~updateState(c, a, s).known
  BY DEF updateState, TunnelState, Unknown, StartActions, StopActions

\* Only the removal of the routes leads up to the delete.
LEMMA LastBeforeDelete ==
    ASSUME TypeInv, PlanOrder, NEW h \in Handlers, pc[h] \in Executing,
           plan[h][job[h].tun] # <<>>, plan' = Popped(h)
    PROVE  /\ plan'[h][job[h].tun] = <<"Delete">> => Act(h) = "DeleteRoutes"
           /\ Act(h) = "Delete" => plan[h][job[h].tun] = <<"Delete">> /\ plan'[h][job[h].tun] = <<>>
  <1> DEFINE t == job[h].tun
  <1>1. t \in Tunnels
    BY TunnelAtHand DEF Executing
  <1>2. plan'[h][t] = Tail(plan[h][t])
    BY <1>1 DEF TypeInv, DesksTyped, FittingPlans, Popped
  <1>3. plan[h][t] \in Seq(Kept) \cup DeletePlans
    BY <1>1 DEF PlanOrder, Ordered
  <1>4. CASE plan[h][t] \in Seq(Kept)
    <2>1. Head(plan[h][t]) # "Delete" /\ Tail(plan[h][t]) \in Seq(Kept)
      BY <1>4, DeleteTails
    <2>2. Tail(plan[h][t]) # <<"Delete">>
      BY <2>1, DeleteTails
    <2> QED
      BY <1>2, <2>1, <2>2 DEF Act
  <1>5. CASE plan[h][t] \in DeletePlans
    BY <1>2, <1>5, DeleteTails DEF Act
  <1> QED
    BY <1>3, <1>4, <1>5

\* executeOne: the actions that take one step.
LEMMA ShortKeepsGone ==
    ASSUME TypeInv, EntryInv, PlanOrder, DeleteInv, NEW h \in Handlers, OneStepAction(h)
    PROVE  DeleteInv' /\ pc'[h] = "run"
  <1> USE DEF Executing, routerVars, lockVars
  <1> DEFINE t == job[h].tun
  <1>0. /\ store \in [Tunnels -> Stored] /\ cache \in [Tunnels -> TunnelState]
        /\ routes \in [Tunnels -> BOOLEAN]
    BY DEF TypeInv, WorldTyped
  <1>s. SoleStep(h)
    BY HandlerLatches DEF Progress
  <1>1. /\ pc[h] = "run" /\ plan[h][t] # <<>> /\ plan' = Popped(h)
        /\ pc' = pc /\ job' = job /\ live' = live /\ cleaned' = cleaned
    BY Zenon DEF OneStepAction, ApplyRoutes, RemoveRoutes, Monitoring, Persist,
         NotFound, NoUpstream, SkipReconcile, Running
  <1>2. t \in Tunnels
    BY <1>1, TunnelAtHand
  <1>3. plan'[h][t] = <<"Delete">> => Act(h) = "DeleteRoutes"
    BY <1>1, LastBeforeDelete
  <1>4. ASSUME Act(h) # "DeleteRoutes" \/ ~routes'[t], Harmless(h)
        PROVE  DeleteInv' /\ pc'[h] = "run"
    <2>1. Claims(h)'
      BY <1>1, <1>3, <1>4 DEF Claims
    <2> QED
      BY <1>1, <1>4, <1>s, <2>1, HarmlessKeeps
  <1>5. CASE ApplyRoutes(h)
    <2>1. Act(h) = "ApplyRoutes" /\ routes' = [routes EXCEPT ![t] = store[t].exists]
      BY <1>5 DEF ApplyRoutes, Running
    <2>2. store' = store /\ cache' = cache
      BY <1>5 DEF ApplyRoutes
    <2>3. Harmless(h)
      BY <1>0, <1>1, <1>2, <2>1, <2>2 DEF Harmless
    <2> QED
      BY <1>4, <2>1, <2>3
  <1>6. CASE RemoveRoutes(h)
    <2>1. store' = store /\ cache' = cache /\ routes' = [routes EXCEPT ![t] = FALSE]
      BY <1>6 DEF RemoveRoutes
    <2>2. ~routes'[t] /\ Harmless(h)
      BY <1>0, <1>1, <1>2, <2>1 DEF Harmless
    <2> QED
      BY <1>4, <2>2
  <1>7. CASE Monitoring(h) \/ SkipReconcile(h)
    <2>1. /\ store' = store /\ routes' = routes
          /\ \E a, s : cache' = [cache EXCEPT ![t] = updateState(@, a, s)]
      BY <1>7 DEF Monitoring, SkipReconcile
    <2>2. Act(h) # "DeleteRoutes"
      BY <1>7 DEF Monitoring, SkipReconcile, Running
    <2>3. \A u \in Tunnels : cache'[u].known => cache[u].known
      BY <1>0, <2>1, UpdatedKnown
    <2>4. Harmless(h)
      BY <1>1, <2>1, <2>3, SameRouter
    <2> QED
      BY <1>4, <2>2, <2>4
  <1>8. CASE Persist(h)
    <2>1. /\ cache' = cache /\ routes' = routes
          /\ store' = [store EXCEPT ![t] =
                    IF Act(h) = "PersistRunning" THEN [@ EXCEPT !.enabled = TRUE]
                    ELSE [@ EXCEPT !.enabled = FALSE, !.activeWAN = NoWAN]]
      BY <1>8 DEF Persist
    <2>2. Act(h) # "DeleteRoutes"
      BY <1>8 DEF Persist, Running
    <2>3. \A u \in Tunnels : store'[u].exists = store[u].exists
      BY <1>0, <2>1 DEF Stored
    <2>4. Harmless(h)
      BY <1>1, <2>1, <2>3, SameRouter
    <2> QED
      BY <1>4, <2>2, <2>4
  <1>9. CASE NotFound(h) \/ NoUpstream(h)
    <2>1. store' = store /\ cache' = cache /\ routes' = routes
      BY <1>9 DEF NotFound, NoUpstream
    <2>2. Act(h) # "DeleteRoutes"
      BY <1>9 DEF NotFound, NoUpstream, Running, LongActions, StartActions, StopActions, ResolvedWANs
    <2>3. Harmless(h)
      BY <1>1, <2>1, SameRouter
    <2> QED
      BY <1>4, <2>2, <2>3
  <1> QED
    BY <1>5, <1>6, <1>7, <1>8, <1>9 DEF OneStepAction

\* executeOne: the first half of a long action.
LEMMA BeginKeepsGone ==
    ASSUME TypeInv, EntryInv, PlanOrder, DeleteInv, NEW h \in Handlers, Begin(h)
    PROVE  DeleteInv' /\ pc'[h] = "busy"
  <1> USE DEF Executing
  <1> DEFINE t == job[h].tun
  <1>0. /\ store \in [Tunnels -> Stored] /\ live \in [Tunnels -> [conf : BOOLEAN, up : BOOLEAN]]
        /\ pc \in [Handlers -> Phase] /\ job \in [Handlers -> Job]
    BY DEF TypeInv, WorldTyped, DesksTyped
  <1>s. SoleStep(h)
    BY HandlerLatches DEF Progress
  <1>1. /\ pc[h] = "run" /\ plan[h][t] # <<>> /\ Act(h) \in LongActions
        /\ store[t].exists \/ Act(h) = "StopKernel"
        /\ \E w \in ResolvedWANs(t, Act(h)) :
              job' = [job EXCEPT ![h].snap = [store[t] EXCEPT !.activeWAN = w]]
        /\ live' = [live EXCEPT ![t] = LiveAfter(Act(h), live[t])]
        /\ pc' = [pc EXCEPT ![h] = "busy"]
        /\ store' = store /\ cache' = cache /\ routes' = routes /\ cleaned' = cleaned
        /\ plan' = plan
    BY DEF Begin, Drive, lockVars
  <1>2. t \in Tunnels
    BY <1>1, TunnelAtHand
  <1>3. pc'[h] = "busy" /\ job'[h].tun = t /\ job'[h].snap.exists = store[t].exists
    BY <1>0, <1>1, <1>2 DEF Job, Stored
  <1>4. Act(h)' = Act(h)
    BY <1>1, <1>3 DEF Act
  <1>5. Act(h) \in {"StopKernel", "Delete"} => ~live'[t].conf
    BY <1>0, <1>1, <1>2 DEF LiveAfter, BringUp, StopActions
  <1>6. Claims(h)
    BY DEF DeleteInv
  <1>7. Claims(h)'
    BY <1>1, <1>3, <1>4, <1>5, <1>6 DEF Claims
  <1>8. Harmless(h)
    BY <1>0, <1>1, <1>2, <1>5 DEF Harmless
  <1> QED
    BY <1>3, <1>7, <1>8, <1>s, HarmlessKeeps

\* What a long action other than the delete saves still exists.
LEMMA SavedExists ==
    ASSUME NEW t, NEW a, a # "Delete", NEW now \in Stored, NEW snap \in Stored,
           a # "StopKernel" => now.exists /\ snap.exists,
           NEW s \in Saved(t, a, now, snap)
    PROVE  s.exists = now.exists
  <1>1. CASE a = "StopKernel"
    BY <1>1 DEF Saved, Stored
  <1>2. CASE a # "StopKernel"
    <2>1. CASE a \in {"ColdStartKernel", "ReconcileKernel", "StopNativeWG"}
      BY <1>2, <2>1 DEF Saved, Stored
    <2>2. CASE a \in {"StartNativeWG", "ReconcileNativeWG"}
      <3>1. PICK w : s = [snap EXCEPT !.enabled = TRUE, !.activeWAN = w]
        BY <2>2 DEF Saved
      <3> QED
        BY <1>2, <3>1 DEF Stored
    <2>3. CASE a = "RestoreKmod"
      <3>1. PICK w : s = IF w = snap.activeWAN THEN now ELSE [snap EXCEPT !.activeWAN = w]
        BY <2>3 DEF Saved
      <3> QED
        BY <1>2, <3>1 DEF Stored
    <2>4. CASE a \notin {"ColdStartKernel", "ReconcileKernel", "StopNativeWG", "StartNativeWG",
                         "ReconcileNativeWG", "RestoreKmod"}
      BY <1>2, <2>4 DEF Saved
    <2> QED
      BY <2>1, <2>2, <2>3, <2>4
  <1> QED
    BY <1>1, <1>2

\* executeOne: the second half of a long action.
LEMMA EndKeepsGone ==
    ASSUME TypeInv, EntryInv, PlanOrder, DeleteInv, NEW h \in Handlers, End(h)
    PROVE  DeleteInv' /\ pc'[h] = "run"
  <1> USE DEF Executing
  <1> DEFINE t == job[h].tun
  <1>0. /\ store \in [Tunnels -> Stored] /\ cache \in [Tunnels -> TunnelState]
        /\ pc \in [Handlers -> Phase] /\ job \in [Handlers -> Job]
        /\ cleaned \in [Tunnels -> Nat]
    BY DEF TypeInv, WorldTyped, DesksTyped, BooksTyped
  <1>s. SoleStep(h)
    BY HandlerLatches DEF Progress
  <1>1. PICK s \in Saved(t, Act(h), store[t], job[h].snap) :
           /\ store' = [store EXCEPT ![t] = s]
           /\ cache' = [cache EXCEPT ![t] = updateState(@, Act(h), s)]
    BY DEF End
  <1>2. /\ pc[h] = "busy" /\ plan' = Popped(h)
        /\ cleaned' = IF Act(h) = "Delete" THEN [cleaned EXCEPT ![t] = @ + 1] ELSE cleaned
        /\ job' = [job EXCEPT ![h].snap = NoStored]
        /\ pc' = [pc EXCEPT ![h] = "run"]
        /\ live' = live /\ routes' = routes
    BY DEF End, routerVars
  <1>3. t \in Tunnels /\ job[h].snap \in Stored /\ plan[h][t] # <<>>
    BY <1>0, <1>2, TunnelAtHand DEF Job, TypeInv, DesksTyped, AtDesk
  <1>4. pc'[h] = "run" /\ job'[h].tun = t
    BY <1>0, <1>2 DEF Job
  <1>5. Claims(h)
    BY DEF DeleteInv
  <1>6. Act(h) \in LongActions
    BY <1>2, <1>5 DEF Claims
  <1>7. Act(h) # "DeleteRoutes"
    BY <1>6 DEF LongActions, StartActions, StopActions
  <1>8. plan'[h][t] # <<"Delete">>
    BY <1>2, <1>3, <1>7, LastBeforeDelete
  <1>9. Claims(h)'
    BY <1>4, <1>8 DEF Claims
  <1>10. CASE Act(h) # "Delete"
    <2>1. s.exists = store[t].exists
      <3>1. Act(h) # "StopKernel" => store[t].exists /\ job[h].snap.exists
        BY <1>2, <1>5 DEF Claims
      <3>2. store[t] \in Stored
        BY <1>0, <1>3
      <3> QED
        BY <1>1, <1>3, <1>10, <3>1, <3>2, SavedExists
    <2>2. \A u \in Tunnels : store'[u].exists = store[u].exists
      BY <1>0, <1>1, <2>1
    <2>3. \A u \in Tunnels : cache'[u].known => cache[u].known
      BY <1>0, <1>1, UpdatedKnown
    <2>4. Harmless(h)
      BY <1>2, <1>10, <2>2, <2>3, SameRouter
    <2> QED
      BY <1>4, <1>9, <1>s, <2>4, HarmlessKeeps
  <1>11. CASE Act(h) = "Delete"
    <2>1. store[t].exists /\ ~live[t].conf
      BY <1>2, <1>5, <1>11 DEF Claims
    <2>2. cleaned[t] = 0
      BY <1>3, <2>1 DEF DeleteInv
    <2>3. plan[h][t] = <<"Delete">>
      BY <1>2, <1>3, <1>11, LastBeforeDelete
    <2>4. ~routes[t]
      BY <1>2, <1>5, <2>3 DEF Claims
    <2>5. s = [store[t] EXCEPT !.exists = FALSE]
      BY <1>1, <1>11 DEF Saved
    <2>6. ~store'[t].exists /\ ~cache'[t].known
      <3>1. store[t] \in Stored /\ cache[t] \in TunnelState
        BY <1>0, <1>3
      <3>2. ~updateState(cache[t], Act(h), s).known
        BY <1>11, <3>1, UpdatedKnown
      <3>3. ~s.exists
        BY <2>5, <3>1 DEF Stored
      <3> QED
        BY <1>0, <1>1, <1>3, <3>2, <3>3
    <2>7. ASSUME NEW u \in Tunnels, u # t
          PROVE  /\ store'[u] = store[u] /\ cache'[u] = cache[u] /\ cleaned'[u] = cleaned[u]
      BY <1>0, <1>1, <1>2, <2>7
    <2>8. ASSUME NEW u \in Tunnels, store'[u].exists PROVE cleaned'[u] = 0
      BY <2>6, <2>7, <2>8 DEF DeleteInv
    <2>9. ASSUME NEW u \in Tunnels, ~store'[u].exists PROVE Traceless(u)'
      <3>1. CASE u = t
        BY <1>2, <2>1, <2>4, <2>6, <3>1 DEF Traceless
      <3>2. CASE u # t
        BY <1>2, <2>7, <2>9, <3>2 DEF DeleteInv, Traceless
      <3> QED
        BY <3>1, <3>2
    <2>10. ASSUME NEW g \in Handlers, g # h PROVE Claims(g)'
      <3>1. pc'[g] = pc[g] /\ job'[g] = job[g] /\ plan'[g] = plan[g] /\ Act(g)' = Act(g) /\ Claims(g)
        BY <1>s, <2>10 DEF SoleStep, Act, DeleteInv
      <3>2. pc[g] \in Executing => job[g].tun \in Tunnels /\ job[g].tun # t
        BY <1>2, <2>2, <2>10, TunnelAtHand DEF EntryInv, AloneInEntry
      <3>3. pc[g] \in Executing => store'[job[g].tun] = store[job[g].tun]
        BY <2>7, <3>2
      <3> QED
        BY <1>2, <3>1, <3>3 DEF Claims
    <2> QED
      BY <1>4, <1>9, <2>8, <2>9, <2>10 DEF DeleteInv
  <1> QED
    BY <1>10, <1>11

\* The rest of the world.
LEMMA EnvironmentKeepsGone ==
    ASSUME TypeInv, DeleteInv, Unspoiled', Environment \/ UNCHANGED vars
    PROVE  DeleteInv'
  <1> USE DEF routerVars, lockVars
  <1>0. /\ store \in [Tunnels -> Stored] /\ cache \in [Tunnels -> TunnelState]
        /\ live \in [Tunnels -> [conf : BOOLEAN, up : BOOLEAN]]
        /\ used.ext \in Nat /\ used \in [events : Nat, ext : Nat, fails : Nat, giveUps : Nat]
    BY DEF TypeInv, WorldTyped, BooksTyped
  <1>1. CASE Crash
    <2>1. /\ pc' = [h \in Handlers |-> "idle"] /\ cache' = [t \in Tunnels |-> Unknown]
          /\ cleaned' = [t \in Tunnels |-> 0] /\ store' = store
      BY <1>1 DEF Crash
    <2>2. \/ live' = live /\ routes' = routes
          \/ /\ live' = [t \in Tunnels |-> [live[t] EXCEPT !.up = @ /\ NdmsAlone(t)]]
             /\ routes' = [t \in Tunnels |-> FALSE]
      BY <1>1 DEF Crash
    <2>3. \A t \in Tunnels : live'[t].conf = live[t].conf /\ (routes'[t] => routes[t])
      BY <1>0, <2>2
    <2>4. \A t \in Tunnels : ~store'[t].exists => Traceless(t)'
      BY <2>1, <2>3 DEF DeleteInv, Traceless, Unknown
    <2>5. \A h \in Handlers : Claims(h)'
      BY <2>1 DEF Claims, Executing
    <2> QED
      BY <2>1, <2>4, <2>5 DEF DeleteInv
  <1>2. ASSUME UNCHANGED <<pc, plan, job, live, routes, cleaned>>,
               \A t \in Tunnels : store'[t].exists = store[t].exists,
               \A t \in Tunnels : cache'[t].known = cache[t].known
        PROVE  DeleteInv'
    <2>1. ASSUME NEW h \in Handlers PROVE Claims(h)'
      <3>1. pc[h] = "busy" => job[h].tun \in Tunnels
        BY TunnelAtHand
      <3>2. Claims(h)
        BY DEF DeleteInv
      <3> QED
        BY <1>2, <3>1, <3>2 DEF Claims, Act
    <2>2. ASSUME NEW t \in Tunnels, ~store'[t].exists PROVE Traceless(t)'
      BY <1>2, <2>2 DEF DeleteInv, Traceless
    <2> QED
      BY <1>2, <2>1, <2>2 DEF DeleteInv
  <1>3. ASSUME NEW t \in Tunnels, ToggleEnabled(t) PROVE DeleteInv'
    <2>1. \A u \in Tunnels : store'[u].exists = store[u].exists
      BY <1>0, <1>3 DEF ToggleEnabled, Stored
    <2> QED
      BY <1>2, <1>3, <2>1 DEF ToggleEnabled
  <1>4. ASSUME NEW t \in Tunnels, QuiescenceEnds(t) PROVE DeleteInv'
    <2>1. \A u \in Tunnels : cache'[u].known = cache[u].known
      BY <1>0, <1>4 DEF QuiescenceEnds, TunnelState
    <2> QED
      BY <1>2, <1>4, <2>1 DEF QuiescenceEnds
  <1>5. ASSUME NEW t \in Tunnels, ExtToggle(t) PROVE FALSE
    BY <1>0, <1>5 DEF ExtToggle, Unspoiled
  <1>6. ASSUME NEW t \in Tunnels, NEW l \in Level, ExpireHook(t, l) PROVE DeleteInv'
    BY <1>2, <1>6 DEF ExpireHook
  <1>7. ASSUME NEW k \in Hook, ConsumeHook(k) \/ HookFault(k) PROVE DeleteInv'
    BY <1>2, <1>7 DEF ConsumeHook, HookFault
  <1>8. CASE UNCHANGED vars
    BY <1>2, <1>8 DEF vars
  <1> QED
    BY <1>1, <1>3, <1>4, <1>5, <1>6, <1>7, <1>8 DEF Environment

\* While no tunnel is edited, no step leaves a trace of a deleted tunnel.
LEMMA GoneInductive ==
    ASSUME "edit" \notin Kinds, TypeInv, EntryInv, GoneInv, [Next]_vars
    PROVE  GoneInv'
  <1>0. NoEdits /\ PlanOrder /\ (Unspoiled' => DeleteInv)
    BY UsedGrows DEF GoneInv
  <1>u. used \in [events : Nat, ext : Nat, fails : Nat, giveUps : Nat]
    BY DEF TypeInv, BooksTyped
  <1>1. CASE Environment \/ UNCHANGED vars
    <2>1. \/ UNCHANGED <<pc, plan, plan2, job>>
          \/ /\ pc' = [h \in Handlers |-> "idle"]
             /\ plan' = [h \in Handlers |-> EmptyPlan] /\ plan2' = [h \in Handlers |-> EmptyPlan]
      BY <1>1 DEF Environment, ToggleEnabled, ExtToggle, QuiescenceEnds, ExpireHook, ConsumeHook,
                  HookFault, Crash, vars
    <2>2. NoEdits'
      BY <1>0, <2>1 DEF NoEdits
    <2>3. PlanOrder'
      <3>1. EmptyPlan \in PlansOf /\ \A t \in Tunnels : EmptyPlan[t] = <<>>
        BY DEF EmptyPlan, PlansOf
      <3>2. <<>> # <<"Delete">> /\ <<>> \in Seq(Kept)
        OBVIOUS
      <3>3. CASE UNCHANGED <<pc, plan, plan2, job>>
        BY <1>0, <3>3 DEF PlanOrder
      <3>4. CASE /\ pc' = [h \in Handlers |-> "idle"]
                 /\ plan' = [h \in Handlers |-> EmptyPlan] /\ plan2' = [h \in Handlers |-> EmptyPlan]
        BY <3>1, <3>2, <3>4 DEF PlanOrder, Ordered
      <3> QED
        BY <2>1, <3>3, <3>4
    <2> QED
      BY <1>0, <1>1, <2>2, <2>3, EnvironmentKeepsGone DEF GoneInv
  <1>2. ASSUME NEW h \in Handlers, Arrive(h) \/ Progress(h) \/ Trouble(h)
        PROVE  GoneInv'
    <2>1. PlanOrder'
      BY <1>0, <1>2, OrderKept
    <2>2. SoleStep(h)
      BY <1>2, HandlerLatches
    <2>3. pc'[h] # "edit"
      <3>0. pc \in [Handlers -> Phase]
        BY DEF TypeInv, DesksTyped
      <3>1. CASE Arrive(h)
        <4>1. /\ \A t \in Tunnels : ~EditBegin(h, t)
              /\ pc[h] # "edit"
          BY <1>0 DEF EditBegin, NoEdits
        <4> QED
          BY <3>0, <3>1, <4>1 DEF Arrive, UserEvent, WanSet, Startup, Quiesce, ExternalHook
      <3>2. CASE Progress(h)
        <4>1. pc[h] # "edit"
          BY <1>0 DEF NoEdits
        <4>2. CASE OneStepAction(h)
          <5>1. pc' = pc
            BY <4>2, Zenon DEF OneStepAction, ApplyRoutes, RemoveRoutes, Monitoring, Persist,
               NotFound, NoUpstream, SkipReconcile, Running
          <5> QED
            BY <4>1, <5>1
        <4>3. CASE ~OneStepAction(h)
          <5>1. \E x \in Phase \ {"edit"} : pc' = [pc EXCEPT ![h] = x]
            BY <3>2, <4>1, <4>3 DEF Progress, Await, SettleEnd, Decide, RestoreEndpointTracking,
               Pick, lockTunnel, unlockTunnel, Return, SetEnabled, Begin, Drive, End, EditEnd,
               Resume, Phase
          <5> QED
            BY <3>0, <5>1
        <4> QED
          BY <4>2, <4>3
      <3>3. CASE Trouble(h)
        <4>1. pc[h] # "edit"
          BY <1>0 DEF NoEdits
        <4> QED
          BY <3>0, <3>3, <4>1 DEF Trouble, LockTimeout, Cancel, FailAction, FailStart, StopUnheard,
             Drive
      <3> QED
        BY <1>2, <3>1, <3>2, <3>3
    <2>4. NoEdits'
      BY <1>0, <2>2, <2>3 DEF NoEdits, SoleStep
    <2>5. ASSUME Unspoiled' PROVE DeleteInv'
      <3>1. DeleteInv
        BY <1>0, <2>5
      <3>2. ~FailAction(h) /\ ~FailStart(h) /\ ~StopUnheard(h)
        BY <1>u, <2>5 DEF Unspoiled, FailAction, FailStart, StopUnheard
      <3>3. CASE OneStepAction(h)
        BY <1>0, <3>1, <3>3, ShortKeepsGone
      <3>4. CASE Begin(h)
        BY <1>0, <3>1, <3>4, BeginKeepsGone
      <3>5. CASE End(h)
        BY <1>0, <3>1, <3>5, EndKeepsGone
      <3>6. CASE ~OneStepAction(h) /\ ~Begin(h) /\ ~End(h)
        BY <1>0, <1>2, <3>1, <3>2, <3>6, FramesKeepGone DEF Progress, Trouble
      <3> QED
        BY <3>3, <3>4, <3>5, <3>6
    <2> QED
      BY <2>1, <2>4, <2>5 DEF GoneInv
  <1> QED
    BY <1>1, <1>2 DEF Next

\* The daemon starts with every tunnel stored and nothing planned.
LEMMA GoneInitially == Init => GoneInv
  <1> SUFFICES ASSUME Init
               PROVE  GoneInv
    OBVIOUS
  <1>1. /\ pc = [h \in Handlers |-> "idle"] /\ cleaned = [t \in Tunnels |-> 0]
        /\ plan = [h \in Handlers |-> EmptyPlan] /\ plan2 = [h \in Handlers |-> EmptyPlan]
    BY DEF Init
  <1>2. \A t \in Tunnels : store[t].exists
    <2>1. \E on \in SUBSET Tunnels : \E a \in [Tunnels -> WANs \cup {NoWAN}] :
             store = [t \in Tunnels |-> [exists |-> TRUE, enabled |-> t \in on, activeWAN |-> a[t]]]
      BY DEF Init
    <2> QED
      BY <2>1
  <1>3. EmptyPlan \in PlansOf /\ \A t \in Tunnels : EmptyPlan[t] = <<>>
    BY DEF EmptyPlan, PlansOf
  <1>4. <<>> # <<"Delete">> /\ <<>> \in Seq(Kept)
    OBVIOUS
  <1>5. PlanOrder
    BY <1>1, <1>3, <1>4 DEF PlanOrder, Ordered
  <1>6. NoEdits /\ \A h \in Handlers : Claims(h)
    BY <1>1 DEF NoEdits, Claims, Executing
  <1>7. DeleteInv
    BY <1>1, <1>2, <1>6 DEF DeleteInv
  <1> QED
    BY <1>5, <1>6, <1>7 DEF GoneInv

\* At rest a deleted tunnel has left neither interface nor cache entry nor
\* routes behind (executeDeleteKernel and executeDeleteNativeWG,
\* execute.go:521-571), whatever starts, stops, hooks, WAN changes, backups,
\* crashes, reboots, cancelled requests and lock timeouts raced with the delete,
\* if no action failed and nobody else touched an interface.  Edits are left
\* out: one that read the tunnel before the delete saves it again afterwards.
THEOREM DeleteLeavesNothing ==
    ASSUME "edit" \notin Kinds
    PROVE  Spec => []DeletedIsGone
  <1>1. GoneInv => DeletedIsGone
    BY DEF GoneInv, DeleteInv, Unspoiled, Traceless, DeletedIsGone
  <1> QED
    BY <1>1, TypesInitially, EntriesInitially, EntriesInductive, GoneInitially, GoneInductive,
       PTL DEF Spec

=============================================================================
