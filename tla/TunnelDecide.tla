---------------------------- MODULE TunnelDecide ----------------------------
(***************************************************************************)
(* The decision layer of internal/orchestrator (decide.go): pure functions *)
(* from the cached view of a tunnel to the actions to execute for it.      *)
(*                                                                         *)
(* A plan is a sequence of action names; the tunnel it belongs to and the  *)
(* order in which tunnels are visited (a Go map iteration) are left to the *)
(* executor.  Consecutive actions that the model cannot tell apart share   *)
(* one name: ApplyRoutes is ApplyDNSRoutes, ApplyStaticRoutes and          *)
(* ApplyClientRoutes; the NDMS ping-check profile is configured with       *)
(* StartMonitoring and removed with the stop.                              *)
(***************************************************************************)
EXTENDS Naturals, Sequences, FiniteSets

CONSTANTS Tunnels,      \* managed tunnels
          WANs,         \* WAN interfaces, by kernel name
          AnyWAN,       \* ISPInterface = "": any WAN
          NoWAN,        \* ActiveWAN = ""
          KernelTunnels,\* Backend = "kernel"; the others are "nativewg"
          NdmsID,       \* the NDMS name of a WAN ("ISP" for eth3, say)
          ISPInterface, \* binding of a tunnel: AnyWAN, or a WAN, kept by its kernel
                        \* name (kernel backend) or its NDMS name (nativewg)
          PingChecked,  \* tunnels with PingCheck.Enabled
          MayV6,        \* tunnels with EndpointMayV6
          SupportsASC   \* firmware with native ASC

ASSUME DecideAssumption ==
    /\ IsFiniteSet(Tunnels)
    /\ AnyWAN \notin WANs
    /\ NoWAN \notin WANs
    /\ KernelTunnels \subseteq Tunnels
    /\ DOMAIN NdmsID = WANs
    /\ \A w \in WANs : NdmsID[w] \notin WANs \cup {AnyWAN}
    /\ DOMAIN ISPInterface = Tunnels
    /\ \A t \in Tunnels :
          \/ ISPInterface[t] = AnyWAN
          \/ IF t \in KernelTunnels THEN ISPInterface[t] \in WANs
             ELSE \E w \in WANs : ISPInterface[t] = NdmsID[w]
    /\ PingChecked \subseteq Tunnels
    /\ MayV6 \subseteq Tunnels
    /\ SupportsASC \in BOOLEAN

StartActions == {"ColdStartKernel", "StartNativeWG", "ReconcileNativeWG",
                 "ReconcileKernel", "ResumeKernel"}

StopActions == {"StopKernel", "StopNativeWG"}

\* Actions that drive the router and take time; the others are one step.
LongActions == StartActions \cup StopActions \cup
    {"SuspendKernel", "SuspendProxy", "RestoreKmod", "Delete"}

ShortActions == {"ApplyRoutes", "RemoveRoutes", "DeleteRoutes", "StartMonitoring",
                 "StopMonitoring", "PersistRunning", "PersistStopped"}

ActionName == LongActions \cup ShortActions

\* tunnelState: the fields decide reads and the executor writes.  known is the
\* presence of the entry in State.tunnels, quiescent stands for
\* now < quiescentUntil.
TunnelState == [known : BOOLEAN, enabled : BOOLEAN, running : BOOLEAN,
                monitoring : BOOLEAN, activeWAN : WANs \cup {NoWAN},
                quiescent : BOOLEAN]

-----------------------------------------------------------------------------

StartAction(t) == IF t \in KernelTunnels THEN "ColdStartKernel" ELSE "StartNativeWG"

StopAction(t) == IF t \in KernelTunnels THEN "StopKernel" ELSE "StopNativeWG"

appendPostStartActions(t) ==
    IF t \in PingChecked
    THEN <<"ApplyRoutes", "StartMonitoring", "PersistRunning">>
    ELSE <<"ApplyRoutes", "PersistRunning">>

StopMonitoringIf(c) == IF c.monitoring THEN <<"StopMonitoring">> ELSE <<>>

appendQuiesceStopActions(t, c) == StopMonitoringIf(c) \o <<StopAction(t)>>

StartPlan(t) == <<StartAction(t)>> \o appendPostStartActions(t)

decideStart(t, c) ==
    IF ~c.known \/ c.running THEN <<>> ELSE StartPlan(t)

\* Mutant of decideStop: the intent is not persisted.
StopUnpersisted(t, c) ==
    IF ~c.known THEN <<>> ELSE StopMonitoringIf(c) \o <<StopAction(t), "RemoveRoutes">>

\* Mutant of decideStop: the routes stay.
StopKeepsRoutes(t, c) ==
    IF ~c.known THEN <<>> ELSE StopMonitoringIf(c) \o <<StopAction(t), "PersistStopped">>

\* Deliberately not guarded by c.running (a tunnel may need its intent cancelled).
decideStop(t, c) ==
    IF ~c.known
    THEN <<>>
    ELSE StopMonitoringIf(c) \o <<StopAction(t), "RemoveRoutes", "PersistStopped">>

decideRestart(t, c) ==
    IF ~c.known
    THEN <<>>
    ELSE (IF c.running THEN appendQuiesceStopActions(t, c) ELSE <<>>) \o StartPlan(t)

decideDelete(t, c) ==
    IF ~c.known THEN <<>> ELSE StopMonitoringIf(c) \o <<"DeleteRoutes", "Delete">>

\* An external conf edge; self-induced ones were filtered before.
decideNDMSHook(t, c, level, anyWANUp) ==
    CASE level = "running" /\ anyWANUp -> decideStart(t, c)
      [] level = "disabled" /\ c.running /\ ~c.quiescent -> decideStop(t, c)
      [] OTHER -> <<>>

decideBoot(t, c) ==
    CASE ~c.known \/ ~c.enabled -> <<>>
      [] c.known /\ c.enabled /\ t \in KernelTunnels ->
            <<IF c.running THEN "ReconcileKernel" ELSE "ColdStartKernel">>
               \o appendPostStartActions(t)
      [] c.known /\ c.enabled /\ t \notin KernelTunnels /\ ~SupportsASC ->
            <<"ReconcileNativeWG">> \o appendPostStartActions(t)
      [] c.known /\ c.enabled /\ t \notin KernelTunnels /\ SupportsASC ->
            IF t \in MayV6 THEN StartPlan(t) ELSE <<>>

decideReconnect(t, c) ==
    LET monitor == IF t \in PingChecked THEN <<"StartMonitoring">> ELSE <<>>
    IN  CASE ~c.known -> <<>>
          [] c.known /\ c.running /\ t \in KernelTunnels -> <<"ReconcileKernel">> \o monitor
          [] c.known /\ c.running /\ t \notin KernelTunnels ->
                IF SupportsASC THEN StartPlan(t) ELSE <<"RestoreKmod">> \o monitor
          [] c.known /\ ~c.running -> IF c.enabled THEN StartPlan(t) ELSE <<>>

canStartOnWAN(t, wan) == ISPInterface[t] \in {AnyWAN, wan}

affectedByWANDown(t, c, wan) ==
    IF ISPInterface[t] = AnyWAN THEN c.activeWAN = wan ELSE ISPInterface[t] = wan

\* Mutant of decideWANUp: a running tunnel is left alone (KN-1910).
WANUpStartsStopped(t, c, wan) ==
    IF c.known /\ c.enabled /\ canStartOnWAN(t, wan) /\ ~c.running
       /\ (t \in KernelTunnels \/ ~SupportsASC)
    THEN StartPlan(t)
    ELSE <<>>

decideWANUp(t, c, wan) ==
    IF ~c.known \/ ~c.enabled \/ ~canStartOnWAN(t, wan)
    THEN <<>>
    ELSE IF t \in KernelTunnels
         THEN IF c.running
              THEN <<IF ISPInterface[t] = AnyWAN THEN "ReconcileKernel" ELSE "ResumeKernel">>
              ELSE StartPlan(t)
         ELSE IF SupportsASC \/ (c.running /\ c.activeWAN # wan)
              THEN <<>>
              ELSE StartPlan(t)

\* First pass of decideWANDown: suspend what used the lost WAN.
decideWANDownSuspend(t, c, wan) ==
    IF c.known /\ c.enabled /\ c.running /\ affectedByWANDown(t, c, wan)
    THEN IF t \in KernelTunnels THEN <<"SuspendKernel">>
         ELSE IF SupportsASC THEN <<>> ELSE <<"SuspendProxy">>
    ELSE <<>>

\* Second pass: immediate failover of the suspended NativeWG tunnels.
decideWANDownFailover(t, c, wan, anyWANUp) ==
    IF anyWANUp /\ decideWANDownSuspend(t, c, wan) = <<"SuspendProxy">>
    THEN StartPlan(t)
    ELSE <<>>

\* Mutant of decideQuiesce: the backup stops the tunnels as a user does.
QuiesceAsStop(t, c) ==
    IF c.known /\ c.running THEN decideStop(t, c) ELSE <<>>

decideQuiesce(t, c) ==
    IF c.known /\ c.running THEN appendQuiesceStopActions(t, c) ELSE <<>>

=============================================================================
