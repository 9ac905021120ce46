------------------------------- MODULE NdmsView -------------------------------
(***************************************************************************)
(* The daemon's view of the router's interfaces: NDMS hooks reach the      *)
(* event dispatcher (internal/ndms/events), which patches the event-       *)
(* sourced InterfaceStore (internal/ndms/query/interfaces.go) and          *)
(* invalidates the TTL stores (KeyedStore); commands that change NDMS      *)
(* (internal/ndms/command) refresh the same stores after their POST.       *)
(*                                                                         *)
(* An interface is a record of versioned fields: conf and ipv4 for layers  *)
(* that events patch (link and ctrl are like conf without RunningConfig),  *)
(* address for the one of ifipchanged, which may also tell that there is   *)
(* none any more.                                                          *)
(* Versions come from one counter of NDMS changes, so that any two reads   *)
(* of NDMS can be ordered.  A refresh is two steps, the answer of NDMS     *)
(* (fetch) and the store under InterfaceStore.mu, because the lock is not  *)
(* held across the request.  NDMS runs hook scripts one after the other    *)
(* and each waits for its POST: hooks arrive in order, but may be lost     *)
(* (the daemon does not answer in time) or repeated (the script tries a    *)
(* second address).                                                        *)
(***************************************************************************)
EXTENDS KeyedStore, Sequences

CONSTANTS Ifaces,       \* NDMS interfaces
          Fields,       \* subset of {"conf", "ipv4", "address"}
          Worker,       \* the dispatcher's goroutine
          Commands,     \* goroutines that issue commands or read interfaces
          CommandKinds, \* subset of {"create", "delete", "up", "address", "clear", "read"}
          Absent, NoOne,
          MaxChanges,   \* bound: changes of NDMS
          MaxOutside,   \* bound: of these, changes made outside the daemon
          MaxFaults     \* bound: hooks lost or repeated and fetches that fail

Lists == {"WGServers", "Routes", "RunningConfig"}

\* ifcreated, ifdestroyed, iflayerchanged of two layers, ifipchanged with an
\* address and ifipchanged without one.
EventTypes == {"created", "destroyed", "conf", "ipv4", "address", "cleared"}

ASSUME ViewAssumption ==
    /\ Keys \subseteq Ifaces \cup Lists
    /\ Worker \notin Commands /\ NoOne \notin Commands \cup {Worker}
    /\ Fields \subseteq {"conf", "ipv4", "address"}
    /\ Absent \notin [Fields -> Nat]

VARIABLES
    ifc,        \* NDMS: the interfaces and the versions of their fields
    clock,      \* NDMS: changes so far
    outside,    \* changes made outside the daemon so far (bound)
    hooks,      \* NDMS: hooks that have still to be sent
    queue,      \* Dispatcher.queue
    notifying,  \* Enqueue calls between the append and the send on notify
    notify,     \* a token is in the notify channel
    batch,      \* the events drain took and has not applied
    byID,       \* InterfaceStore.byID
    booted,     \* InterfaceStore.booted
    bootMu,     \* holder of InterfaceStore.bootMu
    act,        \* the worker's and the commands' positions
    due,        \* history: version of the last hooked change of a key's data
    tainted,    \* history: an event of the interface was lost or overtaken
    faults      \* hooks lost or repeated and fetches failed so far (bound)

ndmsVars == <<ifc, clock, outside, hooks>>
queueVars == <<queue, notifying, notify, batch, due>>
ifaceVars == <<byID, booted, bootMu, tainted>>
viewVars == <<ndmsVars, queueVars, ifaceVars, faults, act>>
allVars == <<vars, viewVars>>

Actors == Commands \cup {Worker}

\* An actor at rest.  seen: interfaces an event was applied to, or lost for,
\* since the actor's fetch.
Resting == [pc |-> "idle", scope |-> {}, got |-> <<>>, seen |-> {}, todo |-> <<>>]

Record(v) == [f \in Fields |-> v]

\* The entry OnCreated inserts when it has nothing but the name.
Stub == Record(0)

\* An interface without an address.
NoAddress == 0

Present(i) == ifc[i] # Absent

\* The cached data a change of NDMS makes out of date.
Touches(type, i) ==
    CASE type \in {"created", "destroyed"} -> {i, "WGServers"}
      [] type = "conf"    -> {i, "RunningConfig"}
      [] type = "ipv4"    -> {i, "Routes"}
      [] type \in {"address", "cleared"} -> {"Routes"}

\* The store of k, if the model has it.
Kept(k) == IF k \in Keys THEN <<k>> ELSE <<>>

\* Mutant of Affected: layer changes do not drop the peers.
AffectedKeepsPeers(type, i) ==
    CASE type = "created"   -> Kept("WGServers")
      [] type = "destroyed" -> Kept(i) \o Kept("WGServers")
      [] type = "conf"      -> Kept("RunningConfig")
      [] type \in {"ipv4", "address", "cleared"} -> Kept("Routes")

\* The TTL stores Dispatcher.apply invalidates for an event, in its order.
Affected(type, i) ==
    CASE type = "created"   -> Kept("WGServers")
      [] type = "destroyed" -> Kept(i) \o Kept("WGServers")
      [] type = "conf"      -> Kept(i) \o Kept("RunningConfig")
      [] type = "ipv4"      -> Kept(i) \o Kept("Routes")
      [] type \in {"address", "cleared"} -> Kept("Routes")

\* The TTL stores a command invalidates after it has refreshed the interface.
CommandDrops(kind, i) ==
    CASE kind = "create"  -> Kept("RunningConfig")
      [] kind = "delete"  -> Kept(i) \o Kept("RunningConfig")
      [] kind = "up"      -> Kept(i)
      [] kind \in {"address", "clear"} -> Kept("Routes") \o Kept("RunningConfig")
      [] kind = "read"    -> <<>>

InitView ==
    /\ ifc \in [Ifaces -> {Absent, Record(1)}]
    /\ clock = 1 /\ outside = 0
    /\ hooks = <<>> /\ queue = <<>> /\ batch = <<>>
    /\ notifying = 0 /\ notify = FALSE
    /\ byID = [i \in Ifaces |-> Absent]
    /\ booted = FALSE
    /\ bootMu = NoOne
    /\ act = [a \in Actors |-> Resting]
    /\ due = [k \in Keys |-> 0]
    /\ tainted = [i \in Ifaces |-> FALSE]
    /\ faults = 0

Init ==
    /\ src = [k \in Keys |-> 1]
    /\ InitStore
    /\ InitView

-----------------------------------------------------------------------------
(* NDMS and its hooks *)

\* A change of NDMS: the interface, the data behind every store that depends
\* on it (a new interface changes its peers too), and the hook.
Change(type, i) ==
    LET v == clock + 1 IN
    /\ clock < MaxChanges
    /\ clock' = v
    /\ CASE type = "created"   -> ~Present(i) /\ ifc' = [ifc EXCEPT ![i] = Record(v)]
         [] type = "destroyed" -> Present(i) /\ ifc' = [ifc EXCEPT ![i] = Absent]
         [] type = "cleared"   -> /\ Present(i) /\ "address" \in Fields
                                  /\ ifc[i]["address"] # NoAddress
                                  /\ ifc' = [ifc EXCEPT ![i]["address"] = NoAddress]
         [] OTHER -> /\ Present(i) /\ type \in Fields
                     /\ ifc' = [ifc EXCEPT ![i][type] = v]
    /\ src' = [k \in Keys |-> IF k \in Touches(type, i) THEN v ELSE src[k]]
    /\ hooks' = Append(hooks, [type |-> type, id |-> i, lvl |-> v])

\* The router, or another of its clients, changes an interface.
Outside ==
    /\ outside < MaxOutside
    /\ outside' = outside + 1
    /\ \E i \in Ifaces : \E t \in EventTypes : Change(t, i)
    /\ UNCHANGED <<storeVars, queueVars, ifaceVars, faults, act>>

\* The interfaces a refresh is about to store: it is between its fetch and
\* its store.
Window(A, a) == CASE A[a].pc = "bootstore" -> Ifaces
                  [] A[a].pc = "store"     -> A[a].scope
                  [] OTHER                 -> {}

\* Marks the refreshes that an event for i overtakes.
Overtake(A, i) ==
    [a \in Actors |-> IF i \in Window(A, a)
                      THEN [A[a] EXCEPT !.seen = @ \cup {i}] ELSE A[a]]

\* The keys whose data the event changed; the peers of a new interface are
\* left to the layer events that follow its creation.
Hooked(e) == [k \in Keys |->
    IF k \in Touches(e.type, e.id) /\ ~(e.type = "created" /\ k = e.id)
    THEN e.lvl ELSE due[k]]

\* Mutant of Enqueued: events of one type and interface are coalesced.
EnqueuedOnce(e) ==
    IF \E n \in DOMAIN queue : queue[n].type = e.type /\ queue[n].id = e.id
    THEN queue ELSE Append(queue, e)

\* Enqueue's append.
Enqueued(e) == Append(queue, e)

\* Something goes wrong, within the bound.
Faulty == faults < MaxFaults /\ faults' = faults + 1

\* The hook's POST reaches HandleNDMS, which calls Enqueue.
Deliver ==
    /\ hooks # <<>>
    /\ hooks' = Tail(hooks)
    /\ queue' = Enqueued(Head(hooks))
    /\ due' = Hooked(Head(hooks))
    /\ notifying' = notifying + 1
    /\ UNCHANGED <<vars, ifc, clock, outside, notify, batch, ifaceVars, faults, act>>

\* The script did not see the answer and posts to the second address.
DeliverAgain ==
    /\ hooks # <<>>
    /\ Faulty
    /\ queue' = Enqueued(Head(hooks))
    /\ due' = Hooked(Head(hooks))
    /\ notifying' = notifying + 1
    /\ UNCHANGED <<vars, ndmsVars, notify, batch, ifaceVars, act>>

\* Neither address answered: the script gives up.
Lose ==
    /\ hooks # <<>>
    /\ Faulty
    /\ hooks' = Tail(hooks)
    /\ tainted' = [tainted EXCEPT ![Head(hooks).id] = TRUE]
    /\ act' = Overtake(act, Head(hooks).id)
    /\ UNCHANGED <<vars, ifc, clock, outside, queueVars, byID, booted, bootMu>>

\* Enqueue's non-blocking send.
Notify ==
    /\ notifying > 0
    /\ notifying' = notifying - 1
    /\ notify' = TRUE
    /\ UNCHANGED <<vars, ndmsVars, queue, batch, due, ifaceVars, faults, act>>

-----------------------------------------------------------------------------
(* The dispatcher's worker *)

\* run: a token is received; drain's lock is taken in a step of its own.
Wake ==
    /\ act[Worker].pc = "idle"
    /\ notify
    /\ notify' = FALSE
    /\ act' = [act EXCEPT ![Worker].pc = "drain"]
    /\ UNCHANGED <<vars, ndmsVars, queue, notifying, batch, due, ifaceVars, faults>>

\* Mutant of Drain: one event per wake-up.
DrainOne ==
    /\ act[Worker].pc = "drain"
    /\ batch' = IF queue = <<>> THEN <<>> ELSE <<Head(queue)>>
    /\ queue' = IF queue = <<>> THEN <<>> ELSE Tail(queue)
    /\ act' = [act EXCEPT ![Worker].pc = IF queue = <<>> THEN "idle" ELSE "apply"]
    /\ UNCHANGED <<vars, ndmsVars, notifying, notify, due, ifaceVars, faults>>

\* drain takes the whole queue.
Drain ==
    /\ act[Worker].pc = "drain"
    /\ batch' = queue
    /\ queue' = <<>>
    /\ act' = [act EXCEPT ![Worker].pc = IF queue = <<>> THEN "idle" ELSE "apply"]
    /\ UNCHANGED <<vars, ndmsVars, notifying, notify, due, ifaceVars, faults>>

\* Where an actor goes once its refresh is over and todo remains to be dropped.
Then(a, todo) ==
    CASE todo # <<>> -> "keys"
      [] todo = <<>> /\ a = Worker -> (IF Len(batch) > 1 THEN "apply" ELSE "idle")
      [] OTHER -> "idle"

\* The actor after its interface refresh: the worker still counts the event
\* as the head of its batch until the keys are dropped.
Refreshed(a) ==
    LET todo == act[a].todo IN [Resting EXCEPT !.pc = Then(a, todo), !.todo = todo]

\* The batch without the event that is done, if the actor is the worker and
\* nothing is left to do for it.
BatchAfter(a, todo) == IF a = Worker /\ todo = <<>> THEN Tail(batch) ELSE batch

\* OnDestroyed, OnLayerChanged and OnIPChanged on the map.  An event for an
\* interface that is not there is skipped, and so is an ifipchanged whose
\* address is empty.
Patched(e) ==
    [byID EXCEPT ![e.id] =
        IF e.type = "destroyed" THEN Absent
        ELSE IF @ = Absent \/ e.type = "cleared" \/ e.type \notin Fields THEN @
             ELSE [@ EXCEPT ![e.type] = e.lvl]]

\* apply, events that need no request: patch the map, then drop the keys.
ApplyPatch ==
    LET e == Head(batch)
        todo == Affected(e.type, e.id) IN
    /\ act[Worker].pc = "apply"
    /\ e.type # "created"
    /\ byID' = Patched(e)
    /\ act' = [Overtake(act, e.id) EXCEPT
                 ![Worker] = [Resting EXCEPT !.pc = Then(Worker, todo), !.todo = todo]]
    /\ batch' = BatchAfter(Worker, todo)
    /\ UNCHANGED <<vars, ndmsVars, queue, notifying, notify, due, booted, bootMu, tainted, faults>>

\* apply, ifcreated: OnCreated begins.
ApplyCreated ==
    LET e == Head(batch) IN
    /\ act[Worker].pc = "apply"
    /\ e.type = "created"
    /\ act' = [act EXCEPT ![Worker] = [Resting EXCEPT !.pc = "boot", !.scope = {e.id},
                                                      !.todo = Affected("created", e.id)]]
    /\ UNCHANGED <<vars, ndmsVars, queueVars, ifaceVars, faults>>

\* One TTL store is invalidated, by the worker or by a command.
DropKey(a) ==
    LET todo == Tail(act[a].todo) IN
    /\ act[a].pc = "keys"
    /\ InvalidateKey(Head(act[a].todo))
    /\ act' = [act EXCEPT ![a].todo = todo, ![a].pc = Then(a, todo)]
    /\ batch' = BatchAfter(a, todo)
    /\ UNCHANGED <<src, ndmsVars, queue, notifying, notify, due, ifaceVars, faults>>

-----------------------------------------------------------------------------
(* InterfaceStore refreshes *)

\* Events of i that are still on their way to the map.
Pending(i) == \E q \in {hooks, queue, batch} : \E n \in DOMAIN q : q[n].id = i

\* History: a refresh that no event overtook makes up for what was lost before
\* it, unless older events are still to be applied on top of it.
TaintAfter(a, S) ==
    [i \in Ifaces |-> IF i \in S THEN i \in act[a].seen \/ (tainted[i] /\ Pending(i))
                      ELSE tainted[i]]

\* ensureBootstrap: fast path, or bootMu for the one fetch of the whole list.
\* A read ends with it; the others go on to fetchOne.
EnsureBootstrap(a) ==
    /\ act[a].pc = "boot"
    /\ IF booted
       THEN /\ act' = [act EXCEPT ![a] = IF @.scope = {} THEN Resting
                                         ELSE [@ EXCEPT !.pc = "fetch"]]
            /\ UNCHANGED bootMu
       ELSE /\ bootMu = NoOne
            /\ bootMu' = a
            /\ act' = [act EXCEPT ![a].pc = "bootfetch"]
    /\ UNCHANGED <<vars, ndmsVars, queueVars, byID, booted, tainted, faults>>

\* fetchListMap of the bootstrap is answered.
BootFetch(a) ==
    /\ act[a].pc = "bootfetch"
    /\ act' = [act EXCEPT ![a].pc = "bootstore", ![a].got = ifc]
    /\ UNCHANGED <<vars, ndmsVars, queueVars, ifaceVars, faults>>

\* The bootstrap replaces the map, sets booted and releases bootMu: one step,
\* since whoever could tell the three apart waits for bootMu.
BootStore(a) ==
    /\ act[a].pc = "bootstore"
    /\ byID' = act[a].got
    /\ tainted' = TaintAfter(a, Ifaces)
    /\ booted' = TRUE
    /\ bootMu' = NoOne
    /\ act' = [act EXCEPT ![a] = IF @.scope = {} THEN Resting
                                 ELSE [@ EXCEPT !.pc = "fetch", !.got = <<>>, !.seen = {}]]
    /\ UNCHANGED <<vars, ndmsVars, queueVars, faults>>

\* The bootstrap fetch fails: the operation is given up (an event with it).
BootFail(a) ==
    /\ act[a].pc = "bootfetch"
    /\ Faulty
    /\ bootMu' = NoOne
    /\ LET after == [act EXCEPT ![a] = Refreshed(a)] IN
       IF a = Worker
       THEN /\ act' = Overtake(after, Head(batch).id)
            /\ tainted' = [tainted EXCEPT ![Head(batch).id] = TRUE]
       ELSE act' = after /\ UNCHANGED tainted
    /\ batch' = BatchAfter(a, act[a].todo)
    /\ UNCHANGED <<vars, ndmsVars, queue, notifying, notify, due, byID, booted>>

\* fetchOne, or fetchListMap of InvalidateAll, is answered.
FetchIface(a) ==
    /\ act[a].pc = "fetch"
    /\ act' = [act EXCEPT ![a].pc = "store", ![a].got = [i \in act[a].scope |-> ifc[i]]]
    /\ UNCHANGED <<vars, ndmsVars, queueVars, ifaceVars, faults>>

\* OnCreated on the map: an empty answer inserts a stub only where nothing is.
CreatedEntry(i, answer) ==
    CASE answer # Absent  -> answer
      [] answer = Absent /\ byID[i] = Absent -> Stub
      [] OTHER            -> byID[i]

\* OnCreated stores the interface it fetched.
StoreCreated ==
    LET a == act[Worker]
        i == Head(batch).id IN
    /\ a.pc = "store"
    /\ byID' = [byID EXCEPT ![i] = CreatedEntry(i, a.got[i])]
    /\ tainted' = TaintAfter(Worker, {i})
    /\ act' = Overtake([act EXCEPT ![Worker] = Refreshed(Worker)], i)
    /\ batch' = BatchAfter(Worker, a.todo)
    /\ UNCHANGED <<vars, ndmsVars, queue, notifying, notify, due, booted, bootMu, faults>>

\* OnCreated's fetch fails.
CreatedFail ==
    LET a == act[Worker]
        i == Head(batch).id IN
    /\ a.pc = "fetch"
    /\ Faulty
    /\ byID' = [byID EXCEPT ![i] = CreatedEntry(i, Absent)]
    /\ tainted' = [tainted EXCEPT ![i] = TRUE]
    /\ act' = Overtake([act EXCEPT ![Worker] = Refreshed(Worker)], i)
    /\ batch' = BatchAfter(Worker, a.todo)
    /\ UNCHANGED <<vars, ndmsVars, queue, notifying, notify, due, booted, bootMu>>

\* Invalidate, or InvalidateAll, stores what it fetched; an absent interface is
\* removed.  InvalidateAll also sets booted.
StoreRefresh(c) ==
    LET a == act[c] IN
    /\ a.pc = "store"
    /\ byID' = [i \in Ifaces |-> IF i \in a.scope THEN a.got[i] ELSE byID[i]]
    /\ tainted' = TaintAfter(c, a.scope)
    /\ booted' = (booted \/ a.scope = Ifaces)
    /\ act' = [act EXCEPT ![c] = Refreshed(c)]
    /\ UNCHANGED <<vars, ndmsVars, queueVars, bootMu, faults>>

\* The refresh of a command fails: the map is left alone.
RefreshFail(c) ==
    /\ act[c].pc = "fetch"
    /\ Faulty
    /\ act' = [act EXCEPT ![c] = Refreshed(c)]
    /\ UNCHANGED <<vars, ndmsVars, queueVars, ifaceVars>>

-----------------------------------------------------------------------------
(* Commands *)

\* postMutation: the POST has succeeded; the interface store is refreshed by
\* name, after a bootstrap, or as a whole.
Command(c, kind, type, i, first, scope) ==
    /\ act[c].pc = "idle"
    /\ kind \in CommandKinds
    /\ Change(type, i)
    /\ act' = [act EXCEPT ![c] = [Resting EXCEPT !.pc = first, !.scope = scope,
                                                 !.todo = CommandDrops(kind, i)]]
    /\ UNCHANGED <<storeVars, outside, queueVars, ifaceVars, faults>>

CreateOpkgTun(c, i) == Command(c, "create", "created", i, "fetch", Ifaces)
DeleteOpkgTun(c, i) == Command(c, "delete", "destroyed", i, "fetch", Ifaces)
InterfaceUp(c, i)   == Command(c, "up", "conf", i, "boot", {i})
SetAddress(c, i)    == Command(c, "address", "address", i, "boot", {i})
ClearAddress(c, i)  == Command(c, "clear", "cleared", i, "boot", {i})

\* InterfaceStore.Get and List: bootstrap on the first call.
ReadIfaces(c) ==
    /\ act[c].pc = "idle"
    /\ "read" \in CommandKinds
    /\ ~booted
    /\ act' = [act EXCEPT ![c] = [Resting EXCEPT !.pc = "boot"]]
    /\ UNCHANGED <<vars, ndmsVars, queueVars, ifaceVars, faults>>

-----------------------------------------------------------------------------

RefreshStep(a) == EnsureBootstrap(a) \/ BootFetch(a) \/ BootStore(a) \/ FetchIface(a) \/ DropKey(a)

WorkerStep == Wake \/ Drain \/ ApplyPatch \/ ApplyCreated \/ StoreCreated \/ RefreshStep(Worker)

CommandStep(c) == RefreshStep(c) \/ StoreRefresh(c)

Issue(c) == \/ \E i \in Ifaces : \/ CreateOpkgTun(c, i) \/ DeleteOpkgTun(c, i)
                                 \/ InterfaceUp(c, i) \/ SetAddress(c, i) \/ ClearAddress(c, i)
            \/ ReadIfaces(c)

Fault == \/ DeliverAgain \/ Lose \/ CreatedFail \/ BootFail(Worker)
         \/ \E c \in Commands : RefreshFail(c) \/ BootFail(c)

Next ==
    \/ Outside \/ Deliver \/ Notify \/ WorkerStep \/ Fault
    \/ \E c \in Commands : Issue(c) \/ CommandStep(c)
    \/ (\E r \in Readers : GetStep(r)) /\ UNCHANGED viewVars
    \/ (\E k \in Keys : Expire(k)) /\ UNCHANGED viewVars

Spec == Init /\ [][Next]_allVars

\* Hook scripts run, goroutines run, and every request is answered or times
\* out.  Nobody is obliged to change NDMS, to issue a command or to read.
FairSpec ==
    /\ Spec
    /\ WF_allVars(Deliver) /\ WF_allVars(Notify) /\ WF_allVars(WorkerStep)
    /\ \A c \in Commands : WF_allVars(CommandStep(c))
    /\ \A r \in Readers : WF_allVars(Progress(r) /\ UNCHANGED viewVars)

-----------------------------------------------------------------------------
(* Properties *)

\* Every hook that was sent has been applied.
Quiet == hooks = <<>> /\ queue = <<>> /\ batch = <<>>

\* A cached field agrees with NDMS's; of an address that NDMS has removed
\* nothing is asked, for OnIPChanged does not take it out of the map.
FieldAgrees(f, cached, held) == cached = held \/ (f = "address" /\ held = NoAddress)

Agrees(i) ==
    /\ byID[i] = Absent <=> ifc[i] = Absent
    /\ Present(i) => \A f \in Fields : FieldAgrees(f, byID[i][f], ifc[i][f])

\* The event-sourced map catches up with NDMS: whatever commands, bootstraps
\* and repeated hooks interleave with the events, once they are all applied the
\* map has the interfaces NDMS has, and of each the layers and the address that
\* NDMS holds (an address NDMS has removed may remain), unless one of its hooks
\* was lost or its fetch failed, or an event was applied between the fetch and
\* the store of a refresh (OnLayerChanged: "bootstrap or a future command-side
\* Invalidate will reconcile").
ViewCatchesUp ==
    Quiet /\ booted => \A i \in Ifaces : Agrees(i) \/ tainted[i]

\* Every delivered hook reaches the TTL stores: once all are applied, reads
\* that begin now return data no older than the last hooked change, unless
\* the invalidation met a fetch in flight.
HooksReachStores ==
    Quiet => \A k \in Keys : floor[k] >= due[k] \/ clash[k]

\* The TTL stores keep the promise of FreshReads: no Get that begins after an
\* invalidation returns older data (not through a shared call, an expired
\* entry or a failed fetch) unless a Get overlapped the invalidation, and
\* every Get returns.
ReadsAreFresh == Promise!Spec

\* No wake-up is lost: an event in the queue is eventually applied.
HooksDrain == (queue # <<>>) ~> (queue = <<>> /\ batch = <<>>)

=============================================================================
