------------------------------ MODULE KeyedStore ------------------------------
(***************************************************************************)
(* internal/ndms/cache: the TTL cache, the singleflight and the KeyedStore *)
(* built from them (ListStore is the case of a single key).                *)
(*                                                                         *)
(* Every critical section of TTL.mu and SingleFlight.mu is one action.  A  *)
(* singleflight call is identified by the reader that leads it: its value  *)
(* is published to the waiters by wg.Done(), and its entry in inFlight is  *)
(* deleted in a later critical section, so that a finished call may still  *)
(* be joined.  Data are versions of the source; an entry loses "fresh"     *)
(* when its TTL elapses and can then still be peeked at.                   *)
(***************************************************************************)
EXTENDS Naturals

CONSTANTS Keys,       \* cache keys
          Readers,    \* goroutines that call Get
          NoKey, NoEntry, NoCall, NoResult, Error,
          MaxFetchFails   \* bound: fetches that fail

ASSUME StoreAssumption ==
    /\ NoKey \notin Keys
    /\ NoCall \notin Readers
    /\ NoEntry \notin [v : Nat, fresh : BOOLEAN]
    /\ NoResult \notin Nat /\ Error \notin Nat /\ Error # NoResult
    /\ MaxFetchFails \in Nat

VARIABLES
    src,        \* version of the data NDMS holds per key
    entry,      \* TTL.m
    inFlight,   \* SingleFlight.inFlight: the leader of the call, or NoCall
    rd,         \* each reader's position in Get, key, floor at the call, value
    floor,      \* history: version at the last invalidation that met no call
    clash,      \* history: the last invalidation met a call in flight
    fetchFails  \* fetches that failed so far (bound)

storeVars == <<entry, inFlight, rd, floor, clash, fetchFails>>
vars == <<src, storeVars>>

Value == Nat \cup {Error}

Idle == [pc |-> "idle", key |-> NoKey, since |-> 0, val |-> NoResult]

InitStore ==
    /\ entry = [k \in Keys |-> NoEntry]
    /\ inFlight = [k \in Keys |-> NoCall]
    /\ rd = [r \in Readers |-> Idle]
    /\ floor = [k \in Keys |-> 0]
    /\ clash = [k \in Keys |-> FALSE]
    /\ fetchFails = 0

\* The state of a reader whose Get has returned v.
Returned(v) == [Idle EXCEPT !.val = v]

\* TTL.Get hits: the entry is there and its TTL has not elapsed.
Fresh(k) == entry[k] # NoEntry /\ entry[k].fresh

-----------------------------------------------------------------------------

\* A caller enters Get.
Begin(r, k) ==
    /\ rd[r].pc = "idle"
    /\ rd' = [rd EXCEPT ![r] = [pc |-> "get", key |-> k, since |-> floor[k],
                                val |-> NoResult]]
    /\ UNCHANGED <<src, entry, inFlight, floor, clash, fetchFails>>

\* ttl.Get.
Lookup(r) ==
    /\ rd[r].pc = "get"
    /\ rd' = [rd EXCEPT ![r] = IF Fresh(@.key) THEN Returned(entry[@.key].v)
                               ELSE [@ EXCEPT !.pc = "missed"]]
    /\ UNCHANGED <<src, entry, inFlight, floor, clash, fetchFails>>

\* SingleFlight.Do, no call in flight: this reader leads one.
Lead(r) ==
    /\ rd[r].pc = "missed"
    /\ inFlight[rd[r].key] = NoCall
    /\ inFlight' = [inFlight EXCEPT ![rd[r].key] = r]
    /\ rd' = [rd EXCEPT ![r].pc = "fetch"]
    /\ UNCHANGED <<src, entry, floor, clash, fetchFails>>

\* SingleFlight.Do, a call is in flight: wait for it, or take the value of one
\* that has finished and is not deleted yet.
Join(r) ==
    LET l == inFlight[rd[r].key] IN
    /\ rd[r].pc = "missed"
    /\ l # NoCall
    /\ rd' = [rd EXCEPT ![r] = IF rd[l].pc = "done"
                               THEN [@ EXCEPT !.pc = "return", !.val = rd[l].val]
                               ELSE [@ EXCEPT !.pc = "wait"]]
    /\ UNCHANGED <<src, entry, inFlight, floor, clash, fetchFails>>

\* The fetch closure's request is answered.
Fetch(r) ==
    /\ rd[r].pc = "fetch"
    /\ rd' = [rd EXCEPT ![r].pc = "set", ![r].val = src[rd[r].key]]
    /\ UNCHANGED <<src, entry, inFlight, floor, clash, fetchFails>>

\* The fetch failed: ttl.Peek serves an expired entry, else the error.
FetchFail(r) ==
    LET e == entry[rd[r].key] IN
    /\ rd[r].pc = "fetch"
    /\ fetchFails < MaxFetchFails
    /\ fetchFails' = fetchFails + 1
    /\ rd' = [rd EXCEPT ![r].pc = "settled",
                        ![r].val = IF e = NoEntry THEN Error ELSE e.v]
    /\ UNCHANGED <<src, entry, inFlight, floor, clash>>

\* ttl.Set.
Set(r) ==
    /\ rd[r].pc = "set"
    /\ entry' = [entry EXCEPT ![rd[r].key] = [v |-> rd[r].val, fresh |-> TRUE]]
    /\ rd' = [rd EXCEPT ![r].pc = "settled"]
    /\ UNCHANGED <<src, inFlight, floor, clash, fetchFails>>

\* The readers that wait for the call that r leads.
Waiters(r) == {w \in Readers : rd[w].pc = "wait" /\ rd[w].key = rd[r].key}

\* wg.Done.
Release(r) ==
    /\ rd[r].pc = "settled"
    /\ rd' = [w \in Readers |->
                IF w = r THEN [rd[r] EXCEPT !.pc = "done"]
                ELSE IF w \in Waiters(r)
                     THEN [rd[w] EXCEPT !.pc = "return", !.val = rd[r].val]
                     ELSE rd[w]]
    /\ UNCHANGED <<src, entry, inFlight, floor, clash, fetchFails>>

\* delete(inFlight, k); the leader returns.
Forget(r) ==
    /\ rd[r].pc = "done"
    /\ inFlight' = [inFlight EXCEPT ![rd[r].key] = NoCall]
    /\ rd' = [rd EXCEPT ![r] = Returned(rd[r].val)]
    /\ UNCHANGED <<src, entry, floor, clash, fetchFails>>

\* A waiter returns the value it shares.
Return(r) ==
    /\ rd[r].pc = "return"
    /\ rd' = [rd EXCEPT ![r] = Returned(rd[r].val)]
    /\ UNCHANGED <<src, entry, inFlight, floor, clash, fetchFails>>

\* The TTL of an entry elapses.
Expire(k) ==
    /\ Fresh(k)
    /\ entry' = [entry EXCEPT ![k].fresh = FALSE]
    /\ UNCHANGED <<src, inFlight, rd, floor, clash, fetchFails>>

\* Mutant of Dropped: the entry is only marked expired, so Peek still finds it.
DroppedToStale(m, k) ==
    IF m[k] = NoEntry THEN m ELSE [m EXCEPT ![k].fresh = FALSE]

\* TTL.Invalidate on the map.
Dropped(m, k) == [m EXCEPT ![k] = NoEntry]

\* KeyedStore.Invalidate, as a step of its caller (which leaves src alone or
\* not, and frames the rest of its own state).
InvalidateKey(k) ==
    /\ entry' = Dropped(entry, k)
    /\ floor' = [floor EXCEPT ![k] = IF inFlight[k] = NoCall THEN src[k] ELSE @]
    /\ clash' = [clash EXCEPT ![k] = inFlight[k] # NoCall]
    /\ UNCHANGED <<inFlight, rd, fetchFails>>

\* Get goes on until it returns.
Progress(r) ==
    Lookup(r) \/ Lead(r) \/ Join(r) \/ Fetch(r) \/ Set(r) \/ Release(r)
              \/ Forget(r) \/ Return(r)

GetStep(r) == (\E k \in Keys : Begin(r, k)) \/ Progress(r) \/ FetchFail(r)

-----------------------------------------------------------------------------

\* The promise, over the store's own state: a reader's result counts as
\* delivered when it is idle again.
Promise == INSTANCE FreshReads WITH
    key <- [r \in Readers |-> rd[r].key],
    since <- [r \in Readers |-> rd[r].since],
    out <- [r \in Readers |-> IF rd[r].pc = "idle" THEN rd[r].val ELSE NoResult]

=============================================================================
