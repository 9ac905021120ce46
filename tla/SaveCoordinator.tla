--------------------------- MODULE SaveCoordinator ---------------------------
(***************************************************************************)
(* The debounced flash writer of internal/ndms/command/save.go.            *)
(*                                                                         *)
(* Every mutation of the router's running configuration is followed by     *)
(* Request(), which arms a debounce timer; the timer goroutine (fire) and  *)
(* the synchronous Flush() both POST "system configuration save".  Two     *)
(* mutexes are involved: mu protects the fields and is held for the short  *)
(* sections only (one action each), saveMu is held across the POST.        *)
(*                                                                         *)
(* Time is abstracted: an armed timer may expire at any moment, so the     *)
(* debounce, maxWait (firstAt) and retryDelay durations are not modelled.  *)
(* A runtime timer and the goroutine it dispatches share one identity, a   *)
(* slot of Timers: Stop() on a dispatched timer does nothing, and s.timer  *)
(* may be overwritten while an older timer is still armed.                 *)
(***************************************************************************)
EXTENDS Naturals

CONSTANTS Timers,       \* slots for runtime timers and their fire goroutines
          Flushers,     \* concurrent callers of Flush
          None,         \* nil timer / free saveMu
          MaxRetries,   \* s.maxRetries (3 in production)
          MaxRev,       \* bound: configuration mutations
          MaxFailures   \* bound: save POSTs that return an error

ASSUME ConstantsAssumption ==
    /\ Timers \cap Flushers = {}
    /\ None \notin Timers \cup Flushers
    /\ MaxRetries \in Nat
    /\ MaxRev \in Nat
    /\ MaxFailures \in Nat

VARIABLES
    pc,              \* where each timer goroutine and each Flush call is
    timerRef,        \* s.timer
    saveMu,          \* holder of saveMu
    flushInProgress, \* s.flushInProgress
    state,           \* s.state
    pendingCount,    \* s.pendingCount
    retryCount,      \* s.retryCount
    rev,             \* revision of the running configuration (NDMS)
    owed,            \* mutations posted whose Request() has not run yet
    savedRev,        \* revision last written to flash (NDMS)
    view,            \* revision the running-config that NDMS publishes shows
    cacheFloor,      \* oldest revision the RunningConfig cache may hold
    posted,          \* revision an attempt under way has written, 0: none
    failures         \* POSTs that failed so far (bound)

coordVars == <<timerRef, flushInProgress, state, pendingCount, retryCount>>
ndmsVars  == <<rev, owed, savedRev>>
cacheVars == <<view, cacheFloor, posted>>
vars == <<pc, timerRef, saveMu, flushInProgress, state, pendingCount,
          retryCount, rev, owed, savedRev, view, cacheFloor, posted, failures>>

Actors == Timers \cup Flushers

SaveState == {"idle", "pending", "saving", "error", "failed"}

Phase == {"free", "armed", "dispatched", "queued",
          "posting", "saved", "ok", "err", "settling"}

\* A POST is in flight: the actor holds saveMu.
Posting == {"posting", "saved"}

\* Phases from which an actor will still move the status indicator.
Live == {"armed", "dispatched", "queued", "posting", "saved", "ok", "err"}

-----------------------------------------------------------------------------

Init ==
    /\ pc = [a \in Actors |-> "free"]
    /\ timerRef = None
    /\ saveMu = None
    /\ flushInProgress = FALSE
    /\ state = "idle"
    /\ pendingCount = 0
    /\ retryCount = 0
    /\ rev = 0
    /\ owed = 0
    /\ savedRev = 0
    /\ view = 0
    /\ cacheFloor = 0
    /\ posted = [a \in Actors |-> 0]
    /\ failures = 0

\* The effect of s.timer.Stop() on the goroutines: an armed timer is disarmed,
\* one that was already dispatched runs on.
Stopped(p) ==
    IF timerRef # None /\ p[timerRef] = "armed"
    THEN [p EXCEPT ![timerRef] = "free"]
    ELSE p

\* postMutation: the mutating POST has reached NDMS; Request() comes later.
PostMutation ==
    /\ rev < MaxRev
    /\ rev' = rev + 1
    /\ owed' = owed + 1
    /\ UNCHANGED <<pc, coordVars, saveMu, savedRev, cacheVars, failures>>

\* Mutant of Request: a request that arrives during a save trusts that save.
RequestDuringSaveDropped ==
    /\ owed > 0
    /\ owed' = owed - 1
    /\ pendingCount' = pendingCount + 1
    /\ IF state = "saving"
       THEN UNCHANGED <<pc, timerRef, state>>
       ELSE /\ state' = "pending"
            /\ \E t \in Timers :
                  /\ Stopped(pc)[t] = "free"
                  /\ pc' = [Stopped(pc) EXCEPT ![t] = "armed"]
                  /\ timerRef' = t
    /\ UNCHANGED <<saveMu, flushInProgress, retryCount, rev, savedRev, cacheVars, failures>>

\* Request: re-arm the debounce timer.  MaxRev and |Timers| bound the slots.
Request ==
    /\ owed > 0
    /\ owed' = owed - 1
    /\ pendingCount' = pendingCount + 1
    /\ state' = "pending"
    /\ \E t \in Timers :
          /\ Stopped(pc)[t] = "free"
          /\ pc' = [Stopped(pc) EXCEPT ![t] = "armed"]
          /\ timerRef' = t
    /\ UNCHANGED <<saveMu, flushInProgress, retryCount, rev, savedRev, cacheVars, failures>>

\* The runtime dispatches the timer's function.
Expire(t) ==
    /\ pc[t] = "armed"
    /\ pc' = [pc EXCEPT ![t] = "dispatched"]
    /\ UNCHANGED <<coordVars, ndmsVars, saveMu, cacheVars, failures>>

\* fire, first section under mu.
FireBegin(t) ==
    /\ pc[t] = "dispatched"
    /\ timerRef' = None
    /\ IF flushInProgress
       THEN /\ pc' = [pc EXCEPT ![t] = "free"]
            /\ UNCHANGED state
       ELSE /\ pc' = [pc EXCEPT ![t] = "queued"]
            /\ state' = "saving"
    /\ UNCHANGED <<flushInProgress, pendingCount, retryCount, ndmsVars, saveMu,
                   cacheVars, failures>>

\* Mutant of AcquireSave: the POST is sent without saveMu.
AcquireSaveUnlocked(a) ==
    /\ pc[a] = "queued"
    /\ saveMu' = a
    /\ pc' = [pc EXCEPT ![a] = "posting"]
    /\ UNCHANGED <<coordVars, ndmsVars, cacheVars, failures>>

\* saveMu.Lock() of fire and of Flush.
AcquireSave(a) ==
    /\ pc[a] = "queued"
    /\ saveMu = None
    /\ saveMu' = a
    /\ pc' = [pc EXCEPT ![a] = "posting"]
    /\ UNCHANGED <<coordVars, ndmsVars, cacheVars, failures>>

\* NDMS writes its running configuration to flash.
NdmsSave(a) ==
    /\ pc[a] = "posting"
    /\ pc' = [pc EXCEPT ![a] = "saved"]
    /\ savedRev' = rev
    /\ posted' = [posted EXCEPT ![a] = rev]
    /\ UNCHANGED <<coordVars, saveMu, rev, owed, view, cacheFloor, failures>>

\* NDMS publishes the running-config it has written, some time after the write.
Publish ==
    /\ view # savedRev
    /\ view' = savedRev
    /\ UNCHANGED <<pc, coordVars, ndmsVars, saveMu, cacheFloor, posted, failures>>

\* Post returns success, saveMu.Unlock().
PostOk(a) ==
    /\ pc[a] = "saved"
    /\ pc' = [pc EXCEPT ![a] = "ok"]
    /\ saveMu' = None
    /\ UNCHANGED <<coordVars, ndmsVars, cacheVars, failures>>

\* Post returns an error (refused, timed out, or the answer to a completed
\* save was lost), saveMu.Unlock().
PostErr(a) ==
    /\ pc[a] \in Posting
    /\ failures < MaxFailures
    /\ failures' = failures + 1
    /\ pc' = [pc EXCEPT ![a] = "err"]
    /\ saveMu' = None
    /\ posted' = [posted EXCEPT ![a] = 0]
    /\ UNCHANGED <<coordVars, ndmsVars, view, cacheFloor>>

\* fire, last section under mu: a Flush in progress owns the transition.
FireYield(t) ==
    /\ pc[t] \in {"ok", "err"}
    /\ flushInProgress
    /\ pc' = [pc EXCEPT ![t] = "free"]
    /\ posted' = [posted EXCEPT ![t] = 0]
    /\ UNCHANGED <<coordVars, ndmsVars, saveMu, view, cacheFloor, failures>>

FireOk(t) ==
    /\ pc[t] = "ok"
    /\ ~flushInProgress
    /\ pendingCount' = 0
    /\ retryCount' = 0
    /\ state' = "idle"
    /\ pc' = [pc EXCEPT ![t] = "settling"]
    /\ UNCHANGED <<timerRef, flushInProgress, ndmsVars, saveMu, cacheVars, failures>>

\* Mutant of FireErr: the error is published but no retry timer is armed.
FireErrNoRetry(t) ==
    /\ pc[t] = "err"
    /\ ~flushInProgress
    /\ retryCount' = retryCount + 1
    /\ state' = IF retryCount + 1 > MaxRetries THEN "failed" ELSE "error"
    /\ pc' = [pc EXCEPT ![t] = "free"]
    /\ UNCHANGED <<timerRef, flushInProgress, pendingCount, ndmsVars, saveMu, cacheVars,
                   failures>>

\* The retry is a fresh timer; the previous s.timer is overwritten, not stopped.
FireErr(t) ==
    /\ pc[t] = "err"
    /\ ~flushInProgress
    /\ retryCount' = retryCount + 1
    /\ IF retryCount + 1 > MaxRetries
       THEN /\ state' = "failed"
            /\ pc' = [pc EXCEPT ![t] = "free"]
            /\ UNCHANGED timerRef
       ELSE /\ state' = "error"
            /\ pc' = [pc EXCEPT ![t] = "armed"]
            /\ timerRef' = t
    /\ UNCHANGED <<flushInProgress, pendingCount, ndmsVars, saveMu, cacheVars, failures>>

\* What a reader caches after an invalidation is at least what is published.
DropCache(a) ==
    /\ pc[a] = "settling"
    /\ pc' = [pc EXCEPT ![a] = "free"]
    /\ cacheFloor' = view
    /\ posted' = [posted EXCEPT ![a] = 0]
    /\ UNCHANGED <<coordVars, ndmsVars, saveMu, view, failures>>

\* Mutant of Invalidate: fire does not wait for NDMS to publish.
InvalidateUnsettled(a) == DropCache(a)

\* Invalidation of the RunningConfig cache, outside the mutexes: fire sleeps
\* settleDelay first, which outlasts the publication of what it saved; Flush
\* invalidates at once.
Invalidate(a) ==
    /\ a \in Timers => view >= posted[a]
    /\ DropCache(a)

\* Flush, first section under mu.
FlushBegin(f) ==
    /\ pc[f] = "free"
    /\ pc' = [Stopped(pc) EXCEPT ![f] = "queued"]
    /\ timerRef' = None
    /\ flushInProgress' = TRUE
    /\ state' = "saving"
    /\ UNCHANGED <<pendingCount, retryCount, ndmsVars, saveMu, cacheVars, failures>>

FlushOk(f) ==
    /\ pc[f] = "ok"
    /\ flushInProgress' = FALSE
    /\ pendingCount' = 0
    /\ retryCount' = 0
    /\ state' = "idle"
    /\ pc' = [pc EXCEPT ![f] = "settling"]
    /\ UNCHANGED <<timerRef, ndmsVars, saveMu, cacheVars, failures>>

\* Mutant of FlushErr: the failure is returned to the caller but not published.
FlushErrSilent(f) ==
    /\ pc[f] = "err"
    /\ flushInProgress' = FALSE
    /\ retryCount' = MaxRetries + 1
    /\ pc' = [pc EXCEPT ![f] = "free"]
    /\ UNCHANGED <<timerRef, state, pendingCount, ndmsVars, saveMu, cacheVars, failures>>

\* Mutant of FlushErr: the early return forgets to clear flushInProgress.
FlushErrKeepsFlag(f) ==
    /\ pc[f] = "err"
    /\ retryCount' = MaxRetries + 1
    /\ state' = "failed"
    /\ pc' = [pc EXCEPT ![f] = "free"]
    /\ UNCHANGED <<timerRef, flushInProgress, pendingCount, ndmsVars, saveMu, cacheVars,
                   failures>>

FlushErr(f) ==
    /\ pc[f] = "err"
    /\ flushInProgress' = FALSE
    /\ retryCount' = MaxRetries + 1
    /\ state' = "failed"
    /\ pc' = [pc EXCEPT ![f] = "free"]
    /\ UNCHANGED <<timerRef, pendingCount, ndmsVars, saveMu, cacheVars, failures>>

-----------------------------------------------------------------------------

\* One save attempt, common to fire and Flush.
PostStep(a) == AcquireSave(a) \/ NdmsSave(a) \/ PostOk(a) \/ PostErr(a) \/ Invalidate(a)

FireStep(t) == FireBegin(t) \/ FireYield(t) \/ FireOk(t) \/ FireErr(t)

FlushStep(f) == FlushBegin(f) \/ FlushOk(f) \/ FlushErr(f)

Next ==
    \/ PostMutation
    \/ Request
    \/ Publish
    \/ \E t \in Timers : Expire(t) \/ FireStep(t)
    \/ \E f \in Flushers : FlushStep(f)
    \/ \E a \in Actors : PostStep(a)

Spec == Init /\ [][Next]_vars

\* Timers expire, goroutines run, POSTs return (30 s timeout, or the caller's
\* context), sync.Mutex is starvation-free, and the code between a mutation and
\* its Request() does not block.  Nobody is obliged to mutate or to Flush.
Fairness ==
    /\ WF_vars(Request)
    /\ WF_vars(Publish)
    /\ \A t \in Timers : WF_vars(Expire(t)) /\ WF_vars(FireStep(t))
    /\ \A f \in Flushers : WF_vars(FlushOk(f) \/ FlushErr(f))
    /\ \A a \in Actors : /\ SF_vars(AcquireSave(a))
                         /\ WF_vars(NdmsSave(a) \/ PostOk(a))
                         /\ WF_vars(Invalidate(a))

FairSpec == Spec /\ Fairness

-----------------------------------------------------------------------------
(* Properties *)

\* Types: the coordinator's fields, its actors' phases and NDMS's revisions
\* (no count of pending requests or owed Requests falls below zero).
TypeOK ==
    /\ pc \in [Actors -> Phase]
    /\ timerRef \in Timers \cup {None}
    /\ saveMu \in Actors \cup {None}
    /\ flushInProgress \in BOOLEAN
    /\ state \in SaveState
    /\ pendingCount \in Nat
    /\ retryCount \in Nat
    /\ rev \in Nat
    /\ owed \in Nat
    /\ savedRev \in Nat
    /\ view \in Nat
    /\ cacheFloor \in Nat
    /\ posted \in [Actors -> Nat]
    /\ failures \in Nat

\* At most one save POST is in flight, whoever sends it: saveMu is held by
\* exactly the actor whose POST is out ("Serialise concurrent Save POSTs").
OneSaveInFlight ==
    \A a \in Actors : pc[a] \in Posting <=> saveMu = a

\* The status indicator is never stuck: while it shows pending, saving or
\* error, some timer, fire or Flush is still on its way to change it, however
\* timers, yields to Flush and concurrent Flush calls interleave.
IndicatorBacked ==
    state \in {"pending", "saving", "error"} => \E a \in Actors : pc[a] \in Live

\* The yield protocol: fire gives its work up only to a Flush that has still
\* to publish its own result.
YieldIsBacked ==
    flushInProgress =>
        \E f \in Flushers : pc[f] \in {"queued", "posting", "saved", "ok", "err"}

\* No timer, fire or Flush is on its way.
Quiet == \A a \in Actors : pc[a] = "free"

\* Every requested change reaches flash or the user is told: once everything
\* is quiet, unsaved changes are possible only under the failed indicator.
NoLostSave ==
    (Quiet /\ owed = 0 /\ savedRev < rev) => state = "failed"

\* While nobody calls Flush and the retry budget is not used up: whatever fires
\* overlap, fail and retry, the RunningConfig cache cannot hold a view older
\* than what is on flash once everything is quiet, though NDMS publishes its
\* view only some time after each save ("so the next reader gets fresh data").
IdleCacheInvalidated ==
    Quiet => cacheFloor >= savedRev

\* The indicator settles: it never shows pending, saving or error forever.
IndicatorSettles ==
    (state \in {"pending", "saving", "error"}) ~> (state \in {"idle", "failed"})

\* While nobody calls Flush and the retry budget is not used up, every change
\* is saved: debounce, overwritten timers and retries never drop a request.
EverythingSaved ==
    (savedRev < rev) ~> (savedRev = rev)

=============================================================================
