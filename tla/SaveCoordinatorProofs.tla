------------------------ MODULE SaveCoordinatorProofs ------------------------
(***************************************************************************)
(* For every number of timers, of concurrent Flush calls and of retries:   *)
(* save POSTs are serialised, a fire that yields is covered by a Flush     *)
(* that has still to publish, and the status indicator is never stuck.     *)
(***************************************************************************)
EXTENDS SaveCoordinator, FiniteSetTheorems, TLAPS

\* Disarming s.timer keeps the phases well typed and touches armed slots only.
LEMMA StoppedType ==
    ASSUME TypeOK
    PROVE  /\ Stopped(pc) \in [Actors -> Phase]
           /\ \A a \in Actors : Stopped(pc)[a] # pc[a] =>
                 pc[a] = "armed" /\ Stopped(pc)[a] = "free"
  BY ConstantsAssumption DEF Stopped, TypeOK, Actors, Phase

\* Every section of fire, Flush and Request leaves the fields well typed.
THEOREM TypeCorrect == Spec => []TypeOK
  <1>1. Init => TypeOK
    <2> SUFFICES ASSUME Init
                 PROVE  TypeOK
      OBVIOUS
    <2>1. pc \in [Actors -> Phase]
      BY DEF Init, Phase
    <2>2. flushInProgress \in BOOLEAN /\ state \in SaveState
      BY Zenon DEF Init, SaveState
    <2> QED
      BY <2>1, <2>2 DEF Init, TypeOK
  <1>2. TypeOK /\ [Next]_vars => TypeOK'
    <2> SUFFICES ASSUME TypeOK, [Next]_vars
                 PROVE  TypeOK'
      OBVIOUS
    <2>1. CASE PostMutation
      BY <2>1 DEF PostMutation, TypeOK, coordVars, cacheVars
    <2>2. CASE Request
      BY <2>2, StoppedType DEF Request, TypeOK, Phase, SaveState, Actors, cacheVars
    <2>3. ASSUME NEW t \in Timers, Expire(t) \/ FireStep(t)
          PROVE  TypeOK'
      <3>1. CASE Expire(t)
        BY <3>1 DEF Expire, TypeOK, Phase, Actors, coordVars, ndmsVars, cacheVars
      <3>2. CASE FireBegin(t)
        BY <3>2 DEF FireBegin, TypeOK, Phase, SaveState, Actors, ndmsVars, cacheVars
      <3>3. CASE FireYield(t)
        BY <3>3 DEF FireYield, TypeOK, Phase, Actors, coordVars, ndmsVars, cacheVars
      <3>4. CASE FireOk(t)
        BY <3>4 DEF FireOk, TypeOK, Phase, SaveState, Actors, ndmsVars, cacheVars
      <3>5. CASE FireErr(t)
        BY <3>5 DEF FireErr, TypeOK, Phase, SaveState, Actors, ndmsVars, cacheVars
      <3> QED
        BY <2>3, <3>1, <3>2, <3>3, <3>4, <3>5 DEF FireStep
    <2>4. ASSUME NEW f \in Flushers, FlushStep(f)
          PROVE  TypeOK'
      <3>1. CASE FlushBegin(f)
        BY <3>1, StoppedType DEF FlushBegin, TypeOK, Phase, SaveState, Actors, ndmsVars, cacheVars
      <3>2. CASE FlushOk(f)
        BY <3>2 DEF FlushOk, TypeOK, Phase, SaveState, Actors, ndmsVars, cacheVars
      <3>3. CASE FlushErr(f)
        <4>1. flushInProgress' \in BOOLEAN
          BY <3>3, Zenon DEF FlushErr, TypeOK
        <4>2. pc' \in [Actors -> Phase] /\ state' \in SaveState
          BY <3>3 DEF FlushErr, TypeOK, Phase, SaveState, Actors
        <4>3. retryCount' \in Nat
          BY <3>3, ConstantsAssumption DEF FlushErr
        <4> QED
          BY <3>3, <4>1, <4>2, <4>3 DEF FlushErr, TypeOK, ndmsVars, cacheVars
      <3> QED
        BY <2>4, <3>1, <3>2, <3>3 DEF FlushStep
    <2>5. ASSUME NEW a \in Actors, PostStep(a)
          PROVE  TypeOK'
      <3>1. flushInProgress' \in BOOLEAN
        BY <2>5, Zenon DEF PostStep, AcquireSave, NdmsSave, PostOk, PostErr, Invalidate, DropCache,
                           TypeOK, coordVars
      <3>2. pc' \in [Actors -> Phase] /\ saveMu' \in Actors \cup {None}
        BY <2>5 DEF PostStep, AcquireSave, NdmsSave, PostOk, PostErr, Invalidate, DropCache, TypeOK, Phase
      <3> QED
        BY <2>5, <3>1, <3>2 DEF PostStep, AcquireSave, NdmsSave, PostOk, PostErr, Invalidate, DropCache,
                                TypeOK, coordVars, ndmsVars, cacheVars
    <2>6. CASE Publish
      BY <2>6 DEF Publish, TypeOK, coordVars, ndmsVars
    <2>7. CASE UNCHANGED vars
      BY <2>7 DEF vars, TypeOK
    <2> QED
      BY <2>1, <2>2, <2>3, <2>4, <2>5, <2>6, <2>7 DEF Next
  <1> QED
    BY <1>1, <1>2, PTL DEF Spec

-----------------------------------------------------------------------------

\* saveMu serialises the save POSTs of fire and Flush (save.go:177, 249).
THEOREM SavesSerialised == Spec => []OneSaveInFlight
  <1>1. Init => OneSaveInFlight
    BY ConstantsAssumption DEF Init, OneSaveInFlight, Posting, Actors
  <1>2. TypeOK /\ OneSaveInFlight /\ [Next]_vars => OneSaveInFlight'
    <2> SUFFICES ASSUME TypeOK, OneSaveInFlight, [Next]_vars
                 PROVE  OneSaveInFlight'
      OBVIOUS
    <2> USE DEF OneSaveInFlight, Posting
    <2>1. CASE PostMutation
      BY <2>1 DEF PostMutation, coordVars
    <2>2. CASE Request
      BY <2>2, StoppedType DEF Request, TypeOK, Actors
    <2>3. ASSUME NEW t \in Timers, Expire(t) \/ FireStep(t)
          PROVE  OneSaveInFlight'
      BY <2>3 DEF Expire, FireStep, FireBegin, FireYield, FireOk, FireErr,
                  TypeOK, Actors, coordVars, ndmsVars, cacheVars
    <2>4. ASSUME NEW f \in Flushers, FlushStep(f)
          PROVE  OneSaveInFlight'
      BY <2>4, StoppedType DEF FlushStep, FlushBegin, FlushOk, FlushErr, TypeOK, Actors, ndmsVars, cacheVars
    <2>5. ASSUME NEW a \in Actors, PostStep(a)
          PROVE  OneSaveInFlight'
      BY <2>5, ConstantsAssumption
         DEF PostStep, AcquireSave, NdmsSave, PostOk, PostErr, Invalidate, DropCache,
             TypeOK, Actors, coordVars, ndmsVars, cacheVars
    <2>6. CASE Publish
      BY <2>6 DEF Publish, coordVars
    <2>7. CASE UNCHANGED vars
      BY <2>7 DEF vars
    <2> QED
      BY <2>1, <2>2, <2>3, <2>4, <2>5, <2>6, <2>7 DEF Next
  <1> QED
    BY <1>1, <1>2, TypeCorrect, PTL DEF Spec

-----------------------------------------------------------------------------

\* The indicator argument: a fire may leave the indicator to a Flush only
\* because that Flush is still in its pipeline, so the two facts are
\* inductive together and neither is alone.
IndicatorInv == YieldIsBacked /\ IndicatorBacked

\* Whatever fire, Flush and Request do in whatever order, an indicator that
\* shows pending, saving or error has somebody left who will change it.
THEOREM IndicatorNeverStuck == Spec => []IndicatorBacked
  <1>1. Init => IndicatorInv
    BY DEF Init, IndicatorInv, YieldIsBacked, IndicatorBacked
  <1>2. TypeOK /\ IndicatorInv /\ [Next]_vars => IndicatorInv'
    <2> SUFFICES ASSUME TypeOK, IndicatorInv, [Next]_vars
                 PROVE  IndicatorInv'
      OBVIOUS
    <2> USE DEF IndicatorInv, YieldIsBacked, IndicatorBacked, Live
    <2>0. Timers \cap Flushers = {} /\ Timers \subseteq Actors /\ Flushers \subseteq Actors
      BY ConstantsAssumption DEF Actors
    <2>1. CASE PostMutation
      BY <2>1 DEF PostMutation, coordVars
    <2>2. CASE Request
      BY <2>0, <2>2, StoppedType DEF Request, TypeOK
    <2>3. ASSUME NEW t \in Timers, Expire(t) \/ FireStep(t)
          PROVE  IndicatorInv'
      <3>1. CASE Expire(t)
        BY <2>0, <3>1 DEF Expire, TypeOK, coordVars
      <3>2. CASE FireBegin(t)
        BY <2>0, <3>2 DEF FireBegin, TypeOK
      <3>3. CASE FireYield(t)
        BY <2>0, <3>3 DEF FireYield, TypeOK, coordVars
      <3>4. CASE FireOk(t)
        BY <2>0, <3>4 DEF FireOk, TypeOK
      <3>5. CASE FireErr(t)
        BY <2>0, <3>5 DEF FireErr, TypeOK
      <3> QED
        BY <2>3, <3>1, <3>2, <3>3, <3>4, <3>5 DEF FireStep
    <2>4. ASSUME NEW f \in Flushers, FlushStep(f)
          PROVE  IndicatorInv'
      <3>1. CASE FlushBegin(f)
        BY <2>0, <3>1, StoppedType DEF FlushBegin, TypeOK
      <3>2. CASE FlushOk(f)
        BY <2>0, <3>2 DEF FlushOk, TypeOK
      <3>3. CASE FlushErr(f)
        BY <2>0, <3>3 DEF FlushErr, TypeOK
      <3> QED
        BY <2>4, <3>1, <3>2, <3>3 DEF FlushStep
    <2>5. ASSUME NEW a \in Actors, PostStep(a)
          PROVE  IndicatorInv'
      <3>1. UNCHANGED <<state, flushInProgress>>
        BY <2>5 DEF PostStep, AcquireSave, NdmsSave, PostOk, PostErr, Invalidate, DropCache, coordVars
      <3>2. \A b \in Actors : b # a => pc'[b] = pc[b]
        BY <2>5 DEF PostStep, AcquireSave, NdmsSave, PostOk, PostErr, Invalidate, DropCache, TypeOK
      <3>3. \/ pc[a] \notin Live
            \/ pc[a] # "armed" /\ pc'[a] \in {"posting", "saved", "ok", "err"}
        BY <2>5 DEF PostStep, AcquireSave, NdmsSave, PostOk, PostErr, Invalidate, DropCache, TypeOK, Posting
      <3> QED
        BY <2>0, <3>1, <3>2, <3>3
    <2>6. CASE Publish
      BY <2>6 DEF Publish, coordVars
    <2>7. CASE UNCHANGED vars
      BY <2>7 DEF vars
    <2> QED
      BY <2>1, <2>2, <2>3, <2>4, <2>5, <2>6, <2>7 DEF Next
  <1>3. IndicatorInv => IndicatorBacked
    BY DEF IndicatorInv
  <1> QED
    BY <1>1, <1>2, <1>3, TypeCorrect, PTL DEF Spec

\* The yield half of the argument, on its own: fire drops its transition only
\* in favour of a Flush that has still to publish one (save.go:158-161, 184).
THEOREM YieldsAreBacked == Spec => []YieldIsBacked
  <1>1. Init => YieldIsBacked
    BY DEF Init, YieldIsBacked
  <1>2. TypeOK /\ YieldIsBacked /\ [Next]_vars => YieldIsBacked'
    <2> SUFFICES ASSUME TypeOK, YieldIsBacked, [Next]_vars
                 PROVE  YieldIsBacked'
      OBVIOUS
    <2> USE DEF YieldIsBacked
    <2>0. Timers \cap Flushers = {} /\ Timers \subseteq Actors /\ Flushers \subseteq Actors
      BY ConstantsAssumption DEF Actors
    <2>1. CASE PostMutation
      BY <2>1 DEF PostMutation, coordVars
    <2>2. CASE Request
      BY <2>0, <2>2, StoppedType DEF Request, TypeOK
    <2>3. ASSUME NEW t \in Timers, Expire(t) \/ FireStep(t)
          PROVE  YieldIsBacked'
      BY <2>0, <2>3 DEF Expire, FireStep, FireBegin, FireYield, FireOk, FireErr, TypeOK, coordVars
    <2>4. ASSUME NEW f \in Flushers, FlushStep(f)
          PROVE  YieldIsBacked'
      BY <2>0, <2>4, StoppedType DEF FlushStep, FlushBegin, FlushOk, FlushErr, TypeOK
    <2>5. ASSUME NEW a \in Actors, PostStep(a)
          PROVE  YieldIsBacked'
      BY <2>0, <2>5 DEF PostStep, AcquireSave, NdmsSave, PostOk, PostErr, Invalidate, DropCache,
                        TypeOK, Posting, coordVars
    <2>6. CASE Publish
      BY <2>6 DEF Publish, coordVars
    <2>7. CASE UNCHANGED vars
      BY <2>7 DEF vars
    <2> QED
      BY <2>1, <2>2, <2>3, <2>4, <2>5, <2>6, <2>7 DEF Next
  <1> QED
    BY <1>1, <1>2, TypeCorrect, PTL DEF Spec

-----------------------------------------------------------------------------

\* Fires whose POST failed and who have not been through their last section.
Failing == {a \in Actors : pc[a] = "err"}

\* Without Flush: every failure is counted or about to be, and what is not on
\* flash has a Request or a fire still to come.
RetryInv ==
    /\ ~flushInProgress
    /\ retryCount + Cardinality(Failing) <= failures /\ failures <= MaxFailures
    /\ savedRev < rev => \/ owed > 0
                         \/ \E a \in Actors : pc[a] \in {"armed", "dispatched", "queued", "posting", "err"}

\* One actor moves, and not out of or into a failure.
LEMMA FailingSame ==
    ASSUME TypeOK, NEW a \in Actors, NEW p, pc' = [pc EXCEPT ![a] = p], pc[a] # "err", p # "err"
    PROVE  Failing' = Failing
  BY DEF Failing, TypeOK

LEMMA RetryInit ==
    ASSUME Init
    PROVE  RetryInv
  <1>1. Failing = {}
    BY DEF Init, Failing
  <1>2. Cardinality(Failing) = 0
    BY <1>1, FS_EmptySet
  <1> QED
    BY <1>2, ConstantsAssumption DEF Init, RetryInv

LEMMA RetryStep ==
    ASSUME Flushers = {}, IsFiniteSet(Timers), MaxFailures <= MaxRetries, TypeOK, RetryInv, [Next]_vars
    PROVE  RetryInv'
  <1> USE DEF RetryInv
  <1>0. Actors = Timers /\ IsFiniteSet(Failing)
    <2>1. Actors = Timers
      BY DEF Actors
    <2> QED
      BY <2>1, FS_Subset DEF Failing
  <1>1. Cardinality(Failing) \in Nat
    BY <1>0, FS_CardinalityType
  <1>2. CASE PostMutation
    <2>1. Failing' = Failing
      BY <1>2 DEF PostMutation, Failing
    <2> QED
      BY <1>2, <2>1 DEF PostMutation, coordVars, TypeOK
  <1>3. CASE Request
    <2>1. Failing' = Failing
      BY <1>3, <1>0, StoppedType DEF Request, Failing, TypeOK
    <2>2. \E t \in Timers : pc'[t] = "armed"
      BY <1>3, <1>0, StoppedType DEF Request
    <2> QED
      BY <1>0, <1>3, <2>1, <2>2 DEF Request
  <1>4. ASSUME NEW t \in Timers, Expire(t) \/ FireStep(t)
        PROVE  RetryInv'
    <2>1. CASE Expire(t)
      <3>1. Failing' = Failing
        BY <1>0, <2>1, FailingSame DEF Expire
      <3> QED
        BY <1>0, <2>1, <3>1 DEF Expire, TypeOK, coordVars, ndmsVars, cacheVars
    <2>2. CASE FireBegin(t)
      <3>1. Failing' = Failing
        BY <1>0, <2>2, FailingSame DEF FireBegin
      <3> QED
        BY <1>0, <2>2, <3>1 DEF FireBegin, TypeOK, ndmsVars, cacheVars
    <2>3. CASE FireYield(t)
      BY <2>3 DEF FireYield
    <2>4. CASE FireOk(t)
      <3>1. Failing' = Failing
        BY <1>0, <2>4, FailingSame DEF FireOk
      <3>2. 0 + Cardinality(Failing) <= failures
        BY <1>1 DEF TypeOK
      <3> QED
        BY <1>0, <2>4, <3>1, <3>2 DEF FireOk, TypeOK, ndmsVars, cacheVars
    <2>5. CASE FireErr(t)
      <3>1. t \in Failing /\ Failing' = Failing \ {t}
        BY <1>0, <2>5 DEF FireErr, Failing, TypeOK
      <3>2. Cardinality(Failing') = Cardinality(Failing) - 1
        BY <1>0, <3>1, FS_RemoveElement
      <3>3. Cardinality(Failing') \in Nat
        BY <1>0, <3>1, FS_RemoveElement, FS_CardinalityType
      <3>4. retryCount + 1 <= MaxRetries
        BY <1>1, <3>2, <3>3, ConstantsAssumption DEF TypeOK
      <3>5. pc' = [pc EXCEPT ![t] = "armed"] /\ retryCount' = retryCount + 1
        BY <2>5, <3>4, ConstantsAssumption DEF FireErr, TypeOK
      <3>6. pc'[t] = "armed"
        BY <1>0, <3>5 DEF TypeOK
      <3>7. retryCount' + Cardinality(Failing') <= failures'
        BY <1>1, <2>5, <3>2, <3>5 DEF FireErr, TypeOK
      <3> QED
        BY <1>0, <2>5, <3>6, <3>7 DEF FireErr
    <2> QED
      BY <1>4, <2>1, <2>2, <2>3, <2>4, <2>5 DEF FireStep
  <1>5. ASSUME NEW a \in Actors, PostStep(a)
        PROVE  RetryInv'
    <2>1. CASE AcquireSave(a)
      <3>1. Failing' = Failing
        BY <2>1, FailingSame DEF AcquireSave
      <3> QED
        BY <2>1, <3>1 DEF AcquireSave, TypeOK, coordVars, ndmsVars, cacheVars
    <2>2. CASE NdmsSave(a)
      <3>1. Failing' = Failing
        BY <2>2, FailingSame DEF NdmsSave
      <3> QED
        BY <2>2, <3>1 DEF NdmsSave, TypeOK, coordVars
    <2>3. CASE PostOk(a)
      <3>1. Failing' = Failing
        BY <2>3, FailingSame DEF PostOk
      <3> QED
        BY <2>3, <3>1 DEF PostOk, TypeOK, coordVars, ndmsVars, cacheVars
    <2>4. CASE PostErr(a)
      <3>1. a \notin Failing /\ Failing' = Failing \cup {a}
        BY <2>4 DEF PostErr, Failing, TypeOK, Posting
      <3>2. Cardinality(Failing') = Cardinality(Failing) + 1
        BY <1>0, <3>1, FS_AddElement
      <3>3. retryCount' + Cardinality(Failing') <= failures' /\ failures' <= MaxFailures
        BY <1>1, <2>4, <3>2, ConstantsAssumption DEF PostErr, TypeOK, coordVars
      <3> QED
        BY <2>4, <3>3 DEF PostErr, TypeOK, coordVars, ndmsVars, cacheVars
    <2>5. CASE Invalidate(a)
      <3>1. Failing' = Failing
        BY <2>5, FailingSame DEF Invalidate, DropCache
      <3> QED
        BY <2>5, <3>1 DEF Invalidate, DropCache, TypeOK, coordVars, ndmsVars, cacheVars
    <2> QED
      BY <1>5, <2>1, <2>2, <2>3, <2>4, <2>5 DEF PostStep
  <1>6. CASE UNCHANGED vars
    <2>1. Failing' = Failing
      BY <1>6 DEF vars, Failing
    <2> QED
      BY <1>6, <2>1 DEF vars
  <1>7. CASE Publish
    <2>1. Failing' = Failing
      BY <1>7 DEF Publish, Failing
    <2> QED
      BY <1>7, <2>1 DEF Publish, coordVars, ndmsVars
  <1> QED
    BY <1>2, <1>3, <1>4, <1>5, <1>6, <1>7 DEF Next

\* While nobody calls Flush and no more saves fail than there are retries,
\* debounced, overwritten and retried timers leave no change behind: once all
\* is quiet everything that was requested is on flash (Request, fire).
THEOREM NothingLostInBudget ==
    ASSUME Flushers = {}, IsFiniteSet(Timers), MaxFailures <= MaxRetries
    PROVE  Spec => []NoLostSave
  <1>1. Init => RetryInv
    BY RetryInit
  <1>2. TypeOK /\ RetryInv /\ [Next]_vars => RetryInv'
    BY RetryStep
  <1>3. TypeOK /\ RetryInv => NoLostSave
    BY DEF TypeOK, RetryInv, NoLostSave, Quiet
  <1> QED
    BY <1>1, <1>2, <1>3, TypeCorrect, PTL DEF Spec

-----------------------------------------------------------------------------

\* A save attempt is still to come.
Coming == \E a \in Actors : pc[a] \in {"armed", "dispatched", "queued", "posting", "err"}

\* Somebody who has written the newest revision has still to drop the cache.
Settling == \E a \in Actors : pc[a] \in {"saved", "ok", "settling"} /\ posted[a] = savedRev

\* NDMS publishes what it has saved and readers cache what it has published, in
\* that order; a cache that may be older has an attempt or an invalidation to come.
CacheInv ==
    /\ cacheFloor <= view /\ view <= savedRev /\ savedRev <= rev
    /\ cacheFloor < savedRev => Coming \/ Settling

LEMMA CacheStep ==
    ASSUME Flushers = {}, IsFiniteSet(Timers), MaxFailures <= MaxRetries,
           TypeOK, RetryInv, CacheInv, [Next]_vars
    PROVE  CacheInv'
  <1> USE DEF CacheInv
  <1>0. Actors = Timers /\ ~flushInProgress
    BY DEF Actors, RetryInv
  <1>1. CASE PostMutation
    BY <1>1 DEF PostMutation, TypeOK, cacheVars, Coming, Settling
  <1>2. CASE Request
    <2>1. Coming'
      BY <1>0, <1>2, StoppedType DEF Request, Coming
    <2> QED
      BY <1>2, <2>1 DEF Request, cacheVars
  <1>3. CASE Publish
    BY <1>3 DEF Publish, TypeOK, ndmsVars, Coming, Settling
  <1>4. ASSUME NEW t \in Timers, Expire(t) \/ FireBegin(t) \/ FireErr(t)
        PROVE  CacheInv'
    <2>1. pc'[t] \in {"armed", "dispatched", "queued"}
      <3>1. CASE Expire(t)
        BY <1>0, <3>1 DEF Expire, TypeOK
      <3>2. CASE FireBegin(t)
        BY <1>0, <3>2 DEF FireBegin, TypeOK
      <3>3. CASE FireErr(t)
        <4>1. IsFiniteSet(Failing) /\ t \in Failing
          BY <1>0, <3>3, FS_Subset DEF FireErr, Failing
        <4>2. Cardinality(Failing) \in Nat /\ Cardinality(Failing) # 0
          BY <4>1, FS_CardinalityType, FS_EmptySet
        <4>3. retryCount + 1 <= MaxRetries
          BY <4>2, ConstantsAssumption DEF TypeOK, RetryInv
        <4> QED
          BY <1>0, <3>3, <4>3, ConstantsAssumption DEF FireErr, TypeOK
      <3> QED
        BY <1>4, <3>1, <3>2, <3>3
    <2>2. Coming'
      BY <1>0, <2>1 DEF Coming
    <2>3. UNCHANGED <<cacheVars, ndmsVars>>
      BY <1>4 DEF Expire, FireBegin, FireErr
    <2> QED
      BY <2>2, <2>3 DEF cacheVars, ndmsVars
  <1>5. ASSUME NEW t \in Timers, FireYield(t) \/ FireOk(t)
        PROVE  CacheInv'
    <2>1. FireOk(t)
      BY <1>0, <1>5 DEF FireYield
    <2>2. Coming => Coming'
      BY <1>0, <2>1 DEF FireOk, Coming, TypeOK
    <2>3. Settling => Settling'
      BY <1>0, <2>1 DEF FireOk, Settling, TypeOK, cacheVars, ndmsVars
    <2> QED
      BY <2>1, <2>2, <2>3 DEF FireOk, cacheVars, ndmsVars
  <1>6. ASSUME NEW a \in Actors, PostStep(a)
        PROVE  CacheInv'
    <2>1. CASE AcquireSave(a)
      <3>1. Coming'
        BY <2>1 DEF AcquireSave, Coming, TypeOK
      <3> QED
        BY <2>1, <3>1 DEF AcquireSave, cacheVars, ndmsVars
    <2>2. CASE NdmsSave(a)
      <3>1. Settling'
        BY <2>2 DEF NdmsSave, Settling, TypeOK
      <3> QED
        BY <2>2, <3>1 DEF NdmsSave, TypeOK
    <2>3. CASE PostOk(a)
      <3>1. Coming => Coming'
        BY <2>3 DEF PostOk, Coming, TypeOK
      <3>2. Settling => Settling'
        BY <2>3 DEF PostOk, Settling, TypeOK, cacheVars, ndmsVars
      <3> QED
        BY <2>3, <3>1, <3>2 DEF PostOk, cacheVars, ndmsVars
    <2>4. CASE PostErr(a)
      <3>1. Coming'
        BY <2>4 DEF PostErr, Coming, TypeOK
      <3> QED
        BY <2>4, <3>1 DEF PostErr, ndmsVars
    <2>5. CASE Invalidate(a)
      <3>1. Coming => Coming'
        BY <2>5 DEF Invalidate, DropCache, Coming, TypeOK
      <3>2. cacheFloor' = view /\ view' = view /\ UNCHANGED <<savedRev, rev>>
        BY <2>5 DEF Invalidate, DropCache, ndmsVars
      <3>3. Settling => Settling' \/ view >= savedRev
        BY <1>0, <2>5 DEF Invalidate, DropCache, Settling, TypeOK, ndmsVars
      <3> QED
        BY <3>1, <3>2, <3>3 DEF TypeOK
    <2> QED
      BY <1>6, <2>1, <2>2, <2>3, <2>4, <2>5 DEF PostStep
  <1>7. CASE UNCHANGED vars
    BY <1>7 DEF vars, Coming, Settling
  <1> QED
    BY <1>1, <1>2, <1>3, <1>4, <1>5, <1>6, <1>7 DEF Next, FireStep

\* While nobody calls Flush and no more saves fail than there are retries, the
\* RunningConfig cache is dropped after NDMS has published the newest save, in
\* whatever order overlapping fires save and settle (save.go:197-207).
THEOREM CacheDroppedWhenIdle ==
    ASSUME Flushers = {}, IsFiniteSet(Timers), MaxFailures <= MaxRetries
    PROVE  Spec => []IdleCacheInvalidated
  <1>1. Init => RetryInv /\ CacheInv
    <2>1. Init => RetryInv
      BY RetryInit
    <2>2. Init => CacheInv
      BY DEF Init, CacheInv
    <2> QED
      BY <2>1, <2>2
  <1>2. TypeOK /\ RetryInv /\ CacheInv /\ [Next]_vars => RetryInv' /\ CacheInv'
    BY RetryStep, CacheStep
  <1>3. TypeOK /\ CacheInv => IdleCacheInvalidated
    BY DEF TypeOK, CacheInv, Coming, Settling, IdleCacheInvalidated, Quiet
  <1> QED
    BY <1>1, <1>2, <1>3, TypeCorrect, PTL DEF Spec

==============================================================================
