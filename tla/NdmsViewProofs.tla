---------------------------- MODULE NdmsViewProofs ----------------------------
(***************************************************************************)
(* The daemon's view of NDMS, for any interfaces, stores, readers and      *)
(* bounds: the TTL stores implement FreshReads (its safety part), step by  *)
(* step, and every delivered hook reaches them; once every hook is applied *)
(* the interface map is what NDMS holds, except for what lost or overtaken *)
(* events explain (ViewCatchesUp).                                         *)
(***************************************************************************)
EXTENDS NdmsView, TLAPS

(* The positions of a reader; those of one that leads a singleflight call. *)
Leading == {"fetch", "set", "settled", "done"}
Position == Leading \cup {"idle", "get", "missed", "wait", "return"}

Entry == [v : Nat, fresh : BOOLEAN]
Reader == [pc : Position, key : Keys \cup {NoKey}, since : Nat, val : Value \cup {NoResult}]

StoreType ==
  /\ src \in [Keys -> Nat]
  /\ entry \in [Keys -> Entry \cup {NoEntry}]
  /\ inFlight \in [Keys -> Readers \cup {NoCall}]
  /\ rd \in [Readers -> Reader]
  /\ floor \in [Keys -> Nat]

(* An entry is no older than the last invalidation that met no call. *)
EntriesCurrent ==
  \A k \in Keys : /\ floor[k] <= src[k]
                  /\ entry[k] # NoEntry => floor[k] <= entry[k].v /\ entry[k].v <= src[k]

(* A call in flight is led by a reader of its key. *)
CallsLed ==
  \A k \in Keys : inFlight[k] # NoCall =>
    rd[inFlight[k]].pc \in Leading /\ rd[inFlight[k]].key = k

(* What one reader holds: a leader's value is as current as its floor, a   *)
(* waiter's at least as current as the floor of its Get.                   *)
ReaderOK(r) ==
  /\ rd[r].pc = "idle" <=> rd[r].key = NoKey
  /\ rd[r].pc = "idle" => rd[r].since = 0
  /\ rd[r].pc # "idle" => rd[r].since <= floor[rd[r].key]
  /\ rd[r].pc \in Leading => inFlight[rd[r].key] = r
  /\ rd[r].pc = "set" => rd[r].val # Error
  /\ rd[r].pc \in {"set", "settled", "done"} /\ rd[r].val # Error =>
       /\ rd[r].val \in Nat
       /\ floor[rd[r].key] <= rd[r].val /\ rd[r].val <= src[rd[r].key]
  /\ rd[r].pc = "return" /\ rd[r].val # Error =>
       /\ rd[r].val \in Nat
       /\ rd[r].since <= rd[r].val /\ rd[r].val <= src[rd[r].key]

StoreInv == StoreType /\ EntriesCurrent /\ CallsLed /\ \A r \in Readers : ReaderOK(r)

------------------------------------------------------------------------------
(* The store's steps *)

LEMMA Moved ==
  ASSUME StoreInv, NEW r \in Readers, NEW x \in Reader, rd' = [rd EXCEPT ![r] = x]
  PROVE  /\ rd' \in [Readers -> Reader] /\ rd'[r] = x
         /\ \A q \in Readers \ {r} : rd'[q] = rd[q]
BY DEF StoreInv, StoreType

(* What callers see of a step that ends no Get and begins none. *)
LEMMA Silent ==
  ASSUME UNCHANGED <<src, floor>>,
         \A q \in Readers : /\ rd'[q].key = rd[q].key /\ rd'[q].since = rd[q].since
                            /\ rd'[q].pc = "idle" <=> rd[q].pc = "idle"
                            /\ rd[q].pc = "idle" => rd'[q].val = rd[q].val
  PROVE  UNCHANGED Promise!vars
<1>1. [q \in Readers |-> rd'[q].key] = [q \in Readers |-> rd[q].key]
  OBVIOUS
<1>2. [q \in Readers |-> rd'[q].since] = [q \in Readers |-> rd[q].since]
  OBVIOUS
<1>3. [q \in Readers |-> IF rd'[q].pc = "idle" THEN rd'[q].val ELSE NoResult]
        = [q \in Readers |-> IF rd[q].pc = "idle" THEN rd[q].val ELSE NoResult]
  OBVIOUS
<1> QED BY <1>1, <1>2, <1>3 DEF Promise!vars

(* A reader goes on within its Get; it leads its call before and after, or neither. *)
LEMMA GoesOn ==
  ASSUME StoreInv, NEW r \in Readers, NEW x \in Reader, rd' = [rd EXCEPT ![r] = x],
         UNCHANGED <<src, entry, inFlight, floor>>,
         rd[r].pc # "idle", x.pc # "idle", x.key = rd[r].key, x.since = rd[r].since,
         x.pc \in Leading <=> rd[r].pc \in Leading,
         x.pc = "set" => x.val # Error,
         x.pc \in {"set", "settled", "done"} /\ x.val # Error =>
           x.val \in Nat /\ floor[x.key] <= x.val /\ x.val <= src[x.key],
         x.pc = "return" /\ x.val # Error =>
           x.val \in Nat /\ x.since <= x.val /\ x.val <= src[x.key]
  PROVE  StoreInv' /\ UNCHANGED Promise!vars
<1>1. /\ rd' \in [Readers -> Reader] /\ rd'[r] = x
      /\ \A q \in Readers \ {r} : rd'[q] = rd[q]
  BY Moved
<1>2. ReaderOK(r)
  BY DEF StoreInv
<1>3. ASSUME NEW q \in Readers PROVE ReaderOK(q)'
  <2>1. CASE q = r
    BY <1>1, <1>2, <2>1 DEF ReaderOK
  <2>2. CASE q # r
    BY <1>1, <2>2 DEF StoreInv, ReaderOK
  <2> QED BY <2>1, <2>2
<1>4. CallsLed'
  BY <1>1 DEF StoreInv, StoreType, CallsLed
<1>5. StoreType' /\ EntriesCurrent'
  BY <1>1 DEF StoreInv, StoreType, EntriesCurrent
<1>6. UNCHANGED Promise!vars
  <2>1. ASSUME NEW q \in Readers
        PROVE  /\ rd'[q].key = rd[q].key /\ rd'[q].since = rd[q].since
               /\ rd'[q].pc = "idle" <=> rd[q].pc = "idle"
               /\ rd[q].pc = "idle" => rd'[q].val = rd[q].val
    BY <1>1
  <2> QED BY <2>1, Silent
<1> QED BY <1>3, <1>4, <1>5, <1>6 DEF StoreInv

(* A Get returns: what it returns is no older than the floor it began with. *)
LEMMA GetEnds ==
  ASSUME StoreInv, NEW r \in Readers, NEW v \in Value, rd' = [rd EXCEPT ![r] = Returned(v)],
         UNCHANGED <<src, entry, floor>>,
         rd[r].pc # "idle",
         v # Error => rd[r].since <= v /\ v <= src[rd[r].key],
         \/ UNCHANGED inFlight /\ rd[r].pc \notin Leading
         \/ inFlight' = [inFlight EXCEPT ![rd[r].key] = NoCall] /\ rd[r].pc \in Leading
  PROVE  StoreInv' /\ Promise!End(r)
<1> DEFINE x == Returned(v)
<1>1. x \in Reader /\ x.pc = "idle" /\ x.key = NoKey /\ x.since = 0 /\ x.val = v
  BY DEF Returned, Idle, Reader, Position
<1> HIDE DEF x
<1>2. /\ rd' \in [Readers -> Reader] /\ rd'[r] = x
      /\ \A q \in Readers \ {r} : rd'[q] = rd[q]
  BY <1>1, Moved DEF x
<1>3. rd[r] \in Reader /\ rd[r].key \in Keys
  BY DEF StoreInv, StoreType, Reader, ReaderOK
<1>4. /\ inFlight' \in [Keys -> Readers \cup {NoCall}]
      /\ \A k \in Keys : inFlight'[k] = IF k = rd[r].key /\ rd[r].pc \in Leading THEN NoCall ELSE inFlight[k]
  BY <1>3 DEF StoreInv, StoreType
<1>5. ASSUME NEW q \in Readers PROVE ReaderOK(q)'
  <2>1. CASE q = r
    BY <1>1, <1>2, <2>1, StoreAssumption DEF ReaderOK, Leading
  <2>2. CASE q # r
    <3>1. rd'[q] = rd[q] /\ ReaderOK(q) /\ ReaderOK(r) /\ rd[q] \in Reader
      BY <1>2, <2>2 DEF StoreInv, StoreType
    <3>2. rd[q].pc \in Leading => inFlight'[rd[q].key] = q
      BY <1>3, <1>4, <2>2, <3>1, StoreAssumption DEF ReaderOK, Reader, Leading
    <3> QED BY <3>1, <3>2 DEF ReaderOK
  <2> QED BY <2>1, <2>2
<1>6. CallsLed'
  <2> SUFFICES ASSUME NEW k \in Keys, inFlight'[k] # NoCall
               PROVE  rd'[inFlight'[k]].pc \in Leading /\ rd'[inFlight'[k]].key = k
    BY DEF CallsLed
  <2>1. inFlight'[k] = inFlight[k] /\ inFlight[k] \in Readers
    BY <1>4 DEF StoreInv, StoreType
  <2>2. rd[inFlight[k]].pc \in Leading /\ rd[inFlight[k]].key = k
    BY <2>1 DEF StoreInv, CallsLed
  <2>3. inFlight[k] # r
    BY <1>3, <1>4, <2>1, <2>2
  <2> QED BY <1>2, <2>1, <2>2, <2>3
<1>7. StoreType' /\ EntriesCurrent'
  BY <1>2, <1>4 DEF StoreInv, StoreType, EntriesCurrent
<1>8. Promise!End(r)
  <2>1. [q \in Readers |-> rd[q].key][r] # NoKey
    BY <1>3, StoreAssumption
  <2>2. [q \in Readers |-> rd'[q].key] = [[q \in Readers |-> rd[q].key] EXCEPT ![r] = NoKey]
    BY <1>1, <1>2
  <2>3. [q \in Readers |-> rd'[q].since] = [[q \in Readers |-> rd[q].since] EXCEPT ![r] = 0]
    BY <1>1, <1>2
  <2>4. [q \in Readers |-> IF rd'[q].pc = "idle" THEN rd'[q].val ELSE NoResult]
          = [[q \in Readers |-> IF rd[q].pc = "idle" THEN rd[q].val ELSE NoResult] EXCEPT ![r] = v]
    BY <1>1, <1>2
  <2>5. rd[r].since \in Nat /\ src[rd[r].key] \in Nat
    BY <1>3 DEF StoreInv, StoreType, Reader
  <2>6. v \in ([q \in Readers |-> rd[q].since][r] .. src[[q \in Readers |-> rd[q].key][r]]) \cup {Error}
    BY <2>5 DEF Value
  <2> QED BY <2>1, <2>2, <2>3, <2>4, <2>6 DEF Promise!End
<1> QED BY <1>5, <1>6, <1>7, <1>8 DEF StoreInv

LEMMA ReaderFacts ==
  ASSUME StoreInv, NEW r \in Readers
  PROVE  /\ rd[r] \in Reader /\ ReaderOK(r)
         /\ rd[r].pc # "idle" => rd[r].key \in Keys
BY DEF StoreInv, StoreType, Reader, ReaderOK

LEMMA BeginSim ==
  ASSUME StoreInv, NEW r \in Readers, NEW k \in Keys, Begin(r, k)
  PROVE  StoreInv' /\ Promise!Begin(r, k)
<1> DEFINE x == [pc |-> "get", key |-> k, since |-> floor[k], val |-> NoResult]
<1>1. /\ rd[r].pc = "idle" /\ rd' = [rd EXCEPT ![r] = x]
      /\ UNCHANGED <<src, entry, inFlight, floor>>
  BY DEF Begin
<1>2. x \in Reader /\ x.pc = "get" /\ x.key = k /\ x.since = floor[k] /\ x.val = NoResult
  BY DEF StoreInv, StoreType, Reader, Position
<1> HIDE DEF x
<1>3. /\ rd' \in [Readers -> Reader] /\ rd'[r] = x
      /\ \A q \in Readers \ {r} : rd'[q] = rd[q]
  BY <1>1, <1>2, Moved
<1>4. floor[k] \in Nat
  BY DEF StoreInv, StoreType
<1>5. ASSUME NEW q \in Readers PROVE ReaderOK(q)'
  <2>1. CASE q = r
    BY <1>1, <1>2, <1>3, <1>4, <2>1, StoreAssumption DEF ReaderOK, Leading
  <2>2. CASE q # r
    BY <1>1, <1>3, <2>2 DEF StoreInv, ReaderOK
  <2> QED BY <2>1, <2>2
<1>6. CallsLed'
  BY <1>1, <1>3 DEF StoreInv, StoreType, CallsLed, Leading
<1>7. StoreType' /\ EntriesCurrent'
  BY <1>1, <1>3 DEF StoreInv, StoreType, EntriesCurrent
<1>8. Promise!Begin(r, k)
  <2>1. [q \in Readers |-> rd[q].key][r] = NoKey
    BY <1>1 DEF StoreInv, ReaderOK
  <2>2. [q \in Readers |-> rd'[q].key] = [[q \in Readers |-> rd[q].key] EXCEPT ![r] = k]
    BY <1>2, <1>3
  <2>3. [q \in Readers |-> rd'[q].since] = [[q \in Readers |-> rd[q].since] EXCEPT ![r] = floor[k]]
    BY <1>2, <1>3
  <2>4. [q \in Readers |-> IF rd'[q].pc = "idle" THEN rd'[q].val ELSE NoResult]
          = [[q \in Readers |-> IF rd[q].pc = "idle" THEN rd[q].val ELSE NoResult] EXCEPT ![r] = NoResult]
    BY <1>2, <1>3
  <2> QED BY <1>1, <2>1, <2>2, <2>3, <2>4 DEF Promise!Begin
<1> QED BY <1>5, <1>6, <1>7, <1>8 DEF StoreInv

(* A hit ends the Get with the entry's value; a miss goes on. *)
LEMMA LookupSim ==
  ASSUME StoreInv, NEW r \in Readers, Lookup(r)
  PROVE  StoreInv' /\ (Promise!End(r) \/ UNCHANGED Promise!vars)
<1>1. rd[r].pc = "get" /\ rd[r] \in Reader /\ ReaderOK(r) /\ rd[r].key \in Keys
  BY ReaderFacts DEF Lookup
<1>2. UNCHANGED <<src, entry, inFlight, floor>>
  BY DEF Lookup
<1>3. CASE Fresh(rd[r].key)
  <2> DEFINE v == entry[rd[r].key].v
  <2>1. rd' = [rd EXCEPT ![r] = Returned(v)]
    BY <1>3 DEF Lookup
  <2>2. v \in Nat /\ floor[rd[r].key] <= v /\ v <= src[rd[r].key]
    BY <1>1, <1>3 DEF StoreInv, StoreType, EntriesCurrent, Fresh, Entry
  <2> HIDE DEF v
  <2>3. rd[r].since <= v
    BY <1>1, <2>2 DEF ReaderOK, StoreInv, StoreType, Reader
  <2> QED BY <1>1, <1>2, <2>1, <2>2, <2>3, GetEnds DEF Value, Leading
<1>4. CASE ~Fresh(rd[r].key)
  <2> DEFINE x == [rd[r] EXCEPT !.pc = "missed"]
  <2>1. rd' = [rd EXCEPT ![r] = x]
    BY <1>4 DEF Lookup
  <2>2. x \in Reader /\ x.pc = "missed" /\ x.key = rd[r].key /\ x.since = rd[r].since
    BY <1>1 DEF Reader, Position
  <2> HIDE DEF x
  <2> QED BY <1>1, <1>2, <2>1, <2>2, GoesOn DEF Leading
<1> QED BY <1>3, <1>4

LEMMA LeadSim ==
  ASSUME StoreInv, NEW r \in Readers, Lead(r)
  PROVE  StoreInv' /\ UNCHANGED Promise!vars
<1> DEFINE x == [rd[r] EXCEPT !.pc = "fetch"]
           k == rd[r].key
<1>1. rd[r].pc = "missed" /\ rd[r] \in Reader /\ ReaderOK(r) /\ rd[r].key \in Keys
  BY ReaderFacts DEF Lead
<1>2. /\ inFlight[k] = NoCall /\ inFlight' = [inFlight EXCEPT ![k] = r]
      /\ rd' = [rd EXCEPT ![r] = x] /\ UNCHANGED <<src, entry, floor>>
  BY DEF Lead
<1>3. x \in Reader /\ x.pc = "fetch" /\ x.key = k /\ x.since = rd[r].since
  BY <1>1 DEF Reader, Position, Leading
<1> HIDE DEF x
<1>4. /\ rd' \in [Readers -> Reader] /\ rd'[r] = x
      /\ \A q \in Readers \ {r} : rd'[q] = rd[q]
  BY <1>2, <1>3, Moved
<1>5. k \in Keys
  BY <1>1
<1>6. /\ inFlight' \in [Keys -> Readers \cup {NoCall}] /\ inFlight'[k] = r
      /\ \A j \in Keys \ {k} : inFlight'[j] = inFlight[j]
  BY <1>2, <1>5 DEF StoreInv, StoreType
<1>7. ASSUME NEW q \in Readers PROVE ReaderOK(q)'
  <2>1. CASE q = r
    BY <1>1, <1>2, <1>3, <1>4, <1>6, <2>1 DEF ReaderOK, Leading
  <2>2. CASE q # r
    <3>1. rd'[q] = rd[q] /\ ReaderOK(q) /\ (rd[q].pc # "idle" => rd[q].key \in Keys)
      BY <1>4, <2>2, ReaderFacts
    <3>2. rd[q].pc \in Leading => inFlight'[rd[q].key] = q
      BY <1>2, <1>6, <3>1, StoreAssumption DEF ReaderOK, Leading
    <3> QED BY <1>2, <3>1, <3>2 DEF ReaderOK
  <2> QED BY <2>1, <2>2
<1>8. CallsLed'
  <2> SUFFICES ASSUME NEW j \in Keys, inFlight'[j] # NoCall
               PROVE  rd'[inFlight'[j]].pc \in Leading /\ rd'[inFlight'[j]].key = j
    BY DEF CallsLed
  <2>1. CASE j = k
    BY <1>3, <1>4, <1>6, <2>1 DEF Leading
  <2>2. CASE j # k
    <3>1. inFlight'[j] = inFlight[j] /\ inFlight[j] \in Readers
      BY <1>6, <2>2 DEF StoreInv, StoreType
    <3>2. rd[inFlight[j]].pc \in Leading /\ rd[inFlight[j]].key = j
      BY <3>1 DEF StoreInv, CallsLed
    <3>3. inFlight[j] # r
      BY <1>1, <3>2 DEF Leading
    <3> QED BY <1>4, <3>1, <3>2, <3>3
  <2> QED BY <2>1, <2>2
<1>9. StoreType' /\ EntriesCurrent'
  BY <1>2, <1>4, <1>6 DEF StoreInv, StoreType, EntriesCurrent
<1>10. UNCHANGED Promise!vars
  <2>1. ASSUME NEW q \in Readers
        PROVE  /\ rd'[q].key = rd[q].key /\ rd'[q].since = rd[q].since
               /\ rd'[q].pc = "idle" <=> rd[q].pc = "idle"
               /\ rd[q].pc = "idle" => rd'[q].val = rd[q].val
    BY <1>1, <1>3, <1>4
  <2> QED BY <1>2, <2>1, Silent
<1> QED BY <1>7, <1>8, <1>9, <1>10 DEF StoreInv

LEMMA JoinSim ==
  ASSUME StoreInv, NEW r \in Readers, Join(r)
  PROVE  StoreInv' /\ UNCHANGED Promise!vars
<1> DEFINE l == inFlight[rd[r].key]
<1>1. rd[r].pc = "missed" /\ rd[r] \in Reader /\ ReaderOK(r) /\ rd[r].key \in Keys
  BY ReaderFacts DEF Join
<1>2. l # NoCall /\ UNCHANGED <<src, entry, inFlight, floor>>
  BY DEF Join
<1>3. l \in Readers /\ rd[l].key = rd[r].key
  BY <1>1, <1>2 DEF StoreInv, StoreType, CallsLed
<1>4. rd[l] \in Reader /\ ReaderOK(l)
  BY <1>3, ReaderFacts
<1>5. CASE rd[l].pc = "done"
  <2> DEFINE v == rd[l].val
             x == [rd[r] EXCEPT !.pc = "return", !.val = v]
  <2>1. rd' = [rd EXCEPT ![r] = x]
    BY <1>5 DEF Join
  <2>2. v \in Value \cup {NoResult}
    BY <1>4 DEF Reader
  <2>3. v # Error => v \in Nat /\ floor[rd[r].key] <= v /\ v <= src[rd[r].key]
    BY <1>3, <1>4, <1>5 DEF ReaderOK
  <2>4. v # Error => rd[r].since <= v
    BY <1>1, <2>3 DEF ReaderOK, Reader, StoreInv, StoreType
  <2> HIDE DEF v
  <2>5. x \in Reader /\ x.pc = "return" /\ x.key = rd[r].key /\ x.since = rd[r].since /\ x.val = v
    BY <1>1, <2>2 DEF Reader, Position
  <2> HIDE DEF x
  <2> QED BY <1>1, <1>2, <2>1, <2>3, <2>4, <2>5, GoesOn DEF Leading
<1>6. CASE rd[l].pc # "done"
  <2> DEFINE x == [rd[r] EXCEPT !.pc = "wait"]
  <2>1. rd' = [rd EXCEPT ![r] = x]
    BY <1>6 DEF Join
  <2>2. x \in Reader /\ x.pc = "wait" /\ x.key = rd[r].key /\ x.since = rd[r].since
    BY <1>1 DEF Reader, Position
  <2> HIDE DEF x
  <2> QED BY <1>1, <1>2, <2>1, <2>2, GoesOn DEF Leading
<1> QED BY <1>5, <1>6

LEMMA FetchSim ==
  ASSUME StoreInv, NEW r \in Readers, Fetch(r) \/ FetchFail(r)
  PROVE  StoreInv' /\ UNCHANGED Promise!vars
<1>1. rd[r].pc = "fetch" /\ rd[r] \in Reader /\ ReaderOK(r) /\ rd[r].key \in Keys
  BY ReaderFacts DEF Fetch, FetchFail
<1>2. UNCHANGED <<src, entry, inFlight, floor>>
  BY DEF Fetch, FetchFail
<1>3. CASE Fetch(r)
  <2> DEFINE v == src[rd[r].key]
             x == [rd[r] EXCEPT !.pc = "set", !.val = v]
  <2>1. rd' = [rd EXCEPT ![r] = x]
    BY <1>1, <1>3 DEF Fetch, StoreInv, StoreType
  <2>2. v \in Nat /\ floor[rd[r].key] <= v /\ v <= src[rd[r].key]
    BY <1>1 DEF StoreInv, StoreType, EntriesCurrent
  <2> HIDE DEF v
  <2>3. x \in Reader /\ x.pc = "set" /\ x.key = rd[r].key /\ x.since = rd[r].since /\ x.val = v
    BY <1>1, <2>2 DEF Reader, Position, Leading, Value
  <2> HIDE DEF x
  <2> QED BY <1>1, <1>2, <2>1, <2>2, <2>3, GoesOn, StoreAssumption DEF Leading
<1>4. CASE FetchFail(r)
  <2> DEFINE e == entry[rd[r].key]
             v == IF e = NoEntry THEN Error ELSE e.v
             x == [rd[r] EXCEPT !.pc = "settled", !.val = v]
  <2>1. rd' = [rd EXCEPT ![r] = x]
    BY <1>1, <1>4 DEF FetchFail, StoreInv, StoreType
  <2>2. v = Error \/ (v \in Nat /\ floor[rd[r].key] <= v /\ v <= src[rd[r].key])
    BY <1>1 DEF StoreInv, StoreType, EntriesCurrent, Entry
  <2> HIDE DEF v
  <2>3. x \in Reader /\ x.pc = "settled" /\ x.key = rd[r].key /\ x.since = rd[r].since /\ x.val = v
    BY <1>1, <2>2 DEF Reader, Position, Leading, Value
  <2> HIDE DEF x
  <2> QED BY <1>1, <1>2, <2>1, <2>2, <2>3, GoesOn DEF Leading
<1> QED BY <1>3, <1>4

LEMMA SetSim ==
  ASSUME StoreInv, NEW r \in Readers, Set(r)
  PROVE  StoreInv' /\ UNCHANGED Promise!vars
<1> DEFINE x == [rd[r] EXCEPT !.pc = "settled"]
           k == rd[r].key
           v == rd[r].val
           e == [v |-> v, fresh |-> TRUE]
<1>1. rd[r].pc = "set" /\ rd[r] \in Reader /\ ReaderOK(r) /\ k \in Keys
  BY ReaderFacts DEF Set
<1>2. /\ entry' = [entry EXCEPT ![k] = e] /\ rd' = [rd EXCEPT ![r] = x]
      /\ UNCHANGED <<src, inFlight, floor>>
  BY DEF Set
<1>3. v \in Nat /\ floor[k] <= v /\ v <= src[k]
  BY <1>1 DEF ReaderOK
<1>4. /\ x \in Reader /\ x.pc = "settled" /\ x.key = k /\ x.since = rd[r].since /\ x.val = v
      /\ e \in Entry /\ e.v = v
  BY <1>1, <1>3 DEF Reader, Position, Leading, Entry
<1> HIDE DEF x, v, e
<1>5. /\ rd' \in [Readers -> Reader] /\ rd'[r] = x
      /\ \A q \in Readers \ {r} : rd'[q] = rd[q]
  BY <1>2, <1>4, Moved
<1>6. entry' \in [Keys -> Entry \cup {NoEntry}] /\ entry'[k] = e /\ \A j \in Keys \ {k} : entry'[j] = entry[j]
  BY <1>1, <1>2, <1>4 DEF StoreInv, StoreType
<1>7. ASSUME NEW q \in Readers PROVE ReaderOK(q)'
  <2>1. CASE q = r
    BY <1>1, <1>2, <1>3, <1>4, <1>5, <2>1 DEF ReaderOK, Leading
  <2>2. CASE q # r
    BY <1>2, <1>5, <2>2 DEF StoreInv, ReaderOK
  <2> QED BY <2>1, <2>2
<1>8. CallsLed'
  BY <1>1, <1>2, <1>4, <1>5 DEF StoreInv, StoreType, CallsLed, Leading
<1>9. StoreType'
  BY <1>2, <1>5, <1>6 DEF StoreInv, StoreType
<1>10. EntriesCurrent'
  BY <1>1, <1>2, <1>3, <1>4, <1>6 DEF StoreInv, EntriesCurrent
<1>11. UNCHANGED Promise!vars
  <2>1. ASSUME NEW q \in Readers
        PROVE  /\ rd'[q].key = rd[q].key /\ rd'[q].since = rd[q].since
               /\ rd'[q].pc = "idle" <=> rd[q].pc = "idle"
               /\ rd[q].pc = "idle" => rd'[q].val = rd[q].val
    BY <1>1, <1>4, <1>5
  <2> QED BY <1>2, <2>1, Silent
<1> QED BY <1>7, <1>8, <1>9, <1>10, <1>11 DEF StoreInv

(* wg.Done shares the leader's value with every waiter of its key. *)
LEMMA ReleaseSim ==
  ASSUME StoreInv, NEW r \in Readers, Release(r)
  PROVE  StoreInv' /\ UNCHANGED Promise!vars
<1> DEFINE v == rd[r].val
           k == rd[r].key
<1>1. rd[r].pc = "settled" /\ rd[r] \in Reader /\ ReaderOK(r) /\ k \in Keys
  BY ReaderFacts DEF Release
<1>2. UNCHANGED <<src, entry, inFlight, floor>>
  BY DEF Release
<1>3. v \in Value \cup {NoResult} /\ (v # Error => v \in Nat /\ floor[k] <= v /\ v <= src[k])
  BY <1>1 DEF ReaderOK, Reader
<1>4. ASSUME NEW q \in Readers
      PROVE  /\ rd'[q] \in Reader /\ rd'[q].key = rd[q].key /\ rd'[q].since = rd[q].since
             /\ \/ rd'[q] = rd[q] /\ q # r
                \/ q = r /\ rd'[q].pc = "done" /\ rd'[q].val = v
                \/ q # r /\ rd[q].pc = "wait" /\ rd[q].key = k /\ rd'[q].pc = "return" /\ rd'[q].val = v
  <2>1. rd[q] \in Reader
    BY ReaderFacts
  <2>2. CASE q = r
    <3>1. rd'[q] = [rd[r] EXCEPT !.pc = "done"]
      BY <2>2 DEF Release
    <3> QED BY <1>1, <2>2, <3>1 DEF Reader, Position, Leading
  <2>3. CASE q # r /\ q \in Waiters(r)
    <3>1. rd'[q] = [rd[q] EXCEPT !.pc = "return", !.val = v]
      BY <2>3 DEF Release
    <3>2. rd[q].pc = "wait" /\ rd[q].key = k
      BY <2>3 DEF Waiters
    <3> HIDE DEF v
    <3> QED BY <1>3, <2>1, <2>3, <3>1, <3>2 DEF Reader, Position
  <2>4. CASE q # r /\ q \notin Waiters(r)
    BY <2>1, <2>4 DEF Release
  <2> QED BY <2>2, <2>3, <2>4
<1>5. rd' \in [Readers -> Reader]
  <2>1. rd' = [q \in Readers |-> rd'[q]]
    BY DEF Release
  <2> QED BY <1>4, <2>1
<1> HIDE DEF v
<1>6. ASSUME NEW q \in Readers PROVE ReaderOK(q)'
  <2>1. ReaderOK(q) /\ rd[q] \in Reader
    BY ReaderFacts
  <2>2. CASE rd'[q] = rd[q]
    BY <1>2, <2>1, <2>2 DEF ReaderOK
  <2>3. CASE q = r /\ rd'[q].pc = "done" /\ rd'[q].val = v
    BY <1>1, <1>2, <1>3, <1>4, <2>3 DEF ReaderOK, Leading
  <2>4. CASE q # r /\ rd[q].pc = "wait" /\ rd[q].key = k /\ rd'[q].pc = "return" /\ rd'[q].val = v
    <3>1. v # Error => rd[q].since <= v
      BY <1>1, <1>3, <2>1, <2>4 DEF ReaderOK, Reader, StoreInv, StoreType
    <3> QED BY <1>2, <1>3, <1>4, <2>1, <2>4, <3>1 DEF ReaderOK, Leading
  <2> QED BY <1>4, <2>2, <2>3, <2>4
<1>7. CallsLed'
  <2> SUFFICES ASSUME NEW j \in Keys, inFlight[j] # NoCall
               PROVE  rd'[inFlight[j]].pc \in Leading /\ rd'[inFlight[j]].key = j
    BY <1>2 DEF CallsLed
  <2>1. inFlight[j] \in Readers
    BY DEF StoreInv, StoreType
  <2>2. rd[inFlight[j]].pc \in Leading /\ rd[inFlight[j]].key = j
    BY DEF StoreInv, CallsLed
  <2> QED BY <1>4, <2>1, <2>2 DEF Leading
<1>8. StoreType' /\ EntriesCurrent'
  BY <1>2, <1>5 DEF StoreInv, StoreType, EntriesCurrent
<1>9. UNCHANGED Promise!vars
  <2>1. ASSUME NEW q \in Readers
        PROVE  /\ rd'[q].key = rd[q].key /\ rd'[q].since = rd[q].since
               /\ rd'[q].pc = "idle" <=> rd[q].pc = "idle"
               /\ rd[q].pc = "idle" => rd'[q].val = rd[q].val
    BY <1>1, <1>4
  <2> QED BY <1>2, <2>1, Silent
<1> QED BY <1>6, <1>7, <1>8, <1>9 DEF StoreInv

LEMMA ReturnSim ==
  ASSUME StoreInv, NEW r \in Readers, Forget(r) \/ Return(r)
  PROVE  StoreInv' /\ Promise!End(r)
<1> DEFINE v == rd[r].val
<1>1. rd[r].pc \in {"done", "return"} /\ rd[r] \in Reader /\ ReaderOK(r) /\ rd[r].key \in Keys
  BY ReaderFacts DEF Forget, Return
<1>2. rd' = [rd EXCEPT ![r] = Returned(v)] /\ UNCHANGED <<src, entry, floor>>
  BY DEF Forget, Return
<1>3. v # Error => v \in Nat /\ rd[r].since <= v /\ v <= src[rd[r].key]
  BY <1>1 DEF ReaderOK, Reader, StoreInv, StoreType
<1>4. v \in Value
  BY <1>3 DEF Value
<1>5. \/ UNCHANGED inFlight /\ rd[r].pc \notin Leading
      \/ inFlight' = [inFlight EXCEPT ![rd[r].key] = NoCall] /\ rd[r].pc \in Leading
  BY DEF Forget, Return, Leading
<1> HIDE DEF v
<1> QED BY <1>1, <1>2, <1>3, <1>4, <1>5, GetEnds

LEMMA ExpireSim ==
  ASSUME StoreInv, NEW k \in Keys, Expire(k)
  PROVE  StoreInv' /\ UNCHANGED Promise!vars
<1> DEFINE e == [entry[k] EXCEPT !.fresh = FALSE]
<1>1. entry' = [entry EXCEPT ![k] = e] /\ entry[k] # NoEntry /\ UNCHANGED <<src, inFlight, rd, floor>>
  BY DEF Expire, Fresh
<1>2. entry[k] \in Entry
  BY <1>1 DEF StoreInv, StoreType
<1>3. e \in Entry /\ e.v = entry[k].v
  BY <1>2 DEF Entry
<1> HIDE DEF e
<1>4. entry' \in [Keys -> Entry \cup {NoEntry}] /\ entry'[k] = e /\ \A j \in Keys \ {k} : entry'[j] = entry[j]
  BY <1>1, <1>3 DEF StoreInv, StoreType
<1>5. StoreType'
  BY <1>1, <1>4 DEF StoreInv, StoreType
<1>6. EntriesCurrent'
  BY <1>1, <1>3, <1>4 DEF StoreInv, EntriesCurrent
<1>7. CallsLed' /\ \A q \in Readers : ReaderOK(q)'
  BY <1>1 DEF StoreInv, CallsLed, ReaderOK
<1>8. UNCHANGED Promise!vars
  BY <1>1, Silent
<1> QED BY <1>5, <1>6, <1>7, <1>8 DEF StoreInv

(* The floor is raised unless a call in flight may put an older entry back. *)
LEMMA InvalidateSim ==
  ASSUME StoreInv, NEW k \in Keys, InvalidateKey(k), UNCHANGED src
  PROVE  StoreInv' /\ Promise!Invalidate(k)
<1>1. /\ entry' = [entry EXCEPT ![k] = NoEntry]
      /\ floor' = [floor EXCEPT ![k] = IF inFlight[k] = NoCall THEN src[k] ELSE floor[k]]
      /\ UNCHANGED <<inFlight, rd>>
  BY DEF InvalidateKey, Dropped
<1>2. /\ entry' \in [Keys -> Entry \cup {NoEntry}] /\ entry'[k] = NoEntry
      /\ \A j \in Keys \ {k} : entry'[j] = entry[j] /\ floor'[j] = floor[j]
  BY <1>1 DEF StoreInv, StoreType
<1>3. /\ floor' \in [Keys -> Nat] /\ \A j \in Keys : floor[j] <= floor'[j] /\ floor'[j] <= src[j]
      /\ floor'[k] = IF inFlight[k] = NoCall THEN src[k] ELSE floor[k]
  BY <1>1 DEF StoreInv, StoreType, EntriesCurrent
<1>4. EntriesCurrent'
  BY <1>2, <1>3 DEF StoreInv, EntriesCurrent
<1>5. ASSUME NEW q \in Readers PROVE ReaderOK(q)'
  <2>1. ReaderOK(q) /\ rd[q] \in Reader /\ (rd[q].pc # "idle" => rd[q].key \in Keys)
    BY ReaderFacts
  <2>2. rd[q].pc # "idle" => rd[q].since <= floor'[rd[q].key]
    BY <1>3, <2>1 DEF ReaderOK, Reader, StoreInv, StoreType
  <2>3. rd[q].pc \in Leading => floor'[rd[q].key] = floor[rd[q].key]
    BY <1>2, <1>3, <2>1, StoreAssumption DEF ReaderOK, Leading
  <2> QED BY <1>1, <2>1, <2>2, <2>3 DEF ReaderOK, Leading
<1>6. StoreType' /\ CallsLed'
  BY <1>1, <1>2, <1>3 DEF StoreInv, StoreType, CallsLed
<1>7. Promise!Invalidate(k)
  <2>1. /\ [q \in Readers |-> rd'[q].key] = [q \in Readers |-> rd[q].key]
        /\ [q \in Readers |-> rd'[q].since] = [q \in Readers |-> rd[q].since]
        /\ [q \in Readers |-> IF rd'[q].pc = "idle" THEN rd'[q].val ELSE NoResult]
             = [q \in Readers |-> IF rd[q].pc = "idle" THEN rd[q].val ELSE NoResult]
    BY <1>1
  <2>2. CASE inFlight[k] = NoCall
    BY <1>1, <2>1, <2>2 DEF Promise!Invalidate
  <2>3. CASE inFlight[k] # NoCall
    <3>1. inFlight[k] \in Readers /\ rd[inFlight[k]].key = k
      BY <2>3 DEF StoreInv, StoreType, CallsLed
    <3>2. \E r \in Readers : [q \in Readers |-> rd[q].key][r] = k
      BY <3>1
    <3>3. UNCHANGED floor
      BY <1>1, <2>3 DEF StoreInv, StoreType
    <3> QED BY <2>1, <3>2, <3>3 DEF Promise!Invalidate
  <2> QED BY <2>2, <2>3
<1> QED BY <1>4, <1>5, <1>6, <1>7 DEF StoreInv

(* NDMS moves on: what was current enough stays so. *)
LEMMA WriteSim ==
  ASSUME StoreInv, UNCHANGED <<entry, inFlight, rd, floor>>,
         src' \in [Keys -> Nat], \A k \in Keys : src[k] <= src'[k]
  PROVE  StoreInv' /\ Promise!Write
<1>1. StoreType' /\ CallsLed'
  BY DEF StoreInv, StoreType, CallsLed
<1>2. EntriesCurrent'
  BY DEF StoreInv, StoreType, EntriesCurrent, Entry
<1>3. ASSUME NEW q \in Readers PROVE ReaderOK(q)'
  <2>1. ReaderOK(q) /\ rd[q] \in Reader /\ (rd[q].pc # "idle" => rd[q].key \in Keys)
    BY ReaderFacts
  <2>2. \A n \in Nat : rd[q].pc # "idle" /\ n <= src[rd[q].key] => n <= src'[rd[q].key]
    BY <2>1 DEF StoreInv, StoreType
  <2> QED BY <2>1, <2>2 DEF ReaderOK, Leading
<1>4. Promise!Write
  BY DEF Promise!Write, StoreInv, StoreType
<1> QED BY <1>1, <1>2, <1>3, <1>4 DEF StoreInv

------------------------------------------------------------------------------
(* The stores as a part of the daemon's view *)

(* The versions NDMS has given out. *)
ClockAhead == clock \in Nat /\ \A k \in Keys : src[k] <= clock

PromiseInv == StoreInv /\ ClockAhead

(* What a step of the view is to the stores. *)
Changes == UNCHANGED storeVars /\ \E i \in Ifaces, t \in EventTypes : Change(t, i)
Drops == \E a \in Actors : DropKey(a)
Stays == UNCHANGED <<vars, clock>>

LEMMA StepKinds ==
  ASSUME [Next]_allVars
  PROVE  \/ Changes \/ Drops \/ Stays
         \/ (\E r \in Readers : GetStep(r)) /\ UNCHANGED viewVars
         \/ (\E k \in Keys : Expire(k)) /\ UNCHANGED viewVars
<1>1. CASE Outside
  BY <1>1 DEF Outside, Changes
<1>2. CASE Deliver \/ Notify \/ Wake \/ Drain \/ DeliverAgain \/ Lose
  BY <1>2 DEF Deliver, Notify, Wake, Drain, DeliverAgain, Lose, ndmsVars, Stays
<1>3. CASE ApplyPatch \/ ApplyCreated \/ StoreCreated \/ CreatedFail
  BY <1>3 DEF ApplyPatch, ApplyCreated, StoreCreated, CreatedFail, ndmsVars, Stays
<1>4. ASSUME NEW a \in Actors, RefreshStep(a) PROVE Drops \/ Stays
  BY <1>4 DEF RefreshStep, EnsureBootstrap, BootFetch, BootStore, FetchIface, ndmsVars, Drops, Stays
<1>5. ASSUME NEW a \in Actors, BootFail(a) PROVE Stays
  BY <1>5 DEF BootFail, ndmsVars, Stays
<1>6. ASSUME NEW c \in Commands, StoreRefresh(c) \/ RefreshFail(c) PROVE Stays
  BY <1>6 DEF StoreRefresh, RefreshFail, ndmsVars, Stays
<1>7. ASSUME NEW c \in Commands, Issue(c) PROVE Changes \/ Stays
  <2>1. ASSUME NEW i \in Ifaces, CreateOpkgTun(c, i) \/ DeleteOpkgTun(c, i) \/ InterfaceUp(c, i)
             \/ SetAddress(c, i) \/ ClearAddress(c, i)
        PROVE  Changes
    BY <2>1 DEF CreateOpkgTun, DeleteOpkgTun, InterfaceUp, SetAddress, ClearAddress, EventTypes, Command, Changes
  <2>2. CASE ReadIfaces(c)
    BY <2>2 DEF ReadIfaces, ndmsVars, Stays
  <2> QED BY <1>7, <2>1, <2>2 DEF Issue
<1>8. CASE UNCHANGED allVars
  BY <1>8 DEF allVars, viewVars, ndmsVars, Stays
<1> USE DEF Actors
<1>9. CASE WorkerStep
  BY <1>2, <1>3, <1>4, <1>9 DEF WorkerStep
<1>10. CASE Fault
  BY <1>2, <1>3, <1>5, <1>6, <1>10 DEF Fault
<1>11. ASSUME NEW c \in Commands, Issue(c) \/ CommandStep(c) PROVE Changes \/ Drops \/ Stays
  BY <1>4, <1>6, <1>7, <1>11 DEF CommandStep
<1> QED BY <1>1, <1>2, <1>8, <1>9, <1>10, <1>11 DEF Next

LEMMA ChangeFacts ==
  ASSUME StoreInv, ClockAhead, NEW i, NEW t, Change(t, i)
  PROVE  /\ clock' = clock + 1 /\ src' \in [Keys -> Nat]
         /\ \A k \in Keys : /\ src'[k] = IF k \in Touches(t, i) THEN clock + 1 ELSE src[k]
                            /\ src[k] <= src'[k] /\ src'[k] <= clock'
<1>1. clock' = clock + 1 /\ src' = [k \in Keys |-> IF k \in Touches(t, i) THEN clock + 1 ELSE src[k]]
  BY DEF Change
<1> QED BY <1>1 DEF StoreInv, StoreType, ClockAhead

LEMMA DropFacts ==
  ASSUME NEW a \in Actors, DropKey(a)
  PROVE  InvalidateKey(Head(act[a].todo)) /\ UNCHANGED <<src, clock>>
BY DEF DropKey, ndmsVars

(* A store the model does not have is left alone. *)
LEMMA NoSuchKey ==
  ASSUME StoreInv, NEW k, k \notin Keys, InvalidateKey(k)
  PROVE  UNCHANGED <<entry, inFlight, rd, floor>>
BY DEF InvalidateKey, Dropped, StoreInv, StoreType

(* Each step of the view is a step of FreshReads, or one that callers do not see. *)
LEMMA PromiseStep ==
  ASSUME PromiseInv, [Next]_allVars
  PROVE  PromiseInv' /\ [Promise!Next]_Promise!vars
<1>1. CASE Changes
  <2>1. PICK i \in Ifaces, t \in EventTypes : Change(t, i)
    BY <1>1 DEF Changes
  <2>2. UNCHANGED <<entry, inFlight, rd, floor>>
    BY <1>1 DEF Changes, storeVars
  <2>3. /\ clock' = clock + 1 /\ src' \in [Keys -> Nat]
        /\ \A k \in Keys : src[k] <= src'[k] /\ src'[k] <= clock'
    BY <2>1, ChangeFacts DEF PromiseInv
  <2>4. StoreInv' /\ Promise!Write
    BY <2>2, <2>3, WriteSim DEF PromiseInv
  <2> QED BY <2>3, <2>4 DEF PromiseInv, ClockAhead, Promise!Next
<1>2. CASE Drops
  <2>1. PICK a \in Actors : DropKey(a)
    BY <1>2 DEF Drops
  <2>2. PICK k : InvalidateKey(k) /\ UNCHANGED <<src, clock>>
    BY <2>1, DropFacts
  <2>3. ClockAhead'
    BY <2>2 DEF PromiseInv, ClockAhead
  <2>4. CASE k \in Keys
    BY <2>2, <2>3, <2>4, InvalidateSim DEF PromiseInv, Promise!Next
  <2>5. CASE k \notin Keys
    <3>1. UNCHANGED <<src, entry, inFlight, rd, floor>>
      BY <2>2, <2>5, NoSuchKey DEF PromiseInv
    <3>2. StoreInv'
      BY <3>1 DEF PromiseInv, StoreInv, StoreType, EntriesCurrent, CallsLed, ReaderOK
    <3>3. UNCHANGED Promise!vars
      BY <3>1, Silent
    <3> QED BY <2>3, <3>2, <3>3 DEF PromiseInv
  <2> QED BY <2>4, <2>5
<1>3. CASE Stays
  <2>1. UNCHANGED <<src, entry, inFlight, rd, floor, clock>>
    BY <1>3 DEF Stays, vars, storeVars
  <2>2. StoreInv' /\ ClockAhead'
    BY <2>1 DEF PromiseInv, ClockAhead, StoreInv, StoreType, EntriesCurrent, CallsLed, ReaderOK
  <2>3. UNCHANGED Promise!vars
    BY <2>1, Silent
  <2> QED BY <2>2, <2>3 DEF PromiseInv
<1>4. ASSUME NEW r \in Readers, GetStep(r), UNCHANGED viewVars
      PROVE  PromiseInv' /\ [Promise!Next]_Promise!vars
  <2>1. UNCHANGED <<src, clock>>
    BY <1>4 DEF viewVars, ndmsVars, GetStep, Progress, Begin, Lookup, Lead, Join, Fetch, FetchFail,
                Set, Release, Forget, Return
  <2>2. ClockAhead'
    BY <2>1 DEF PromiseInv, ClockAhead
  <2>3. StoreInv' /\ (UNCHANGED Promise!vars \/ Promise!End(r) \/ \E k \in Keys : Promise!Begin(r, k))
    BY <1>4, BeginSim, LookupSim, LeadSim, JoinSim, FetchSim, SetSim, ReleaseSim, ReturnSim
       DEF PromiseInv, GetStep, Progress
  <2> QED BY <2>2, <2>3 DEF PromiseInv, Promise!Next
<1>5. ASSUME NEW k \in Keys, Expire(k), UNCHANGED viewVars
      PROVE  PromiseInv' /\ [Promise!Next]_Promise!vars
  <2>1. UNCHANGED <<src, clock>>
    BY <1>5 DEF viewVars, ndmsVars, Expire
  <2> QED BY <1>5, <2>1, ExpireSim DEF PromiseInv, ClockAhead
<1> QED BY <1>1, <1>2, <1>3, <1>4, <1>5, StepKinds

LEMMA PromiseInitially ==
  ASSUME Init
  PROVE  PromiseInv /\ Promise!Init
<1>1. /\ src = [k \in Keys |-> 1] /\ entry = [k \in Keys |-> NoEntry]
      /\ inFlight = [k \in Keys |-> NoCall] /\ rd = [r \in Readers |-> Idle]
      /\ floor = [k \in Keys |-> 0] /\ clock = 1
  BY DEF Init, InitStore, InitView
<1>2. Idle \in Reader /\ Idle.pc = "idle" /\ Idle.key = NoKey /\ Idle.since = 0 /\ Idle.val = NoResult
  BY DEF Idle, Reader, Position
<1> HIDE DEF Idle
<1>3. \A r \in Readers : rd[r] = Idle
  BY <1>1
<1>4. StoreType
  BY <1>1, <1>2 DEF StoreType
<1>5. EntriesCurrent /\ CallsLed /\ ClockAhead
  BY <1>1 DEF EntriesCurrent, CallsLed, ClockAhead
<1>6. \A r \in Readers : ReaderOK(r)
  BY <1>2, <1>3 DEF ReaderOK, Leading
<1>7. /\ [r \in Readers |-> rd[r].key] = [r \in Readers |-> NoKey]
      /\ [r \in Readers |-> rd[r].since] = [r \in Readers |-> 0]
      /\ [r \in Readers |-> IF rd[r].pc = "idle" THEN rd[r].val ELSE NoResult] = [r \in Readers |-> NoResult]
  BY <1>2, <1>3
<1> QED BY <1>1, <1>4, <1>5, <1>6, <1>7 DEF PromiseInv, StoreInv, Promise!Init

(* The TTL stores with their singleflight implement the safety part of          *)
(* FreshReads under every interleaving of hooks, commands, expiries and failed  *)
(* fetches: no Get that began after an invalidation that met no call returns    *)
(* older data, whether it hit, led a call, joined one or was served an expired  *)
(* entry.                                                                       *)
THEOREM StoresKeepPromise == Spec => Promise!Init /\ [][Promise!Next]_Promise!vars
<1>1. Init => PromiseInv /\ Promise!Init
  BY PromiseInitially
<1>2. PromiseInv /\ [Next]_allVars => PromiseInv' /\ [Promise!Next]_Promise!vars
  BY PromiseStep
<1> QED BY <1>1, <1>2, PTL DEF Spec

------------------------------------------------------------------------------
(* Hooks *)

Event == [type : EventTypes, id : Ifaces, lvl : Nat]
Iface == [Fields -> Nat] \cup {Absent}
Answer == {<<>>} \cup UNION {[S -> Iface] : S \in SUBSET Ifaces}
Refreshing == {"boot", "bootfetch", "bootstore", "fetch", "store"}
Actor == [pc : Refreshing \cup {"idle", "drain", "apply", "keys"}, scope : SUBSET Ifaces,
          got : Answer, seen : SUBSET Ifaces, todo : Seq(Keys)]

ViewType ==
  /\ ifc \in [Ifaces -> Iface]
  /\ hooks \in Seq(Event) /\ queue \in Seq(Event) /\ batch \in Seq(Event)
  /\ act \in [Actors -> Actor]
  /\ due \in [Keys -> Nat] /\ clash \in [Keys -> BOOLEAN]

(* The worker holds a batch exactly while it applies one, and the events   *)
(* that need a refresh have an interface to refresh.                       *)
WorkerOK ==
  /\ act[Worker].pc \in {"idle", "drain"} <=> batch = <<>>
  /\ act[Worker].pc \in Refreshing => act[Worker].scope # {}
  /\ \A a \in Actors : act[a].pc = "keys" => act[a].todo # <<>>

(* No hook tells of a change that NDMS has not made. *)
HooksCurrent ==
  \A k \in Keys : /\ due[k] <= src[k]
                  /\ \A n \in DOMAIN hooks :
                       k \in Touches(hooks[n].type, hooks[n].id) => hooks[n].lvl <= src[k]

In(k, s) == \E n \in DOMAIN s : s[n] = k

(* The event makes the dispatcher invalidate k. *)
Reaches(e, k) == In(k, Affected(e.type, e.id))

(* The worker has still to invalidate k: for an event in the queue, for a  *)
(* later one of its batch, for the one it is about to apply or is applying.*)
Queued(k) ==
  \/ \E n \in DOMAIN queue : Reaches(queue[n], k)
  \/ \E n \in DOMAIN batch : n > 1 /\ Reaches(batch[n], k)

Coming(k) ==
  \/ Queued(k)
  \/ act[Worker].pc = "apply" /\ Reaches(batch[1], k)
  \/ act[Worker].pc \in Refreshing \cup {"keys"} /\ In(k, act[Worker].todo)

DueComing == \A k \in Keys : due[k] <= floor[k] \/ clash[k] \/ Coming(k)

HookInv == PromiseInv /\ ViewType /\ WorkerOK /\ HooksCurrent /\ DueComing

LEMMA AffectedFacts ==
  ASSUME NEW e \in Event
  PROVE  /\ Affected(e.type, e.id) \in Seq(Keys)
         /\ \A k \in Keys : k \in Touches(e.type, e.id) /\ ~(e.type = "created" /\ k = e.id) => Reaches(e, k)
<1>1. e.type \in EventTypes
  BY DEF Event
<1>2. \A k : Kept(k) \in Seq(Keys) /\ (k \in Keys => In(k, Kept(k)))
  BY DEF Kept, In
<1>3. \A s, t \in Seq(Keys) : /\ s \o t \in Seq(Keys)
                              /\ \A k : In(k, s) \/ In(k, t) => In(k, s \o t)
  <2> SUFFICES ASSUME NEW s \in Seq(Keys), NEW t \in Seq(Keys), NEW k, In(k, s) \/ In(k, t)
               PROVE  In(k, s \o t)
    OBVIOUS
  <2>1. CASE In(k, s)
    <3>1. PICK n \in DOMAIN s : s[n] = k
      BY <2>1 DEF In
    <3>2. n \in DOMAIN (s \o t) /\ (s \o t)[n] = k
      BY <3>1
    <3> QED BY <3>2 DEF In
  <2>2. CASE In(k, t)
    <3>1. PICK n \in DOMAIN t : t[n] = k
      BY <2>2 DEF In
    <3>2. Len(s) + n \in DOMAIN (s \o t) /\ (s \o t)[Len(s) + n] = k
      BY <3>1
    <3> QED BY <3>2 DEF In
  <2> QED BY <2>1, <2>2
<1>4. CASE e.type = "created"
  BY <1>2, <1>4 DEF Affected, Touches, Reaches
<1>5. CASE e.type = "destroyed"
  BY <1>2, <1>3, <1>5 DEF Affected, Touches, Reaches
<1>6. CASE e.type = "conf"
  BY <1>2, <1>3, <1>6 DEF Affected, Touches, Reaches
<1>7. CASE e.type = "ipv4"
  BY <1>2, <1>3, <1>7 DEF Affected, Touches, Reaches
<1>8. CASE e.type \in {"address", "cleared"}
  BY <1>2, <1>8 DEF Affected, Touches, Reaches
<1> QED BY <1>1, <1>4, <1>5, <1>6, <1>7, <1>8 DEF EventTypes

LEMMA ActorMoved ==
  ASSUME act \in [Actors -> Actor], NEW a \in Actors, NEW x \in Actor, act' = [act EXCEPT ![a] = x]
  PROVE  act' \in [Actors -> Actor] /\ act'[a] = x /\ \A b \in Actors \ {a} : act'[b] = act[b]
OBVIOUS

(* An event only marks the refreshes it overtakes. *)
LEMMA OvertakeFacts ==
  ASSUME NEW A \in [Actors -> Actor], NEW i \in Ifaces
  PROVE  /\ Overtake(A, i) \in [Actors -> Actor]
         /\ \A a \in Actors : /\ Overtake(A, i)[a].pc = A[a].pc /\ Overtake(A, i)[a].todo = A[a].todo
                              /\ Overtake(A, i)[a].scope = A[a].scope
<1>1. ASSUME NEW a \in Actors
      PROVE  /\ Overtake(A, i)[a] \in Actor /\ Overtake(A, i)[a].pc = A[a].pc
             /\ Overtake(A, i)[a].todo = A[a].todo /\ Overtake(A, i)[a].scope = A[a].scope
  <2> DEFINE x == [A[a] EXCEPT !.seen = @ \cup {i}]
  <2>1. A[a] \in Actor
    OBVIOUS
  <2>2. x \in Actor /\ x.pc = A[a].pc /\ x.todo = A[a].todo /\ x.scope = A[a].scope
    BY <2>1 DEF Actor
  <2>3. Overtake(A, i)[a] = x \/ Overtake(A, i)[a] = A[a]
    BY DEF Overtake
  <2> QED BY <2>1, <2>2, <2>3
<1>2. Overtake(A, i) = [a \in Actors |-> Overtake(A, i)[a]]
  BY DEF Overtake
<1> QED BY <1>1, <1>2

LEMMA WorkerActs == Worker \in Actors /\ Worker \notin Commands /\ Commands \subseteq Actors
BY ViewAssumption DEF Actors

(* Where an actor goes that has todo left of its operation. *)
LEMMA RefreshedFacts ==
  ASSUME NEW todo \in Seq(Keys), NEW a
  PROVE  LET x == [Resting EXCEPT !.pc = Then(a, todo), !.todo = todo]
         IN  x \in Actor /\ x.pc = Then(a, todo) /\ x.todo = todo
<1>1. Then(a, todo) \in {"keys", "apply", "idle"}
  BY DEF Then
<1> DEFINE p == Then(a, todo)
<1> HIDE DEF p
<1>2. Resting \in Actor
  BY DEF Resting, Actor, Answer, Refreshing
<1> DEFINE x == [Resting EXCEPT !.pc = p, !.todo = todo]
<1>3. p \in {"keys", "apply", "idle"}
  BY <1>1 DEF p
<1>4. x \in Actor /\ x.pc = p /\ x.todo = todo
  BY <1>2, <1>3 DEF Actor
<1> QED BY <1>4 DEF p

(* The worker is done with the head of its batch but for todo. *)
LEMMA WorkerGoesOn ==
  ASSUME ViewType, batch # <<>>, NEW todo \in Seq(Keys), queue' = queue,
         batch' = BatchAfter(Worker, todo), act'[Worker].pc = Then(Worker, todo),
         act'[Worker].todo = todo
  PROVE  /\ batch' \in Seq(Event)
         /\ act'[Worker].pc \in {"idle", "drain"} <=> batch' = <<>>
         /\ act'[Worker].pc \notin Refreshing
         /\ act'[Worker].pc = "keys" => todo # <<>>
         /\ \A k \in Keys : Queued(k) \/ In(k, todo) => Coming(k)'
<1>1. batch \in Seq(Event) /\ Len(batch) \in Nat
  BY DEF ViewType
<1>2. CASE todo # <<>>
  <2>1. act'[Worker].pc = "keys" /\ batch' = batch
    BY <1>2 DEF Then, BatchAfter
  <2>2. ASSUME NEW k \in Keys, Queued(k) \/ In(k, todo) PROVE Coming(k)'
    BY <2>1, <2>2 DEF Coming, Queued, In, Reaches
  <2> QED BY <1>1, <1>2, <2>1, <2>2 DEF Refreshing
<1>3. CASE todo = <<>>
  <2>1. batch' = Tail(batch) /\ act'[Worker].pc = (IF Len(batch) > 1 THEN "apply" ELSE "idle")
    BY <1>3 DEF Then, BatchAfter
  <2>2. /\ batch' \in Seq(Event) /\ Len(batch') = Len(batch) - 1
        /\ \A n \in 1 .. Len(batch') : batch'[n] = batch[n + 1]
    BY <1>1, <2>1
  <2>3. act'[Worker].pc \in {"idle", "drain"} <=> batch' = <<>>
    <3>1. Len(batch) >= 1 /\ (batch' = <<>> <=> Len(batch') = 0)
      BY <1>1, <2>2
    <3>2. Len(batch) > 1 <=> batch' # <<>>
      BY <1>1, <2>2, <3>1
    <3> QED BY <2>1, <3>2
  <2>4. ASSUME NEW k \in Keys, Queued(k) \/ In(k, todo) PROVE Coming(k)'
    <3>1. ~In(k, todo)
      BY <1>3 DEF In
    <3>2. CASE \E n \in DOMAIN queue : Reaches(queue[n], k)
      BY <3>2 DEF Coming, Queued, Reaches, In
    <3>3. CASE \E n \in DOMAIN batch : n > 1 /\ Reaches(batch[n], k)
      <4>1. PICK n \in DOMAIN batch : n > 1 /\ Reaches(batch[n], k)
        BY <3>3
      <4>2. n \in 1 .. Len(batch) /\ n - 1 \in 1 .. Len(batch') /\ batch'[n - 1] = batch[n] /\ Len(batch) > 1
        BY <1>1, <2>2, <4>1
      <4>3. n - 1 \in DOMAIN batch'
        BY <2>2, <4>2
      <4>4. Reaches(batch'[n - 1], k)
        BY <4>1, <4>2
      <4>5. act'[Worker].pc = "apply"
        BY <2>1, <4>2
      <4>6. CASE n - 1 = 1
        BY <4>4, <4>5, <4>6 DEF Coming, Reaches, In
      <4>7. CASE n - 1 > 1
        BY <4>3, <4>4, <4>7 DEF Coming, Queued, Reaches, In
      <4> QED BY <4>2, <4>6, <4>7
    <3> QED BY <2>4, <3>1, <3>2, <3>3 DEF Queued
  <2> QED BY <1>3, <2>1, <2>2, <2>3, <2>4 DEF Refreshing
<1> QED BY <1>2, <1>3

(* The queue and the stores are left alone; the worker keeps what it has to do. *)
LEMMA Holds ==
  ASSUME HookInv, PromiseInv', ViewType', HooksCurrent', UNCHANGED <<queue, batch, due, clash, floor>>,
         act'[Worker].todo = act[Worker].todo,
         \/ act'[Worker].pc = act[Worker].pc
         \/ act[Worker].pc \in {"idle", "drain"} /\ act'[Worker].pc \in {"idle", "drain"}
         \/ act[Worker].pc \in Refreshing /\ act'[Worker].pc \in Refreshing,
         act'[Worker].pc \in Refreshing => act'[Worker].scope # {},
         \A a \in Actors : act'[a].pc = "keys" => act'[a].todo # <<>>
  PROVE  HookInv'
<1>1. act'[Worker].pc \in {"idle", "drain"} <=> batch' = <<>>
  BY DEF HookInv, WorkerOK, Refreshing
<1>2. WorkerOK'
  BY <1>1 DEF WorkerOK
<1>3. ASSUME NEW k \in Keys, Coming(k) PROVE Coming(k)'
  BY <1>3 DEF Coming, Queued, Reaches, In, Refreshing
<1>4. DueComing'
  BY <1>3 DEF HookInv, DueComing
<1> QED BY <1>2, <1>4 DEF HookInv

LEMMA HooksHold ==
  ASSUME HookInv, UNCHANGED <<src, due>>, hooks' = hooks \/ (hooks # <<>> /\ hooks' = Tail(hooks))
  PROVE  hooks' \in Seq(Event) /\ HooksCurrent'
<1>1. hooks \in Seq(Event)
  BY DEF HookInv, ViewType
<1>2. hooks' \in Seq(Event) /\ \A n \in DOMAIN hooks' : \E m \in DOMAIN hooks : hooks'[n] = hooks[m]
  <2>1. CASE hooks' = hooks
    BY <1>1, <2>1
  <2>2. CASE hooks # <<>> /\ hooks' = Tail(hooks)
    <3>1. hooks' \in Seq(Event)
      BY <1>1, <2>2
    <3>2. ASSUME NEW n \in DOMAIN hooks' PROVE n + 1 \in DOMAIN hooks /\ hooks'[n] = hooks[n + 1]
      BY <1>1, <2>2
    <3> QED BY <3>1, <3>2
  <2> QED BY <2>1, <2>2
<1>3. HooksCurrent'
  <2> SUFFICES ASSUME NEW k \in Keys, NEW n \in DOMAIN hooks', k \in Touches(hooks'[n].type, hooks'[n].id)
               PROVE  hooks'[n].lvl <= src[k]
    BY DEF HookInv, HooksCurrent, Touches
  <2>1. PICK m \in DOMAIN hooks : hooks'[n] = hooks[m]
    BY <1>2
  <2> QED BY <2>1 DEF HookInv, HooksCurrent
<1> QED BY <1>2, <1>3

(* Readers, expiries, Notify and stuttering. *)
LEMMA SameView ==
  ASSUME HookInv, PromiseInv', UNCHANGED <<src, ifc, hooks, queue, batch, act, due, clash, floor>>
  PROVE  HookInv'
<1>1. ViewType'
  BY DEF HookInv, ViewType
<1>2. HooksCurrent'
  BY HooksHold
<1> QED BY <1>1, <1>2, Holds DEF HookInv, WorkerOK

(* An actor other than the worker moves, and nothing else. *)
LEMMA CommandMoves ==
  ASSUME HookInv, PromiseInv', UNCHANGED <<src, ifc, hooks, queue, batch, due, clash, floor>>,
         NEW c \in Commands, NEW x \in Actor, act' = [act EXCEPT ![c] = x],
         x.pc = "keys" => x.todo # <<>>
  PROVE  HookInv'
<1>1. act' \in [Actors -> Actor] /\ act'[c] = x /\ \A b \in Actors \ {c} : act'[b] = act[b]
  BY ActorMoved, WorkerActs DEF HookInv, ViewType
<1>2. act'[Worker] = act[Worker]
  BY <1>1, WorkerActs
<1>3. ViewType'
  BY <1>1 DEF HookInv, ViewType
<1>4. HooksCurrent'
  BY HooksHold
<1>5. \A a \in Actors : act'[a].pc = "keys" => act'[a].todo # <<>>
  BY <1>1 DEF HookInv, WorkerOK
<1> QED BY <1>2, <1>3, <1>4, <1>5, Holds DEF HookInv, WorkerOK

(* NDMS changes: the new hook tells of data that is there. *)
LEMMA ChangeKeeps ==
  ASSUME HookInv, PromiseInv', NEW i \in Ifaces, NEW t \in EventTypes,
         Change(t, i)
  PROVE  ifc' \in [Ifaces -> Iface] /\ hooks' \in Seq(Event) /\ (due' = due => HooksCurrent')
<1> DEFINE e == [type |-> t, id |-> i, lvl |-> clock + 1]
<1>1. /\ clock' = clock + 1 /\ src' \in [Keys -> Nat]
      /\ \A k \in Keys : /\ src'[k] = IF k \in Touches(t, i) THEN clock + 1 ELSE src[k]
                         /\ src[k] <= src'[k] /\ src'[k] <= clock'
  BY ChangeFacts DEF HookInv, PromiseInv
<1>2. clock + 1 \in Nat
  BY DEF HookInv, PromiseInv, ClockAhead
<1>3. hooks' = Append(hooks, e)
  BY DEF Change
<1>4. e \in Event /\ e.type = t /\ e.id = i /\ e.lvl = clock + 1
  BY <1>2 DEF Event
<1> HIDE DEF e
<1>5. hooks \in Seq(Event) /\ hooks' \in Seq(Event)
  BY <1>3, <1>4 DEF HookInv, ViewType
<1>6. ifc' \in [Ifaces -> Iface]
  <2>1. Record(clock + 1) \in [Fields -> Nat]
    BY <1>2 DEF Record
  <2>2. CASE t \in {"created", "destroyed"}
    BY <2>1, <2>2 DEF Change, HookInv, ViewType, Iface
  <2>3. CASE t = "cleared"
    <3>1. Present(i) /\ "address" \in Fields /\ ifc' = [ifc EXCEPT ![i]["address"] = NoAddress]
      BY <2>3 DEF Change
    <3>2. ifc[i] \in [Fields -> Nat]
      BY <3>1 DEF HookInv, ViewType, Iface, Present
    <3>3. [ifc[i] EXCEPT !["address"] = NoAddress] \in [Fields -> Nat]
      BY <3>2 DEF NoAddress
    <3> QED BY <3>1, <3>3 DEF HookInv, ViewType, Iface
  <2>4. CASE t \notin {"created", "destroyed", "cleared"}
    <3>1. Present(i) /\ t \in Fields /\ ifc' = [ifc EXCEPT ![i][t] = clock + 1]
      BY <2>4 DEF Change
    <3>2. ifc[i] \in [Fields -> Nat]
      BY <3>1 DEF HookInv, ViewType, Iface, Present
    <3>3. [ifc[i] EXCEPT ![t] = clock + 1] \in [Fields -> Nat]
      BY <1>2, <3>2
    <3> QED BY <3>1, <3>3 DEF HookInv, ViewType, Iface
  <2> QED BY <2>2, <2>3, <2>4
<1>7. ASSUME due' = due PROVE HooksCurrent'
  <2>1. ASSUME NEW k \in Keys PROVE due'[k] <= src'[k]
    BY <1>1, <1>7 DEF HookInv, HooksCurrent, ViewType, PromiseInv, StoreInv, StoreType
  <2>2. ASSUME NEW k \in Keys, NEW n \in DOMAIN hooks', k \in Touches(hooks'[n].type, hooks'[n].id)
        PROVE  hooks'[n].lvl <= src'[k]
    <3>1. CASE hooks'[n] = e
      BY <1>1, <1>4, <2>2, <3>1
    <3>2. CASE hooks'[n] # e
      <4>1. n \in DOMAIN hooks /\ hooks'[n] = hooks[n] /\ hooks[n] \in Event
        BY <1>3, <1>5, <2>2, <3>2
      <4>2. hooks[n].lvl <= src[k] /\ hooks[n].lvl \in Nat
        BY <2>2, <4>1 DEF HookInv, HooksCurrent, Event
      <4> QED BY <1>1, <4>1, <4>2 DEF HookInv, PromiseInv, StoreInv, StoreType
    <3> QED BY <3>1, <3>2
  <2> QED BY <2>1, <2>2 DEF HooksCurrent, Touches
<1> QED BY <1>5, <1>6, <1>7

LEMMA OutsideKeeps == ASSUME HookInv, PromiseInv', Outside PROVE HookInv'
<1>1. PICK i \in Ifaces, t \in EventTypes : Change(t, i)
  BY DEF Outside
<1>2. UNCHANGED <<queue, batch, act, due, clash, floor>>
  BY DEF Outside, storeVars, queueVars
<1>3. ifc' \in [Ifaces -> Iface] /\ hooks' \in Seq(Event) /\ HooksCurrent'
  BY <1>1, <1>2, ChangeKeeps
<1>4. ViewType'
  BY <1>2, <1>3 DEF HookInv, ViewType
<1> QED BY <1>2, <1>3, <1>4, Holds DEF HookInv, WorkerOK

LEMMA CommandDropsType ==
  ASSUME NEW kind \in {"create", "delete", "up", "address", "clear"}, NEW i
  PROVE  CommandDrops(kind, i) \in Seq(Keys)
<1>1. \A k : Kept(k) \in Seq(Keys)
  BY DEF Kept
<1> QED BY <1>1 DEF CommandDrops

LEMMA IssueKeeps ==
  ASSUME HookInv, PromiseInv', NEW c \in Commands, NEW i \in Ifaces,
         CreateOpkgTun(c, i) \/ DeleteOpkgTun(c, i) \/ InterfaceUp(c, i)
             \/ SetAddress(c, i) \/ ClearAddress(c, i)
  PROVE  HookInv'
<1>1. PICK kind \in {"create", "delete", "up", "address", "clear"}, t \in EventTypes,
           first \in {"fetch", "boot"}, scope \in SUBSET Ifaces : Command(c, kind, t, i, first, scope)
  BY DEF CreateOpkgTun, DeleteOpkgTun, InterfaceUp, SetAddress, ClearAddress, EventTypes
<1> DEFINE drops == CommandDrops(kind, i)
           x == [Resting EXCEPT !.pc = first, !.scope = scope, !.todo = drops]
<1>2. Change(t, i) /\ act' = [act EXCEPT ![c] = x] /\ UNCHANGED <<queue, batch, due, clash, floor>>
  BY <1>1 DEF Command, storeVars, queueVars
<1>3. drops \in Seq(Keys)
  BY CommandDropsType
<1> HIDE DEF drops
<1>4. Resting \in Actor
  BY DEF Resting, Actor, Answer
<1>5. x \in Actor /\ x.pc = first
  BY <1>3, <1>4 DEF Actor, Refreshing
<1> HIDE DEF x
<1>6. act' \in [Actors -> Actor] /\ act'[c] = x /\ \A b \in Actors \ {c} : act'[b] = act[b]
  BY <1>2, <1>5, ActorMoved, WorkerActs DEF HookInv, ViewType
<1>7. ifc' \in [Ifaces -> Iface] /\ hooks' \in Seq(Event) /\ HooksCurrent'
  BY <1>2, ChangeKeeps
<1>8. ViewType'
  BY <1>2, <1>6, <1>7 DEF HookInv, ViewType
<1>9. act'[Worker] = act[Worker]
  BY <1>6, WorkerActs
<1>10. \A a \in Actors : act'[a].pc = "keys" => act'[a].todo # <<>>
  BY <1>5, <1>6 DEF HookInv, WorkerOK
<1> QED BY <1>2, <1>7, <1>8, <1>9, <1>10, Holds DEF HookInv, WorkerOK

(* A delivered hook is queued, and with it the invalidations that it makes due. *)
LEMMA DeliverKeeps == ASSUME HookInv, PromiseInv', Deliver \/ DeliverAgain PROVE HookInv'
<1> DEFINE e == Head(hooks)
<1>1. /\ hooks # <<>> /\ (hooks' = hooks \/ hooks' = Tail(hooks))
      /\ queue' = Append(queue, e) /\ due' = Hooked(e)
      /\ UNCHANGED <<src, ifc, batch, act, clash, floor>>
  BY DEF Deliver, DeliverAgain, Enqueued, vars, storeVars, ndmsVars
<1>2. hooks \in Seq(Event) /\ queue \in Seq(Event) /\ 1 \in DOMAIN hooks /\ e = hooks[1] /\ e \in Event
  BY <1>1 DEF HookInv, ViewType
<1>3. \A k \in Keys : k \in Touches(e.type, e.id) => e.lvl <= src[k]
  BY <1>2 DEF HookInv, HooksCurrent
<1> HIDE DEF e
<1>4. /\ due' \in [Keys -> Nat]
      /\ \A k \in Keys : due'[k] = IF k \in Touches(e.type, e.id) /\ ~(e.type = "created" /\ k = e.id)
                                   THEN e.lvl ELSE due[k]
  BY <1>1, <1>2 DEF Hooked, HookInv, ViewType, Event
<1>5. hooks' \in Seq(Event) /\ \A n \in DOMAIN hooks' : \E m \in DOMAIN hooks : hooks'[n] = hooks[m]
  <2>1. CASE hooks' = hooks
    BY <1>2, <2>1
  <2>2. CASE hooks' = Tail(hooks)
    <3>1. hooks' \in Seq(Event)
      BY <1>1, <1>2, <2>2
    <3>2. ASSUME NEW n \in DOMAIN hooks' PROVE n + 1 \in DOMAIN hooks /\ hooks'[n] = hooks[n + 1]
      BY <1>1, <1>2, <2>2
    <3> QED BY <3>1, <3>2
  <2> QED BY <1>1, <2>1, <2>2
<1>6. HooksCurrent'
  <2>1. ASSUME NEW k \in Keys PROVE due'[k] <= src[k]
    BY <1>3, <1>4 DEF HookInv, HooksCurrent
  <2>2. ASSUME NEW k \in Keys, NEW n \in DOMAIN hooks', k \in Touches(hooks'[n].type, hooks'[n].id)
        PROVE  hooks'[n].lvl <= src[k]
    <3>1. PICK m \in DOMAIN hooks : hooks'[n] = hooks[m]
      BY <1>5
    <3> QED BY <2>2, <3>1 DEF HookInv, HooksCurrent
  <2> QED BY <1>1, <2>1, <2>2 DEF HooksCurrent, Touches
<1>7. /\ queue' \in Seq(Event) /\ Len(queue) + 1 \in DOMAIN queue' /\ queue'[Len(queue) + 1] = e
      /\ \A n \in DOMAIN queue : n \in DOMAIN queue' /\ queue'[n] = queue[n]
  BY <1>1, <1>2
<1>8. ViewType'
  BY <1>1, <1>4, <1>5, <1>7 DEF HookInv, ViewType
<1>9. WorkerOK'
  BY <1>1 DEF HookInv, WorkerOK
<1>10. ASSUME NEW k \in Keys, Coming(k) PROVE Coming(k)'
  <2>1. CASE \E n \in DOMAIN queue : Reaches(queue[n], k)
    <3>1. PICK n \in DOMAIN queue : Reaches(queue[n], k)
      BY <2>1
    <3>2. n \in DOMAIN queue' /\ Reaches(queue'[n], k)
      BY <1>7, <3>1
    <3> QED BY <3>2 DEF Coming, Queued, Reaches, In
  <2>2. CASE ~\E n \in DOMAIN queue : Reaches(queue[n], k)
    BY <1>1, <1>10, <2>2 DEF Coming, Queued, Reaches, In
  <2> QED BY <2>1, <2>2
<1>11. DueComing'
  <2> SUFFICES ASSUME NEW k \in Keys PROVE due'[k] <= floor'[k] \/ clash'[k] \/ Coming(k)'
    BY DEF DueComing
  <2>1. CASE k \in Touches(e.type, e.id) /\ ~(e.type = "created" /\ k = e.id)
    <3>1. Reaches(e, k)
      BY <1>2, <2>1, AffectedFacts
    <3>2. Reaches(queue'[Len(queue) + 1], k)
      BY <1>7, <3>1
    <3>3. \E n \in DOMAIN queue' : Reaches(queue'[n], k)
      BY <1>7, <3>2
    <3> QED BY <3>3 DEF Coming, Queued, Reaches, In
  <2>2. CASE ~(k \in Touches(e.type, e.id) /\ ~(e.type = "created" /\ k = e.id))
    <3>1. due'[k] = due[k]
      BY <1>4, <2>2
    <3> QED BY <1>1, <1>10, <3>1 DEF HookInv, DueComing
  <2> QED BY <2>1, <2>2
<1> QED BY <1>6, <1>8, <1>9, <1>11 DEF HookInv

LEMMA LoseKeeps == ASSUME HookInv, PromiseInv', Lose PROVE HookInv'
<1> DEFINE i == Head(hooks).id
<1>1. /\ hooks # <<>> /\ hooks' = Tail(hooks) /\ act' = Overtake(act, i)
      /\ UNCHANGED <<src, ifc, queue, batch, due, clash, floor>>
  BY DEF Lose, vars, storeVars, queueVars
<1>2. i \in Ifaces /\ act \in [Actors -> Actor]
  <2>1. hooks \in Seq(Event) /\ act \in [Actors -> Actor]
    BY DEF HookInv, ViewType
  <2>2. Head(hooks) \in Event
    BY <1>1, <2>1
  <2> QED BY <2>1, <2>2 DEF Event
<1> HIDE DEF i
<1>3. /\ act' \in [Actors -> Actor]
      /\ \A a \in Actors : act'[a].pc = act[a].pc /\ act'[a].todo = act[a].todo /\ act'[a].scope = act[a].scope
  BY <1>1, <1>2, OvertakeFacts
<1>4. hooks' \in Seq(Event) /\ HooksCurrent'
  BY <1>1, HooksHold
<1>5. ViewType'
  BY <1>1, <1>3, <1>4 DEF HookInv, ViewType
<1>6. \A a \in Actors : act'[a].pc = "keys" => act'[a].todo # <<>>
  BY <1>3 DEF HookInv, WorkerOK
<1> QED BY <1>1, <1>3, <1>4, <1>5, <1>6, Holds, WorkerActs DEF HookInv, WorkerOK

LEMMA WakeKeeps == ASSUME HookInv, PromiseInv', Wake PROVE HookInv'
<1> DEFINE x == [act[Worker] EXCEPT !.pc = "drain"]
<1>1. /\ act[Worker].pc = "idle" /\ act' = [act EXCEPT ![Worker] = x]
      /\ UNCHANGED <<src, ifc, hooks, queue, batch, due, clash, floor>>
  BY DEF Wake, vars, storeVars, ndmsVars
<1>2. act[Worker] \in Actor
  BY WorkerActs DEF HookInv, ViewType
<1>3. x \in Actor /\ x.pc = "drain" /\ x.todo = act[Worker].todo
  BY <1>2 DEF Actor
<1> HIDE DEF x
<1>4. act' \in [Actors -> Actor] /\ act'[Worker] = x /\ \A b \in Actors \ {Worker} : act'[b] = act[b]
  BY <1>1, <1>3, ActorMoved, WorkerActs DEF HookInv, ViewType
<1>5. ViewType'
  BY <1>1, <1>4 DEF HookInv, ViewType
<1>6. HooksCurrent'
  BY <1>1, HooksHold
<1>7. \A a \in Actors : act'[a].pc = "keys" => act'[a].todo # <<>>
  BY <1>3, <1>4 DEF HookInv, WorkerOK
<1> QED BY <1>1, <1>3, <1>4, <1>5, <1>6, <1>7, Holds DEF Refreshing

(* The whole queue becomes the batch: nothing is left behind. *)
LEMMA DrainKeeps == ASSUME HookInv, PromiseInv', Drain PROVE HookInv'
<1> DEFINE p == IF queue = <<>> THEN "idle" ELSE "apply"
           x == [act[Worker] EXCEPT !.pc = p]
<1>1. /\ act[Worker].pc = "drain" /\ act' = [act EXCEPT ![Worker] = x]
      /\ batch' = queue /\ queue' = <<>>
      /\ UNCHANGED <<src, ifc, hooks, due, clash, floor>>
  BY DEF Drain, vars, storeVars, ndmsVars
<1>2. act[Worker] \in Actor
  BY WorkerActs DEF HookInv, ViewType
<1>3. x \in Actor /\ x.pc = p
  BY <1>2 DEF Actor
<1> HIDE DEF x
<1>4. act' \in [Actors -> Actor] /\ act'[Worker] = x /\ \A b \in Actors \ {Worker} : act'[b] = act[b]
  BY <1>1, <1>3, ActorMoved, WorkerActs DEF HookInv, ViewType
<1>5. ViewType'
  BY <1>1, <1>4 DEF HookInv, ViewType
<1>6. HooksCurrent'
  BY <1>1, HooksHold
<1>7. WorkerOK'
  <2>1. \A a \in Actors : act'[a].pc = "keys" => act'[a].todo # <<>>
    BY <1>3, <1>4 DEF HookInv, WorkerOK
  <2> QED BY <1>1, <1>3, <1>4, <2>1 DEF WorkerOK, Refreshing
<1>8. batch = <<>>
  BY <1>1 DEF HookInv, WorkerOK
<1>9. ASSUME NEW k \in Keys, Coming(k) PROVE Coming(k)'
  <2>1. PICK n \in DOMAIN queue : Reaches(queue[n], k)
    BY <1>1, <1>8, <1>9 DEF Coming, Queued, Refreshing
  <2>2. queue \in Seq(Event)
    BY DEF HookInv, ViewType
  <2>3. queue # <<>> /\ n \in Nat /\ n >= 1
    BY <2>1, <2>2
  <2>4. act'[Worker].pc = "apply"
    BY <1>3, <1>4, <2>3
  <2>5. CASE n = 1
    BY <1>1, <2>1, <2>4, <2>5 DEF Coming, Reaches, In
  <2>6. CASE n > 1
    BY <1>1, <2>1, <2>6 DEF Coming, Queued, Reaches, In
  <2> QED BY <2>3, <2>5, <2>6
<1>10. DueComing'
  BY <1>1, <1>9 DEF HookInv, DueComing
<1> QED BY <1>5, <1>6, <1>7, <1>10 DEF HookInv

(* What a step of the worker leaves to show when it keeps every invalidation coming. *)
LEMMA WorkerKeeps ==
  ASSUME HookInv, PromiseInv', UNCHANGED <<src, ifc, hooks, queue, due, clash, floor>>,
         batch # <<>>, NEW todo \in Seq(Keys),
         batch' = BatchAfter(Worker, todo), act' \in [Actors -> Actor],
         act'[Worker].pc = Then(Worker, todo), act'[Worker].todo = todo,
         \A a \in Actors \ {Worker} : act'[a].pc = act[a].pc /\ act'[a].todo = act[a].todo,
         \A k \in Keys : Coming(k) => Queued(k) \/ In(k, todo)
  PROVE  HookInv'
<1>1. /\ batch' \in Seq(Event)
      /\ act'[Worker].pc \in {"idle", "drain"} <=> batch' = <<>>
      /\ act'[Worker].pc \notin Refreshing
      /\ act'[Worker].pc = "keys" => todo # <<>>
      /\ \A k \in Keys : Queued(k) \/ In(k, todo) => Coming(k)'
  BY WorkerGoesOn DEF HookInv
<1>2. HooksCurrent'
  BY HooksHold
<1>3. ViewType'
  BY <1>1 DEF HookInv, ViewType
<1>4. WorkerOK'
  <2>1. \A a \in Actors : act'[a].pc = "keys" => act'[a].todo # <<>>
    BY <1>1 DEF HookInv, WorkerOK
  <2> QED BY <1>1, <2>1 DEF WorkerOK
<1>5. DueComing'
  BY <1>1 DEF HookInv, DueComing
<1> QED BY <1>2, <1>3, <1>4, <1>5 DEF HookInv

LEMMA ApplyPatchKeeps == ASSUME HookInv, PromiseInv', ApplyPatch PROVE HookInv'
<1> DEFINE e == Head(batch)
           todo == Affected(e.type, e.id)
           A == Overtake(act, e.id)
           x == [Resting EXCEPT !.pc = Then(Worker, todo), !.todo = todo]
<1>1. /\ act[Worker].pc = "apply" /\ act' = [A EXCEPT ![Worker] = x]
      /\ batch' = BatchAfter(Worker, todo)
      /\ UNCHANGED <<src, ifc, hooks, queue, due, clash, floor>>
  BY DEF ApplyPatch, vars, storeVars, ndmsVars
<1>2. batch # <<>> /\ batch \in Seq(Event) /\ act \in [Actors -> Actor]
  BY <1>1 DEF HookInv, WorkerOK, ViewType
<1>3. e \in Event /\ e = batch[1]
  BY <1>2
<1>4. e.id \in Ifaces
  BY <1>3 DEF Event
<1>5. todo \in Seq(Keys)
  BY <1>3, AffectedFacts
<1>6. x \in Actor /\ x.pc = Then(Worker, todo) /\ x.todo = todo
  BY <1>5, RefreshedFacts
<1>7. /\ A \in [Actors -> Actor]
      /\ \A a \in Actors : A[a].pc = act[a].pc /\ A[a].todo = act[a].todo
  BY <1>2, <1>4, OvertakeFacts
<1>8. \A k \in Keys : Coming(k) => Queued(k) \/ In(k, todo)
  BY <1>1, <1>3 DEF Coming, Reaches, Refreshing
<1> HIDE DEF e, todo, A, x
<1>9. act' \in [Actors -> Actor] /\ act'[Worker] = x /\ \A a \in Actors \ {Worker} : act'[a] = A[a]
  BY <1>1, <1>6, <1>7, WorkerActs
<1> QED BY <1>1, <1>2, <1>5, <1>6, <1>7, <1>8, <1>9, WorkerKeeps

(* OnCreated begins: its invalidations are remembered in todo. *)
LEMMA ApplyCreatedKeeps == ASSUME HookInv, PromiseInv', ApplyCreated PROVE HookInv'
<1> DEFINE e == Head(batch)
           todo == Affected("created", e.id)
           x == [Resting EXCEPT !.pc = "boot", !.scope = {e.id}, !.todo = todo]
<1>1. /\ act[Worker].pc = "apply" /\ e.type = "created" /\ act' = [act EXCEPT ![Worker] = x]
      /\ UNCHANGED <<src, ifc, hooks, queue, batch, due, clash, floor>>
  BY DEF ApplyCreated, vars, storeVars, ndmsVars, queueVars
<1>2. batch # <<>> /\ batch \in Seq(Event)
  BY <1>1 DEF HookInv, WorkerOK, ViewType
<1>3. e \in Event /\ e = batch[1]
  BY <1>2
<1>4. e.id \in Ifaces
  BY <1>3 DEF Event
<1>5. todo \in Seq(Keys)
  BY <1>1, <1>3, AffectedFacts
<1>6. \A k \in Keys : Coming(k) => Queued(k) \/ In(k, todo)
  BY <1>1, <1>3 DEF Coming, Reaches, Refreshing
<1> HIDE DEF e, todo
<1>7. Resting \in Actor
  BY DEF Resting, Actor, Answer
<1>8. x \in Actor /\ x.pc = "boot" /\ x.scope = {e.id} /\ x.todo = todo
  BY <1>4, <1>5, <1>7 DEF Actor, Refreshing
<1> HIDE DEF x
<1>9. act' \in [Actors -> Actor] /\ act'[Worker] = x /\ \A b \in Actors \ {Worker} : act'[b] = act[b]
  BY <1>1, <1>8, ActorMoved, WorkerActs DEF HookInv, ViewType
<1>10. ViewType'
  BY <1>1, <1>9 DEF HookInv, ViewType
<1>11. HooksCurrent'
  BY <1>1, HooksHold
<1>12. WorkerOK'
  <2>1. \A a \in Actors : act'[a].pc = "keys" => act'[a].todo # <<>>
    BY <1>8, <1>9 DEF HookInv, WorkerOK
  <2> QED BY <1>1, <1>2, <1>8, <1>9, <2>1 DEF WorkerOK
<1>13. ASSUME NEW k \in Keys, Coming(k) PROVE Coming(k)'
  <2>1. CASE Queued(k)
    BY <1>1, <2>1 DEF Coming, Queued, Reaches, In
  <2>2. CASE In(k, todo)
    <3>1. In(k, act'[Worker].todo)
      BY <1>8, <1>9, <2>2
    <3> QED BY <1>8, <1>9, <3>1 DEF Coming, In, Refreshing
  <2> QED BY <1>6, <1>13, <2>1, <2>2
<1>14. DueComing'
  BY <1>1, <1>13 DEF HookInv, DueComing
<1> QED BY <1>10, <1>11, <1>12, <1>14 DEF HookInv

(* OnCreated ends, whatever its fetch brought. *)
LEMMA CreatedEnds ==
  ASSUME HookInv, PromiseInv', act[Worker].pc \in Refreshing,
         act' = Overtake([act EXCEPT ![Worker] = Refreshed(Worker)], Head(batch).id),
         batch' = BatchAfter(Worker, act[Worker].todo),
         UNCHANGED <<src, ifc, hooks, queue, due, clash, floor>>
  PROVE  HookInv'
<1> DEFINE i == Head(batch).id
           todo == act[Worker].todo
           x == [Resting EXCEPT !.pc = Then(Worker, todo), !.todo = todo]
           A == [act EXCEPT ![Worker] = x]
<1>1. act' = Overtake(A, i)
  BY DEF Refreshed
<1>2. batch # <<>> /\ batch \in Seq(Event) /\ act \in [Actors -> Actor]
  BY DEF HookInv, WorkerOK, ViewType, Refreshing
<1>3. Head(batch) \in Event
  BY <1>2
<1>4. i \in Ifaces
  BY <1>3 DEF Event
<1>5. todo \in Seq(Keys)
  BY <1>2, WorkerActs DEF Actor
<1>6. \A k \in Keys : Coming(k) => Queued(k) \/ In(k, todo)
  BY DEF Coming, Refreshing
<1>7. batch' = BatchAfter(Worker, todo)
  OBVIOUS
<1>8. x \in Actor /\ x.pc = Then(Worker, todo) /\ x.todo = todo
  BY <1>5, RefreshedFacts
<1> HIDE DEF i, todo, x
<1>9. A \in [Actors -> Actor] /\ A[Worker] = x /\ \A b \in Actors \ {Worker} : A[b] = act[b]
  BY <1>2, <1>8, WorkerActs
<1> HIDE DEF A
<1>10. /\ Overtake(A, i) \in [Actors -> Actor]
       /\ \A a \in Actors : Overtake(A, i)[a].pc = A[a].pc /\ Overtake(A, i)[a].todo = A[a].todo
  BY <1>4, <1>9, OvertakeFacts
<1>11. /\ act' \in [Actors -> Actor]
       /\ \A a \in Actors : act'[a].pc = A[a].pc /\ act'[a].todo = A[a].todo
  BY <1>1, <1>10
<1> QED BY <1>2, <1>5, <1>6, <1>7, <1>8, <1>9, <1>11, WorkerActs, WorkerKeeps

LEMMA WorkerRefreshEnds ==
  ASSUME HookInv, PromiseInv', StoreCreated \/ CreatedFail \/ BootFail(Worker)
  PROVE  HookInv'
<1>1. act[Worker].pc \in Refreshing
  BY DEF StoreCreated, CreatedFail, BootFail, Refreshing
<1>2. /\ act' = Overtake([act EXCEPT ![Worker] = Refreshed(Worker)], Head(batch).id)
      /\ batch' = BatchAfter(Worker, act[Worker].todo)
      /\ UNCHANGED <<src, ifc, hooks, queue, due, clash, floor>>
  BY DEF StoreCreated, CreatedFail, BootFail, vars, storeVars, ndmsVars
<1> QED BY <1>1, <1>2, CreatedEnds

LEMMA CommandRefreshEnds ==
  ASSUME HookInv, PromiseInv', NEW c \in Commands, StoreRefresh(c) \/ RefreshFail(c) \/ BootFail(c)
  PROVE  HookInv'
<1> DEFINE todo == act[c].todo
           x == [Resting EXCEPT !.pc = Then(c, todo), !.todo = todo]
<1>1. c # Worker /\ c \in Actors
  BY WorkerActs
<1>2. /\ act' = [act EXCEPT ![c] = x]
      /\ UNCHANGED <<src, ifc, hooks, queue, batch, due, clash, floor>>
  BY <1>1 DEF StoreRefresh, RefreshFail, BootFail, Refreshed, BatchAfter, vars, storeVars, ndmsVars, queueVars
<1>3. todo \in Seq(Keys)
  BY <1>1 DEF HookInv, ViewType, Actor
<1>4. x \in Actor /\ x.pc = Then(c, todo) /\ x.todo = todo
  BY <1>3, RefreshedFacts
<1> HIDE DEF todo, x
<1>5. x.pc = "keys" => x.todo # <<>>
  BY <1>1, <1>4 DEF Then
<1> QED BY <1>2, <1>4, <1>5, CommandMoves

LEMMA ReadIfacesKeeps ==
  ASSUME HookInv, PromiseInv', NEW c \in Commands, ReadIfaces(c)
  PROVE  HookInv'
<1> DEFINE x == [Resting EXCEPT !.pc = "boot"]
<1>1. /\ act' = [act EXCEPT ![c] = x]
      /\ UNCHANGED <<src, ifc, hooks, queue, batch, due, clash, floor>>
  BY DEF ReadIfaces, vars, storeVars, ndmsVars, queueVars
<1>2. Resting \in Actor
  BY DEF Resting, Actor, Answer
<1>3. x \in Actor /\ x.pc = "boot"
  BY <1>2 DEF Actor, Refreshing
<1> HIDE DEF x
<1> QED BY <1>1, <1>3, CommandMoves

(* The worker or a command goes on with its refresh. *)
LEMMA RefreshGoesOn ==
  ASSUME HookInv, PromiseInv', NEW a \in Actors, NEW x \in Actor, act' = [act EXCEPT ![a] = x],
         UNCHANGED <<src, ifc, hooks, queue, batch, due, clash, floor>>,
         act[a].pc \in Refreshing, x.pc # "keys",
         act[a].scope # {} => x.pc \in Refreshing /\ x.scope = act[a].scope /\ x.todo = act[a].todo
  PROVE  HookInv'
<1>1. CASE a \in Commands
  BY <1>1, CommandMoves
<1>2. CASE a = Worker
  <2>1. act' \in [Actors -> Actor] /\ act'[a] = x /\ \A b \in Actors \ {a} : act'[b] = act[b]
    BY ActorMoved DEF HookInv, ViewType
  <2>2. act[a].scope # {}
    BY <1>2 DEF HookInv, WorkerOK
  <2>3. ViewType'
    BY <2>1 DEF HookInv, ViewType
  <2>4. HooksCurrent'
    BY HooksHold
  <2>5. \A b \in Actors : act'[b].pc = "keys" => act'[b].todo # <<>>
    BY <2>1 DEF HookInv, WorkerOK
  <2> QED BY <1>2, <2>1, <2>2, <2>3, <2>4, <2>5, Holds
<1> QED BY <1>1, <1>2 DEF Actors

LEMMA RefreshKeeps ==
  ASSUME HookInv, PromiseInv', NEW a \in Actors,
         EnsureBootstrap(a) \/ BootFetch(a) \/ BootStore(a) \/ FetchIface(a)
  PROVE  HookInv'
<1>1. UNCHANGED <<src, ifc, hooks, queue, batch, due, clash, floor>>
  BY DEF EnsureBootstrap, BootFetch, BootStore, FetchIface, vars, storeVars, ndmsVars, queueVars
<1>2. act[a] \in Actor /\ act[a].pc \in Refreshing
  BY DEF HookInv, ViewType, EnsureBootstrap, BootFetch, BootStore, FetchIface, Refreshing
<1>3. Resting \in Actor /\ Resting.pc = "idle"
  BY DEF Resting, Actor, Answer
<1>4. CASE EnsureBootstrap(a)
  <2>1. PICK p \in {"fetch", "bootfetch"} :
          \/ act' = [act EXCEPT ![a] = [act[a] EXCEPT !.pc = p]]
          \/ act[a].scope = {} /\ act' = [act EXCEPT ![a] = Resting]
    BY <1>4 DEF EnsureBootstrap
  <2> DEFINE x == [act[a] EXCEPT !.pc = p]
  <2>2. x \in Actor /\ x.pc = p /\ x.scope = act[a].scope /\ x.todo = act[a].todo
    BY <1>2 DEF Actor, Refreshing
  <2>3. CASE act' = [act EXCEPT ![a] = x]
    <3> HIDE DEF x
    <3> QED BY <1>1, <1>2, <2>2, <2>3, RefreshGoesOn DEF Refreshing
  <2>4. CASE act[a].scope = {} /\ act' = [act EXCEPT ![a] = Resting]
    BY <1>1, <1>2, <1>3, <2>4, RefreshGoesOn
  <2> QED BY <2>1, <2>3, <2>4
<1>5. CASE BootFetch(a)
  <2> DEFINE x == [act[a] EXCEPT !.pc = "bootstore", !.got = ifc]
  <2>1. act' = [act EXCEPT ![a] = x]
    BY <1>5 DEF BootFetch, HookInv, ViewType
  <2>2. ifc \in Answer
    BY DEF HookInv, ViewType, Answer
  <2>3. x \in Actor /\ x.pc = "bootstore" /\ x.scope = act[a].scope /\ x.todo = act[a].todo
    BY <1>2, <2>2 DEF Actor, Refreshing
  <2> HIDE DEF x
  <2> QED BY <1>1, <1>2, <2>1, <2>3, RefreshGoesOn DEF Refreshing
<1>6. CASE BootStore(a)
  <2> DEFINE x == [act[a] EXCEPT !.pc = "fetch", !.got = <<>>, !.seen = {}]
  <2>1. x \in Actor /\ x.pc = "fetch" /\ x.scope = act[a].scope /\ x.todo = act[a].todo
    BY <1>2 DEF Actor, Refreshing, Answer
  <2>2. \/ act' = [act EXCEPT ![a] = x]
        \/ act[a].scope = {} /\ act' = [act EXCEPT ![a] = Resting]
    BY <1>6 DEF BootStore
  <2> HIDE DEF x
  <2>3. CASE act' = [act EXCEPT ![a] = x]
    BY <1>1, <1>2, <2>1, <2>3, RefreshGoesOn DEF Refreshing
  <2>4. CASE act[a].scope = {} /\ act' = [act EXCEPT ![a] = Resting]
    BY <1>1, <1>2, <1>3, <2>4, RefreshGoesOn
  <2> QED BY <2>2, <2>3, <2>4
<1>7. CASE FetchIface(a)
  <2> DEFINE g == [i \in act[a].scope |-> ifc[i]]
             x == [act[a] EXCEPT !.pc = "store", !.got = g]
  <2>1. act' = [act EXCEPT ![a] = x]
    BY <1>7 DEF FetchIface, HookInv, ViewType
  <2>2. act[a].scope \in SUBSET Ifaces
    BY <1>2 DEF Actor
  <2>3. g \in [act[a].scope -> Iface]
    BY <2>2 DEF HookInv, ViewType
  <2>4. g \in Answer
    BY <2>2, <2>3 DEF Answer
  <2> HIDE DEF g
  <2>5. x \in Actor /\ x.pc = "store" /\ x.scope = act[a].scope /\ x.todo = act[a].todo
    BY <1>2, <2>4 DEF Actor, Refreshing
  <2> HIDE DEF x
  <2> QED BY <1>1, <1>2, <2>1, <2>5, RefreshGoesOn DEF Refreshing
<1> QED BY <1>4, <1>5, <1>6, <1>7

(* An invalidation brings its key up to date, or meets a call in flight. *)
LEMMA InvalidateFacts ==
  ASSUME HookInv, NEW k \in Keys, InvalidateKey(k)
  PROVE  /\ clash' \in [Keys -> BOOLEAN] /\ (due[k] <= floor'[k] \/ clash'[k])
         /\ \A j \in Keys \ {k} : floor'[j] = floor[j] /\ clash'[j] = clash[j]
<1>1. /\ floor' = [floor EXCEPT ![k] = IF inFlight[k] = NoCall THEN src[k] ELSE floor[k]]
      /\ clash' = [clash EXCEPT ![k] = inFlight[k] # NoCall]
  BY DEF InvalidateKey
<1>2. floor \in [Keys -> Nat] /\ clash \in [Keys -> BOOLEAN] /\ due[k] <= src[k]
  BY DEF HookInv, PromiseInv, StoreInv, StoreType, ViewType, HooksCurrent
<1>3. clash' \in [Keys -> BOOLEAN] /\ (clash'[k] <=> inFlight[k] # NoCall)
  BY <1>1, <1>2
<1>4. inFlight[k] = NoCall => floor'[k] = src[k]
  BY <1>1, <1>2
<1>5. \A j \in Keys \ {k} : floor'[j] = floor[j] /\ clash'[j] = clash[j]
  BY <1>1, <1>2
<1> QED BY <1>2, <1>3, <1>4, <1>5

LEMMA DropKeyKeeps ==
  ASSUME HookInv, PromiseInv', NEW a \in Actors, DropKey(a)
  PROVE  HookInv'
<1> DEFINE k0 == Head(act[a].todo)
           todo == Tail(act[a].todo)
           p == Then(a, todo)
           x == [act[a] EXCEPT !.todo = todo, !.pc = p]
<1>1. /\ act[a].pc = "keys" /\ InvalidateKey(k0) /\ batch' = BatchAfter(a, todo)
      /\ UNCHANGED <<src, ifc, hooks, queue, due>>
  BY DEF DropKey, ndmsVars
<1>2. act \in [Actors -> Actor] /\ act[a] \in Actor
  BY DEF HookInv, ViewType
<1>3. act[a].todo \in Seq(Keys) /\ act[a].todo # <<>>
  BY <1>1, <1>2 DEF HookInv, WorkerOK, Actor
<1>4. /\ k0 \in Keys /\ todo \in Seq(Keys)
      /\ \A k : In(k, act[a].todo) => k = k0 \/ In(k, todo)
  <2> DEFINE old == act[a].todo
  <2> HIDE DEF old
  <2>1. /\ k0 \in Keys /\ todo \in Seq(Keys) /\ k0 = act[a].todo[1]
        /\ \A n \in DOMAIN act[a].todo \ {1} : n - 1 \in DOMAIN todo /\ todo[n - 1] = act[a].todo[n]
    <3>1. old \in Seq(Keys) /\ old # <<>> /\ k0 = Head(old) /\ todo = Tail(old)
      BY <1>3 DEF old
    <3>2. ASSUME NEW n \in DOMAIN old \ {1} PROVE n - 1 \in DOMAIN Tail(old) /\ Tail(old)[n - 1] = old[n]
      BY <3>1
    <3>3. Head(old) \in Keys /\ Tail(old) \in Seq(Keys) /\ Head(old) = old[1]
      BY <3>1
    <3> QED BY <3>1, <3>2, <3>3 DEF old
  <2>2. ASSUME NEW k, In(k, act[a].todo) PROVE k = k0 \/ In(k, todo)
    <3>1. PICK n \in DOMAIN act[a].todo : act[a].todo[n] = k
      BY <2>2 DEF In
    <3>2. CASE n = 1
      BY <2>1, <3>1, <3>2
    <3>3. CASE n # 1
      <4>1. n - 1 \in DOMAIN todo /\ todo[n - 1] = k
        BY <2>1, <3>1, <3>3
      <4> QED BY <4>1 DEF In
    <3> QED BY <3>2, <3>3
  <2> QED BY <2>1, <2>2
<1>5. act' = [act EXCEPT ![a] = x]
  BY <1>2 DEF DropKey
<1>6. p \in {"keys", "apply", "idle"}
  BY DEF Then
<1>7. p = Then(a, todo)
  OBVIOUS
<1> HIDE DEF k0, todo, p
<1>8. x \in Actor /\ x.pc = p /\ x.todo = todo
  BY <1>2, <1>4, <1>6 DEF Actor
<1> HIDE DEF x
<1>9. act' \in [Actors -> Actor] /\ act'[a] = x /\ \A b \in Actors \ {a} : act'[b] = act[b]
  BY <1>2, <1>5, <1>8, ActorMoved
<1>10. /\ clash' \in [Keys -> BOOLEAN] /\ (due[k0] <= floor'[k0] \/ clash'[k0])
       /\ \A j \in Keys \ {k0} : floor'[j] = floor[j] /\ clash'[j] = clash[j]
  BY <1>1, <1>4, InvalidateFacts
<1>11. HooksCurrent'
  BY <1>1, HooksHold
<1>12. CASE a = Worker
  <2>1. batch # <<>>
    BY <1>1, <1>12 DEF HookInv, WorkerOK
  <2>2. /\ batch' \in Seq(Event)
        /\ act'[Worker].pc \in {"idle", "drain"} <=> batch' = <<>>
        /\ act'[Worker].pc \notin Refreshing
        /\ act'[Worker].pc = "keys" => todo # <<>>
        /\ \A k \in Keys : Queued(k) \/ In(k, todo) => Coming(k)'
    BY <1>1, <1>4, <1>7, <1>8, <1>9, <1>12, <2>1, WorkerGoesOn DEF HookInv
  <2>3. ViewType'
    BY <1>1, <1>9, <1>10, <2>2 DEF HookInv, ViewType
  <2>4. WorkerOK'
    <3>1. \A b \in Actors : act'[b].pc = "keys" => act'[b].todo # <<>>
      BY <1>8, <1>9, <1>12, <2>2 DEF HookInv, WorkerOK
    <3> QED BY <2>2, <3>1 DEF WorkerOK
  <2>5. ASSUME NEW k \in Keys, k # k0, Coming(k) PROVE Coming(k)'
    BY <1>1, <1>4, <1>12, <2>2, <2>5 DEF Coming
  <2>6. DueComing'
    BY <1>1, <1>10, <2>5 DEF HookInv, DueComing
  <2> QED BY <1>11, <2>3, <2>4, <2>6 DEF HookInv
<1>13. CASE a # Worker
  <2>1. batch' = batch /\ (p = "keys" => todo # <<>>)
    BY <1>1, <1>7, <1>13 DEF BatchAfter, Then
  <2>2. act'[Worker] = act[Worker]
    BY <1>9, <1>13, WorkerActs
  <2>3. ViewType'
    BY <1>1, <1>9, <1>10, <2>1 DEF HookInv, ViewType
  <2>4. WorkerOK'
    <3>1. \A b \in Actors : act'[b].pc = "keys" => act'[b].todo # <<>>
      BY <1>8, <1>9, <2>1 DEF HookInv, WorkerOK
    <3> QED BY <2>1, <2>2, <3>1 DEF HookInv, WorkerOK
  <2>5. ASSUME NEW k \in Keys, Coming(k) PROVE Coming(k)'
    BY <1>1, <2>1, <2>2, <2>5 DEF Coming, Queued, Reaches, In
  <2>6. DueComing'
    BY <1>1, <1>10, <2>5 DEF HookInv, DueComing
  <2> QED BY <1>11, <2>3, <2>4, <2>6 DEF HookInv
<1> QED BY <1>12, <1>13

LEMMA HookInvStep == ASSUME HookInv, [Next]_allVars PROVE HookInv'
<1>1. PromiseInv'
  BY PromiseStep DEF HookInv
<1>2. CASE Outside
  BY <1>1, <1>2, OutsideKeeps
<1>3. CASE Deliver \/ DeliverAgain
  BY <1>1, <1>3, DeliverKeeps
<1>4. CASE Notify
  BY <1>1, <1>4, SameView DEF Notify, vars, storeVars, ndmsVars
<1>5. ASSUME NEW a \in Actors, RefreshStep(a) PROVE HookInv'
  BY <1>1, <1>5, RefreshKeeps, DropKeyKeeps DEF RefreshStep
<1>6. CASE WorkerStep
  BY <1>1, <1>5, <1>6, WakeKeeps, DrainKeeps, ApplyPatchKeeps, ApplyCreatedKeeps, WorkerRefreshEnds,
     WorkerActs DEF WorkerStep
<1>7. CASE Fault
  BY <1>1, <1>3, <1>7, LoseKeeps, WorkerRefreshEnds, CommandRefreshEnds DEF Fault
<1>8. ASSUME NEW c \in Commands, Issue(c) \/ CommandStep(c) PROVE HookInv'
  BY <1>1, <1>5, <1>8, IssueKeeps, ReadIfacesKeeps, CommandRefreshEnds, WorkerActs DEF Issue, CommandStep
<1>9. ASSUME NEW r \in Readers, GetStep(r), UNCHANGED viewVars PROVE HookInv'
  <2>1. UNCHANGED <<src, floor, clash>>
    BY <1>9 DEF GetStep, Progress, Begin, Lookup, Lead, Join, Fetch, FetchFail, Set, Release, Forget, Return
  <2> QED BY <1>1, <1>9, <2>1, SameView DEF viewVars, ndmsVars, queueVars
<1>10. ASSUME NEW k \in Keys, Expire(k), UNCHANGED viewVars PROVE HookInv'
  BY <1>1, <1>10, SameView DEF Expire, viewVars, ndmsVars, queueVars
<1>11. CASE UNCHANGED allVars
  BY <1>1, <1>11, SameView DEF allVars, vars, storeVars, viewVars, ndmsVars, queueVars
<1> QED BY <1>2, <1>3, <1>4, <1>6, <1>7, <1>8, <1>9, <1>10, <1>11 DEF Next

LEMMA HookInvInitially == ASSUME Init PROVE HookInv
<1>1. PromiseInv
  BY PromiseInitially
<1>2. Resting \in Actor /\ Resting.pc = "idle"
  BY DEF Resting, Actor, Answer
<1>3. /\ act = [a \in Actors |-> Resting] /\ hooks = <<>> /\ queue = <<>> /\ batch = <<>>
      /\ due = [k \in Keys |-> 0] /\ clash = [k \in Keys |-> FALSE]
      /\ src = [k \in Keys |-> 1] /\ floor = [k \in Keys |-> 0]
  BY DEF Init, InitStore, InitView
<1>4. ifc \in [Ifaces -> Iface]
  BY DEF Init, InitView, Iface, Record
<1> HIDE DEF Resting
<1>5. ViewType
  BY <1>2, <1>3, <1>4 DEF ViewType
<1>6. WorkerOK
  BY <1>2, <1>3, WorkerActs DEF WorkerOK, Refreshing
<1>7. HooksCurrent /\ DueComing
  BY <1>3 DEF HooksCurrent, DueComing
<1> QED BY <1>1, <1>5, <1>6, <1>7 DEF HookInv

(* Whatever is delivered, repeated, drained and refreshed in between, once the  *)
(* dispatcher is quiet every delivered hook has invalidated the stores of the   *)
(* data it told of, or the invalidation met a fetch in flight.                  *)
THEOREM EveryHookReachesStores == Spec => []HooksReachStores
<1>1. Init => HookInv
  BY HookInvInitially
<1>2. HookInv /\ [Next]_allVars => HookInv'
  BY HookInvStep
<1>3. HookInv => HooksReachStores
  <2> SUFFICES ASSUME HookInv, Quiet, NEW k \in Keys PROVE floor[k] >= due[k] \/ clash[k]
    BY DEF HooksReachStores
  <2>1. ~Coming(k)
    BY DEF HookInv, WorkerOK, Quiet, Coming, Queued, Refreshing
  <2>2. floor[k] \in Nat /\ due[k] \in Nat
    BY DEF HookInv, PromiseInv, StoreInv, StoreType, ViewType
  <2> QED BY <2>1, <2>2 DEF HookInv, DueComing
<1> QED BY <1>1, <1>2, <1>3, PTL DEF Spec

-----------------------------------------------------------------------------
(* The event-sourced interface map.  Whatever has been read of NDMS, the   *)
(* map's entry or an answer that is still to be stored, is current but for *)
(* the events on their way.                                                *)

Events(s) == {s[n] : n \in DOMAIN s}

(* The events behind the head of the batch, and with the head until it has *)
(* been applied to the map.                                                *)
Later == {batch[n] : n \in DOMAIN batch \ {1}} \cup Events(queue) \cup Events(hooks)
Now == IF batch # <<>> /\ act[Worker].pc # "keys" THEN {batch[1]} ELSE {}
OnWay == Now \cup Later

(* Events come in the order of the changes; a repeated hook is the same event. *)
Sorted(s) == \A m, n \in DOMAIN s : m <= n => s[m].lvl <= s[n].lvl
Before(s, t) == \A e \in Events(s), d \in Events(t) : e.lvl <= d.lvl

InOrder(b, q, h, c) ==
  /\ Sorted(b) /\ Sorted(q) /\ Sorted(h) /\ Before(b, q) /\ Before(b, h) /\ Before(q, h)
  /\ \A e \in Events(b) \cup Events(q) \cup Events(h) :
       /\ e.lvl <= c
       /\ \A d \in Events(b) \cup Events(q) \cup Events(h) : e.lvl = d.lvl => e = d

EventOrder == InOrder(batch, queue, hooks, clock)

Lifecycle == {"created", "destroyed"}

(* v becomes w, what NDMS holds of i, once the events S have been applied to it. *)
Settles(w, i, v, S) ==
  /\ (v = Absent <=> w = Absent) \/ \E e \in S : e.id = i /\ e.type \in Lifecycle
  /\ w # Absent =>
       \A f \in Fields : \/ v # Absent /\ FieldAgrees(f, v[f], w[f])
                         \/ \E e \in S : e.id = i /\ e.type \in {f, "created"}

(* The last event of each kind in S tells of the present w. *)
TellsLife(w, i, e, S) ==
  \E m \in S : /\ m.id = i /\ m.type \in Lifecycle /\ e.lvl <= m.lvl
               /\ m.type = "created" <=> w # Absent
TellsField(w, i, e, S) ==
  \E m \in S : /\ m.id = i /\ m.type \in {e.type, "created"} /\ e.lvl <= m.lvl
               /\ m.type = e.type => FieldAgrees(e.type, m.lvl, w[e.type])

Consistent(w, i, S) ==
  \A e \in S : e.id = i => /\ e.type \in Lifecycle => TellsLife(w, i, e, S)
                           /\ e.type \in Fields /\ w # Absent => TellsField(w, i, e, S)

MapType ==
  /\ byID \in [Ifaces -> Iface] /\ tainted \in [Ifaces -> BOOLEAN] /\ booted \in BOOLEAN
  /\ \A a \in Actors : /\ act[a].pc = "bootstore" => act[a].got \in [Ifaces -> Iface]
                       /\ act[a].pc = "store" => act[a].got \in [act[a].scope -> Iface]

(* The worker refreshes for the created event at the head of its batch. *)
WorkerCreates ==
  act[Worker].pc \in Refreshing => batch[1].type = "created" /\ act[Worker].scope = {batch[1].id}

(* An answer that no event has overtaken settles; the worker's will be     *)
(* stored in place of the event at the head of its batch.                  *)
Ahead(a) == IF a = Worker /\ act[a].pc = "store" THEN Later ELSE OnWay

AnswerSettles(a) ==
  \A i \in Window(act, a) \ act[a].seen : Settles(ifc[i], i, act[a].got[i], Ahead(a))

MapSettles == booted => \A i \in Ifaces : tainted[i] \/ Settles(ifc[i], i, byID[i], OnWay)

EventsTell == \A i \in Ifaces : tainted[i] \/ Consistent(ifc[i], i, OnWay)

MapInv ==
  /\ HookInv /\ EventOrder /\ MapType /\ WorkerCreates
  /\ (\A a \in Actors : AnswerSettles(a)) /\ MapSettles /\ EventsTell

------------------------------------------------------------------------------
(* Events and what they settle *)

LEMMA SettlesMore ==
  ASSUME NEW w, NEW i, NEW v, NEW S, NEW T, Settles(w, i, v, S), \A e \in S : e.id = i => e \in T
  PROVE  Settles(w, i, v, T)
<1>1. (v = Absent <=> w = Absent) \/ \E e \in T : e.id = i /\ e.type \in Lifecycle
  BY DEF Settles
<1>2. ASSUME NEW f \in Fields, w # Absent
      PROVE  (v # Absent /\ FieldAgrees(f, v[f], w[f])) \/ \E e \in T : e.id = i /\ e.type \in {f, "created"}
  BY <1>2 DEF Settles
<1> QED BY <1>1, <1>2 DEF Settles

LEMMA SettlesSelf == ASSUME NEW w, NEW i, NEW S PROVE Settles(w, i, w, S)
BY DEF Settles, FieldAgrees

LEMMA ConsistentSame ==
  ASSUME NEW w, NEW i, NEW S, NEW T, Consistent(w, i, S),
         \A e \in S : e.id = i => e \in T, \A e \in T : e.id = i => e \in S
  PROVE  Consistent(w, i, T)
<1> SUFFICES ASSUME NEW e \in T, e.id = i
             PROVE  /\ e.type \in Lifecycle => TellsLife(w, i, e, T)
                    /\ e.type \in Fields /\ w # Absent => TellsField(w, i, e, T)
  BY DEF Consistent
<1>1. TellsLife(w, i, e, S) => TellsLife(w, i, e, T)
  BY DEF TellsLife
<1>2. TellsField(w, i, e, S) => TellsField(w, i, e, T)
  BY DEF TellsField
<1> QED BY <1>1, <1>2 DEF Consistent

(* h comes before every event of S. *)
First(h, S) == \A e \in S : h.lvl <= e.lvl /\ (e.lvl = h.lvl => e = h)

(* Taking the first event away leaves the rest consistent. *)
LEMMA ConsistentDrop ==
  ASSUME NEW w, NEW i, NEW S \in SUBSET Event, NEW T \in SUBSET S, NEW h \in Event,
         Consistent(w, i, S), First(h, S), \A e \in S : e = h \/ e \in T
  PROVE  Consistent(w, i, T)
<1> SUFFICES ASSUME NEW e \in T, e.id = i
             PROVE  /\ e.type \in Lifecycle => TellsLife(w, i, e, T)
                    /\ e.type \in Fields /\ w # Absent => TellsField(w, i, e, T)
  BY DEF Consistent
<1>1. \A m \in S : e.lvl <= m.lvl => m \in T
  <2> SUFFICES ASSUME NEW m \in S, e.lvl <= m.lvl, m = h PROVE m \in T
    OBVIOUS
  <2>1. e \in S /\ e.lvl \in Nat /\ h.lvl \in Nat
    BY DEF Event
  <2>2. e.lvl = h.lvl
    BY <2>1 DEF First
  <2> QED BY <2>1, <2>2 DEF First
<1>2. TellsLife(w, i, e, S) => TellsLife(w, i, e, T)
  BY <1>1 DEF TellsLife
<1>3. TellsField(w, i, e, S) => TellsField(w, i, e, T)
  BY <1>1 DEF TellsField
<1> QED BY <1>2, <1>3 DEF Consistent

(* What an entry becomes when the event is applied to it (Patched). *)
Patch(v, e) ==
  IF e.type = "destroyed" THEN Absent
  ELSE IF v = Absent \/ e.type = "cleared" \/ e.type \notin Fields THEN v
       ELSE [v EXCEPT ![e.type] = e.lvl]

(* Applying the first event leaves an entry that the others settle. *)
LEMMA PatchSettles ==
  ASSUME NEW w \in Iface, NEW i, NEW v \in Iface, NEW S \in SUBSET Event, NEW T \in SUBSET S, NEW h \in S,
         h.id = i, h.type # "created",
         Consistent(w, i, S), Settles(w, i, v, S), \A e \in S : e = h \/ e \in T
  PROVE  Settles(w, i, Patch(v, h), T)
<1>1. h.type \in {"destroyed", "conf", "ipv4", "address", "cleared"} /\ "cleared" \notin Fields
  BY ViewAssumption DEF Event, EventTypes
<1>2. CASE h.type = "destroyed"
  <2>1. Patch(v, h) = Absent
    BY <1>2 DEF Patch
  <2>2. CASE w = Absent
    BY <2>1, <2>2 DEF Settles
  <2>3. CASE w # Absent
    <3>1. PICK m \in S : m.id = i /\ m.type = "created"
      BY <1>2, <2>3 DEF Consistent, TellsLife, Lifecycle
    <3>2. m \in T
      BY <1>2, <3>1
    <3> QED BY <3>1, <3>2 DEF Settles, Lifecycle
  <2> QED BY <2>2, <2>3
<1>3. CASE h.type # "destroyed"
  <2>1. Patch(v, h) = Absent <=> v = Absent
    BY <1>3, ViewAssumption DEF Patch, Iface, Event
  <2>2. \A e \in S : e.id = i /\ e.type \in Lifecycle => e \in T
    BY <1>1, <1>3 DEF Lifecycle
  <2>3. (Patch(v, h) = Absent <=> w = Absent) \/ \E e \in T : e.id = i /\ e.type \in Lifecycle
    BY <2>1, <2>2 DEF Settles
  <2>4. ASSUME NEW f \in Fields, w # Absent
        PROVE  \/ Patch(v, h) # Absent /\ FieldAgrees(f, Patch(v, h)[f], w[f])
               \/ \E e \in T : e.id = i /\ e.type \in {f, "created"}
    <3>1. CASE f # h.type
      <4>1. \A e \in S : e.type \in {f, "created"} => e \in T
        BY <3>1
      <4>2. v # Absent => Patch(v, h)[f] = v[f]
        BY <1>3, <3>1 DEF Patch, Iface
      <4> QED BY <2>1, <2>4, <4>1, <4>2 DEF Settles
    <3>2. CASE f = h.type
      <4>1. PICK m \in S : m.id = i /\ m.type \in {f, "created"} /\ (m.type = f => FieldAgrees(f, m.lvl, w[f]))
        BY <2>4, <3>2 DEF Consistent, TellsField
      <4>2. CASE m \in T
        BY <4>1, <4>2
      <4>3. CASE m = h
        <5>1. CASE v # Absent
          <6>1. Patch(v, h) = [v EXCEPT ![f] = h.lvl] /\ v \in [Fields -> Nat]
            BY <1>1, <1>3, <3>2, <5>1 DEF Patch, Iface
          <6> QED BY <2>1, <3>2, <4>1, <4>3, <5>1, <6>1
        <5>2. CASE v = Absent
          <6>1. PICK e \in S : e.id = i /\ e.type \in Lifecycle
            BY <2>4, <5>2 DEF Settles
          <6>2. PICK c \in S : c.id = i /\ c.type \in Lifecycle /\ c.type = "created"
            BY <2>4, <6>1 DEF Consistent, TellsLife
          <6>3. c \in T
            BY <6>2
          <6> QED BY <6>2, <6>3
        <5> QED BY <5>1, <5>2
      <4> QED BY <4>1, <4>2, <4>3
    <3> QED BY <3>1, <3>2
  <2> QED BY <2>3, <2>4 DEF Settles
<1> QED BY <1>2, <1>3

(* A change of NDMS, as the new value of the interface and the event that tells of it. *)
ChangesTo(w, w2, n) ==
  \/ n.type = "created" /\ w2 # Absent
  \/ n.type = "destroyed" /\ w2 = Absent
  \/ /\ n.type \in Fields /\ n.type \notin Lifecycle /\ w \in [Fields -> Nat]
     /\ w2 = [w EXCEPT ![n.type] = n.lvl] /\ w # Absent /\ w2 # Absent
  \/ /\ n.type = "cleared" /\ w \in [Fields -> Nat]
     /\ w2 = [w EXCEPT !["address"] = NoAddress] /\ w # Absent /\ w2 # Absent

(* Removing the address leaves the rest, and asks nothing of the address. *)
LEMMA ClearedFields ==
  ASSUME NEW w \in [Fields -> Nat], NEW w2, w2 = [w EXCEPT !["address"] = NoAddress],
         NEW f \in Fields, NEW x, FieldAgrees(f, x, w[f])
  PROVE  FieldAgrees(f, x, w2[f])
<1>1. CASE f = "address"
  <2>1. w2[f] = NoAddress
    BY <1>1
  <2> QED BY <1>1, <2>1 DEF FieldAgrees
<1>2. CASE f # "address"
  <2>1. w2[f] = w[f]
    BY <1>2
  <2> QED BY <2>1
<1> QED BY <1>1, <1>2

LEMMA ChangeSettles ==
  ASSUME NEW w, NEW w2, NEW n, NEW v, NEW S, ChangesTo(w, w2, n), Settles(w, n.id, v, S)
  PROVE  Settles(w2, n.id, v, S \cup {n})
<1> DEFINE i == n.id
           T == S \cup {n}
<1>1. CASE n.type \in Lifecycle
  <2>1. n.type = "created" \/ w2 = Absent
    BY <1>1 DEF ChangesTo, Lifecycle
  <2> QED BY <1>1, <2>1 DEF Settles
<1>2. CASE n.type = "cleared"
  <2>1. w \in [Fields -> Nat] /\ w2 = [w EXCEPT !["address"] = NoAddress] /\ w # Absent /\ w2 # Absent
    BY <1>2, ViewAssumption DEF ChangesTo
  <2>2. (v = Absent <=> w2 = Absent) \/ \E e \in T : e.id = i /\ e.type \in Lifecycle
    BY <2>1 DEF Settles
  <2>3. ASSUME NEW f \in Fields
        PROVE  (v # Absent /\ FieldAgrees(f, v[f], w2[f])) \/ \E e \in T : e.id = i /\ e.type \in {f, "created"}
    <3>1. (v # Absent /\ FieldAgrees(f, v[f], w[f])) \/ \E e \in S : e.id = i /\ e.type \in {f, "created"}
      BY <2>1 DEF Settles
    <3> QED BY <2>1, <3>1, ClearedFields
  <2> QED BY <2>2, <2>3 DEF Settles
<1>3. CASE n.type \notin Lifecycle \cup {"cleared"}
  <2>1. n.type \in Fields /\ w \in [Fields -> Nat] /\ w2 = [w EXCEPT ![n.type] = n.lvl] /\ w # Absent /\ w2 # Absent
    BY <1>3 DEF ChangesTo, Lifecycle
  <2>2. (v = Absent <=> w2 = Absent) \/ \E e \in T : e.id = i /\ e.type \in Lifecycle
    BY <2>1 DEF Settles
  <2>3. ASSUME NEW f \in Fields
        PROVE  (v # Absent /\ FieldAgrees(f, v[f], w2[f])) \/ \E e \in T : e.id = i /\ e.type \in {f, "created"}
    <3>1. CASE f = n.type
      BY <3>1
    <3>2. CASE f # n.type
      <4>1. w2[f] = w[f]
        BY <2>1, <3>2
      <4> QED BY <2>1, <4>1 DEF Settles
    <3> QED BY <3>1, <3>2
  <2> QED BY <2>2, <2>3 DEF Settles
<1> QED BY <1>1, <1>2, <1>3

LEMMA ChangeConsistent ==
  ASSUME NEW w, NEW w2, NEW n \in Event, NEW S \in SUBSET Event, ChangesTo(w, w2, n),
         Consistent(w, n.id, S), \A e \in S : e.lvl <= n.lvl
  PROVE  Consistent(w2, n.id, S \cup {n})
<1> DEFINE i == n.id
           T == S \cup {n}
<1> SUFFICES ASSUME NEW e \in T, e.id = i
             PROVE  /\ e.type \in Lifecycle => TellsLife(w2, i, e, T)
                    /\ e.type \in Fields /\ w2 # Absent => TellsField(w2, i, e, T)
  BY DEF Consistent
<1>1. n \in T /\ e.lvl <= n.lvl
  BY DEF Event
<1>2. CASE n.type \in Lifecycle
  <2>1. n.type = "created" <=> w2 # Absent
    BY <1>2, ViewAssumption DEF ChangesTo, Lifecycle
  <2>2. TellsLife(w2, i, e, T)
    BY <1>1, <1>2, <2>1 DEF TellsLife
  <2>3. e.type \in Fields /\ w2 # Absent => TellsField(w2, i, e, T)
    BY <1>1, <2>1, ViewAssumption DEF TellsField
  <2> QED BY <2>2, <2>3
<1>3. CASE n.type \notin Lifecycle \cup {"cleared"}
  <2>1. n.type \in Fields /\ w \in [Fields -> Nat] /\ w2 = [w EXCEPT ![n.type] = n.lvl] /\ w # Absent /\ w2 # Absent
    BY <1>3 DEF ChangesTo, Lifecycle
  <2>2. e.type \in Lifecycle => TellsLife(w2, i, e, T)
    <3> SUFFICES ASSUME e.type \in Lifecycle PROVE TellsLife(w2, i, e, T)
      OBVIOUS
    <3>1. e \in S
      BY <1>3
    <3>2. TellsLife(w, i, e, S)
      BY <3>1 DEF Consistent
    <3> QED BY <2>1, <3>2 DEF TellsLife
  <2>3. e.type \in Fields => TellsField(w2, i, e, T)
    <3> SUFFICES ASSUME e.type \in Fields PROVE TellsField(w2, i, e, T)
      OBVIOUS
    <3>1. CASE e.type = n.type
      BY <1>1, <2>1, <3>1 DEF TellsField, FieldAgrees
    <3>2. CASE e.type # n.type
      <4>1. e \in S /\ w2[e.type] = w[e.type]
        BY <2>1, <3>2
      <4>2. TellsField(w, i, e, S)
        BY <2>1, <4>1 DEF Consistent
      <4> QED BY <4>1, <4>2 DEF TellsField
    <3> QED BY <3>1, <3>2
  <2> QED BY <2>2, <2>3
<1>4. CASE n.type = "cleared"
  <2>1. w \in [Fields -> Nat] /\ w2 = [w EXCEPT !["address"] = NoAddress] /\ w # Absent /\ w2 # Absent
    BY <1>4, ViewAssumption DEF ChangesTo
  <2>2. n.type \notin Lifecycle /\ n.type \notin Fields
    BY <1>4, ViewAssumption DEF Lifecycle
  <2>3. e.type \in Lifecycle => TellsLife(w2, i, e, T)
    <3> SUFFICES ASSUME e.type \in Lifecycle PROVE TellsLife(w2, i, e, T)
      OBVIOUS
    <3>1. e \in S
      BY <2>2
    <3>2. TellsLife(w, i, e, S)
      BY <3>1 DEF Consistent
    <3> QED BY <2>1, <3>2 DEF TellsLife
  <2>4. e.type \in Fields => TellsField(w2, i, e, T)
    <3> SUFFICES ASSUME e.type \in Fields PROVE TellsField(w2, i, e, T)
      OBVIOUS
    <3>1. e \in S
      BY <2>2
    <3>2. PICK m \in S : /\ m.id = i /\ m.type \in {e.type, "created"} /\ e.lvl <= m.lvl
                         /\ m.type = e.type => FieldAgrees(e.type, m.lvl, w[e.type])
      BY <2>1, <3>1 DEF Consistent, TellsField
    <3>3. m.type = e.type => FieldAgrees(e.type, m.lvl, w2[e.type])
      BY <2>1, <3>2, ClearedFields
    <3> QED BY <3>2, <3>3 DEF TellsField
  <2> QED BY <2>3, <2>4
<1> QED BY <1>2, <1>3, <1>4

------------------------------------------------------------------------------
(* Sequences of events *)

LEMMA EventsType == ASSUME NEW s \in Seq(Event) PROVE Events(s) \in SUBSET Event
BY DEF Events

LEMMA TailFacts ==
  ASSUME NEW s \in Seq(Event), s # <<>>
  PROVE  /\ Tail(s) \in Seq(Event) /\ s[1] \in Event /\ Head(s) = s[1]
         /\ Events(Tail(s)) = {s[n] : n \in DOMAIN s \ {1}}
         /\ Events(s) = {s[1]} \cup Events(Tail(s))
         /\ Sorted(s) => Sorted(Tail(s)) /\ \A e \in Events(s) : s[1].lvl <= e.lvl
<1>1. /\ Tail(s) \in Seq(Event) /\ Head(s) = s[1] /\ Len(s) \in Nat /\ Len(s) >= 1
      /\ DOMAIN s = 1 .. Len(s) /\ DOMAIN Tail(s) = 1 .. Len(s) - 1 /\ s[1] \in Event
  OBVIOUS
<1>2. \A n \in 1 .. Len(s) - 1 : Tail(s)[n] = s[n + 1]
  OBVIOUS
<1>3. ASSUME NEW e \in Events(Tail(s)) PROVE e \in {s[n] : n \in DOMAIN s \ {1}}
  <2>1. PICK n \in DOMAIN Tail(s) : e = Tail(s)[n]
    BY DEF Events
  <2>2. n + 1 \in DOMAIN s \ {1} /\ e = s[n + 1]
    BY <1>1, <1>2, <2>1
  <2> QED BY <2>2
<1>4. ASSUME NEW n \in DOMAIN s \ {1} PROVE s[n] \in Events(Tail(s))
  <2>1. n - 1 \in DOMAIN Tail(s) /\ Tail(s)[n - 1] = s[n]
    BY <1>1, <1>2
  <2> QED BY <2>1 DEF Events
<1>5. Events(Tail(s)) = {s[n] : n \in DOMAIN s \ {1}}
  BY <1>3, <1>4
<1>6. Events(s) = {s[1]} \cup {s[n] : n \in DOMAIN s \ {1}}
  BY <1>1 DEF Events
<1>7. ASSUME Sorted(s) PROVE Sorted(Tail(s))
  <2> SUFFICES ASSUME NEW m \in DOMAIN Tail(s), NEW n \in DOMAIN Tail(s), m <= n
               PROVE  Tail(s)[m].lvl <= Tail(s)[n].lvl
    BY DEF Sorted
  <2>1. m + 1 \in DOMAIN s /\ n + 1 \in DOMAIN s /\ m + 1 <= n + 1
    BY <1>1
  <2> QED BY <1>1, <1>2, <1>7, <2>1 DEF Sorted
<1>8. ASSUME Sorted(s), NEW e \in Events(s) PROVE s[1].lvl <= e.lvl
  <2>1. PICK n \in DOMAIN s : e = s[n]
    BY DEF Events
  <2> QED BY <1>1, <1>8, <2>1 DEF Sorted
<1> QED BY <1>1, <1>5, <1>6, <1>7, <1>8

LEMMA AppendFacts ==
  ASSUME NEW s \in Seq(Event), NEW e \in Event
  PROVE  /\ Append(s, e) \in Seq(Event)
         /\ Events(Append(s, e)) = Events(s) \cup {e}
         /\ Sorted(s) /\ (\A d \in Events(s) : d.lvl <= e.lvl) => Sorted(Append(s, e))
<1> DEFINE t == Append(s, e)
<1>1. /\ t \in Seq(Event) /\ Len(s) \in Nat /\ DOMAIN s = 1 .. Len(s) /\ DOMAIN t = 1 .. Len(s) + 1
      /\ t[Len(s) + 1] = e /\ \A n \in DOMAIN s : t[n] = s[n]
  OBVIOUS
<1> HIDE DEF t
<1>2. ASSUME NEW d \in Events(t) PROVE d \in Events(s) \cup {e}
  <2>1. PICK n \in DOMAIN t : d = t[n]
    BY DEF Events
  <2>2. n \in DOMAIN s \/ n = Len(s) + 1
    BY <1>1, <2>1
  <2> QED BY <1>1, <2>1, <2>2 DEF Events
<1>3. ASSUME NEW d \in Events(s) \cup {e} PROVE d \in Events(t)
  <2>1. CASE d = e
    BY <1>1, <2>1 DEF Events
  <2>2. CASE d \in Events(s)
    <3>1. PICK n \in DOMAIN s : d = s[n]
      BY <2>2 DEF Events
    <3>2. n \in DOMAIN t /\ d = t[n]
      BY <1>1, <3>1
    <3> QED BY <3>2 DEF Events
  <2> QED BY <2>1, <2>2
<1>4. ASSUME Sorted(s), \A d \in Events(s) : d.lvl <= e.lvl PROVE Sorted(t)
  <2> SUFFICES ASSUME NEW m \in DOMAIN t, NEW n \in DOMAIN t, m <= n PROVE t[m].lvl <= t[n].lvl
    BY DEF Sorted
  <2>1. CASE n \in DOMAIN s
    <3>1. m \in DOMAIN s
      BY <1>1, <2>1
    <3> QED BY <1>1, <1>4, <2>1, <3>1 DEF Sorted
  <2>2. CASE n \notin DOMAIN s
    <3>1. t[n] = e
      BY <1>1, <2>2
    <3>2. CASE m \in DOMAIN s
      <4>1. t[m] \in Events(s)
        BY <1>1, <3>2 DEF Events
      <4> QED BY <1>4, <3>1, <4>1
    <3>3. CASE m \notin DOMAIN s
      <4>1. t[m] = e
        BY <1>1, <3>3
      <4> QED BY <3>1, <4>1 DEF Event
    <3> QED BY <3>2, <3>3
  <2> QED BY <2>1, <2>2
<1>5. Events(t) = Events(s) \cup {e}
  BY <1>2, <1>3
<1> QED BY <1>1, <1>4, <1>5 DEF t

LEMMA OrderShrinks ==
  ASSUME NEW b \in Seq(Event), NEW q \in Seq(Event), NEW h \in Seq(Event), NEW c \in Nat, InOrder(b, q, h, c)
  PROVE  /\ b # <<>> => InOrder(Tail(b), q, h, c)
         /\ h # <<>> => InOrder(b, q, Tail(h), c)
         /\ b = <<>> => InOrder(q, <<>>, h, c)
         /\ h # <<>> => InOrder(b, Append(q, h[1]), h, c)
<1>1. ASSUME b # <<>> PROVE InOrder(Tail(b), q, h, c)
  <2>1. Events(Tail(b)) \subseteq Events(b) /\ Sorted(Tail(b))
    BY <1>1, TailFacts DEF InOrder
  <2> QED BY <2>1 DEF InOrder, Before
<1>2. ASSUME h # <<>> PROVE InOrder(b, q, Tail(h), c)
  <2>1. Events(Tail(h)) \subseteq Events(h) /\ Sorted(Tail(h))
    BY <1>2, TailFacts DEF InOrder
  <2> QED BY <2>1 DEF InOrder, Before
<1>3. Events(<<>>) = {} /\ Sorted(<<>>)
  BY DEF Events, Sorted
<1>4. ASSUME b = <<>> PROVE InOrder(q, <<>>, h, c)
  BY <1>3, <1>4 DEF InOrder, Before
<1>5. ASSUME h # <<>> PROVE InOrder(b, Append(q, h[1]), h, c)
  <2> DEFINE e == h[1]
             p == Append(q, e)
  <2>1. e \in Event /\ e \in Events(h) /\ \A d \in Events(h) : e.lvl <= d.lvl
    BY <1>5, TailFacts DEF InOrder
  <2>2. Events(p) = Events(q) \cup {e}
    BY <2>1, AppendFacts
  <2>3. \A d \in Events(q) : d.lvl <= e.lvl
    BY <2>1 DEF InOrder, Before
  <2>4. Sorted(p)
    BY <2>1, <2>3, AppendFacts DEF InOrder
  <2> HIDE DEF p, e
  <2>5. Before(b, p) /\ Before(p, h)
    BY <2>1, <2>2 DEF InOrder, Before
  <2>6. Events(b) \cup Events(p) \cup Events(h) = Events(b) \cup Events(q) \cup Events(h)
    BY <2>1, <2>2
  <2> QED BY <2>4, <2>5, <2>6 DEF InOrder, p, e
<1> QED BY <1>1, <1>2, <1>4, <1>5

LEMMA OrderGrows ==
  ASSUME NEW b \in Seq(Event), NEW q \in Seq(Event), NEW h \in Seq(Event), NEW c \in Nat, InOrder(b, q, h, c),
         NEW n \in Event, n.lvl = c + 1
  PROVE  InOrder(b, q, Append(h, n), c + 1)
<1> DEFINE t == Append(h, n)
           S == Events(b) \cup Events(q) \cup Events(h)
<1>1. S \in SUBSET Event
  BY EventsType
<1>2. \A e \in S : e.lvl \in Nat /\ e.lvl <= c /\ e.lvl < n.lvl
  BY <1>1 DEF InOrder, Event
<1>3. Events(t) = Events(h) \cup {n} /\ Sorted(t)
  <2>1. \A d \in Events(h) : d.lvl <= n.lvl
    BY <1>2
  <2> QED BY <2>1, AppendFacts DEF InOrder
<1> HIDE DEF t
<1>4. Before(b, t) /\ Before(q, t)
  <2>1. \A e \in S : e.lvl <= n.lvl
    BY <1>2
  <2> QED BY <1>3, <2>1 DEF InOrder, Before
<1>5. ASSUME NEW e \in S \cup {n}
      PROVE  e.lvl <= c + 1 /\ \A d \in S \cup {n} : e.lvl = d.lvl => e = d
  <2>1. e.lvl <= c + 1
    BY <1>2
  <2>2. ASSUME NEW d \in S \cup {n}, e.lvl = d.lvl PROVE e = d
    <3>1. CASE e \in S /\ d \in S
      BY <2>2, <3>1 DEF InOrder
    <3>2. CASE e = n \/ d = n
      BY <1>2, <2>2, <3>2
    <3> QED BY <3>1, <3>2
  <2> QED BY <2>1, <2>2
<1>6. Events(b) \cup Events(q) \cup Events(t) = S \cup {n}
  BY <1>3
<1> HIDE DEF S
<1> QED BY <1>3, <1>4, <1>5, <1>6 DEF InOrder, t

------------------------------------------------------------------------------
(* The view's steps *)

LEMMA Types ==
  ASSUME HookInv
  PROVE  /\ batch \in Seq(Event) /\ queue \in Seq(Event) /\ hooks \in Seq(Event) /\ clock \in Nat
         /\ act \in [Actors -> Actor] /\ ifc \in [Ifaces -> Iface]
         /\ act[Worker].pc \in {"idle", "drain"} <=> batch = <<>>
BY DEF HookInv, ViewType, WorkerOK, PromiseInv, ClockAhead

LEMMA OnWayFacts ==
  ASSUME HookInv, EventOrder
  PROVE  /\ OnWay \in SUBSET Event /\ Later \in SUBSET OnWay
         /\ \A e \in OnWay : e.lvl <= clock
         /\ batch # <<>> => /\ batch[1] \in Event /\ First(batch[1], OnWay)
                            /\ \A e \in OnWay : e = batch[1] \/ e \in Later
<1> DEFINE all == Events(batch) \cup Events(queue) \cup Events(hooks)
<1>1. all \in SUBSET Event
  BY Types, EventsType
<1>2. {batch[n] : n \in DOMAIN batch \ {1}} \subseteq Events(batch)
  BY DEF Events
<1>3. Now \subseteq Events(batch)
  <2>1. batch # <<>> => 1 \in DOMAIN batch
    BY Types
  <2> QED BY <2>1 DEF Now, Events
<1>4. OnWay \subseteq all /\ Later \subseteq OnWay
  BY <1>2, <1>3 DEF OnWay, Later
<1>5. \A e \in all : e.lvl <= clock
  BY DEF EventOrder, InOrder
<1>6. ASSUME batch # <<>>
      PROVE  /\ batch[1] \in Event /\ First(batch[1], OnWay)
             /\ \A e \in OnWay : e = batch[1] \/ e \in Later
  <2>1. batch[1] \in Event /\ batch[1] \in Events(batch) /\ \A e \in Events(batch) : batch[1].lvl <= e.lvl
    BY <1>6, Types, TailFacts DEF EventOrder, InOrder
  <2>2. \A e \in all : batch[1].lvl <= e.lvl
    BY <2>1 DEF EventOrder, InOrder, Before
  <2>3. \A e \in all : e.lvl = batch[1].lvl => e = batch[1]
    BY <2>1 DEF EventOrder, InOrder
  <2>4. First(batch[1], OnWay)
    BY <1>4, <2>2, <2>3 DEF First
  <2>5. \A e \in OnWay : e = batch[1] \/ e \in Later
    BY DEF OnWay, Now
  <2> QED BY <2>1, <2>4, <2>5
<1> QED BY <1>1, <1>4, <1>5, <1>6

(* The worker is done with the head of its batch: the later events remain. *)
LEMMA WorkerAdvances ==
  ASSUME HookInv, EventOrder, batch # <<>>, NEW todo \in Seq(Keys), UNCHANGED <<queue, hooks, clock>>,
         batch' = BatchAfter(Worker, todo), act'[Worker].pc = Then(Worker, todo)
  PROVE  OnWay' = Later /\ EventOrder'
<1>1. batch \in Seq(Event) /\ Len(batch) \in Nat
  BY Types
<1>2. CASE todo # <<>>
  <2>1. act'[Worker].pc = "keys" /\ batch' = batch
    BY <1>2 DEF Then, BatchAfter
  <2> QED BY <2>1 DEF OnWay, Now, Later, EventOrder
<1>3. CASE todo = <<>>
  <2>1. batch' = Tail(batch) /\ act'[Worker].pc # "keys"
    BY <1>3 DEF Then, BatchAfter
  <2>2. EventOrder'
    BY <2>1, Types, OrderShrinks DEF EventOrder
  <2>3. batch' \in Seq(Event) /\ Events(batch') = {batch[n] : n \in DOMAIN batch \ {1}}
    BY <1>1, <2>1, TailFacts
  <2>4. Events(batch') = Now' \cup {batch'[n] : n \in DOMAIN batch' \ {1}}
    <3>1. CASE batch' = <<>>
      BY <3>1 DEF Now, Events
    <3>2. CASE batch' # <<>>
      <4>1. Now' = {batch'[1]}
        BY <2>1, <3>2 DEF Now
      <4>2. 1 \in DOMAIN batch'
        BY <2>3, <3>2
      <4> QED BY <4>1, <4>2 DEF Events
    <3> QED BY <3>1, <3>2
  <2> QED BY <2>2, <2>3, <2>4 DEF OnWay, Later, Events
<1> QED BY <1>2, <1>3

(* An answer stays settled while its events stay on their way. *)
LEMMA AnswerHolds ==
  ASSUME MapInv, NEW a \in Actors, UNCHANGED ifc,
         act'[a].pc = act[a].pc, act'[a].scope = act[a].scope, act'[a].got = act[a].got,
         act[a].seen \subseteq act'[a].seen,
         \A i \in Window(act, a) \ act'[a].seen : \A e \in Ahead(a) : e.id = i => e \in Ahead(a)'
  PROVE  AnswerSettles(a)'
<1>1. Window(act', a) = Window(act, a)
  BY DEF Window
<1>2. ASSUME NEW i \in Window(act', a) \ act'[a].seen
      PROVE  Settles(ifc'[i], i, act'[a].got[i], Ahead(a)')
  <2>1. Settles(ifc[i], i, act[a].got[i], Ahead(a))
    BY <1>1 DEF MapInv, AnswerSettles
  <2> QED BY <1>1, <2>1, SettlesMore
<1> QED BY <1>2 DEF AnswerSettles, Settles, Window

LEMMA NoAnswer ==
  ASSUME NEW a, act'[a].pc \notin {"store", "bootstore"}
  PROVE  AnswerSettles(a)'
BY DEF AnswerSettles, Window

(* One actor moves and shows that its answer settles; no event is applied. *)
LEMMA ActorStores ==
  ASSUME MapInv, HookInv', NEW a \in Actors, UNCHANGED ifc,
         EventOrder', OnWay' = OnWay, a # Worker => UNCHANGED <<batch, queue, hooks>>,
         \A b \in Actors \ {a} : act'[b] = act[b],
         AnswerSettles(a)',
         act'[a].pc = "bootstore" => act'[a].got \in [Ifaces -> Iface],
         act'[a].pc = "store" => act'[a].got \in [act'[a].scope -> Iface],
         WorkerCreates',
         byID' \in [Ifaces -> Iface], tainted' \in [Ifaces -> BOOLEAN], booted' \in BOOLEAN,
         MapSettles', EventsTell'
  PROVE  MapInv'
<1>1. MapType'
  BY DEF MapInv, MapType
<1>2. ASSUME NEW b \in Actors PROVE AnswerSettles(b)'
  <2>1. CASE b = a
    BY <2>1
  <2>2. CASE b # a
    <3>1. Ahead(b)' = Ahead(b)
      <4>1. CASE a = Worker
        BY <2>2, <4>1 DEF Ahead
      <4>2. CASE a # Worker
        BY <2>2, <4>2 DEF Ahead, Later
      <4> QED BY <4>1, <4>2
    <3> QED BY <2>2, <3>1, AnswerHolds
  <2> QED BY <2>1, <2>2
<1> QED BY <1>1, <1>2 DEF MapInv

(* The same, and the map is left alone. *)
LEMMA ActorSteps ==
  ASSUME MapInv, HookInv', NEW a \in Actors, UNCHANGED <<ifc, byID, booted, tainted>>,
         EventOrder', OnWay' = OnWay, a # Worker => UNCHANGED <<batch, queue, hooks>>,
         \A b \in Actors \ {a} : act'[b] = act[b],
         AnswerSettles(a)',
         act'[a].pc = "bootstore" => act'[a].got \in [Ifaces -> Iface],
         act'[a].pc = "store" => act'[a].got \in [act'[a].scope -> Iface],
         WorkerCreates'
  PROVE  MapInv'
<1>1. byID' \in [Ifaces -> Iface] /\ tainted' \in [Ifaces -> BOOLEAN] /\ booted' \in BOOLEAN
  BY DEF MapInv, MapType
<1>2. MapSettles' /\ EventsTell'
  BY DEF MapInv, MapSettles, EventsTell
<1> QED BY <1>1, <1>2, ActorStores

LEMMA MapSame ==
  ASSUME MapInv, HookInv',
         UNCHANGED <<ifc, clock, hooks, queue, batch, act, byID, booted, tainted>>
  PROVE  MapInv'
<1>1. OnWay' = OnWay /\ Later' = Later
  BY DEF OnWay, Now, Later
<1>2. EventOrder' /\ MapType' /\ WorkerCreates'
  BY DEF MapInv, EventOrder, MapType, WorkerCreates
<1>3. \A a \in Actors : AnswerSettles(a)'
  BY <1>1 DEF MapInv, AnswerSettles, Ahead, Window
<1>4. MapSettles' /\ EventsTell'
  BY <1>1 DEF MapInv, MapSettles, EventsTell
<1> QED BY <1>2, <1>3, <1>4 DEF MapInv

(* NDMS changes an interface: the hook that tells of it is on its way. *)
LEMMA ChangeMap ==
  ASSUME MapInv, HookInv', NEW i \in Ifaces, NEW t \in EventTypes,
         Change(t, i), UNCHANGED <<queue, batch, byID, booted, tainted>>,
         act'[Worker] = act[Worker],
         \A a \in Actors : act'[a] = act[a] \/ act'[a].pc \notin {"store", "bootstore", "keys"}
  PROVE  MapInv'
<1> DEFINE n == [type |-> t, id |-> i, lvl |-> clock + 1]
<1>1. clock' = clock + 1 /\ hooks' = Append(hooks, n)
  BY DEF Change
<1>2. HookInv /\ EventOrder
  BY DEF MapInv
<1>3. n \in Event /\ n.type = t /\ n.id = i /\ n.lvl = clock + 1
  BY <1>2, Types DEF Event
<1>4. /\ \A j \in Ifaces \ {i} : ifc'[j] = ifc[j]
      /\ ChangesTo(ifc[i], ifc'[i], n)
  <2>1. Record(clock + 1) \in [Fields -> Nat]
    BY <1>2, Types DEF Record
  <2>2. CASE t = "created"
    <3>1. ifc' = [ifc EXCEPT ![i] = Record(clock + 1)]
      BY <2>2 DEF Change
    <3> QED BY <1>2, <1>3, <2>1, <2>2, <3>1, Types, ViewAssumption DEF ChangesTo
  <2>3. CASE t = "destroyed"
    <3>1. ifc' = [ifc EXCEPT ![i] = Absent]
      BY <2>3 DEF Change
    <3> QED BY <1>2, <1>3, <2>3, <3>1, Types DEF ChangesTo
  <2>5. CASE t = "cleared"
    <3>1. Present(i) /\ "address" \in Fields /\ ifc' = [ifc EXCEPT ![i]["address"] = NoAddress]
      BY <2>5 DEF Change
    <3>2. ifc[i] \in [Fields -> Nat] /\ ifc[i] # Absent
      BY <1>2, <3>1, Types DEF Iface, Present
    <3>3. ifc'[i] = [ifc[i] EXCEPT !["address"] = NoAddress] /\ \A j \in Ifaces \ {i} : ifc'[j] = ifc[j]
      BY <1>2, <3>1, Types
    <3>4. ifc'[i] \in [Fields -> Nat]
      <4>1. NoAddress \in Nat
        BY DEF NoAddress
      <4>2. ASSUME NEW w \in [Fields -> Nat] PROVE [w EXCEPT !["address"] = NoAddress] \in [Fields -> Nat]
        BY <4>1
      <4> QED BY <3>2, <3>3, <4>2
    <3> QED BY <1>3, <2>5, <3>1, <3>2, <3>3, <3>4, ViewAssumption DEF ChangesTo
  <2>4. CASE t \notin Lifecycle \cup {"cleared"}
    <3>1. Present(i) /\ t \in Fields /\ ifc' = [ifc EXCEPT ![i][t] = clock + 1]
      BY <2>4 DEF Change, Lifecycle
    <3>2. ifc[i] \in [Fields -> Nat] /\ ifc[i] # Absent
      BY <1>2, <3>1, Types DEF Iface, Present
    <3>3. ifc'[i] = [ifc[i] EXCEPT ![t] = clock + 1] /\ \A j \in Ifaces \ {i} : ifc'[j] = ifc[j]
      BY <1>2, <3>1, Types
    <3>4. ifc'[i] \in [Fields -> Nat]
      <4>1. clock + 1 \in Nat
        BY <1>2, Types
      <4> QED BY <3>2, <3>3, <4>1
    <3> QED BY <1>3, <2>4, <3>1, <3>2, <3>3, <3>4, ViewAssumption DEF ChangesTo
  <2> QED BY <2>2, <2>3, <2>4, <2>5 DEF Lifecycle
<1> HIDE DEF n
<1>5. EventOrder'
  BY <1>1, <1>2, <1>3, Types, OrderGrows DEF EventOrder
<1>6. OnWay' = OnWay \cup {n} /\ Later' = Later \cup {n}
  <2>1. Events(hooks') = Events(hooks) \cup {n}
    BY <1>1, <1>2, <1>3, Types, AppendFacts
  <2> QED BY <2>1 DEF OnWay, Now, Later, Events
<1>7. ASSUME NEW j \in Ifaces, NEW v, NEW S, Settles(ifc[j], j, v, S)
      PROVE  Settles(ifc'[j], j, v, S \cup {n})
  <2>1. CASE j = i
    BY <1>3, <1>4, <1>7, <2>1, ChangeSettles
  <2>2. CASE j # i
    BY <1>4, <1>7, <2>2, SettlesMore
  <2> QED BY <2>1, <2>2
<1>8. ASSUME NEW j \in Ifaces, Consistent(ifc[j], j, OnWay)
      PROVE  Consistent(ifc'[j], j, OnWay')
  <2>1. OnWay \in SUBSET Event /\ \A e \in OnWay : e.lvl <= n.lvl
    <3>1. OnWay \in SUBSET Event /\ \A e \in OnWay : e.lvl <= clock
      BY <1>2, OnWayFacts
    <3> QED BY <1>2, <1>3, <3>1, Types DEF Event
  <2>2. CASE j = i
    BY <1>3, <1>4, <1>6, <1>8, <2>1, <2>2, ChangeConsistent
  <2>3. CASE j # i
    BY <1>3, <1>4, <1>6, <1>8, <2>3, ConsistentSame
  <2> QED BY <2>2, <2>3
<1>9. ASSUME NEW a \in Actors PROVE AnswerSettles(a)'
  <2>1. CASE act'[a].pc \notin {"store", "bootstore", "keys"}
    BY <2>1, NoAnswer
  <2>2. CASE act'[a] = act[a]
    <3>1. Window(act', a) = Window(act, a) /\ Ahead(a)' = Ahead(a) \cup {n}
      BY <1>6, <2>2 DEF Window, Ahead
    <3>2. Window(act, a) \subseteq Ifaces
      BY <1>2, Types DEF Window, Actor
    <3>3. ASSUME NEW j \in Window(act', a) \ act'[a].seen
          PROVE  Settles(ifc'[j], j, act'[a].got[j], Ahead(a)')
      <4>1. Settles(ifc[j], j, act[a].got[j], Ahead(a))
        BY <2>2, <3>1 DEF MapInv, AnswerSettles
      <4> QED BY <1>7, <2>2, <3>1, <3>2, <4>1
    <3> QED BY <3>3 DEF AnswerSettles, Settles, Window
  <2> QED BY <2>1, <2>2
<1>10. MapSettles'
  BY <1>6, <1>7 DEF MapInv, MapSettles
<1>11. EventsTell'
  BY <1>8 DEF MapInv, EventsTell
<1>12. MapType'
  BY DEF MapInv, MapType
<1>13. WorkerCreates'
  BY DEF MapInv, WorkerCreates
<1> QED BY <1>5, <1>9, <1>10, <1>11, <1>12, <1>13 DEF MapInv

(* A delivered hook is on its way still. *)
LEMMA DeliverMap == ASSUME MapInv, HookInv', Deliver \/ DeliverAgain PROVE MapInv'
<1>1. /\ hooks # <<>> /\ (hooks' = hooks \/ hooks' = Tail(hooks)) /\ queue' = Append(queue, Head(hooks))
      /\ UNCHANGED <<ifc, clock, batch, act, byID, booted, tainted>>
  BY DEF Deliver, DeliverAgain, Enqueued, ndmsVars, ifaceVars
<1>2. HookInv /\ EventOrder
  BY DEF MapInv
<1>3. /\ hooks[1] \in Event /\ Head(hooks) = hooks[1]
      /\ Events(hooks) = {hooks[1]} \cup Events(Tail(hooks))
  BY <1>1, <1>2, Types, TailFacts
<1>4. Events(queue') = Events(queue) \cup {hooks[1]} /\ queue' \in Seq(Event)
  BY <1>1, <1>2, <1>3, Types, AppendFacts
<1>5. OnWay' = OnWay /\ Later' = Later
  <2>1. Events(queue') \cup Events(hooks') = Events(queue) \cup Events(hooks)
    BY <1>1, <1>3, <1>4
  <2>2. Later' = {batch[m] : m \in DOMAIN batch \ {1}} \cup (Events(queue') \cup Events(hooks'))
    BY <1>1 DEF Later, Events
  <2>3. Later = {batch[m] : m \in DOMAIN batch \ {1}} \cup (Events(queue) \cup Events(hooks))
    BY DEF Later
  <2>4. Now' = Now
    BY <1>1 DEF Now
  <2> QED BY <2>1, <2>2, <2>3, <2>4 DEF OnWay
<1>6. EventOrder'
  <2>1. InOrder(batch, queue', hooks, clock)
    BY <1>1, <1>2, <1>3, Types, OrderShrinks DEF EventOrder
  <2>2. InOrder(batch, queue', Tail(hooks), clock)
    BY <1>1, <1>2, <1>4, <2>1, Types, OrderShrinks
  <2> QED BY <1>1, <2>1, <2>2 DEF EventOrder
<1>7. MapType' /\ WorkerCreates'
  BY <1>1 DEF MapInv, MapType, WorkerCreates
<1>8. \A a \in Actors : AnswerSettles(a)'
  BY <1>1, <1>5 DEF MapInv, AnswerSettles, Ahead, Window
<1>9. MapSettles' /\ EventsTell'
  BY <1>1, <1>5 DEF MapInv, MapSettles, EventsTell
<1> QED BY <1>6, <1>7, <1>8, <1>9 DEF MapInv

(* The refreshes that an event overtakes are marked, and changed in nothing else. *)
LEMMA OvertakeMarks ==
  ASSUME NEW A \in [Actors -> Actor], NEW i \in Ifaces, NEW a \in Actors
  PROVE  /\ Overtake(A, i)[a].pc = A[a].pc /\ Overtake(A, i)[a].scope = A[a].scope
         /\ Overtake(A, i)[a].got = A[a].got /\ Overtake(A, i)[a].todo = A[a].todo
         /\ A[a].seen \subseteq Overtake(A, i)[a].seen
         /\ i \in Window(A, a) => i \in Overtake(A, i)[a].seen
<1> DEFINE x == [A[a] EXCEPT !.seen = @ \cup {i}]
<1>1. A[a] \in Actor
  OBVIOUS
<1>2. /\ x.pc = A[a].pc /\ x.scope = A[a].scope /\ x.got = A[a].got /\ x.todo = A[a].todo
      /\ x.seen = A[a].seen \cup {i}
  BY <1>1 DEF Actor
<1>3. Overtake(A, i)[a] = IF i \in Window(A, a) THEN x ELSE A[a]
  BY DEF Overtake
<1> HIDE DEF x
<1> QED BY <1>2, <1>3

LEMMA LoseMap == ASSUME MapInv, HookInv', Lose PROVE MapInv'
<1> DEFINE h == hooks[1]
<1>1. HookInv /\ EventOrder
  BY DEF MapInv
<1>2. hooks # <<>>
  BY DEF Lose
<1>3. h \in Event /\ Head(hooks) = h /\ Events(hooks) = {h} \cup Events(Tail(hooks))
  BY <1>1, <1>2, Types, TailFacts
<1>4. /\ hooks' = Tail(hooks) /\ tainted' = [tainted EXCEPT ![h.id] = TRUE] /\ act' = Overtake(act, h.id)
      /\ UNCHANGED <<ifc, clock, queue, batch, byID, booted>>
  BY <1>3 DEF Lose, queueVars
<1>5. h.id \in Ifaces /\ h.id = h.id
  BY <1>3 DEF Event
<1>6. \A a \in Actors : /\ act'[a].pc = act[a].pc /\ act'[a].scope = act[a].scope /\ act'[a].got = act[a].got
                        /\ act[a].seen \subseteq act'[a].seen
                        /\ h.id \in Window(act, a) => h.id \in act'[a].seen
  BY <1>1, <1>4, <1>5, Types, OvertakeMarks
<1>7. EventOrder'
  BY <1>1, <1>2, <1>4, Types, OrderShrinks DEF EventOrder
<1>8. /\ \A e \in OnWay : e.id # h.id => e \in OnWay'
      /\ \A e \in OnWay' : e \in OnWay
      /\ \A e \in Later : e.id # h.id => e \in Later'
  <2>1. Now' = Now
    BY <1>4, <1>6, WorkerActs DEF Now
  <2>2. Later' = {batch[m] : m \in DOMAIN batch \ {1}} \cup Events(queue) \cup Events(Tail(hooks))
    BY <1>4 DEF Later, Events
  <2> QED BY <1>3, <2>1, <2>2 DEF OnWay, Later
<1>9. /\ tainted' \in [Ifaces -> BOOLEAN] /\ tainted'[h.id]
      /\ \A i \in Ifaces \ {h.id} : tainted'[i] = tainted[i]
  BY <1>4, <1>5 DEF MapInv, MapType
<1> HIDE DEF h
<1>10. ASSUME NEW a \in Actors PROVE AnswerSettles(a)'
  <2>1. \A i \in Window(act, a) \ act'[a].seen : \A e \in Ahead(a) : e.id = i => e \in Ahead(a)'
    BY <1>6, <1>8 DEF Ahead
  <2> QED BY <1>4, <1>6, <2>1, AnswerHolds
<1>11. MapSettles'
  <2> SUFFICES ASSUME booted, NEW i \in Ifaces, ~tainted'[i] PROVE Settles(ifc[i], i, byID[i], OnWay')
    BY <1>4 DEF MapSettles, Settles
  <2>1. i # h.id /\ Settles(ifc[i], i, byID[i], OnWay)
    BY <1>9 DEF MapInv, MapSettles
  <2> QED BY <1>8, <2>1, SettlesMore
<1>12. EventsTell'
  <2> SUFFICES ASSUME NEW i \in Ifaces, ~tainted'[i] PROVE Consistent(ifc[i], i, OnWay')
    BY <1>4 DEF EventsTell, Consistent, TellsLife, TellsField
  <2>1. i # h.id /\ Consistent(ifc[i], i, OnWay)
    BY <1>9 DEF MapInv, EventsTell
  <2> QED BY <1>8, <2>1, ConsistentSame
<1>13. MapType'
  BY <1>4, <1>6, <1>9 DEF MapInv, MapType
<1>14. WorkerCreates'
  BY <1>4, <1>6, WorkerActs DEF MapInv, WorkerCreates
<1> QED BY <1>7, <1>10, <1>11, <1>12, <1>13, <1>14 DEF MapInv

LEMMA WakeMap == ASSUME MapInv, HookInv', Wake PROVE MapInv'
<1>1. /\ act[Worker].pc = "idle" /\ act' = [act EXCEPT ![Worker].pc = "drain"]
      /\ UNCHANGED <<ifc, clock, queue, hooks, batch, byID, booted, tainted>>
  BY DEF Wake, ndmsVars, ifaceVars
<1>2. act'[Worker].pc = "drain" /\ \A b \in Actors \ {Worker} : act'[b] = act[b]
  BY <1>1, Types, WorkerActs DEF MapInv, Actor
<1>3. OnWay' = OnWay
  BY <1>1, <1>2 DEF OnWay, Now, Later
<1>4. EventOrder'
  BY <1>1 DEF MapInv, EventOrder
<1>5. WorkerCreates' /\ AnswerSettles(Worker)'
  BY <1>2, NoAnswer DEF WorkerCreates, Refreshing
<1> QED BY <1>1, <1>2, <1>3, <1>4, <1>5, WorkerActs, ActorSteps

LEMMA DrainMap == ASSUME MapInv, HookInv', Drain PROVE MapInv'
<1> DEFINE p == IF queue = <<>> THEN "idle" ELSE "apply"
<1>1. /\ act[Worker].pc = "drain" /\ act' = [act EXCEPT ![Worker].pc = p]
      /\ batch' = queue /\ queue' = <<>>
      /\ UNCHANGED <<ifc, clock, hooks, byID, booted, tainted>>
  BY DEF Drain, ndmsVars, ifaceVars
<1>2. HookInv /\ EventOrder /\ batch = <<>>
  BY <1>1, Types DEF MapInv
<1>3. act'[Worker].pc = p /\ \A b \in Actors \ {Worker} : act'[b] = act[b]
  BY <1>1, <1>2, Types, WorkerActs DEF Actor
<1>4. OnWay' = OnWay
  <2>1. OnWay = Events(queue) \cup Events(hooks)
    BY <1>2 DEF OnWay, Now, Later
  <2>2. Events(queue) = Now' \cup {batch'[n] : n \in DOMAIN batch' \ {1}}
    <3>1. CASE queue = <<>>
      BY <1>1, <3>1 DEF Now, Events
    <3>2. CASE queue # <<>>
      <4>1. Now' = {queue[1]} /\ 1 \in DOMAIN queue
        BY <1>1, <1>2, <1>3, <3>2, Types DEF Now
      <4> QED BY <1>1, <4>1 DEF Events
    <3> QED BY <3>1, <3>2
  <2>3. Events(queue') = {} /\ Events(hooks') = Events(hooks)
    BY <1>1 DEF Events
  <2> QED BY <2>1, <2>2, <2>3 DEF OnWay, Later, Events
<1>5. EventOrder'
  BY <1>1, <1>2, Types, OrderShrinks DEF EventOrder
<1>6. WorkerCreates' /\ AnswerSettles(Worker)'
  BY <1>3, NoAnswer DEF WorkerCreates, Refreshing
<1> QED BY <1>1, <1>3, <1>4, <1>5, <1>6, WorkerActs, ActorSteps

(* The head of the batch has been applied: what an entry of its interface is *)
(* by then, or that it is tainted, is left to the event.                     *)
LEMMA HeadApplied ==
  ASSUME MapInv, HookInv', batch # <<>>, NEW todo \in Seq(Keys),
         UNCHANGED <<ifc, clock, queue, hooks, booted>>,
         batch' = BatchAfter(Worker, todo), act'[Worker].pc = Then(Worker, todo),
         \A a \in Actors \ {Worker} :
           /\ act'[a].pc = act[a].pc /\ act'[a].scope = act[a].scope /\ act'[a].got = act[a].got
           /\ act[a].seen \subseteq act'[a].seen
           /\ batch[1].id \in Window(act, a) => batch[1].id \in act'[a].seen,
         byID' \in [Ifaces -> Iface], tainted' \in [Ifaces -> BOOLEAN],
         \A i \in Ifaces \ {batch[1].id} : byID'[i] = byID[i] /\ tainted'[i] = tainted[i],
         \A i \in Ifaces : i = batch[1].id /\ ~tainted'[i] =>
           ~tainted[i] /\ (booted => Settles(ifc[i], i, byID'[i], Later))
  PROVE  MapInv'
<1> DEFINE h == batch[1]
<1>1. HookInv /\ EventOrder
  BY DEF MapInv
<1>2. OnWay' = Later /\ EventOrder'
  BY <1>1, WorkerAdvances
<1>3. /\ OnWay \in SUBSET Event /\ Later \in SUBSET OnWay
      /\ h \in Event /\ First(h, OnWay) /\ \A e \in OnWay : e = h \/ e \in Later
  BY <1>1, OnWayFacts
<1>4. act'[Worker].pc \notin {"store", "bootstore"} \cup Refreshing
  BY DEF Then, Refreshing
<1>5. ASSUME NEW a \in Actors PROVE AnswerSettles(a)'
  <2>1. CASE a = Worker
    BY <1>4, <2>1, NoAnswer
  <2>2. CASE a # Worker
    <3>1. Ahead(a) = OnWay /\ Ahead(a)' = Later
      BY <1>2, <2>2 DEF Ahead
    <3>2. \A i \in Window(act, a) \ act'[a].seen : \A e \in Ahead(a) : e.id = i => e \in Ahead(a)'
      BY <1>3, <2>2, <3>1
    <3> QED BY <2>2, <3>2, AnswerHolds
  <2> QED BY <2>1, <2>2
<1>6. MapSettles'
  <2> SUFFICES ASSUME booted, NEW i \in Ifaces, ~tainted'[i] PROVE Settles(ifc[i], i, byID'[i], Later)
    BY <1>2 DEF MapSettles, Settles
  <2>1. CASE i = h.id
    BY <2>1
  <2>2. CASE i # h.id
    <3>1. Settles(ifc[i], i, byID'[i], OnWay)
      BY <2>2 DEF MapInv, MapSettles
    <3>2. \A e \in OnWay : e.id = i => e \in Later
      BY <1>3, <2>2
    <3> QED BY <3>1, <3>2, SettlesMore
  <2> QED BY <2>1, <2>2
<1>7. EventsTell'
  <2> SUFFICES ASSUME NEW i \in Ifaces, ~tainted'[i] PROVE Consistent(ifc[i], i, Later)
    BY <1>2 DEF EventsTell, Consistent, TellsLife, TellsField
  <2>1. ~tainted[i]
    BY DEF h
  <2>2. Consistent(ifc[i], i, OnWay)
    BY <2>1 DEF MapInv, EventsTell
  <2> QED BY <1>3, <2>2, ConsistentDrop
<1>8. MapType'
  BY <1>4 DEF MapInv, MapType
<1>9. WorkerCreates'
  BY <1>4 DEF WorkerCreates
<1> QED BY <1>2, <1>5, <1>6, <1>7, <1>8, <1>9 DEF MapInv

LEMMA ApplyPatchMap == ASSUME MapInv, HookInv', ApplyPatch PROVE MapInv'
<1> DEFINE h == batch[1]
           todo == Affected(h.type, h.id)
           A == Overtake(act, h.id)
           x == [Resting EXCEPT !.pc = Then(Worker, todo), !.todo = todo]
<1>1. HookInv /\ EventOrder
  BY DEF MapInv
<1>2. act[Worker].pc = "apply" /\ batch # <<>>
  BY <1>1, Types DEF ApplyPatch
<1>3. h \in Event /\ Head(batch) = h
  BY <1>1, <1>2, Types, TailFacts
<1>4. h.id \in Ifaces
  BY <1>3 DEF Event
<1>5. /\ h.type # "created" /\ act' = [A EXCEPT ![Worker] = x] /\ batch' = BatchAfter(Worker, todo)
      /\ byID' = Patched(h) /\ UNCHANGED <<ifc, clock, queue, hooks, booted, tainted>>
  BY <1>3 DEF ApplyPatch, ndmsVars
<1>6. todo \in Seq(Keys)
  BY <1>3, AffectedFacts
<1>7. x.pc = Then(Worker, todo) /\ x \in Actor
  BY <1>6, RefreshedFacts
<1>8. A \in [Actors -> Actor] /\ act \in [Actors -> Actor]
  BY <1>1, <1>4, Types, OvertakeFacts
<1>9. \A a \in Actors : /\ A[a].pc = act[a].pc /\ A[a].scope = act[a].scope /\ A[a].got = act[a].got
                        /\ act[a].seen \subseteq A[a].seen
                        /\ h.id \in Window(act, a) => h.id \in A[a].seen
  BY <1>4, <1>8, OvertakeMarks
<1> HIDE DEF A, x, todo
<1>10. act'[Worker] = x /\ \A a \in Actors \ {Worker} : act'[a] = A[a]
  BY <1>5, <1>8, WorkerActs
<1>11. byID \in [Ifaces -> Iface]
  BY DEF MapInv, MapType
<1>12. /\ \A i \in Ifaces \ {h.id} : byID'[i] = byID[i]
       /\ byID'[h.id] = Patch(byID[h.id], h)
       /\ byID' = [byID EXCEPT ![h.id] = Patch(byID[h.id], h)]
  BY <1>4, <1>5, <1>11 DEF Patched, Patch
<1>13. Patch(byID[h.id], h) \in Iface
  <2>1. byID[h.id] \in Iface /\ h.lvl \in Nat
    BY <1>3, <1>4, <1>11 DEF Event
  <2>2. CASE byID[h.id] = Absent
    BY <2>1, <2>2 DEF Patch, Iface
  <2>3. CASE byID[h.id] # Absent
    <3>1. byID[h.id] \in [Fields -> Nat]
      BY <2>1, <2>3 DEF Iface
    <3>2. h.type \in Fields => [byID[h.id] EXCEPT ![h.type] = h.lvl] \in [Fields -> Nat]
      BY <2>1, <3>1
    <3> QED BY <3>1, <3>2 DEF Patch, Iface
  <2> QED BY <2>2, <2>3
<1>14. byID' \in [Ifaces -> Iface]
  BY <1>11, <1>12, <1>13
<1>15. ASSUME NEW i \in Ifaces, i = h.id, ~tainted[i], booted
       PROVE  Settles(ifc[i], i, byID'[i], Later)
  <2>1. Consistent(ifc[i], i, OnWay) /\ Settles(ifc[i], i, byID[i], OnWay)
    BY <1>15 DEF MapInv, EventsTell, MapSettles
  <2>2. h \in OnWay
    BY <1>2 DEF OnWay, Now
  <2>3. /\ OnWay \in SUBSET Event /\ Later \in SUBSET OnWay
        /\ \A e \in OnWay : e = h \/ e \in Later
    BY <1>1, <1>2, OnWayFacts
  <2>4. ifc[i] \in Iface /\ byID[i] \in Iface
    BY <1>1, <1>11, Types
  <2>5. Settles(ifc[i], i, Patch(byID[i], h), Later)
    BY <1>5, <1>15, <2>1, <2>2, <2>3, <2>4, PatchSettles
  <2> QED BY <1>12, <1>15, <2>5
<1>16. tainted' \in [Ifaces -> BOOLEAN]
  BY <1>5 DEF MapInv, MapType
<1> QED BY <1>2, <1>5, <1>6, <1>7, <1>9, <1>10, <1>12, <1>14, <1>15, <1>16, HeadApplied

LEMMA ApplyCreatedMap == ASSUME MapInv, HookInv', ApplyCreated PROVE MapInv'
<1> DEFINE e == Head(batch)
           x == [Resting EXCEPT !.pc = "boot", !.scope = {e.id}, !.todo = Affected("created", e.id)]
<1>1. /\ act[Worker].pc = "apply" /\ e.type = "created" /\ act' = [act EXCEPT ![Worker] = x]
      /\ UNCHANGED <<ifc, clock, queue, hooks, batch, byID, booted, tainted>>
  BY DEF ApplyCreated, ndmsVars, queueVars, ifaceVars
<1>2. HookInv /\ EventOrder /\ batch # <<>>
  BY <1>1, Types DEF MapInv
<1>3. e = batch[1]
  BY <1>2, Types, TailFacts
<1>4. x.pc = "boot" /\ x.scope = {e.id}
  BY DEF Resting
<1> HIDE DEF x
<1>5. act'[Worker] = x /\ \A b \in Actors \ {Worker} : act'[b] = act[b]
  BY <1>1, <1>2, Types, WorkerActs
<1>6. OnWay' = OnWay
  BY <1>1, <1>4, <1>5 DEF OnWay, Now, Later
<1>7. EventOrder'
  BY <1>1, <1>2 DEF EventOrder
<1>8. WorkerCreates' /\ AnswerSettles(Worker)'
  BY <1>1, <1>3, <1>4, <1>5, NoAnswer DEF WorkerCreates
<1> QED BY <1>1, <1>4, <1>5, <1>6, <1>7, <1>8, WorkerActs, ActorSteps

(* OnCreated inserts an entry where NDMS had none: an event that destroys it is on its way. *)
LEMMA StubSettles ==
  ASSUME NEW w, NEW i, NEW x, x # Absent, NEW S, NEW T, NEW h \in S, h.id = i, h.type = "created",
         Consistent(w, i, S), \A e \in S : e = h \/ e \in T, Settles(w, i, Absent, T)
  PROVE  Settles(w, i, x, T)
<1>1. CASE w = Absent
  <2>1. PICK m \in S : m.id = i /\ m.type \in Lifecycle /\ (m.type = "created" <=> w # Absent)
    BY DEF Consistent, TellsLife, Lifecycle
  <2>2. m \in T
    BY <1>1, <2>1
  <2> QED BY <1>1, <2>1, <2>2 DEF Settles
<1>2. CASE w # Absent
  BY <1>2 DEF Settles
<1> QED BY <1>1, <1>2

(* The worker is done with a created event. *)
LEMMA CreatedEndsMap ==
  ASSUME MapInv, HookInv', batch # <<>>, UNCHANGED <<ifc, clock, queue, hooks, booted>>,
         act' = Overtake([act EXCEPT ![Worker] = Refreshed(Worker)], Head(batch).id),
         batch' = BatchAfter(Worker, act[Worker].todo),
         byID' \in [Ifaces -> Iface], tainted' \in [Ifaces -> BOOLEAN],
         \A i \in Ifaces \ {batch[1].id} : byID'[i] = byID[i] /\ tainted'[i] = tainted[i],
         \A i \in Ifaces : i = batch[1].id /\ ~tainted'[i] =>
           ~tainted[i] /\ (booted => Settles(ifc[i], i, byID'[i], Later))
  PROVE  MapInv'
<1> DEFINE h == batch[1]
           todo == act[Worker].todo
           x == [Resting EXCEPT !.pc = Then(Worker, todo), !.todo = todo]
           A == [act EXCEPT ![Worker] = x]
<1>1. HookInv /\ act \in [Actors -> Actor] /\ batch \in Seq(Event)
  BY Types DEF MapInv
<1>2. h \in Event /\ Head(batch) = h
  BY <1>1, TailFacts
<1>3. h.id \in Ifaces
  BY <1>2 DEF Event
<1>4. todo \in Seq(Keys)
  BY <1>1, WorkerActs DEF Actor
<1>5. x.pc = Then(Worker, todo) /\ x \in Actor
  BY <1>4, RefreshedFacts
<1>6. act' = Overtake(A, h.id) /\ batch' = BatchAfter(Worker, todo)
  BY <1>2 DEF Refreshed
<1> HIDE DEF x, todo
<1>7. A \in [Actors -> Actor] /\ A[Worker] = x /\ \A a \in Actors \ {Worker} : A[a] = act[a]
  BY <1>1, <1>5, WorkerActs
<1> HIDE DEF A
<1>8. \A a \in Actors \ {Worker} : Window(A, a) = Window(act, a)
  BY <1>7 DEF Window
<1>9. act'[Worker].pc = Then(Worker, todo)
  BY <1>3, <1>5, <1>6, <1>7, WorkerActs, OvertakeMarks
<1>10. ASSUME NEW a \in Actors \ {Worker}
       PROVE  /\ act'[a].pc = act[a].pc /\ act'[a].scope = act[a].scope /\ act'[a].got = act[a].got
              /\ act[a].seen \subseteq act'[a].seen
              /\ h.id \in Window(act, a) => h.id \in act'[a].seen
  <2>1. /\ Overtake(A, h.id)[a].pc = A[a].pc /\ Overtake(A, h.id)[a].scope = A[a].scope
        /\ Overtake(A, h.id)[a].got = A[a].got /\ A[a].seen \subseteq Overtake(A, h.id)[a].seen
        /\ h.id \in Window(A, a) => h.id \in Overtake(A, h.id)[a].seen
    BY <1>3, <1>7, OvertakeMarks
  <2> QED BY <1>6, <1>7, <1>8, <2>1
<1> QED BY <1>4, <1>6, <1>9, <1>10, HeadApplied

(* A created event that the worker gives up leaves its interface tainted. *)
LEMMA CreatedLostMap ==
  ASSUME MapInv, HookInv', CreatedFail \/ BootFail(Worker)
  PROVE  MapInv'
<1> DEFINE h == batch[1]
<1>1. HookInv /\ act[Worker].pc \in {"fetch", "bootfetch"}
  BY DEF MapInv, CreatedFail, BootFail
<1>2. batch # <<>> /\ batch \in Seq(Event)
  BY <1>1, Types
<1>3. h \in Event /\ Head(batch) = h
  BY <1>2, TailFacts
<1>4. h.id \in Ifaces
  BY <1>3 DEF Event
<1>5. /\ UNCHANGED <<ifc, clock, queue, hooks, booted>>
      /\ act' = Overtake([act EXCEPT ![Worker] = Refreshed(Worker)], Head(batch).id)
      /\ batch' = BatchAfter(Worker, act[Worker].todo)
      /\ tainted' = [tainted EXCEPT ![h.id] = TRUE]
      /\ byID' = byID \/ byID' = [byID EXCEPT ![h.id] = CreatedEntry(h.id, Absent)]
  BY <1>3 DEF CreatedFail, BootFail, ndmsVars
<1>6. byID \in [Ifaces -> Iface] /\ tainted \in [Ifaces -> BOOLEAN]
  BY DEF MapInv, MapType
<1>7. CreatedEntry(h.id, Absent) \in Iface
  BY <1>4, <1>6 DEF CreatedEntry, Stub, Record, Iface
<1>8. byID' \in [Ifaces -> Iface] /\ tainted' \in [Ifaces -> BOOLEAN] /\ tainted'[h.id]
  BY <1>4, <1>5, <1>6, <1>7
<1>9. \A i \in Ifaces \ {h.id} : byID'[i] = byID[i] /\ tainted'[i] = tainted[i]
  BY <1>5, <1>6
<1> QED BY <1>2, <1>5, <1>8, <1>9, CreatedEndsMap

LEMMA StoreCreatedMap == ASSUME MapInv, HookInv', StoreCreated PROVE MapInv'
<1> DEFINE h == batch[1]
           i == h.id
           v == act[Worker].got[i]
<1>1. HookInv /\ EventOrder /\ act[Worker].pc = "store"
  BY DEF MapInv, StoreCreated
<1>2. batch # <<>> /\ batch \in Seq(Event)
  BY <1>1, Types
<1>3. h \in Event /\ Head(batch) = h /\ 1 \in DOMAIN batch
  BY <1>2, TailFacts
<1>4. i \in Ifaces
  BY <1>3 DEF Event
<1>5. /\ UNCHANGED <<ifc, clock, queue, hooks, booted>>
      /\ act' = Overtake([act EXCEPT ![Worker] = Refreshed(Worker)], Head(batch).id)
      /\ batch' = BatchAfter(Worker, act[Worker].todo)
      /\ tainted' = TaintAfter(Worker, {i})
      /\ byID' = [byID EXCEPT ![i] = CreatedEntry(i, v)]
  BY <1>3 DEF StoreCreated, ndmsVars
<1>6. byID \in [Ifaces -> Iface] /\ tainted \in [Ifaces -> BOOLEAN]
  BY DEF MapInv, MapType
<1>7. h.type = "created" /\ act[Worker].scope = {i}
  BY <1>1 DEF MapInv, WorkerCreates, Refreshing
<1>8. v \in Iface
  BY <1>1, <1>7, WorkerActs DEF MapInv, MapType
<1>9. Stub \in Iface /\ Stub # Absent
  BY ViewAssumption DEF Stub, Record, Iface
<1>10. CreatedEntry(i, v) \in Iface
  BY <1>4, <1>6, <1>8, <1>9 DEF CreatedEntry
<1>11. Pending(i)
  BY <1>3 DEF Pending
<1>12. /\ tainted' \in [Ifaces -> BOOLEAN]
       /\ tainted'[i] = (i \in act[Worker].seen \/ tainted[i])
       /\ \A j \in Ifaces \ {i} : tainted'[j] = tainted[j]
  BY <1>4, <1>5, <1>6, <1>11 DEF TaintAfter
<1>13. /\ byID' \in [Ifaces -> Iface] /\ byID'[i] = CreatedEntry(i, v)
       /\ \A j \in Ifaces \ {i} : byID'[j] = byID[j]
  BY <1>4, <1>5, <1>6, <1>10
<1>14. ASSUME ~tainted'[i] PROVE ~tainted[i] /\ Settles(ifc[i], i, byID'[i], Later)
  <2>1. ~tainted[i] /\ i \notin act[Worker].seen
    BY <1>12, <1>14
  <2>2. i \in Window(act, Worker) /\ Ahead(Worker) = Later
    BY <1>1, <1>7 DEF Window, Ahead
  <2>3. Settles(ifc[i], i, v, Later)
    BY <2>1, <2>2, WorkerActs DEF MapInv, AnswerSettles
  <2>4. Consistent(ifc[i], i, OnWay)
    BY <1>4, <2>1 DEF MapInv, EventsTell
  <2>5. h \in OnWay /\ \A e \in OnWay : e = h \/ e \in Later
    BY <1>1, <1>2, OnWayFacts DEF OnWay, Now
  <2>6. CASE v # Absent
    BY <1>13, <2>1, <2>3, <2>6 DEF CreatedEntry
  <2>7. CASE v = Absent
    <3>1. byID'[i] # Absent
      BY <1>9, <1>13, <2>7 DEF CreatedEntry
    <3> QED BY <1>7, <2>1, <2>3, <2>4, <2>5, <2>7, <3>1, StubSettles
  <2> QED BY <2>6, <2>7
<1> QED BY <1>2, <1>5, <1>12, <1>13, <1>14, CreatedEndsMap

------------------------------------------------------------------------------
(* Refreshes of the worker and the commands *)

(* While an actor is refreshing, the events on their way are the same. *)
LEMMA RefreshWay ==
  ASSUME MapInv, NEW a \in Actors, UNCHANGED <<clock, batch, queue, hooks>>,
         \A b \in Actors \ {a} : act'[b] = act[b],
         a = Worker => /\ act[a].pc \in Refreshing /\ act'[a].pc # "keys"
                       /\ act'[a].pc \in Refreshing => act'[a].scope = act[a].scope
  PROVE  OnWay' = OnWay /\ EventOrder' /\ WorkerCreates'
<1>1. Now' = Now
  BY WorkerActs DEF Now, Refreshing
<1>2. OnWay' = OnWay
  BY <1>1 DEF OnWay, Later
<1>3. EventOrder'
  BY DEF MapInv, EventOrder
<1>4. WorkerCreates'
  BY WorkerActs DEF MapInv, WorkerCreates
<1> QED BY <1>2, <1>3, <1>4

LEMMA NothingPending ==
  ASSUME HookInv, NEW i, ~Pending(i)
  PROVE  \A e \in OnWay : e.id # i
<1>1. batch # <<>> => 1 \in DOMAIN batch
  BY Types
<1>2. \A e \in Events(batch) \cup Events(queue) \cup Events(hooks) : e.id # i
  BY DEF Pending, Events
<1>3. OnWay \subseteq Events(batch) \cup Events(queue) \cup Events(hooks)
  BY <1>1 DEF OnWay, Now, Later, Events
<1> QED BY <1>2, <1>3

(* A refresh that is stored settles what it was about, but for the interfaces *)
(* whose events overtook it.                                                  *)
LEMMA RefreshStored ==
  ASSUME MapInv, NEW a \in Actors, NEW S \in SUBSET Window(act, a), Ahead(a) = OnWay, OnWay' = OnWay,
         UNCHANGED ifc, tainted' = TaintAfter(a, S), booted' = (booted \/ S = Ifaces),
         byID' = [i \in Ifaces |-> IF i \in S THEN act[a].got[i] ELSE byID[i]]
  PROVE  /\ byID' \in [Ifaces -> Iface] /\ tainted' \in [Ifaces -> BOOLEAN] /\ booted' \in BOOLEAN
         /\ MapSettles' /\ EventsTell'
<1>1. HookInv /\ MapType
  BY DEF MapInv
<1>2. \A i \in S : act[a].got[i] \in Iface
  BY <1>1 DEF MapType, Window
<1>3. byID' \in [Ifaces -> Iface] /\ booted' \in BOOLEAN
  BY <1>1, <1>2 DEF MapType
<1>4. tainted' \in [Ifaces -> BOOLEAN]
  BY <1>1 DEF MapType, TaintAfter
<1>5. \A i \in Ifaces : /\ i \in S => (tainted'[i] <=> i \in act[a].seen \/ (tainted[i] /\ Pending(i)))
                        /\ i \notin S => (tainted'[i] <=> tainted[i])
  BY <1>1 DEF MapType, TaintAfter
<1>6. MapSettles'
  <2> SUFFICES ASSUME booted', NEW i \in Ifaces, ~tainted'[i] PROVE Settles(ifc[i], i, byID'[i], OnWay)
    BY DEF MapSettles, Settles
  <2>1. CASE i \in S
    BY <1>5, <2>1 DEF MapInv, AnswerSettles
  <2>2. CASE i \notin S
    <3>1. booted /\ ~tainted[i] /\ byID'[i] = byID[i]
      BY <1>5, <2>2
    <3> QED BY <3>1 DEF MapInv, MapSettles
  <2> QED BY <2>1, <2>2
<1>7. EventsTell'
  <2> SUFFICES ASSUME NEW i \in Ifaces, ~tainted'[i] PROVE Consistent(ifc[i], i, OnWay)
    BY DEF EventsTell, Consistent, TellsLife, TellsField
  <2>1. CASE ~tainted[i]
    BY <2>1 DEF MapInv, EventsTell
  <2>2. CASE tainted[i]
    <3>1. ~Pending(i)
      BY <1>5, <2>2
    <3> QED BY <1>1, <3>1, NothingPending DEF Consistent
  <2> QED BY <2>1, <2>2
<1> QED BY <1>3, <1>4, <1>6, <1>7

LEMMA BootStoreMap == ASSUME MapInv, HookInv', NEW a \in Actors, BootStore(a) PROVE MapInv'
<1> DEFINE x == IF act[a].scope = {} THEN Resting ELSE [act[a] EXCEPT !.pc = "fetch", !.got = <<>>, !.seen = {}]
<1>1. /\ act[a].pc = "bootstore" /\ act' = [act EXCEPT ![a] = x]
      /\ byID' = act[a].got /\ tainted' = TaintAfter(a, Ifaces) /\ booted' = TRUE
      /\ UNCHANGED <<ifc, clock, batch, queue, hooks>>
  BY DEF BootStore, ndmsVars, queueVars
<1>2. HookInv /\ act \in [Actors -> Actor] /\ act[a] \in Actor
  BY Types DEF MapInv
<1>3. x.pc = "idle" \/ (x.pc = "fetch" /\ x.scope = act[a].scope)
  BY <1>2 DEF Resting, Actor
<1> HIDE DEF x
<1>4. act'[a] = x /\ \A b \in Actors \ {a} : act'[b] = act[b]
  BY <1>1, <1>2
<1>5. OnWay' = OnWay /\ EventOrder' /\ WorkerCreates'
  BY <1>1, <1>3, <1>4, RefreshWay DEF Refreshing
<1>6. Ifaces \in SUBSET Window(act, a) /\ Ahead(a) = OnWay
  BY <1>1 DEF Window, Ahead
<1>7. byID' = [i \in Ifaces |-> IF i \in Ifaces THEN act[a].got[i] ELSE byID[i]]
  BY <1>1 DEF MapInv, MapType
<1>8. /\ byID' \in [Ifaces -> Iface] /\ tainted' \in [Ifaces -> BOOLEAN] /\ booted' \in BOOLEAN
      /\ MapSettles' /\ EventsTell'
  BY <1>1, <1>5, <1>6, <1>7, RefreshStored
<1>9. AnswerSettles(a)'
  BY <1>3, <1>4, NoAnswer
<1> QED BY <1>1, <1>3, <1>4, <1>5, <1>8, <1>9, ActorStores

LEMMA StoreRefreshMap == ASSUME MapInv, HookInv', NEW c \in Commands, StoreRefresh(c) PROVE MapInv'
<1> DEFINE x == Refreshed(c)
           S == act[c].scope
<1>1. /\ act[c].pc = "store" /\ act' = [act EXCEPT ![c] = x]
      /\ byID' = [i \in Ifaces |-> IF i \in S THEN act[c].got[i] ELSE byID[i]]
      /\ tainted' = TaintAfter(c, S) /\ booted' = (booted \/ S = Ifaces)
      /\ UNCHANGED <<ifc, clock, batch, queue, hooks>>
  BY DEF StoreRefresh, ndmsVars, queueVars
<1>2. HookInv /\ act \in [Actors -> Actor] /\ c \in Actors /\ c # Worker
  BY Types, WorkerActs DEF MapInv
<1>3. x.pc \in {"keys", "apply", "idle"}
  <2>1. act[c].todo \in Seq(Keys)
    BY <1>2 DEF Actor
  <2>2. x.pc = Then(c, act[c].todo)
    BY <2>1, RefreshedFacts DEF Refreshed
  <2> QED BY <2>2 DEF Then
<1> HIDE DEF x
<1>4. act'[c] = x /\ \A b \in Actors \ {c} : act'[b] = act[b]
  BY <1>1, <1>2
<1>5. OnWay' = OnWay /\ EventOrder' /\ WorkerCreates'
  BY <1>1, <1>2, <1>4, RefreshWay
<1>6. S \in SUBSET Window(act, c) /\ Ahead(c) = OnWay
  BY <1>1, <1>2 DEF Window, Ahead
<1>7. /\ byID' \in [Ifaces -> Iface] /\ tainted' \in [Ifaces -> BOOLEAN] /\ booted' \in BOOLEAN
      /\ MapSettles' /\ EventsTell'
  BY <1>1, <1>2, <1>5, <1>6, RefreshStored
<1>8. AnswerSettles(c)'
  BY <1>3, <1>4, NoAnswer
<1> QED BY <1>1, <1>2, <1>3, <1>4, <1>5, <1>7, <1>8, ActorStores

(* An actor moves on without an answer to store. *)
LEMMA NoAnswerMap ==
  ASSUME MapInv, HookInv', NEW a \in Actors, NEW x, act' = [act EXCEPT ![a] = x],
         x.pc \notin {"store", "bootstore"},
         UNCHANGED <<ifc, clock, batch, queue, hooks, byID, booted, tainted>>,
         a = Worker => /\ act[a].pc \in Refreshing /\ x.pc # "keys"
                       /\ x.pc \in Refreshing => x.scope = act[a].scope
  PROVE  MapInv'
<1>1. act \in [Actors -> Actor]
  BY Types DEF MapInv
<1>2. act'[a] = x /\ \A b \in Actors \ {a} : act'[b] = act[b]
  BY <1>1
<1>3. OnWay' = OnWay /\ EventOrder' /\ WorkerCreates'
  BY <1>2, RefreshWay
<1>4. AnswerSettles(a)'
  BY <1>2, NoAnswer
<1> QED BY <1>2, <1>3, <1>4, ActorSteps

LEMMA EnsureBootstrapMap == ASSUME MapInv, HookInv', NEW a \in Actors, EnsureBootstrap(a) PROVE MapInv'
<1>1. act[a].pc = "boot" /\ UNCHANGED <<ifc, clock, batch, queue, hooks, byID, booted, tainted>>
  BY DEF EnsureBootstrap, ndmsVars, queueVars
<1>2. PICK p \in {"fetch", "bootfetch"} :
        \/ act' = [act EXCEPT ![a] = [act[a] EXCEPT !.pc = p]]
        \/ act' = [act EXCEPT ![a] = Resting]
  BY DEF EnsureBootstrap
<1> DEFINE x == [act[a] EXCEPT !.pc = p]
<1>3. act[a] \in Actor
  BY Types DEF MapInv
<1>4. x.pc = p /\ x.scope = act[a].scope /\ Resting.pc = "idle"
  BY <1>3 DEF Actor, Resting
<1>5. CASE act' = [act EXCEPT ![a] = x]
  <2> HIDE DEF x
  <2> QED BY <1>1, <1>4, <1>5, NoAnswerMap DEF Refreshing
<1>6. CASE act' = [act EXCEPT ![a] = Resting]
  BY <1>1, <1>4, <1>6, NoAnswerMap DEF Refreshing
<1> QED BY <1>2, <1>5, <1>6

(* What NDMS answers is what it holds. *)
LEMMA AnsweredMap ==
  ASSUME MapInv, HookInv', NEW a \in Actors, BootFetch(a) \/ FetchIface(a)
  PROVE  MapInv'
<1> DEFINE p == IF act[a].pc = "bootfetch" THEN "bootstore" ELSE "store"
           g == IF act[a].pc = "bootfetch" THEN ifc ELSE [i \in act[a].scope |-> ifc[i]]
           x == [act[a] EXCEPT !.pc = p, !.got = g]
<1>1. /\ act[a].pc \in {"bootfetch", "fetch"}
      /\ UNCHANGED <<ifc, clock, batch, queue, hooks, byID, booted, tainted>>
  BY DEF BootFetch, FetchIface, ndmsVars, queueVars, ifaceVars
<1>2. act \in [Actors -> Actor] /\ act[a] \in Actor /\ ifc \in [Ifaces -> Iface] /\ act[a].scope \in SUBSET Ifaces
  BY Types DEF MapInv, Actor
<1>3. act' = [act EXCEPT ![a] = x]
  BY <1>2 DEF BootFetch, FetchIface
<1>4. /\ p \in {"store", "bootstore"}
      /\ p = "bootstore" => g \in [Ifaces -> Iface] /\ \A i \in Ifaces : g[i] = ifc[i]
      /\ p = "store" => g \in [act[a].scope -> Iface] /\ \A i \in act[a].scope : g[i] = ifc[i]
  BY <1>1, <1>2
<1> HIDE DEF p, g
<1>5. x.pc = p /\ x.got = g /\ x.scope = act[a].scope
  BY <1>2 DEF Actor
<1> HIDE DEF x
<1>6. act'[a] = x /\ \A b \in Actors \ {a} : act'[b] = act[b]
  BY <1>2, <1>3
<1>7. OnWay' = OnWay /\ EventOrder' /\ WorkerCreates'
  BY <1>1, <1>4, <1>5, <1>6, RefreshWay DEF Refreshing
<1>8. AnswerSettles(a)'
  <2> SUFFICES ASSUME NEW i \in Window(act', a) PROVE Settles(ifc[i], i, act'[a].got[i], Ahead(a)')
    BY <1>1 DEF AnswerSettles, Settles, Window
  <2>1. act'[a].got[i] = ifc[i]
    BY <1>4, <1>5, <1>6 DEF Window
  <2> QED BY <2>1, SettlesSelf
<1> QED BY <1>1, <1>4, <1>5, <1>6, <1>7, <1>8, ActorSteps

(* A command's refresh or bootstrap fails. *)
LEMMA CommandFailMap ==
  ASSUME MapInv, HookInv', NEW c \in Commands, RefreshFail(c) \/ BootFail(c)
  PROVE  MapInv'
<1> DEFINE x == Refreshed(c)
<1>1. c \in Actors /\ c # Worker
  BY WorkerActs
<1>2. act' = [act EXCEPT ![c] = x] /\ UNCHANGED <<ifc, clock, batch, queue, hooks, byID, booted, tainted>>
  BY <1>1 DEF RefreshFail, BootFail, BatchAfter, ndmsVars, queueVars, ifaceVars
<1>3. act[c].todo \in Seq(Keys)
  BY <1>1, Types DEF MapInv, Actor
<1>4. x.pc = Then(c, act[c].todo)
  BY <1>3, RefreshedFacts DEF Refreshed
<1>5. x.pc \in {"keys", "apply", "idle"}
  BY <1>4 DEF Then
<1> HIDE DEF x
<1> QED BY <1>1, <1>2, <1>5, NoAnswerMap

LEMMA ReadIfacesMap == ASSUME MapInv, HookInv', NEW c \in Commands, ReadIfaces(c) PROVE MapInv'
<1> DEFINE x == [Resting EXCEPT !.pc = "boot"]
<1>1. c \in Actors /\ c # Worker
  BY WorkerActs
<1>2. act' = [act EXCEPT ![c] = x] /\ UNCHANGED <<ifc, clock, batch, queue, hooks, byID, booted, tainted>>
  BY DEF ReadIfaces, ndmsVars, queueVars, ifaceVars
<1>3. x.pc = "boot"
  BY DEF Resting
<1> HIDE DEF x
<1> QED BY <1>1, <1>2, <1>3, NoAnswerMap

(* The last store of an event is dropped: the worker turns to the next one. *)
LEMMA DropKeyMap == ASSUME MapInv, HookInv', NEW a \in Actors, DropKey(a) PROVE MapInv'
<1> DEFINE todo == Tail(act[a].todo)
           p == Then(a, todo)
           x == [act[a] EXCEPT !.todo = todo, !.pc = p]
<1>1. /\ act[a].pc = "keys" /\ batch' = BatchAfter(a, todo)
      /\ UNCHANGED <<ifc, clock, queue, hooks, byID, booted, tainted>>
  BY DEF DropKey, ndmsVars, ifaceVars
<1>2. HookInv /\ EventOrder /\ act \in [Actors -> Actor] /\ act[a] \in Actor
  BY Types DEF MapInv
<1>3. act' = [act EXCEPT ![a] = x]
  BY <1>2 DEF DropKey
<1>4. todo \in Seq(Keys)
  <2>1. act[a].todo \in Seq(Keys) /\ act[a].todo # <<>>
    BY <1>1, <1>2 DEF HookInv, WorkerOK, Actor
  <2> QED BY <2>1
<1>5. p \in {"keys", "apply", "idle"} /\ p = Then(a, todo)
  BY DEF Then
<1> HIDE DEF todo, p
<1>6. x.pc = p
  BY <1>2 DEF Actor
<1> HIDE DEF x
<1>7. act'[a].pc = p /\ \A b \in Actors \ {a} : act'[b] = act[b]
  BY <1>2, <1>3, <1>6
<1>8. AnswerSettles(a)'
  BY <1>5, <1>7, NoAnswer
<1>9. CASE a = Worker
  <2>1. batch # <<>> /\ OnWay = Later
    BY <1>1, <1>2, <1>9, Types DEF OnWay, Now
  <2>2. OnWay' = OnWay /\ EventOrder'
    BY <1>1, <1>2, <1>4, <1>5, <1>7, <1>9, <2>1, WorkerAdvances
  <2>3. WorkerCreates'
    BY <1>5, <1>7, <1>9 DEF WorkerCreates, Refreshing
  <2> QED BY <1>1, <1>5, <1>7, <1>8, <1>9, <2>2, <2>3, ActorSteps
<1>10. CASE a # Worker
  <2>1. batch' = batch
    BY <1>1, <1>10 DEF BatchAfter
  <2>2. OnWay' = OnWay /\ EventOrder' /\ WorkerCreates'
    BY <1>1, <1>7, <1>10, <2>1, RefreshWay
  <2> QED BY <1>1, <1>5, <1>7, <1>8, <1>10, <2>1, <2>2, ActorSteps
<1> QED BY <1>9, <1>10

(* A command's POST, or anybody's, changes NDMS. *)
LEMMA OutsideMap == ASSUME MapInv, HookInv', Outside PROVE MapInv'
<1>1. PICK i \in Ifaces, t \in EventTypes : Change(t, i)
  BY DEF Outside
<1>2. UNCHANGED <<queue, batch, byID, booted, tainted, act>>
  BY DEF Outside, queueVars, ifaceVars
<1> QED BY <1>1, <1>2, ChangeMap

LEMMA CommandMap ==
  ASSUME MapInv, HookInv', NEW c \in Commands, NEW i \in Ifaces,
         CreateOpkgTun(c, i) \/ DeleteOpkgTun(c, i) \/ InterfaceUp(c, i)
             \/ SetAddress(c, i) \/ ClearAddress(c, i)
  PROVE  MapInv'
<1>1. PICK kind \in {"create", "delete", "up", "address", "clear"}, t \in EventTypes,
           first \in {"fetch", "boot"}, scope \in {Ifaces, {i}} : Command(c, kind, t, i, first, scope)
  BY DEF CreateOpkgTun, DeleteOpkgTun, InterfaceUp, SetAddress, ClearAddress, EventTypes
<1> DEFINE x == [Resting EXCEPT !.pc = first, !.scope = scope, !.todo = CommandDrops(kind, i)]
<1>2. Change(t, i) /\ act' = [act EXCEPT ![c] = x] /\ UNCHANGED <<queue, batch, byID, booted, tainted>>
  BY <1>1 DEF Command, queueVars, ifaceVars
<1>3. x.pc = first
  BY DEF Resting
<1> HIDE DEF x
<1>4. act'[c] = x /\ act'[Worker] = act[Worker] /\ \A b \in Actors : b = c \/ act'[b] = act[b]
  BY <1>2, Types, WorkerActs DEF MapInv
<1> QED BY <1>2, <1>3, <1>4, ChangeMap

LEMMA MapInvStep == ASSUME MapInv, [Next]_allVars PROVE MapInv'
<1>1. HookInv'
  BY HookInvStep DEF MapInv
<1>2. CASE Outside
  BY <1>1, <1>2, OutsideMap
<1>3. CASE Deliver \/ DeliverAgain
  BY <1>1, <1>3, DeliverMap
<1>4. CASE Notify
  BY <1>1, <1>4, MapSame DEF Notify, ndmsVars, ifaceVars
<1>5. ASSUME NEW a \in Actors, RefreshStep(a) PROVE MapInv'
  BY <1>1, <1>5, EnsureBootstrapMap, AnsweredMap, BootStoreMap, DropKeyMap DEF RefreshStep
<1>6. CASE WorkerStep
  BY <1>1, <1>5, <1>6, WakeMap, DrainMap, ApplyPatchMap, ApplyCreatedMap, StoreCreatedMap, WorkerActs
  DEF WorkerStep
<1>7. CASE Fault
  BY <1>1, <1>3, <1>7, LoseMap, CreatedLostMap, CommandFailMap DEF Fault
<1>8. ASSUME NEW c \in Commands, Issue(c) \/ CommandStep(c) PROVE MapInv'
  BY <1>1, <1>5, <1>8, CommandMap, ReadIfacesMap, StoreRefreshMap, WorkerActs DEF Issue, CommandStep
<1>9. CASE UNCHANGED viewVars
  BY <1>1, <1>9, MapSame DEF viewVars, ndmsVars, queueVars, ifaceVars
<1> QED BY <1>2, <1>3, <1>4, <1>6, <1>7, <1>8, <1>9 DEF Next, allVars

LEMMA MapInvInitially == ASSUME Init PROVE MapInv
<1>1. HookInv
  BY HookInvInitially
<1>2. /\ act = [a \in Actors |-> Resting] /\ hooks = <<>> /\ queue = <<>> /\ batch = <<>>
      /\ byID = [i \in Ifaces |-> Absent] /\ tainted = [i \in Ifaces |-> FALSE] /\ booted = FALSE
  BY DEF Init, InitView
<1>3. \A a \in Actors : act[a].pc = "idle"
  BY <1>2 DEF Resting
<1>4. OnWay = {}
  BY <1>2 DEF OnWay, Now, Later, Events
<1>5. EventOrder
  BY <1>2 DEF EventOrder, InOrder, Sorted, Before, Events
<1>6. MapType
  BY <1>2, <1>3 DEF MapType, Iface
<1>7. WorkerCreates /\ \A a \in Actors : AnswerSettles(a)
  BY <1>3, WorkerActs DEF WorkerCreates, Refreshing, AnswerSettles, Window
<1>8. MapSettles /\ EventsTell
  BY <1>2, <1>4 DEF MapSettles, EventsTell, Consistent
<1> QED BY <1>1, <1>5, <1>6, <1>7, <1>8 DEF MapInv

(* Whatever bootstraps, refreshes of commands, repeated and lost hooks and      *)
(* failed fetches interleave with the events, once all are applied the map has  *)
(* NDMS's interfaces, layers and addresses, but for an address that NDMS has    *)
(* removed, unless one of the interface's hooks was lost, its fetch failed, or  *)
(* an event overtook a refresh.                                                 *)
THEOREM MapCatchesUp == Spec => []ViewCatchesUp
<1>1. Init => MapInv
  BY MapInvInitially
<1>2. MapInv /\ [Next]_allVars => MapInv'
  BY MapInvStep
<1>3. MapInv => ViewCatchesUp
  <2> SUFFICES ASSUME MapInv, Quiet, booted, NEW i \in Ifaces, ~tainted[i] PROVE Agrees(i)
    BY DEF ViewCatchesUp
  <2>1. OnWay = {}
    BY DEF Quiet, OnWay, Now, Later, Events
  <2>2. Settles(ifc[i], i, byID[i], {})
    BY <2>1 DEF MapInv, MapSettles
  <2> QED BY <2>2 DEF Settles, Agrees, Present
<1> QED BY <1>1, <1>2, <1>3, PTL DEF Spec

==============================================================================
