--------------------------- MODULE ReadBatcherProofs ---------------------------
(***************************************************************************)
(* The safety of transport.Batcher for any number of requests and paths    *)
(* and any size of batch and channel.  One inductive invariant, BatchInv,  *)
(* carries the four properties the run of ReadBatcher checks.              *)
(***************************************************************************)
EXTENDS ReadBatcher, TLAPS, FiniteSetTheorems, SequenceTheorems

Queued == {submit[i] : i \in DOMAIN submit}

(* Where the loop is, and what it then holds. *)
LoopShape ==
  /\ flusher \in {"select", "done"} => pending = {}
  /\ last => shutdown /\ flusher \in {"drain", "flush", "exchange", "done"}
  /\ flusher \in {"drain", "done"} => last

(* A request that has not been sent yet is nowhere. *)
NotSentYet ==
  \A r \in Requests : pc[r] \in {"idle", "sending"} =>
    /\ reply[r] = Word("open")
    /\ r \notin early
    /\ r \notin InFlight
    /\ outcome[r] = Word("none")

(* A call of Submit has a path, and was made in the past. *)
Made ==
  \A r \in Requests :
    /\ asked[r] <= now
    /\ pc[r] # "idle" => path[r] \in Paths

(* A channel closed without a result is a cancelled caller's, or its       *)
(* result has been received.                                               *)
ClosedEmpty ==
  \A r \in Requests : reply[r].is = "empty" => r \in cancelled \/ pc[r] = "returned"

(* A request sent before Close is held by somebody until it is replied to, *)
(* and the final drain leaves none of them in the channel.                 *)
EarlyHeld ==
  /\ \A r \in early : reply[r].is = "open" => r \in InFlight \/ pc[r] = "returned"
  /\ last /\ flusher # "drain" => Queued \cap early = {}

BatchInv ==
  /\ TypeOK /\ LoopShape /\ NotSentYet /\ Made /\ ClosedEmpty /\ EarlyHeld
  /\ RepliedOnce /\ OwnFreshAnswer /\ EmptyOnlyIfCancelled /\ EarlyAreDrained

------------------------------------------------------------------------------
(* Words are told apart from answers, and from each other, by what they are. *)
LEMMA Words ==
  /\ \A w : Word(w).is = w
  /\ \A v \in Answer : v.is = "answer" /\ v.path \in Paths /\ v.at \in Moment
BY DEF Word, Answer

(* The submit channel loses its first element. *)
LEMMA Dequeue ==
  ASSUME NEW s \in Seq(Requests), s # <<>>
  PROVE  /\ Head(s) \in Requests
         /\ Head(s) = s[1] /\ 1 \in DOMAIN s
         /\ Tail(s) \in Seq(Requests)
         /\ Len(Tail(s)) = Len(s) - 1
         /\ \A i \in DOMAIN Tail(s) : i + 1 \in DOMAIN s /\ Tail(s)[i] = s[i + 1]
         /\ \A i \in DOMAIN s : i = 1 \/ (i - 1 \in DOMAIN Tail(s) /\ s[i] = Tail(s)[i - 1])
OBVIOUS

(* The submit channel gains one element at its end. *)
LEMMA Enqueued ==
  ASSUME NEW s \in Seq(Requests), NEW r \in Requests
  PROVE  /\ Append(s, r) \in Seq(Requests)
         /\ Len(Append(s, r)) = Len(s) + 1
         /\ Append(s, r)[Len(s) + 1] = r /\ Len(s) + 1 \in DOMAIN Append(s, r)
         /\ \A i \in DOMAIN s : i \in DOMAIN Append(s, r) /\ Append(s, r)[i] = s[i]
         /\ \A i \in DOMAIN Append(s, r) : i = Len(s) + 1 \/ i \in DOMAIN s
OBVIOUS

(* What is in the channel afterwards. *)
LEMMA QueueAfterTake ==
  ASSUME TypeOK, RepliedOnce, submit # <<>>, submit' = Tail(submit)
  PROVE  /\ Head(submit) \in Requests
         /\ Queued' = Queued \ {Head(submit)} /\ Head(submit) \in Queued
         /\ submit' \in Seq(Requests) /\ Len(submit') <= SubmitBuf
         /\ \A i, j \in DOMAIN submit' : submit'[i] = submit'[j] => i = j
<1>1. submit \in Seq(Requests) BY DEF TypeOK
<1> USE <1>1
<1>2. /\ Head(submit) = submit[1] /\ 1 \in DOMAIN submit
      /\ \A i \in DOMAIN submit' : i + 1 \in DOMAIN submit /\ submit'[i] = submit[i + 1]
      /\ \A i \in DOMAIN submit : i = 1 \/ (i - 1 \in DOMAIN submit' /\ submit[i] = submit'[i - 1])
      /\ submit' \in Seq(Requests) /\ Len(submit') = Len(submit) - 1 /\ Head(submit) \in Requests
  BY Dequeue
<1>3. \A i, j \in DOMAIN submit : submit[i] = submit[j] => i = j
  BY DEF RepliedOnce
<1>4. DOMAIN submit = 1 .. Len(submit) /\ DOMAIN submit' = 1 .. Len(submit')
  BY <1>2
<1>5. \A i, j \in DOMAIN submit' : submit'[i] = submit'[j] => i = j
  BY <1>2, <1>3, <1>4
<1>6. Queued' \subseteq Queued \ {Head(submit)}
  <2> SUFFICES ASSUME NEW i \in DOMAIN submit' PROVE submit'[i] \in Queued \ {Head(submit)}
    BY DEF Queued
  <2>1. i + 1 \in DOMAIN submit /\ submit'[i] = submit[i + 1] /\ i + 1 # 1
    BY <1>2, <1>4
  <2> QED BY <2>1, <1>2, <1>3 DEF Queued
<1>7. Queued \ {Head(submit)} \subseteq Queued'
  BY <1>2 DEF Queued
<1>8. Len(submit') <= SubmitBuf
  BY <1>2, BatchAssumption DEF TypeOK
<1> QED BY <1>2, <1>5, <1>6, <1>7, <1>8 DEF Queued

(* A channel that is left alone. *)
LEMMA SameQueue ==
  ASSUME UNCHANGED submit PROVE Queued' = Queued
BY DEF Queued

(* A step that leaves every variable alone. *)
LEMMA StutterKeeps ==
  ASSUME BatchInv, UNCHANGED vars PROVE BatchInv'
BY DEF BatchInv, vars, callers, TypeOK, LoopShape, NotSentYet, Made, ClosedEmpty, EarlyHeld,
       RepliedOnce, OwnFreshAnswer, EmptyOnlyIfCancelled, EarlyAreDrained, InFlight, Queued

(* The caller's side.                                                      *)
LEMMA SubmitKeeps ==
  ASSUME BatchInv, NEW r \in Requests, Submit(r) PROVE BatchInv'
<1> USE DEF BatchInv
<1>a. PICK p \in Wants[r] : path' = [path EXCEPT ![r] = p] BY DEF Submit
<1>b. p \in Paths BY BatchAssumption
<1>1. TypeOK' BY <1>a, <1>b DEF TypeOK, Submit
<1>2. LoopShape' /\ ClosedEmpty' BY DEF TypeOK, LoopShape, ClosedEmpty, Submit
<1>3. NotSentYet' BY DEF TypeOK, NotSentYet, InFlight, Submit
<1>4. Made'
  <2>1. now \in Int BY BatchAssumption DEF TypeOK, Moment
  <2> QED BY <1>a, <1>b, <2>1 DEF TypeOK, Made, Submit
<1>5. EarlyHeld' /\ EarlyAreDrained' BY SameQueue DEF TypeOK, NotSentYet, EarlyHeld, EarlyAreDrained, InFlight, Queued, Submit
<1>6. RepliedOnce' BY DEF TypeOK, NotSentYet, RepliedOnce, InFlight, Submit
<1>7. OwnFreshAnswer' /\ EmptyOnlyIfCancelled'
  BY Words DEF TypeOK, NotSentYet, OwnFreshAnswer, EmptyOnlyIfCancelled, Submit
<1> QED BY <1>1, <1>2, <1>3, <1>4, <1>5, <1>6, <1>7

LEMMA EnqueueKeeps ==
  ASSUME BatchInv, NEW r \in Requests, Enqueue(r) PROVE BatchInv'
<1> USE DEF BatchInv
<1>0. submit \in Seq(Requests) BY DEF TypeOK
<1>a. /\ submit' \in Seq(Requests) /\ Len(submit') = Len(submit) + 1
      /\ submit'[Len(submit) + 1] = r /\ Len(submit) + 1 \in DOMAIN submit'
      /\ \A i \in DOMAIN submit : i \in DOMAIN submit' /\ submit'[i] = submit[i]
      /\ \A i \in DOMAIN submit' : i = Len(submit) + 1 \/ i \in DOMAIN submit
  BY <1>0, Enqueued DEF Enqueue
<1>b. Queued' = Queued \cup {r} BY <1>a DEF Queued
<1>c. InFlight' = InFlight \cup {r} BY <1>b DEF InFlight, Queued, Enqueue
<1>1. TypeOK' BY <1>0, <1>a, BatchAssumption DEF TypeOK, Enqueue
<1>2. LoopShape' /\ Made' /\ ClosedEmpty' BY DEF TypeOK, LoopShape, Made, ClosedEmpty, Enqueue
<1>3. NotSentYet' BY <1>c DEF TypeOK, NotSentYet, Enqueue
<1>4. EarlyHeld'
  <2>1. r \notin early BY DEF NotSentYet, Enqueue
  <2>2. last' /\ flusher' # "drain" => Queued' \cap early' = {}
    BY <1>b, <2>1 DEF EarlyHeld, LoopShape, Enqueue
  <2>3. \A q \in early' : reply'[q].is = "open" => q \in InFlight' \/ pc'[q] = "returned"
    BY <1>c DEF TypeOK, EarlyHeld, Enqueue
  <2> QED BY <2>2, <2>3 DEF EarlyHeld
<1>5. EarlyAreDrained' BY Words DEF TypeOK, NotSentYet, EarlyAreDrained, Enqueue
<1>6. RepliedOnce'
  <2>1. \A q \in InFlight' : reply'[q].is = "open" /\ pc'[q] \in {"waiting", "returned"}
    BY <1>c, Words DEF TypeOK, NotSentYet, RepliedOnce, Enqueue
  <2>2. r \notin Queued /\ r \notin pending BY DEF NotSentYet, InFlight, Queued, Enqueue
  <2>3. \A i, j \in DOMAIN submit' : submit'[i] = submit'[j] => i = j
    BY <1>a, <2>2 DEF RepliedOnce, Queued
  <2>4. \A i \in DOMAIN submit' : submit'[i] \notin pending'
    BY <1>a, <2>2 DEF RepliedOnce, Enqueue
  <2> QED BY <2>1, <2>3, <2>4 DEF RepliedOnce
<1>7. OwnFreshAnswer' /\ EmptyOnlyIfCancelled'
  BY DEF OwnFreshAnswer, EmptyOnlyIfCancelled, Enqueue
<1> QED BY <1>1, <1>2, <1>3, <1>4, <1>5, <1>6, <1>7

(* Submit returns with a word that is neither empty nor an answer, or, if  *)
(* it was sent before Close, "closed".                                     *)
LEMMA ReturnsKeeps ==
  ASSUME BatchInv, NEW r \in Requests, NEW w \in {"cancelled", "closed"},
         pc[r] \in {"sending", "waiting"}, Returns(r, Word(w)), UNCHANGED reply,
         w = "closed" => r \notin early
  PROVE  BatchInv'
<1> USE DEF BatchInv
<1>1. TypeOK' BY DEF TypeOK, Returns, callers, Outcome
<1>2. LoopShape' /\ NotSentYet' /\ Made' /\ ClosedEmpty'
  BY DEF TypeOK, LoopShape, NotSentYet, Made, ClosedEmpty, InFlight, Returns, callers
<1>3. EarlyHeld' BY SameQueue DEF TypeOK, EarlyHeld, InFlight, Returns, callers
<1>4. EarlyAreDrained' /\ EmptyOnlyIfCancelled'
  BY Words DEF TypeOK, EarlyAreDrained, EmptyOnlyIfCancelled, Returns, callers
<1>5. RepliedOnce' BY DEF TypeOK, RepliedOnce, InFlight, Returns, callers
<1>6. OwnFreshAnswer' BY Words DEF TypeOK, OwnFreshAnswer, Returns, callers
<1> QED BY <1>1, <1>2, <1>3, <1>4, <1>5, <1>6

LEMMA ReceiveKeeps ==
  ASSUME BatchInv, NEW r \in Requests, Receive(r) PROVE BatchInv'
<1> USE DEF BatchInv
<1>a. reply[r] \in Reply /\ reply[r].is # "open" /\ pc[r] = "waiting"
  BY DEF TypeOK, Receive
<1>b. reply[r] \in Outcome /\ reply[r].is # "closed" BY <1>a, Words DEF Reply, Outcome, Result
<1>c. r \notin InFlight BY <1>a DEF RepliedOnce
<1>1. TypeOK' BY <1>b DEF TypeOK, Receive, Returns, callers, Reply
<1>2. LoopShape' /\ NotSentYet' /\ Made' /\ ClosedEmpty'
  BY <1>a DEF TypeOK, LoopShape, NotSentYet, Made, ClosedEmpty, InFlight, Receive, Returns, callers
<1>3. EarlyHeld' BY <1>a, SameQueue, Words DEF TypeOK, EarlyHeld, InFlight, Receive, Returns, callers
<1>4. EarlyAreDrained' BY <1>b DEF TypeOK, EarlyAreDrained, Receive, Returns, callers
<1>5. EmptyOnlyIfCancelled'
  BY <1>a DEF TypeOK, EmptyOnlyIfCancelled, ClosedEmpty, Receive, Returns, callers
<1>6. RepliedOnce' BY <1>a, <1>c DEF TypeOK, RepliedOnce, InFlight, Receive, Returns, callers
<1>7. OwnFreshAnswer' BY Words DEF TypeOK, OwnFreshAnswer, Receive, Returns, callers
<1> QED BY <1>1, <1>2, <1>3, <1>4, <1>5, <1>6, <1>7

LEMMA CallerKeeps ==
  ASSUME BatchInv, NEW r \in Requests, Caller(r) PROVE BatchInv'
<1>1. CASE Enqueue(r) BY <1>1, EnqueueKeeps
<1>2. CASE GiveUp(r) BY <1>2, ReturnsKeeps DEF GiveUp
<1>3. CASE Refused(r)
  BY <1>3, ReturnsKeeps DEF Refused, BatchInv, NotSentYet
<1>4. CASE Receive(r) BY <1>4, ReceiveKeeps
<1>5. CASE Orphaned(r)
  <2>1. flusher = "done" /\ last /\ pending = {}
    BY <1>5 DEF Orphaned, BatchInv, LoopShape
  <2>2. r \notin early
    BY <1>5, <2>1 DEF Orphaned, BatchInv, EarlyHeld, InFlight, Queued
  <2> QED BY <1>5, <2>2, ReturnsKeeps DEF Orphaned
<1> QED BY <1>1, <1>2, <1>3, <1>4, <1>5 DEF Caller

------------------------------------------------------------------------------
(* The loop takes a request from the channel into its batch.               *)
LEMMA TakingKeeps ==
  ASSUME BatchInv, submit # <<>>, submit' = Tail(submit),
         pending' = pending \cup {Head(submit)},
         flusher' \in {"collect", "drain", "flush"},
         flusher \in {"select", "collect", "drain"}, flusher' = "drain" <=> flusher = "drain",
         UNCHANGED <<pc, callers, cancelled, reply, outcome, last, shutdown, now>>
  PROVE  BatchInv'
<1> USE DEF BatchInv
<1>a. /\ Head(submit) \in Requests
      /\ Queued' = Queued \ {Head(submit)} /\ Head(submit) \in Queued
      /\ submit' \in Seq(Requests) /\ Len(submit') <= SubmitBuf
      /\ \A i, j \in DOMAIN submit' : submit'[i] = submit'[j] => i = j
  BY QueueAfterTake
<1>b. InFlight' = InFlight BY <1>a DEF InFlight, Queued
<1>c. last => flusher = "drain" BY DEF LoopShape
<1>1. TypeOK' BY <1>a DEF TypeOK, callers
<1>2. LoopShape' BY <1>c DEF LoopShape
<1>3. NotSentYet' BY <1>b DEF NotSentYet, callers
<1>4. Made' /\ ClosedEmpty' /\ OwnFreshAnswer' /\ EmptyOnlyIfCancelled' /\ EarlyAreDrained'
  BY DEF Made, ClosedEmpty, OwnFreshAnswer, EmptyOnlyIfCancelled, EarlyAreDrained, callers
<1>5. EarlyHeld' BY <1>b, <1>c DEF EarlyHeld, callers
<1>6. RepliedOnce'
  <2>1. \A i \in DOMAIN submit' : submit'[i] \notin pending'
    BY <1>a DEF RepliedOnce, Queued
  <2> QED BY <1>a, <1>b, <2>1 DEF RepliedOnce
<1> QED BY <1>1, <1>2, <1>3, <1>4, <1>5, <1>6

(* The loop moves on without touching a request. *)
LEMMA MovingKeeps ==
  ASSUME BatchInv, Drain \/ Drained \/ WindowEnds PROVE BatchInv'
<1> USE DEF BatchInv, Drain, Drained, WindowEnds
<1>a. Queued' = Queued /\ InFlight' = InFlight BY SameQueue DEF InFlight
<1>b. submit = <<>> => Queued = {} BY DEF Queued
<1>1. TypeOK' BY DEF TypeOK, callers
<1>2. LoopShape' BY DEF LoopShape
<1>3. NotSentYet' BY <1>a DEF NotSentYet, callers
<1>4. Made' /\ ClosedEmpty' /\ OwnFreshAnswer' /\ EmptyOnlyIfCancelled' /\ EarlyAreDrained'
  BY DEF Made, ClosedEmpty, OwnFreshAnswer, EmptyOnlyIfCancelled, EarlyAreDrained, callers
<1>5. EarlyHeld' BY <1>a, <1>b DEF EarlyHeld, LoopShape, callers
<1>6. RepliedOnce' BY <1>a DEF RepliedOnce
<1> QED BY <1>1, <1>2, <1>3, <1>4, <1>5, <1>6

(* The requests of the batch that are not in rest get a result, and go.    *)
LEMMA ReplyingKeeps ==
  ASSUME BatchInv, NEW f, NEW rest \in SUBSET pending,
         flusher \in {"flush", "exchange"},
         \A r \in pending \ rest : f[r] \in Result \cup {Word("empty")},
         \A r \in pending \ rest : f[r].is = "empty" => r \in cancelled,
         \A r \in pending \ rest : f[r].is = "answer" => f[r].path = path[r] /\ asked[r] <= f[r].at,
         reply' = [r \in Requests |-> IF r \in pending \ rest THEN f[r] ELSE reply[r]],
         pending' = rest,
         flusher' = IF rest = {} THEN AfterFlush ELSE "exchange",
         UNCHANGED <<pc, callers, cancelled, outcome, submit, last, shutdown, now>>
  PROVE  BatchInv'
<1> USE DEF BatchInv
<1>a. Queued' = Queued /\ InFlight' = Queued \cup rest /\ InFlight = Queued \cup pending
  BY SameQueue DEF InFlight, Queued
<1>b. \A r \in pending \ rest : r \notin Queued BY DEF RepliedOnce, Queued
<1>c. \A r \in pending \ rest : f[r].is # "open" BY Words DEF Result
<1>1. TypeOK'
  <2>1. reply' \in [Requests -> Reply] BY DEF TypeOK, Reply
  <2> QED BY <2>1 DEF TypeOK, callers, AfterFlush
<1>2. LoopShape' BY DEF TypeOK, LoopShape, AfterFlush
<1>3. NotSentYet' BY <1>a DEF NotSentYet, RepliedOnce, TypeOK, callers
<1>4. Made' /\ EmptyOnlyIfCancelled' /\ EarlyAreDrained'
  BY DEF Made, EmptyOnlyIfCancelled, EarlyAreDrained, callers
<1>5. ClosedEmpty' BY DEF ClosedEmpty
<1>6. EarlyHeld'
  <2>1. last' /\ flusher' # "drain" => Queued' \cap early' = {}
    BY <1>a DEF EarlyHeld, callers
  <2>2. \A q \in early' : reply'[q].is = "open" => q \in InFlight' \/ pc'[q] = "returned"
    BY <1>a, <1>c DEF TypeOK, EarlyHeld, callers
  <2> QED BY <2>1, <2>2 DEF EarlyHeld
<1>7. RepliedOnce'
  <2>1. \A q \in InFlight' : reply'[q].is = "open" /\ pc'[q] \in {"waiting", "returned"}
    BY <1>a, <1>b DEF TypeOK, RepliedOnce, Queued
  <2> QED BY <2>1 DEF RepliedOnce
<1>8. OwnFreshAnswer' BY DEF OwnFreshAnswer, callers
<1> QED BY <1>1, <1>2, <1>3, <1>4, <1>5, <1>6, <1>7, <1>8

LEMMA FlushKeeps ==
  ASSUME BatchInv, Flush PROVE BatchInv'
<1> DEFINE f == [r \in Requests |-> IF r \in Alive \ Asked THEN Word("error") ELSE Word("empty")]
<1>1. Asked \subseteq pending /\ Asked \subseteq Alive /\ Alive \subseteq pending /\ pending \subseteq Requests
  BY DEF Asked, Alive, BatchInv, TypeOK
<1>2. \A r \in pending \ Asked : f[r] \in Result \cup {Word("empty")}
  BY <1>1 DEF Result
<1>3. \A r \in pending \ Asked : f[r].is = "empty" => r \in cancelled
  <2> SUFFICES ASSUME NEW r \in pending \ Asked, r \notin cancelled PROVE f[r].is # "empty"
    OBVIOUS
  <2>1. r \in Alive \ Asked BY DEF Alive
  <2> QED BY <1>1, <2>1, Words
<1>4. \A r \in pending \ Asked : f[r].is # "answer"
  BY <1>1, Words
<1>5. reply' = [r \in Requests |-> IF r \in pending \ Asked THEN f[r] ELSE reply[r]]
  <2>1. \A r \in Requests : (IF r \in Alive \ Asked THEN Word("error")
                             ELSE IF r \in pending \ Alive THEN Word("empty") ELSE reply[r])
                            = (IF r \in pending \ Asked THEN f[r] ELSE reply[r])
    BY <1>1
  <2> QED BY <2>1 DEF Flush
<1> HIDE DEF f
<1> QED BY <1>1, <1>2, <1>3, <1>4, <1>5, ReplyingKeeps DEF Flush

(* The whole batch gets answers that are errors or are for the path asked. *)
LEMMA AnsweringKeeps ==
  ASSUME BatchInv, NEW f, flusher = "exchange",
         \A r \in pending : f[r] \in Content(path[r]),
         reply' = [r \in Requests |-> IF r \in pending THEN f[r] ELSE reply[r]],
         pending' = {}, flusher' = AfterFlush,
         UNCHANGED <<pc, callers, cancelled, outcome, submit, last, shutdown, now>>
  PROVE  BatchInv'
<1>1. pending \subseteq Requests /\ now \in Moment BY DEF BatchInv, TypeOK
<1>2. \A r \in pending : path[r] \in Paths /\ asked[r] <= now
  BY <1>1 DEF BatchInv, RepliedOnce, InFlight, Made
<1>3. \A r \in pending : f[r] \in Result \cup {Word("empty")}
  BY <1>1, <1>2 DEF Content, Result, Answer
<1>4. \A r \in pending : f[r].is # "empty"
  BY Words DEF Content
<1>5. \A r \in pending : f[r].is = "answer" => f[r].path = path[r] /\ asked[r] <= f[r].at
  BY <1>2, Words DEF Content
<1>6. pending \ {} = pending /\ {} \in SUBSET pending OBVIOUS
<1> QED BY <1>3, <1>4, <1>5, <1>6, ReplyingKeeps

(* A batch asks for finitely many paths. *)
LEMMA FinitelyMany ==
  ASSUME BatchInv PROVE IsFiniteSet(validPaths)
<1> DEFINE f == [r \in pending |-> path[r]]
<1>1. IsFiniteSet(pending) BY BatchAssumption, FS_Subset DEF BatchInv, TypeOK
<1>2. f \in Surjection(pending, validPaths) BY DEF Surjection, validPaths
<1> HIDE DEF f
<1> QED BY <1>1, <1>2, FS_Surjection

(* An array that passes the length check has every item in its place: the  *)
(* request gets what NDMS read for its own path.                           *)
LEMMA MatchIsOwn ==
  ASSUME BatchInv, NEW o \in Orders, NEW items \in Arrays(o), NEW r \in pending
  PROVE  MatchItem(o, items, path[r]) \in Content(path[r])
<1> DEFINE n == Cardinality(validPaths)
           full == {s \in [DOMAIN o -> UNION {Content(p) : p \in validPaths}] :
                      \A i \in DOMAIN o : s[i] \in Content(o[i])}
<1>1. n \in Nat BY FinitelyMany, FS_CardinalityType
<1>2. DOMAIN o = 1 .. n /\ Len(o) = n
  <2>1. o \in [1 .. n -> validPaths] BY DEF Orders
  <2> QED BY <1>1, <2>1
<1> HIDE DEF n
<1>3. \E i \in DOMAIN o : o[i] = path[r]
  BY DEF Orders, validPaths
<1>4. CASE Len(items) # Len(o)
  BY <1>4 DEF MatchItem, Content
<1>5. CASE Len(items) = Len(o)
  <2>1. items \in full
    <3> DEFINE Lost(s, k) == SubSeq(s, 1, k - 1) \o SubSeq(s, k + 1, Len(s))
    <3>0. Arrays(o) = full \cup {Lost(s, k) : s \in full, k \in DOMAIN o}
      BY DEF Arrays
    <3> SUFFICES ASSUME NEW s \in full, NEW k \in DOMAIN o, items = Lost(s, k)
                 PROVE  FALSE
      <4> HIDE DEF full, Lost
      <4>1. items \in full \/ items \in {Lost(s, k) : s \in full, k \in DOMAIN o}
        BY <3>0
      <4>2. CASE items \in {Lost(s, k) : s \in full, k \in DOMAIN o}
        <5>1. PICK s \in full, k \in DOMAIN o : items = Lost(s, k) BY <4>2
        <5> QED BY <5>1
      <4> QED BY <4>1, <4>2
    <3> DEFINE C == UNION {Content(p) : p \in validPaths}
    <3>1. s \in Seq(C) /\ Len(s) = n
      <4>1. s \in [1 .. n -> C] BY <1>2
      <4> QED BY <1>1, <4>1
    <3> HIDE DEF C
    <3>2. k \in 1 .. n BY <1>2
    <3>3. SubSeq(s, 1, k - 1) \in Seq(C) /\ Len(SubSeq(s, 1, k - 1)) = k - 1
      BY <1>1, <3>1, <3>2
    <3>4. SubSeq(s, k + 1, Len(s)) \in Seq(C) /\ Len(SubSeq(s, k + 1, Len(s))) = n - k
      BY <1>1, <3>1, <3>2
    <3>5. Len(items) = n - 1
      BY <1>1, <3>2, <3>3, <3>4
    <3> QED BY <1>1, <1>2, <1>5, <3>5
  <2>2. PICK j \in DOMAIN o : j = (CHOOSE i \in DOMAIN o : o[i] = path[r]) /\ o[j] = path[r]
    BY <1>3
  <2>3. items[j] \in Content(path[r])
    BY <2>1, <2>2
  <2> QED BY <1>5, <2>2, <2>3 DEF MatchItem
<1> QED BY <1>4, <1>5

LEMMA ExchangeKeeps ==
  ASSUME BatchInv, ExchangeFails \/ FastAnswer \/ BatchAnswer PROVE BatchInv'
<1>0. pending \subseteq Requests BY DEF BatchInv, TypeOK
<1>1. CASE ExchangeFails
  <2> DEFINE f == [r \in pending |-> Word("error")]
  <2>1. reply' = [r \in Requests |-> IF r \in pending THEN f[r] ELSE reply[r]]
    BY <1>1 DEF ExchangeFails, Distribute
  <2>2. \A r \in pending : f[r] \in Content(path[r])
    BY <1>0 DEF Content
  <2> HIDE DEF f
  <2> QED BY <1>1, <2>1, <2>2, AnsweringKeeps DEF ExchangeFails, Distribute
<1>2. CASE FastAnswer
  <2>0. PICK p \in validPaths : \E item \in Content(p) : Distribute([r \in pending |-> item])
    BY <1>2 DEF FastAnswer
  <2>1. PICK item \in Content(p) : Distribute([r \in pending |-> item])
    BY <2>0
  <2> DEFINE f == [r \in pending |-> item]
  <2>2. reply' = [r \in Requests |-> IF r \in pending THEN f[r] ELSE reply[r]]
    BY <2>1 DEF Distribute
  <2>3. \A r \in pending : path[r] = p
    <3>1. Cardinality(validPaths) = 1 BY <1>2 DEF FastAnswer
    <3>2. IsFiniteSet(validPaths)
      BY FinitelyMany
    <3>3. PICK q : validPaths = {q} BY <3>1, <3>2, FS_Singleton
    <3> QED BY <3>3 DEF validPaths
  <2>4. \A r \in pending : f[r] \in Content(path[r])
    BY <1>0, <2>3
  <2> HIDE DEF f
  <2> QED BY <2>1, <2>2, <2>4, AnsweringKeeps DEF Distribute
<1>3. CASE BatchAnswer
  <2>0. PICK o \in Orders : \E items \in Arrays(o) :
                             Distribute([r \in pending |-> MatchItem(o, items, path[r])])
    BY <1>3 DEF BatchAnswer
  <2>1. PICK items \in Arrays(o) : Distribute([r \in pending |-> MatchItem(o, items, path[r])])
    BY <2>0
  <2> DEFINE f == [r \in pending |-> MatchItem(o, items, path[r])]
  <2>2. reply' = [r \in Requests |-> IF r \in pending THEN f[r] ELSE reply[r]]
    BY <2>1 DEF Distribute
  <2>3. \A r \in pending : f[r] \in Content(path[r])
    BY <1>0, MatchIsOwn
  <2> HIDE DEF f
  <2> QED BY <2>1, <2>2, <2>3, AnsweringKeeps DEF Distribute
<1> QED BY <1>1, <1>2, <1>3

LEMMA FlusherKeeps ==
  ASSUME BatchInv, Flusher PROVE BatchInv'
<1>1. CASE Take
  <2>1. pending' = pending \cup {Head(submit)}
    BY <1>1 DEF Take, BatchInv, LoopShape
  <2> QED BY <1>1, <2>1, TakingKeeps DEF Take
<1>2. CASE DrainOne BY <1>2, TakingKeeps DEF DrainOne
<1>3. CASE Collect BY <1>3, TakingKeeps DEF Collect
<1>4. CASE Drain \/ Drained \/ WindowEnds BY <1>4, MovingKeeps
<1>5. CASE Flush BY <1>5, FlushKeeps
<1>6. CASE ExchangeFails \/ FastAnswer \/ BatchAnswer BY <1>6, ExchangeKeeps
<1> QED BY <1>1, <1>2, <1>3, <1>4, <1>5, <1>6 DEF Flusher

(* A context ends, the client is closed, NDMS changes. *)
LEMMA OutsideKeeps ==
  ASSUME BatchInv, (\E r \in Requests : CtxDone(r)) \/ Close \/ NdmsChanges PROVE BatchInv'
<1> USE DEF BatchInv, CtxDone, Close, NdmsChanges
<1>a. Queued' = Queued /\ InFlight' = InFlight BY SameQueue DEF InFlight
<1>b. now \in Int /\ now' \in Moment /\ now <= now' BY BatchAssumption DEF TypeOK, Moment
<1>c. \A r \in Requests : asked[r] \in Int BY BatchAssumption DEF TypeOK, Moment
<1>1. TypeOK' BY <1>b DEF TypeOK, callers
<1>2. LoopShape' BY DEF LoopShape
<1>3. NotSentYet' BY <1>a DEF NotSentYet, callers
<1>4. Made'
  <2>1. now' \in Int BY <1>b, BatchAssumption DEF Moment
  <2> QED BY <1>b, <1>c, <2>1 DEF Made, callers
<1>5. ClosedEmpty' /\ OwnFreshAnswer' /\ EmptyOnlyIfCancelled' /\ EarlyAreDrained'
  BY DEF ClosedEmpty, OwnFreshAnswer, EmptyOnlyIfCancelled, EarlyAreDrained, callers
<1>6. EarlyHeld' BY <1>a DEF EarlyHeld, LoopShape, callers
<1>7. RepliedOnce' BY <1>a DEF RepliedOnce
<1> QED BY <1>1, <1>2, <1>3, <1>4, <1>5, <1>6, <1>7

LEMMA BatchInitially ==
  ASSUME Init PROVE BatchInv
<1> USE DEF Init
<1>1. TypeOK
  <2>1. 0 \in Moment /\ 0 <= SubmitBuf BY BatchAssumption DEF Moment
  <2>2. Word("open") \in Reply /\ Word("none") \in Outcome BY DEF Reply, Outcome
  <2>3. submit \in Seq(Requests) /\ Len(submit) = 0 OBVIOUS
  <2> QED BY <2>1, <2>2, <2>3 DEF TypeOK
<1>2. InFlight = {} /\ Queued = {} BY DEF InFlight, Queued
<1>3. LoopShape /\ NotSentYet /\ ClosedEmpty /\ EarlyHeld
  BY <1>2, Words DEF LoopShape, NotSentYet, ClosedEmpty, EarlyHeld
<1>4. Made BY DEF Made
<1>5. RepliedOnce /\ OwnFreshAnswer /\ EmptyOnlyIfCancelled /\ EarlyAreDrained
  BY <1>2, Words DEF RepliedOnce, OwnFreshAnswer, EmptyOnlyIfCancelled, EarlyAreDrained
<1> QED BY <1>1, <1>3, <1>4, <1>5 DEF BatchInv

LEMMA BatchInductive == Spec => []BatchInv
<1>1. Init => BatchInv BY BatchInitially
<1>2. BatchInv /\ [Next]_vars => BatchInv'
  <2> SUFFICES ASSUME BatchInv, [Next]_vars PROVE BatchInv' OBVIOUS
  <2>1. CASE \E r \in Requests : Submit(r) BY <2>1, SubmitKeeps
  <2>2. CASE \E r \in Requests : Caller(r) BY <2>2, CallerKeeps
  <2>3. CASE Flusher BY <2>3, FlusherKeeps
  <2>4. CASE (\E r \in Requests : CtxDone(r)) \/ Close \/ NdmsChanges BY <2>4, OutsideKeeps
  <2>5. CASE UNCHANGED vars BY <2>5, StutterKeeps
  <2> QED BY <2>1, <2>2, <2>3, <2>4, <2>5 DEF Next
<1> QED BY <1>1, <1>2, PTL DEF Spec

(* Of batcher.go as a whole: channels, batch and replies keep their types, *)
(* and the submit channel its capacity.                                    *)
THEOREM BatcherTypes == Spec => []TypeOK
<1>1. BatchInv => TypeOK BY DEF BatchInv
<1> QED BY <1>1, BatchInductive, PTL

(* Of batcher.go:flush, for every number of callers: no reply channel is   *)
(* sent on or closed twice, so the daemon never panics there.              *)
THEOREM NoDoubleReply == Spec => []RepliedOnce
<1>1. BatchInv => RepliedOnce BY DEF BatchInv
<1> QED BY <1>1, BatchInductive, PTL

(* Of batcher.go:flush: whatever was coalesced and however NDMS's array    *)
(* came back, an answer is for the request's own path and is not older     *)
(* than the request.                                                       *)
THEOREM AnswersAreOwnAndFresh == Spec => []OwnFreshAnswer
<1>1. BatchInv => OwnFreshAnswer BY DEF BatchInv
<1> QED BY <1>1, BatchInductive, PTL

(* Of batcher.go:Submit: only a caller whose ctx is done may be given an   *)
(* empty body without an error.                                            *)
THEOREM NothingOnlyForCancelled == Spec => []EmptyOnlyIfCancelled
<1>1. BatchInv => EmptyOnlyIfCancelled BY DEF BatchInv
<1> QED BY <1>1, BatchInductive, PTL

(* Of batcher.go:flusherLoop: a request in the channel before Close is     *)
(* answered by the final drain and never told that the batcher is closed.  *)
THEOREM DrainMissesNone == Spec => []EarlyAreDrained
<1>1. BatchInv => EarlyAreDrained BY DEF BatchInv
<1> QED BY <1>1, BatchInductive, PTL
==============================================================================
