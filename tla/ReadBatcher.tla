----------------------------- MODULE ReadBatcher -----------------------------
(***************************************************************************)
(* The read path to NDMS: transport.Batcher.  Callers of Client.GetRaw     *)
(* submit a path and block; one flusher goroutine collects what arrives    *)
(* within a window, asks NDMS once for every distinct path and hands the   *)
(* answers back.  Callers are cancelled, NDMS fails or garbles its array,  *)
(* and Close races with all of it.                                         *)
(*                                                                         *)
(* A request is one call of Submit: its reply channel is made for it and   *)
(* never used again.  What NDMS would answer changes over time, so an      *)
(* answer carries the moment at which NDMS read it.                        *)
(***************************************************************************)
EXTENDS Integers, Sequences, FiniteSets

CONSTANTS
  Requests,     \* the calls of Submit
  Paths,        \* the paths of NDMS's tree
  Wants,        \* Wants[r]: the paths request r may ask for
  Cancellable,  \* the requests whose ctx may end
  BadPaths,     \* the paths pathToCommand rejects
  MaxBatch,     \* defaultBatchMaxSize
  SubmitBuf,    \* defaultBatchSubmit, the capacity of the submit channel
  FastPath,     \* useFastPath: one path alone is asked for by a plain GET
  MaxChanges    \* bound: how often NDMS's state changes

ASSUME BatchAssumption ==
  /\ IsFiniteSet(Requests)
  /\ MaxBatch \in Nat \ {0} /\ SubmitBuf \in Nat \ {0} /\ MaxChanges \in Nat
  /\ BadPaths \subseteq Paths
  /\ Wants \in [Requests -> SUBSET Paths]
  /\ Cancellable \subseteq Requests
  /\ FastPath \in BOOLEAN

NoPath == "no path"

Moment == 0 .. MaxChanges

(* What a reply channel holds and Submit returns: an answer or a bare      *)
(* word.  Every way in which a read fails is one "error": the transport, a *)
(* response that is no array or has another length, NDMS's own error, a    *)
(* path with no command.                                                   *)
Answer == [is : {"answer"}, path : Paths, at : Moment]

Word(w) == [is |-> w]

Result == Answer \cup {Word("error")}

(* A reply channel is open and empty, closed and empty, or closed with one *)
(* result left to receive.                                                 *)
Reply == Result \cup {Word("open"), Word("empty")}

(* A receive from a closed and empty channel makes Submit return (nil, nil). *)
Outcome == Result \cup {Word("none"), Word("empty"), Word("cancelled"), Word("closed")}

VARIABLES
  pc,         \* where each call of Submit is
  path,       \* the path it asks for
  asked,      \* history: the moment it was made
  early,      \* history: the requests that were enqueued before Close
  cancelled,  \* the requests whose ctx is done
  reply,      \* their reply channels
  outcome,    \* what their Submit returned
  submit,     \* the submit channel
  flusher,    \* where flusherLoop is
  pending,    \* the batch it is collecting or flushing
  last,       \* it is in its final drain, and exits after this flush
  shutdown,   \* shutdownCtx is done: Close was called
  now         \* the moment NDMS is at

callers == <<path, asked, early>>
vars == <<pc, callers, cancelled, reply, outcome, submit, flusher, pending, last, shutdown, now>>

(* Types: requests, reply channels, the loop and its batch; the submit     *)
(* channel of batcher.go never holds more than its capacity.               *)
TypeOK ==
  /\ pc \in [Requests -> {"idle", "sending", "waiting", "returned"}]
  /\ path \in [Requests -> Paths \cup {NoPath}]
  /\ asked \in [Requests -> Moment]
  /\ early \subseteq Requests
  /\ cancelled \subseteq Requests
  /\ reply \in [Requests -> Reply]
  /\ outcome \in [Requests -> Outcome]
  /\ submit \in Seq(Requests) /\ Len(submit) <= SubmitBuf
  /\ flusher \in {"select", "collect", "drain", "flush", "exchange", "done"}
  /\ pending \subseteq Requests
  /\ last \in BOOLEAN
  /\ shutdown \in BOOLEAN
  /\ now \in Moment

Init ==
  /\ pc = [r \in Requests |-> "idle"]
  /\ path = [r \in Requests |-> NoPath]
  /\ asked = [r \in Requests |-> 0]
  /\ early = {}
  /\ cancelled = {}
  /\ reply = [r \in Requests |-> Word("open")]
  /\ outcome = [r \in Requests |-> Word("none")]
  /\ submit = <<>>
  /\ flusher = "select"
  /\ pending = {}
  /\ last = FALSE
  /\ shutdown = FALSE
  /\ now = 0

------------------------------------------------------------------------------
(* Submit, the caller's side.                                              *)

Submit(r) ==
  /\ pc[r] = "idle"
  /\ pc' = [pc EXCEPT ![r] = "sending"]
  /\ \E p \in Wants[r] : path' = [path EXCEPT ![r] = p]
  /\ asked' = [asked EXCEPT ![r] = now]
  /\ UNCHANGED <<early, cancelled, reply, outcome, submit, flusher, pending, last, shutdown, now>>

(* Mutant: one more send than the channel has room for. *)
Enqueue(r) ==
  /\ pc[r] = "sending"
  /\ Len(submit) < SubmitBuf
  /\ submit' = Append(submit, r)
  /\ pc' = [pc EXCEPT ![r] = "waiting"]
  /\ early' = IF shutdown THEN early ELSE early \cup {r}
  /\ UNCHANGED <<path, asked, cancelled, reply, outcome, flusher, pending, last, shutdown, now>>

(* Submit returns v to its caller. *)
Returns(r, v) ==
  /\ pc' = [pc EXCEPT ![r] = "returned"]
  /\ outcome' = [outcome EXCEPT ![r] = v]
  /\ UNCHANGED <<callers, cancelled, submit, flusher, pending, last, shutdown, now>>

(* Both selects of Submit have an arm for the caller's own ctx. *)
GiveUp(r) ==
  /\ pc[r] \in {"sending", "waiting"}
  /\ r \in cancelled
  /\ Returns(r, Word("cancelled"))
  /\ UNCHANGED reply

Refused(r) ==
  /\ pc[r] = "sending"
  /\ shutdown
  /\ Returns(r, Word("closed"))
  /\ UNCHANGED reply

Receive(r) ==
  /\ pc[r] = "waiting"
  /\ reply[r].is # "open"
  /\ Returns(r, reply[r])
  /\ reply' = [reply EXCEPT ![r] = Word("empty")]

(* Mutant: the inner select of Submit without its default arm. *)
OrphanWaits(r) ==
  /\ pc[r] = "waiting"
  /\ flusher = "done"
  /\ reply[r].is # "open"
  /\ Returns(r, reply[r])
  /\ UNCHANGED reply

(* The flusher has exited; an answer it left behind is still preferred. *)
Orphaned(r) ==
  /\ pc[r] = "waiting"
  /\ flusher = "done"
  /\ reply[r].is = "open"
  /\ Returns(r, Word("closed"))
  /\ UNCHANGED reply

Caller(r) == Enqueue(r) \/ GiveUp(r) \/ Refused(r) \/ Receive(r) \/ Orphaned(r)

------------------------------------------------------------------------------
(* flusherLoop.  Its select picks either arm when both are ready.          *)

Take ==
  /\ flusher = "select"
  /\ submit # <<>>
  /\ pending' = {Head(submit)}
  /\ submit' = Tail(submit)
  /\ flusher' = "collect"
  /\ UNCHANGED <<pc, callers, cancelled, reply, outcome, last, shutdown, now>>

Drain ==
  /\ flusher = "select"
  /\ shutdown
  /\ last' = TRUE
  /\ flusher' = "drain"
  /\ UNCHANGED <<pc, callers, cancelled, reply, outcome, submit, pending, shutdown, now>>

DrainOne ==
  /\ flusher = "drain"
  /\ submit # <<>>
  /\ pending' = pending \cup {Head(submit)}
  /\ submit' = Tail(submit)
  /\ UNCHANGED <<pc, callers, cancelled, reply, outcome, flusher, last, shutdown, now>>

(* Mutant: the loop exits on shutdown with submits still in the channel. *)
DrainedEarly ==
  /\ flusher = "drain"
  /\ flusher' = "flush"
  /\ UNCHANGED <<pc, callers, cancelled, reply, outcome, submit, pending, last, shutdown, now>>

Drained ==
  /\ flusher = "drain"
  /\ submit = <<>>
  /\ flusher' = "flush"
  /\ UNCHANGED <<pc, callers, cancelled, reply, outcome, submit, pending, last, shutdown, now>>

(* collectAndFlush: the size is looked at only when one more has come in.  *)
Collect ==
  /\ flusher = "collect"
  /\ submit # <<>>
  /\ pending' = pending \cup {Head(submit)}
  /\ submit' = Tail(submit)
  /\ flusher' = IF Cardinality(pending') >= MaxBatch THEN "flush" ELSE "collect"
  /\ UNCHANGED <<pc, callers, cancelled, reply, outcome, last, shutdown, now>>

(* The window's timer fires, or shutdown cuts the window short. *)
WindowEnds ==
  /\ flusher = "collect"
  /\ flusher' = "flush"
  /\ UNCHANGED <<pc, callers, cancelled, reply, outcome, submit, pending, last, shutdown, now>>

(* Mutant: the drain arm falls back into the loop. *)
AfterFlushLoops == "select"

AfterFlush == IF last THEN "done" ELSE "select"

(* The first half of flush: requests whose ctx is done are dropped and     *)
(* their channels closed, paths without a command fail, the rest is asked. *)
Alive == {r \in pending : r \notin cancelled}

Asked == {r \in Alive : path[r] \notin BadPaths}

(* Mutant: dropped requests stay in the batch after their channel is closed. *)
FlushKeepsDropped ==
  /\ flusher = "flush"
  /\ reply' = [r \in Requests |-> IF r \in Alive \ Asked THEN Word("error")
                                  ELSE IF r \in pending \ Alive THEN Word("empty")
                                  ELSE reply[r]]
  /\ pending' = {r \in pending : path[r] \notin BadPaths}
  /\ flusher' = IF pending' = {} THEN AfterFlush ELSE "exchange"
  /\ UNCHANGED <<pc, callers, cancelled, outcome, submit, last, shutdown, now>>

(* Mutant: a path with no command has its channel closed without a result. *)
FlushDropsBad ==
  /\ flusher = "flush"
  /\ reply' = [r \in Requests |-> IF r \in pending \ Asked THEN Word("empty") ELSE reply[r]]
  /\ pending' = Asked
  /\ flusher' = IF Asked = {} THEN AfterFlush ELSE "exchange"
  /\ UNCHANGED <<pc, callers, cancelled, outcome, submit, last, shutdown, now>>

Flush ==
  /\ flusher = "flush"
  /\ reply' = [r \in Requests |-> IF r \in Alive \ Asked THEN Word("error")
                                  ELSE IF r \in pending \ Alive THEN Word("empty")
                                  ELSE reply[r]]
  /\ pending' = Asked
  /\ flusher' = IF Asked = {} THEN AfterFlush ELSE "exchange"
  /\ UNCHANGED <<pc, callers, cancelled, outcome, submit, last, shutdown, now>>

(* distributeAll and its siblings: request r gets result[r], its channel   *)
(* is closed, for every r of the batch.                                    *)
Distribute(result) ==
  /\ flusher = "exchange"
  /\ reply' = [r \in Requests |-> IF r \in pending THEN result[r] ELSE reply[r]]
  /\ pending' = {}
  /\ flusher' = AfterFlush
  /\ UNCHANGED <<pc, callers, cancelled, outcome, submit, last, shutdown, now>>

(* The exchange fails as a whole: no semaphore slot in time, a transport   *)
(* error, an HTTP status, a response that is no array, or shutdownCtx done *)
(* under a flush that uses it.                                             *)
ExchangeFails == Distribute([r \in pending |-> Word("error")])

validPaths == {path[r] : r \in pending}

(* NDMS reads a path: its content at this moment, or an error of its own.  *)
Content(p) == {[is |-> "answer", path |-> p, at |-> now], Word("error")}

(* One distinct path alone is fetched by getRawDirect. *)
FastAnswer ==
  /\ FastPath /\ Cardinality(validPaths) = 1
  /\ \E p \in validPaths : \E item \in Content(p) : Distribute([r \in pending |-> item])

(* The commands of a batch in the order they stand in the array. *)
Orders == {o \in [1 .. Cardinality(validPaths) -> validPaths] :
             \A p \in validPaths : \E i \in DOMAIN o : o[i] = p}

(* The array NDMS sends back: an item per command, in the order of the     *)
(* commands, or the same with one of them lost.                            *)
Arrays(o) ==
  LET full == {items \in [DOMAIN o -> UNION {Content(p) : p \in validPaths}] :
                 \A i \in DOMAIN o : items[i] \in Content(o[i])}
  IN  full \cup {SubSeq(items, 1, k - 1) \o SubSeq(items, k + 1, Len(items)) :
                    items \in full, k \in DOMAIN o}

(* Mutant: the length of the array is not compared with the batch's. *)
MatchUnchecked(o, items, p) ==
  LET i == CHOOSE j \in DOMAIN o : o[j] = p
  IN  IF i > Len(items) THEN Word("error") ELSE items[i]

(* Responses are told apart by their position only, so an array of the     *)
(* wrong length is used for nobody.                                        *)
MatchItem(o, items, p) ==
  IF Len(items) # Len(o) THEN Word("error") ELSE items[CHOOSE i \in DOMAIN o : o[i] = p]

BatchAnswer ==
  /\ ~(FastPath /\ Cardinality(validPaths) = 1)
  /\ \E o \in Orders : \E items \in Arrays(o) :
       Distribute([r \in pending |-> MatchItem(o, items, path[r])])

Flusher ==
  \/ Take \/ Drain \/ DrainOne \/ Drained \/ Collect \/ WindowEnds
  \/ Flush \/ ExchangeFails \/ FastAnswer \/ BatchAnswer

------------------------------------------------------------------------------
(* The callers' contexts, the owner of the client, and NDMS.               *)

CtxDone(r) ==
  /\ r \in Cancellable \ cancelled
  /\ pc[r] \in {"sending", "waiting"}
  /\ cancelled' = cancelled \cup {r}
  /\ UNCHANGED <<pc, callers, reply, outcome, submit, flusher, pending, last, shutdown, now>>

Close ==
  /\ ~shutdown
  /\ shutdown' = TRUE
  /\ UNCHANGED <<pc, callers, cancelled, reply, outcome, submit, flusher, pending, last, now>>

NdmsChanges ==
  /\ now < MaxChanges
  /\ now' = now + 1
  /\ UNCHANGED <<pc, callers, cancelled, reply, outcome, submit, flusher, pending, last, shutdown>>

Next ==
  \/ \E r \in Requests : Submit(r) \/ Caller(r) \/ CtxDone(r)
  \/ Flusher
  \/ Close
  \/ NdmsChanges

Spec == Init /\ [][Next]_vars

(* A goroutine that can go on does: the window's timer fires, RCI requests *)
(* are bounded by the client's timeout and the semaphore's backstop, and   *)
(* blocked senders of a Go channel are served in turn.  Nobody has to      *)
(* submit, cancel or close.                                                *)
FairSpec ==
  /\ Spec
  /\ WF_vars(Flusher)
  /\ \A r \in Requests : WF_vars(Caller(r))

------------------------------------------------------------------------------
(* Properties.                                                             *)

InFlight == pending \cup {submit[i] : i \in DOMAIN submit}

(* flush sends on the reply channel of every request it holds and closes   *)
(* it; a second send or close panics the daemon.  A request that is still  *)
(* in the submit channel or in the batch therefore has an untouched reply  *)
(* channel and is there only once, whether or not its caller has left.     *)
RepliedOnce ==
  /\ \A r \in InFlight : reply[r].is = "open" /\ pc[r] \in {"waiting", "returned"}
  /\ \A i, j \in DOMAIN submit : submit[i] = submit[j] => i = j
  /\ \A i \in DOMAIN submit : submit[i] \notin pending

(* Coalescing is invisible: whatever batch a request shared, an answer is  *)
(* for its own path and was read by NDMS after the request was made, so a  *)
(* read that follows a write sees the write.                               *)
OwnFreshAnswer ==
  \A r \in Requests : \A v \in {reply[r], outcome[r]} :
    v.is = "answer" => v.path = path[r] /\ asked[r] <= v.at

(* Submit returns (nil, nil) for nobody but a caller whose ctx is done:    *)
(* flush closes no other channel without a result.                         *)
EmptyOnlyIfCancelled ==
  \A r \in Requests : outcome[r].is = "empty" => r \in cancelled

(* ErrBatcherClosed is for requests that Close kept out.  One that was in  *)
(* the channel when Close was called is flushed by the final drain.        *)
EarlyAreDrained ==
  \A r \in early : outcome[r].is # "closed"

(* Every Submit returns, whatever it races with. *)
SubmitsReturn ==
  \A r \in Requests : pc[r] = "sending" ~> pc[r] = "returned"

(* Close waits for done and so returns, the batch in hand being flushed.   *)
CloseReturns == shutdown ~> flusher = "done"
==============================================================================
