-------------------------- MODULE PingMonitorProofs --------------------------
(***************************************************************************)
(* What the ping check owes its goroutines, for any number of tunnels,     *)
(* monitors, handlers and requests: NoGhost, from the inductive invariant  *)
(* GhostInv; StoppedStaysDown, from DownInv; and WatchedWhileEnabled, from *)
(* WatchInv.  The latter two are inductive where GhostInv holds.           *)
(***************************************************************************)
EXTENDS PingMonitor, SequenceTheorems, TLAPS

OpNames == {"Start", "Stop", "Told", "Untold", "Save", "Refresh", "StartMonitoring",
            "StartIfRunning", "StartIfPresent", "StopMonitoring", "RunNwg", "RegisterNwg",
            "CheckNow"}
Operation == [op : OpNames, on : SUBSET Tunnels]
Reference == Monitors \cup {NoMonitor}
Places == {"gone", "begin", "select", "poll", "check", "down", "up", "handshake", "backoff"}
Work == [pc : Places, on : Reference, sel : BOOLEAN]
Call == [kind : {"none"} \cup LifecycleKinds \cup TunnelKinds \cup GlobalKinds,
         tuns : SUBSET Tunnels, todo : Seq(Operation), locked : BOOLEAN,
         held : SUBSET Monitors, taken : SUBSET Monitors, fresh : Reference]

TypeOK ==
  /\ native \subseteq Tunnels
  /\ reg \in [Tunnels -> Reference]
  /\ owner \in [Monitors -> Tunnels]
  /\ work \in [Workers -> Work]
  /\ call \in [Callers -> Call]
  /\ crossed \in [Tunnels -> BOOLEAN]

NwgHalves == {"RunNwg", "RegisterNwg"}

(* Operations about the tunnels ts, none of them half of startNwgMonitor. *)
Plain(s, ts) ==
  \A i \in 1 .. Len(s) : s[i].op \notin NwgHalves /\ s[i].on \subseteq ts

(* The caller is about to register a monitor of t; the entry it cleared is *)
(* still clear unless another call about t came in between.                *)
Registers(c, s, t) ==
  /\ s # <<>> /\ Head(s) = [op |-> "RegisterNwg", on |-> {t}]
  /\ Plain(Tail(s), call[c].tuns)
  /\ t \in native /\ t \in call[c].tuns
  /\ reg[t] = NoMonitor \/ crossed[t]

(* Where a caller is: startNwgMonitor is run as a whole, and the monitor   *)
(* it has created and not registered yet is the caller's own.              *)
CallOK(c) ==
  LET s == call[c].todo IN
  /\ ~Active(c) => call[c] = NoCall
  /\ \/ Plain(s, call[c].tuns) /\ call[c].fresh = NoMonitor
     \/ /\ call[c].fresh = NoMonitor
        /\ \E t \in Tunnels :
              s # <<>> /\ Head(s) = [op |-> "RunNwg", on |-> {t}] /\ Registers(c, Tail(s), t)
     \/ call[c].fresh \in Monitors /\ Registers(c, s, owner[call[c].fresh])

(* Calls about the same tunnel that are under way together have crossed. *)
Crossing ==
  \A c, d \in Callers : c # d /\ Active(c) /\ Active(d) =>
    \A t \in call[c].tuns \cap call[d].tuns : crossed[t]

RegisteredOwn == \A t \in Tunnels : reg[t] # NoMonitor => owner[reg[t]] = t

GhostInv ==
  /\ TypeOK /\ Crossing /\ RegisteredOwn /\ NoGhost
  /\ \A c \in Callers : CallOK(c)

------------------------------------------------------------------------------
(* What is left of a list of operations. *)

LEMMA TailIsPlain ==
  ASSUME NEW s \in Seq(Operation), NEW ts, Plain(s, ts), s # <<>>
  PROVE  /\ Tail(s) \in Seq(Operation) /\ Plain(Tail(s), ts)
         /\ Head(s) \in Operation /\ Head(s).op \notin NwgHalves /\ Head(s).on \subseteq ts
<1>1. Len(s) >= 1 /\ Head(s) = s[1]
  OBVIOUS
<1>2. Len(Tail(s)) = Len(s) - 1 /\ \A i \in 1 .. Len(Tail(s)) : Tail(s)[i] = s[i + 1]
  OBVIOUS
<1> QED BY <1>1, <1>2 DEF Plain

(* An operation in front of a list. *)
LEMMA InFront ==
  ASSUME NEW s \in Seq(Operation), NEW n \in OpNames, NEW on \in SUBSET Tunnels
  PROVE  /\ Op(n, on) \o s \in Seq(Operation) /\ Op(n, on) \o s # <<>>
         /\ Head(Op(n, on) \o s) = [op |-> n, on |-> on]
         /\ Tail(Op(n, on) \o s) = s
         /\ Op(n, on) \in Seq(Operation)
<1>1. [op |-> n, on |-> on] \in Operation
  BY DEF Operation
<1> DEFINE o == [op |-> n, on |-> on]
<1>2. /\ <<o>> \in Seq(Operation) /\ <<o>> \o s \in Seq(Operation)
      /\ Len(<<o>> \o s) = 1 + Len(s) /\ (<<o>> \o s)[1] = o
      /\ \A i \in 1 .. Len(s) : (<<o>> \o s)[i + 1] = s[i]
  BY <1>1
<1>3. <<o>> \o s # <<>> /\ Head(<<o>> \o s) = o
  BY <1>2
<1>4. Tail(<<o>> \o s) = s
  <2>1. /\ Tail(<<o>> \o s) \in Seq(Operation) /\ Len(Tail(<<o>> \o s)) = Len(s)
        /\ \A i \in 1 .. Len(s) : Tail(<<o>> \o s)[i] = s[i]
    BY <1>2, <1>3
  <2> QED BY <2>1, SeqEqual
<1> QED BY <1>2, <1>3, <1>4 DEF Op

LEMMA FrontIsPlain ==
  ASSUME NEW s \in Seq(Operation), NEW n \in OpNames, NEW on \in SUBSET Tunnels, NEW ts,
         Plain(s, ts), n \notin NwgHalves, on \subseteq ts
  PROVE  Plain(Op(n, on) \o s, ts)
<1> DEFINE o == [op |-> n, on |-> on]
<1>1. o \in Operation
  BY DEF Operation
<1>2. /\ Len(<<o>> \o s) = 1 + Len(s) /\ (<<o>> \o s)[1] = o
      /\ \A i \in 1 .. Len(s) : (<<o>> \o s)[i + 1] = s[i]
  BY <1>1
<1>3. \A i \in 1 .. 1 + Len(s) : i = 1 \/ i - 1 \in 1 .. Len(s)
  OBVIOUS
<1> QED BY <1>2, <1>3 DEF Plain, Op

LEMMA ConcatIsPlain ==
  ASSUME NEW s \in Seq(Operation), NEW r \in Seq(Operation), NEW ts, Plain(s, ts), Plain(r, ts)
  PROVE  s \o r \in Seq(Operation) /\ Plain(s \o r, ts)
<1>1. /\ s \o r \in Seq(Operation) /\ Len(s \o r) = Len(s) + Len(r)
      /\ \A i \in 1 .. Len(s) + Len(r) : (s \o r)[i] = IF i <= Len(s) THEN s[i] ELSE r[i - Len(s)]
  BY ConcatProperties
<1>2. \A i \in 1 .. Len(s) + Len(r) : i \in 1 .. Len(s) \/ (i > Len(s) /\ i - Len(s) \in 1 .. Len(r))
  OBVIOUS
<1> QED BY <1>1, <1>2 DEF Plain

LEMMA EmptyIsPlain == \A ts : <<>> \in Seq(Operation) /\ Plain(<<>>, ts)
BY DEF Plain

LEMMA OneIsPlain ==
  ASSUME NEW n \in OpNames, NEW on \in SUBSET Tunnels, NEW ts, n \notin NwgHalves, on \subseteq ts
  PROVE  Op(n, on) \in Seq(Operation) /\ Plain(Op(n, on), ts)
<1>1. [op |-> n, on |-> on] \in Operation
  BY DEF Operation
<1>2. Op(n, on) \in Seq(Operation) /\ Len(Op(n, on)) = 1 /\ Op(n, on)[1] = [op |-> n, on |-> on]
  BY <1>1 DEF Op
<1> QED BY <1>2 DEF Plain

(* At an operation that is no half of startNwgMonitor, the whole list is   *)
(* plain, the caller holds nothing, and Rest leaves a plain list.          *)
LEMMA AtPlain ==
  ASSUME TypeOK, NEW c \in Callers, CallOK(c), NEW op \in OpNames, NEW t, At(c, op, t), op \notin NwgHalves,
         NEW ts
  PROVE  /\ Plain(call[c].todo, call[c].tuns) /\ call[c].fresh = NoMonitor
         /\ Rest(c, ts) \in Seq(Operation) /\ Plain(Rest(c, ts), call[c].tuns)
         /\ Head(call[c].todo) \in Operation
         /\ Head(call[c].todo).on \subseteq call[c].tuns
         /\ Head(call[c].todo).op = op
         /\ call[c].held = {} /\ call[c].taken = {} /\ Active(c) /\ t \in Tunnels
<1>1. call[c].todo \in Seq(Operation) /\ call[c].tuns \subseteq Tunnels
  BY DEF TypeOK, Call
<1>2. /\ call[c].todo # <<>> /\ Head(call[c].todo).op = op /\ t \in Head(call[c].todo).on
      /\ call[c].held = {} /\ call[c].taken = {} /\ Active(c)
  BY DEF At
<1>3. Plain(call[c].todo, call[c].tuns) /\ call[c].fresh = NoMonitor
  <2>1. \A u : /\ Head(call[c].todo) # [op |-> "RunNwg", on |-> {u}]
               /\ Head(call[c].todo) # [op |-> "RegisterNwg", on |-> {u}]
    BY <1>2 DEF NwgHalves
  <2> QED BY <2>1 DEF CallOK, Registers
<1>4. /\ Tail(call[c].todo) \in Seq(Operation) /\ Plain(Tail(call[c].todo), call[c].tuns)
      /\ Head(call[c].todo) \in Operation /\ Head(call[c].todo).on \subseteq call[c].tuns
  BY <1>1, <1>2, <1>3, TailIsPlain
<1>5. /\ Head(call[c].todo).op \in OpNames /\ Head(call[c].todo).on \ ts \in SUBSET Tunnels
      /\ Head(call[c].todo).on \ ts \subseteq call[c].tuns
  BY <1>4 DEF Operation
<1>6. Op(op, Head(call[c].todo).on \ ts) \o Tail(call[c].todo) \in Seq(Operation)
  BY <1>2, <1>4, <1>5, InFront
<1>7. Plain(Op(op, Head(call[c].todo).on \ ts) \o Tail(call[c].todo), call[c].tuns)
  BY <1>2, <1>4, <1>5, FrontIsPlain
<1> QED BY <1>1, <1>2, <1>3, <1>4, <1>6, <1>7 DEF Rest

------------------------------------------------------------------------------
(* What the steps have in common. *)

(* A caller that does not move is still where it was: the entry it cleared *)
(* changes only if the calls crossed, and nobody else's monitor is reused. *)
LEMMA OtherCallers ==
  ASSUME TypeOK, NEW d \in Callers, CallOK(d), call'[d] = call[d], native' = native,
         \A t \in Tunnels : crossed[t] => crossed'[t],
         call[d].fresh \in Monitors => owner'[call[d].fresh] = owner[call[d].fresh],
         \A t \in native \cap call[d].tuns :
            Active(d) /\ reg[t] = NoMonitor => reg'[t] = NoMonitor \/ crossed'[t]
  PROVE  CallOK(d)'
<1>1. \A s, t : Active(d) /\ t \in Tunnels /\ Registers(d, s, t) => Registers(d, s, t)'
  BY DEF Registers, Plain
<1>2. Active(d)' <=> Active(d)
  BY DEF Active
<1>3. CASE ~Active(d)
  BY <1>2, <1>3, EmptyIsPlain DEF CallOK, NoCall, Plain
<1>4. CASE Active(d)
  <2>1. CASE Plain(call[d].todo, call[d].tuns) /\ call[d].fresh = NoMonitor
    BY <1>2, <1>4, <2>1 DEF CallOK, Plain
  <2>2. CASE /\ call[d].fresh = NoMonitor
             /\ \E t \in Tunnels : /\ call[d].todo # <<>>
                                   /\ Head(call[d].todo) = [op |-> "RunNwg", on |-> {t}]
                                   /\ Registers(d, Tail(call[d].todo), t)
    BY <1>1, <1>2, <1>4, <2>2 DEF CallOK
  <2>3. CASE call[d].fresh \in Monitors /\ Registers(d, call[d].todo, owner[call[d].fresh])
    <3>1. owner[call[d].fresh] \in Tunnels
      BY <2>3 DEF TypeOK
    <3> QED BY <1>1, <1>2, <1>4, <2>3, <3>1 DEF CallOK
  <2> QED BY <2>1, <2>2, <2>3 DEF CallOK
<1> QED BY <1>3, <1>4

(* A step of a goroutine's loop or tick: it may end the goroutine, and it  *)
(* touches nothing that says who a monitor belongs to.                     *)
LEMMA WorkerStep ==
  ASSUME TypeOK, NEW w \in Workers, TickStep(w) \/ (w \in Monitors /\ MonitorStep(w))
  PROVE  /\ work' \in [Workers -> Work]
         /\ \A m \in Monitors : Alive(m)' => Alive(m)
         /\ UNCHANGED <<native, reg, owner, call, crossed>>
<1>1. /\ work \in [Workers -> Work]
      /\ NoWork \in Work
      /\ \A m \in Monitors : m \in Workers
      /\ NoWork.pc = "gone"
  BY DEF TypeOK, NoWork, Reference, Workers, Work, Places
<1>2. AfterTick(w) \in Work
  BY <1>1 DEF AfterTick, Reference, Work, Places
<1> USE <1>1, <1>2 DEF Work, Places, Alive, tunnelVars, monVars, history
<1>3. w \in Monitors => ReadConfig(w) \in Work
  BY DEF ReadConfig
<1>4. CASE w \in Monitors /\ LoopBegin(w)
  BY <1>3, <1>4 DEF LoopBegin
<1>5. CASE w \in Monitors /\ Tick(w)
  BY <1>3, <1>5 DEF Tick
<1>6. CASE w \in Monitors /\ LoopStop(w)
  BY <1>6 DEF LoopStop
<1>7. CASE w \in Monitors /\ pollOnce(w)
  BY <1>7 DEF pollOnce
<1>8. CASE CheckPassed(w)
  BY <1>8 DEF CheckPassed
<1>9. CASE CheckFailed(w)
  BY <1>9 DEF CheckFailed
<1>10. CASE ToggleDown(w)
  BY <1>10 DEF ToggleDown
<1>11. CASE ToggleUp(w)
  <2>1. PICK sel \in BOOLEAN : work' = [work EXCEPT ![w] = [@ EXCEPT !.pc = "handshake", !.sel = sel]]
    BY <1>11 DEF ToggleUp
  <2>2. work'[w].pc = "handshake" /\ work[w].pc = "up"
    BY <1>11, <2>1 DEF ToggleUp
  <2> QED BY <1>11, <2>1, <2>2 DEF ToggleUp
<1>12. CASE Handshake(w)
  BY <1>12 DEF Handshake
<1>13. CASE NoHandshake(w)
  BY <1>13 DEF NoHandshake
<1>14. CASE BackoffEnd(w)
  BY <1>14 DEF BackoffEnd
<1> QED
  BY <1>4, <1>5, <1>6, <1>7, <1>8, <1>9, <1>10, <1>11, <1>12, <1>13, <1>14 DEF TickStep, MonitorStep

(* A step that leaves the callers and the register alone. *)
LEMMA QuietKeeps ==
  ASSUME GhostInv, UNCHANGED <<native, reg, owner, call, crossed>>,
         work' \in [Workers -> Work],
         \A m \in Monitors : Alive(m)' => Alive(m)
  PROVE  GhostInv'
<1>1. TypeOK'
  BY DEF GhostInv, TypeOK
<1>2. Crossing' /\ RegisteredOwn'
  BY DEF GhostInv, Crossing, RegisteredOwn, Active
<1>3. NoGhost'
  BY DEF GhostInv, NoGhost
<1>4. \A d \in Callers : CallOK(d)'
  BY OtherCallers DEF GhostInv
<1> QED BY <1>1, <1>2, <1>3, <1>4 DEF GhostInv

(* A caller moves on and the register stays. *)
LEMMA CallerMoves ==
  ASSUME GhostInv, NEW c \in Callers, NEW r \in Call, call' = [call EXCEPT ![c] = r],
         UNCHANGED <<native, reg, owner, crossed>>, work' \in [Workers -> Work],
         \A m \in Monitors : Alive(m)' => Alive(m),
         Active(c), r.kind = call[c].kind, r.tuns = call[c].tuns, CallOK(c)',
         \A m \in Monitors : Alive(m)' /\ m \in call[c].held \cup call[c].taken \cup {call[c].fresh}
            => m \in r.held \cup r.taken \cup {r.fresh}
  PROVE  GhostInv'
<1>1. TypeOK'
  BY DEF GhostInv, TypeOK
<1>2. call'[c] = r /\ \A d \in Callers \ {c} : call'[d] = call[d]
  BY DEF GhostInv, TypeOK
<1>3. \A d \in Callers : Active(d)' <=> Active(d)
  BY <1>2 DEF Active
<1>4. \A d \in Callers : call'[d].tuns = call[d].tuns
  BY <1>2
<1>5. Crossing'
  BY <1>3, <1>4 DEF GhostInv, Crossing
<1>6. RegisteredOwn'
  BY DEF GhostInv, RegisteredOwn
<1>7. NoGhost'
  BY <1>2 DEF GhostInv, NoGhost
<1>8. \A d \in Callers \ {c} : CallOK(d)'
  BY <1>2, OtherCallers DEF GhostInv
<1> QED BY <1>1, <1>5, <1>6, <1>7, <1>8 DEF GhostInv

(* Locking and waiting leave a caller at the same operation. *)
LEMMA SamePlace ==
  ASSUME GhostInv, NEW c \in Callers, Active(c), UNCHANGED <<native, reg, owner, crossed>>,
         call'[c].kind = call[c].kind, call'[c].tuns = call[c].tuns,
         call'[c].todo = call[c].todo, call'[c].fresh = call[c].fresh
  PROVE  CallOK(c)'
<1>1. \A s, t : Registers(c, s, t)' <=> Registers(c, s, t)
  BY DEF Registers, Plain
<1>2. Active(c)'
  BY DEF Active
<1>3. CallOK(c)
  BY DEF GhostInv
<1>4. Plain(call[c].todo, call[c].tuns)' <=> Plain(call[c].todo, call[c].tuns)
  BY DEF Plain
<1> QED BY <1>1, <1>2, <1>3, <1>4 DEF CallOK

(* An operation ran for some tunnels, and the register stays. *)
LEMMA DoneKeeps ==
  ASSUME GhostInv, NEW c \in Callers, NEW op \in OpNames, NEW t, At(c, op, t), op \notin NwgHalves,
         NEW ts, call' = Done(c, ts),
         UNCHANGED <<native, reg, owner, crossed>>, work' \in [Workers -> Work],
         \A m \in Monitors : Alive(m)' => Alive(m)
  PROVE  GhostInv'
<1> DEFINE r == [call[c] EXCEPT !.todo = Rest(c, ts)]
<1>1. /\ Rest(c, ts) \in Seq(Operation) /\ Plain(Rest(c, ts), call[c].tuns)
      /\ call[c].fresh = NoMonitor /\ Active(c)
  BY AtPlain DEF GhostInv
<1>2. call[c] \in Call /\ call' = [call EXCEPT ![c] = r]
  BY DEF GhostInv, TypeOK, Done
<1>3. /\ r \in Call /\ r.kind = call[c].kind /\ r.tuns = call[c].tuns /\ r.held = call[c].held
      /\ r.taken = call[c].taken /\ r.fresh = call[c].fresh /\ r.todo = Rest(c, ts)
  BY <1>1, <1>2 DEF Call
<1>4. call'[c] = r
  BY <1>2 DEF GhostInv, TypeOK
<1> HIDE DEF r
<1>5. CallOK(c)'
  BY <1>1, <1>3, <1>4 DEF CallOK, Plain, Active
<1> QED BY <1>1, <1>2, <1>3, <1>5, CallerMoves

------------------------------------------------------------------------------
(* The calls, one by one. *)

LEMMA StartKeeps ==
  ASSUME GhostInv, NEW c \in Callers, Start(c) PROVE GhostInv'
<1>1. PICK t \in Tunnels : At(c, "Start", t) /\ call' = Done(c, {t})
  BY DEF Start
<1>2. UNCHANGED <<native, reg, owner, crossed, work>>
  BY DEF Start, monVars, history
<1> QED BY <1>1, <1>2, DoneKeeps DEF GhostInv, TypeOK, OpNames, NwgHalves, Alive

LEMMA StopKeeps ==
  ASSUME GhostInv, NEW c \in Callers, Stop(c) PROVE GhostInv'
<1>1. PICK t \in Tunnels : At(c, "Stop", t) /\ call' = Done(c, {t})
  BY DEF Stop
<1>2. UNCHANGED <<native, reg, owner, crossed, work>>
  BY DEF Stop, monVars, history
<1> QED BY <1>1, <1>2, DoneKeeps DEF GhostInv, TypeOK, OpNames, NwgHalves, Alive

LEMMA TellKeeps ==
  ASSUME GhostInv, NEW c \in Callers, Tell(c) PROVE GhostInv'
<1>1. PICK t \in Tunnels, op \in {"Told", "Untold"} : At(c, op, t) /\ call' = Done(c, {t})
  BY DEF Tell
<1>2. UNCHANGED <<native, reg, owner, crossed, work>>
  BY DEF Tell, monVars, history
<1> QED BY <1>1, <1>2, DoneKeeps DEF GhostInv, TypeOK, OpNames, NwgHalves, Alive

LEMMA SaveKeeps ==
  ASSUME GhostInv, NEW c \in Callers, Save(c) PROVE GhostInv'
<1>1. PICK t \in Tunnels : At(c, "Save", t) /\ call' = Done(c, {t})
  BY DEF Save
<1>2. UNCHANGED <<native, reg, owner, crossed, work>>
  BY DEF Save, monVars, history
<1> QED BY <1>1, <1>2, DoneKeeps DEF GhostInv, TypeOK, OpNames, NwgHalves, Alive

LEMMA RefreshKeeps ==
  ASSUME GhostInv, NEW c \in Callers, RefreshTunnelState(c) PROVE GhostInv'
<1>1. PICK t \in Tunnels : At(c, "Refresh", t) /\ call' = Done(c, {t})
  BY DEF RefreshTunnelState
<1>2. UNCHANGED <<native, reg, owner, crossed, work>>
  BY DEF RefreshTunnelState, monVars, history
<1> QED BY <1>1, <1>2, DoneKeeps DEF GhostInv, TypeOK, OpNames, NwgHalves, Alive

LEMMA CheckAllNowKeeps ==
  ASSUME GhostInv, NEW c \in Callers, CheckAllNow(c) PROVE GhostInv'
<1>1. PICK t \in Kernel : /\ At(c, "CheckNow", t) /\ call' = Done(c, {t})
                          /\ work' = IF reg[t] # NoMonitor /\ pingOn[t]
                                     THEN [work EXCEPT ![c] = [pc |-> "check", on |-> reg[t], sel |-> FALSE]]
                                     ELSE work
  BY DEF CheckAllNow
<1>2. UNCHANGED <<native, reg, owner, crossed>>
  BY DEF CheckAllNow, tunnelVars, monVars, history
<1>3. t \in Tunnels /\ reg[t] \in Reference
  BY <1>1 DEF Kernel, GhostInv, TypeOK
<1>4. work' \in [Workers -> Work]
  BY <1>1, <1>3 DEF GhostInv, TypeOK, Work, Places
<1>5. \A m \in Monitors : work'[m] = work[m]
  BY <1>1, PingAssumption DEF GhostInv, TypeOK, Callers, Workers
<1> QED BY <1>1, <1>2, <1>4, <1>5, DoneKeeps DEF OpNames, NwgHalves, Alive

LEMMA LockKeeps ==
  ASSUME GhostInv, NEW c \in Callers, lockTunnel(c) PROVE GhostInv'
<1> DEFINE r == [call[c] EXCEPT !.locked = TRUE]
<1>1. call[c] \in Call /\ call' = [call EXCEPT ![c] = r] /\ Active(c)
  BY DEF GhostInv, TypeOK, lockTunnel
<1>2. /\ r \in Call /\ r.kind = call[c].kind /\ r.tuns = call[c].tuns /\ r.held = call[c].held
      /\ r.taken = call[c].taken /\ r.fresh = call[c].fresh /\ r.todo = call[c].todo
  BY <1>1 DEF Call
<1>3. call'[c] = r
  BY <1>1 DEF GhostInv, TypeOK
<1>4. UNCHANGED <<native, reg, owner, crossed, work>>
  BY DEF lockTunnel, tunnelVars, monVars, history
<1> HIDE DEF r
<1>5. CallOK(c)'
  BY <1>1, <1>2, <1>3, <1>4, SamePlace
<1> QED BY <1>1, <1>2, <1>4, <1>5, CallerMoves DEF GhostInv, TypeOK, Alive

LEMMA SkipKeeps ==
  ASSUME GhostInv, NEW c \in Callers, Skip(c) PROVE GhostInv'
<1> DEFINE r == [call[c] EXCEPT !.todo = Tail(@)]
<1>1. call[c] \in Call /\ call' = [call EXCEPT ![c] = r] /\ Active(c)
  BY DEF GhostInv, TypeOK, Skip
<1>2. call[c].todo \in Seq(Operation) /\ call[c].todo # <<>> /\ Head(call[c].todo).on = {}
  BY <1>1 DEF Skip, Call
<1>3. Plain(call[c].todo, call[c].tuns) /\ call[c].fresh = NoMonitor
  <2>1. \A u : /\ Head(call[c].todo) # [op |-> "RunNwg", on |-> {u}]
               /\ Head(call[c].todo) # [op |-> "RegisterNwg", on |-> {u}]
    <3>1. \A u : /\ [op |-> "RunNwg", on |-> {u}].on # {}
                 /\ [op |-> "RegisterNwg", on |-> {u}].on # {}
      OBVIOUS
    <3> QED BY <1>2, <3>1
  <2> QED BY <2>1 DEF GhostInv, CallOK, Registers
<1>4. Tail(call[c].todo) \in Seq(Operation) /\ Plain(Tail(call[c].todo), call[c].tuns)
  BY <1>2, <1>3, TailIsPlain
<1>5. /\ r \in Call /\ r.kind = call[c].kind /\ r.tuns = call[c].tuns /\ r.held = call[c].held
      /\ r.taken = call[c].taken /\ r.fresh = call[c].fresh /\ r.todo = Tail(call[c].todo)
  BY <1>1, <1>4 DEF Call
<1>6. call'[c] = r
  BY <1>1 DEF GhostInv, TypeOK
<1>7. UNCHANGED <<native, reg, owner, crossed, work>>
  BY DEF Skip, tunnelVars, monVars, history
<1> HIDE DEF r
<1>8. CallOK(c)'
  BY <1>1, <1>3, <1>4, <1>5, <1>6 DEF CallOK, Plain, Active
<1> QED BY <1>1, <1>5, <1>7, <1>8, CallerMoves DEF GhostInv, TypeOK, Alive

(* Somebody who waits for a goroutine, or is about to stop one, is in a call. *)
LEMMA HolderIsActive ==
  ASSUME GhostInv, NEW c \in Callers, call[c].held # {} \/ call[c].taken # {}
  PROVE  Active(c)
BY DEF GhostInv, CallOK, NoCall

LEMMA WaitedKeeps ==
  ASSUME GhostInv, NEW c \in Callers, Waited(c) PROVE GhostInv'
<1> DEFINE r == [call[c] EXCEPT !.held = {}]
<1>1. call[c] \in Call /\ call' = [call EXCEPT ![c] = r] /\ Active(c)
  BY HolderIsActive DEF GhostInv, TypeOK, Waited
<1>2. /\ r \in Call /\ r.kind = call[c].kind /\ r.tuns = call[c].tuns /\ r.held = {}
      /\ r.taken = call[c].taken /\ r.fresh = call[c].fresh /\ r.todo = call[c].todo
  BY <1>1 DEF Call
<1>3. call'[c] = r
  BY <1>1 DEF GhostInv, TypeOK
<1>4. UNCHANGED <<native, reg, owner, crossed, work>> /\ \A m \in call[c].held : ~Alive(m)
  BY DEF Waited, tunnelVars, monVars, history
<1> HIDE DEF r
<1>5. CallOK(c)'
  BY <1>1, <1>2, <1>3, <1>4, SamePlace
<1> QED BY <1>1, <1>2, <1>4, <1>5, CallerMoves DEF GhostInv, TypeOK, Alive

LEMMA StopTakenKeeps ==
  ASSUME GhostInv, NEW c \in Callers, StopTaken(c) PROVE GhostInv'
<1>1. PICK m \in call[c].taken :
         call' = [call EXCEPT ![c].taken = @ \ {m}, ![c].held = {m}] /\ call[c].held = {}
  BY DEF StopTaken
<1> DEFINE r == [call[c] EXCEPT !.taken = @ \ {m}, !.held = {m}]
<1>2. call[c] \in Call /\ call' = [call EXCEPT ![c] = r] /\ Active(c)
  BY <1>1, HolderIsActive DEF GhostInv, TypeOK
<1>3. /\ r \in Call /\ r.kind = call[c].kind /\ r.tuns = call[c].tuns /\ r.held = {m}
      /\ r.taken = call[c].taken \ {m} /\ r.fresh = call[c].fresh /\ r.todo = call[c].todo
  BY <1>1, <1>2 DEF Call
<1>4. call'[c] = r
  BY <1>2 DEF GhostInv, TypeOK
<1>5. UNCHANGED <<native, reg, owner, crossed, work>>
  BY DEF StopTaken, tunnelVars, monVars, history
<1> HIDE DEF r
<1>6. CallOK(c)'
  BY <1>2, <1>3, <1>4, <1>5, SamePlace
<1> QED BY <1>1, <1>2, <1>3, <1>5, <1>6, CallerMoves DEF GhostInv, TypeOK, Alive

LEMMA ReturnKeeps ==
  ASSUME GhostInv, NEW c \in Callers, Return(c) PROVE GhostInv'
<1>1. UNCHANGED <<native, reg, owner, crossed, work>> /\ call' = [call EXCEPT ![c] = NoCall]
  BY DEF Return, tunnelVars, monVars, history
<1>2. NoCall \in Call /\ NoCall.kind = "none" /\ NoCall.todo = <<>> /\ NoCall.fresh = NoMonitor
  BY DEF NoCall, Call, Reference
<1>3. TypeOK'
  BY <1>1, <1>2 DEF GhostInv, TypeOK
<1>4. call'[c] = NoCall /\ \A d \in Callers \ {c} : call'[d] = call[d]
  BY <1>1 DEF GhostInv, TypeOK
<1>5. ~Active(c)' /\ \A d \in Callers \ {c} : Active(d)' <=> Active(d)
  BY <1>2, <1>4 DEF Active
<1>6. Crossing' /\ RegisteredOwn'
  BY <1>1, <1>4, <1>5 DEF GhostInv, Crossing, RegisteredOwn
<1>7. call[c].held = {} /\ call[c].taken = {} /\ call[c].fresh = NoMonitor
  BY DEF Return, GhostInv, CallOK, Registers
<1>8. NoGhost'
  BY <1>1, <1>4, <1>7, PingAssumption DEF GhostInv, NoGhost, Alive
<1>9. \A d \in Callers \ {c} : CallOK(d)'
  BY <1>1, <1>4, OtherCallers DEF GhostInv
<1>10. CallOK(c)'
  BY <1>2, <1>4, EmptyIsPlain DEF CallOK
<1> QED BY <1>3, <1>6, <1>8, <1>9, <1>10 DEF GhostInv

(* A call begins: if it meets another about the same tunnel, they cross. *)
LEMMA BeginKeeps ==
  ASSUME GhostInv, NEW c \in Callers, NEW kind \in LifecycleKinds \cup TunnelKinds \cup GlobalKinds,
         NEW ts \in SUBSET Tunnels, NEW todo \in Seq(Operation), Plain(todo, ts),
         Begin(c, kind, ts, todo)
  PROVE  GhostInv'
<1> DEFINE r == [NoCall EXCEPT !.kind = kind, !.tuns = ts, !.todo = todo]
<1>1. UNCHANGED <<native, reg, owner, work>> /\ call' = [call EXCEPT ![c] = r] /\ ~Active(c)
  BY DEF Begin, tunnelVars, monVars
<1>2. NoCall \in Call /\ kind # "none"
  BY DEF NoCall, Call, Reference, LifecycleKinds, TunnelKinds, GlobalKinds
<1>3. /\ r \in Call /\ r.kind = kind /\ r.tuns = ts /\ r.todo = todo
      /\ r.fresh = NoMonitor
  BY <1>2 DEF Call, NoCall
<1>4. call'[c] = r /\ \A d \in Callers \ {c} : call'[d] = call[d]
  BY <1>1 DEF GhostInv, TypeOK
<1>5. crossed' = [t \in Tunnels |->
          crossed[t] \/ (t \in ts /\ \E d \in Callers : Active(d) /\ t \in call[d].tuns)]
  BY DEF Begin
<1> HIDE DEF r
<1>6. TypeOK'
  <2>1. crossed' \in [Tunnels -> BOOLEAN]
    BY <1>5 DEF GhostInv, TypeOK
  <2> QED BY <1>1, <1>3, <2>1 DEF GhostInv, TypeOK
<1>7. \A t \in Tunnels : crossed[t] => crossed'[t]
  BY <1>5
<1>8. Active(c)' /\ \A d \in Callers \ {c} : Active(d)' <=> Active(d)
  BY <1>2, <1>3, <1>4 DEF Active
<1>9. Crossing'
  <2> SUFFICES ASSUME NEW b \in Callers, NEW d \in Callers, b # d, Active(b)', Active(d)',
                      NEW t \in call'[b].tuns \cap call'[d].tuns
               PROVE  crossed'[t]
    BY DEF Crossing
  <2>1. t \in Tunnels
    BY <1>6 DEF TypeOK, Call
  <2>2. CASE b # c /\ d # c
    BY <1>4, <1>7, <1>8, <2>1, <2>2 DEF GhostInv, Crossing
  <2>3. CASE b = c
    <3>1. Active(d) /\ t \in call[d].tuns /\ t \in ts
      BY <1>3, <1>4, <1>8, <2>3
    <3> QED BY <1>5, <2>1, <3>1
  <2>4. CASE d = c
    <3>1. Active(b) /\ t \in call[b].tuns /\ t \in ts
      BY <1>3, <1>4, <1>8, <2>4
    <3> QED BY <1>5, <2>1, <3>1
  <2> QED BY <2>2, <2>3, <2>4
<1>10. RegisteredOwn'
  BY <1>1 DEF GhostInv, RegisteredOwn
<1>11. call[c].held = {} /\ call[c].taken = {} /\ call[c].fresh = NoMonitor
  BY <1>1 DEF GhostInv, CallOK, NoCall
<1>12. NoGhost'
  <2> SUFFICES ASSUME NEW m \in Monitors, Alive(m)'
               PROVE  \/ reg'[owner'[m]] = m
                      \/ \E d \in Callers : m \in call'[d].held \cup call'[d].taken \cup {call'[d].fresh}
                      \/ owner'[m] \in native' /\ crossed'[owner'[m]]
    BY DEF NoGhost
  <2>1. Alive(m) /\ owner[m] \in Tunnels
    BY <1>1 DEF Alive, GhostInv, TypeOK
  <2>2. \A d \in Callers : m \in call[d].held \cup call[d].taken \cup {call[d].fresh} => d # c
    BY <1>11, PingAssumption
  <2> QED BY <1>1, <1>4, <1>7, <2>1, <2>2 DEF GhostInv, NoGhost
<1>13. \A d \in Callers \ {c} : CallOK(d)'
  BY <1>1, <1>4, <1>7, OtherCallers DEF GhostInv
<1>14. CallOK(c)'
  BY <1>3, <1>4, <1>8 DEF CallOK, Plain
<1> QED BY <1>6, <1>9, <1>10, <1>12, <1>13, <1>14 DEF GhostInv

(* The plans are made of whole operations about their tunnels. *)
LEMMA PlansArePlain ==
  ASSUME TypeOK, NEW t \in Tunnels, NEW kind \in LifecycleKinds
  PROVE  Plan(kind, t) \in Seq(Operation) /\ Plain(Plan(kind, t), {t})
<1> DEFINE One(n) == Op(n, {t})
<1>1. \A n \in OpNames \ NwgHalves : One(n) \in Seq(Operation) /\ Plain(One(n), {t})
  BY OneIsPlain
<1>2. /\ One("Start") \in Seq(Operation) /\ Plain(One("Start"), {t})
      /\ One("Stop") \in Seq(Operation) /\ Plain(One("Stop"), {t})
      /\ One("StartMonitoring") \in Seq(Operation) /\ Plain(One("StartMonitoring"), {t})
      /\ One("StopMonitoring") \in Seq(Operation) /\ Plain(One("StopMonitoring"), {t})
      /\ One("Told") \in Seq(Operation) /\ Plain(One("Told"), {t})
      /\ One("Untold") \in Seq(Operation) /\ Plain(One("Untold"), {t})
  BY <1>1 DEF OpNames, NwgHalves
<1>3. StartPlan(t) \in Seq(Operation) /\ Plain(StartPlan(t), {t})
  <2> DEFINE tail == IF cfgd[t] THEN One("StartMonitoring") \o One("Told") ELSE <<>>
  <2>1. tail \in Seq(Operation) /\ Plain(tail, {t})
    BY <1>2, ConcatIsPlain, EmptyIsPlain
  <2>2. StartPlan(t) = One("Start") \o tail
    BY DEF StartPlan
  <2> HIDE DEF tail
  <2> QED BY <1>2, <2>1, <2>2, ConcatIsPlain
<1>4. StopPlan(t) \in Seq(Operation) /\ Plain(StopPlan(t), {t})
  <2> DEFINE front == IF flag[t] THEN One("StopMonitoring") \o One("Untold") ELSE <<>>
  <2>1. front \in Seq(Operation) /\ Plain(front, {t})
    BY <1>2, ConcatIsPlain, EmptyIsPlain
  <2>2. StopPlan(t) = front \o One("Stop")
    BY DEF StopPlan
  <2> HIDE DEF front
  <2> QED BY <1>2, <2>1, <2>2, ConcatIsPlain
<1>5. RestartPlan(t) \in Seq(Operation) /\ Plain(RestartPlan(t), {t})
  <2> DEFINE front == IF running[t] THEN StopPlan(t) ELSE <<>>
  <2>1. front \in Seq(Operation) /\ Plain(front, {t})
    BY <1>4, EmptyIsPlain
  <2>2. RestartPlan(t) = front \o StartPlan(t)
    BY DEF RestartPlan
  <2> HIDE DEF front
  <2> QED BY <1>3, <2>1, <2>2, ConcatIsPlain
<1> QED BY <1>3, <1>4, <1>5 DEF Plan, LifecycleKinds

LEMMA TogglePlansArePlain ==
  ASSUME TypeOK, NEW t \in Tunnels, NEW kind \in TunnelKinds
  PROVE  TogglePlan(kind, t) \in Seq(Operation) /\ Plain(TogglePlan(kind, t), {t})
<1> DEFINE One(n) == Op(n, {t})
           store == One("Save") \o One("Refresh")
<1>1. \A n \in OpNames \ NwgHalves : One(n) \in Seq(Operation) /\ Plain(One(n), {t})
  BY OneIsPlain
<1>2. /\ One("Save") \in Seq(Operation) /\ Plain(One("Save"), {t})
      /\ One("Refresh") \in Seq(Operation) /\ Plain(One("Refresh"), {t})
      /\ One("StartIfRunning") \in Seq(Operation) /\ Plain(One("StartIfRunning"), {t})
      /\ One("StartMonitoring") \in Seq(Operation) /\ Plain(One("StartMonitoring"), {t})
      /\ One("StopMonitoring") \in Seq(Operation) /\ Plain(One("StopMonitoring"), {t})
  BY <1>1 DEF OpNames, NwgHalves
<1>3. store \in Seq(Operation) /\ Plain(store, {t})
  BY <1>2, ConcatIsPlain
<1>4. TogglePlan(kind, t) \in {store \o One("StartIfRunning"), store \o One("StartMonitoring"),
                               store \o One("StopMonitoring"), One("StopMonitoring") \o store}
  BY DEF TogglePlan, TunnelKinds, Kernel
<1>5. \A n \in OpNames \ NwgHalves :
         /\ store \o One(n) \in Seq(Operation) /\ Plain(store \o One(n), {t})
         /\ One(n) \o store \in Seq(Operation) /\ Plain(One(n) \o store, {t})
  <2> SUFFICES ASSUME NEW n \in OpNames \ NwgHalves
               PROVE  /\ store \o One(n) \in Seq(Operation) /\ Plain(store \o One(n), {t})
                      /\ One(n) \o store \in Seq(Operation) /\ Plain(One(n) \o store, {t})
    OBVIOUS
  <2>1. One(n) \in Seq(Operation) /\ Plain(One(n), {t})
    BY <1>1
  <2> HIDE DEF store, One
  <2> QED BY <1>3, <2>1, ConcatIsPlain
<1>6. {"StartIfRunning", "StartMonitoring", "StopMonitoring"} \subseteq OpNames \ NwgHalves
  BY DEF OpNames, NwgHalves
<1> HIDE DEF store, One
<1> QED BY <1>4, <1>5, <1>6

LEMMA GlobalPlansArePlain ==
  ASSUME TypeOK, NEW kind \in GlobalKinds
  PROVE  GlobalPlan(kind) \in Seq(Operation) /\ Plain(GlobalPlan(kind), Tunnels)
<1>1. \A n \in OpNames \ NwgHalves, on \in SUBSET Tunnels :
         Op(n, on) \in Seq(Operation) /\ Plain(Op(n, on), Tunnels)
  BY OneIsPlain
<1>2. /\ Op("Save", Tunnels) \in Seq(Operation) /\ Plain(Op("Save", Tunnels), Tunnels)
      /\ \A on \in {Kernel, native} :
            /\ Op("StartIfPresent", on) \in Seq(Operation) /\ Plain(Op("StartIfPresent", on), Tunnels)
            /\ Op("StartMonitoring", on) \in Seq(Operation) /\ Plain(Op("StartMonitoring", on), Tunnels)
            /\ Op("StopMonitoring", on) \in Seq(Operation) /\ Plain(Op("StopMonitoring", on), Tunnels)
            /\ Op("CheckNow", on) \in Seq(Operation) /\ Plain(Op("CheckNow", on), Tunnels)
  <2>1. Kernel \in SUBSET Tunnels /\ native \in SUBSET Tunnels
    BY DEF Kernel, TypeOK
  <2> QED BY <1>1, <2>1 DEF OpNames, NwgHalves
<1>3. CASE kind = "allon"
  <2>1. LET s == Op("Save", Tunnels) \o Op("StartIfPresent", Kernel) IN
        s \in Seq(Operation) /\ Plain(s, Tunnels)
    BY <1>2, ConcatIsPlain
  <2> QED BY <1>2, <1>3, <2>1, ConcatIsPlain DEF GlobalPlan
<1>4. CASE kind = "alloff"
  <2>1. LET s == Op("StopMonitoring", Kernel) \o Op("StopMonitoring", native) IN
        s \in Seq(Operation) /\ Plain(s, Tunnels)
    BY <1>2, ConcatIsPlain
  <2> QED BY <1>2, <1>4, <2>1, ConcatIsPlain DEF GlobalPlan
<1>5. CASE kind = "checknow"
  BY <1>2, <1>5 DEF GlobalPlan
<1> QED BY <1>3, <1>4, <1>5 DEF GlobalKinds

LEMMA EventKeeps ==
  ASSUME GhostInv, NEW h \in Handlers, Event(h) PROVE GhostInv'
<1>1. PICK kind \in Kinds \cap LifecycleKinds, t \in Tunnels : Begin(h, kind, {t}, Plan(kind, t))
  BY DEF Event
<1>2. Plan(kind, t) \in Seq(Operation) /\ Plain(Plan(kind, t), {t})
  BY PlansArePlain DEF GhostInv
<1> QED BY <1>1, <1>2, BeginKeeps DEF Callers

LEMMA RequestKeeps ==
  ASSUME GhostInv, NEW r \in Requests, Request(r) PROVE GhostInv'
<1>1. ASSUME NEW kind \in Kinds \cap TunnelKinds, NEW t \in Tunnels,
             Begin(r, kind, {t}, TogglePlan(kind, t))
      PROVE  GhostInv'
  <2>1. TogglePlan(kind, t) \in Seq(Operation) /\ Plain(TogglePlan(kind, t), {t})
    BY TogglePlansArePlain DEF GhostInv
  <2> QED BY <1>1, <2>1, BeginKeeps DEF Callers
<1>2. ASSUME NEW kind \in Kinds \cap GlobalKinds, Begin(r, kind, Tunnels, GlobalPlan(kind))
      PROVE  GhostInv'
  <2>1. GlobalPlan(kind) \in Seq(Operation) /\ Plain(GlobalPlan(kind), Tunnels)
    BY GlobalPlansArePlain DEF GhostInv
  <2> QED BY <1>2, <2>1, BeginKeeps DEF Callers
<1> QED BY <1>1, <1>2 DEF Request

(* A goroutine is started under a name nothing refers to. *)
LEMMA Spawned ==
  ASSUME GhostInv, NEW m, NEW t \in Tunnels, NEW pc \in Places, Spawn(m, t, pc)
  PROVE  /\ m \in Monitors /\ m # NoMonitor
         /\ work' \in [Workers -> Work] /\ owner' \in [Monitors -> Tunnels]
         /\ owner'[m] = t
         /\ \A n \in Monitors \ {m} : owner'[n] = owner[n] /\ (Alive(n)' <=> Alive(n))
         /\ \A u \in Tunnels : reg[u] # m
         /\ \A c \in Callers : m \notin call[c].held \cup call[c].taken \cup {call[c].fresh}
<1>1. m \in Monitors /\ m \in Workers /\ m \in Reference
  BY DEF Spawn, Free, Workers, Reference
<1>2. m # NoMonitor
  BY <1>1, PingAssumption
<1>3. [pc |-> pc, on |-> m, sel |-> TRUE] \in Work
  BY <1>1 DEF Work
<1>4. work' \in [Workers -> Work] /\ owner' \in [Monitors -> Tunnels]
  BY <1>3 DEF Spawn, GhostInv, TypeOK
<1>5. owner'[m] = t /\ \A n \in Monitors \ {m} : owner'[n] = owner[n] /\ work'[n] = work[n]
  BY <1>1 DEF Spawn, GhostInv, TypeOK, Workers
<1> QED BY <1>1, <1>2, <1>4, <1>5 DEF Spawn, Free, Alive

LEMMA RegisterKeeps ==
  ASSUME GhostInv, NEW c \in Callers, NEW t \in Kernel, NEW op \in OpNames \ NwgHalves,
         At(c, op, t), Register(c, t), call' = Done(c, {t}), UNCHANGED <<native, crossed>>
  PROVE  GhostInv'
<1>1. CASE reg[t] # NoMonitor \/ ~pingOn[t]
  <2>1. UNCHANGED <<reg, owner, work>>
    BY <1>1 DEF Register, monVars
  <2> QED BY <2>1, DoneKeeps DEF GhostInv, TypeOK, Alive
<1>2. CASE ~(reg[t] # NoMonitor \/ ~pingOn[t])
  <2>1. PICK m : Spawn(m, t, "begin") /\ reg' = [reg EXCEPT ![t] = m]
    BY <1>2 DEF Register
  <2>2. t \in Tunnels /\ t \notin native /\ reg[t] = NoMonitor
    BY <1>2 DEF Kernel
  <2>3. /\ m \in Monitors /\ m # NoMonitor
        /\ work' \in [Workers -> Work] /\ owner' \in [Monitors -> Tunnels]
        /\ owner'[m] = t
        /\ \A n \in Monitors \ {m} : owner'[n] = owner[n] /\ (Alive(n)' <=> Alive(n))
        /\ \A u \in Tunnels : reg[u] # m
        /\ \A d \in Callers : m \notin call[d].held \cup call[d].taken \cup {call[d].fresh}
    BY <2>1, <2>2, Spawned DEF Places
  <2> DEFINE r == [call[c] EXCEPT !.todo = Rest(c, {t})]
  <2>4. /\ Rest(c, {t}) \in Seq(Operation) /\ Plain(Rest(c, {t}), call[c].tuns)
        /\ call[c].fresh = NoMonitor /\ Active(c)
    BY AtPlain DEF GhostInv
  <2>5. call[c] \in Call /\ call' = [call EXCEPT ![c] = r]
    BY DEF GhostInv, TypeOK, Done
  <2>6. /\ r \in Call /\ r.kind = call[c].kind /\ r.tuns = call[c].tuns /\ r.held = call[c].held
        /\ r.taken = call[c].taken /\ r.fresh = call[c].fresh /\ r.todo = Rest(c, {t})
    BY <2>4, <2>5 DEF Call
  <2>7. call'[c] = r /\ \A d \in Callers \ {c} : call'[d] = call[d]
    BY <2>5 DEF GhostInv, TypeOK
  <2> HIDE DEF r
  <2>8. reg'[t] = m /\ \A u \in Tunnels \ {t} : reg'[u] = reg[u]
    BY <2>1, <2>2 DEF GhostInv, TypeOK
  <2>9. TypeOK'
    BY <2>1, <2>3, <2>5, <2>6 DEF GhostInv, TypeOK, Reference
  <2>10. \A d \in Callers : (Active(d)' <=> Active(d)) /\ call'[d].tuns = call[d].tuns
    BY <2>6, <2>7 DEF Active
  <2>11. Crossing'
    BY <2>10 DEF GhostInv, Crossing
  <2>12. RegisteredOwn'
    <3> SUFFICES ASSUME NEW u \in Tunnels, reg'[u] # NoMonitor PROVE owner'[reg'[u]] = u
      BY DEF RegisteredOwn
    <3>1. CASE u = t
      BY <2>3, <2>8, <3>1
    <3>2. CASE u # t
      BY <2>3, <2>8, <3>2 DEF GhostInv, RegisteredOwn, TypeOK, Reference
    <3> QED BY <3>1, <3>2
  <2>13. NoGhost'
    <3> SUFFICES ASSUME NEW n \in Monitors, Alive(n)'
                 PROVE  \/ reg'[owner'[n]] = n
                        \/ \E d \in Callers : n \in call'[d].held \cup call'[d].taken \cup {call'[d].fresh}
                        \/ owner'[n] \in native' /\ crossed'[owner'[n]]
      BY DEF NoGhost
    <3>1. CASE n = m
      BY <2>3, <2>8, <3>1
    <3>2. CASE n # m
      <4>1. Alive(n) /\ owner'[n] = owner[n] /\ owner[n] \in Tunnels
        BY <2>3, <3>2 DEF GhostInv, TypeOK
      <4>2. n # NoMonitor
        BY PingAssumption
      <4>3. reg[owner[n]] = n => reg'[owner[n]] = n
        BY <2>2, <2>8, <4>1, <4>2
      <4>4. \A d \in Callers : n \in call[d].held \cup call[d].taken \cup {call[d].fresh}
               => n \in call'[d].held \cup call'[d].taken \cup {call'[d].fresh}
        BY <2>6, <2>7
      <4> QED BY <4>1, <4>3, <4>4 DEF GhostInv, NoGhost
    <3> QED BY <3>1, <3>2
  <2>14. \A d \in Callers \ {c} : CallOK(d)'
    <3> SUFFICES ASSUME NEW d \in Callers \ {c} PROVE CallOK(d)'
      OBVIOUS
    <3>1. call[d].fresh \in Monitors => owner'[call[d].fresh] = owner[call[d].fresh]
      BY <2>3
    <3>2. \A u \in native \cap call[d].tuns : reg'[u] = reg[u]
      BY <2>2, <2>8 DEF GhostInv, TypeOK
    <3> QED BY <2>7, <3>1, <3>2, OtherCallers DEF GhostInv
  <2>15. CallOK(c)'
    BY <2>4, <2>6, <2>7, <2>10 DEF CallOK, Plain
  <2> QED BY <2>9, <2>11, <2>12, <2>13, <2>14, <2>15 DEF GhostInv
<1> QED BY <1>1, <1>2

LEMMA StartKernelKeeps ==
  ASSUME GhostInv, NEW c \in Callers, StartMonitoring(c) PROVE GhostInv'
<1>1. PICK t \in Kernel : /\ At(c, "StartMonitoring", t) /\ Register(c, t)
                          /\ call' = Done(c, {t})
  BY DEF StartMonitoring
<1>2. UNCHANGED <<native, crossed>> /\ "StartMonitoring" \in OpNames \ NwgHalves
  BY DEF StartMonitoring, tunnelVars, OpNames, NwgHalves
<1> QED BY <1>1, <1>2, RegisterKeeps

LEMMA StartIfKeeps ==
  ASSUME GhostInv, NEW c \in Callers, StartIf(c) PROVE GhostInv'
<1>1. PICK t \in Kernel, op \in {"StartIfRunning", "StartIfPresent"} :
         /\ At(c, op, t) /\ call' = Done(c, {t})
         /\ Register(c, t) \/ UNCHANGED <<monVars, fails, work, untold>>
  BY DEF StartIf
<1>2. UNCHANGED <<native, crossed>> /\ op \in OpNames \ NwgHalves
  BY DEF StartIf, tunnelVars, OpNames, NwgHalves
<1>3. CASE Register(c, t)
  BY <1>1, <1>2, <1>3, RegisterKeeps
<1>4. CASE UNCHANGED <<monVars, fails, work, untold>>
  BY <1>1, <1>2, <1>4, DoneKeeps DEF GhostInv, TypeOK, Alive, monVars
<1> QED BY <1>1, <1>3, <1>4

(* Monitors are taken out of the register into the hands of the caller. *)
LEMMA UnregisterKeeps ==
  ASSUME GhostInv, NEW c \in Callers, NEW r \in Call, call' = [call EXCEPT ![c] = r],
         NEW ts \in SUBSET Tunnels,
         reg' = [u \in Tunnels |-> IF u \in ts THEN NoMonitor ELSE reg[u]],
         UNCHANGED <<native, owner, crossed, work>>, Active(c),
         r.kind = call[c].kind, r.tuns = call[c].tuns, CallOK(c)',
         call[c].held = {}, call[c].taken = {}, call[c].fresh = NoMonitor,
         \A u \in ts : reg[u] # NoMonitor => reg[u] \in r.held \cup r.taken
  PROVE  GhostInv'
<1>1. TypeOK'
  BY DEF GhostInv, TypeOK, Reference
<1>2. call'[c] = r /\ \A d \in Callers \ {c} : call'[d] = call[d]
  BY DEF GhostInv, TypeOK
<1>3. \A d \in Callers : (Active(d)' <=> Active(d)) /\ call'[d].tuns = call[d].tuns
  BY <1>2 DEF Active
<1>4. Crossing' /\ RegisteredOwn'
  BY <1>3 DEF GhostInv, Crossing, RegisteredOwn
<1>5. NoGhost'
  <2> SUFFICES ASSUME NEW n \in Monitors, Alive(n)'
               PROVE  \/ reg'[owner'[n]] = n
                      \/ \E d \in Callers : n \in call'[d].held \cup call'[d].taken \cup {call'[d].fresh}
                      \/ owner'[n] \in native' /\ crossed'[owner'[n]]
    BY DEF NoGhost
  <2>1. Alive(n) /\ owner[n] \in Tunnels /\ n # NoMonitor
    BY PingAssumption DEF GhostInv, TypeOK, Alive
  <2>2. CASE reg[owner[n]] = n
    BY <1>2, <2>1, <2>2
  <2>3. CASE \E d \in Callers : n \in call[d].held \cup call[d].taken \cup {call[d].fresh}
    <3>1. PICK d \in Callers : n \in call[d].held \cup call[d].taken \cup {call[d].fresh}
      BY <2>3
    <3>2. d # c
      BY <2>1, <3>1
    <3> QED BY <1>2, <3>1, <3>2
  <2>4. CASE owner[n] \in native /\ crossed[owner[n]]
    BY <2>4
  <2> QED BY <2>1, <2>2, <2>3, <2>4 DEF GhostInv, NoGhost
<1>6. \A d \in Callers \ {c} : CallOK(d)'
  <2> SUFFICES ASSUME NEW d \in Callers \ {c} PROVE CallOK(d)'
    OBVIOUS
  <2>1. \A u \in native \cap call[d].tuns : reg[u] = NoMonitor => reg'[u] = NoMonitor
    BY DEF GhostInv, TypeOK
  <2> QED BY <1>2, <2>1, OtherCallers DEF GhostInv
<1> QED BY <1>1, <1>4, <1>5, <1>6 DEF GhostInv

LEMMA StopKernelKeeps ==
  ASSUME GhostInv, NEW c \in Callers, StopMonitoring(c) PROVE GhostInv'
<1> DEFINE ts == Head(call[c].todo).on
           ms == {reg[u] : u \in ts} \ {NoMonitor}
           r == [call[c] EXCEPT !.todo = Rest(c, ts), !.held = ms]
<1>1. PICK t \in Kernel : /\ At(c, "StopMonitoring", t)
                          /\ reg' = [u \in Tunnels |-> IF u \in ts THEN NoMonitor ELSE reg[u]]
                          /\ call' = [Done(c, ts) EXCEPT ![c].held = ms]
  BY DEF StopMonitoring
<1>2. UNCHANGED <<native, owner, crossed, work>>
  BY DEF StopMonitoring, tunnelVars, history
<1>3. "StopMonitoring" \in OpNames \ NwgHalves
  BY DEF OpNames, NwgHalves
<1>4. /\ Rest(c, ts) \in Seq(Operation) /\ Plain(Rest(c, ts), call[c].tuns)
      /\ Head(call[c].todo) \in Operation
      /\ call[c].fresh = NoMonitor /\ call[c].held = {} /\ call[c].taken = {} /\ Active(c)
  BY <1>1, <1>3, AtPlain DEF GhostInv
<1>5. ts \in SUBSET Tunnels /\ ms \in SUBSET Monitors
  BY <1>4 DEF Operation, GhostInv, TypeOK, Reference
<1>6. call[c] \in Call /\ call' = [call EXCEPT ![c] = r]
  BY <1>1 DEF GhostInv, TypeOK, Done
<1>7. /\ r \in Call /\ r.kind = call[c].kind /\ r.tuns = call[c].tuns /\ r.held = ms
      /\ r.fresh = call[c].fresh /\ r.todo = Rest(c, ts)
  BY <1>4, <1>5, <1>6 DEF Call
<1>8. call'[c] = r
  BY <1>6 DEF GhostInv, TypeOK
<1>9. \A u \in ts : reg[u] # NoMonitor => reg[u] \in ms
  OBVIOUS
<1> HIDE DEF r, ms, ts
<1>10. CallOK(c)'
  BY <1>4, <1>7, <1>8 DEF CallOK, Plain, Active
<1> QED BY <1>1, <1>2, <1>4, <1>5, <1>6, <1>7, <1>9, <1>10, UnregisterKeeps

LEMMA StopNwgKeeps ==
  ASSUME GhostInv, NEW c \in Callers, stopNwgMonitor(c) PROVE GhostInv'
<1> DEFINE ts == Head(call[c].todo).on
           ms == {reg[u] : u \in ts} \ {NoMonitor}
           r == [call[c] EXCEPT !.todo = Rest(c, ts), !.taken = ms]
<1>1. PICK t \in native : /\ At(c, "StopMonitoring", t)
                          /\ reg' = [u \in Tunnels |-> IF u \in ts THEN NoMonitor ELSE reg[u]]
                          /\ call' = [Done(c, ts) EXCEPT ![c].taken = ms]
  BY DEF stopNwgMonitor
<1>2. UNCHANGED <<native, owner, crossed, work>>
  BY DEF stopNwgMonitor, tunnelVars, history
<1>3. "StopMonitoring" \in OpNames \ NwgHalves
  BY DEF OpNames, NwgHalves
<1>4. /\ Rest(c, ts) \in Seq(Operation) /\ Plain(Rest(c, ts), call[c].tuns)
      /\ Head(call[c].todo) \in Operation
      /\ call[c].fresh = NoMonitor /\ call[c].held = {} /\ call[c].taken = {} /\ Active(c)
  BY <1>1, <1>3, AtPlain DEF GhostInv
<1>5. ts \in SUBSET Tunnels /\ ms \in SUBSET Monitors
  BY <1>4 DEF Operation, GhostInv, TypeOK, Reference
<1>6. call[c] \in Call /\ call' = [call EXCEPT ![c] = r]
  BY <1>1 DEF GhostInv, TypeOK, Done
<1>7. /\ r \in Call /\ r.kind = call[c].kind /\ r.tuns = call[c].tuns /\ r.taken = ms
      /\ r.fresh = call[c].fresh /\ r.todo = Rest(c, ts)
  BY <1>4, <1>5, <1>6 DEF Call
<1>8. call'[c] = r
  BY <1>6 DEF GhostInv, TypeOK
<1>9. \A u \in ts : reg[u] # NoMonitor => reg[u] \in ms
  OBVIOUS
<1> HIDE DEF r, ms, ts
<1>10. CallOK(c)'
  BY <1>4, <1>7, <1>8 DEF CallOK, Plain, Active
<1> QED BY <1>1, <1>2, <1>4, <1>5, <1>6, <1>7, <1>9, <1>10, UnregisterKeeps

LEMMA StartNwgKeeps ==
  ASSUME GhostInv, NEW c \in Callers, startNwgMonitor(c) PROVE GhostInv'
<1>1. PICK t \in native :
         /\ At(c, "StartMonitoring", t)
         /\ IF pingOn[t]
            THEN /\ reg' = [reg EXCEPT ![t] = NoMonitor]
                 /\ call' = [call EXCEPT ![c].todo = Op("RunNwg", {t}) \o Op("RegisterNwg", {t})
                                                        \o Rest(c, {t}),
                                         ![c].taken = {reg[t]} \ {NoMonitor}]
            ELSE call' = Done(c, {t}) /\ UNCHANGED reg
  BY DEF startNwgMonitor
<1>2. UNCHANGED <<native, owner, crossed, work>>
  BY DEF startNwgMonitor, tunnelVars, history
<1>3. "StartMonitoring" \in OpNames \ NwgHalves
  BY DEF OpNames, NwgHalves
<1>4. CASE ~pingOn[t]
  BY <1>1, <1>2, <1>3, <1>4, DoneKeeps DEF GhostInv, TypeOK, Alive
<1>5. CASE pingOn[t]
  <2> DEFINE rest == Op("RegisterNwg", {t}) \o Rest(c, {t})
             all == Op("RunNwg", {t}) \o Op("RegisterNwg", {t}) \o Rest(c, {t})
             ms == {reg[t]} \ {NoMonitor}
             r == [call[c] EXCEPT !.todo = all, !.taken = ms]
  <2>1. /\ Rest(c, {t}) \in Seq(Operation) /\ Plain(Rest(c, {t}), call[c].tuns)
        /\ call[c].fresh = NoMonitor /\ call[c].held = {} /\ call[c].taken = {} /\ Active(c)
        /\ t \in Tunnels /\ t \in call[c].tuns
    BY <1>1, <1>3, AtPlain DEF GhostInv, At
  <2>2. "RunNwg" \in OpNames /\ "RegisterNwg" \in OpNames /\ {t} \in SUBSET Tunnels
    BY <2>1 DEF OpNames
  <2>3. /\ rest \in Seq(Operation) /\ rest # <<>> /\ Tail(rest) = Rest(c, {t})
        /\ Head(rest) = [op |-> "RegisterNwg", on |-> {t}]
        /\ Op("RegisterNwg", {t}) \in Seq(Operation)
    BY <2>1, <2>2, InFront
  <2>4. Op("RunNwg", {t}) \in Seq(Operation)
    BY <2>1, <2>2, InFront
  <2>5. all = Op("RunNwg", {t}) \o rest
    <3> DEFINE A == Op("RunNwg", {t})
               B == Op("RegisterNwg", {t})
               C == Rest(c, {t})
    <3>1. A \in Seq(Operation) /\ B \in Seq(Operation) /\ C \in Seq(Operation)
      BY <2>1, <2>3, <2>4
    <3> HIDE DEF A, B, C
    <3>2. (A \o B) \o C = A \o (B \o C)
      BY <3>1, ConcatAssociative
    <3> QED BY <3>2 DEF A, B, C
  <2>6. /\ all \in Seq(Operation) /\ all # <<>> /\ Tail(all) = rest
        /\ Head(all) = [op |-> "RunNwg", on |-> {t}]
    <3> HIDE DEF rest
    <3> QED BY <2>2, <2>3, <2>5, InFront
  <2>7. ms \in SUBSET Monitors /\ call[c] \in Call
    BY <2>1 DEF GhostInv, TypeOK, Reference
  <2>8. call' = [call EXCEPT ![c] = r]
    BY <1>1, <1>5, <2>1 DEF GhostInv, TypeOK
  <2> HIDE DEF all, rest, ms
  <2>9. /\ r \in Call /\ r.kind = call[c].kind /\ r.tuns = call[c].tuns /\ r.taken = ms
        /\ r.fresh = call[c].fresh /\ r.todo = all
    BY <2>6, <2>7 DEF Call
  <2>10. call'[c] = r
    BY <2>8 DEF GhostInv, TypeOK
  <2>11. reg' = [u \in Tunnels |-> IF u \in {t} THEN NoMonitor ELSE reg[u]]
    BY <1>1, <1>5 DEF GhostInv, TypeOK
  <2>12. \A u \in {t} : reg[u] # NoMonitor => reg[u] \in ms
    BY DEF ms
  <2> HIDE DEF r
  <2>13. CallOK(c)'
    <3>1. PICK s : s = all
      OBVIOUS
    <3>2. call'[c].todo = s /\ call'[c].fresh = NoMonitor /\ call'[c].tuns = call[c].tuns
      BY <2>1, <2>9, <2>10, <3>1
    <3>3. Registers(c, Tail(s), t)'
      BY <1>1, <1>2, <2>1, <2>3, <2>6, <2>11, <3>1, <3>2 DEF Registers, Plain
    <3>4. Active(c)'
      BY <2>1, <2>9, <2>10 DEF Active
    <3> QED BY <2>1, <2>6, <3>1, <3>2, <3>3, <3>4 DEF CallOK
  <2> QED BY <1>2, <2>1, <2>2, <2>8, <2>9, <2>11, <2>12, <2>13, UnregisterKeeps
<1> QED BY <1>4, <1>5

LEMMA RunNwgKeeps ==
  ASSUME GhostInv, NEW c \in Callers, RunNwg(c) PROVE GhostInv'
<1>0. PICK t \in native : \E m : /\ At(c, "RunNwg", t) /\ Spawn(m, t, "poll")
                                /\ call' = [Done(c, {t}) EXCEPT ![c].fresh = m]
  BY DEF RunNwg
<1>1. PICK m : /\ At(c, "RunNwg", t) /\ Spawn(m, t, "poll")
               /\ call' = [Done(c, {t}) EXCEPT ![c].fresh = m]
  BY <1>0
<1>2. UNCHANGED <<native, reg, crossed>>
  BY DEF RunNwg, tunnelVars
<1>3. t \in Tunnels
  BY DEF GhostInv, TypeOK
<1>4. /\ m \in Monitors /\ m # NoMonitor
      /\ work' \in [Workers -> Work] /\ owner' \in [Monitors -> Tunnels]
      /\ owner'[m] = t
      /\ \A n \in Monitors \ {m} : owner'[n] = owner[n] /\ (Alive(n)' <=> Alive(n))
      /\ \A u \in Tunnels : reg[u] # m
      /\ \A d \in Callers : m \notin call[d].held \cup call[d].taken \cup {call[d].fresh}
  BY <1>1, <1>3, Spawned DEF Places
<1>5. PICK s : s = call[c].todo
  OBVIOUS
<1>6. /\ s \in Seq(Operation) /\ call[c] \in Call /\ s # <<>> /\ Head(s).op = "RunNwg"
      /\ t \in Head(s).on /\ Active(c) /\ call[c].held = {} /\ call[c].taken = {}
  BY <1>1, <1>5 DEF GhostInv, TypeOK, At, Call
<1>7. call[c].fresh = NoMonitor /\ Head(s).on = {t} /\ Registers(c, Tail(s), t)
  <2>1. ~Plain(s, call[c].tuns)
    <3>1. Len(s) >= 1 /\ Head(s) = s[1]
      BY <1>6
    <3> QED BY <1>6, <3>1 DEF Plain, NwgHalves
  <2>2. \A u : ~Registers(c, s, u)
    <3>1. \A u : [op |-> "RegisterNwg", on |-> {u}].op # "RunNwg"
      OBVIOUS
    <3> QED BY <1>6, <3>1 DEF Registers
  <2>3. call[c].fresh = NoMonitor
    BY <1>5, <2>1, <2>2 DEF GhostInv, CallOK
  <2>4. PICK u \in Tunnels : Head(s) = [op |-> "RunNwg", on |-> {u}] /\ Registers(c, Tail(s), u)
    BY <1>5, <2>1, <2>2 DEF GhostInv, CallOK
  <2>5. Head(s).on = {u} /\ u = t
    BY <1>6, <2>4
  <2> QED BY <2>3, <2>4, <2>5
<1> DEFINE r == [call[c] EXCEPT !.todo = Tail(s), !.fresh = m]
<1>8. call' = [call EXCEPT ![c] = r]
  <2>1. Rest(c, {t}) = Tail(s)
    BY <1>5, <1>7 DEF Rest
  <2> QED BY <1>1, <2>1 DEF GhostInv, TypeOK, Done
<1>9. Tail(s) \in Seq(Operation)
  BY <1>6
<1>10. /\ r \in Call /\ r.kind = call[c].kind /\ r.tuns = call[c].tuns /\ r.held = {}
       /\ r.taken = {} /\ r.fresh = m /\ r.todo = Tail(s)
  BY <1>4, <1>6, <1>9 DEF Call, Reference
<1>11. call'[c] = r /\ \A d \in Callers \ {c} : call'[d] = call[d]
  BY <1>8 DEF GhostInv, TypeOK
<1> HIDE DEF r
<1>12. TypeOK'
  BY <1>2, <1>4, <1>8, <1>10 DEF GhostInv, TypeOK
<1>13. \A d \in Callers : (Active(d)' <=> Active(d)) /\ call'[d].tuns = call[d].tuns
  BY <1>10, <1>11 DEF Active
<1>14. Crossing'
  BY <1>2, <1>13 DEF GhostInv, Crossing
<1>15. RegisteredOwn'
  BY <1>2, <1>4 DEF GhostInv, RegisteredOwn, TypeOK, Reference
<1>16. NoGhost'
  <2> SUFFICES ASSUME NEW n \in Monitors, Alive(n)'
               PROVE  \/ reg'[owner'[n]] = n
                      \/ \E d \in Callers : n \in call'[d].held \cup call'[d].taken \cup {call'[d].fresh}
                      \/ owner'[n] \in native' /\ crossed'[owner'[n]]
    BY DEF NoGhost
  <2>1. CASE n = m
    BY <1>10, <1>11, <2>1
  <2>2. CASE n # m
    <3>1. Alive(n) /\ owner'[n] = owner[n] /\ n # NoMonitor
      BY <1>4, <2>2, PingAssumption
    <3>2. \A d \in Callers : n \in call[d].held \cup call[d].taken \cup {call[d].fresh}
             => n \in call'[d].held \cup call'[d].taken \cup {call'[d].fresh}
      BY <1>6, <1>7, <1>11, <3>1
    <3> QED BY <1>2, <3>1, <3>2 DEF GhostInv, NoGhost
  <2> QED BY <2>1, <2>2
<1>17. \A d \in Callers \ {c} : CallOK(d)'
  <2> SUFFICES ASSUME NEW d \in Callers \ {c} PROVE CallOK(d)'
    OBVIOUS
  <2>1. call[d].fresh \in Monitors => owner'[call[d].fresh] = owner[call[d].fresh]
    BY <1>4
  <2> QED BY <1>2, <1>11, <2>1, OtherCallers DEF GhostInv
<1>18. CallOK(c)'
  <2>1. Registers(c, Tail(s), t)'
    BY <1>2, <1>7, <1>13 DEF Registers, Plain
  <2>2. /\ Active(c)' /\ call'[c].todo = Tail(s) /\ call'[c].fresh = m
        /\ call'[c].fresh \in Monitors /\ owner'[call'[c].fresh] = t
    BY <1>4, <1>6, <1>10, <1>11, <1>13
  <2> QED BY <2>1, <2>2 DEF CallOK
<1> QED BY <1>12, <1>14, <1>15, <1>16, <1>17, <1>18 DEF GhostInv

(* The new monitor takes the entry; one that is there already belongs to a *)
(* call that crossed this one.                                             *)
LEMMA RegisterNwgKeeps ==
  ASSUME GhostInv, NEW c \in Callers, RegisterNwg(c) PROVE GhostInv'
<1>1. PICK t \in native : /\ At(c, "RegisterNwg", t)
                          /\ reg' = [reg EXCEPT ![t] = call[c].fresh]
                          /\ call' = [Done(c, {t}) EXCEPT ![c].fresh = NoMonitor]
  BY DEF RegisterNwg
<1>2. UNCHANGED <<native, owner, crossed, work>>
  BY DEF RegisterNwg, tunnelVars, history
<1>3. t \in Tunnels
  BY DEF GhostInv, TypeOK
<1>4. PICK s, m : s = call[c].todo /\ m = call[c].fresh
  OBVIOUS
<1>5. /\ s \in Seq(Operation) /\ call[c] \in Call /\ s # <<>> /\ Head(s).op = "RegisterNwg"
      /\ t \in Head(s).on /\ Active(c) /\ call[c].held = {} /\ call[c].taken = {}
  BY <1>1, <1>4 DEF GhostInv, TypeOK, At, Call
<1>6. /\ m \in Monitors /\ owner[m] = t /\ Head(s).on = {t} /\ t \in call[c].tuns
      /\ Plain(Tail(s), call[c].tuns) /\ (reg[t] = NoMonitor \/ crossed[t])
  <2>1. ~Plain(s, call[c].tuns)
    <3>1. Len(s) >= 1 /\ Head(s) = s[1]
      BY <1>5
    <3> QED BY <1>5, <3>1 DEF Plain, NwgHalves
  <2>2. \A u : Head(s) # [op |-> "RunNwg", on |-> {u}]
    <3>1. \A u : [op |-> "RunNwg", on |-> {u}].op # "RegisterNwg"
      OBVIOUS
    <3> QED BY <1>5, <3>1
  <2>3. m \in Monitors /\ Registers(c, s, owner[m])
    BY <1>4, <2>1, <2>2 DEF GhostInv, CallOK
  <2>4. Head(s).on = {owner[m]} /\ owner[m] = t
    BY <1>5, <2>3 DEF Registers
  <2> QED BY <2>3, <2>4 DEF Registers
<1> DEFINE r == [call[c] EXCEPT !.todo = Tail(s), !.fresh = NoMonitor]
<1>7. call' = [call EXCEPT ![c] = r]
  <2>1. Rest(c, {t}) = Tail(s)
    BY <1>4, <1>6 DEF Rest
  <2> QED BY <1>1, <2>1 DEF GhostInv, TypeOK, Done
<1>8. Tail(s) \in Seq(Operation)
  BY <1>5
<1>9. /\ r \in Call /\ r.kind = call[c].kind /\ r.tuns = call[c].tuns /\ r.held = {}
      /\ r.taken = {} /\ r.fresh = NoMonitor /\ r.todo = Tail(s)
  BY <1>5, <1>8 DEF Call, Reference
<1>10. call'[c] = r /\ \A d \in Callers \ {c} : call'[d] = call[d]
  BY <1>7 DEF GhostInv, TypeOK
<1> HIDE DEF r
<1>11. reg'[t] = m /\ \A u \in Tunnels \ {t} : reg'[u] = reg[u]
  BY <1>1, <1>3, <1>4 DEF GhostInv, TypeOK
<1>12. TypeOK'
  <2>1. reg' \in [Tunnels -> Reference]
    BY <1>1, <1>3, <1>4, <1>6 DEF GhostInv, TypeOK, Reference
  <2>2. call' \in [Callers -> Call]
    BY <1>7, <1>9 DEF GhostInv, TypeOK
  <2> QED BY <1>2, <2>1, <2>2 DEF GhostInv, TypeOK
<1>13. \A d \in Callers : (Active(d)' <=> Active(d)) /\ call'[d].tuns = call[d].tuns
  BY <1>9, <1>10 DEF Active
<1>14. Crossing'
  BY <1>2, <1>13 DEF GhostInv, Crossing
<1>15. RegisteredOwn'
  BY <1>2, <1>6, <1>11 DEF GhostInv, RegisteredOwn
<1>16. NoGhost'
  <2> SUFFICES ASSUME NEW n \in Monitors, Alive(n)'
               PROVE  \/ reg'[owner'[n]] = n
                      \/ \E d \in Callers : n \in call'[d].held \cup call'[d].taken \cup {call'[d].fresh}
                      \/ owner'[n] \in native' /\ crossed'[owner'[n]]
    BY DEF NoGhost
  <2>1. Alive(n) /\ owner'[n] = owner[n] /\ n # NoMonitor /\ owner[n] \in Tunnels
    BY <1>2, PingAssumption DEF Alive, GhostInv, TypeOK
  <2>2. CASE n = m
    BY <1>2, <1>6, <1>11, <2>2
  <2>3. CASE n # m /\ reg[owner[n]] = n
    <3>1. CASE owner[n] = t
      BY <1>1, <1>2, <1>6, <2>1, <2>3, <3>1
    <3>2. CASE owner[n] # t
      BY <1>11, <2>1, <2>3, <3>2
    <3> QED BY <3>1, <3>2
  <2>4. CASE n # m /\ \E d \in Callers : n \in call[d].held \cup call[d].taken \cup {call[d].fresh}
    <3>1. PICK d \in Callers : n \in call[d].held \cup call[d].taken \cup {call[d].fresh}
      BY <2>4
    <3>2. d # c
      BY <1>4, <1>5, <2>4, <3>1
    <3> QED BY <1>10, <3>1, <3>2
  <2>5. CASE owner[n] \in native /\ crossed[owner[n]]
    BY <1>2, <2>5
  <2> QED BY <2>1, <2>2, <2>3, <2>4, <2>5 DEF GhostInv, NoGhost
<1>17. \A d \in Callers \ {c} : CallOK(d)'
  <2> SUFFICES ASSUME NEW d \in Callers \ {c} PROVE CallOK(d)'
    OBVIOUS
  <2>1. \A u \in native \cap call[d].tuns :
           Active(d) /\ reg[u] = NoMonitor => reg'[u] = NoMonitor \/ crossed'[u]
    BY <1>2, <1>5, <1>6, <1>11 DEF GhostInv, TypeOK, Crossing
  <2> QED BY <1>2, <1>10, <2>1, OtherCallers DEF GhostInv
<1>18. CallOK(c)'
  BY <1>5, <1>6, <1>9, <1>10, <1>13 DEF CallOK, Plain
<1> QED BY <1>12, <1>14, <1>15, <1>16, <1>17, <1>18 DEF GhostInv

------------------------------------------------------------------------------
LEMMA GhostInvInitially == Init => GhostInv
<1> SUFFICES ASSUME Init PROVE GhostInv
  OBVIOUS
<1>1. /\ NoCall \in Call /\ NoCall.kind = "none" /\ NoCall.todo = <<>> /\ NoCall.fresh = NoMonitor
      /\ NoWork \in Work /\ NoWork.pc = "gone"
  BY DEF NoCall, Call, Reference, NoWork, Work, Places
<1>2. (CHOOSE t \in Tunnels : TRUE) \in Tunnels
  BY PingAssumption
<1>3. TypeOK
  BY <1>1, <1>2 DEF Init, TypeOK, Reference
<1>4. \A c \in Callers : call[c] = NoCall /\ ~Active(c)
  BY <1>1 DEF Init, Active
<1>5. \A c \in Callers : CallOK(c)
  BY <1>1, <1>4, EmptyIsPlain DEF CallOK
<1>6. Crossing /\ RegisteredOwn
  BY <1>4 DEF Crossing, RegisteredOwn, Init
<1>7. NoGhost
  BY <1>1 DEF Init, NoGhost, Alive, Workers
<1> QED BY <1>3, <1>5, <1>6, <1>7 DEF GhostInv

LEMMA GhostInvStep == GhostInv /\ [Next]_vars => GhostInv'
<1> SUFFICES ASSUME GhostInv, [Next]_vars PROVE GhostInv'
  OBVIOUS
<1>1. ASSUME NEW w \in Workers, TickStep(w) \/ (w \in Monitors /\ MonitorStep(w)) PROVE GhostInv'
  <2>1. TypeOK
    BY DEF GhostInv
  <2> QED BY <1>1, <2>1, WorkerStep, QuietKeeps
<1>2. ASSUME NEW c \in Callers, CallStep(c) PROVE GhostInv'
  <2>1. CASE c \in Requests /\ TickStep(c)
    BY <1>1, <2>1 DEF Workers
  <2> QED
    BY <1>2, <2>1, StartKeeps, StopKeeps, TellKeeps, SaveKeeps, RefreshKeeps, StartKernelKeeps,
       StartIfKeeps, StopKernelKeeps, StartNwgKeeps, RunNwgKeeps, RegisterNwgKeeps, StopNwgKeeps,
       StopTakenKeeps, WaitedKeeps, CheckAllNowKeeps, SkipKeeps, ReturnKeeps, LockKeeps
    DEF CallStep
<1>3. CASE \E m \in Monitors : MonitorStep(m)
  BY <1>1, <1>3 DEF Workers
<1>4. CASE \E h \in Handlers : Event(h)
  BY <1>4, EventKeeps
<1>5. CASE \E r \in Requests : Request(r)
  BY <1>5, RequestKeeps
<1>6. CASE UNCHANGED vars
  <2>1. UNCHANGED <<native, reg, owner, call, crossed, work>>
    BY <1>6 DEF vars, tunnelVars, monVars, history
  <2> QED BY <2>1, QuietKeeps DEF GhostInv, TypeOK, Alive
<1> QED BY <1>2, <1>3, <1>4, <1>5, <1>6 DEF Next

(* No monitor goroutine is orphaned (Service.StopMonitoring,               *)
(* Facade.startNwgMonitor): one that runs is registered, or a caller that  *)
(* took it out waits for it; only calls about a nativewg tunnel that       *)
(* overlap may lose one.                                                   *)
THEOREM NoMonitorOrphaned == Spec => []NoGhost
<1>1. GhostInv => NoGhost
  BY DEF GhostInv
<1> QED BY <1>1, GhostInvInitially, GhostInvStep, PTL DEF Spec

------------------------------------------------------------------------------
(* The link of a stopped tunnel.  What the orchestrator's handlers have    *)
(* left to do about a kernel tunnel is the end of one of their plans, and  *)
(* as long as its calls take turns and the orchestrator knows of its       *)
(* monitor, the plan was made for the monitor that is there.               *)

First(s, n, t) == s # <<>> /\ Head(s) = [op |-> n, on |-> {t}]

Tells(s, t) == First(s, "Told", t) /\ Tail(s) = <<>>
Watches(s, t) == First(s, "StartMonitoring", t) /\ Tells(Tail(s), t)
Starts(s, t) == First(s, "Start", t) /\ (Tail(s) = <<>> \/ Watches(Tail(s), t))
Stops(s, t) == First(s, "Stop", t) /\ (Tail(s) = <<>> \/ Starts(Tail(s), t))
Untells(s, t) == First(s, "Untold", t) /\ Stops(Tail(s), t)
Unwatches(s, t) == First(s, "StopMonitoring", t) /\ Untells(Tail(s), t)

PlanEnd(s, t) ==
  \/ s = <<>> \/ Tells(s, t) \/ Watches(s, t) \/ Starts(s, t)
  \/ Stops(s, t) \/ Untells(s, t) \/ Unwatches(s, t)

Quiet(t) == t \in Kernel /\ ~crossed[t] /\ ~untold[t]

TellsNext(h, t) == Active(h) /\ t \in call[h].tuns /\ Tells(call[h].todo, t)

HandlerOK(h) ==
  LET s == call[h].todo IN
  Active(h) => \A t \in Kernel \cap call[h].tuns :
    /\ call[h].tuns = {t} /\ PlanEnd(s, t)
    /\ Quiet(t) => /\ Watches(s, t) => running[t]
                   /\ Untells(s, t) \/ Stops(s, t) => reg[t] = NoMonitor

LifecycleOps == {"Start", "Stop", "Told", "Untold"}

(* A request neither starts nor stops a tunnel. *)
Asks(s) == \A i \in 1 .. Len(s) : s[i].op \notin LifecycleOps

(* The orchestrator knows of a monitor, or is about to be told. *)
Known ==
  \A t \in Tunnels : Quiet(t) /\ reg[t] # NoMonitor => flag[t] \/ \E h \in Handlers : TellsNext(h, t)

Toggles(w, t) == work[w].pc # "gone" /\ owner[work[w].on] = t

(* A link that is up, or that somebody may bring up, is a running tunnel's. *)
UpWhileRunning ==
  \A t \in Tunnels : Quiet(t) /\ (link[t] \/ reg[t] # NoMonitor \/ \E w \in Workers : Toggles(w, t))
    => running[t]

(* A loop is its own monitor's; a tick in a request is about its tunnels. *)
WorkOK(w) ==
  work[w].pc # "gone" =>
    /\ work[w].on \in Monitors
    /\ w \in Monitors => work[w].on = w
    /\ w \in Requests => Active(w) /\ owner[work[w].on] \in call[w].tuns

(* Whoever holds a monitor was called about its tunnel. *)
HeldOwn ==
  \A c \in Callers : \A m \in call[c].held \cup call[c].taken : owner[m] \in call[c].tuns

DownInv ==
  /\ running \in [Tunnels -> BOOLEAN] /\ link \in [Tunnels -> BOOLEAN]
  /\ flag \in [Tunnels -> BOOLEAN] /\ untold \in [Tunnels -> BOOLEAN]
  /\ Known /\ UpWhileRunning /\ HeldOwn
  /\ \A w \in Workers : WorkOK(w)
  /\ \A h \in Handlers : HandlerOK(h)
  /\ \A r \in Requests : Asks(call[r].todo)

(* The operation a handler is at tells what it has left. *)
LEMMA EndsOfPlans ==
  ASSUME NEW t, NEW s, PlanEnd(s, t), s # <<>>
  PROVE  /\ PlanEnd(Tail(s), t) /\ Head(s).on = {t}
         /\ Head(s).op \in LifecycleOps \cup {"StartMonitoring", "StopMonitoring"}
         /\ Head(s).op = "Told" => Tells(s, t)
         /\ Head(s).op = "StartMonitoring" => Watches(s, t)
         /\ Head(s).op = "Start" => Starts(s, t)
         /\ Head(s).op = "Stop" => Stops(s, t)
         /\ Head(s).op = "Untold" => Untells(s, t)
         /\ Head(s).op = "StopMonitoring" => Unwatches(s, t)
<1>1. ASSUME NEW n, First(s, n, t) PROVE Head(s).on = {t} /\ Head(s).op = n
  BY <1>1 DEF First
<1>2. CASE Tells(s, t)
  BY <1>1, <1>2 DEF Tells, PlanEnd, LifecycleOps
<1>3. CASE Watches(s, t)
  BY <1>1, <1>3 DEF Watches, PlanEnd, LifecycleOps
<1>4. CASE Starts(s, t)
  BY <1>1, <1>4 DEF Starts, PlanEnd, LifecycleOps
<1>5. CASE Stops(s, t)
  BY <1>1, <1>5 DEF Stops, PlanEnd, LifecycleOps
<1>6. CASE Untells(s, t)
  BY <1>1, <1>6 DEF Untells, PlanEnd, LifecycleOps
<1>7. CASE Unwatches(s, t)
  BY <1>1, <1>7 DEF Unwatches, PlanEnd, LifecycleOps
<1> QED BY <1>2, <1>3, <1>4, <1>5, <1>6, <1>7 DEF PlanEnd

(* A list that begins with one operation does not begin with another. *)
LEMMA OneFirst ==
  ASSUME NEW t, NEW s
  PROVE  /\ ~Watches(<<>>, t) /\ ~Untells(<<>>, t) /\ ~Stops(<<>>, t) /\ ~Tells(<<>>, t)
         /\ Tells(s, t) => ~Watches(s, t) /\ ~Untells(s, t) /\ ~Stops(s, t)
         /\ Watches(s, t) => ~Untells(s, t) /\ ~Stops(s, t)
         /\ Starts(s, t) => ~Tells(s, t) /\ ~Watches(s, t) /\ ~Untells(s, t) /\ ~Stops(s, t)
         /\ Stops(s, t) \/ Untells(s, t) => ~Tells(s, t) /\ ~Watches(s, t)
<1>1. ~First(<<>>, "Told", t) /\ ~First(<<>>, "StartMonitoring", t)
      /\ ~First(<<>>, "Untold", t) /\ ~First(<<>>, "Stop", t)
  BY DEF First
<1>2. ASSUME NEW n, NEW m, First(s, n, t), First(s, m, t) PROVE n = m
  BY <1>2 DEF First
<1> QED BY <1>1, <1>2 DEF Tells, Watches, Starts, Stops, Untells

(* A handler at an operation about a kernel tunnel is in a plan for it. *)
LEMMA HandlerAt ==
  ASSUME GhostInv, NEW h \in Handlers, HandlerOK(h), NEW op \in OpNames \ NwgHalves,
         NEW t \in Kernel, At(h, op, t)
  PROVE  /\ Active(h) /\ call[h].tuns = {t} /\ PlanEnd(call[h].todo, t) /\ call[h].todo # <<>>
         /\ Head(call[h].todo).op = op /\ Head(call[h].todo).on = {t}
         /\ \A ts : t \in ts => Rest(h, ts) = Tail(call[h].todo)
         /\ op \in LifecycleOps \cup {"StartMonitoring", "StopMonitoring"}
<1>1. Active(h) /\ t \in call[h].tuns /\ Head(call[h].todo).op = op /\ call[h].todo # <<>>
  BY AtPlain DEF GhostInv, At, Callers
<1>2. PlanEnd(call[h].todo, t) /\ call[h].tuns = {t}
  BY <1>1 DEF HandlerOK
<1>3. Head(call[h].todo).on = {t} /\ op \in LifecycleOps \cup {"StartMonitoring", "StopMonitoring"}
  BY <1>1, <1>2, EndsOfPlans
<1> QED BY <1>1, <1>2, <1>3 DEF Rest

LEMMA HandlerNext ==
  ASSUME NEW h,
         \A u \in Kernel' : u \in call'[h].tuns =>
            /\ call'[h].tuns = {u} /\ PlanEnd(call'[h].todo, u)
            /\ Quiet(u)' => /\ Watches(call'[h].todo, u) => running'[u]
                            /\ Untells(call'[h].todo, u) \/ Stops(call'[h].todo, u)
                                  => reg'[u] = NoMonitor
  PROVE  HandlerOK(h)'
BY DEF HandlerOK, PlanEnd, Watches, Untells, Stops, Tells, Starts, Unwatches, First

(* A handler that does not move is still in its plan. *)
LEMMA HandlerStays ==
  ASSUME NEW h \in Handlers, HandlerOK(h), native' = native, Active(h)' => Active(h),
         call'[h].tuns = call[h].tuns, call'[h].todo = call[h].todo,
         \A t \in Kernel \cap call[h].tuns : Active(h) /\ Quiet(t)' =>
            Quiet(t) /\ (running[t] => running'[t]) /\ (reg[t] = NoMonitor => reg'[t] = NoMonitor)
  PROVE  HandlerOK(h)'
<1> SUFFICES ASSUME Active(h)', NEW t \in Kernel', t \in call'[h].tuns
             PROVE  /\ call'[h].tuns = {t} /\ PlanEnd(call'[h].todo, t)
                    /\ Quiet(t)' => /\ Watches(call'[h].todo, t) => running'[t]
                                    /\ Untells(call'[h].todo, t) \/ Stops(call'[h].todo, t)
                                          => reg'[t] = NoMonitor
  BY DEF HandlerOK, PlanEnd, Watches, Untells, Stops, Tells, Starts, Unwatches, First
<1>1. t \in Kernel \cap call[h].tuns /\ Active(h)
  BY DEF Kernel
<1> QED BY <1>1 DEF HandlerOK

LEMMA AsksRest ==
  ASSUME NEW s \in Seq(Operation), Asks(s), s # <<>>
  PROVE  /\ Asks(Tail(s)) /\ Head(s).op \notin LifecycleOps
         /\ \A on \in SUBSET Tunnels : Asks(Op(Head(s).op, on) \o Tail(s))
<1>1. Len(s) >= 1 /\ Head(s) = s[1]
  OBVIOUS
<1>2. Len(Tail(s)) = Len(s) - 1 /\ \A i \in 1 .. Len(Tail(s)) : Tail(s)[i] = s[i + 1]
  OBVIOUS
<1>3. Asks(Tail(s)) /\ Head(s).op \notin LifecycleOps
  BY <1>1, <1>2 DEF Asks
<1>4. ASSUME NEW on \in SUBSET Tunnels PROVE Asks(Op(Head(s).op, on) \o Tail(s))
  <2> DEFINE o == [op |-> Head(s).op, on |-> on]
  <2>1. o \in Operation /\ Tail(s) \in Seq(Operation) /\ o.op = Head(s).op
    <3>1. Head(s) \in Operation /\ Tail(s) \in Seq(Operation)
      OBVIOUS
    <3> QED BY <3>1 DEF Operation
  <2> HIDE DEF o
  <2>2. /\ Len(<<o>> \o Tail(s)) = 1 + Len(Tail(s)) /\ (<<o>> \o Tail(s))[1] = o
        /\ \A i \in 1 .. Len(Tail(s)) : (<<o>> \o Tail(s))[i + 1] = Tail(s)[i]
    BY <2>1
  <2>3. \A i \in 1 .. 1 + Len(Tail(s)) : i = 1 \/ i - 1 \in 1 .. Len(Tail(s))
    BY <2>1
  <2>4. Op(Head(s).op, on) = <<o>>
    BY DEF Op, o
  <2>5. \A i \in 1 .. 1 + Len(Tail(s)) : (<<o>> \o Tail(s))[i].op \notin LifecycleOps
    <3> SUFFICES ASSUME NEW i \in 1 .. 1 + Len(Tail(s))
                 PROVE  (<<o>> \o Tail(s))[i].op \notin LifecycleOps
      OBVIOUS
    <3>1. CASE i = 1
      BY <1>3, <2>1, <2>2, <3>1
    <3>2. CASE i - 1 \in 1 .. Len(Tail(s))
      <4>1. (<<o>> \o Tail(s))[(i - 1) + 1] = Tail(s)[i - 1]
        BY <2>2, <3>2
      <4>2. (i - 1) + 1 = i
        OBVIOUS
      <4> QED BY <1>3, <3>2, <4>1, <4>2 DEF Asks
    <3> QED BY <2>3, <3>1, <3>2
  <2> QED BY <2>2, <2>4, <2>5 DEF Asks
<1> QED BY <1>3, <1>4

(* What a request has left asks for no start or stop either. *)
LEMMA RequestRest ==
  ASSUME GhostInv, NEW r \in Requests, Asks(call[r].todo), call[r].todo # <<>>, NEW ts
  PROVE  Asks(Rest(r, ts)) /\ Asks(Tail(call[r].todo)) /\ Head(call[r].todo).op \notin LifecycleOps
<1>1. call[r].todo \in Seq(Operation)
  BY DEF GhostInv, TypeOK, Call, Callers
<1>2. Head(call[r].todo) \in Operation
  BY <1>1
<1>3. Head(call[r].todo).on \ ts \in SUBSET Tunnels
  BY <1>2 DEF Operation
<1> QED BY <1>1, <1>3, AsksRest DEF Rest

(* A step of goroutines or callers that leaves the tunnels alone, and      *)
(* registers no monitor of a kernel tunnel.  c is the caller that moves.   *)
LEMMA KernelStays ==
  ASSUME GhostInv, DownInv, NEW c \in Callers, UNCHANGED <<native, running, link, flag>>,
         \A t \in Kernel : reg'[t] \in {reg[t], NoMonitor},
         \A t \in Tunnels : (crossed[t] => crossed'[t]) /\ (untold[t] => untold'[t]),
         untold' \in [Tunnels -> BOOLEAN],
         \A d \in Callers : \A m \in call[d].held \cup call[d].taken : owner'[m] = owner[m],
         \A d \in Callers \ {c} : call'[d] = call[d],
         \A w \in Workers, t \in Kernel : Toggles(w, t)' => reg[t] # NoMonitor \/ Toggles(w, t),
         \A w \in Workers : WorkOK(w)',
         c \in Handlers => HandlerOK(c)' /\ \A t \in Kernel : TellsNext(c, t) /\ reg'[t] # NoMonitor => TellsNext(c, t)',
         c \in Requests => Asks(call'[c].todo),
         \A m \in call'[c].held \cup call'[c].taken : owner'[m] \in call'[c].tuns
  PROVE  DownInv'
<1>1. \A t \in Tunnels : Quiet(t)' => Quiet(t)
  BY DEF Quiet, Kernel
<1>2. \A d \in Callers \ {c} : Active(d)' <=> Active(d)
  BY DEF Active
<1>3. Known'
  <2> SUFFICES ASSUME NEW t \in Tunnels, Quiet(t)', reg'[t] # NoMonitor
               PROVE  flag'[t] \/ \E h \in Handlers : TellsNext(h, t)'
    BY DEF Known
  <2>1. t \in Kernel /\ (flag[t] \/ \E h \in Handlers : TellsNext(h, t))
    <3>1. t \in Kernel /\ Quiet(t)
      BY <1>1 DEF Quiet
    <3> QED BY <3>1 DEF DownInv, Known
  <2>2. ASSUME NEW h \in Handlers, h # c, TellsNext(h, t) PROVE TellsNext(h, t)'
    BY <2>2, <1>2 DEF TellsNext, Tells, First, Callers
  <2> QED BY <2>1, <2>2
<1>4. UpWhileRunning'
  BY <1>1 DEF DownInv, UpWhileRunning, Quiet
<1>5. HeldOwn'
  BY DEF DownInv, HeldOwn
<1>6. \A h \in Handlers : HandlerOK(h)'
  <2> SUFFICES ASSUME NEW h \in Handlers, h # c PROVE HandlerOK(h)'
    OBVIOUS
  <2>1. \A t \in Kernel : t \in Tunnels
    BY DEF Kernel
  <2> QED BY <1>1, <1>2, <2>1, HandlerStays DEF DownInv, Callers
<1>7. \A r \in Requests : Asks(call'[r].todo)
  BY DEF DownInv, Callers
<1> QED BY <1>3, <1>4, <1>5, <1>6, <1>7 DEF DownInv, Asks

(* The same, when the register stays too. *)
LEMMA TunnelsStay ==
  ASSUME GhostInv, DownInv, NEW c \in Callers,
         UNCHANGED <<native, running, link, flag, reg, owner, untold>>,
         \A t \in Tunnels : crossed[t] => crossed'[t],
         \A d \in Callers \ {c} : call'[d] = call[d],
         \A w \in Workers, t \in Tunnels : Toggles(w, t)' => reg[t] # NoMonitor \/ Toggles(w, t),
         \A w \in Workers : WorkOK(w)',
         c \in Handlers => HandlerOK(c)' /\ \A t \in Kernel : TellsNext(c, t) => TellsNext(c, t)',
         c \in Requests => Asks(call'[c].todo),
         \A m \in call'[c].held \cup call'[c].taken : owner[m] \in call'[c].tuns
  PROVE  DownInv'
<1>1. \A t \in Kernel : t \in Tunnels /\ reg'[t] \in {reg[t], NoMonitor}
  BY DEF Kernel
<1>2. untold' \in [Tunnels -> BOOLEAN]
  BY DEF DownInv
<1> QED BY <1>1, <1>2, KernelStays

(* The loops and ticks are where they were. *)
LEMMA WorkStays ==
  ASSUME DownInv, UNCHANGED work,
         \A w \in Workers : work[w].pc # "gone" => owner'[work[w].on] = owner[work[w].on],
         \A r \in Requests : Active(r) => Active(r)' /\ call'[r].tuns = call[r].tuns
  PROVE  (\A w \in Workers : WorkOK(w)') /\ \A w \in Workers, t \in Tunnels : Toggles(w, t)' => Toggles(w, t)
BY DEF DownInv, WorkOK, Toggles

(* A kind of operation that no plan about a kernel tunnel has. *)
LEMMA OtherOperations ==
  ASSUME GhostInv, DownInv, NEW c \in Callers, NEW op \in OpNames \ NwgHalves,
         op \notin LifecycleOps \cup {"StartMonitoring", "StopMonitoring"}, NEW t \in Tunnels,
         At(c, op, t), call' = Done(c, {t}), UNCHANGED native
  PROVE  /\ Active(c)' /\ Active(c) /\ call'[c].tuns = call[c].tuns /\ call'[c].held = {} /\ call'[c].taken = {}
         /\ \A d \in Callers \ {c} : call'[d] = call[d]
         /\ c \in Requests => Asks(call'[c].todo)
         /\ c \in Handlers => HandlerOK(c)' /\ \A u \in Kernel : ~TellsNext(c, u)
<1>1. /\ call[c].fresh = NoMonitor /\ call[c].held = {} /\ call[c].taken = {} /\ Active(c)
      /\ Rest(c, {t}) \in Seq(Operation) /\ call[c].todo # <<>> /\ Head(call[c].todo).op = op
      /\ t \in call[c].tuns
  BY AtPlain DEF GhostInv, At
<1>2. call[c] \in Call /\ call' = [call EXCEPT ![c] = [call[c] EXCEPT !.todo = Rest(c, {t})]]
  BY DEF GhostInv, TypeOK, Done
<1>3. /\ call'[c].kind = call[c].kind /\ call'[c].tuns = call[c].tuns /\ call'[c].held = {}
      /\ call'[c].taken = {} /\ call'[c].todo = Rest(c, {t})
  BY <1>1, <1>2 DEF GhostInv, TypeOK, Call
<1>4. \A d \in Callers \ {c} : call'[d] = call[d]
  BY <1>2 DEF GhostInv, TypeOK
<1>5. Active(c)'
  BY <1>1, <1>3 DEF Active
<1>6. c \in Requests => Asks(call'[c].todo)
  BY <1>1, <1>3, RequestRest DEF DownInv
<1>7. c \in Handlers => Kernel \cap call[c].tuns = {}
  <2> SUFFICES ASSUME c \in Handlers, NEW u \in Kernel \cap call[c].tuns PROVE FALSE
    OBVIOUS
  <2>1. PlanEnd(call[c].todo, u)
    BY <1>1 DEF DownInv, HandlerOK
  <2> QED BY <1>1, <2>1, EndsOfPlans
<1>8. c \in Handlers => HandlerOK(c)'
  BY <1>3, <1>7 DEF HandlerOK, Kernel
<1> QED BY <1>1, <1>3, <1>4, <1>5, <1>6, <1>7, <1>8 DEF TellsNext

LEMMA SaveKeepsDown ==
  ASSUME GhostInv, DownInv, NEW c \in Callers, Save(c) \/ RefreshTunnelState(c) PROVE DownInv'
<1>1. PICK t \in Tunnels, op \in {"Save", "Refresh"} : At(c, op, t) /\ call' = Done(c, {t})
  BY DEF Save, RefreshTunnelState
<1>2. UNCHANGED <<native, running, link, flag, reg, owner, untold, work, crossed>>
  BY DEF Save, RefreshTunnelState, monVars, history
<1>3. op \in OpNames \ NwgHalves /\ op \notin LifecycleOps \cup {"StartMonitoring", "StopMonitoring"}
  BY DEF OpNames, NwgHalves, LifecycleOps
<1>4. /\ Active(c)' /\ call'[c].tuns = call[c].tuns /\ call'[c].held = {} /\ call'[c].taken = {}
      /\ \A d \in Callers \ {c} : call'[d] = call[d]
      /\ c \in Requests => Asks(call'[c].todo)
      /\ c \in Handlers => HandlerOK(c)' /\ \A u \in Kernel : ~TellsNext(c, u)
  BY <1>1, <1>2, <1>3, OtherOperations
<1>5. \A r \in Requests : Active(r) => Active(r)' /\ call'[r].tuns = call[r].tuns
  BY <1>4 DEF Active, Callers
<1>6. (\A w \in Workers : WorkOK(w)') /\ \A w \in Workers, u \in Tunnels : Toggles(w, u)' => Toggles(w, u)
  BY <1>2, <1>5, WorkStays
<1> QED BY <1>2, <1>4, <1>6, TunnelsStay

LEMMA CheckAllNowKeepsDown ==
  ASSUME GhostInv, DownInv, NEW c \in Callers, CheckAllNow(c) PROVE DownInv'
<1>1. PICK t \in Kernel : /\ At(c, "CheckNow", t) /\ call' = Done(c, {t})
                          /\ work' = IF reg[t] # NoMonitor /\ pingOn[t]
                                     THEN [work EXCEPT ![c] = [pc |-> "check", on |-> reg[t], sel |-> FALSE]]
                                     ELSE work
  BY DEF CheckAllNow
<1>2. UNCHANGED <<native, running, link, flag, reg, owner, untold, crossed>> /\ t \in Tunnels
  BY DEF CheckAllNow, tunnelVars, monVars, history, Kernel
<1>3. "CheckNow" \in OpNames \ NwgHalves
      /\ "CheckNow" \notin LifecycleOps \cup {"StartMonitoring", "StopMonitoring"}
  BY DEF OpNames, NwgHalves, LifecycleOps
<1>4. /\ Active(c)' /\ call'[c].tuns = call[c].tuns /\ call'[c].held = {} /\ call'[c].taken = {}
      /\ \A d \in Callers \ {c} : call'[d] = call[d]
      /\ c \in Requests => Asks(call'[c].todo)
      /\ c \in Handlers => HandlerOK(c)' /\ \A u \in Kernel : ~TellsNext(c, u)
  BY <1>1, <1>2, <1>3, OtherOperations
<1>5. t \in call[c].tuns
  BY <1>1, <1>3, AtPlain DEF GhostInv, At
<1>6. \A r \in Requests : Active(r) => Active(r)' /\ call'[r].tuns = call[r].tuns
  BY <1>4 DEF Active, Callers
<1>7. CASE work' = work
  <2>1. (\A w \in Workers : WorkOK(w)') /\ \A w \in Workers, u \in Tunnels : Toggles(w, u)' => Toggles(w, u)
    BY <1>2, <1>6, <1>7, WorkStays
  <2> QED BY <1>2, <1>4, <2>1, TunnelsStay
<1>8. CASE work' = [work EXCEPT ![c] = [pc |-> "check", on |-> reg[t], sel |-> FALSE]]
           /\ reg[t] # NoMonitor
  <2>1. reg[t] \in Monitors /\ owner[reg[t]] = t
    BY <1>2, <1>8 DEF GhostInv, TypeOK, Reference, RegisteredOwn
  <2>2. \A w \in Workers : work'[w] = work[w]
           \/ (w = c /\ work'[w].on = reg[t] /\ work'[w].pc = "check")
    BY <1>8 DEF GhostInv, TypeOK
  <2>3. \A w \in Workers : w = c => w \in Requests /\ w \notin Monitors
    BY PingAssumption DEF Workers, Callers
  <2>4. \A w \in Workers : WorkOK(w)'
    BY <1>2, <1>4, <1>5, <1>6, <2>1, <2>2, <2>3 DEF DownInv, WorkOK
  <2>5. \A w \in Workers, u \in Tunnels : Toggles(w, u)' => reg[u] # NoMonitor \/ Toggles(w, u)
    BY <1>2, <1>8, <2>1, <2>2 DEF Toggles
  <2> QED BY <1>2, <1>4, <2>4, <2>5, TunnelsStay
<1> QED BY <1>1, <1>7, <1>8

LEMMA SameCallKeepsDown ==
  ASSUME GhostInv, DownInv, NEW c \in Callers, lockTunnel(c) \/ Waited(c) \/ StopTaken(c) PROVE DownInv'
<1>1. UNCHANGED <<native, running, link, flag, reg, owner, untold, crossed, work>>
  BY DEF lockTunnel, Waited, StopTaken, tunnelVars, monVars, history
<1>2. call[c] \in Call
  BY DEF GhostInv, TypeOK
<1>3. /\ call'[c].kind = call[c].kind /\ call'[c].tuns = call[c].tuns /\ call'[c].todo = call[c].todo
      /\ call'[c].held \cup call'[c].taken \subseteq call[c].held \cup call[c].taken
      /\ \A d \in Callers \ {c} : call'[d] = call[d]
  <2>1. CASE lockTunnel(c)
    BY <1>2, <2>1 DEF lockTunnel, GhostInv, TypeOK, Call
  <2>2. CASE Waited(c)
    BY <1>2, <2>2 DEF Waited, GhostInv, TypeOK, Call
  <2>3. CASE StopTaken(c)
    <3>1. PICK m \in call[c].taken : call' = [call EXCEPT ![c].taken = @ \ {m}, ![c].held = {m}]
      BY <2>3 DEF StopTaken
    <3> QED BY <1>2, <3>1 DEF GhostInv, TypeOK, Call
  <2> QED BY <2>1, <2>2, <2>3
<1>4. \A d \in Callers : (Active(d)' <=> Active(d)) /\ call'[d].tuns = call[d].tuns
  BY <1>3 DEF Active
<1>5. (\A w \in Workers : WorkOK(w)') /\ \A w \in Workers, u \in Tunnels : Toggles(w, u)' => Toggles(w, u)
  BY <1>1, <1>4, WorkStays DEF Callers
<1>6. c \in Handlers => HandlerOK(c)'
  BY <1>1, <1>3, <1>4, HandlerStays DEF DownInv, Quiet, Kernel
<1>7. c \in Handlers => \A u \in Kernel : TellsNext(c, u) => TellsNext(c, u)'
  BY <1>3, <1>4 DEF TellsNext, Tells, First
<1>8. c \in Requests => Asks(call'[c].todo)
  BY <1>3 DEF DownInv
<1>9. \A m \in call'[c].held \cup call'[c].taken : owner[m] \in call'[c].tuns
  BY <1>3 DEF DownInv, HeldOwn
<1> QED BY <1>1, <1>3, <1>5, <1>6, <1>7, <1>8, <1>9, TunnelsStay

LEMMA SkipKeepsDown ==
  ASSUME GhostInv, DownInv, NEW c \in Callers, Skip(c) PROVE DownInv'
<1>1. UNCHANGED <<native, running, link, flag, reg, owner, untold, crossed, work>>
  BY DEF Skip, tunnelVars, monVars, history
<1>2. call[c] \in Call /\ Active(c) /\ call[c].todo # <<>> /\ Head(call[c].todo).on = {}
  BY DEF GhostInv, TypeOK, Skip
<1>3. /\ call'[c].kind = call[c].kind /\ call'[c].tuns = call[c].tuns
      /\ call'[c].todo = Tail(call[c].todo)
      /\ call'[c].held = call[c].held /\ call'[c].taken = call[c].taken
      /\ \A d \in Callers \ {c} : call'[d] = call[d]
  BY <1>2 DEF Skip, GhostInv, TypeOK, Call
<1>4. \A d \in Callers : (Active(d)' <=> Active(d)) /\ call'[d].tuns = call[d].tuns
  BY <1>3 DEF Active
<1>5. (\A w \in Workers : WorkOK(w)') /\ \A w \in Workers, u \in Tunnels : Toggles(w, u)' => Toggles(w, u)
  BY <1>1, <1>4, WorkStays DEF Callers
<1>6. c \in Handlers => Kernel \cap call[c].tuns = {}
  <2> SUFFICES ASSUME c \in Handlers, NEW u \in Kernel \cap call[c].tuns PROVE FALSE
    OBVIOUS
  <2>1. PlanEnd(call[c].todo, u)
    BY <1>2 DEF DownInv, HandlerOK
  <2>2. Head(call[c].todo).on = {u}
    BY <1>2, <2>1, EndsOfPlans
  <2> QED BY <1>2, <2>2
<1>7. c \in Handlers => HandlerOK(c)' /\ \A u \in Kernel : ~TellsNext(c, u)
  BY <1>1, <1>3, <1>6 DEF HandlerOK, Kernel, TellsNext
<1>8. c \in Requests => Asks(call'[c].todo)
  BY <1>2, <1>3, RequestRest DEF DownInv
<1>9. \A m \in call'[c].held \cup call'[c].taken : owner[m] \in call'[c].tuns
  BY <1>3 DEF DownInv, HeldOwn
<1> QED BY <1>1, <1>3, <1>5, <1>7, <1>8, <1>9, TunnelsStay

LEMMA ReturnKeepsDown ==
  ASSUME GhostInv, DownInv, NEW c \in Callers, Return(c) PROVE DownInv'
<1>1. UNCHANGED <<native, running, link, flag, reg, owner, untold, crossed, work>>
  BY DEF Return, tunnelVars, monVars, history
<1>2. call'[c] = NoCall /\ \A d \in Callers \ {c} : call'[d] = call[d]
  BY DEF Return, GhostInv, TypeOK
<1>3. ~Active(c)' /\ call'[c].todo = <<>> /\ call'[c].held = {} /\ call'[c].taken = {}
  BY <1>2 DEF Active, NoCall
<1>4. \A d \in Callers \ {c} : (Active(d)' <=> Active(d)) /\ call'[d].tuns = call[d].tuns
  BY <1>2 DEF Active
<1>5. c \in Requests => work[c].pc = "gone"
  BY DEF Return
<1>6. \A w \in Workers : WorkOK(w)'
  BY <1>1, <1>4, <1>5, PingAssumption DEF DownInv, WorkOK, Callers
<1>7. \A w \in Workers, u \in Tunnels : Toggles(w, u)' => Toggles(w, u)
  BY <1>1 DEF Toggles
<1>8. c \in Handlers => HandlerOK(c)'
  BY <1>3 DEF HandlerOK
<1>9. \A u : ~TellsNext(c, u)
  BY DEF Return, TellsNext, Tells, First
<1>10. Asks(call'[c].todo)
  BY <1>3 DEF Asks
<1> QED BY <1>1, <1>2, <1>3, <1>6, <1>7, <1>8, <1>9, <1>10, TunnelsStay

(* Lists of operations are joined from either end. *)
LEMMA JoinedLists ==
  \A a, b, c, d \in Seq(Operation) : (a \o (b \o c)) \o d = a \o (b \o (c \o d))
<1> DEFINE J(x, y) == x \o y
<1>1. \A x, y, z \in Seq(Operation) : J(J(x, y), z) = J(x, J(y, z))
  BY ConcatAssociative
<1>2. \A x, y \in Seq(Operation) : J(x, y) \in Seq(Operation)
  BY ConcatProperties
<1> HIDE DEF J
<1>3. \A a, b, c, d \in Seq(Operation) : J(J(a, J(b, c)), d) = J(a, J(b, J(c, d)))
  BY <1>1, <1>2
<1> QED BY <1>3 DEF J

(* A plan is decided for the monitor the orchestrator knows of. *)
LEMMA PlansBegin ==
  ASSUME NEW t \in Tunnels, NEW kind \in LifecycleKinds
  PROVE  /\ PlanEnd(Plan(kind, t), t)
         /\ Starts(Plan(kind, t), t) \/ Unwatches(Plan(kind, t), t)
               \/ (Stops(Plan(kind, t), t) /\ ~flag[t])
<1> DEFINE One(n) == Op(n, {t})
<1>1. ASSUME NEW n \in OpNames, NEW s \in Seq(Operation)
      PROVE  First(One(n) \o s, n, t) /\ Tail(One(n) \o s) = s /\ One(n) \o s \in Seq(Operation)
  BY <1>1, InFront DEF First
<1>2. ASSUME NEW n \in OpNames
      PROVE  First(One(n), n, t) /\ Tail(One(n)) = <<>> /\ One(n) \in Seq(Operation)
  <2>1. <<>> \in Seq(Operation)
    OBVIOUS
  <2>2. One(n) \in Seq(Operation)
    BY <2>1, InFront
  <2>3. One(n) \o <<>> = One(n)
    BY <2>2, ConcatEmptySeq
  <2> QED BY <1>1, <2>1, <2>2, <2>3
<1>3. {"Start", "Stop", "Told", "Untold", "StartMonitoring", "StopMonitoring"} \subseteq OpNames
  BY DEF OpNames
<1> DEFINE A == One("StopMonitoring")
           B == One("Untold")
           C == One("Stop")
           D == StartPlan(t)
<1>4. Starts(D, t) /\ D \in Seq(Operation)
  <2> DEFINE w == One("StartMonitoring") \o One("Told")
  <2>1. Watches(w, t) /\ w \in Seq(Operation)
    BY <1>1, <1>2, <1>3 DEF Watches, Tells
  <2> DEFINE x == IF cfgd[t] THEN w ELSE <<>>
  <2>2. D = One("Start") \o x
    BY DEF StartPlan
  <2> HIDE DEF w
  <2>3. x \in Seq(Operation) /\ (x = <<>> \/ Watches(x, t))
    BY <2>1
  <2> HIDE DEF x, D
  <2>4. First(D, "Start", t) /\ Tail(D) = x /\ D \in Seq(Operation)
    BY <1>1, <1>3, <2>2, <2>3
  <2> QED BY <2>3, <2>4 DEF Starts
<1>5. A \in Seq(Operation) /\ B \in Seq(Operation) /\ C \in Seq(Operation)
  BY <1>2, <1>3
<1>6. Stops(C, t) /\ Stops(C \o D, t) /\ C \o D \in Seq(Operation)
  BY <1>1, <1>2, <1>3, <1>4 DEF Stops
<1>7. Unwatches(A \o (B \o C), t) /\ Unwatches(A \o (B \o (C \o D)), t)
  <2>1. \A s \in Seq(Operation) : Stops(s, t) => Untells(B \o s, t) /\ B \o s \in Seq(Operation)
    BY <1>1, <1>3 DEF Untells
  <2>2. \A s \in Seq(Operation) : Untells(s, t) => Unwatches(A \o s, t)
    BY <1>1, <1>3 DEF Unwatches
  <2> HIDE DEF A, B, C, D
  <2> QED BY <1>5, <1>6, <2>1, <2>2
<1>8. StopPlan(t) = (IF flag[t] THEN A \o (B \o C) ELSE C)
  <2>1. StopPlan(t) = (IF flag[t] THEN A \o B ELSE <<>>) \o C
    BY DEF StopPlan
  <2> HIDE DEF A, B, C
  <2>2. (A \o B) \o C = A \o (B \o C)
    BY <1>5, ConcatAssociative
  <2>3. <<>> \o C = C
    BY <1>5, ConcatEmptySeq
  <2> QED BY <2>1, <2>2, <2>3
<1>9. \/ RestartPlan(t) = D
      \/ flag[t] /\ RestartPlan(t) = A \o (B \o (C \o D))
      \/ ~flag[t] /\ RestartPlan(t) = C \o D
  <2>1. RestartPlan(t) = (IF running[t] THEN StopPlan(t) ELSE <<>>) \o D
    BY DEF RestartPlan
  <2> HIDE DEF A, B, C, D
  <2>2. (A \o (B \o C)) \o D = A \o (B \o (C \o D))
    <3> DEFINE Same(a, b, c, d) == (a \o (b \o c)) \o d = a \o (b \o (c \o d))
    <3>1. \A a, b, c, d \in Seq(Operation) : Same(a, b, c, d)
      BY JoinedLists
    <3> HIDE DEF Same
    <3>2. Same(A, B, C, D)
      BY <1>4, <1>5, <3>1
    <3> QED BY <3>2 DEF Same
  <2>3. <<>> \o D = D
    BY <1>4, ConcatEmptySeq
  <2> QED BY <1>8, <2>1, <2>2, <2>3
<1> HIDE DEF A, B, C, D
<1>10. CASE kind = "start"
  BY <1>4, <1>10 DEF Plan, PlanEnd, D
<1>11. CASE kind = "stop"
  BY <1>6, <1>7, <1>8, <1>11 DEF Plan, PlanEnd
<1>12. CASE kind = "restart"
  BY <1>4, <1>6, <1>7, <1>9, <1>12 DEF Plan, PlanEnd
<1> QED BY <1>10, <1>11, <1>12 DEF LifecycleKinds

(* A call begins with a list that is in order. *)
LEMMA BeginKeepsDown ==
  ASSUME GhostInv, DownInv, NEW c \in Callers, NEW kind, NEW ts \in SUBSET Tunnels, NEW todo,
         Begin(c, kind, ts, todo), c \in Requests => Asks(todo),
         c \in Handlers => \E t \in Tunnels : /\ ts = {t} /\ PlanEnd(todo, t)
                                              /\ \/ Starts(todo, t) \/ Unwatches(todo, t)
                                                 \/ Stops(todo, t) /\ ~flag[t]
  PROVE  DownInv'
<1> DEFINE r == [NoCall EXCEPT !.kind = kind, !.tuns = ts, !.todo = todo]
<1>1. /\ UNCHANGED <<native, running, link, flag, reg, owner, untold, work>>
      /\ call' = [call EXCEPT ![c] = r] /\ ~Active(c)
  BY DEF Begin, tunnelVars, monVars
<1>2. r.tuns = ts /\ r.todo = todo /\ r.held = {} /\ r.taken = {}
  BY DEF NoCall
<1>3. call'[c] = r /\ \A d \in Callers \ {c} : call'[d] = call[d]
  BY <1>1 DEF GhostInv, TypeOK
<1>4. crossed' = [t \in Tunnels |->
          crossed[t] \/ (t \in ts /\ \E d \in Callers : Active(d) /\ t \in call[d].tuns)]
  BY DEF Begin
<1> HIDE DEF r
<1>5. \A t \in Tunnels : crossed[t] => crossed'[t]
  BY <1>4
<1>6. \A d \in Callers : Active(d) => Active(d)' /\ call'[d].tuns = call[d].tuns
  BY <1>1, <1>3 DEF Active
<1>7. (\A w \in Workers : WorkOK(w)') /\ \A w \in Workers, u \in Tunnels : Toggles(w, u)' => Toggles(w, u)
  BY <1>1, <1>6, WorkStays DEF Callers
<1>8. ASSUME c \in Handlers PROVE HandlerOK(c)'
  <2>1. PICK t \in Tunnels : /\ ts = {t} /\ PlanEnd(todo, t)
                             /\ \/ Starts(todo, t) \/ Unwatches(todo, t)
                                \/ Stops(todo, t) /\ ~flag[t]
    BY <1>8
  <2>2. call'[c].tuns = {t} /\ call'[c].todo = todo
    BY <1>2, <1>3, <2>1
  <2>3. ~Watches(todo, t) /\ ~Untells(todo, t) /\ (Stops(todo, t) => ~flag[t])
    <3>1. ASSUME NEW n, NEW m, First(todo, n, t), First(todo, m, t) PROVE n = m
      BY <3>1 DEF First
    <3> QED BY <2>1, <3>1 DEF Starts, Unwatches, Stops, Watches, Untells
  <2>4. ASSUME Quiet(t)', ~flag[t] PROVE reg'[t] = NoMonitor
    <3>1. ~crossed'[t] /\ Quiet(t)
      BY <1>1, <1>5, <2>4 DEF Quiet, Kernel
    <3>2. \A h \in Handlers : ~TellsNext(h, t)
      BY <1>4, <2>1, <3>1 DEF TellsNext, Callers
    <3> QED BY <1>1, <2>4, <3>1, <3>2 DEF DownInv, Known
  <2> QED BY <2>1, <2>2, <2>3, <2>4
      DEF HandlerOK, PlanEnd, Watches, Untells, Stops, Tells, Starts, Unwatches, First
<1>9. \A u \in Kernel : ~TellsNext(c, u)
  BY <1>1 DEF TellsNext
<1>10. c \in Requests => Asks(call'[c].todo)
  BY <1>2, <1>3
<1> QED BY <1>1, <1>2, <1>3, <1>5, <1>7, <1>8, <1>9, <1>10, TunnelsStay

LEMMA EventKeepsDown ==
  ASSUME GhostInv, DownInv, NEW h \in Handlers, Event(h) PROVE DownInv'
<1>1. PICK kind \in Kinds \cap LifecycleKinds, t \in Tunnels : Begin(h, kind, {t}, Plan(kind, t))
  BY DEF Event
<1>2. h \notin Requests /\ h \in Callers
  BY PingAssumption DEF Callers
<1> QED BY <1>1, <1>2, PlansBegin, BeginKeepsDown

(* The requests' lists: what is put together from operations that ask. *)
LEMMA AskingOps ==
  ASSUME NEW n \in OpNames \ LifecycleOps, NEW on \in SUBSET Tunnels
  PROVE  Op(n, on) \in Seq(Operation) /\ Asks(Op(n, on))
<1>1. [op |-> n, on |-> on] \in Operation
  BY DEF Operation
<1>2. Op(n, on) \in Seq(Operation) /\ Len(Op(n, on)) = 1 /\ Op(n, on)[1] = [op |-> n, on |-> on]
  BY <1>1 DEF Op
<1> QED BY <1>2 DEF Asks

LEMMA AskingConcat ==
  ASSUME NEW s \in Seq(Operation), NEW r \in Seq(Operation), Asks(s), Asks(r)
  PROVE  s \o r \in Seq(Operation) /\ Asks(s \o r)
<1>1. /\ s \o r \in Seq(Operation) /\ Len(s \o r) = Len(s) + Len(r)
      /\ \A i \in 1 .. Len(s) + Len(r) : (s \o r)[i] = IF i <= Len(s) THEN s[i] ELSE r[i - Len(s)]
  BY ConcatProperties
<1>2. \A i \in 1 .. Len(s) + Len(r) : i \in 1 .. Len(s) \/ (i > Len(s) /\ i - Len(s) \in 1 .. Len(r))
  OBVIOUS
<1> QED BY <1>1, <1>2 DEF Asks

LEMMA RequestKeepsDown ==
  ASSUME GhostInv, DownInv, NEW r \in Requests, Request(r) PROVE DownInv'
<1>1. r \notin Handlers /\ r \in Callers
  BY PingAssumption DEF Callers
<1> DEFINE Good(s) == s \in Seq(Operation) /\ Asks(s)
<1>2. \A n \in OpNames \ LifecycleOps, on \in SUBSET Tunnels : Good(Op(n, on))
  BY AskingOps
<1>3. {"Save", "Refresh", "StartIfRunning", "StartIfPresent", "StartMonitoring", "StopMonitoring",
       "CheckNow"} \subseteq OpNames \ LifecycleOps
  BY DEF OpNames, LifecycleOps
<1>4. \A p, q : Good(p) /\ Good(q) => Good(p \o q)
  BY AskingConcat
<1> HIDE DEF Good
<1>5. ASSUME NEW kind \in Kinds \cap TunnelKinds, NEW t \in Tunnels,
             Begin(r, kind, {t}, TogglePlan(kind, t))
      PROVE  DownInv'
  <2> DEFINE store == Op("Save", {t}) \o Op("Refresh", {t})
  <2>1. {t} \in SUBSET Tunnels /\ Good(store) /\ Good(Op("StartIfRunning", {t}))
        /\ Good(Op("StartMonitoring", {t})) /\ Good(Op("StopMonitoring", {t}))
    BY <1>2, <1>3, <1>4
  <2>2. TogglePlan(kind, t) \in {store \o Op("StartIfRunning", {t}), store \o Op("StartMonitoring", {t}),
                                 store \o Op("StopMonitoring", {t}), Op("StopMonitoring", {t}) \o store}
    BY DEF TogglePlan, TunnelKinds, Kernel
  <2> HIDE DEF store
  <2>3. Good(TogglePlan(kind, t))
    BY <1>4, <2>1, <2>2
  <2> QED BY <1>1, <1>5, <2>1, <2>3, BeginKeepsDown DEF Good
<1>6. ASSUME NEW kind \in Kinds \cap GlobalKinds, Begin(r, kind, Tunnels, GlobalPlan(kind))
      PROVE  DownInv'
  <2>1. Kernel \in SUBSET Tunnels /\ native \in SUBSET Tunnels /\ Tunnels \in SUBSET Tunnels
    BY DEF Kernel, GhostInv, TypeOK
  <2>2. /\ Good(Op("Save", Tunnels)) /\ Good(Op("StartIfPresent", Kernel))
        /\ Good(Op("StartMonitoring", native)) /\ Good(Op("StopMonitoring", Kernel))
        /\ Good(Op("StopMonitoring", native)) /\ Good(Op("CheckNow", Kernel))
    BY <1>2, <1>3, <2>1
  <2>3. Good(GlobalPlan(kind))
    BY <1>4, <2>2 DEF GlobalPlan, GlobalKinds
  <2> QED BY <1>1, <1>6, <2>1, <2>3, BeginKeepsDown DEF Good
<1> QED BY <1>5, <1>6 DEF Request

(* A caller has run an operation. *)
LEMMA Moved ==
  ASSUME GhostInv, NEW c \in Callers, NEW op \in OpNames \ NwgHalves, NEW t, At(c, op, t),
         NEW ts, call' = Done(c, ts)
  PROVE  /\ Active(c) /\ Active(c)' /\ t \in call[c].tuns /\ t \in Tunnels
         /\ call[c].todo # <<>> /\ Head(call[c].todo).op = op
         /\ call[c].held = {} /\ call[c].taken = {}
         /\ call'[c].tuns = call[c].tuns /\ call'[c].todo = Rest(c, ts)
         /\ call'[c].held = {} /\ call'[c].taken = {}
         /\ \A d \in Callers \ {c} : call'[d] = call[d] /\ (Active(d)' <=> Active(d))
<1>1. /\ call[c].held = {} /\ call[c].taken = {} /\ Active(c) /\ t \in Tunnels
      /\ Rest(c, ts) \in Seq(Operation) /\ call[c].todo # <<>> /\ Head(call[c].todo).op = op
      /\ t \in call[c].tuns
  BY AtPlain DEF GhostInv, At
<1>2. call[c] \in Call /\ call' = [call EXCEPT ![c] = [call[c] EXCEPT !.todo = Rest(c, ts)]]
  BY DEF GhostInv, TypeOK, Done
<1>3. /\ call'[c].kind = call[c].kind /\ call'[c].tuns = call[c].tuns /\ call'[c].held = {}
      /\ call'[c].taken = {} /\ call'[c].todo = Rest(c, ts)
  BY <1>1, <1>2 DEF GhostInv, TypeOK, Call
<1>4. \A d \in Callers \ {c} : call'[d] = call[d]
  BY <1>2 DEF GhostInv, TypeOK
<1> QED BY <1>1, <1>3, <1>4 DEF Active

(* Only a handler starts or stops a tunnel, or notes what it did. *)
LEMMA LifecycleIsHandlers ==
  ASSUME GhostInv, DownInv, NEW c \in Callers, NEW op \in LifecycleOps, NEW t, At(c, op, t)
  PROVE  c \in Handlers /\ op \in OpNames \ NwgHalves
<1>1. call[c].todo # <<>> /\ Head(call[c].todo).op = op
  BY DEF At
<1>2. c \notin Requests
  BY <1>1, RequestRest DEF DownInv
<1> QED BY <1>2 DEF Callers, LifecycleOps, OpNames, NwgHalves

(* A handler at an operation about a nativewg tunnel is about no other. *)
LEMMA NativeHandler ==
  ASSUME GhostInv, NEW h \in Handlers, HandlerOK(h), Active(h), NEW t \in native, t \in call[h].tuns
  PROVE  Kernel \cap call[h].tuns = {}
BY DEF HandlerOK, Kernel

(* Between the stop of the monitor and the stop of the tunnel nobody can   *)
(* toggle the link.                                                        *)
LEMMA NobodyToggles ==
  ASSUME GhostInv, DownInv, NEW t \in Kernel, Quiet(t), reg[t] = NoMonitor,
         NEW c \in Handlers, Active(c), t \in call[c].tuns, call[c].held = {}, call[c].taken = {}
  PROVE  \A w \in Workers : ~Toggles(w, t)
<1> SUFFICES ASSUME NEW w \in Workers, Toggles(w, t) PROVE FALSE
  OBVIOUS
<1>1. /\ ~crossed[t] /\ t \notin native /\ t \in Tunnels /\ c \in Callers
      /\ work[w].pc # "gone" /\ owner[work[w].on] = t
  BY DEF Quiet, Kernel, Callers, Toggles
<1>2. \A d \in Callers : Active(d) /\ t \in call[d].tuns => d = c
  BY <1>1 DEF GhostInv, Crossing
<1>3. CASE w \in Requests
  <2>1. Active(w) /\ t \in call[w].tuns
    BY <1>1, <1>3 DEF DownInv, WorkOK
  <2> QED BY <1>2, <1>3, <2>1, PingAssumption DEF Callers
<1>4. CASE w \in Monitors
  <2>1. Alive(w) /\ owner[w] = t /\ w # NoMonitor
    BY <1>1, <1>4, PingAssumption DEF DownInv, WorkOK, Alive
  <2>2. PICK d \in Callers : w \in call[d].held \cup call[d].taken \cup {call[d].fresh}
    BY <1>1, <1>4, <2>1 DEF GhostInv, NoGhost
  <2>3. CASE w \in call[d].held \cup call[d].taken
    <3>1. Active(d) /\ t \in call[d].tuns
      BY <2>1, <2>3, HolderIsActive DEF DownInv, HeldOwn
    <3> QED BY <1>2, <2>3, <3>1
  <2>4. CASE w = call[d].fresh
    <3>1. Registers(d, call[d].todo, owner[w])
      BY <1>4, <2>1, <2>4 DEF GhostInv, CallOK
    <3> QED BY <1>1, <2>1, <3>1 DEF Registers
  <2> QED BY <2>2, <2>3, <2>4
<1> QED BY <1>3, <1>4 DEF Workers

(* What a handler's operation about t does to the handler. *)
LEMMA HandlerMoves ==
  ASSUME GhostInv, NEW c \in Handlers, NEW op \in LifecycleOps, NEW t \in Tunnels,
         At(c, op, t), HandlerOK(c), call' = Done(c, {t})
  PROVE  /\ Active(c) /\ Active(c)' /\ t \in call[c].tuns
         /\ call[c].todo # <<>> /\ Head(call[c].todo).op = op
         /\ call'[c].tuns = call[c].tuns /\ call'[c].todo = Rest(c, {t})
         /\ call'[c].held = {} /\ call'[c].taken = {}
         /\ \A d \in Callers \ {c} : call'[d] = call[d] /\ (Active(d)' <=> Active(d))
         /\ t \in Kernel => /\ call[c].tuns = {t} /\ PlanEnd(Tail(call[c].todo), t)
                            /\ call'[c].todo = Tail(call[c].todo)
<1> DEFINE ts == {t}
<1>1. c \in Callers /\ op \in OpNames \ NwgHalves
  BY DEF Callers, LifecycleOps, OpNames, NwgHalves
<1>2. call' = Done(c, ts) /\ t \in ts
  OBVIOUS
<1> HIDE DEF ts
<1>3. /\ Active(c) /\ Active(c)' /\ t \in call[c].tuns /\ t \in Tunnels
      /\ call[c].todo # <<>> /\ Head(call[c].todo).op = op
      /\ call[c].held = {} /\ call[c].taken = {}
      /\ call'[c].tuns = call[c].tuns /\ call'[c].todo = Rest(c, ts)
      /\ call'[c].held = {} /\ call'[c].taken = {}
      /\ \A d \in Callers \ {c} : call'[d] = call[d] /\ (Active(d)' <=> Active(d))
  BY <1>1, <1>2, Moved, Zenon
<1>4. t \in Kernel => /\ call[c].tuns = {t} /\ PlanEnd(call[c].todo, t)
                      /\ Rest(c, ts) = Tail(call[c].todo)
  BY <1>1, <1>2, HandlerAt
<1>5. t \in Kernel => PlanEnd(Tail(call[c].todo), t)
  BY <1>3, <1>4, EndsOfPlans
<1> QED BY <1>3, <1>4, <1>5 DEF ts

(* The other callers and the goroutines do not move in a handler's step    *)
(* about the tunnel t, and what it changes of t only its own plan can see. *)
LEMMA HandlerActs ==
  ASSUME GhostInv, DownInv, NEW c \in Handlers, NEW op \in LifecycleOps, NEW t \in Tunnels,
         At(c, op, t), call' = Done(c, {t}), UNCHANGED <<native, reg, owner, work, crossed, untold>>,
         running' \in [Tunnels -> BOOLEAN], link' \in [Tunnels -> BOOLEAN], flag' \in [Tunnels -> BOOLEAN],
         \A u \in Tunnels \ {t} : running'[u] = running[u] /\ link'[u] = link[u] /\ flag'[u] = flag[u],
         t \in Kernel =>
           /\ Quiet(t) /\ reg[t] # NoMonitor => flag'[t]
           /\ Quiet(t) /\ (link'[t] \/ reg[t] # NoMonitor \/ \E w \in Workers : Toggles(w, t)) => running'[t]
           /\ Quiet(t) => /\ Watches(Tail(call[c].todo), t) => running'[t]
                          /\ Untells(Tail(call[c].todo), t) \/ Stops(Tail(call[c].todo), t) => reg[t] = NoMonitor
  PROVE  DownInv'
<1>0. HandlerOK(c)
  BY DEF DownInv
<1>1. c \in Callers /\ op \in OpNames \ NwgHalves /\ c \notin Requests
  BY PingAssumption DEF Callers, LifecycleOps, OpNames, NwgHalves
<1>2. /\ Active(c) /\ Active(c)' /\ t \in call[c].tuns
      /\ call[c].todo # <<>> /\ Head(call[c].todo).op = op
      /\ call'[c].tuns = call[c].tuns /\ call'[c].todo = Rest(c, {t})
      /\ call'[c].held = {} /\ call'[c].taken = {}
      /\ \A d \in Callers \ {c} : call'[d] = call[d] /\ (Active(d)' <=> Active(d))
  BY <1>0, HandlerMoves
<1>3. \A u : Quiet(u)' <=> Quiet(u)
  BY DEF Quiet, Kernel
<1>4. t \in native => Kernel \cap call[c].tuns = {}
  BY <1>2, <1>0, NativeHandler
<1>5. t \in Kernel => /\ call[c].tuns = {t} /\ PlanEnd(Tail(call[c].todo), t)
                      /\ call'[c].todo = Tail(call[c].todo)
  BY <1>0, HandlerMoves
<1>6. t \in native \/ t \in Kernel
  BY DEF Kernel
<1>7. HandlerOK(c)'
  <2>1. CASE t \in native
    BY <1>2, <1>4, <2>1 DEF HandlerOK, Kernel
  <2>2. CASE t \in Kernel
    <3>1. /\ call'[c].tuns = {t} /\ PlanEnd(call'[c].todo, t)
          /\ Quiet(t) => /\ Watches(call'[c].todo, t) => running'[t]
                         /\ Untells(call'[c].todo, t) \/ Stops(call'[c].todo, t)
                               => reg'[t] = NoMonitor
      BY <1>2, <1>5, <2>2
    <3> QED BY <1>3, <3>1, HandlerNext
  <2> QED BY <1>6, <2>1, <2>2
<1>8. \A h \in Handlers : HandlerOK(h)'
  <2> SUFFICES ASSUME NEW h \in Handlers, h # c PROVE HandlerOK(h)'
    BY <1>7
  <2>1. h \in Callers \ {c} /\ HandlerOK(h)
    BY DEF Callers, DownInv
  <2>2. \A u \in Kernel \cap call[h].tuns : Active(h) /\ Quiet(u)' =>
           Quiet(u) /\ (running[u] => running'[u]) /\ (reg[u] = NoMonitor => reg'[u] = NoMonitor)
    <3> SUFFICES ASSUME NEW u \in Kernel \cap call[h].tuns, Active(h), Quiet(u)
                 PROVE  u \in Tunnels /\ u # t
      BY <1>3
    <3> QED BY <1>1, <1>2, <2>1 DEF GhostInv, Crossing, Quiet, Kernel
  <2> QED BY <1>2, <2>1, <2>2, HandlerStays
<1>9. Known'
  <2> SUFFICES ASSUME NEW u \in Tunnels, Quiet(u)', reg'[u] # NoMonitor
               PROVE  flag'[u] \/ \E h \in Handlers : TellsNext(h, u)'
    BY DEF Known
  <2>1. u \in Kernel /\ Quiet(u)
    BY <1>3 DEF Quiet
  <2>2. CASE u = t
    BY <2>1, <2>2
  <2>3. CASE u # t
    <3>1. ~TellsNext(c, u)
      BY <1>2, <1>4, <1>5, <1>6, <2>1, <2>3 DEF TellsNext
    <3>2. \A h \in Handlers \ {c} : TellsNext(h, u) => TellsNext(h, u)'
      BY <1>2 DEF TellsNext, Tells, First, Callers
    <3> QED BY <2>1, <2>3, <3>1, <3>2 DEF DownInv, Known
  <2> QED BY <2>2, <2>3
<1>10. UpWhileRunning'
  <2> SUFFICES ASSUME NEW u \in Tunnels, Quiet(u)',
                      link'[u] \/ reg'[u] # NoMonitor \/ \E w \in Workers : Toggles(w, u)'
               PROVE  running'[u]
    BY DEF UpWhileRunning
  <2>1. u \in Kernel /\ Quiet(u) /\ \A w : Toggles(w, u)' <=> Toggles(w, u)
    BY <1>3 DEF Quiet, Toggles
  <2> QED BY <2>1 DEF DownInv, UpWhileRunning
<1>11. HeldOwn'
  BY <1>2 DEF DownInv, HeldOwn
<1>12. \A w \in Workers : WorkOK(w)'
  BY <1>1, <1>2, WorkStays DEF Callers
<1>13. \A r \in Requests : Asks(call'[r].todo)
  BY <1>1, <1>2 DEF DownInv, Callers
<1> QED BY <1>8, <1>9, <1>10, <1>11, <1>12, <1>13 DEF DownInv, Asks

LEMMA StartKeepsDown ==
  ASSUME GhostInv, DownInv, NEW c \in Callers, Start(c) PROVE DownInv'
<1>1. PICK t \in Tunnels : /\ At(c, "Start", t) /\ call' = Done(c, {t})
                           /\ running' = [running EXCEPT ![t] = TRUE]
                           /\ link' = [link EXCEPT ![t] = TRUE]
  BY DEF Start
<1>2. UNCHANGED <<native, reg, owner, work, crossed, untold, flag>>
  BY DEF Start, monVars, history
<1>3. "Start" \in LifecycleOps
  BY DEF LifecycleOps
<1>4. c \in Handlers /\ "Start" \in OpNames \ NwgHalves
  BY <1>1, <1>3, LifecycleIsHandlers
<1>5. /\ running' \in [Tunnels -> BOOLEAN] /\ link' \in [Tunnels -> BOOLEAN] /\ running'[t]
      /\ \A u \in Tunnels \ {t} : running'[u] = running[u] /\ link'[u] = link[u]
  BY <1>1 DEF DownInv
<1>6. HandlerOK(c) /\ flag' \in [Tunnels -> BOOLEAN]
  BY <1>2, <1>4 DEF DownInv
<1>7. ASSUME t \in Kernel PROVE /\ ~Untells(Tail(call[c].todo), t) /\ ~Stops(Tail(call[c].todo), t)
                                /\ ~Tells(call[c].todo, t) /\ call[c].tuns = {t}
  <2>1. Starts(call[c].todo, t) /\ call[c].tuns = {t}
    BY <1>1, <1>4, <1>6, <1>7, HandlerAt, EndsOfPlans
  <2>2. Tail(call[c].todo) = <<>> \/ Watches(Tail(call[c].todo), t)
    BY <2>1 DEF Starts
  <2>3. ~Untells(Tail(call[c].todo), t) /\ ~Stops(Tail(call[c].todo), t)
    BY <2>2, OneFirst
  <2> QED BY <2>1, <2>3, OneFirst
<1>8. ASSUME t \in Kernel, Quiet(t), reg[t] # NoMonitor PROVE flag'[t]
  <2>1. flag[t] \/ \E h \in Handlers : TellsNext(h, t)
    BY <1>8 DEF DownInv, Known
  <2>2. ~TellsNext(c, t)
    BY <1>7, <1>8 DEF TellsNext
  <2>3. \A h \in Handlers \ {c} : ~TellsNext(h, t)
    <3>1. Active(c) /\ t \in call[c].tuns
      BY <1>1, <1>4, Moved
    <3> QED BY <1>4, <1>8, <3>1 DEF TellsNext, GhostInv, Crossing, Quiet, Callers
  <2> QED BY <1>2, <2>1, <2>2, <2>3
<1> QED BY <1>1, <1>2, <1>3, <1>4, <1>5, <1>6, <1>7, <1>8, HandlerActs

LEMMA StopKeepsDown ==
  ASSUME GhostInv, DownInv, NEW c \in Callers, Stop(c) PROVE DownInv'
<1>1. PICK t \in Tunnels : /\ At(c, "Stop", t) /\ call' = Done(c, {t})
                           /\ running' = [running EXCEPT ![t] = FALSE]
                           /\ link' = [link EXCEPT ![t] = FALSE]
                           /\ flag' = [flag EXCEPT ![t] = FALSE]
  BY DEF Stop
<1>2. UNCHANGED <<native, reg, owner, work, crossed, untold>>
  BY DEF Stop, monVars, history
<1>3. "Stop" \in LifecycleOps
  BY DEF LifecycleOps
<1>4. c \in Handlers /\ "Stop" \in OpNames \ NwgHalves
  BY <1>1, <1>3, LifecycleIsHandlers
<1>5. /\ running' \in [Tunnels -> BOOLEAN] /\ link' \in [Tunnels -> BOOLEAN]
      /\ flag' \in [Tunnels -> BOOLEAN] /\ ~link'[t]
      /\ \A u \in Tunnels \ {t} : running'[u] = running[u] /\ link'[u] = link[u] /\ flag'[u] = flag[u]
  BY <1>1 DEF DownInv
<1>6. HandlerOK(c)
  BY <1>4 DEF DownInv
<1>7. ASSUME t \in Kernel
      PROVE  /\ ~Watches(Tail(call[c].todo), t) /\ ~Untells(Tail(call[c].todo), t)
             /\ ~Stops(Tail(call[c].todo), t)
             /\ Quiet(t) => reg[t] = NoMonitor /\ \A w \in Workers : ~Toggles(w, t)
  <2>1. Stops(call[c].todo, t) /\ call[c].tuns = {t} /\ Active(c)
    BY <1>1, <1>4, <1>6, <1>7, HandlerAt, EndsOfPlans
  <2>2. Tail(call[c].todo) = <<>> \/ Starts(Tail(call[c].todo), t)
    BY <2>1 DEF Stops
  <2>3. /\ ~Watches(Tail(call[c].todo), t) /\ ~Untells(Tail(call[c].todo), t)
        /\ ~Stops(Tail(call[c].todo), t)
    BY <2>2, OneFirst
  <2>4. Quiet(t) => reg[t] = NoMonitor
    BY <1>6, <1>7, <2>1 DEF HandlerOK
  <2>5. call[c].held = {} /\ call[c].taken = {} /\ t \in call[c].tuns
    BY <1>1, <1>4, Moved
  <2> QED BY <1>4, <1>7, <2>1, <2>3, <2>4, <2>5, NobodyToggles
<1> QED BY <1>1, <1>2, <1>3, <1>4, <1>5, <1>7, HandlerActs

LEMMA TellKeepsDown ==
  ASSUME GhostInv, DownInv, NEW c \in Callers, Tell(c) PROVE DownInv'
<1>1. PICK t \in Tunnels, op \in {"Told", "Untold"} :
         At(c, op, t) /\ call' = Done(c, {t}) /\ flag' = [flag EXCEPT ![t] = (op = "Told")]
  BY DEF Tell
<1>2. UNCHANGED <<native, reg, owner, work, crossed, untold, running, link>>
  BY DEF Tell, monVars, history
<1>3. op \in LifecycleOps
  BY DEF LifecycleOps
<1>4. c \in Handlers /\ op \in OpNames \ NwgHalves
  BY <1>1, <1>3, LifecycleIsHandlers
<1>5. /\ running' \in [Tunnels -> BOOLEAN] /\ link' \in [Tunnels -> BOOLEAN]
      /\ flag' \in [Tunnels -> BOOLEAN] /\ (op = "Told" => flag'[t])
      /\ \A u \in Tunnels \ {t} : flag'[u] = flag[u]
  BY <1>1, <1>2 DEF DownInv
<1>6. HandlerOK(c)
  BY <1>4 DEF DownInv
<1>7. ASSUME t \in Kernel
      PROVE  /\ ~Watches(Tail(call[c].todo), t) /\ ~Untells(Tail(call[c].todo), t)
             /\ op = "Told" => ~Stops(Tail(call[c].todo), t)
             /\ op = "Untold" /\ Quiet(t) => reg[t] = NoMonitor
  <2>1. /\ op = "Told" => Tells(call[c].todo, t)
        /\ op = "Untold" => Untells(call[c].todo, t)
        /\ call[c].tuns = {t} /\ Active(c)
    BY <1>1, <1>4, <1>6, <1>7, HandlerAt, EndsOfPlans
  <2>2. CASE op = "Told"
    BY <2>1, <2>2, OneFirst DEF Tells
  <2>3. CASE op = "Untold"
    <3>1. Stops(Tail(call[c].todo), t)
      BY <2>1, <2>3 DEF Untells
    <3>2. Quiet(t) => reg[t] = NoMonitor
      BY <1>6, <1>7, <2>1, <2>3 DEF HandlerOK
    <3>3. ~Untells(Tail(call[c].todo), t)
      <4>1. ASSUME NEW s, First(s, "Stop", t), First(s, "Untold", t) PROVE FALSE
        BY <4>1 DEF First
      <4> QED BY <3>1, <4>1 DEF Stops, Untells
    <3> QED BY <2>3, <3>1, <3>2, <3>3, OneFirst
  <2> QED BY <2>2, <2>3
<1>8. t \in Kernel /\ Quiet(t) /\ (link'[t] \/ reg[t] # NoMonitor \/ \E w \in Workers : Toggles(w, t))
         => running'[t]
  BY <1>2 DEF DownInv, UpWhileRunning
<1> QED BY <1>1, <1>2, <1>3, <1>4, <1>5, <1>7, <1>8, HandlerActs

(* A loop or a tick goes on: only a running tunnel's link is brought up. *)
LEMMA WorkerKeepsDown ==
  ASSUME GhostInv, DownInv, NEW w \in Workers, TickStep(w) \/ (w \in Monitors /\ MonitorStep(w))
  PROVE  DownInv'
<1>1. /\ UNCHANGED <<native, reg, owner, call, crossed, running, flag, untold>>
      /\ \A x \in Workers : work'[x].pc # "gone" => work[x].pc # "gone" /\ work'[x].on = work[x].on
      /\ link' \in [Tunnels -> BOOLEAN]
      /\ \A t \in Tunnels : link'[t] => link[t] \/ Toggles(w, t)
  <2> USE DEF Work, Places, tunnelVars, monVars, history
  <2>1. /\ work \in [Workers -> Work] /\ NoWork.pc = "gone" /\ link \in [Tunnels -> BOOLEAN]
        /\ work[w].pc # "gone" => work[w].on \in Monitors /\ owner[work[w].on] \in Tunnels
    BY DEF GhostInv, TypeOK, NoWork, DownInv, WorkOK
  <2>2. work[w].pc # "gone" => AfterTick(w).pc = "gone" \/ AfterTick(w).on = work[w].on
    BY <2>1 DEF AfterTick, DownInv, WorkOK, NoWork
  <2>3. w \in Monitors => ReadConfig(w).pc = "gone" \/ ReadConfig(w).on = work[w].on
    BY <2>1 DEF ReadConfig, NoWork
  <2>4. CASE w \in Monitors /\ LoopBegin(w)
    BY <2>1, <2>3, <2>4 DEF LoopBegin
  <2>5. CASE w \in Monitors /\ Tick(w)
    BY <2>1, <2>3, <2>5 DEF Tick
  <2>6. CASE w \in Monitors /\ LoopStop(w)
    BY <2>1, <2>6 DEF LoopStop
  <2>7. CASE w \in Monitors /\ pollOnce(w)
    BY <2>1, <2>2, <2>7 DEF pollOnce
  <2>8. CASE CheckPassed(w)
    BY <2>1, <2>2, <2>8 DEF CheckPassed
  <2>9. CASE CheckFailed(w)
    BY <2>1, <2>2, <2>9 DEF CheckFailed
  <2>10. CASE ToggleDown(w)
    <3>1. PICK ok \in BOOLEAN : link' = [link EXCEPT ![owner[work[w].on]] = @ /\ ~ok]
      BY <2>10 DEF ToggleDown
    <3>2. link' \in [Tunnels -> BOOLEAN] /\ \A t \in Tunnels : link'[t] => link[t]
      BY <2>1, <3>1
    <3> QED BY <2>1, <2>10, <3>2 DEF ToggleDown
  <2>11. CASE ToggleUp(w)
    <3>1. PICK ok \in BOOLEAN : link' = [link EXCEPT ![owner[work[w].on]] = @ \/ ok]
      BY <2>11 DEF ToggleUp
    <3>2. PICK sel \in BOOLEAN : work' = [work EXCEPT ![w] = [@ EXCEPT !.pc = "handshake", !.sel = sel]]
      BY <2>11 DEF ToggleUp
    <3>3. link' \in [Tunnels -> BOOLEAN] /\ \A t \in Tunnels : t # owner[work[w].on] => link'[t] = link[t]
      BY <2>1, <3>1
    <3>4. work[w].pc # "gone"
      BY <2>11 DEF ToggleUp
    <3>5. \A x \in Workers : work'[x].on = work[x].on /\ (x # w => work'[x] = work[x])
      BY <2>1, <3>2
    <3> QED BY <2>1, <2>11, <3>3, <3>4, <3>5 DEF ToggleUp, Toggles
  <2>12. CASE Handshake(w)
    BY <2>1, <2>2, <2>12 DEF Handshake
  <2>13. CASE NoHandshake(w)
    <3>1. \A x \in Workers : work'[x].on = work[x].on /\ (x # w => work'[x] = work[x])
      BY <2>1, <2>13 DEF NoHandshake
    <3> QED BY <2>1, <2>13, <3>1 DEF NoHandshake
  <2>14. CASE BackoffEnd(w)
    BY <2>1, <2>2, <2>14 DEF BackoffEnd
  <2> QED
    BY <2>4, <2>5, <2>6, <2>7, <2>8, <2>9, <2>10, <2>11, <2>12, <2>13, <2>14 DEF TickStep, MonitorStep
<1>2. \A x \in Workers, t \in Tunnels : Toggles(x, t)' => Toggles(x, t)
  BY <1>1 DEF Toggles
<1>3. \A x \in Workers : WorkOK(x)'
  BY <1>1 DEF DownInv, WorkOK, Active
<1>4. Known'
  BY <1>1 DEF DownInv, Known, Quiet, Kernel, TellsNext, Active, Tells, First
<1>5. UpWhileRunning'
  <2>1. \A t : Quiet(t)' <=> Quiet(t)
    BY <1>1 DEF Quiet, Kernel
  <2> QED BY <1>1, <1>2, <2>1 DEF DownInv, UpWhileRunning
<1>6. HeldOwn'
  BY <1>1 DEF DownInv, HeldOwn
<1>7. \A h \in Handlers : HandlerOK(h)'
  BY <1>1, HandlerStays DEF DownInv, Quiet, Kernel, Active
<1> QED BY <1>1, <1>3, <1>4, <1>5, <1>6, <1>7 DEF DownInv, Asks

(* A monitor of a kernel tunnel is registered by a handler whose plan      *)
(* starts it, or by a request the orchestrator is not told of.             *)
LEMMA RegisterKeepsDown ==
  ASSUME GhostInv, DownInv, NEW c \in Callers, NEW op \in OpNames \ NwgHalves, NEW t \in Kernel,
         op \notin LifecycleOps \cup {"StopMonitoring"},
         At(c, op, t), Register(c, t) \/ UNCHANGED <<monVars, fails, work, untold>>,
         call' = Done(c, {t}), UNCHANGED <<tunnelVars, crossed>>
  PROVE  DownInv'
<1>1. /\ Active(c) /\ Active(c)' /\ t \in call[c].tuns /\ t \in Tunnels
      /\ call[c].todo # <<>> /\ Head(call[c].todo).op = op
      /\ call'[c].tuns = call[c].tuns /\ call'[c].todo = Rest(c, {t})
      /\ call'[c].held = {} /\ call'[c].taken = {}
      /\ \A d \in Callers \ {c} : call'[d] = call[d] /\ (Active(d)' <=> Active(d))
  BY Moved
<1>2. UNCHANGED <<native, running, link, flag, crossed>>
  BY DEF tunnelVars
<1>3. ASSUME c \in Handlers
      PROVE  /\ call[c].tuns = {t} /\ Tells(call'[c].todo, t) /\ (Quiet(t) => running[t])
             /\ HandlerOK(c)' /\ \A u \in Kernel : ~TellsNext(c, u)
  <2>1. HandlerOK(c)
    BY <1>3 DEF DownInv
  <2>2. /\ call[c].tuns = {t} /\ PlanEnd(call[c].todo, t) /\ call'[c].todo = Tail(call[c].todo)
        /\ op = "StartMonitoring"
    <3>1. /\ call[c].tuns = {t} /\ PlanEnd(call[c].todo, t)
          /\ \A ts : t \in ts => Rest(c, ts) = Tail(call[c].todo)
          /\ op \in LifecycleOps \cup {"StartMonitoring", "StopMonitoring"}
      BY <1>1, <1>3, <2>1, HandlerAt
    <3>2. op = "StartMonitoring"
      BY <3>1
    <3>3. Rest(c, {t}) = Tail(call[c].todo)
      BY <3>1
    <3> QED BY <1>1, <3>1, <3>2, <3>3
  <2>3. Watches(call[c].todo, t)
    BY <1>1, <2>2, EndsOfPlans
  <2>4. Tells(call'[c].todo, t) /\ (Quiet(t) => running[t])
    BY <1>1, <2>1, <2>2, <2>3 DEF Watches, HandlerOK
  <2>5. PlanEnd(call'[c].todo, t)
    BY <2>4 DEF PlanEnd
  <2>6. \A u \in Kernel' : u \in call'[c].tuns => u = t
    BY <1>1, <2>2
  <2>7. HandlerOK(c)'
    BY <1>1, <2>2, <2>4, <2>5, <2>6, OneFirst, HandlerNext
  <2>8. \A u \in Kernel : ~TellsNext(c, u)
    BY <2>2, <2>3, OneFirst DEF TellsNext
  <2> QED BY <2>2, <2>4, <2>7, <2>8
<1>4. c \in Requests => Asks(call'[c].todo)
  BY <1>1, RequestRest DEF DownInv
<1>5. \A r \in Requests : Active(r) => Active(r)' /\ call'[r].tuns = call[r].tuns
  BY <1>1 DEF Callers
<1>6. CASE UNCHANGED <<monVars, fails, work, untold>>
  <2>1. UNCHANGED <<reg, owner, work, untold>>
    BY <1>6 DEF monVars
  <2>2. (\A w \in Workers : WorkOK(w)') /\ \A w \in Workers, u \in Tunnels : Toggles(w, u)' => Toggles(w, u)
    BY <1>5, <2>1, WorkStays
  <2> QED BY <1>1, <1>2, <1>3, <1>4, <2>1, <2>2, TunnelsStay
<1>7. CASE Register(c, t) /\ ~UNCHANGED <<monVars, fails, work, untold>>
  <2>1. PICK m : /\ Spawn(m, t, "begin") /\ reg' = [reg EXCEPT ![t] = m]
                 /\ untold' = [untold EXCEPT ![t] = @ \/ c \in Requests]
    BY <1>7 DEF Register
  <2>2. /\ m \in Monitors /\ m # NoMonitor
        /\ owner'[m] = t
        /\ \A n \in Monitors \ {m} : owner'[n] = owner[n] /\ (Alive(n)' <=> Alive(n))
        /\ \A u \in Tunnels : reg[u] # m
        /\ \A d \in Callers : m \notin call[d].held \cup call[d].taken \cup {call[d].fresh}
    BY <1>1, <2>1, Spawned DEF Places
  <2>3. /\ work'[m].on = m /\ \A w \in Workers \ {m} : work'[w] = work[w] /\ work[w].on # m
        /\ m \in Workers
    BY <2>1, <2>2 DEF Spawn, Free, Workers, GhostInv, TypeOK
  <2>4. /\ \A u \in Tunnels \ {t} : reg'[u] = reg[u] /\ untold'[u] = untold[u]
        /\ untold' \in [Tunnels -> BOOLEAN] /\ (c \in Requests => untold'[t]) /\ (untold[t] => untold'[t])
    BY <1>1, <2>1 DEF GhostInv, TypeOK, DownInv
  <2>5. \A u \in Tunnels : Quiet(u)' => Quiet(u)
    BY <1>2, <2>4 DEF Quiet, Kernel
  <2>6. Quiet(t)' => c \in Handlers /\ running[t] /\ TellsNext(c, t)'
    BY <1>1, <1>3, <2>4, <2>5 DEF Quiet, Callers, TellsNext, Tells, First
  <2>7. \A w \in Workers : w # m /\ work[w].pc # "gone" =>
           work[w].on \in Monitors /\ owner'[work[w].on] = owner[work[w].on]
    BY <2>2, <2>3 DEF DownInv, WorkOK
  <2>8. \A w \in Workers : WorkOK(w)'
    <3>1. WorkOK(m)'
      BY <2>2, <2>3, PingAssumption DEF WorkOK
    <3>2. ASSUME NEW w \in Workers, w # m PROVE WorkOK(w)'
      <4>1. work'[w] = work[w] /\ WorkOK(w)
        BY <2>3, <3>2 DEF DownInv
      <4> QED BY <1>5, <2>7, <3>2, <4>1 DEF WorkOK
    <3> QED BY <3>1, <3>2
  <2>9. \A w \in Workers, u \in Tunnels : Toggles(w, u)' => u = t \/ Toggles(w, u)
    BY <2>2, <2>3, <2>7 DEF Toggles
  <2>10. Known'
    <3> SUFFICES ASSUME NEW u \in Tunnels, Quiet(u)', reg'[u] # NoMonitor
                 PROVE  flag'[u] \/ \E h \in Handlers : TellsNext(h, u)'
      BY DEF Known
    <3>1. CASE u = t
      BY <2>6, <3>1
    <3>2. CASE u # t
      <4>1. Quiet(u) /\ u \in Kernel /\ reg[u] # NoMonitor
        BY <2>4, <2>5, <3>2 DEF Quiet
      <4>2. \A h \in Handlers \ {c} : TellsNext(h, u) => TellsNext(h, u)'
        BY <1>1 DEF TellsNext, Tells, First, Callers
      <4> QED BY <1>2, <1>3, <4>1, <4>2 DEF DownInv, Known
    <3> QED BY <3>1, <3>2
  <2>11. UpWhileRunning'
    <3> SUFFICES ASSUME NEW u \in Tunnels, Quiet(u)',
                        link'[u] \/ reg'[u] # NoMonitor \/ \E w \in Workers : Toggles(w, u)'
                 PROVE  running'[u]
      BY DEF UpWhileRunning
    <3>1. CASE u = t
      BY <1>2, <2>6, <3>1
    <3>2. CASE u # t
      BY <1>2, <2>4, <2>5, <2>9, <3>2 DEF DownInv, UpWhileRunning
    <3> QED BY <3>1, <3>2
  <2>12. HeldOwn'
    <3> SUFFICES ASSUME NEW d \in Callers, NEW n \in call'[d].held \cup call'[d].taken
                 PROVE  owner'[n] \in call'[d].tuns
      BY DEF HeldOwn
    <3>1. d # c /\ call'[d] = call[d] /\ n # m
      BY <1>1, <2>2
    <3>2. n \in Monitors /\ owner[n] \in call[d].tuns
      BY <3>1 DEF DownInv, HeldOwn, GhostInv, TypeOK, Call
    <3> QED BY <2>2, <3>1, <3>2
  <2>13. \A h \in Handlers : HandlerOK(h)'
    <3> SUFFICES ASSUME NEW h \in Handlers, h # c PROVE HandlerOK(h)'
      BY <1>3
    <3>1. h \in Callers \ {c} /\ HandlerOK(h)
      BY DEF DownInv, Callers
    <3>2. \A u \in Kernel \cap call[h].tuns : Active(h) /\ Quiet(u)' => u # t /\ u \in Tunnels
      BY <1>1, <2>5, <3>1 DEF GhostInv, Crossing, Quiet, Kernel
    <3> QED BY <1>1, <1>2, <2>4, <2>5, <3>1, <3>2, HandlerStays
  <2>14. \A r \in Requests : Asks(call'[r].todo)
    BY <1>1, <1>4 DEF DownInv, Callers
  <2> QED BY <1>2, <2>4, <2>8, <2>10, <2>11, <2>12, <2>13, <2>14 DEF DownInv, Asks
<1> QED BY <1>6, <1>7

LEMMA StartMonitoringKeepsDown ==
  ASSUME GhostInv, DownInv, NEW c \in Callers, StartMonitoring(c) \/ StartIf(c) PROVE DownInv'
<1>1. PICK t \in Kernel, op \in {"StartMonitoring", "StartIfRunning", "StartIfPresent"} :
         /\ At(c, op, t) /\ call' = Done(c, {t})
         /\ Register(c, t) \/ UNCHANGED <<monVars, fails, work, untold>>
  BY DEF StartMonitoring, StartIf
<1>2. UNCHANGED <<tunnelVars, crossed>> /\ op \in OpNames \ NwgHalves
      /\ op \notin LifecycleOps \cup {"StopMonitoring"}
  BY DEF StartMonitoring, StartIf, OpNames, NwgHalves, LifecycleOps
<1> QED BY <1>1, <1>2, RegisterKeepsDown

LEMMA StopMonitoringKeepsDown ==
  ASSUME GhostInv, DownInv, NEW c \in Callers, StopMonitoring(c) \/ stopNwgMonitor(c) PROVE DownInv'
<1> DEFINE ts == Head(call[c].todo).on
           ms == {reg[u] : u \in ts} \ {NoMonitor}
<1>1. PICK t \in Tunnels : /\ At(c, "StopMonitoring", t)
                           /\ reg' = [u \in Tunnels |-> IF u \in ts THEN NoMonitor ELSE reg[u]]
                           /\ \/ call' = [Done(c, ts) EXCEPT ![c].held = ms]
                              \/ call' = [Done(c, ts) EXCEPT ![c].taken = ms]
  BY DEF StopMonitoring, stopNwgMonitor, Kernel, GhostInv, TypeOK
<1>2. UNCHANGED <<native, running, link, flag, owner, untold, crossed, work>>
  BY DEF StopMonitoring, stopNwgMonitor, tunnelVars, history
<1>3. "StopMonitoring" \in OpNames \ NwgHalves
  BY DEF OpNames, NwgHalves
<1>4. /\ Rest(c, ts) \in Seq(Operation) /\ Head(call[c].todo) \in Operation
      /\ ts \subseteq call[c].tuns /\ t \in ts /\ t \in call[c].tuns
      /\ call[c].held = {} /\ call[c].taken = {} /\ Active(c)
      /\ call[c].todo # <<>> /\ Head(call[c].todo).op = "StopMonitoring"
  BY <1>1, <1>3, AtPlain DEF GhostInv, At
<1>5. ts \in SUBSET Tunnels /\ ms \in SUBSET Monitors
  BY <1>4 DEF Operation, GhostInv, TypeOK, Reference
<1>6. call[c] \in Call
  BY DEF GhostInv, TypeOK
<1>7. \A m \in ms : owner[m] \in ts
  BY <1>5 DEF GhostInv, RegisteredOwn
<1> HIDE DEF ms, ts
<1>8. /\ call'[c].kind = call[c].kind /\ call'[c].tuns = call[c].tuns /\ call'[c].todo = Rest(c, ts)
      /\ call'[c].held \cup call'[c].taken = ms
      /\ \A d \in Callers \ {c} : call'[d] = call[d]
  <2>1. CASE call' = [Done(c, ts) EXCEPT ![c].held = ms]
    BY <1>4, <1>6, <2>1 DEF GhostInv, TypeOK, Done, Call
  <2>2. CASE call' = [Done(c, ts) EXCEPT ![c].taken = ms]
    BY <1>4, <1>6, <2>2 DEF GhostInv, TypeOK, Done, Call
  <2> QED BY <1>1, <2>1, <2>2
<1>9. \A d \in Callers : (Active(d)' <=> Active(d)) /\ call'[d].tuns = call[d].tuns
  BY <1>8 DEF Active
<1>10. (\A w \in Workers : WorkOK(w)') /\ \A w \in Workers, u \in Tunnels : Toggles(w, u)' => Toggles(w, u)
  BY <1>2, <1>9, WorkStays DEF Callers
<1>11. \A u \in Kernel : u \in Tunnels /\ reg'[u] \in {reg[u], NoMonitor}
  BY <1>1 DEF Kernel
<1>12. ASSUME c \in Handlers
       PROVE  HandlerOK(c)' /\ \A u \in Kernel : ~TellsNext(c, u)
  <2>1. HandlerOK(c)
    BY <1>12 DEF DownInv
  <2>2. CASE t \in native
    <3>1. Kernel \cap call[c].tuns = {}
      BY <1>4, <1>12, <2>1, <2>2, NativeHandler
    <3> QED BY <1>2, <1>8, <3>1 DEF HandlerOK, Kernel, TellsNext
  <2>3. CASE t \in Kernel
    <3>1. /\ call[c].tuns = {t} /\ PlanEnd(call[c].todo, t)
          /\ \A x : t \in x => Rest(c, x) = Tail(call[c].todo)
      BY <1>1, <1>3, <1>12, <2>1, <2>3, HandlerAt
    <3>2. Unwatches(call[c].todo, t) /\ PlanEnd(Tail(call[c].todo), t)
      BY <1>4, <3>1, EndsOfPlans
    <3>3. call'[c].todo = Tail(call[c].todo) /\ Untells(call'[c].todo, t)
      BY <1>4, <1>8, <3>1, <3>2 DEF Unwatches
    <3>4. ~Watches(call'[c].todo, t) /\ reg'[t] = NoMonitor
      BY <1>1, <1>4, <3>3, OneFirst
    <3>5. \A u \in Kernel' : u \in call'[c].tuns => u = t
      BY <1>8, <3>1
    <3>6. HandlerOK(c)'
      BY <1>8, <3>1, <3>2, <3>3, <3>4, <3>5, HandlerNext
    <3>7. ~Tells(call[c].todo, t)
      <4>1. ASSUME NEW s, First(s, "StopMonitoring", t), First(s, "Told", t) PROVE FALSE
        BY <4>1 DEF First
      <4> QED BY <3>2, <4>1 DEF Unwatches, Tells
    <3> QED BY <3>1, <3>6, <3>7 DEF TellsNext
  <2> QED BY <2>2, <2>3 DEF Kernel
<1>13. c \in Requests => Asks(call'[c].todo)
  BY <1>4, <1>8, RequestRest DEF DownInv
<1>14. \A m \in call'[c].held \cup call'[c].taken : owner'[m] \in call'[c].tuns
  BY <1>2, <1>4, <1>7, <1>8
<1>15. untold' \in [Tunnels -> BOOLEAN]
  BY <1>2 DEF DownInv
<1> QED BY <1>2, <1>8, <1>10, <1>11, <1>12, <1>13, <1>14, <1>15, KernelStays

(* The steps of startNwgMonitor: a nativewg tunnel's monitor toggles no    *)
(* kernel link.                                                            *)
LEMMA StartNwgKeepsDown ==
  ASSUME GhostInv, DownInv, NEW c \in Callers, startNwgMonitor(c) PROVE DownInv'
<1>1. PICK t \in native :
         /\ At(c, "StartMonitoring", t)
         /\ IF pingOn[t]
            THEN /\ reg' = [reg EXCEPT ![t] = NoMonitor]
                 /\ call' = [call EXCEPT ![c].todo = Op("RunNwg", {t}) \o Op("RegisterNwg", {t})
                                                        \o Rest(c, {t}),
                                         ![c].taken = {reg[t]} \ {NoMonitor}]
            ELSE call' = Done(c, {t}) /\ UNCHANGED reg
  BY DEF startNwgMonitor
<1>2. UNCHANGED <<native, running, link, flag, owner, untold, crossed, work>>
  BY DEF startNwgMonitor, tunnelVars, history
<1>3. "StartMonitoring" \in OpNames \ NwgHalves
  BY DEF OpNames, NwgHalves
<1>4. /\ Rest(c, {t}) \in Seq(Operation) /\ t \in call[c].tuns /\ t \in Tunnels
      /\ call[c].held = {} /\ call[c].taken = {} /\ Active(c) /\ call[c].todo # <<>>
  BY <1>1, <1>3, AtPlain DEF GhostInv, At
<1>5. call[c] \in Call /\ (c \in Requests => Asks(Rest(c, {t})))
  BY <1>4, RequestRest DEF GhostInv, TypeOK, DownInv
<1> DEFINE all == Op("RunNwg", {t}) \o Op("RegisterNwg", {t}) \o Rest(c, {t})
<1>6. c \in Requests => Asks(all)
  <2>1. {"RunNwg", "RegisterNwg"} \subseteq OpNames \ LifecycleOps /\ {t} \in SUBSET Tunnels
    BY <1>4 DEF OpNames, LifecycleOps
  <2>2. /\ Op("RunNwg", {t}) \in Seq(Operation) /\ Asks(Op("RunNwg", {t}))
        /\ Op("RegisterNwg", {t}) \in Seq(Operation) /\ Asks(Op("RegisterNwg", {t}))
    BY <2>1, AskingOps
  <2>3. LET p == Op("RunNwg", {t}) \o Op("RegisterNwg", {t}) IN p \in Seq(Operation) /\ Asks(p)
    BY <2>2, AskingConcat
  <2> QED BY <1>4, <1>5, <2>3, AskingConcat
<1> HIDE DEF all
<1>7. /\ call'[c].kind = call[c].kind /\ call'[c].tuns = call[c].tuns
      /\ call'[c].todo \in {all, Rest(c, {t})}
      /\ call'[c].held \cup call'[c].taken \subseteq {reg[t]} \ {NoMonitor}
      /\ \A d \in Callers \ {c} : call'[d] = call[d]
  <2>1. CASE pingOn[t]
    <3> DEFINE ms == {reg[t]} \ {NoMonitor}
               r == [call[c] EXCEPT !.todo = all, !.taken = ms]
    <3>1. call' = [call EXCEPT ![c] = r]
      BY <1>1, <2>1 DEF GhostInv, TypeOK, all
    <3>2. call'[c] = r /\ \A d \in Callers \ {c} : call'[d] = call[d]
      BY <3>1 DEF GhostInv, TypeOK
    <3> HIDE DEF ms
    <3>3. r.kind = call[c].kind /\ r.tuns = call[c].tuns /\ r.todo = all /\ r.held = call[c].held /\ r.taken = ms
      BY <1>5 DEF Call
    <3> QED BY <1>4, <3>2, <3>3 DEF ms
  <2>2. CASE ~pingOn[t]
    BY <1>1, <1>4, <1>5, <2>2 DEF GhostInv, TypeOK, Call, Done
  <2> QED BY <2>1, <2>2
<1>8. \A d \in Callers : (Active(d)' <=> Active(d)) /\ call'[d].tuns = call[d].tuns
  BY <1>7 DEF Active
<1>9. (\A w \in Workers : WorkOK(w)') /\ \A w \in Workers, u \in Tunnels : Toggles(w, u)' => Toggles(w, u)
  BY <1>2, <1>8, WorkStays DEF Callers
<1>10. \A u \in Kernel : u \in Tunnels /\ reg'[u] \in {reg[u], NoMonitor}
  BY <1>1 DEF Kernel, GhostInv, TypeOK
<1>11. c \in Handlers => Kernel \cap call[c].tuns = {}
  BY <1>4, NativeHandler DEF DownInv
<1>12. c \in Handlers => HandlerOK(c)' /\ \A u \in Kernel : ~TellsNext(c, u)
  BY <1>2, <1>7, <1>11 DEF HandlerOK, Kernel, TellsNext
<1>13. c \in Requests => Asks(call'[c].todo)
  BY <1>5, <1>6, <1>7
<1>14. \A m \in call'[c].held \cup call'[c].taken : owner'[m] \in call'[c].tuns
  BY <1>2, <1>4, <1>7 DEF GhostInv, RegisteredOwn
<1>15. untold' \in [Tunnels -> BOOLEAN]
  BY <1>2 DEF DownInv
<1> QED BY <1>2, <1>7, <1>9, <1>10, <1>12, <1>13, <1>14, <1>15, KernelStays

(* The caller is in the middle of startNwgMonitor. *)
LEMMA NwgMoved ==
  ASSUME GhostInv, NEW c \in Callers, NEW op \in NwgHalves, NEW t \in native, At(c, op, t),
         NEW m, call' = [Done(c, {t}) EXCEPT ![c].fresh = m]
  PROVE  /\ Active(c) /\ t \in call[c].tuns /\ t \in Tunnels /\ call[c].todo # <<>>
         /\ call'[c].kind = call[c].kind /\ call'[c].tuns = call[c].tuns
         /\ call'[c].todo = Rest(c, {t}) /\ call'[c].held = {} /\ call'[c].taken = {}
         /\ \A d \in Callers \ {c} : call'[d] = call[d]
<1>1. PICK s : s = call[c].todo
  OBVIOUS
<1>2. /\ s \in Seq(Operation) /\ call[c] \in Call /\ s # <<>> /\ Head(s).op = op
      /\ t \in Head(s).on /\ Active(c) /\ call[c].held = {} /\ call[c].taken = {}
  BY <1>1 DEF GhostInv, TypeOK, At, Call
<1>3. ~Plain(s, call[c].tuns)
  <2>1. Len(s) >= 1 /\ Head(s) = s[1]
    BY <1>2
  <2> QED BY <1>2, <2>1 DEF Plain
<1>4. PICK u \in Tunnels, h \in NwgHalves : Head(s) = [op |-> h, on |-> {u}] /\ u \in call[c].tuns
  <2>1. CASE call[c].fresh = NoMonitor
    BY <1>1, <1>3, <2>1, PingAssumption DEF GhostInv, CallOK, Registers, NwgHalves
  <2>2. CASE call[c].fresh \in Monitors /\ call[c].fresh # NoMonitor
    <3>1. Registers(c, s, owner[call[c].fresh]) /\ owner[call[c].fresh] \in Tunnels
      BY <1>1, <1>3, <2>2 DEF GhostInv, CallOK, TypeOK
    <3> QED BY <3>1 DEF Registers, NwgHalves
  <2> QED BY <1>2, <2>1, <2>2 DEF Call, Reference
<1>5. u = t
  BY <1>2, <1>4
<1> DEFINE r == [call[c] EXCEPT !.todo = Rest(c, {t}), !.fresh = m]
<1>6. call' = [call EXCEPT ![c] = r]
  BY DEF GhostInv, TypeOK, Done
<1>7. call'[c] = r /\ \A d \in Callers \ {c} : call'[d] = call[d]
  BY <1>6 DEF GhostInv, TypeOK
<1>8. r.kind = call[c].kind /\ r.tuns = call[c].tuns /\ r.todo = Rest(c, {t}) /\ r.held = call[c].held /\ r.taken = call[c].taken
  BY <1>2 DEF Call
<1> QED BY <1>1, <1>2, <1>4, <1>5, <1>7, <1>8

LEMMA RegisterNwgKeepsDown ==
  ASSUME GhostInv, DownInv, NEW c \in Callers, RegisterNwg(c) PROVE DownInv'
<1>1. PICK t \in native : /\ At(c, "RegisterNwg", t)
                          /\ reg' = [reg EXCEPT ![t] = call[c].fresh]
                          /\ call' = [Done(c, {t}) EXCEPT ![c].fresh = NoMonitor]
  BY DEF RegisterNwg
<1>2. UNCHANGED <<native, running, link, flag, owner, untold, crossed, work>> /\ "RegisterNwg" \in NwgHalves
  BY DEF RegisterNwg, tunnelVars, history, NwgHalves
<1>3. /\ Active(c) /\ t \in call[c].tuns /\ t \in Tunnels /\ call[c].todo # <<>>
      /\ call'[c].kind = call[c].kind /\ call'[c].tuns = call[c].tuns
      /\ call'[c].todo = Rest(c, {t}) /\ call'[c].held = {} /\ call'[c].taken = {}
      /\ \A d \in Callers \ {c} : call'[d] = call[d]
  BY <1>1, <1>2, NwgMoved
<1>4. \A d \in Callers : (Active(d)' <=> Active(d)) /\ call'[d].tuns = call[d].tuns
  BY <1>3 DEF Active
<1>5. (\A w \in Workers : WorkOK(w)') /\ \A w \in Workers, u \in Tunnels : Toggles(w, u)' => Toggles(w, u)
  BY <1>2, <1>4, WorkStays DEF Callers
<1>6. \A u \in Kernel : u \in Tunnels /\ reg'[u] \in {reg[u], NoMonitor}
  BY <1>1 DEF Kernel, GhostInv, TypeOK
<1>7. c \in Handlers => Kernel \cap call[c].tuns = {}
  BY <1>3, NativeHandler DEF DownInv
<1>8. c \in Handlers => HandlerOK(c)' /\ \A u \in Kernel : ~TellsNext(c, u)
  BY <1>2, <1>3, <1>7 DEF HandlerOK, Kernel, TellsNext
<1>9. c \in Requests => Asks(call'[c].todo)
  BY <1>3, RequestRest DEF DownInv
<1>10. untold' \in [Tunnels -> BOOLEAN]
  BY <1>2 DEF DownInv
<1> QED BY <1>2, <1>3, <1>5, <1>6, <1>8, <1>9, <1>10, KernelStays

LEMMA RunNwgKeepsDown ==
  ASSUME GhostInv, DownInv, NEW c \in Callers, RunNwg(c) PROVE DownInv'
<1>0. PICK t \in native : \E m : /\ At(c, "RunNwg", t) /\ Spawn(m, t, "poll")
                                /\ call' = [Done(c, {t}) EXCEPT ![c].fresh = m]
                                /\ untold' = [untold EXCEPT ![t] = @ \/ c \in Requests]
  BY DEF RunNwg
<1>1. PICK m : /\ At(c, "RunNwg", t) /\ Spawn(m, t, "poll")
               /\ call' = [Done(c, {t}) EXCEPT ![c].fresh = m]
               /\ untold' = [untold EXCEPT ![t] = @ \/ c \in Requests]
  BY <1>0
<1>2. UNCHANGED <<native, running, link, flag, reg, crossed>> /\ "RunNwg" \in NwgHalves
  BY DEF RunNwg, tunnelVars, NwgHalves
<1>3. /\ Active(c) /\ t \in call[c].tuns /\ t \in Tunnels /\ call[c].todo # <<>>
      /\ call'[c].kind = call[c].kind /\ call'[c].tuns = call[c].tuns
      /\ call'[c].todo = Rest(c, {t}) /\ call'[c].held = {} /\ call'[c].taken = {}
      /\ \A d \in Callers \ {c} : call'[d] = call[d]
  BY <1>1, <1>2, NwgMoved
<1>4. /\ m \in Monitors /\ m # NoMonitor /\ owner'[m] = t
      /\ \A n \in Monitors \ {m} : owner'[n] = owner[n]
      /\ \A d \in Callers : m \notin call[d].held \cup call[d].taken
  BY <1>1, <1>3, Spawned DEF Places
<1>5. /\ work'[m].on = m /\ \A w \in Workers \ {m} : work'[w] = work[w] /\ work[w].on # m
      /\ m \in Workers
  BY <1>1, <1>4 DEF Spawn, Free, Workers, GhostInv, TypeOK
<1>6. \A d \in Callers : (Active(d)' <=> Active(d)) /\ call'[d].tuns = call[d].tuns
  BY <1>3 DEF Active
<1>7. \A w \in Workers : w # m /\ work[w].pc # "gone" =>
         work[w].on \in Monitors /\ owner'[work[w].on] = owner[work[w].on]
  BY <1>4, <1>5 DEF DownInv, WorkOK
<1>8. \A w \in Workers : WorkOK(w)'
  <2>1. WorkOK(m)'
    BY <1>4, <1>5, PingAssumption DEF WorkOK
  <2>2. ASSUME NEW w \in Workers, w # m PROVE WorkOK(w)'
    <3>1. work'[w] = work[w] /\ WorkOK(w)
      BY <1>5, <2>2 DEF DownInv
    <3> QED BY <1>6, <1>7, <2>2, <3>1 DEF WorkOK, Callers
  <2> QED BY <2>1, <2>2
<1>9. \A w \in Workers, u \in Kernel : Toggles(w, u)' => Toggles(w, u)
  BY <1>4, <1>5, <1>7 DEF Toggles, Kernel
<1>10. \A u \in Kernel : u \in Tunnels /\ reg'[u] \in {reg[u], NoMonitor}
  BY <1>2 DEF Kernel
<1>11. c \in Handlers => Kernel \cap call[c].tuns = {}
  BY <1>3, NativeHandler DEF DownInv
<1>12. c \in Handlers => HandlerOK(c)' /\ \A u \in Kernel : ~TellsNext(c, u)
  BY <1>2, <1>3, <1>11 DEF HandlerOK, Kernel, TellsNext
<1>13. c \in Requests => Asks(call'[c].todo)
  BY <1>3, RequestRest DEF DownInv
<1>14. untold' \in [Tunnels -> BOOLEAN] /\ \A u \in Tunnels : untold[u] => untold'[u]
  BY <1>1, <1>3 DEF DownInv
<1>15. \A d \in Callers : \A n \in call[d].held \cup call[d].taken : owner'[n] = owner[n]
  BY <1>4 DEF GhostInv, TypeOK, Call
<1> QED BY <1>2, <1>3, <1>8, <1>9, <1>10, <1>12, <1>13, <1>14, <1>15, KernelStays

LEMMA DownInvInitially == Init => DownInv
<1> SUFFICES ASSUME Init PROVE DownInv
  OBVIOUS
<1>1. /\ NoCall.kind = "none" /\ NoCall.todo = <<>> /\ NoCall.held = {} /\ NoCall.taken = {}
      /\ NoWork.pc = "gone"
  BY DEF NoCall, NoWork
<1>2. \A c \in Callers : call[c] = NoCall /\ ~Active(c)
  BY <1>1 DEF Init, Active
<1>3. \A w \in Workers : work[w] = NoWork
  BY DEF Init
<1>4. Asks(<<>>)
  BY DEF Asks
<1>5. Known /\ UpWhileRunning
  BY <1>1, <1>3 DEF Init, Known, UpWhileRunning, Toggles
<1>6. HeldOwn /\ (\A w \in Workers : WorkOK(w)) /\ \A h \in Handlers : HandlerOK(h)
  BY <1>1, <1>2, <1>3 DEF HeldOwn, WorkOK, HandlerOK, Callers
<1>7. \A r \in Requests : Asks(call[r].todo)
  BY <1>1, <1>2, <1>4 DEF Callers
<1> QED BY <1>5, <1>6, <1>7 DEF Init, DownInv

LEMMA DownInvStep == GhostInv /\ DownInv /\ [Next]_vars => DownInv'
<1> SUFFICES ASSUME GhostInv, DownInv, [Next]_vars PROVE DownInv'
  OBVIOUS
<1>1. ASSUME NEW c \in Callers, CallStep(c) PROVE DownInv'
  <2>1. CASE c \in Requests /\ TickStep(c)
    BY <2>1, WorkerKeepsDown DEF Workers
  <2>2. CASE c \in Handlers /\ lockTunnel(c)
    BY <2>2, SameCallKeepsDown
  <2> QED
    BY <1>1, <2>1, <2>2, StartKeepsDown, StopKeepsDown, TellKeepsDown, SaveKeepsDown,
       StartMonitoringKeepsDown, StopMonitoringKeepsDown, StartNwgKeepsDown, RunNwgKeepsDown,
       RegisterNwgKeepsDown, SameCallKeepsDown, CheckAllNowKeepsDown, SkipKeepsDown, ReturnKeepsDown
    DEF CallStep
<1>2. CASE \E m \in Monitors : MonitorStep(m)
  BY <1>2, WorkerKeepsDown DEF Workers
<1>3. CASE \E h \in Handlers : Event(h)
  BY <1>3, EventKeepsDown
<1>4. CASE \E r \in Requests : Request(r)
  BY <1>4, RequestKeepsDown
<1>5. CASE UNCHANGED vars
  <2>1. UNCHANGED <<native, running, link, flag, reg, owner, call, crossed, untold, work>>
    BY <1>5 DEF vars, tunnelVars, monVars, history
  <2>2. Known' /\ UpWhileRunning'
    BY <2>1 DEF DownInv, Known, UpWhileRunning, Quiet, Kernel, TellsNext, Tells, First, Toggles, Active
  <2>3. HeldOwn' /\ \A w \in Workers : WorkOK(w)'
    BY <2>1 DEF DownInv, HeldOwn, WorkOK, Active
  <2>4. \A h \in Handlers : HandlerOK(h)'
    BY <2>1, HandlerStays DEF DownInv, Quiet, Kernel, Active
  <2>5. \A r \in Requests : Asks(call[r].todo)'
    BY <2>1 DEF DownInv, Asks
  <2> QED BY <2>1, <2>2, <2>3, <2>4, <2>5 DEF DownInv
<1> QED BY <1>1, <1>2, <1>3, <1>4, <1>5 DEF Next

(* The link of a stopped kernel tunnel stays down (doLinkToggle,           *)
(* Service.StopMonitoring, decideStop): the monitor is stopped, and waited *)
(* for, before the tunnel, and no tick of it is left that could bring the  *)
(* link up, as long as the calls about the tunnel took turns and the       *)
(* orchestrator was told of the monitor.                                   *)
THEOREM StoppedLinkStaysDown == Spec => []StoppedStaysDown
<1>1. DownInv => StoppedStaysDown
  BY DEF DownInv, UpWhileRunning, StoppedStaysDown, Quiet, Kernel
<1> QED BY <1>1, GhostInvInitially, GhostInvStep, DownInvInitially, DownInvStep, PTL DEF Spec

------------------------------------------------------------------------------
(* The monitor of a running tunnel.  While the calls about a tunnel take   *)
(* turns, each kind of call has a course: what it takes from the tunnel it *)
(* gives back later in its list, or it ends with the ping check off or the *)
(* tunnel stopped.                                                         *)

SwitchOn == {"enable", "allon"}
SwitchOff == {"disable", "alloff"}
StartOps == {"StartMonitoring", "StartIfRunning", "StartIfPresent"}

(* The list still has one of ops for t. *)
LeftIn(s, ops, t) == \E i \in 1 .. Len(s) : s[i].op \in ops /\ t \in s[i].on

(* Every one of as for t is followed by one of bs for t. *)
Leads(s, as, bs, t) ==
  \A i \in 1 .. Len(s) : s[i].op \in as /\ t \in s[i].on
    => \E j \in i + 1 .. Len(s) : s[j].op \in bs /\ t \in s[j].on

OnlyOps(s, ops) == \A i \in 1 .. Len(s) : s[i].op \in ops

OpsOf(kind) ==
  CASE kind \in LifecycleKinds -> LifecycleOps \cup NwgHalves \cup {"StopMonitoring", "StartMonitoring"}
    [] kind \in SwitchOn  -> StartOps \cup NwgHalves \cup {"Save", "Refresh"}
    [] kind \in SwitchOff -> {"StopMonitoring", "Save", "Refresh"}
    [] OTHER -> {"CheckNow"}

Asked(c, t) == Active(c) /\ t \in call[c].tuns
Left(c, ops, t) == LeftIn(call[c].todo, ops, t)
TurnsOff(c, t) == Asked(c, t) /\ call[c].kind \in SwitchOff

Course(c, t) ==
  LET s == call[c].todo
      k == call[c].kind
  IN  /\ k \in LifecycleKinds =>
            /\ Leads(s, {"StopMonitoring"}, {"Stop"}, t)
            /\ Leads(s, {"Start"}, {"StartMonitoring"}, t) \/ ~cfgd[t]
      /\ k \in SwitchOn => Leads(s, {"Save", "Refresh"}, StartOps, t)
      /\ k \in SwitchOff => /\ Left(c, {"StopMonitoring"}, t) \/ reg[t] = NoMonitor
                            /\ Left(c, {"Save"}, t) \/ ~pingOn[t]

Courses ==
  \A c \in Callers :
    /\ OnlyOps(call[c].todo, OpsOf(call[c].kind))
    /\ \A t \in Tunnels : Asked(c, t) /\ ~crossed[t] => Course(c, t)

(* The call will give t a monitor, stop it, or store its ping check as off. *)
MendOps == StartOps \cup NwgHalves \cup {"Stop"}
Mends(c, t) == Asked(c, t) /\ (Left(c, MendOps, t) \/ (TurnsOff(c, t) /\ Left(c, {"Save"}, t)))

WatchedAt(t) ==
  (~crossed[t] /\ running[t] /\ pingOn[t] /\ cfgd[t]) =>
    reg[t] # NoMonitor \/ \E c \in Callers : Mends(c, t)

(* The loop of a registered monitor of a kernel tunnel goes on, unless     *)
(* somebody who switches the ping check off is about to unregister it.     *)
RunsAt(t) ==
  (t \in Kernel /\ ~crossed[t] /\ reg[t] # NoMonitor) =>
    \/ pingOn[t] /\ Alive(reg[t])
    \/ \E c \in Callers : TurnsOff(c, t) /\ Left(c, {"StopMonitoring"}, t)

(* A registered monitor, one that is about to be registered, and one that  *)
(* somebody stops are different monitors; only the latter are closed.      *)
Apart ==
  /\ \A c \in Callers : \A m \in call[c].held \cup call[c].taken :
        (\A t \in Tunnels : reg[t] # m) /\ \A d \in Callers : call[d].fresh # m
  /\ \A c \in Callers : call[c].fresh # NoMonitor =>
        /\ \A t \in Tunnels : reg[t] # call[c].fresh
        /\ \A d \in Callers \ {c} : call[d].fresh # call[c].fresh
        /\ call[c].fresh \notin closed /\ Alive(call[c].fresh)
  /\ \A t \in Tunnels : reg[t] # NoMonitor => reg[t] \notin closed

(* A nativewg monitor ends only if it is stopped. *)
NativeRuns ==
  /\ \A m \in Monitors : work[m].pc = "begin" => owner[m] \in Kernel
  /\ \A t \in native : reg[t] # NoMonitor => Alive(reg[t])

SwitchesTyped ==
  /\ running \in [Tunnels -> BOOLEAN] /\ pingOn \in [Tunnels -> BOOLEAN]
  /\ cfgd \in [Tunnels -> BOOLEAN]

OnCourse == SwitchesTyped /\ Courses /\ \A t \in Tunnels : WatchedAt(t) /\ RunsAt(t)

WatchInv == OnCourse /\ Apart /\ NativeRuns

(* A list is its first operation and the rest. *)
LEMMA ConsLeft ==
  ASSUME NEW s \in Seq(Operation), s # <<>>
  PROVE  /\ \A ops, t : LeftIn(s, ops, t) <=>
              (Head(s).op \in ops /\ t \in Head(s).on) \/ LeftIn(Tail(s), ops, t)
         /\ \A as, bs, t : Leads(s, as, bs, t) <=>
              /\ Head(s).op \in as /\ t \in Head(s).on => LeftIn(Tail(s), bs, t)
              /\ Leads(Tail(s), as, bs, t)
         /\ \A ops : OnlyOps(s, ops) <=> Head(s).op \in ops /\ OnlyOps(Tail(s), ops)
<1> DEFINE r == Tail(s)
           n == Len(r)
<1>1. /\ Len(s) = n + 1 /\ n \in Nat /\ Head(s) = s[1]
      /\ \A i \in 1 .. n : r[i] = s[i + 1]
  OBVIOUS
<1> HIDE DEF r
<1>2. ASSUME NEW ops, NEW t
      PROVE  LeftIn(s, ops, t) <=> (s[1].op \in ops /\ t \in s[1].on) \/ LeftIn(r, ops, t)
  <2>1. ASSUME NEW i \in 1 .. n + 1, s[i].op \in ops, t \in s[i].on, i # 1
        PROVE  LeftIn(r, ops, t)
    <3>1. i - 1 \in 1 .. n /\ r[i - 1] = s[(i - 1) + 1] /\ (i - 1) + 1 = i
      BY <1>1, <2>1
    <3> QED BY <2>1, <3>1 DEF LeftIn
  <2>2. ASSUME NEW i \in 1 .. n, r[i].op \in ops, t \in r[i].on PROVE LeftIn(s, ops, t)
    <3>1. i + 1 \in 1 .. Len(s) /\ r[i] = s[i + 1]
      BY <1>1
    <3> QED BY <2>2, <3>1 DEF LeftIn
  <2>3. 1 \in 1 .. Len(s)
    BY <1>1
  <2> QED BY <1>1, <2>1, <2>2, <2>3 DEF LeftIn
<1>3. ASSUME NEW as, NEW bs, NEW t
      PROVE  Leads(s, as, bs, t) <=> /\ s[1].op \in as /\ t \in s[1].on => LeftIn(r, bs, t)
                                     /\ Leads(r, as, bs, t)
  <2>1. ASSUME NEW i \in 0 .. n
        PROVE  (\E j \in i + 2 .. n + 1 : s[j].op \in bs /\ t \in s[j].on)
                 <=> \E j \in i + 1 .. n : r[j].op \in bs /\ t \in r[j].on
    <3>1. ASSUME NEW j \in i + 2 .. n + 1, s[j].op \in bs, t \in s[j].on
          PROVE  \E k \in i + 1 .. n : r[k].op \in bs /\ t \in r[k].on
      <4>1. j - 1 \in i + 1 .. n /\ j - 1 \in 1 .. n /\ (j - 1) + 1 = j
        BY <1>1
      <4> QED BY <1>1, <3>1, <4>1
    <3>2. ASSUME NEW j \in i + 1 .. n, r[j].op \in bs, t \in r[j].on
          PROVE  \E k \in i + 2 .. n + 1 : s[k].op \in bs /\ t \in s[k].on
      <4>1. j + 1 \in i + 2 .. n + 1 /\ j \in 1 .. n
        BY <1>1
      <4> QED BY <1>1, <3>2, <4>1
    <3> QED BY <3>1, <3>2
  <2>2. (\E j \in 2 .. n + 1 : s[j].op \in bs /\ t \in s[j].on) <=> LeftIn(r, bs, t)
    <3>1. 0 \in 0 .. n
      BY <1>1
    <3> QED BY <2>1, <3>1 DEF LeftIn
  <2>3. ASSUME Leads(s, as, bs, t) PROVE (s[1].op \in as /\ t \in s[1].on => LeftIn(r, bs, t)) /\ Leads(r, as, bs, t)
    <3>0. 1 \in 1 .. Len(s) /\ 1 + 1 = 2
      BY <1>1
    <3>1. s[1].op \in as /\ t \in s[1].on => LeftIn(r, bs, t)
      <4>1. s[1].op \in as /\ t \in s[1].on => \E j \in 1 + 1 .. Len(s) : s[j].op \in bs /\ t \in s[j].on
        BY <2>3, <3>0 DEF Leads
      <4> QED BY <1>1, <2>2, <3>0, <4>1
    <3>2. ASSUME NEW i \in 1 .. n, r[i].op \in as, t \in r[i].on
          PROVE  \E j \in i + 1 .. n : r[j].op \in bs /\ t \in r[j].on
      <4>1. i + 1 \in 1 .. Len(s) /\ r[i] = s[i + 1] /\ i \in 0 .. n
        BY <1>1
      <4>2. \E j \in (i + 1) + 1 .. Len(s) : s[j].op \in bs /\ t \in s[j].on
        BY <2>3, <3>2, <4>1 DEF Leads
      <4>3. (i + 1) + 1 = i + 2
        BY <4>1
      <4> QED BY <1>1, <2>1, <4>1, <4>2, <4>3
    <3> QED BY <3>1, <3>2 DEF Leads
  <2>4. ASSUME s[1].op \in as /\ t \in s[1].on => LeftIn(r, bs, t), Leads(r, as, bs, t)
        PROVE  Leads(s, as, bs, t)
    <3> SUFFICES ASSUME NEW i \in 1 .. n + 1, s[i].op \in as, t \in s[i].on
                 PROVE  \E j \in i + 1 .. n + 1 : s[j].op \in bs /\ t \in s[j].on
      BY <1>1 DEF Leads
    <3>1. CASE i = 1
      <4>1. LeftIn(r, bs, t)
        BY <2>4, <3>1
      <4>2. i + 1 = 2
        BY <3>1
      <4> QED BY <2>2, <4>1, <4>2
    <3>2. CASE i # 1
      <4>1. i - 1 \in 1 .. n /\ i - 1 \in 0 .. n /\ r[i - 1] = s[(i - 1) + 1] /\ (i - 1) + 1 = i
            /\ (i - 1) + 2 = i + 1
        BY <1>1, <3>2
      <4>2. \E j \in (i - 1) + 1 .. n : r[j].op \in bs /\ t \in r[j].on
        BY <2>4, <4>1 DEF Leads
      <4> QED BY <2>1, <4>1, <4>2
    <3> QED BY <3>1, <3>2
  <2> QED BY <2>3, <2>4
<1>4. ASSUME NEW ops PROVE OnlyOps(s, ops) <=> s[1].op \in ops /\ OnlyOps(r, ops)
  <2>1. \A i \in 1 .. n + 1 : i = 1 \/ (i - 1 \in 1 .. n /\ (i - 1) + 1 = i)
    BY <1>1
  <2>2. \A i \in 1 .. n : i + 1 \in 1 .. n + 1
    BY <1>1
  <2>3. 1 \in 1 .. n + 1
    BY <1>1
  <2> QED BY <1>1, <2>1, <2>2, <2>3 DEF OnlyOps
<1> QED BY <1>1, <1>2, <1>3, <1>4 DEF r

LEMMA NoneLeft ==
  /\ \A ops, t : ~LeftIn(<<>>, ops, t)
  /\ \A as, bs, t : Leads(<<>>, as, bs, t)
  /\ \A ops : OnlyOps(<<>>, ops)
BY DEF LeftIn, Leads, OnlyOps

LEMMA OneLeft ==
  ASSUME NEW n \in OpNames, NEW on \in SUBSET Tunnels
  PROVE  /\ Op(n, on) \in Seq(Operation)
         /\ \A ops, t : LeftIn(Op(n, on), ops, t) <=> n \in ops /\ t \in on
         /\ \A as, bs, t : Leads(Op(n, on), as, bs, t) <=> ~(n \in as /\ t \in on)
         /\ \A ops : OnlyOps(Op(n, on), ops) <=> n \in ops
<1> DEFINE s == Op(n, on)
<1>1. [op |-> n, on |-> on] \in Operation
  BY DEF Operation
<1>2. s \in Seq(Operation) /\ s # <<>> /\ Head(s) = [op |-> n, on |-> on] /\ Tail(s) = <<>>
  BY <1>1 DEF Op
<1>3. Head(s).op = n /\ Head(s).on = on
  BY <1>2
<1> HIDE DEF s
<1>4. ASSUME NEW ops, NEW t PROVE LeftIn(s, ops, t) <=> n \in ops /\ t \in on
  <2>1. LeftIn(s, ops, t) <=> (Head(s).op \in ops /\ t \in Head(s).on) \/ LeftIn(Tail(s), ops, t)
    BY <1>2, ConsLeft
  <2> QED BY <1>2, <1>3, <2>1, NoneLeft
<1>5. ASSUME NEW as, NEW bs, NEW t PROVE Leads(s, as, bs, t) <=> ~(n \in as /\ t \in on)
  <2>1. Leads(s, as, bs, t) <=> /\ Head(s).op \in as /\ t \in Head(s).on => LeftIn(Tail(s), bs, t)
                                /\ Leads(Tail(s), as, bs, t)
    BY <1>2, ConsLeft
  <2>2. Leads(Tail(s), as, bs, t) /\ ~LeftIn(Tail(s), bs, t)
    BY <1>2, NoneLeft
  <2> QED BY <1>3, <2>1, <2>2
<1>6. \A ops : OnlyOps(s, ops) <=> n \in ops
  BY <1>2, <1>3, ConsLeft, NoneLeft
<1> QED BY <1>2, <1>4, <1>5, <1>6 DEF s

(* Lists put together. *)
LEMMA ConcatLeft ==
  ASSUME NEW p \in Seq(Operation), NEW q \in Seq(Operation)
  PROVE  /\ p \o q \in Seq(Operation)
         /\ \A ops, t : LeftIn(p \o q, ops, t) <=> LeftIn(p, ops, t) \/ LeftIn(q, ops, t)
         /\ \A as, bs, t : /\ Leads(q, as, bs, t)
                           /\ Leads(p, as, bs, t) \/ LeftIn(q, bs, t)
                           => Leads(p \o q, as, bs, t)
         /\ \A ops : OnlyOps(p, ops) /\ OnlyOps(q, ops) => OnlyOps(p \o q, ops)
<1> DEFINE s == p \o q
           n == Len(p)
           k == Len(q)
<1>1. /\ s \in Seq(Operation) /\ Len(s) = n + k /\ n \in Nat /\ k \in Nat
      /\ \A i \in 1 .. n : s[i] = p[i]
      /\ \A i \in 1 .. k : s[n + i] = q[i]
  <2>1. /\ s \in Seq(Operation) /\ Len(s) = n + k /\ n \in Nat /\ k \in Nat
        /\ \A i \in 1 .. n + k : s[i] = IF i <= n THEN p[i] ELSE q[i - n]
    BY ConcatProperties
  <2>2. \A i \in 1 .. n : i \in 1 .. n + k /\ i <= n
    BY <2>1
  <2>3. \A i \in 1 .. k : n + i \in 1 .. n + k /\ ~(n + i <= n) /\ (n + i) - n = i
    BY <2>1
  <2> HIDE DEF s
  <2> QED BY <2>1, <2>2, <2>3
<1> HIDE DEF s
<1>2. \A i \in 1 .. n + k : i \in 1 .. n \/ (i - n \in 1 .. k /\ n + (i - n) = i)
  BY <1>1
<1>3. (\A i \in 1 .. n : i \in 1 .. n + k) /\ \A i \in 1 .. k : n + i \in 1 .. n + k
  BY <1>1
<1>4. ASSUME NEW ops, NEW t PROVE LeftIn(s, ops, t) <=> LeftIn(p, ops, t) \/ LeftIn(q, ops, t)
  <2>1. ASSUME NEW i \in 1 .. n + k, s[i].op \in ops, t \in s[i].on
        PROVE  LeftIn(p, ops, t) \/ LeftIn(q, ops, t)
    BY <1>1, <1>2, <2>1 DEF LeftIn
  <2>2. ASSUME LeftIn(p, ops, t) \/ LeftIn(q, ops, t) PROVE LeftIn(s, ops, t)
    BY <1>1, <1>3, <2>2 DEF LeftIn
  <2> QED BY <1>1, <2>1, <2>2 DEF LeftIn
<1>5. ASSUME NEW as, NEW bs, NEW t, Leads(q, as, bs, t), Leads(p, as, bs, t) \/ LeftIn(q, bs, t)
      PROVE  Leads(s, as, bs, t)
  <2> SUFFICES ASSUME NEW i \in 1 .. n + k, s[i].op \in as, t \in s[i].on
               PROVE  \E j \in i + 1 .. n + k : s[j].op \in bs /\ t \in s[j].on
    BY <1>1 DEF Leads
  <2>1. CASE i \in 1 .. n
    <3>1. CASE LeftIn(q, bs, t)
      <4>1. PICK j \in 1 .. k : q[j].op \in bs /\ t \in q[j].on
        BY <3>1 DEF LeftIn
      <4>2. n + j \in i + 1 .. n + k /\ s[n + j] = q[j]
        BY <1>1, <2>1
      <4> QED BY <4>1, <4>2
    <3>2. CASE Leads(p, as, bs, t)
      <4>1. PICK j \in i + 1 .. n : p[j].op \in bs /\ t \in p[j].on
        BY <1>1, <2>1, <3>2 DEF Leads
      <4>2. j \in i + 1 .. n + k /\ j \in 1 .. n
        BY <1>1, <2>1
      <4> QED BY <1>1, <4>1, <4>2
    <3> QED BY <1>5, <3>1, <3>2
  <2>2. CASE i - n \in 1 .. k /\ n + (i - n) = i
    <3>1. q[i - n].op \in as /\ t \in q[i - n].on
      BY <1>1, <2>2
    <3>2. PICK j \in (i - n) + 1 .. k : q[j].op \in bs /\ t \in q[j].on
      BY <1>5, <2>2, <3>1 DEF Leads
    <3>3. j \in 1 .. k /\ n + j \in i + 1 .. n + k
      BY <1>1, <2>2
    <3> QED BY <1>1, <3>2, <3>3
  <2> QED BY <1>2, <2>1, <2>2
<1>6. ASSUME NEW ops, OnlyOps(p, ops), OnlyOps(q, ops) PROVE OnlyOps(s, ops)
  BY <1>1, <1>2, <1>6 DEF OnlyOps
<1> QED BY <1>1, <1>4, <1>5, <1>6 DEF s

(* What is left when an operation ran for the tunnels ts. *)
LEMMA RestLeft ==
  ASSUME TypeOK, NEW c \in Callers, NEW op, NEW t, At(c, op, t), NEW ts
  PROVE  /\ Rest(c, ts) \in Seq(Operation) /\ call[c].todo \in Seq(Operation)
         /\ \A ops, u : LeftIn(call[c].todo, ops, u) /\ (op \notin ops \/ u \notin ts)
               => LeftIn(Rest(c, ts), ops, u)
         /\ \A as, bs, u : Leads(call[c].todo, as, bs, u) =>
               /\ Leads(Rest(c, ts), as, bs, u)
               /\ op \in as /\ u \in Head(call[c].todo).on => LeftIn(Rest(c, ts), bs, u)
         /\ \A ops : OnlyOps(call[c].todo, ops) => OnlyOps(Rest(c, ts), ops) /\ op \in ops
<1> DEFINE s == call[c].todo
           r == Op(op, Head(s).on \ ts) \o Tail(s)
<1>1. s \in Seq(Operation) /\ s # <<>> /\ Head(s).op = op
  BY DEF TypeOK, Call, At
<1>2. Head(s) \in Operation /\ Tail(s) \in Seq(Operation)
  BY <1>1
<1>3. op \in OpNames /\ Head(s).on \ ts \in SUBSET Tunnels
  BY <1>1, <1>2 DEF Operation
<1>4. /\ r \in Seq(Operation) /\ r # <<>> /\ Head(r) = [op |-> op, on |-> Head(s).on \ ts]
      /\ Tail(r) = Tail(s)
  BY <1>2, <1>3, InFront
<1>6. Rest(c, ts) = IF Head(s).on \subseteq ts THEN Tail(s) ELSE r
  BY <1>1 DEF Rest
<1> HIDE DEF s, r
<1>5. Head(r).op = op /\ Head(r).on = Head(s).on \ ts
  BY <1>4
<1>7. CASE Head(s).on \subseteq ts
  BY <1>1, <1>2, <1>6, <1>7, ConsLeft DEF s
<1>8. CASE ~(Head(s).on \subseteq ts)
  <2>1. Rest(c, ts) = r
    BY <1>6, <1>8
  <2> HIDE DEF Rest
  <2>2. \A ops, u : LeftIn(s, ops, u) /\ (op \notin ops \/ u \notin ts) => LeftIn(r, ops, u)
    BY <1>1, <1>4, <1>5, ConsLeft
  <2>3. ASSUME NEW as, NEW bs, NEW u, Leads(s, as, bs, u)
        PROVE  Leads(r, as, bs, u) /\ (op \in as /\ u \in Head(s).on => LeftIn(r, bs, u))
    <3>1. /\ op \in as /\ u \in Head(s).on => LeftIn(Tail(s), bs, u)
          /\ Leads(Tail(s), as, bs, u)
      BY <1>1, <2>3, ConsLeft
    <3>2. LeftIn(Tail(s), bs, u) => LeftIn(r, bs, u)
      BY <1>4, ConsLeft
    <3>3. (op \in as /\ u \in Head(s).on \ ts => LeftIn(Tail(s), bs, u)) => Leads(r, as, bs, u)
      BY <1>4, <1>5, <3>1, ConsLeft
    <3> QED BY <3>1, <3>2, <3>3
  <2>4. \A ops : OnlyOps(s, ops) => OnlyOps(r, ops) /\ op \in ops
    BY <1>1, <1>4, <1>5, ConsLeft
  <2> QED BY <1>1, <1>4, <2>1, <2>2, <2>3, <2>4 DEF s
<1> QED BY <1>7, <1>8

(* The plans the calls begin with keep to the course. *)
LEMMA LifecycleCourse ==
  ASSUME NEW t \in Tunnels, NEW kind \in LifecycleKinds
  PROVE  /\ Plan(kind, t) \in Seq(Operation)
         /\ OnlyOps(Plan(kind, t), OpsOf(kind))
         /\ Leads(Plan(kind, t), {"StopMonitoring"}, {"Stop"}, t)
         /\ Leads(Plan(kind, t), {"Start"}, {"StartMonitoring"}, t) \/ ~cfgd[t]
<1> DEFINE One(n) == Op(n, {t})
           ops == OpsOf(kind)
           a1 == {"StopMonitoring"}
           b1 == {"Stop"}
           a2 == {"Start"}
           b2 == {"StartMonitoring"}
           Good(s) == s \in Seq(Operation) /\ OnlyOps(s, ops) /\ Leads(s, a1, b1, t)
           Better(s) == Good(s) /\ (Leads(s, a2, b2, t) \/ ~cfgd[t])
<1>1. ops = LifecycleOps \cup NwgHalves \cup {"StopMonitoring", "StartMonitoring"}
  BY DEF OpsOf, LifecycleKinds, SwitchOn, SwitchOff
<1>2. {"Start", "Stop", "Told", "Untold", "StartMonitoring", "StopMonitoring"} \subseteq OpNames \cap ops
  BY <1>1 DEF OpNames, LifecycleOps
<1>3. ASSUME NEW n \in OpNames \cap ops
      PROVE  /\ One(n) \in Seq(Operation) /\ OnlyOps(One(n), ops)
             /\ n # "StopMonitoring" => Leads(One(n), a1, b1, t)
             /\ n # "Start" => Leads(One(n), a2, b2, t)
             /\ n = "Stop" => LeftIn(One(n), b1, t)
             /\ n = "StartMonitoring" => LeftIn(One(n), b2, t)
  BY <1>3, OneLeft
<1> HIDE DEF ops
<1>4. Better(StartPlan(t))
  <2> DEFINE w == One("StartMonitoring") \o One("Told")
  <2>1. Good(w) /\ LeftIn(w, b2, t) /\ Leads(w, a2, b2, t)
    BY <1>2, <1>3, ConcatLeft
  <2>2. Good(One("Start"))
    BY <1>2, <1>3
  <2>3. CASE cfgd[t]
    <3>1. StartPlan(t) = One("Start") \o w
      BY <2>3 DEF StartPlan
    <3> HIDE DEF w
    <3> QED BY <2>1, <2>2, <3>1, ConcatLeft
  <2>4. CASE ~cfgd[t]
    <3>1. StartPlan(t) = One("Start") \o <<>> /\ <<>> \in Seq(Operation)
      BY <2>4 DEF StartPlan
    <3> QED BY <2>2, <2>4, <3>1, ConcatLeft, NoneLeft
  <2> QED BY <2>3, <2>4
<1>5. Better(StopPlan(t)) /\ Leads(StopPlan(t), a2, b2, t)
  <2> DEFINE v == One("StopMonitoring") \o One("Untold")
             x == IF flag[t] THEN v ELSE <<>>
  <2>1. v \in Seq(Operation) /\ OnlyOps(v, ops) /\ Leads(v, a2, b2, t)
    BY <1>2, <1>3, ConcatLeft
  <2>2. <<>> \in Seq(Operation)
    OBVIOUS
  <2>3. StopPlan(t) = x \o One("Stop")
    BY DEF StopPlan
  <2> HIDE DEF v
  <2>4. x \in Seq(Operation) /\ OnlyOps(x, ops) /\ Leads(x, a2, b2, t)
    BY <2>1, <2>2, NoneLeft
  <2> HIDE DEF x
  <2>5. Good(One("Stop")) /\ LeftIn(One("Stop"), b1, t) /\ Leads(One("Stop"), a2, b2, t)
    BY <1>2, <1>3
  <2> DEFINE z == One("Stop")
  <2> HIDE DEF z
  <2>6. /\ x \o z \in Seq(Operation) /\ OnlyOps(x \o z, ops)
        /\ Leads(x \o z, a1, b1, t) /\ Leads(x \o z, a2, b2, t)
    BY <2>4, <2>5, ConcatLeft DEF z
  <2> QED BY <2>3, <2>6 DEF z
<1>6. Better(RestartPlan(t))
  <2> DEFINE x == IF running[t] THEN StopPlan(t) ELSE <<>>
  <2>1. RestartPlan(t) = x \o StartPlan(t) /\ <<>> \in Seq(Operation)
    BY DEF RestartPlan
  <2>2. Good(x) /\ Leads(x, a2, b2, t)
    BY <1>5, <2>1, NoneLeft
  <2> HIDE DEF x
  <2> QED BY <1>4, <2>1, <2>2, ConcatLeft
<1>7. Better(Plan(kind, t))
  BY <1>4, <1>5, <1>6 DEF Plan, LifecycleKinds
<1> QED BY <1>7 DEF ops

LEMMA SwitchCourse ==
  ASSUME GhostInv, NEW kind \in TunnelKinds \cup GlobalKinds, NEW ts, NEW s,
         \/ kind \in TunnelKinds /\ \E t \in Tunnels : ts = {t} /\ s = TogglePlan(kind, t)
         \/ kind \in GlobalKinds /\ ts = Tunnels /\ s = GlobalPlan(kind)
  PROVE  /\ s \in Seq(Operation)
         /\ OnlyOps(s, OpsOf(kind))
         /\ \A t \in ts : kind \in SwitchOn => Leads(s, {"Save", "Refresh"}, StartOps, t)
         /\ \A t \in ts : kind \in SwitchOff => LeftIn(s, {"StopMonitoring"}, t) /\ LeftIn(s, {"Save"}, t)
<1> DEFINE ops == OpsOf(kind)
           a == {"Save", "Refresh"}
<1>1. {"Save", "Refresh", "StartIfRunning", "StartIfPresent", "StartMonitoring", "StopMonitoring",
       "CheckNow"} \subseteq OpNames
  BY DEF OpNames
<1>2. /\ native \in SUBSET Tunnels /\ Kernel \in SUBSET Tunnels /\ native \cup Kernel = Tunnels
      /\ Tunnels \in SUBSET Tunnels /\ native \cap Kernel = {}
  BY DEF Kernel, GhostInv, TypeOK
<1>3. /\ kind \in SwitchOn => ops = StartOps \cup NwgHalves \cup {"Save", "Refresh"}
      /\ kind \in SwitchOff => ops = {"StopMonitoring", "Save", "Refresh"}
      /\ kind = "checknow" => ops = {"CheckNow"}
  BY DEF OpsOf, SwitchOn, SwitchOff, LifecycleKinds
<1> HIDE DEF ops
<1>4. CASE kind \in TunnelKinds
  <2>1. PICK t \in Tunnels : ts = {t} /\ s = TogglePlan(kind, t)
    BY <1>4 DEF TunnelKinds, GlobalKinds
  <2> DEFINE One(n) == Op(n, {t})
             store == One("Save") \o One("Refresh")
  <2>2. ASSUME NEW n \in OpNames
        PROVE  /\ One(n) \in Seq(Operation) /\ (n \in ops => OnlyOps(One(n), ops))
               /\ n \notin a => Leads(One(n), a, StartOps, t)
               /\ n \in StartOps => LeftIn(One(n), StartOps, t)
               /\ LeftIn(One(n), {n}, t)
    BY <2>2, OneLeft
  <2>3. store \in Seq(Operation) /\ LeftIn(store, {"Save"}, t)
        /\ (kind \in SwitchOn \cup SwitchOff => OnlyOps(store, ops))
    BY <1>1, <1>3, <2>2, ConcatLeft
  <2>4. CASE kind = "enable"
    <3>1. PICK n \in {"StartIfRunning", "StartMonitoring"} : s = store \o One(n)
      BY <2>1, <2>4, <1>2 DEF TogglePlan
    <3>2. n \in OpNames /\ n \in StartOps /\ n \notin a /\ n \in ops /\ kind \in SwitchOn /\ kind \notin SwitchOff
      BY <1>1, <1>3, <2>4 DEF StartOps, SwitchOn, SwitchOff
    <3> DEFINE z == One(n)
    <3>3. z \in Seq(Operation) /\ OnlyOps(z, ops) /\ Leads(z, a, StartOps, t) /\ LeftIn(z, StartOps, t)
      BY <2>2, <3>2
    <3>4. s = store \o z
      BY <3>1
    <3> HIDE DEF store, z
    <3>5. s \in Seq(Operation) /\ OnlyOps(s, ops) /\ Leads(s, a, StartOps, t)
      BY <2>3, <3>2, <3>3, <3>4, ConcatLeft
    <3> QED BY <2>1, <3>2, <3>5 DEF ops
  <2>5. CASE kind = "disable"
    <3>1. \/ s = store \o One("StopMonitoring") \/ s = One("StopMonitoring") \o store
      BY <2>1, <2>5, <1>2 DEF TogglePlan
    <3>2. "StopMonitoring" \in OpNames /\ "StopMonitoring" \in ops /\ kind \in SwitchOff /\ kind \notin SwitchOn
      BY <1>1, <1>3, <2>5 DEF SwitchOn, SwitchOff
    <3>3. LeftIn(One("StopMonitoring"), {"StopMonitoring"}, t) /\ One("StopMonitoring") \in Seq(Operation)
          /\ OnlyOps(One("StopMonitoring"), ops)
      BY <2>2, <3>2
    <3> DEFINE z == One("StopMonitoring")
    <3> HIDE DEF store, z
    <3>4. \/ s = store \o z \/ s = z \o store
      BY <3>1 DEF z
    <3>5. s \in Seq(Operation) /\ OnlyOps(s, ops) /\ LeftIn(s, {"StopMonitoring"}, t) /\ LeftIn(s, {"Save"}, t)
      <4>1. z \in Seq(Operation) /\ OnlyOps(z, ops) /\ LeftIn(z, {"StopMonitoring"}, t)
        BY <3>3 DEF z
      <4>2. store \in Seq(Operation) /\ LeftIn(store, {"Save"}, t) /\ OnlyOps(store, ops)
        BY <2>3, <3>2
      <4>3. CASE s = store \o z
        BY <4>1, <4>2, <4>3, ConcatLeft
      <4>4. CASE s = z \o store
        BY <4>1, <4>2, <4>4, ConcatLeft
      <4> QED BY <3>4, <4>3, <4>4
    <3> QED BY <2>1, <3>2, <3>5 DEF ops
  <2> QED BY <1>4, <2>4, <2>5 DEF TunnelKinds
<1>5. CASE kind \in GlobalKinds
  <2>1. ts = Tunnels /\ s = GlobalPlan(kind)
    BY <1>5 DEF TunnelKinds, GlobalKinds
  <2>2. ASSUME NEW n \in OpNames, NEW on \in {native, Kernel, Tunnels}
        PROVE  /\ Op(n, on) \in Seq(Operation) /\ (n \in ops => OnlyOps(Op(n, on), ops))
               /\ n \notin a => \A t : Leads(Op(n, on), a, StartOps, t)
               /\ \A t \in on : n \in StartOps => LeftIn(Op(n, on), StartOps, t)
               /\ \A t \in on : LeftIn(Op(n, on), {n}, t)
    BY <1>2, <2>2, OneLeft
  <2>3. CASE kind = "allon"
    <3> DEFINE p == Op("Save", Tunnels)
               q == Op("StartIfPresent", Kernel)
               r == Op("StartMonitoring", native)
    <3>1. kind \in SwitchOn /\ kind \notin SwitchOff /\ {"Save", "StartIfPresent", "StartMonitoring"} \subseteq ops
          /\ {"StartIfPresent", "StartMonitoring"} \subseteq StartOps
      BY <1>3, <2>3 DEF SwitchOn, SwitchOff, StartOps
    <3>2. /\ p \in Seq(Operation) /\ q \in Seq(Operation) /\ r \in Seq(Operation)
          /\ OnlyOps(p, ops) /\ OnlyOps(q, ops) /\ OnlyOps(r, ops)
          /\ \A t : Leads(q, a, StartOps, t) /\ Leads(r, a, StartOps, t)
          /\ \A t \in Kernel : LeftIn(q, StartOps, t)
          /\ \A t \in native : LeftIn(r, StartOps, t)
      BY <1>1, <2>2, <3>1
    <3>3. s = (p \o q) \o r
      BY <2>1, <2>3 DEF GlobalPlan
    <3> HIDE DEF p, q, r
    <3>4. p \o q \in Seq(Operation) /\ OnlyOps(p \o q, ops) /\ \A t \in Kernel : Leads(p \o q, a, StartOps, t)
      BY <3>2, ConcatLeft
    <3>5. s \in Seq(Operation) /\ OnlyOps(s, ops)
      BY <3>2, <3>3, <3>4, ConcatLeft
    <3>6. ASSUME NEW t \in Tunnels PROVE Leads(s, a, StartOps, t)
      <4>1. Leads(r, a, StartOps, t) /\ (Leads(p \o q, a, StartOps, t) \/ LeftIn(r, StartOps, t))
        BY <1>2, <3>2, <3>4
      <4> QED BY <3>2, <3>3, <3>4, <4>1, ConcatLeft
    <3> QED BY <2>1, <3>1, <3>5, <3>6 DEF ops
  <2>4. CASE kind = "alloff"
    <3> DEFINE p == Op("StopMonitoring", Kernel)
               q == Op("StopMonitoring", native)
               r == Op("Save", Tunnels)
    <3>1. kind \in SwitchOff /\ kind \notin SwitchOn /\ {"Save", "StopMonitoring"} \subseteq ops
      BY <1>3, <2>4 DEF SwitchOn, SwitchOff
    <3>2. /\ p \in Seq(Operation) /\ q \in Seq(Operation) /\ r \in Seq(Operation)
          /\ OnlyOps(p, ops) /\ OnlyOps(q, ops) /\ OnlyOps(r, ops)
          /\ \A t \in Kernel : LeftIn(p, {"StopMonitoring"}, t)
          /\ \A t \in native : LeftIn(q, {"StopMonitoring"}, t)
          /\ \A t \in Tunnels : LeftIn(r, {"Save"}, t)
      BY <1>1, <2>2, <3>1
    <3>3. s = (p \o q) \o r
      BY <2>1, <2>4 DEF GlobalPlan
    <3> HIDE DEF p, q, r
    <3>4. p \o q \in Seq(Operation) /\ OnlyOps(p \o q, ops)
          /\ \A t \in Tunnels : LeftIn(p \o q, {"StopMonitoring"}, t)
      BY <1>2, <3>2, ConcatLeft
    <3>5. s \in Seq(Operation) /\ OnlyOps(s, ops)
          /\ \A t \in Tunnels : LeftIn(s, {"StopMonitoring"}, t) /\ LeftIn(s, {"Save"}, t)
      <4> DEFINE x == p \o q
      <4>1. s = x \o r /\ x \in Seq(Operation) /\ OnlyOps(x, ops)
            /\ \A t \in Tunnels : LeftIn(x, {"StopMonitoring"}, t)
        BY <3>3, <3>4
      <4> HIDE DEF x
      <4> QED BY <3>2, <4>1, ConcatLeft
    <3> QED BY <2>1, <3>1, <3>5 DEF ops
  <2>5. CASE kind = "checknow"
    BY <1>1, <1>3, <2>1, <2>2, <2>5 DEF GlobalPlan, SwitchOn, SwitchOff, ops
  <2> QED BY <1>5, <2>3, <2>4, <2>5 DEF GlobalKinds
<1> QED BY <1>4, <1>5 DEF ops

(* Two calls about an uncrossed tunnel are one call. *)
LEMMA OneAsks ==
  ASSUME Crossing, NEW t, NEW c \in Callers, NEW d \in Callers, Asked(c, t), Asked(d, t), ~crossed[t]
  PROVE  c = d
BY DEF Crossing, Asked

(* A caller's turn: the tunnels it is not about are as they were, and what *)
(* remains to be shown is about the ones it is about.                      *)
LEMMA CallerTurn ==
  ASSUME GhostInv, OnCourse, NEW c \in Callers, Active(c), UNCHANGED <<native, crossed>>,
         call'[c].kind = call[c].kind, call'[c].tuns = call[c].tuns,
         \A d \in Callers \ {c} : call'[d] = call[d],
         SwitchesTyped', OnlyOps(call'[c].todo, OpsOf(call[c].kind)),
         \A t \in Tunnels \ call[c].tuns :
            reg'[t] = reg[t] /\ pingOn'[t] = pingOn[t] /\ cfgd'[t] = cfgd[t] /\ running'[t] = running[t],
         \A m \in Monitors : Alive(m) => Alive(m)',
         \A t \in call[c].tuns : ~crossed[t] => Course(c, t)' /\ WatchedAt(t)' /\ RunsAt(t)'
  PROVE  OnCourse'
<1>1. \A d \in Callers : (Active(d)' <=> Active(d)) /\ call'[d].tuns = call[d].tuns /\ call'[d].kind = call[d].kind
  BY DEF Active
<1>2. \A d \in Callers : \A t : Asked(d, t)' <=> Asked(d, t)
  BY <1>1 DEF Asked
<1>3. \A d \in Callers \ {c} : \A ops, t : Left(d, ops, t)' <=> Left(d, ops, t)
  BY DEF Left, LeftIn
<1>4. ASSUME NEW d \in Callers PROVE OnlyOps(call'[d].todo, OpsOf(call'[d].kind))
  <2>1. CASE d = c
    BY <1>1, <2>1
  <2>2. CASE d # c
    BY <2>2 DEF OnCourse, Courses
  <2> QED BY <2>1, <2>2
<1>5. ASSUME NEW d \in Callers, d # c, NEW t \in Tunnels, Asked(d, t)', ~crossed'[t]
      PROVE  Course(d, t)'
  <2>1. Asked(d, t) /\ ~crossed[t] /\ Course(d, t)
    BY <1>2, <1>5 DEF OnCourse, Courses
  <2>2. t \notin call[c].tuns
    BY <1>5, <2>1, OneAsks DEF Asked, GhostInv
  <2>3. reg'[t] = reg[t] /\ pingOn'[t] = pingOn[t] /\ cfgd'[t] = cfgd[t] /\ call'[d] = call[d]
    BY <1>5, <2>2
  <2> QED BY <2>1, <2>3 DEF Course, Left, LeftIn, Leads
<1>6. ASSUME NEW t \in Tunnels PROVE WatchedAt(t)' /\ RunsAt(t)'
  <2>1. CASE crossed[t]
    BY <2>1 DEF WatchedAt, RunsAt
  <2>2. CASE t \in call[c].tuns /\ ~crossed[t]
    BY <2>2
  <2>3. CASE t \notin call[c].tuns /\ ~crossed[t]
    <3>1. /\ reg'[t] = reg[t] /\ pingOn'[t] = pingOn[t] /\ cfgd'[t] = cfgd[t] /\ running'[t] = running[t]
          /\ WatchedAt(t) /\ RunsAt(t)
      BY <2>3 DEF OnCourse
    <3>2. \A d \in Callers : Mends(d, t) => Mends(d, t)'
      BY <1>1, <1>2, <1>3, <2>3 DEF Mends, TurnsOff, Asked
    <3>3. \A d \in Callers : TurnsOff(d, t) /\ Left(d, {"StopMonitoring"}, t)
                                => TurnsOff(d, t)' /\ Left(d, {"StopMonitoring"}, t)'
      BY <1>1, <1>2, <1>3, <2>3 DEF TurnsOff, Asked
    <3>4. reg[t] # NoMonitor => reg[t] \in Monitors
      BY DEF GhostInv, TypeOK, Reference
    <3>5. WatchedAt(t)'
      BY <3>1, <3>2 DEF WatchedAt
    <3>6. RunsAt(t)'
      BY <3>1, <3>3, <3>4 DEF RunsAt, Kernel, Alive
    <3> QED BY <3>5, <3>6
  <2> QED BY <2>1, <2>2, <2>3
<1>7. Courses'
  <2> SUFFICES ASSUME NEW d \in Callers
               PROVE  /\ OnlyOps(call'[d].todo, OpsOf(call'[d].kind))
                      /\ \A t \in Tunnels : Asked(d, t)' /\ ~crossed'[t] => Course(d, t)'
    BY DEF Courses
  <2>1. CASE d = c
    BY <1>2, <1>4, <2>1 DEF Asked
  <2>2. CASE d # c
    BY <1>4, <1>5, <2>2
  <2> QED BY <2>1, <2>2
<1> QED BY <1>6, <1>7 DEF OnCourse

(* A caller that moves on, and the tunnel u of its call. *)
MovesOn(c) ==
  /\ call'[c].kind = call[c].kind /\ call'[c].tuns = call[c].tuns
  /\ \A d \in Callers \ {c} : call'[d] = call[d]

SameAt(u) == reg'[u] = reg[u] /\ pingOn'[u] = pingOn[u] /\ cfgd'[u] = cfgd[u] /\ running'[u] = running[u]

LEMMA Untouched ==
  ASSUME GhostInv, OnCourse, NEW c \in Callers, Active(c), MovesOn(c), UNCHANGED <<native, crossed>>,
         \A m \in Monitors : Alive(m) => Alive(m)',
         NEW u \in call[c].tuns, ~crossed[u], SameAt(u),
         \A ops \in {MendOps, {"Save"}, {"StopMonitoring"}} :
            LeftIn(call[c].todo, ops, u) => LeftIn(call'[c].todo, ops, u),
         \A as, bs : Leads(call[c].todo, as, bs, u) => Leads(call'[c].todo, as, bs, u)
  PROVE  Course(c, u)' /\ WatchedAt(u)' /\ RunsAt(u)'
<1>1. u \in Tunnels
  BY DEF GhostInv, TypeOK, Call
<1>2. Course(c, u) /\ WatchedAt(u) /\ RunsAt(u)
  BY <1>1 DEF OnCourse, Courses, Asked
<1>3. \A ops \in {MendOps, {"Save"}, {"StopMonitoring"}} : Left(c, ops, u) => Left(c, ops, u)'
  BY DEF Left, LeftIn
<1>4. \A as, bs : Leads(call[c].todo, as, bs, u) => Leads(call[c].todo, as, bs, u)'
  BY DEF Leads
<1>5. Course(c, u)'
  <2>1. {"Save"} \in {MendOps, {"Save"}, {"StopMonitoring"}} /\ {"StopMonitoring"} \in {MendOps, {"Save"}, {"StopMonitoring"}}
    OBVIOUS
  <2> QED BY <1>2, <1>3, <1>4, <2>1 DEF Course, MovesOn, SameAt
<1>6. \A d \in Callers : (Active(d)' <=> Active(d)) /\ call'[d].tuns = call[d].tuns /\ call'[d].kind = call[d].kind
  BY DEF Active, MovesOn
<1>7. \A d \in Callers : (Asked(d, u)' <=> Asked(d, u)) /\ (TurnsOff(d, u)' <=> TurnsOff(d, u))
  BY <1>6 DEF Asked, TurnsOff
<1>8. ASSUME NEW d \in Callers, NEW ops \in {MendOps, {"Save"}, {"StopMonitoring"}}, Left(d, ops, u)
      PROVE  Left(d, ops, u)'
  BY <1>3, <1>8 DEF Left, LeftIn, MovesOn
<1>9. WatchedAt(u)'
  BY <1>2, <1>7, <1>8 DEF WatchedAt, SameAt, Mends
<1>10. RunsAt(u)'
  <2>1. reg[u] # NoMonitor => reg[u] \in Monitors
    BY <1>1 DEF GhostInv, TypeOK, Reference
  <2> QED BY <1>2, <1>7, <1>8, <2>1 DEF RunsAt, SameAt, Kernel, Alive
<1> QED BY <1>5, <1>9, <1>10

(* The operation op ran for the tunnels ts. *)
Ran(c, op, t, ts) == At(c, op, t) /\ MovesOn(c) /\ call'[c].todo = Rest(c, ts)

LEMMA UntouchedRan ==
  ASSUME GhostInv, OnCourse, NEW c \in Callers, NEW op, NEW t, NEW ts, Ran(c, op, t, ts),
         UNCHANGED <<native, crossed>>, \A m \in Monitors : Alive(m) => Alive(m)',
         NEW u \in call[c].tuns, ~crossed[u], SameAt(u),
         u \notin ts \/ op \notin MendOps \cup {"Save", "StopMonitoring"}
  PROVE  Course(c, u)' /\ WatchedAt(u)' /\ RunsAt(u)'
<1>1. At(c, op, t) /\ MovesOn(c) /\ call'[c].todo = Rest(c, ts) /\ Active(c)
  BY DEF Ran, At
<1>2. /\ \A ops : LeftIn(call[c].todo, ops, u) /\ (op \notin ops \/ u \notin ts) => LeftIn(Rest(c, ts), ops, u)
      /\ \A as, bs : Leads(call[c].todo, as, bs, u) => Leads(Rest(c, ts), as, bs, u)
  BY <1>1, RestLeft DEF GhostInv
<1>3. \A ops \in {MendOps, {"Save"}, {"StopMonitoring"}} : op \notin ops \/ u \notin ts
  OBVIOUS
<1> QED BY <1>1, <1>2, <1>3, Untouched

(* What remains to be shown when it ran. *)
LEMMA RanTurn ==
  ASSUME GhostInv, OnCourse, NEW c \in Callers, NEW op, NEW t, NEW ts, Ran(c, op, t, ts),
         UNCHANGED <<native, crossed>>, \A m \in Monitors : Alive(m) => Alive(m)',
         SwitchesTyped', \A u \in Tunnels : SameAt(u) \/ u \in ts, ts \subseteq call[c].tuns,
         \A u \in ts : ~crossed[u] =>
            \/ Course(c, u)' /\ WatchedAt(u)' /\ RunsAt(u)'
            \/ SameAt(u) /\ op \notin MendOps \cup {"Save", "StopMonitoring"}
  PROVE  OnCourse'
<1>1. At(c, op, t) /\ MovesOn(c) /\ call'[c].todo = Rest(c, ts) /\ Active(c)
  BY DEF Ran, At
<1>2. OnlyOps(call'[c].todo, OpsOf(call[c].kind))
  BY <1>1, RestLeft DEF GhostInv, OnCourse, Courses
<1>3. ASSUME NEW u \in call[c].tuns, ~crossed[u] PROVE Course(c, u)' /\ WatchedAt(u)' /\ RunsAt(u)'
  <2>1. u \in Tunnels
    BY DEF GhostInv, TypeOK, Call
  <2> QED BY <1>3, <2>1, UntouchedRan
<1> QED BY <1>1, <1>2, <1>3, CallerTurn DEF MovesOn, SameAt

(* An operation that runs is one of its kind of call, on its tunnels. *)
LEMMA AtKind ==
  ASSUME GhostInv, OnCourse, NEW c \in Callers, NEW op \in OpNames, NEW t, At(c, op, t)
  PROVE  /\ Active(c) /\ op \in OpsOf(call[c].kind) /\ t \in Tunnels
         /\ op \notin NwgHalves => t \in call[c].tuns
         /\ op \in {"Start", "Stop", "Told", "Untold"} => call[c].kind \in LifecycleKinds
         /\ op \in {"Save", "Refresh"} => call[c].kind \in SwitchOn \cup SwitchOff
         /\ op \in StartOps => call[c].kind \in SwitchOn \cup LifecycleKinds
         /\ op = "StopMonitoring" => call[c].kind \in SwitchOff \cup LifecycleKinds
         /\ call[c].kind \in SwitchOn => call[c].kind \notin SwitchOff \cup LifecycleKinds
         /\ call[c].kind \in SwitchOff => call[c].kind \notin LifecycleKinds

<1>1. op \in OpsOf(call[c].kind) /\ Active(c)
  BY RestLeft DEF GhostInv, OnCourse, Courses, At
<1>2. t \in Tunnels
  <2>1. call[c].todo \in Seq(Operation) /\ call[c].todo # <<>> /\ t \in Head(call[c].todo).on
    BY DEF At, GhostInv, TypeOK, Call
  <2>2. Head(call[c].todo) \in Operation
    BY <2>1
  <2> QED BY <2>1, <2>2 DEF Operation
<1>3. op \notin NwgHalves => t \in call[c].tuns
  BY AtPlain DEF GhostInv, At
<1> QED BY <1>1, <1>2, <1>3
    DEF OpsOf, LifecycleKinds, SwitchOn, SwitchOff, StartOps, LifecycleOps, NwgHalves

LEMMA DoneRan ==
  ASSUME TypeOK, NEW c \in Callers, NEW op, NEW t, At(c, op, t), NEW ts,
         \/ call' = Done(c, ts)
         \/ \E ms : call' = [Done(c, ts) EXCEPT ![c].held = ms]
         \/ \E ms : call' = [Done(c, ts) EXCEPT ![c].taken = ms]
         \/ \E m : call' = [Done(c, ts) EXCEPT ![c].fresh = m]
  PROVE  Ran(c, op, t, ts)
<1>1. call[c] \in Call /\ call \in [Callers -> Call]
  BY DEF TypeOK
<1>2. CASE call' = Done(c, ts)
  BY <1>1, <1>2 DEF Done, Ran, MovesOn, Call
<1>3. ASSUME NEW ms, call' = [Done(c, ts) EXCEPT ![c].held = ms] PROVE Ran(c, op, t, ts)
  BY <1>1, <1>3 DEF Done, Ran, MovesOn, Call
<1>4. ASSUME NEW ms, call' = [Done(c, ts) EXCEPT ![c].taken = ms] PROVE Ran(c, op, t, ts)
  BY <1>1, <1>4 DEF Done, Ran, MovesOn, Call
<1>5. ASSUME NEW m, call' = [Done(c, ts) EXCEPT ![c].fresh = m] PROVE Ran(c, op, t, ts)
  BY <1>1, <1>5 DEF Done, Ran, MovesOn, Call
<1> QED BY <1>2, <1>3, <1>4, <1>5

(* What a start, a save or a stop of monitoring leaves in the list. *)
LEMMA RanLeads ==
  ASSUME GhostInv, OnCourse, NEW c \in Callers, NEW op, NEW t, NEW ts, Ran(c, op, t, ts),
         NEW u \in Head(call[c].todo).on, u \in call[c].tuns, ~crossed[u]
  PROVE  /\ call[c].kind \in LifecycleKinds =>
              /\ Leads(call'[c].todo, {"StopMonitoring"}, {"Stop"}, u)
              /\ Leads(call'[c].todo, {"Start"}, {"StartMonitoring"}, u) \/ ~cfgd[u]
              /\ op = "StopMonitoring" => Left(c, {"Stop"}, u)'
              /\ op = "Start" => Left(c, {"StartMonitoring"}, u)' \/ ~cfgd[u]
         /\ call[c].kind \in SwitchOn =>
              /\ Leads(call'[c].todo, {"Save", "Refresh"}, StartOps, u)
              /\ op \in {"Save", "Refresh"} => Left(c, StartOps, u)'
         /\ call[c].kind \in SwitchOff =>
              /\ op # "StopMonitoring" => Left(c, {"StopMonitoring"}, u)' \/ reg[u] = NoMonitor
              /\ op # "Save" => Left(c, {"Save"}, u)' \/ ~pingOn[u]
<1>1. At(c, op, t) /\ call'[c].todo = Rest(c, ts)
  BY DEF Ran
<1>2. Course(c, u)
  BY <1>1 DEF OnCourse, Courses, Asked, At, GhostInv, TypeOK, Call
<1>3. /\ \A ops : LeftIn(call[c].todo, ops, u) /\ op \notin ops => LeftIn(call'[c].todo, ops, u)
      /\ \A as, bs : Leads(call[c].todo, as, bs, u) =>
            /\ Leads(call'[c].todo, as, bs, u)
            /\ op \in as => LeftIn(call'[c].todo, bs, u)
  BY <1>1, RestLeft DEF GhostInv
<1>4. \A ops : Left(c, ops, u)' <=> LeftIn(call'[c].todo, ops, u)
  BY DEF Left, LeftIn
<1>5. \A ops : Left(c, ops, u) <=> LeftIn(call[c].todo, ops, u)
  BY DEF Left
<1>6. CASE call[c].kind \in LifecycleKinds
  <2>1. call[c].kind \notin SwitchOn /\ call[c].kind \notin SwitchOff
    BY <1>6 DEF LifecycleKinds, SwitchOn, SwitchOff
  <2> QED BY <1>2, <1>3, <1>4, <1>6, <2>1 DEF Course
<1>7. CASE call[c].kind \in SwitchOn
  <2>1. call[c].kind \notin LifecycleKinds /\ call[c].kind \notin SwitchOff
    BY <1>7 DEF LifecycleKinds, SwitchOn, SwitchOff
  <2> QED BY <1>2, <1>3, <1>4, <1>7, <2>1 DEF Course
<1>8. CASE call[c].kind \in SwitchOff
  <2>1. call[c].kind \notin LifecycleKinds /\ call[c].kind \notin SwitchOn
    BY <1>8 DEF LifecycleKinds, SwitchOn, SwitchOff
  <2> QED BY <1>2, <1>3, <1>4, <1>5, <1>8, <2>1 DEF Course
<1> QED BY <1>6, <1>7, <1>8

(* One operation left is enough to mend. *)
LEMMA LeftMends ==
  ASSUME NEW c \in Callers, NEW u, Active(c)', u \in call'[c].tuns,
         \/ Left(c, StartOps, u)' \/ Left(c, {"Stop"}, u)' \/ Left(c, {"StartMonitoring"}, u)'
         \/ Left(c, {"RunNwg"}, u)' \/ Left(c, {"RegisterNwg"}, u)'
         \/ call'[c].kind \in SwitchOff /\ Left(c, {"Save"}, u)'
  PROVE  Mends(c, u)'
BY DEF Mends, Left, LeftIn, Asked, TurnsOff, MendOps, StartOps, NwgHalves

LEMMA NextCourse ==
  ASSUME NEW c, NEW u, call'[c].kind = call[c].kind,
         call[c].kind \in LifecycleKinds =>
            /\ Leads(call'[c].todo, {"StopMonitoring"}, {"Stop"}, u)
            /\ Leads(call'[c].todo, {"Start"}, {"StartMonitoring"}, u) \/ ~cfgd'[u],
         call[c].kind \in SwitchOn => Leads(call'[c].todo, {"Save", "Refresh"}, StartOps, u),
         call[c].kind \in SwitchOff => /\ Left(c, {"StopMonitoring"}, u)' \/ reg'[u] = NoMonitor
                                       /\ Left(c, {"Save"}, u)' \/ ~pingOn'[u]
  PROVE  Course(c, u)'
<1>1. \A as, bs : Leads(call[c].todo, as, bs, u)' <=> Leads(call'[c].todo, as, bs, u)
  BY DEF Leads
<1> QED BY <1>1 DEF Course

(* A kernel monitor that is registered while nobody else is about to stop  *)
(* it, and the caller is not switching off, goes on.                       *)
LEMMA RegisteredGoesOn ==
  ASSUME GhostInv, OnCourse, NEW c \in Callers, NEW u \in Tunnels, Asked(c, u), ~crossed[u],
         call[c].kind \notin SwitchOff, u \in Kernel, reg[u] # NoMonitor
  PROVE  pingOn[u] /\ Alive(reg[u])
BY OneAsks DEF OnCourse, RunsAt, TurnsOff, GhostInv

LEMMA StartOnCourse ==
  ASSUME GhostInv, OnCourse, NEW c \in Callers, Start(c) PROVE OnCourse'
<1>1. PICK t \in Tunnels : /\ At(c, "Start", t) /\ running' = [running EXCEPT ![t] = TRUE]
                           /\ call' = Done(c, {t})
  BY DEF Start
<1>2. /\ UNCHANGED <<native, crossed, pingOn, cfgd, reg, work>> /\ "Start" \in OpNames
      /\ "Start" \notin NwgHalves /\ "Start" \notin StartOps \cup {"StopMonitoring", "Save", "Refresh"}
  BY DEF Start, monVars, history, OpNames, NwgHalves, StartOps
<1>3. Ran(c, "Start", t, {t}) /\ call[c].kind \in LifecycleKinds /\ Active(c) /\ t \in call[c].tuns
  BY <1>1, <1>2, DoneRan, AtKind DEF GhostInv
<1>4. SwitchesTyped' /\ \A u \in Tunnels : SameAt(u) \/ u \in {t}
  BY <1>1, <1>2 DEF OnCourse, SwitchesTyped, SameAt
<1>5. \A m \in Monitors : Alive(m) => Alive(m)'
  BY <1>2 DEF Alive
<1>6. ASSUME ~crossed[t] PROVE Course(c, t)' /\ WatchedAt(t)' /\ RunsAt(t)'
  <2>1. t \in Head(call[c].todo).on
    BY <1>1 DEF At
  <2>2. /\ Leads(call'[c].todo, {"StopMonitoring"}, {"Stop"}, t)
        /\ Leads(call'[c].todo, {"Start"}, {"StartMonitoring"}, t) \/ ~cfgd[t]
        /\ Left(c, {"StartMonitoring"}, t)' \/ ~cfgd[t]
    BY <1>3, <1>6, <2>1, RanLeads
  <2>3. Active(c)' /\ call'[c].tuns = call[c].tuns /\ call'[c].kind = call[c].kind
    BY <1>3 DEF Ran, MovesOn, Active
  <2>4. call[c].kind \notin SwitchOn /\ call[c].kind \notin SwitchOff
    BY <1>3 DEF LifecycleKinds, SwitchOn, SwitchOff
  <2>5. Course(c, t)'
    BY <1>2, <2>2, <2>3, <2>4, NextCourse
  <2>6. WatchedAt(t)'
    BY <1>2, <1>3, <2>2, <2>3, LeftMends DEF WatchedAt
  <2>7. RunsAt(t)'
    BY <1>2, <1>3, <1>6, <2>4, RegisteredGoesOn DEF RunsAt, Kernel, Asked, Alive
  <2> QED BY <2>5, <2>6, <2>7
<1> QED BY <1>2, <1>3, <1>4, <1>5, <1>6, RanTurn

LEMMA StopOnCourse ==
  ASSUME GhostInv, OnCourse, NEW c \in Callers, Stop(c) PROVE OnCourse'
<1>1. PICK t \in Tunnels : /\ At(c, "Stop", t) /\ running' = [running EXCEPT ![t] = FALSE]
                           /\ call' = Done(c, {t})
  BY DEF Stop
<1>2. /\ UNCHANGED <<native, crossed, pingOn, cfgd, reg, work>> /\ "Stop" \in OpNames
      /\ "Stop" \notin NwgHalves
  BY DEF Stop, monVars, history, OpNames, NwgHalves
<1>3. Ran(c, "Stop", t, {t}) /\ call[c].kind \in LifecycleKinds /\ Active(c) /\ t \in call[c].tuns
  BY <1>1, <1>2, DoneRan, AtKind DEF GhostInv
<1>4. SwitchesTyped' /\ \A u \in Tunnels : SameAt(u) \/ u \in {t}
  BY <1>1, <1>2 DEF OnCourse, SwitchesTyped, SameAt
<1>5. \A m \in Monitors : Alive(m) => Alive(m)'
  BY <1>2 DEF Alive
<1>6. ASSUME ~crossed[t] PROVE Course(c, t)' /\ WatchedAt(t)' /\ RunsAt(t)'
  <2>1. t \in Head(call[c].todo).on
    BY <1>1 DEF At
  <2>2. /\ Leads(call'[c].todo, {"StopMonitoring"}, {"Stop"}, t)
        /\ Leads(call'[c].todo, {"Start"}, {"StartMonitoring"}, t) \/ ~cfgd[t]
    BY <1>3, <1>6, <2>1, RanLeads
  <2>3. call'[c].kind = call[c].kind
    BY <1>3 DEF Ran, MovesOn
  <2>4. call[c].kind \notin SwitchOn /\ call[c].kind \notin SwitchOff
    BY <1>3 DEF LifecycleKinds, SwitchOn, SwitchOff
  <2>5. Course(c, t)'
    BY <1>2, <2>2, <2>3, <2>4, NextCourse
  <2>6. WatchedAt(t)'
    BY <1>1 DEF WatchedAt, OnCourse, SwitchesTyped
  <2>7. RunsAt(t)'
    BY <1>2, <1>3, <1>6, <2>4, RegisteredGoesOn DEF RunsAt, Kernel, Asked, Alive
  <2> QED BY <2>5, <2>6, <2>7
<1> QED BY <1>2, <1>3, <1>4, <1>5, <1>6, RanTurn

LEMMA TellOnCourse ==
  ASSUME GhostInv, OnCourse, NEW c \in Callers, Tell(c) \/ CheckAllNow(c) PROVE OnCourse'
<1>1. PICK t \in Tunnels, op \in {"Told", "Untold", "CheckNow"} : At(c, op, t) /\ call' = Done(c, {t})
  BY DEF Tell, CheckAllNow, Kernel
<1>2. /\ UNCHANGED <<native, crossed, running, pingOn, cfgd, reg>> /\ op \in OpNames
      /\ op \notin NwgHalves /\ op \notin MendOps \cup {"Save", "StopMonitoring"}
  BY <1>1 DEF Tell, CheckAllNow, tunnelVars, monVars, history, OpNames, NwgHalves, MendOps, StartOps
<1>3. Ran(c, op, t, {t}) /\ t \in call[c].tuns
  BY <1>1, <1>2, DoneRan, AtKind DEF GhostInv
<1>4. SwitchesTyped' /\ \A u \in Tunnels : SameAt(u)
  BY <1>2 DEF OnCourse, SwitchesTyped, SameAt
<1>5. \A m \in Monitors : Alive(m) => Alive(m)'
  <2>1. CASE Tell(c)
    BY <2>1 DEF Tell, Alive
  <2>2. CASE CheckAllNow(c)
    BY <2>2 DEF CheckAllNow, Alive, GhostInv, TypeOK, Workers
  <2> QED BY <2>1, <2>2
<1> QED BY <1>1, <1>2, <1>3, <1>4, <1>5, RanTurn

LEMMA SaveOnCourse ==
  ASSUME GhostInv, OnCourse, NEW c \in Callers, Save(c) PROVE OnCourse'
<1>1. PICK t \in Tunnels : /\ At(c, "Save", t) /\ call' = Done(c, {t})
                           /\ pingOn' = [pingOn EXCEPT ![t] = (call[c].kind \in {"enable", "allon"})]
  BY DEF Save
<1>2. /\ UNCHANGED <<native, crossed, running, cfgd, reg, work>> /\ "Save" \in OpNames
      /\ "Save" \notin NwgHalves
  BY DEF Save, monVars, history, OpNames, NwgHalves
<1>3. /\ Ran(c, "Save", t, {t}) /\ call[c].kind \in SwitchOn \cup SwitchOff /\ Active(c)
      /\ t \in call[c].tuns
  BY <1>1, <1>2, DoneRan, AtKind DEF GhostInv
<1>4. SwitchesTyped' /\ \A u \in Tunnels : SameAt(u) \/ u \in {t}
  BY <1>1, <1>2 DEF OnCourse, SwitchesTyped, SameAt
<1>5. \A m \in Monitors : Alive(m) => Alive(m)'
  BY <1>2 DEF Alive
<1>6. ASSUME ~crossed[t] PROVE Course(c, t)' /\ WatchedAt(t)' /\ RunsAt(t)'
  <2>1. t \in Head(call[c].todo).on
    BY <1>1 DEF At
  <2>2. /\ call[c].kind \in SwitchOn => /\ Leads(call'[c].todo, {"Save", "Refresh"}, StartOps, t)
                                        /\ Left(c, StartOps, t)'
        /\ call[c].kind \in SwitchOff => Left(c, {"StopMonitoring"}, t)' \/ reg[t] = NoMonitor
    BY <1>3, <1>6, <2>1, RanLeads
  <2>3. /\ Active(c)' /\ call'[c].tuns = call[c].tuns /\ call'[c].kind = call[c].kind
        /\ pingOn'[t] = (call[c].kind \in SwitchOn)
    BY <1>1, <1>3 DEF Ran, MovesOn, Active, OnCourse, SwitchesTyped, SwitchOn
  <2>4. /\ call[c].kind \notin LifecycleKinds
        /\ call[c].kind \in SwitchOn => call[c].kind \notin SwitchOff
    BY <1>3 DEF LifecycleKinds, SwitchOn, SwitchOff
  <2>5. Course(c, t)'
    BY <1>2, <2>2, <2>3, <2>4, NextCourse
  <2>6. WatchedAt(t)'
    BY <1>2, <1>3, <2>2, <2>3, LeftMends DEF WatchedAt
  <2>7. RunsAt(t)'
    <3>1. CASE call[c].kind \in SwitchOn
      BY <1>2, <1>3, <1>6, <2>3, <2>4, <3>1, RegisteredGoesOn DEF RunsAt, Kernel, Asked, Alive
    <3>2. CASE call[c].kind \in SwitchOff
      BY <1>2, <1>3, <2>2, <2>3, <3>2 DEF RunsAt, TurnsOff, Asked
    <3> QED BY <1>3, <3>1, <3>2
  <2> QED BY <2>5, <2>6, <2>7
<1> QED BY <1>2, <1>3, <1>4, <1>5, <1>6, RanTurn

LEMMA RefreshOnCourse ==
  ASSUME GhostInv, OnCourse, NEW c \in Callers, RefreshTunnelState(c) PROVE OnCourse'
<1>1. PICK t \in Tunnels : /\ At(c, "Refresh", t) /\ call' = Done(c, {t})
                           /\ cfgd' = [cfgd EXCEPT ![t] = pingOn[t]]
  BY DEF RefreshTunnelState
<1>2. /\ UNCHANGED <<native, crossed, running, pingOn, reg, work>> /\ "Refresh" \in OpNames
      /\ "Refresh" \notin NwgHalves
  BY DEF RefreshTunnelState, monVars, history, OpNames, NwgHalves
<1>3. /\ Ran(c, "Refresh", t, {t}) /\ call[c].kind \in SwitchOn \cup SwitchOff /\ Active(c)
      /\ t \in call[c].tuns
  BY <1>1, <1>2, DoneRan, AtKind DEF GhostInv
<1>4. SwitchesTyped' /\ \A u \in Tunnels : SameAt(u) \/ u \in {t}
  BY <1>1, <1>2 DEF OnCourse, SwitchesTyped, SameAt
<1>5. \A m \in Monitors : Alive(m) => Alive(m)'
  BY <1>2 DEF Alive
<1>6. ASSUME ~crossed[t] PROVE Course(c, t)' /\ WatchedAt(t)' /\ RunsAt(t)'
  <2>1. t \in Head(call[c].todo).on
    BY <1>1 DEF At
  <2>2. /\ call[c].kind \in SwitchOn => /\ Leads(call'[c].todo, {"Save", "Refresh"}, StartOps, t)
                                        /\ Left(c, StartOps, t)'
        /\ call[c].kind \in SwitchOff => /\ Left(c, {"StopMonitoring"}, t)' \/ reg[t] = NoMonitor
                                         /\ Left(c, {"Save"}, t)' \/ ~pingOn[t]
    BY <1>3, <1>6, <2>1, RanLeads
  <2>3. Active(c)' /\ call'[c].tuns = call[c].tuns /\ call'[c].kind = call[c].kind
    BY <1>3 DEF Ran, MovesOn, Active
  <2>4. /\ call[c].kind \notin LifecycleKinds
        /\ call[c].kind \in SwitchOn => call[c].kind \notin SwitchOff
    BY <1>3 DEF LifecycleKinds, SwitchOn, SwitchOff
  <2>5. Course(c, t)'
    BY <1>2, <2>2, <2>3, <2>4, NextCourse
  <2>6. WatchedAt(t)'
    BY <1>2, <1>3, <2>2, <2>3, LeftMends DEF WatchedAt
  <2>7. RunsAt(t)'
    <3>1. CASE call[c].kind \in SwitchOn
      BY <1>2, <1>3, <1>6, <2>3, <2>4, <3>1, RegisteredGoesOn DEF RunsAt, Kernel, Asked, Alive
    <3>2. CASE call[c].kind \in SwitchOff
      BY <1>2, <1>3, <2>2, <2>3, <3>2 DEF RunsAt, TurnsOff, Asked
    <3> QED BY <1>3, <3>1, <3>2
  <2> QED BY <2>5, <2>6, <2>7
<1> QED BY <1>2, <1>3, <1>4, <1>5, <1>6, RanTurn

(* Service.StartMonitoring, StartIfRunning and StartIfPresent. *)
LEMMA RegisterOnCourse ==
  ASSUME GhostInv, OnCourse, NEW c \in Callers, StartMonitoring(c) \/ StartIf(c) PROVE OnCourse'
<1>1. PICK t \in Kernel, op \in StartOps :
          /\ At(c, op, t) /\ call' = Done(c, {t})
          /\ \/ Register(c, t)
             \/ ~running[t] /\ UNCHANGED <<monVars, fails, work, untold>>
  BY DEF StartMonitoring, StartIf, StartOps
<1>2. /\ UNCHANGED <<native, crossed, running, cfgd, pingOn>> /\ op \in OpNames /\ op \notin NwgHalves
      /\ t \in Tunnels /\ op \notin {"Save", "Refresh", "Start", "StopMonitoring"}
  BY <1>1 DEF StartMonitoring, StartIf, tunnelVars, OpNames, NwgHalves, StartOps, Kernel
<1>3. /\ Ran(c, op, t, {t}) /\ call[c].kind \in SwitchOn \cup LifecycleKinds /\ Active(c)
      /\ t \in call[c].tuns /\ call[c].kind \notin SwitchOff
  <2>1. call[c].kind \in SwitchOn \cup LifecycleKinds
    BY <1>1, <1>2, AtKind DEF GhostInv
  <2>2. call[c].kind \notin SwitchOff
    BY <2>1 DEF SwitchOn, LifecycleKinds, SwitchOff
  <2> QED BY <1>1, <1>2, <2>1, <2>2, DoneRan, AtKind DEF GhostInv
<1>4. \/ UNCHANGED <<reg, work>> /\ (running[t] /\ pingOn[t] => reg[t] # NoMonitor)
      \/ /\ reg[t] = NoMonitor /\ pingOn[t]
         /\ \E m \in Monitors : Spawn(m, t, "begin") /\ reg' = [reg EXCEPT ![t] = m]
  <2>1. CASE ~running[t] /\ UNCHANGED <<monVars, fails, work, untold>>
    BY <2>1 DEF monVars
  <2>2. CASE Register(c, t) /\ (reg[t] # NoMonitor \/ ~pingOn[t])
    BY <2>2 DEF Register, monVars
  <2>3. CASE Register(c, t) /\ ~(reg[t] # NoMonitor \/ ~pingOn[t])
    BY <2>3 DEF Register, Spawn, Free
  <2> QED BY <1>1, <2>1, <2>2, <2>3
<1>5. SwitchesTyped'
  BY <1>2 DEF OnCourse, SwitchesTyped
<1>6. /\ \A u \in Tunnels : SameAt(u) \/ u \in {t}
      /\ \A m \in Monitors : Alive(m) => Alive(m)'
      /\ running[t] /\ pingOn[t] => reg'[t] # NoMonitor
      /\ reg'[t] = reg[t] \/ (pingOn[t] /\ work'[reg'[t]].pc # "gone")
  <2>1. CASE UNCHANGED <<reg, work>> /\ (running[t] /\ pingOn[t] => reg[t] # NoMonitor)
    BY <1>2, <2>1 DEF SameAt, Alive
  <2>2. CASE /\ reg[t] = NoMonitor /\ pingOn[t]
             /\ \E m \in Monitors : Spawn(m, t, "begin") /\ reg' = [reg EXCEPT ![t] = m]
    <3>1. PICK m \in Monitors : Spawn(m, t, "begin") /\ reg' = [reg EXCEPT ![t] = m]
      BY <2>2
    <3>2. reg'[t] = m /\ m # NoMonitor /\ \A u \in Tunnels \ {t} : reg'[u] = reg[u]
      BY <1>2, <3>1, PingAssumption DEF GhostInv, TypeOK
    <3>3. work' = [work EXCEPT ![m] = [pc |-> "begin", on |-> m, sel |-> TRUE]] /\ m \in Workers
      BY <3>1 DEF Spawn, Workers
    <3>4. work'[m].pc = "begin" /\ \A w \in Workers \ {m} : work'[w] = work[w]
      BY <3>3 DEF GhostInv, TypeOK
    <3>5. Alive(m)' /\ \A n \in Monitors : Alive(n) => Alive(n)'
      BY <3>4 DEF Alive, Workers
    <3>6. \A u \in Tunnels : SameAt(u) \/ u \in {t}
      BY <1>2, <3>2 DEF SameAt
    <3>7. work'[reg'[t]].pc # "gone"
      BY <3>2, <3>4
    <3> QED BY <2>2, <3>2, <3>5, <3>6, <3>7
  <2> QED BY <1>4, <2>1, <2>2
<1>7. ASSUME ~crossed[t] PROVE Course(c, t)' /\ WatchedAt(t)' /\ RunsAt(t)'
  <2>1. t \in Head(call[c].todo).on
    BY <1>1 DEF At
  <2>2. /\ call[c].kind \in LifecycleKinds =>
              /\ Leads(call'[c].todo, {"StopMonitoring"}, {"Stop"}, t)
              /\ Leads(call'[c].todo, {"Start"}, {"StartMonitoring"}, t) \/ ~cfgd[t]
        /\ call[c].kind \in SwitchOn => Leads(call'[c].todo, {"Save", "Refresh"}, StartOps, t)
    BY <1>3, <1>7, <2>1, RanLeads
  <2>3. call'[c].kind = call[c].kind
    BY <1>3 DEF Ran, MovesOn
  <2>4. Course(c, t)'
    BY <1>2, <1>3, <2>2, <2>3, NextCourse
  <2>5. WatchedAt(t)'
    BY <1>2, <1>6 DEF WatchedAt
  <2>6. RunsAt(t)'
    <3>1. CASE reg'[t] = reg[t]
      <4>1. reg[t] # NoMonitor => pingOn[t] /\ Alive(reg[t]) /\ reg[t] \in Monitors
        BY <1>1, <1>2, <1>3, <1>7, RegisteredGoesOn DEF Asked, GhostInv, TypeOK, Reference
      <4> QED BY <1>2, <1>6, <3>1, <4>1 DEF RunsAt, Alive
    <3>2. CASE pingOn[t] /\ work'[reg'[t]].pc # "gone"
      BY <1>2, <3>2 DEF RunsAt, Alive
    <3> QED BY <1>6, <3>1, <3>2
  <2> QED BY <2>4, <2>5, <2>6
<1> QED BY <1>2, <1>3, <1>5, <1>6, <1>7, RanTurn

(* StopMonitoring and stopNwgMonitor. *)
LEMMA UnregisterOnCourse ==
  ASSUME GhostInv, OnCourse, NEW c \in Callers, StopMonitoring(c) \/ stopNwgMonitor(c) PROVE OnCourse'
<1> DEFINE ts == Head(call[c].todo).on
<1>1. PICK t \in Tunnels : /\ At(c, "StopMonitoring", t)
                           /\ reg' = [u \in Tunnels |-> IF u \in ts THEN NoMonitor ELSE reg[u]]
                           /\ \/ \E ms : call' = [Done(c, ts) EXCEPT ![c].held = ms]
                              \/ \E ms : call' = [Done(c, ts) EXCEPT ![c].taken = ms]
  BY DEF StopMonitoring, stopNwgMonitor, Kernel, GhostInv, TypeOK
<1>2. /\ UNCHANGED <<native, crossed, running, cfgd, pingOn, work>> /\ "StopMonitoring" \in OpNames
      /\ "StopMonitoring" \notin NwgHalves
  BY DEF StopMonitoring, stopNwgMonitor, tunnelVars, history, OpNames, NwgHalves
<1>3. /\ call[c].kind \in SwitchOff \cup LifecycleKinds /\ Active(c) /\ ts \subseteq call[c].tuns
      /\ call[c].tuns \subseteq Tunnels
  BY <1>1, <1>2, AtKind, AtPlain DEF GhostInv, TypeOK, Call
<1>4. Ran(c, "StopMonitoring", t, ts)
  BY <1>1, DoneRan DEF GhostInv
<1>5. SwitchesTyped' /\ \A u \in Tunnels : SameAt(u) \/ u \in ts
  BY <1>1, <1>2 DEF OnCourse, SwitchesTyped, SameAt
<1>6. \A m \in Monitors : Alive(m) => Alive(m)'
  BY <1>2 DEF Alive
<1>7. ASSUME NEW u \in ts, ~crossed[u] PROVE Course(c, u)' /\ WatchedAt(u)' /\ RunsAt(u)'
  <2>1. u \in call[c].tuns /\ u \in Tunnels /\ reg'[u] = NoMonitor
    BY <1>1, <1>3
  <2>2. /\ call[c].kind \in LifecycleKinds =>
              /\ Leads(call'[c].todo, {"StopMonitoring"}, {"Stop"}, u)
              /\ Leads(call'[c].todo, {"Start"}, {"StartMonitoring"}, u) \/ ~cfgd[u]
              /\ Left(c, {"Stop"}, u)'
        /\ call[c].kind \in SwitchOff => Left(c, {"Save"}, u)' \/ ~pingOn[u]
    BY <1>4, <1>7, <2>1, RanLeads
  <2>3. Active(c)' /\ call'[c].tuns = call[c].tuns /\ call'[c].kind = call[c].kind
    BY <1>3, <1>4 DEF Ran, MovesOn, Active
  <2>4. call[c].kind \notin SwitchOn
    BY <1>3 DEF LifecycleKinds, SwitchOn, SwitchOff
  <2>5. Course(c, u)'
    BY <1>2, <2>1, <2>2, <2>3, <2>4, NextCourse
  <2>6. WatchedAt(u)'
    BY <1>2, <1>3, <2>1, <2>2, <2>3, LeftMends DEF WatchedAt
  <2>7. RunsAt(u)'
    BY <2>1 DEF RunsAt
  <2> QED BY <2>5, <2>6, <2>7
<1> HIDE DEF ts
<1> QED BY <1>2, <1>3, <1>4, <1>5, <1>6, <1>7, RanTurn

(* A nativewg tunnel's monitor is none of RunsAt's business. *)
LEMMA NativeRunsAt == ASSUME NEW t \in native, native' = native PROVE RunsAt(t)'
BY DEF RunsAt, Kernel

LEMMA StartNwgOnCourse ==
  ASSUME GhostInv, OnCourse, NEW c \in Callers, startNwgMonitor(c) PROVE OnCourse'
<1>1. PICK t \in native :
         /\ At(c, "StartMonitoring", t)
         /\ IF pingOn[t]
            THEN /\ reg' = [reg EXCEPT ![t] = NoMonitor]
                 /\ call' = [call EXCEPT ![c].todo = Op("RunNwg", {t}) \o Op("RegisterNwg", {t})
                                                        \o Rest(c, {t}),
                                         ![c].taken = {reg[t]} \ {NoMonitor}]
            ELSE call' = Done(c, {t}) /\ UNCHANGED reg
  BY DEF startNwgMonitor
<1>2. /\ UNCHANGED <<native, running, pingOn, cfgd, crossed, work>> /\ "StartMonitoring" \in OpNames
      /\ "StartMonitoring" \notin NwgHalves /\ "StartMonitoring" \in StartOps
  BY DEF startNwgMonitor, tunnelVars, history, OpNames, NwgHalves, StartOps
<1>3. /\ Active(c) /\ t \in call[c].tuns /\ t \in Tunnels
      /\ call[c].kind \in SwitchOn \cup LifecycleKinds /\ call[c].kind \notin SwitchOff
  <2>1. call[c].kind \in SwitchOn \cup LifecycleKinds
    BY <1>1, <1>2, AtKind DEF GhostInv
  <2>2. call[c].kind \notin SwitchOff
    BY <2>1 DEF SwitchOn, LifecycleKinds, SwitchOff
  <2> QED BY <1>1, <1>2, <2>1, <2>2, AtKind
<1>4. SwitchesTyped' /\ \A m \in Monitors : Alive(m) => Alive(m)'
  BY <1>2 DEF OnCourse, SwitchesTyped, Alive
<1>5. /\ Rest(c, {t}) \in Seq(Operation)
      /\ OnlyOps(Rest(c, {t}), OpsOf(call[c].kind))
      /\ \A ops, u : LeftIn(call[c].todo, ops, u) /\ ("StartMonitoring" \notin ops \/ u \notin {t})
            => LeftIn(Rest(c, {t}), ops, u)
      /\ \A as, bs, u : Leads(call[c].todo, as, bs, u) => Leads(Rest(c, {t}), as, bs, u)
  BY <1>1, RestLeft DEF GhostInv, OnCourse, Courses
<1>6. CASE ~pingOn[t]
  <2>1. Ran(c, "StartMonitoring", t, {t}) /\ reg' = reg
    BY <1>1, <1>6, DoneRan DEF GhostInv
  <2>2. \A u \in Tunnels : SameAt(u)
    BY <1>2, <2>1 DEF SameAt
  <2>3. ASSUME ~crossed[t] PROVE Course(c, t)' /\ WatchedAt(t)' /\ RunsAt(t)'
    <3>1. t \in Head(call[c].todo).on
      BY <1>1 DEF At
    <3>2. Course(c, t)'
      BY <1>2, <1>3, <2>1, <2>3, <3>1, RanLeads, NextCourse DEF Ran, MovesOn
    <3>3. WatchedAt(t)'
      BY <1>2, <1>6 DEF WatchedAt
    <3> QED BY <1>2, <3>2, <3>3, NativeRunsAt
  <2> QED BY <1>2, <1>3, <1>4, <2>1, <2>2, <2>3, RanTurn
<1>7. CASE pingOn[t]
  <2> DEFINE p == Op("RunNwg", {t}) \o Op("RegisterNwg", {t})
             all == p \o Rest(c, {t})
  <2>1. /\ p \in Seq(Operation) /\ LeftIn(p, {"RunNwg"}, t)
        /\ \A as, bs, u : as \cap NwgHalves = {} => Leads(p, as, bs, u)
        /\ OnlyOps(p, OpsOf(call[c].kind))
    <3>1. "RunNwg" \in OpNames /\ "RegisterNwg" \in OpNames /\ {t} \in SUBSET Tunnels
          /\ NwgHalves = {"RunNwg", "RegisterNwg"}
      BY <1>3 DEF OpNames, NwgHalves
    <3>2. "RunNwg" \in OpsOf(call[c].kind) /\ "RegisterNwg" \in OpsOf(call[c].kind)
      BY <1>3 DEF OpsOf, NwgHalves, SwitchOn, LifecycleKinds
    <3> DEFINE a == Op("RunNwg", {t})
               b == Op("RegisterNwg", {t})
    <3>3. /\ a \in Seq(Operation) /\ b \in Seq(Operation) /\ LeftIn(a, {"RunNwg"}, t)
          /\ OnlyOps(a, OpsOf(call[c].kind)) /\ OnlyOps(b, OpsOf(call[c].kind))
          /\ \A as, bs, u : as \cap NwgHalves = {} => Leads(a, as, bs, u) /\ Leads(b, as, bs, u)
      BY <3>1, <3>2, OneLeft
    <3> HIDE DEF a, b
    <3>4. /\ a \o b \in Seq(Operation) /\ LeftIn(a \o b, {"RunNwg"}, t)
          /\ OnlyOps(a \o b, OpsOf(call[c].kind))
      BY <3>3, ConcatLeft
    <3>5. \A as, bs, u : as \cap NwgHalves = {} => Leads(a \o b, as, bs, u)
      BY <3>3, ConcatLeft
    <3> QED BY <3>4, <3>5 DEF a, b
  <2>2. /\ MovesOn(c) /\ call'[c].todo = all /\ reg'[t] = NoMonitor
        /\ \A u \in Tunnels \ {t} : reg'[u] = reg[u]
    <3> DEFINE ms == {reg[t]} \ {NoMonitor}
               r == [call[c] EXCEPT !.todo = all, !.taken = ms]
    <3>1. call' = [call EXCEPT ![c] = r] /\ call[c] \in Call
      BY <1>1, <1>7 DEF GhostInv, TypeOK
    <3>2. call'[c] = r /\ \A d \in Callers \ {c} : call'[d] = call[d]
      BY <3>1 DEF GhostInv, TypeOK
    <3> HIDE DEF ms, all
    <3>3. r.kind = call[c].kind /\ r.tuns = call[c].tuns /\ r.todo = all
      BY <3>1 DEF Call
    <3>4. reg'[t] = NoMonitor /\ \A u \in Tunnels \ {t} : reg'[u] = reg[u]
      BY <1>1, <1>3, <1>7 DEF GhostInv, TypeOK
    <3> QED BY <3>2, <3>3, <3>4 DEF MovesOn
  <2> HIDE DEF p
  <2>3. /\ OnlyOps(all, OpsOf(call[c].kind)) /\ LeftIn(all, {"RunNwg"}, t)
        /\ \A ops, u : LeftIn(Rest(c, {t}), ops, u) => LeftIn(all, ops, u)
        /\ \A as, bs, u : as \cap NwgHalves = {} /\ Leads(call[c].todo, as, bs, u) => Leads(all, as, bs, u)
    BY <1>5, <2>1, ConcatLeft
  <2> HIDE DEF all
  <2>4. Active(c)' /\ call'[c].tuns = call[c].tuns /\ call'[c].kind = call[c].kind
    BY <1>3, <2>2 DEF MovesOn, Active
  <2>5. ASSUME NEW u \in call[c].tuns, ~crossed[u] PROVE Course(c, u)'
    <3>1. Course(c, u)
      BY <1>3, <2>5 DEF OnCourse, Courses, Asked, GhostInv, TypeOK, Call
    <3>2. {"StopMonitoring"} \cap NwgHalves = {} /\ {"Start"} \cap NwgHalves = {}
          /\ {"Save", "Refresh"} \cap NwgHalves = {}
      BY DEF NwgHalves
    <3> QED BY <1>2, <1>3, <2>2, <2>3, <2>4, <3>1, <3>2, NextCourse DEF Course
  <2>6. ASSUME NEW u \in call[c].tuns, ~crossed[u], u # t PROVE WatchedAt(u)' /\ RunsAt(u)'
    <3>1. u \in Tunnels /\ reg'[u] = reg[u] /\ WatchedAt(u) /\ RunsAt(u)
      BY <2>2, <2>6 DEF OnCourse, GhostInv, TypeOK, Call
    <3>2. \A d \in Callers : /\ Asked(d, u)' <=> Asked(d, u)
                             /\ TurnsOff(d, u)' <=> TurnsOff(d, u)
      BY <2>2, <2>4 DEF Asked, TurnsOff, Active, MovesOn
    <3>3. \A d \in Callers : \A ops : Left(d, ops, u) => Left(d, ops, u)'
      <4>1. \A ops : LeftIn(call[c].todo, ops, u) => LeftIn(call'[c].todo, ops, u)
        BY <1>5, <2>2, <2>3, <2>6
      <4> QED BY <2>2, <4>1 DEF Left, LeftIn, MovesOn
    <3>4. WatchedAt(u)'
      BY <1>2, <3>1, <3>2, <3>3 DEF WatchedAt, Mends
    <3>5. RunsAt(u)'
      BY <1>2, <3>1, <3>2, <3>3 DEF RunsAt, Kernel, Alive
    <3> QED BY <3>4, <3>5
  <2>7. WatchedAt(t)' /\ RunsAt(t)'
    <3>1. Left(c, {"RunNwg"}, t)'
      BY <2>2, <2>3 DEF Left, LeftIn
    <3>2. Mends(c, t)'
      BY <1>3, <2>4, <3>1, LeftMends
    <3> QED BY <1>2, <3>2, NativeRunsAt DEF WatchedAt
  <2> QED BY <1>2, <1>3, <1>4, <2>2, <2>3, <2>5, <2>6, <2>7, CallerTurn DEF MovesOn
<1> QED BY <1>6, <1>7

LEMMA RunNwgOnCourse ==
  ASSUME GhostInv, OnCourse, NEW c \in Callers, RunNwg(c) PROVE OnCourse'
<1>0. PICK t \in native : \E m : /\ At(c, "RunNwg", t) /\ Spawn(m, t, "poll")
                                /\ call' = [Done(c, {t}) EXCEPT ![c].fresh = m]
  BY DEF RunNwg
<1>1. PICK m : /\ At(c, "RunNwg", t) /\ Spawn(m, t, "poll")
               /\ call' = [Done(c, {t}) EXCEPT ![c].fresh = m]
  BY <1>0
<1>2. UNCHANGED <<native, running, pingOn, cfgd, reg, crossed>> /\ "RunNwg" \in NwgHalves
  BY DEF RunNwg, tunnelVars, NwgHalves
<1>3. /\ Active(c) /\ t \in call[c].tuns /\ t \in Tunnels /\ Ran(c, "RunNwg", t, {t})
      /\ call'[c].kind = call[c].kind /\ call'[c].tuns = call[c].tuns
  BY <1>1, <1>2, NwgMoved, DoneRan DEF GhostInv
<1>4. SwitchesTyped' /\ \A u \in Tunnels : SameAt(u)
  BY <1>2 DEF OnCourse, SwitchesTyped, SameAt
<1>5. \A n \in Monitors : Alive(n) => Alive(n)'
  <2>1. /\ work' = [work EXCEPT ![m] = [pc |-> "poll", on |-> m, sel |-> TRUE]] /\ m \in Workers
        /\ work \in [Workers -> Work] /\ Monitors \subseteq Workers
    BY <1>1 DEF Spawn, Free, Workers, GhostInv, TypeOK
  <2>2. work'[m].pc = "poll" /\ \A n \in Workers \ {m} : work'[n] = work[n]
    BY <2>1
  <2> QED BY <2>1, <2>2 DEF Alive
<1>6. ASSUME ~crossed[t] PROVE Course(c, t)' /\ WatchedAt(t)' /\ RunsAt(t)'
  <2>1. Course(c, t)'
    <3>1. t \in Head(call[c].todo).on
      BY <1>1 DEF At
    <3> QED BY <1>2, <1>3, <1>6, <3>1, RanLeads, NextCourse
  <2>2. Left(c, {"RegisterNwg"}, t)'
    <3> DEFINE s == call[c].todo
    <3>1. s \in Seq(Operation) /\ s # <<>> /\ Head(s).op = "RunNwg" /\ t \in Head(s).on
      BY <1>1 DEF GhostInv, TypeOK, At, Call
    <3>2. ~Plain(s, call[c].tuns)
      <4>1. Len(s) >= 1 /\ Head(s) = s[1]
        BY <3>1
      <4> QED BY <1>2, <3>1, <4>1 DEF Plain
    <3>3. \A u : ~Registers(c, s, u)
      <4>1. \A u : [op |-> "RegisterNwg", on |-> {u}].op # "RunNwg"
        OBVIOUS
      <4> QED BY <3>1, <4>1 DEF Registers
    <3>4. PICK u \in Tunnels : Head(s) = [op |-> "RunNwg", on |-> {u}] /\ Registers(c, Tail(s), u)
      BY <3>2, <3>3 DEF GhostInv, CallOK
    <3>5. Head(s).on = {u} /\ u = t
      BY <3>1, <3>4
    <3>6. Rest(c, {t}) = Tail(s)
      BY <3>5 DEF Rest
    <3> DEFINE r == Tail(s)
    <3>7. r \in Seq(Operation) /\ r # <<>> /\ Head(r).op = "RegisterNwg" /\ t \in Head(r).on
      BY <3>1, <3>4, <3>5 DEF Registers
    <3>8. call'[c].todo = r
      BY <1>3, <3>6 DEF Ran
    <3> HIDE DEF r
    <3>9. LeftIn(r, {"RegisterNwg"}, t)
      BY <3>7, ConsLeft
    <3> QED BY <3>8, <3>9 DEF Left, LeftIn
  <2>3. Active(c)' /\ t \in call'[c].tuns
    BY <1>3 DEF Active
  <2>4. WatchedAt(t)'
    BY <2>2, <2>3, LeftMends DEF WatchedAt
  <2> QED BY <1>2, <2>1, <2>4, NativeRunsAt
<1> QED BY <1>2, <1>3, <1>4, <1>5, <1>6, RanTurn

LEMMA RegisterNwgOnCourse ==
  ASSUME GhostInv, OnCourse, NEW c \in Callers, RegisterNwg(c) PROVE OnCourse'
<1>1. PICK t \in native : /\ At(c, "RegisterNwg", t)
                          /\ reg' = [reg EXCEPT ![t] = call[c].fresh]
                          /\ call' = [Done(c, {t}) EXCEPT ![c].fresh = NoMonitor]
  BY DEF RegisterNwg
<1>2. UNCHANGED <<native, running, pingOn, cfgd, crossed, work>> /\ "RegisterNwg" \in NwgHalves
  BY DEF RegisterNwg, tunnelVars, history, NwgHalves
<1>3. /\ Active(c) /\ t \in call[c].tuns /\ t \in Tunnels /\ Ran(c, "RegisterNwg", t, {t})
      /\ call'[c].kind = call[c].kind /\ call'[c].tuns = call[c].tuns
  BY <1>1, <1>2, NwgMoved, DoneRan DEF GhostInv
<1>4. SwitchesTyped' /\ \A n \in Monitors : Alive(n) => Alive(n)'
  BY <1>2 DEF OnCourse, SwitchesTyped, Alive
<1>5. reg'[t] = call[c].fresh /\ \A u \in Tunnels : SameAt(u) \/ u \in {t}
  BY <1>1, <1>2, <1>3 DEF GhostInv, TypeOK, SameAt
<1>6. call[c].kind \notin SwitchOff /\ call[c].fresh # NoMonitor
  <2> DEFINE s == call[c].todo
  <2>1. s \in Seq(Operation) /\ s # <<>> /\ Head(s).op = "RegisterNwg" /\ t \in Head(s).on
    BY <1>1 DEF GhostInv, TypeOK, At, Call
  <2>2. ~Plain(s, call[c].tuns)
    <3>1. Len(s) >= 1 /\ Head(s) = s[1]
      BY <2>1
    <3> QED BY <1>2, <2>1, <3>1 DEF Plain
  <2>3. \A u : Head(s) # [op |-> "RunNwg", on |-> {u}]
    <3>1. \A u : [op |-> "RunNwg", on |-> {u}].op # "RegisterNwg"
      OBVIOUS
    <3> QED BY <2>1, <3>1
  <2>4. call[c].fresh \in Monitors
    BY <2>2, <2>3 DEF GhostInv, CallOK
  <2>5. "RegisterNwg" \in OpsOf(call[c].kind)
    BY <1>1, <1>2, RestLeft DEF GhostInv, OnCourse, Courses
  <2>6. call[c].kind \notin SwitchOff
    BY <2>5 DEF OpsOf, SwitchOff, SwitchOn, LifecycleKinds
  <2> QED BY <2>4, <2>6, PingAssumption
<1>7. ASSUME ~crossed[t] PROVE Course(c, t)' /\ WatchedAt(t)' /\ RunsAt(t)'
  <2>1. Course(c, t)'
    <3>1. t \in Head(call[c].todo).on
      BY <1>1 DEF At
    <3> QED BY <1>2, <1>3, <1>6, <1>7, <3>1, RanLeads, NextCourse
  <2>2. WatchedAt(t)'
    BY <1>5, <1>6 DEF WatchedAt
  <2> QED BY <1>2, <2>1, <2>2, NativeRunsAt
<1> QED BY <1>2, <1>3, <1>4, <1>5, <1>7, RanTurn

(* Locking, waiting and stopping leave a caller at the same operation. *)
LEMMA SameCallOnCourse ==
  ASSUME GhostInv, OnCourse, NEW c \in Callers, lockTunnel(c) \/ StopTaken(c) \/ Waited(c) PROVE OnCourse'
<1>1. UNCHANGED <<native, running, pingOn, cfgd, reg, crossed, work>>
  BY DEF lockTunnel, StopTaken, Waited, tunnelVars, monVars, history
<1>2. Active(c) /\ MovesOn(c) /\ call'[c].todo = call[c].todo
  <2>1. call[c] \in Call /\ call \in [Callers -> Call]
    BY DEF GhostInv, TypeOK
  <2>2. CASE lockTunnel(c)
    BY <2>1, <2>2 DEF lockTunnel, MovesOn, Call
  <2>3. CASE Waited(c)
    BY <2>1, <2>3, HolderIsActive DEF Waited, MovesOn, Call
  <2>4. CASE StopTaken(c)
    <3>1. PICK m \in call[c].taken : call' = [call EXCEPT ![c].taken = @ \ {m}, ![c].held = {m}]
      BY <2>4 DEF StopTaken
    <3>2. call'[c] = [call[c] EXCEPT !.taken = @ \ {m}, !.held = {m}] /\ \A d \in Callers \ {c} : call'[d] = call[d]
      BY <2>1, <3>1
    <3> QED BY <2>1, <3>1, <3>2, HolderIsActive DEF MovesOn, Call
  <2> QED BY <2>2, <2>3, <2>4
<1>3. SwitchesTyped' /\ (\A u \in Tunnels : SameAt(u)) /\ \A n \in Monitors : Alive(n) => Alive(n)'
  BY <1>1 DEF OnCourse, SwitchesTyped, SameAt, Alive
<1>4. OnlyOps(call'[c].todo, OpsOf(call[c].kind))
  BY <1>2 DEF OnCourse, Courses
<1>5. ASSUME NEW u \in call[c].tuns, ~crossed[u] PROVE Course(c, u)' /\ WatchedAt(u)' /\ RunsAt(u)'
  <2>1. u \in Tunnels
    BY DEF GhostInv, TypeOK, Call
  <2> QED BY <1>1, <1>2, <1>3, <1>5, <2>1, Untouched
<1> QED BY <1>1, <1>2, <1>3, <1>4, <1>5, CallerTurn DEF MovesOn, SameAt

LEMMA SkipOnCourse ==
  ASSUME GhostInv, OnCourse, NEW c \in Callers, Skip(c) PROVE OnCourse'
<1>1. UNCHANGED <<native, running, pingOn, cfgd, reg, crossed, work>>
  BY DEF Skip, tunnelVars, monVars, history
<1>2. Active(c) /\ MovesOn(c) /\ call'[c].todo = Tail(call[c].todo)
  BY DEF GhostInv, TypeOK, Skip, MovesOn, Call
<1>3. SwitchesTyped' /\ (\A u \in Tunnels : SameAt(u)) /\ \A n \in Monitors : Alive(n) => Alive(n)'
  BY <1>1 DEF OnCourse, SwitchesTyped, SameAt, Alive
<1>4. call[c].todo \in Seq(Operation) /\ call[c].todo # <<>> /\ Head(call[c].todo).on = {}
  BY DEF GhostInv, TypeOK, Call, Skip
<1>5. OnlyOps(call'[c].todo, OpsOf(call[c].kind))
  BY <1>2, <1>4, ConsLeft DEF OnCourse, Courses
<1>6. ASSUME NEW u \in call[c].tuns, ~crossed[u] PROVE Course(c, u)' /\ WatchedAt(u)' /\ RunsAt(u)'
  <2>1. u \in Tunnels
    BY DEF GhostInv, TypeOK, Call
  <2>2. \A ops : LeftIn(call[c].todo, ops, u) => LeftIn(call'[c].todo, ops, u)
    BY <1>2, <1>4, ConsLeft
  <2>3. ASSUME NEW as, NEW bs, Leads(call[c].todo, as, bs, u) PROVE Leads(call'[c].todo, as, bs, u)
    <3>1. Leads(Tail(call[c].todo), as, bs, u)
      BY <1>4, <2>3, ConsLeft
    <3> QED BY <1>2, <3>1
  <2> QED BY <1>1, <1>2, <1>3, <1>6, <2>1, <2>2, <2>3, Untouched
<1> QED BY <1>1, <1>2, <1>3, <1>5, <1>6, CallerTurn DEF MovesOn, SameAt

(* A call that is over had nothing left to do. *)
LEMMA ReturnOnCourse ==
  ASSUME GhostInv, OnCourse, NEW c \in Callers, Return(c) PROVE OnCourse'
<1>1. /\ UNCHANGED <<native, running, pingOn, cfgd, reg, crossed, work>> /\ call' = [call EXCEPT ![c] = NoCall]
      /\ call[c].todo = <<>>
  BY DEF Return, tunnelVars, monVars, history
<1>2. call'[c] = NoCall /\ \A d \in Callers \ {c} : call'[d] = call[d]
  BY <1>1 DEF GhostInv, TypeOK
<1>3. NoCall.kind = "none" /\ NoCall.todo = <<>>
  BY DEF NoCall
<1>4. ~Active(c)' /\ \A d \in Callers \ {c} : Active(d)' <=> Active(d)
  BY <1>2, <1>3 DEF Active
<1>5. ASSUME NEW d \in Callers, NEW ops, NEW t, Left(d, ops, t), Asked(d, t) PROVE Left(d, ops, t)' /\ Asked(d, t)' /\ (TurnsOff(d, t) => TurnsOff(d, t)')
  <2>1. d # c
    BY <1>1, <1>5, NoneLeft DEF Left
  <2> QED BY <1>2, <1>4, <1>5, <2>1 DEF Left, LeftIn, Asked, TurnsOff
<1>6. Courses'
  <2> SUFFICES ASSUME NEW d \in Callers
               PROVE  /\ OnlyOps(call'[d].todo, OpsOf(call'[d].kind))
                      /\ \A t \in Tunnels : Asked(d, t)' /\ ~crossed'[t] => Course(d, t)'
    BY DEF Courses
  <2>1. CASE d = c
    BY <1>2, <1>3, <1>4, <2>1, NoneLeft DEF Asked
  <2>2. CASE d # c
    BY <1>1, <1>2, <1>4, <2>2 DEF OnCourse, Courses, Asked, Course, Left, LeftIn, Leads
  <2> QED BY <2>1, <2>2
<1>7. SwitchesTyped' /\ \A t \in Tunnels : WatchedAt(t)' /\ RunsAt(t)'
  <2> SUFFICES ASSUME NEW t \in Tunnels PROVE WatchedAt(t)' /\ RunsAt(t)'
    BY <1>1 DEF OnCourse, SwitchesTyped
  <2>1. WatchedAt(t) /\ RunsAt(t)
    BY DEF OnCourse
  <2>2. \A d \in Callers : Mends(d, t) => Mends(d, t)'
    BY <1>5 DEF Mends
  <2>3. \A d \in Callers : TurnsOff(d, t) /\ Left(d, {"StopMonitoring"}, t)
                              => TurnsOff(d, t)' /\ Left(d, {"StopMonitoring"}, t)'
    BY <1>5 DEF TurnsOff
  <2>4. WatchedAt(t)'
    BY <1>1, <2>1, <2>2 DEF WatchedAt
  <2>5. RunsAt(t)'
    BY <1>1, <2>1, <2>3 DEF RunsAt, Kernel, Alive
  <2> QED BY <2>4, <2>5
<1> QED BY <1>6, <1>7 DEF OnCourse

(* A call that begins is the only one about its tunnels, or they cross. *)
LEMMA BeginOnCourse ==
  ASSUME GhostInv, OnCourse, NEW c \in Callers, NEW kind, NEW ts \in SUBSET Tunnels, NEW s,
         Begin(c, kind, ts, s), OnlyOps(s, OpsOf(kind)),
         \A t \in ts :
           /\ kind \in LifecycleKinds => /\ Leads(s, {"StopMonitoring"}, {"Stop"}, t)
                                         /\ Leads(s, {"Start"}, {"StartMonitoring"}, t) \/ ~cfgd[t]
           /\ kind \in SwitchOn => Leads(s, {"Save", "Refresh"}, StartOps, t)
           /\ kind \in SwitchOff => LeftIn(s, {"StopMonitoring"}, t) /\ LeftIn(s, {"Save"}, t)
  PROVE  OnCourse'
<1> DEFINE r == [NoCall EXCEPT !.kind = kind, !.tuns = ts, !.todo = s]
<1>1. UNCHANGED <<native, running, pingOn, cfgd, reg, work>> /\ call' = [call EXCEPT ![c] = r] /\ ~Active(c)
  BY DEF Begin, tunnelVars, monVars
<1>2. r.kind = kind /\ r.tuns = ts /\ r.todo = s
  BY DEF NoCall
<1>3. call'[c] = r /\ \A d \in Callers \ {c} : call'[d] = call[d]
  BY <1>1 DEF GhostInv, TypeOK
<1> HIDE DEF r
<1>4. \A t \in Tunnels : ~crossed'[t] => ~crossed[t]
  BY DEF Begin
<1>5. \A d \in Callers \ {c} : Active(d)' <=> Active(d)
  BY <1>3 DEF Active
<1>6. ASSUME NEW d \in Callers, NEW t, Asked(d, t)
      PROVE  Asked(d, t)' /\ (TurnsOff(d, t) => TurnsOff(d, t)') /\ \A ops : Left(d, ops, t) => Left(d, ops, t)'
  <2>1. d # c
    BY <1>1, <1>6 DEF Asked
  <2> QED BY <1>3, <1>5, <1>6, <2>1 DEF Left, LeftIn, Asked, TurnsOff
<1>7. Courses'
  <2> SUFFICES ASSUME NEW d \in Callers
               PROVE  /\ OnlyOps(call'[d].todo, OpsOf(call'[d].kind))
                      /\ \A t \in Tunnels : Asked(d, t)' /\ ~crossed'[t] => Course(d, t)'
    BY DEF Courses
  <2>1. CASE d = c
    <3>1. call'[d].todo = s /\ call'[d].kind = kind /\ call'[d].tuns = ts
      BY <1>2, <1>3, <2>1
    <3>2. ASSUME NEW t \in Tunnels, Asked(d, t)' PROVE Course(d, t)'
      <4>1. t \in ts
        BY <3>1, <3>2 DEF Asked
      <4>2. /\ \A as, bs : Leads(call[d].todo, as, bs, t)' <=> Leads(s, as, bs, t)
            /\ \A ops : Left(d, ops, t)' <=> LeftIn(s, ops, t)
        BY <3>1 DEF Leads, Left, LeftIn
      <4> QED BY <1>1, <3>1, <4>1, <4>2 DEF Course
    <3> QED BY <3>1, <3>2
  <2>2. CASE d # c
    <3>1. call'[d] = call[d] /\ (Active(d)' <=> Active(d))
      BY <1>3, <1>5, <2>2
    <3>2. ASSUME NEW t \in Tunnels
          PROVE  (Asked(d, t)' <=> Asked(d, t)) /\ (Course(d, t)' <=> Course(d, t))
      BY <1>1, <3>1 DEF Asked, Course, Left, LeftIn, Leads
    <3> QED BY <1>4, <3>1, <3>2 DEF OnCourse, Courses
  <2> QED BY <2>1, <2>2
<1>8. SwitchesTyped' /\ \A t \in Tunnels : WatchedAt(t)' /\ RunsAt(t)'
  <2> SUFFICES ASSUME NEW t \in Tunnels PROVE WatchedAt(t)' /\ RunsAt(t)'
    BY <1>1 DEF OnCourse, SwitchesTyped
  <2>1. WatchedAt(t) /\ RunsAt(t)
    BY DEF OnCourse
  <2>2. \A d \in Callers : Mends(d, t) => Mends(d, t)'
    BY <1>6 DEF Mends
  <2>3. \A d \in Callers : TurnsOff(d, t) /\ Left(d, {"StopMonitoring"}, t)
                              => TurnsOff(d, t)' /\ Left(d, {"StopMonitoring"}, t)'
    BY <1>6 DEF TurnsOff
  <2>4. WatchedAt(t)'
    BY <1>1, <1>4, <2>1, <2>2 DEF WatchedAt
  <2>5. RunsAt(t)'
    BY <1>1, <1>4, <2>1, <2>3 DEF RunsAt, Kernel, Alive
  <2> QED BY <2>4, <2>5
<1> QED BY <1>7, <1>8 DEF OnCourse

LEMMA EventOnCourse ==
  ASSUME GhostInv, OnCourse, NEW h \in Handlers, Event(h) PROVE OnCourse'
<1>1. PICK kind \in Kinds \cap LifecycleKinds, t \in Tunnels : Begin(h, kind, {t}, Plan(kind, t))
  BY DEF Event
<1>2. /\ OnlyOps(Plan(kind, t), OpsOf(kind))
      /\ Leads(Plan(kind, t), {"StopMonitoring"}, {"Stop"}, t)
      /\ Leads(Plan(kind, t), {"Start"}, {"StartMonitoring"}, t) \/ ~cfgd[t]
  BY LifecycleCourse
<1>3. kind \notin SwitchOn /\ kind \notin SwitchOff /\ h \in Callers
  BY DEF SwitchOn, SwitchOff, LifecycleKinds, Callers
<1>4. PICK s : s = Plan(kind, t)
  OBVIOUS
<1> QED BY <1>1, <1>2, <1>3, <1>4, BeginOnCourse

LEMMA RequestOnCourse ==
  ASSUME GhostInv, OnCourse, NEW r \in Requests, Request(r) PROVE OnCourse'
<1>0. PICK kind \in TunnelKinds \cup GlobalKinds, ts \in SUBSET Tunnels : \E s :
         /\ Begin(r, kind, ts, s)
         /\ \/ kind \in TunnelKinds /\ \E t \in Tunnels : ts = {t} /\ s = TogglePlan(kind, t)
            \/ kind \in GlobalKinds /\ ts = Tunnels /\ s = GlobalPlan(kind)
  <2>1. ASSUME NEW kind \in Kinds \cap TunnelKinds, NEW t \in Tunnels, Begin(r, kind, {t}, TogglePlan(kind, t))
        PROVE  \E k \in TunnelKinds \cup GlobalKinds, ts \in SUBSET Tunnels : \E s :
                 /\ Begin(r, k, ts, s)
                 /\ \/ k \in TunnelKinds /\ \E u \in Tunnels : ts = {u} /\ s = TogglePlan(k, u)
                    \/ k \in GlobalKinds /\ ts = Tunnels /\ s = GlobalPlan(k)
    BY <2>1, Zenon
  <2>2. ASSUME NEW kind \in Kinds \cap GlobalKinds, Begin(r, kind, Tunnels, GlobalPlan(kind))
        PROVE  \E k \in TunnelKinds \cup GlobalKinds, ts \in SUBSET Tunnels : \E s :
                 /\ Begin(r, k, ts, s)
                 /\ \/ k \in TunnelKinds /\ \E u \in Tunnels : ts = {u} /\ s = TogglePlan(k, u)
                    \/ k \in GlobalKinds /\ ts = Tunnels /\ s = GlobalPlan(k)
    BY <2>2, Zenon
  <2> QED BY <2>1, <2>2 DEF Request
<1>1. PICK s :
         /\ Begin(r, kind, ts, s)
         /\ \/ kind \in TunnelKinds /\ \E t \in Tunnels : ts = {t} /\ s = TogglePlan(kind, t)
            \/ kind \in GlobalKinds /\ ts = Tunnels /\ s = GlobalPlan(kind)
  BY <1>0, Zenon
<1>2. /\ OnlyOps(s, OpsOf(kind))
      /\ \A t \in ts : kind \in SwitchOn => Leads(s, {"Save", "Refresh"}, StartOps, t)
      /\ \A t \in ts : kind \in SwitchOff => LeftIn(s, {"StopMonitoring"}, t) /\ LeftIn(s, {"Save"}, t)
  BY <1>1, SwitchCourse
<1>3. kind \notin LifecycleKinds /\ r \in Callers
  BY DEF TunnelKinds, GlobalKinds, LifecycleKinds, Callers
<1> QED BY <1>1, <1>2, <1>3, BeginOnCourse

(* A loop ends if its channel is closed or, of a kernel tunnel, if the     *)
(* ping check is stored as off.                                            *)
LEMMA LoopGoesOn ==
  ASSUME TypeOK, NEW w \in Workers, TickStep(w) \/ (w \in Monitors /\ MonitorStep(w)),
         NEW m \in Monitors
  PROVE  /\ UNCHANGED <<native, pingOn, cfgd, running, reg, owner, closed, call, crossed>>
         /\ work'[m].pc = "begin" => work[m].pc = "begin"
         /\ /\ Alive(m) /\ m \notin closed
            /\ pingOn[owner[m]] \/ (owner[m] \in native /\ work[m].pc # "begin")
            => Alive(m)'
<1> USE DEF Work, Places, Alive, tunnelVars, monVars, history
<1>1. work \in [Workers -> Work] /\ NoWork.pc = "gone" /\ m \in Workers
  BY DEF TypeOK, NoWork, Workers
<1>2. AfterTick(w).pc # "begin" /\ (w = m => AfterTick(w).pc = "select")
  BY DEF AfterTick, NoWork
<1>3. w = m => ReadConfig(w).pc # "begin" /\ (pingOn[owner[m]] => ReadConfig(w).pc = "check")
  BY <1>1 DEF ReadConfig
<1>4. CASE w # m
  <2>1. work'[m] = work[m] /\ UNCHANGED <<native, pingOn, cfgd, running, reg, owner, closed, call, crossed>>
    BY <1>1, <1>4 DEF TickStep, MonitorStep, LoopBegin, Tick, LoopStop, pollOnce, CheckPassed, CheckFailed,
       ToggleDown, ToggleUp, Handshake, NoHandshake, BackoffEnd
  <2> QED BY <2>1
<1>5. CASE w = m
  <2> USE <1>1, <1>2, <1>3, <1>5
  <2>4. CASE LoopBegin(w)
    BY <2>4 DEF LoopBegin
  <2>5. CASE Tick(w)
    BY <2>5 DEF Tick
  <2>6. CASE LoopStop(w)
    BY <2>6 DEF LoopStop
  <2>7. CASE pollOnce(w)
    BY <2>7 DEF pollOnce
  <2>8. CASE CheckPassed(w)
    BY <2>8 DEF CheckPassed
  <2>9. CASE CheckFailed(w)
    BY <2>9 DEF CheckFailed
  <2>10. CASE ToggleDown(w)
    BY <2>10 DEF ToggleDown
  <2>11. CASE ToggleUp(w)
    <3>1. PICK sel \in BOOLEAN : work' = [work EXCEPT ![w] = [@ EXCEPT !.pc = "handshake", !.sel = sel]]
      BY <2>11 DEF ToggleUp
    <3>2. work'[w].pc = "handshake"
      BY <3>1
    <3> QED BY <2>11, <3>2 DEF ToggleUp
  <2>12. CASE Handshake(w)
    BY <2>12 DEF Handshake
  <2>13. CASE NoHandshake(w)
    <3>1. work'[w].pc = "backoff"
      BY <2>13 DEF NoHandshake
    <3> QED BY <2>13, <3>1 DEF NoHandshake
  <2>14. CASE BackoffEnd(w)
    BY <2>14 DEF BackoffEnd
  <2> QED
    BY <2>4, <2>5, <2>6, <2>7, <2>8, <2>9, <2>10, <2>11, <2>12, <2>13, <2>14 DEF TickStep, MonitorStep
<1> QED BY <1>4, <1>5

LEMMA WorkerKeepsWatch ==
  ASSUME GhostInv, WatchInv, NEW w \in Workers, TickStep(w) \/ (w \in Monitors /\ MonitorStep(w))
  PROVE  WatchInv'
<1>1. ASSUME NEW m \in Monitors
      PROVE  /\ UNCHANGED <<native, pingOn, cfgd, running, reg, owner, closed, call, crossed>>
             /\ work'[m].pc = "begin" => work[m].pc = "begin"
             /\ /\ Alive(m) /\ m \notin closed
                /\ pingOn[owner[m]] \/ (owner[m] \in native /\ work[m].pc # "begin")
                => Alive(m)'
  BY LoopGoesOn DEF GhostInv
<1>2. UNCHANGED <<native, pingOn, cfgd, running, reg, owner, closed, call, crossed>>
  <2>1. CASE Monitors # {}
    BY <1>1, <2>1
  <2>2. CASE Monitors = {}
    BY <2>2 DEF TickStep, CheckPassed, CheckFailed, ToggleDown, ToggleUp, Handshake, NoHandshake, BackoffEnd,
       tunnelVars, monVars, history
  <2> QED BY <2>1, <2>2
<1>3. \A t \in Tunnels : reg[t] # NoMonitor => reg[t] \in Monitors /\ owner[reg[t]] = t /\ reg[t] \notin closed
  BY DEF GhostInv, TypeOK, Reference, RegisteredOwn, WatchInv, Apart
<1>4. Courses' /\ SwitchesTyped'
  <2>1. \A d \in Callers : \A t : (Asked(d, t)' <=> Asked(d, t)) /\ (Course(d, t) => Course(d, t)')
    BY <1>2 DEF Asked, Active, Course, Left, LeftIn, Leads
  <2>2. \A d \in Callers : OnlyOps(call[d].todo, OpsOf(call[d].kind))'
    BY <1>2 DEF WatchInv, OnCourse, Courses, OnlyOps
  <2>3. SwitchesTyped'
    BY <1>2 DEF WatchInv, OnCourse, SwitchesTyped
  <2> QED BY <1>2, <2>1, <2>2, <2>3 DEF WatchInv, OnCourse, Courses
<1>5. \A d \in Callers : \A t : /\ (Mends(d, t)' <=> Mends(d, t)) /\ (TurnsOff(d, t)' <=> TurnsOff(d, t))
                                /\ \A ops : (Left(d, ops, t)' <=> Left(d, ops, t))
  BY <1>2 DEF Mends, TurnsOff, Asked, Active, Left, LeftIn
<1>6. \A t \in Tunnels : WatchedAt(t)'
  BY <1>2, <1>5 DEF WatchInv, OnCourse, WatchedAt
<1>7. ASSUME NEW t \in Tunnels PROVE RunsAt(t)'
  <2> SUFFICES ASSUME t \in Kernel, ~crossed[t], reg[t] # NoMonitor
               PROVE  \/ pingOn[t] /\ Alive(reg[t])'
                      \/ \E c \in Callers : TurnsOff(c, t)' /\ Left(c, {"StopMonitoring"}, t)'
    BY <1>2 DEF RunsAt, Kernel, Alive
  <2>1. RunsAt(t)
    BY DEF WatchInv, OnCourse
  <2>2. CASE \E c \in Callers : TurnsOff(c, t) /\ Left(c, {"StopMonitoring"}, t)
    BY <1>5, <2>2
  <2>3. CASE pingOn[t] /\ Alive(reg[t])
    <3>1. PICK m \in Monitors : m = reg[t] /\ owner[m] = t /\ m \notin closed
      BY <1>3
    <3>2. Alive(m)'
      BY <1>1, <2>3, <3>1
    <3> QED BY <1>2, <2>3, <3>1, <3>2 DEF Alive
  <2> QED BY <2>1, <2>2, <2>3 DEF RunsAt
<1>8. NativeRuns'
  <2>1. \A m \in Monitors : work'[m].pc = "begin" => owner'[m] \in Kernel'
    BY <1>1, <1>2 DEF WatchInv, NativeRuns, Kernel
  <2>2. ASSUME NEW t \in native, reg[t] # NoMonitor PROVE Alive(reg[t])'
    <3>1. t \in Tunnels /\ Alive(reg[t])
      BY <2>2 DEF GhostInv, TypeOK, WatchInv, NativeRuns
    <3>2. PICK m \in Monitors : m = reg[t] /\ owner[m] = t /\ m \notin closed
      BY <1>3, <2>2, <3>1
    <3>3. work[m].pc # "begin"
      BY <2>2, <3>2 DEF WatchInv, NativeRuns, Kernel
    <3>4. Alive(m)'
      BY <1>1, <2>2, <3>1, <3>2, <3>3
    <3> QED BY <1>2, <3>2, <3>4 DEF Alive
  <2> QED BY <1>2, <2>1, <2>2 DEF NativeRuns, Alive
<1>9. Apart'
  <2>1. ASSUME NEW c \in Callers, call[c].fresh # NoMonitor PROVE Alive(call[c].fresh)'
    <3>1. PICK m \in Monitors : m = call[c].fresh /\ Alive(m) /\ m \notin closed /\ owner[m] \in native
      <4>1. call[c].fresh \in Monitors /\ Registers(c, call[c].todo, owner[call[c].fresh])
        BY <2>1 DEF GhostInv, CallOK
      <4> QED BY <2>1, <4>1 DEF WatchInv, Apart, Registers
    <3>2. work[m].pc # "begin"
      BY <3>1 DEF WatchInv, NativeRuns, Kernel
    <3>3. Alive(m)'
      BY <1>1, <3>1, <3>2
    <3> QED BY <1>2, <3>1, <3>3 DEF Alive
  <2> QED BY <1>2, <2>1 DEF WatchInv, Apart, Alive
<1> QED BY <1>4, <1>6, <1>7, <1>8, <1>9 DEF WatchInv, OnCourse

(* A step that takes no monitor from one place to another. *)
LEMMA ApartStays ==
  ASSUME GhostInv, Apart, NativeRuns, UNCHANGED <<native, reg, owner, closed>>,
         \A m \in Monitors : work'[m] = work[m],
         \A c \in Callers : /\ call'[c].held \cup call'[c].taken \subseteq call[c].held \cup call[c].taken
                            /\ call'[c].fresh \in {call[c].fresh, NoMonitor}
  PROVE  Apart' /\ NativeRuns'
<1>1. \A m \in Monitors : Alive(m)' <=> Alive(m)
  BY DEF Alive
<1>2. \A t \in Tunnels : reg[t] # NoMonitor => reg[t] \in Monitors
  BY DEF GhostInv, TypeOK, Reference
<1>3. \A c \in Callers : /\ call[c].fresh # NoMonitor => call[c].fresh \in Monitors
                         /\ NoMonitor \notin call[c].held \cup call[c].taken
  BY PingAssumption DEF GhostInv, TypeOK, Call, Reference
<1>4. Apart'
  <2>1. ASSUME NEW c \in Callers, NEW m \in call'[c].held \cup call'[c].taken
        PROVE  (\A t \in Tunnels : reg'[t] # m) /\ \A d \in Callers : call'[d].fresh # m
    BY <1>3 DEF Apart
  <2>2. ASSUME NEW c \in Callers, call'[c].fresh # NoMonitor
        PROVE  /\ \A t \in Tunnels : reg'[t] # call'[c].fresh
               /\ \A d \in Callers \ {c} : call'[d].fresh # call'[c].fresh
               /\ call'[c].fresh \notin closed' /\ work'[call'[c].fresh].pc # "gone"
    <3>1. call'[c].fresh = call[c].fresh
      BY <2>2
    <3> QED BY <1>3, <2>2, <3>1 DEF Apart, Alive
  <2> QED BY <2>1, <2>2 DEF Apart, Alive
<1>5. NativeRuns'
  BY <1>2 DEF NativeRuns, Kernel, Alive, GhostInv, TypeOK
<1> QED BY <1>4, <1>5

(* Unregistered monitors go to whoever stops them. *)
LEMMA ApartUnregistered ==
  ASSUME GhostInv, Apart, NativeRuns, NEW c \in Callers, NEW ts \in SUBSET Tunnels,
         UNCHANGED <<native, owner, work>>,
         reg' = [u \in Tunnels |-> IF u \in ts THEN NoMonitor ELSE reg[u]],
         closed' \subseteq closed \cup ({reg[u] : u \in ts} \ {NoMonitor}),
         call'[c].held \cup call'[c].taken \subseteq {reg[u] : u \in ts} \ {NoMonitor},
         call'[c].fresh = call[c].fresh, \A d \in Callers \ {c} : call'[d] = call[d]
  PROVE  Apart' /\ NativeRuns'
<1>1. \A u, v \in Tunnels : reg[u] # NoMonitor /\ reg[u] = reg[v] => u = v
  BY DEF GhostInv, RegisteredOwn
<1>2. \A d \in Callers : call'[d].fresh = call[d].fresh
  OBVIOUS
<1>3. \A t \in Tunnels : reg'[t] # NoMonitor => t \notin ts /\ reg'[t] = reg[t]
  OBVIOUS
<1>4. \A d \in Callers : NoMonitor \notin call[d].held \cup call[d].taken
  BY PingAssumption DEF GhostInv, TypeOK, Call
<1>5. ASSUME NEW d \in Callers, NEW m \in call'[d].held \cup call'[d].taken
      PROVE  (\A t \in Tunnels : reg'[t] # m) /\ \A e \in Callers : call'[e].fresh # m
  <2>1. CASE d = c
    <3>1. PICK u \in ts : m = reg[u] /\ m # NoMonitor
      BY <1>5, <2>1
    <3>2. \A t \in Tunnels : reg'[t] # m
      BY <1>1, <1>3, <3>1
    <3>3. \A e \in Callers : call'[e].fresh # m
      BY <1>2, <3>1 DEF Apart
    <3> QED BY <3>2, <3>3
  <2>2. CASE d # c
    BY <1>2, <1>3, <1>4, <1>5, <2>2 DEF Apart
  <2> QED BY <2>1, <2>2
<1>6. ASSUME NEW d \in Callers, call[d].fresh # NoMonitor
      PROVE  /\ \A t \in Tunnels : reg'[t] # call[d].fresh
             /\ call[d].fresh \notin closed'
  BY <1>3, <1>6 DEF Apart
<1>7. \A t \in Tunnels : reg'[t] # NoMonitor => reg'[t] \notin closed'
  <2> SUFFICES ASSUME NEW t \in Tunnels, reg'[t] # NoMonitor, reg'[t] \in closed' PROVE FALSE
    OBVIOUS
  <2>1. reg'[t] = reg[t] /\ t \notin ts /\ reg[t] \notin closed
    BY <1>3 DEF Apart
  <2>2. PICK u \in ts : reg[t] = reg[u]
    BY <2>1
  <2> QED BY <1>1, <2>1, <2>2
<1>8. Apart'
  BY <1>2, <1>5, <1>6, <1>7 DEF Apart, Alive
<1>9. NativeRuns'
  BY <1>3 DEF NativeRuns, Kernel, Alive, GhostInv, TypeOK
<1> QED BY <1>8, <1>9

LEMMA UnregisterApart ==
  ASSUME GhostInv, Apart, NativeRuns, NEW c \in Callers, StopMonitoring(c) \/ stopNwgMonitor(c)
  PROVE  Apart' /\ NativeRuns'
<1> DEFINE ts == Head(call[c].todo).on
           ms == {reg[u] : u \in ts} \ {NoMonitor}
<1>1. PICK t \in Tunnels : /\ At(c, "StopMonitoring", t)
                           /\ reg' = [u \in Tunnels |-> IF u \in ts THEN NoMonitor ELSE reg[u]]
                           /\ closed' \subseteq closed \cup ms
                           /\ \/ call' = [Done(c, ts) EXCEPT ![c].held = ms]
                              \/ call' = [Done(c, ts) EXCEPT ![c].taken = ms]
  BY DEF StopMonitoring, stopNwgMonitor, Kernel, GhostInv, TypeOK
<1>2. UNCHANGED <<native, owner, work>> /\ "StopMonitoring" \in OpNames /\ "StopMonitoring" \notin NwgHalves
  BY DEF StopMonitoring, stopNwgMonitor, tunnelVars, OpNames, NwgHalves
<1>3. /\ Head(call[c].todo) \in Operation /\ call[c].held = {} /\ call[c].taken = {}
      /\ call[c] \in Call /\ call \in [Callers -> Call]
  BY <1>1, <1>2, AtPlain DEF GhostInv, TypeOK
<1>4. ts \in SUBSET Tunnels
  BY <1>3 DEF Operation
<1>5. /\ call'[c].held \cup call'[c].taken \subseteq ms /\ call'[c].fresh = call[c].fresh
      /\ \A d \in Callers \ {c} : call'[d] = call[d]
  <2> HIDE DEF ms, ts
  <2>1. CASE call' = [Done(c, ts) EXCEPT ![c].held = ms]
    BY <1>3, <2>1 DEF Done, Call
  <2>2. CASE call' = [Done(c, ts) EXCEPT ![c].taken = ms]
    BY <1>3, <2>2 DEF Done, Call
  <2> QED BY <1>1, <2>1, <2>2
<1> HIDE DEF ts
<1> QED BY <1>1, <1>2, <1>4, <1>5, ApartUnregistered

LEMMA StartNwgApart ==
  ASSUME GhostInv, Apart, NativeRuns, NEW c \in Callers, startNwgMonitor(c) PROVE Apart' /\ NativeRuns'
<1>1. PICK t \in native :
         /\ At(c, "StartMonitoring", t)
         /\ IF pingOn[t]
            THEN /\ reg' = [reg EXCEPT ![t] = NoMonitor]
                 /\ call' = [call EXCEPT ![c].todo = Op("RunNwg", {t}) \o Op("RegisterNwg", {t})
                                                        \o Rest(c, {t}),
                                         ![c].taken = {reg[t]} \ {NoMonitor}]
            ELSE call' = Done(c, {t}) /\ UNCHANGED reg
  BY DEF startNwgMonitor
<1>2. UNCHANGED <<native, owner, closed, work>> /\ t \in Tunnels
  BY DEF startNwgMonitor, tunnelVars, GhostInv, TypeOK
<1>3. call[c].held = {} /\ call[c].taken = {} /\ call[c] \in Call /\ call \in [Callers -> Call]
  BY <1>1 DEF At, GhostInv, TypeOK
<1>4. CASE ~pingOn[t]
  <2>1. /\ call'[c].held = {} /\ call'[c].taken = {} /\ call'[c].fresh = call[c].fresh
        /\ \A d \in Callers \ {c} : call'[d] = call[d]
    BY <1>1, <1>3, <1>4 DEF Done, Call
  <2> QED BY <1>1, <1>2, <1>3, <1>4, <2>1, ApartStays
<1>5. CASE pingOn[t]
  <2> DEFINE all == Op("RunNwg", {t}) \o Op("RegisterNwg", {t}) \o Rest(c, {t})
             ms == {reg[t]} \ {NoMonitor}
             r == [call[c] EXCEPT !.todo = all, !.taken = ms]
  <2>1. call' = [call EXCEPT ![c] = r]
    BY <1>1, <1>3, <1>5
  <2>2. call'[c] = r /\ \A d \in Callers \ {c} : call'[d] = call[d]
    BY <1>3, <2>1
  <2> HIDE DEF ms, all
  <2>3. r.held = call[c].held /\ r.taken = ms /\ r.fresh = call[c].fresh
    BY <1>3 DEF Call
  <2>4. ms = {reg[u] : u \in {t}} \ {NoMonitor}
    BY DEF ms
  <2>5. reg' = [u \in Tunnels |-> IF u \in {t} THEN NoMonitor ELSE reg[u]]
    BY <1>1, <1>5 DEF GhostInv, TypeOK
  <2>6. /\ call'[c].held \cup call'[c].taken \subseteq {reg[u] : u \in {t}} \ {NoMonitor}
        /\ call'[c].fresh = call[c].fresh
    BY <1>3, <2>2, <2>3, <2>4
  <2>7. {t} \in SUBSET Tunnels /\ closed' \subseteq closed \cup ({reg[u] : u \in {t}} \ {NoMonitor})
    BY <1>2
  <2> QED BY <1>2, <2>2, <2>5, <2>6, <2>7, ApartUnregistered
<1> QED BY <1>4, <1>5

LEMMA StopTakenApart ==
  ASSUME GhostInv, Apart, NativeRuns, NEW c \in Callers, StopTaken(c) PROVE Apart' /\ NativeRuns'
<1>1. PICK m \in call[c].taken :
         /\ call' = [call EXCEPT ![c].taken = @ \ {m}, ![c].held = {m}] /\ call[c].held = {}
         /\ closed' = closed \cup {m}
  BY DEF StopTaken
<1>2. UNCHANGED <<native, reg, owner, work>>
  BY DEF StopTaken, tunnelVars
<1>3. call[c] \in Call /\ call \in [Callers -> Call]
  BY DEF GhostInv, TypeOK
<1>4. /\ call'[c].held = {m} /\ call'[c].taken = call[c].taken \ {m} /\ call'[c].fresh = call[c].fresh
      /\ \A d \in Callers \ {c} : call'[d] = call[d]
  <2> DEFINE r == [call[c] EXCEPT !.taken = @ \ {m}, !.held = {m}]
  <2>1. call'[c] = r /\ \A d \in Callers \ {c} : call'[d] = call[d]
    BY <1>1, <1>3
  <2>2. r.held = {m} /\ r.taken = call[c].taken \ {m} /\ r.fresh = call[c].fresh
    BY <1>3 DEF Call
  <2> QED BY <2>1, <2>2
<1>5. (\A t \in Tunnels : reg[t] # m) /\ \A d \in Callers : call[d].fresh # m
  BY <1>1 DEF Apart
<1>6. \A d \in Callers : /\ call'[d].fresh = call[d].fresh
                         /\ call'[d].held \cup call'[d].taken = call[d].held \cup call[d].taken
  BY <1>1, <1>4
<1>7. Apart'
  <2>1. ASSUME NEW d \in Callers, NEW n \in call'[d].held \cup call'[d].taken
        PROVE  (\A t \in Tunnels : reg'[t] # n) /\ \A e \in Callers : call'[e].fresh # n
    BY <1>2, <1>6, <2>1 DEF Apart
  <2>2. ASSUME NEW d \in Callers, call'[d].fresh # NoMonitor
        PROVE  /\ \A t \in Tunnels : reg'[t] # call'[d].fresh
               /\ \A e \in Callers \ {d} : call'[e].fresh # call'[d].fresh
               /\ call'[d].fresh \notin closed' /\ work'[call'[d].fresh].pc # "gone"
    <3>1. call'[d].fresh = call[d].fresh /\ call[d].fresh # m
      BY <1>5, <1>6
    <3>2. /\ \A t \in Tunnels : reg[t] # call[d].fresh
          /\ \A e \in Callers \ {d} : call[e].fresh # call[d].fresh
          /\ call[d].fresh \notin closed /\ work[call[d].fresh].pc # "gone"
      BY <2>2, <3>1 DEF Apart, Alive
    <3>3. \A e \in Callers \ {d} : call'[e].fresh # call'[d].fresh
      BY <1>6, <3>2
    <3>4. reg' = reg /\ work' = work
      BY <1>2
    <3>5. call'[d].fresh \notin closed' /\ work'[call'[d].fresh].pc # "gone"
      BY <1>1, <3>1, <3>2, <3>4
    <3> QED BY <3>1, <3>2, <3>3, <3>4, <3>5
  <2>3. \A t \in Tunnels : reg'[t] # NoMonitor => reg'[t] \notin closed'
    BY <1>1, <1>2, <1>5 DEF Apart
  <2> QED BY <2>1, <2>2, <2>3 DEF Apart, Alive
<1>8. NativeRuns'
  BY <1>2 DEF NativeRuns, Kernel, Alive
<1> QED BY <1>7, <1>8

(* A new goroutine under a name nothing refers to. *)
LEMMA SpawnApart ==
  ASSUME GhostInv, Apart, NativeRuns, NEW m, NEW t \in Tunnels, NEW pc \in Places, Spawn(m, t, pc),
         pc # "gone", pc = "begin" => t \in Kernel, native' = native,
         NEW c \in Callers, \A d \in Callers \ {c} : call'[d] = call[d],
         call'[c].held \cup call'[c].taken \subseteq call[c].held \cup call[c].taken,
         \/ t \in Kernel /\ reg' = [reg EXCEPT ![t] = m] /\ call'[c].fresh = call[c].fresh
         \/ reg' = reg /\ call'[c].fresh = m
  PROVE  Apart' /\ NativeRuns'
<1>1. /\ m \in Monitors /\ m # NoMonitor /\ owner'[m] = t
      /\ \A n \in Monitors \ {m} : owner'[n] = owner[n]
      /\ \A u \in Tunnels : reg[u] # m
      /\ \A d \in Callers : m \notin call[d].held \cup call[d].taken \cup {call[d].fresh}
  BY Spawned
<1>2. /\ work'[m].pc = pc /\ \A n \in Monitors \ {m} : work'[n] = work[n]
      /\ closed' = closed \ {m}
  BY <1>1 DEF Spawn, GhostInv, TypeOK, Workers
<1>3. \A u \in Tunnels : \/ reg'[u] = reg[u]
                         \/ u \in Kernel /\ reg'[u] = m /\ \A d \in Callers : call'[d].fresh = call[d].fresh
  BY DEF GhostInv, TypeOK
<1>4. \A d \in Callers : call'[d].fresh = call[d].fresh \/ (d = c /\ call'[d].fresh = m /\ reg' = reg)
  OBVIOUS
<1>5. \A d \in Callers : /\ call'[d].held \cup call'[d].taken \subseteq call[d].held \cup call[d].taken
                         /\ m \notin call'[d].held \cup call'[d].taken
  BY <1>1
<1>6. /\ \A d \in Callers : call[d].fresh # NoMonitor => call[d].fresh \in Monitors \ {m}
      /\ \A u \in Tunnels : reg[u] # NoMonitor => reg[u] \in Monitors \ {m}
  BY <1>1 DEF GhostInv, TypeOK, Call, Reference
<1>7. Apart'
  <2>1. ASSUME NEW d \in Callers, NEW n \in call'[d].held \cup call'[d].taken
        PROVE  (\A u \in Tunnels : reg'[u] # n) /\ \A e \in Callers : call'[e].fresh # n
    <3>1. n \in call[d].held \cup call[d].taken /\ n # m
      BY <1>5, <2>1
    <3>2. (\A u \in Tunnels : reg[u] # n) /\ \A e \in Callers : call[e].fresh # n
      BY <3>1 DEF Apart
    <3> QED BY <1>3, <1>4, <3>1, <3>2
  <2>2. ASSUME NEW d \in Callers, call'[d].fresh # NoMonitor
        PROVE  /\ \A u \in Tunnels : reg'[u] # call'[d].fresh
               /\ \A e \in Callers \ {d} : call'[e].fresh # call'[d].fresh
               /\ call'[d].fresh \notin closed' /\ work'[call'[d].fresh].pc # "gone"
    <3>1. CASE call'[d].fresh = call[d].fresh
      <4>1. /\ \A u \in Tunnels : reg[u] # call[d].fresh
            /\ \A e \in Callers \ {d} : call[e].fresh # call[d].fresh
            /\ call[d].fresh \notin closed /\ work[call[d].fresh].pc # "gone"
            /\ call[d].fresh \in Monitors \ {m}
        BY <1>6, <2>2, <3>1 DEF Apart, Alive
      <4>2. \A u \in Tunnels : reg'[u] # call'[d].fresh
        BY <1>3, <3>1, <4>1
      <4>3. \A e \in Callers \ {d} : call'[e].fresh # call'[d].fresh
        BY <1>4, <3>1, <4>1
      <4>4. call'[d].fresh \notin closed' /\ work'[call'[d].fresh].pc # "gone"
        BY <1>2, <3>1, <4>1
      <4> QED BY <4>2, <4>3, <4>4
    <3>2. CASE d = c /\ call'[d].fresh = m /\ reg' = reg
      <4>1. \A e \in Callers \ {d} : call'[e].fresh # call'[d].fresh
        BY <1>1, <3>2
      <4> QED BY <1>1, <1>2, <3>2, <4>1
    <3> QED BY <1>4, <3>1, <3>2
  <2>3. \A u \in Tunnels : reg'[u] # NoMonitor => reg'[u] \notin closed'
    BY <1>1, <1>2, <1>3 DEF Apart
  <2> QED BY <2>1, <2>2, <2>3 DEF Apart, Alive
<1>8. NativeRuns'
  <2>1. ASSUME NEW n \in Monitors, work'[n].pc = "begin" PROVE owner'[n] \in Kernel'
    BY <1>1, <1>2, <2>1 DEF NativeRuns, Kernel
  <2>2. ASSUME NEW u \in native, reg'[u] # NoMonitor PROVE work'[reg'[u]].pc # "gone"
    <3>1. u \in Tunnels /\ reg'[u] = reg[u]
      BY <1>3 DEF Kernel, GhostInv, TypeOK
    <3> QED BY <1>2, <1>6, <2>2, <3>1 DEF NativeRuns, Alive
  <2> QED BY <2>1, <2>2 DEF NativeRuns, Alive
<1> QED BY <1>7, <1>8

LEMMA RegisterApart ==
  ASSUME GhostInv, Apart, NativeRuns, NEW c \in Callers, StartMonitoring(c) \/ StartIf(c)
  PROVE  Apart' /\ NativeRuns'
<1>1. PICK t \in Kernel, op \in StartOps :
          /\ At(c, op, t) /\ call' = Done(c, {t})
          /\ \/ Register(c, t)
             \/ ~running[t] /\ UNCHANGED <<monVars, fails, work, untold>>
  BY DEF StartMonitoring, StartIf, StartOps
<1>2. native' = native /\ t \in Tunnels /\ "begin" \in Places
  BY DEF StartMonitoring, StartIf, tunnelVars, Kernel, Places
<1>3. /\ call'[c].held = call[c].held /\ call'[c].taken = call[c].taken /\ call'[c].fresh = call[c].fresh
      /\ \A d \in Callers \ {c} : call'[d] = call[d]
  BY <1>1 DEF Done, GhostInv, TypeOK, Call
<1>4. CASE UNCHANGED <<monVars, fails, work, untold>>
  BY <1>2, <1>3, <1>4, ApartStays DEF monVars
<1>5. CASE \E m \in Monitors : Spawn(m, t, "begin") /\ reg' = [reg EXCEPT ![t] = m]
  <2>1. PICK m \in Monitors : Spawn(m, t, "begin") /\ reg' = [reg EXCEPT ![t] = m]
    BY <1>5
  <2>2. call'[c].held \cup call'[c].taken \subseteq call[c].held \cup call[c].taken
    BY <1>3
  <2> QED BY <1>2, <1>3, <2>1, <2>2, SpawnApart
<1>6. Register(c, t) => \/ UNCHANGED <<monVars, fails, work, untold>>
                        \/ \E m \in Monitors : Spawn(m, t, "begin") /\ reg' = [reg EXCEPT ![t] = m]
  BY DEF Register, Spawn, Free
<1> QED BY <1>1, <1>4, <1>5, <1>6

LEMMA RunNwgApart ==
  ASSUME GhostInv, Apart, NativeRuns, NEW c \in Callers, RunNwg(c) PROVE Apart' /\ NativeRuns'
<1>0. PICK t \in native : \E m : /\ At(c, "RunNwg", t) /\ Spawn(m, t, "poll")
                                /\ call' = [Done(c, {t}) EXCEPT ![c].fresh = m]
  BY DEF RunNwg
<1>1. PICK m : /\ At(c, "RunNwg", t) /\ Spawn(m, t, "poll")
               /\ call' = [Done(c, {t}) EXCEPT ![c].fresh = m]
  BY <1>0
<1>2. UNCHANGED <<native, reg>> /\ t \in Tunnels /\ "poll" \in Places
  BY DEF RunNwg, tunnelVars, GhostInv, TypeOK, Places
<1>3. /\ call'[c].held = call[c].held /\ call'[c].taken = call[c].taken /\ call'[c].fresh = m
      /\ \A d \in Callers \ {c} : call'[d] = call[d]
  BY <1>1 DEF Done, GhostInv, TypeOK, Call
<1> QED BY <1>1, <1>2, <1>3, SpawnApart

LEMMA RegisterNwgApart ==
  ASSUME GhostInv, Apart, NativeRuns, NEW c \in Callers, RegisterNwg(c) PROVE Apart' /\ NativeRuns'
<1>1. PICK t \in native : /\ At(c, "RegisterNwg", t)
                          /\ reg' = [reg EXCEPT ![t] = call[c].fresh]
                          /\ call' = [Done(c, {t}) EXCEPT ![c].fresh = NoMonitor]
  BY DEF RegisterNwg
<1>2. UNCHANGED <<native, owner, closed, work>> /\ t \in Tunnels
  BY DEF RegisterNwg, tunnelVars, GhostInv, TypeOK
<1>3. /\ call'[c].held = call[c].held /\ call'[c].taken = call[c].taken /\ call'[c].fresh = NoMonitor
      /\ \A d \in Callers \ {c} : call'[d] = call[d]
  BY <1>1 DEF Done, GhostInv, TypeOK, Call
<1>4. PICK m : m = call[c].fresh
  OBVIOUS
<1>5. reg'[t] = m /\ \A u \in Tunnels \ {t} : reg'[u] = reg[u]
  BY <1>1, <1>2, <1>4 DEF GhostInv, TypeOK
<1>6. \A d \in Callers : NoMonitor \notin call[d].held \cup call[d].taken
  BY PingAssumption DEF GhostInv, TypeOK, Call
<1>7. \A d \in Callers : call'[d].fresh \in {call[d].fresh, NoMonitor}
                         /\ call'[d].held = call[d].held /\ call'[d].taken = call[d].taken
  BY <1>3
<1>8. Apart'
  <2>1. ASSUME NEW d \in Callers, NEW n \in call'[d].held \cup call'[d].taken
        PROVE  (\A u \in Tunnels : reg'[u] # n) /\ \A e \in Callers : call'[e].fresh # n
    <3>1. (\A u \in Tunnels : reg[u] # n) /\ (\A e \in Callers : call[e].fresh # n) /\ n # NoMonitor
      BY <1>6, <1>7, <2>1 DEF Apart
    <3> QED BY <1>4, <1>5, <1>7, <3>1
  <2>2. ASSUME NEW d \in Callers, call'[d].fresh # NoMonitor
        PROVE  /\ \A u \in Tunnels : reg'[u] # call'[d].fresh
               /\ \A e \in Callers \ {d} : call'[e].fresh # call'[d].fresh
               /\ call'[d].fresh \notin closed' /\ work'[call'[d].fresh].pc # "gone"
    <3>1. d # c /\ call'[d] = call[d]
      BY <1>3, <2>2
    <3>2. /\ \A u \in Tunnels : reg[u] # call[d].fresh
          /\ \A e \in Callers \ {d} : call[e].fresh # call[d].fresh
          /\ call[d].fresh \notin closed /\ work[call[d].fresh].pc # "gone"
      BY <2>2, <3>1 DEF Apart, Alive
    <3>3. \A u \in Tunnels : reg'[u] # call'[d].fresh
      BY <1>4, <1>5, <3>1, <3>2
    <3>4. \A e \in Callers \ {d} : call'[e].fresh # call'[d].fresh
      BY <1>7, <2>2, <3>1, <3>2
    <3>5. closed' = closed /\ work' = work
      BY <1>2
    <3> QED BY <3>1, <3>2, <3>3, <3>4, <3>5
  <2>3. \A u \in Tunnels : reg'[u] # NoMonitor => reg'[u] \notin closed'
    BY <1>2, <1>4, <1>5 DEF Apart
  <2> QED BY <2>1, <2>2, <2>3 DEF Apart, Alive
<1>9. NativeRuns'
  <2>1. ASSUME NEW u \in native, reg'[u] # NoMonitor PROVE work[reg'[u]].pc # "gone"
    BY <1>4, <1>5, <2>1 DEF NativeRuns, Apart, Alive, GhostInv, TypeOK
  <2> QED BY <1>2, <2>1 DEF NativeRuns, Alive, Kernel
<1> QED BY <1>8, <1>9

(* The other steps of a call leave the monitors where they are. *)
LEMMA OtherApart ==
  ASSUME GhostInv, Apart, NativeRuns, NEW c \in Callers,
         \/ Start(c) \/ Stop(c) \/ Tell(c) \/ Save(c) \/ RefreshTunnelState(c) \/ Waited(c)
         \/ CheckAllNow(c) \/ Skip(c) \/ Return(c) \/ lockTunnel(c)
  PROVE  Apart' /\ NativeRuns'
<1>1. call[c] \in Call /\ call \in [Callers -> Call]
  BY DEF GhostInv, TypeOK
<1>2. UNCHANGED <<native, reg, owner, closed>>
  BY DEF Start, Stop, Tell, Save, RefreshTunnelState, Waited, CheckAllNow, Skip, Return, lockTunnel,
     tunnelVars, monVars
<1>3. \A m \in Monitors : work'[m] = work[m]
  <2>1. CASE CheckAllNow(c)
    <3>1. c \notin Monitors /\ Monitors \subseteq Workers
      BY PingAssumption DEF Callers, Workers
    <3> QED BY <2>1, <3>1 DEF CheckAllNow, GhostInv, TypeOK
  <2>2. CASE ~CheckAllNow(c)
    BY <2>2 DEF Start, Stop, Tell, Save, RefreshTunnelState, Waited, Skip, Return, lockTunnel
  <2> QED BY <2>1, <2>2
<1>4. /\ \A d \in Callers \ {c} : call'[d] = call[d]
      /\ call'[c].held \cup call'[c].taken \subseteq call[c].held \cup call[c].taken
      /\ call'[c].fresh \in {call[c].fresh, NoMonitor}
  <2>1. CASE \E t \in Tunnels : call' = Done(c, {t})
    BY <1>1, <2>1 DEF Done, Call
  <2>2. CASE Waited(c)
    BY <1>1, <2>2 DEF Waited, Call
  <2>3. CASE Skip(c)
    BY <1>1, <2>3 DEF Skip, Call
  <2>4. CASE Return(c)
    BY <1>1, <2>4 DEF Return, NoCall
  <2>5. CASE lockTunnel(c)
    BY <1>1, <2>5 DEF lockTunnel, Call
  <2> QED BY <2>1, <2>2, <2>3, <2>4, <2>5 DEF Start, Stop, Tell, Save, RefreshTunnelState, CheckAllNow, Kernel
<1> QED BY <1>2, <1>3, <1>4, ApartStays

LEMMA BeginApart ==
  ASSUME GhostInv, Apart, NativeRuns, NEW c \in Callers, NEW kind, NEW ts, NEW s, Begin(c, kind, ts, s)
  PROVE  Apart' /\ NativeRuns'
<1>1. UNCHANGED <<native, reg, owner, closed, work>>
  BY DEF Begin, tunnelVars, monVars
<1>2. /\ \A d \in Callers \ {c} : call'[d] = call[d]
      /\ call'[c].held = {} /\ call'[c].taken = {} /\ call'[c].fresh = NoMonitor
  BY DEF Begin, NoCall, GhostInv, TypeOK
<1> QED BY <1>1, <1>2, ApartStays

LEMMA WatchInvInitially == Init => WatchInv
<1> SUFFICES ASSUME Init PROVE WatchInv
  OBVIOUS
<1>1. /\ NoCall.kind = "none" /\ NoCall.todo = <<>> /\ NoCall.held = {} /\ NoCall.taken = {}
      /\ NoCall.fresh = NoMonitor /\ NoWork.pc = "gone"
  BY DEF NoCall, NoWork
<1>2. \A c \in Callers : call[c] = NoCall /\ ~Active(c)
  BY <1>1 DEF Init, Active
<1>3. SwitchesTyped /\ Courses
  BY <1>1, <1>2, NoneLeft DEF Init, SwitchesTyped, Courses, Asked
<1>4. \A t \in Tunnels : WatchedAt(t) /\ RunsAt(t)
  BY DEF Init, WatchedAt, RunsAt
<1>5. Apart
  BY <1>1, <1>2 DEF Init, Apart
<1>6. NativeRuns
  BY <1>1 DEF Init, NativeRuns, Workers
<1> QED BY <1>3, <1>4, <1>5, <1>6 DEF WatchInv, OnCourse

LEMMA WatchInvStep == GhostInv /\ WatchInv /\ [Next]_vars => WatchInv'
<1> SUFFICES ASSUME GhostInv, WatchInv, [Next]_vars PROVE WatchInv'
  OBVIOUS
<1>1. OnCourse /\ Apart /\ NativeRuns
  BY DEF WatchInv
<1>2. ASSUME NEW c \in Callers, CallStep(c) PROVE WatchInv'
  <2>1. CASE c \in Requests /\ TickStep(c)
    BY <2>1, WorkerKeepsWatch DEF Workers
  <2>2. CASE ~(c \in Requests /\ TickStep(c))
    <3>1. OnCourse'
      BY <1>1, <1>2, <2>2, StartOnCourse, StopOnCourse, TellOnCourse, SaveOnCourse, RefreshOnCourse,
         RegisterOnCourse, UnregisterOnCourse, StartNwgOnCourse, RunNwgOnCourse, RegisterNwgOnCourse,
         SameCallOnCourse, SkipOnCourse, ReturnOnCourse
      DEF CallStep
    <3>2. Apart' /\ NativeRuns'
      BY <1>1, <1>2, <2>2, RegisterApart, UnregisterApart, StartNwgApart, RunNwgApart, RegisterNwgApart,
         StopTakenApart, OtherApart
      DEF CallStep
    <3> QED BY <3>1, <3>2 DEF WatchInv
  <2> QED BY <2>1, <2>2
<1>3. CASE \E m \in Monitors : MonitorStep(m)
  BY <1>3, WorkerKeepsWatch DEF Workers
<1>4. CASE \E h \in Handlers : Event(h)
  <2>1. OnCourse'
    BY <1>1, <1>4, EventOnCourse
  <2>2. Apart' /\ NativeRuns'
    BY <1>1, <1>4, BeginApart DEF Event, Callers
  <2> QED BY <2>1, <2>2 DEF WatchInv
<1>5. CASE \E r \in Requests : Request(r)
  <2>1. OnCourse'
    BY <1>1, <1>5, RequestOnCourse
  <2>2. Apart' /\ NativeRuns'
    BY <1>1, <1>5, BeginApart DEF Request, Callers
  <2> QED BY <2>1, <2>2 DEF WatchInv
<1>6. CASE UNCHANGED vars
  <2>1. UNCHANGED <<native, running, pingOn, cfgd, reg, owner, closed, call, crossed, work>>
    BY <1>6 DEF vars, tunnelVars, monVars, history
  <2>2. \A d \in Callers : \A t : /\ (Asked(d, t)' <=> Asked(d, t)) /\ (Course(d, t) => Course(d, t)')
                                  /\ (Mends(d, t)' <=> Mends(d, t)) /\ (TurnsOff(d, t)' <=> TurnsOff(d, t))
                                  /\ \A ops : (Left(d, ops, t)' <=> Left(d, ops, t))
    BY <2>1 DEF Asked, Active, Course, Left, LeftIn, Leads, Mends, TurnsOff
  <2>3. SwitchesTyped' /\ \A d \in Callers : OnlyOps(call[d].todo, OpsOf(call[d].kind))'
    BY <1>1, <2>1 DEF OnCourse, Courses, OnlyOps, SwitchesTyped
  <2>4. Courses' /\ \A t \in Tunnels : WatchedAt(t)' /\ RunsAt(t)'
    BY <1>1, <2>1, <2>2, <2>3 DEF OnCourse, Courses, WatchedAt, RunsAt, Kernel, Alive
  <2>5. Apart' /\ NativeRuns'
    BY <1>1, <2>1, ApartStays
  <2> QED BY <2>3, <2>4, <2>5 DEF WatchInv, OnCourse
<1> QED BY <1>2, <1>3, <1>4, <1>5, <1>6 DEF Next

(* A running tunnel with the ping check on is watched (decideStart,        *)
(* TunnelsHandler.Update, SettingsHandler.Update, startNwgMonitor): when   *)
(* the calls about it took turns and are over, its monitor is registered   *)
(* and its goroutine runs, whatever was started, stopped, switched on and  *)
(* off before and in whatever order the requests of other tunnels ran.     *)
THEOREM RunningTunnelWatched == Spec => []WatchedWhileEnabled
<1>1. GhostInv /\ WatchInv => WatchedWhileEnabled
  <2> SUFFICES ASSUME GhostInv, WatchInv, NEW t \in Tunnels,
                      AtRest(t), running[t], pingOn[t], cfgd[t], ~crossed[t]
               PROVE  reg[t] # NoMonitor /\ Alive(reg[t])
    BY DEF WatchedWhileEnabled
  <2>1. \A c \in Callers : ~Asked(c, t)
    BY DEF AtRest, Asked
  <2>2. WatchedAt(t) /\ RunsAt(t)
    BY DEF WatchInv, OnCourse
  <2>3. reg[t] # NoMonitor
    BY <2>1, <2>2 DEF WatchedAt, Mends
  <2>4. t \in Kernel => Alive(reg[t])
    BY <2>1, <2>2, <2>3 DEF RunsAt, TurnsOff
  <2>5. t \notin Kernel => Alive(reg[t])
    BY <2>3 DEF Kernel, WatchInv, NativeRuns
  <2> QED BY <2>3, <2>4, <2>5
<1> QED BY <1>1, GhostInvInitially, GhostInvStep, WatchInvInitially, WatchInvStep, PTL DEF Spec

==============================================================================
