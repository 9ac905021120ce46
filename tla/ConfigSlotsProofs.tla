-------------------------- MODULE ConfigSlotsProofs --------------------------
(***************************************************************************)
(* The config orchestrator, for any slots, documents and bounds: the last  *)
(* save wins, a running sing-box runs what is saved, and SIGHUP never      *)
(* reaches a tun inbound, from the inductive invariant SlotsInv.           *)
(***************************************************************************)
EXTENDS ConfigSlots, TLAPS

Config == [Slots -> Document \cup {NoFile}]

TypeOK ==
  /\ active \in Config /\ disabled \in Config /\ pending \in Config
  /\ enabled \in [Slots -> BOOLEAN]
  /\ target \in Config /\ loaded \in Config
  /\ applied \in [cfg : Config \cup {NoFile}, tun : BOOLEAN]
  /\ timer \in BOOLEAN /\ silent \in BOOLEAN /\ failed \in BOOLEAN /\ need \in BOOLEAN
  /\ up \in BOOLEAN /\ skew \in BOOLEAN /\ prevHasTun \in BOOLEAN
  /\ waiting \in Nat
  /\ pc \in {"idle", "decide", "clear", "start", "restart", "hup", "record"}
  /\ written \in [Slots -> Nat]

(* A sing-box that is down has read nothing. *)
DownIsEmpty == ~up => loaded = Empty

(* The breadcrumb's flag is that of its config. *)
CrumbTun == applied.cfg # NoFile => applied.tun = HasTun(applied.cfg)

(* Between Reloads the breadcrumb names what runs. *)
CrumbNames ==
  pc \in {"idle", "decide"} /\ up /\ ~skew => loaded = applied.cfg \/ applied.cfg = NoFile

(* A tun that runs is known, or about to be learnt from the breadcrumb. *)
TunSeen ==
  pc \in {"idle", "decide"} /\ up /\ ~skew /\ HasTun(loaded) =>
    prevHasTun \/ (pc = "decide" /\ applied.cfg = target)

TunKnown == pc = "idle" /\ applied.cfg = target => prevHasTun = HasTun(target)

(* With no Reload asked for, the last validation saw the present files. *)
Validated ==
  ~timer /\ waiting = 0 /\ ~silent =>
    IF failed THEN ~Valid(Enabled) ELSE Enabled = target /\ Valid(target)

(* With no Reload left, what was validated runs. *)
Settled == Rest /\ up /\ ~skew /\ ~failed => loaded = target

SlotsInv ==
  /\ TypeOK /\ LastSaveWins
  /\ DownIsEmpty /\ CrumbTun /\ CrumbNames /\ TunSeen /\ TunKnown /\ SighupKeepsTun
  /\ Validated /\ Settled

------------------------------------------------------------------------------

LEMMA FileFacts ==
  /\ Empty \in Config /\ ~HasTun(Empty)
  /\ \A cfg \in Config : cfg # NoFile /\ \A s \in Slots : cfg[s] \in Document \cup {NoFile}
  /\ NoFile \notin Document
BY SlotsAssumption DEF Empty, Config, HasTun, Present

LEMMA EnabledType == ASSUME TypeOK PROVE Enabled \in Config
BY DEF TypeOK, Enabled, Config

(* Pruning rewrites members and nothing else. *)
LEMMA PruneKeeps ==
  ASSUME NEW cfg \in Config, NEW spared
  PROVE  /\ Prune(cfg, spared) \in Config
         /\ \A s \in Slots : /\ Prune(cfg, spared)[s] = NoFile <=> cfg[s] = NoFile
                             /\ cfg[s] # NoFile => Prune(cfg, spared)[s].id = cfg[s].id
<1>1. ASSUME NEW s \in Slots, NEW K, cfg[s] # NoFile
      PROVE  PruneDoc(cfg[s], K) \in Document /\ PruneDoc(cfg[s], K).id = cfg[s].id
  <2>1. cfg[s] \in Document
    BY <1>1 DEF Config
  <2>2. PICK x \in SUBSET AllTags : x = IF cfg[s].sel \cap K = {} THEN cfg[s].sel ELSE cfg[s].sel \cap K
    BY <2>1 DEF Document
  <2>3. PruneDoc(cfg[s], K) = [cfg[s] EXCEPT !.sel = x]
    BY <2>2 DEF PruneDoc
  <2> QED BY <2>1, <2>2, <2>3 DEF Document
<1>2. ASSUME NEW s \in Slots
      PROVE  /\ Prune(cfg, spared)[s] \in Document \cup {NoFile}
             /\ Prune(cfg, spared)[s] = NoFile <=> cfg[s] = NoFile
             /\ cfg[s] # NoFile => Prune(cfg, spared)[s].id = cfg[s].id
  <2>1. cfg[s] \in Document \cup {NoFile}
    BY DEF Config
  <2>2. Prune(cfg, spared)[s] = IF cfg[s] = NoFile \/ s \in spared THEN cfg[s] ELSE PruneDoc(cfg[s], Tags(cfg))
    BY DEF Prune
  <2> QED BY <1>1, <2>1, <2>2, FileFacts
<1>3. Prune(cfg, spared) \in Config
  BY <1>2 DEF Config, Prune
<1> QED BY <1>2, <1>3

------------------------------------------------------------------------------
(* Writes *)

(* A write leaves the Reload and the engine alone, and asks for a Reload   *)
(* if the enabled config changes.                                          *)
LEMMA WriteStep ==
  ASSUME SlotsInv, UNCHANGED <<waiting, reload, engine>>, TypeOK', LastSaveWins', timer => timer',
         timer' \/ silent' \/ (UNCHANGED <<timer, silent>> /\ Enabled' = Enabled)
  PROVE  SlotsInv'
<1>1. UNCHANGED <<waiting, pc, target, need, prevHasTun, applied, failed, up, loaded, skew>>
  BY DEF reload, engine
<1>2. DownIsEmpty' /\ CrumbTun' /\ CrumbNames' /\ TunSeen' /\ TunKnown' /\ SighupKeepsTun'
  BY <1>1 DEF SlotsInv, DownIsEmpty, CrumbTun, CrumbNames, TunSeen, TunKnown, SighupKeepsTun
<1>3. Validated'
  BY <1>1 DEF SlotsInv, Validated, TypeOK
<1>4. Settled'
  <2> SUFFICES ASSUME Rest', up, ~skew, ~failed PROVE loaded = target
    BY <1>1 DEF Settled
  <2>1. Rest
    BY <1>1 DEF Rest
  <2> QED BY <2>1 DEF SlotsInv, Settled
<1> QED BY <1>2, <1>3, <1>4 DEF SlotsInv

(* f becomes the last word on s. *)
LEMMA Rewritten ==
  ASSUME SlotsInv, NEW s \in Slots, NEW f \in Document, NEW hidden \in BOOLEAN, Remember(s, f, hidden),
         \A t \in Slots \ {s} : active'[t] = active[t] /\ disabled'[t] = disabled[t],
         active'[s] = f \/ hidden \/ (active'[s] = NoFile /\ disabled'[s] = f)
  PROVE  LastSaveWins' /\ written' \in [Slots -> Nat]
<1>1. f.id \in Nat /\ f # NoFile
  BY FileFacts DEF Document
<1>2. /\ written' \in [Slots -> Nat] /\ written'[s] = f.id /\ \A t \in Slots \ {s} : written'[t] = written[t]
      /\ shadowed' = IF hidden THEN shadowed \cup {s} ELSE shadowed \ {s}
  BY <1>1 DEF Remember, SlotsInv, TypeOK
<1>3. ASSUME NEW t \in Slots, t \notin shadowed' PROVE LoadApplied(t)'.id = written'[t]
  <2>1. CASE t = s
    BY <1>1, <1>2, <1>3, <2>1 DEF LoadApplied
  <2>2. CASE t # s
    <3>1. LoadApplied(t).id = written[t]
      BY <1>2, <1>3, <2>2 DEF SlotsInv, LastSaveWins
    <3> QED BY <1>2, <2>2, <3>1 DEF LoadApplied
  <2> QED BY <2>1, <2>2
<1> QED BY <1>2, <1>3 DEF LastSaveWins

LEMMA SaveSlotKeeps ==
  ASSUME SlotsInv, NEW s \in Slots, NEW f \in Docs[s], NEW loud \in BOOLEAN, SaveSlot(s, f, loud)
  PROVE  SlotsInv'
<1>1. /\ active' = IF enabled[s] THEN [active EXCEPT ![s] = f] ELSE active
      /\ disabled' = IF enabled[s] THEN disabled ELSE [disabled EXCEPT ![s] = f]
      /\ Remember(s, f, ~enabled[s] /\ active[s] # NoFile)
      /\ timer' = (timer \/ loud) /\ silent' = (silent \/ ~loud)
      /\ UNCHANGED <<pending, enabled, waiting, reload, engine>>
  BY DEF SaveSlot, Schedule
<1>2. f \in Document /\ enabled[s] \in BOOLEAN
  BY SlotsAssumption DEF SlotsInv, TypeOK
<1>3. active' \in Config /\ disabled' \in Config
  BY <1>1, <1>2 DEF SlotsInv, TypeOK, Config
<1>4. LastSaveWins' /\ written' \in [Slots -> Nat]
  <2>1. PICK hidden \in BOOLEAN : hidden <=> ~enabled[s] /\ active[s] # NoFile
    OBVIOUS
  <2>2. Remember(s, f, hidden)
    BY <1>1, <2>1 DEF Remember
  <2>3. \A t \in Slots \ {s} : active'[t] = active[t] /\ disabled'[t] = disabled[t]
    BY <1>1 DEF SlotsInv, TypeOK, Config
  <2>4. active'[s] = f \/ hidden \/ (active'[s] = NoFile /\ disabled'[s] = f)
    BY <1>1, <1>2, <2>1 DEF SlotsInv, TypeOK, Config
  <2> QED BY <1>2, <2>2, <2>3, <2>4, Rewritten
<1>5. TypeOK'
  BY <1>1, <1>3, <1>4 DEF SlotsInv, TypeOK, reload, engine
<1> QED BY <1>1, <1>4, <1>5, WriteStep

LEMMA SaveAndValidateKeeps ==
  ASSUME SlotsInv, NEW s \in Slots, NEW f \in Docs[s], SaveAndValidate(s, f)
  PROVE  SlotsInv'
<1>1. /\ active' = [active EXCEPT ![s] = f] /\ Remember(s, f, FALSE)
      /\ timer' = TRUE /\ silent' = silent
      /\ UNCHANGED <<disabled, pending, enabled, waiting, reload, engine>>
  BY DEF SaveAndValidate, Schedule, SlotsInv, TypeOK
<1>2. f \in Document
  BY SlotsAssumption
<1>3. active' \in Config /\ active'[s] = f /\ \A t \in Slots \ {s} : active'[t] = active[t]
  BY <1>1, <1>2 DEF SlotsInv, TypeOK, Config
<1>4. LastSaveWins' /\ written' \in [Slots -> Nat]
  BY <1>1, <1>2, <1>3, Rewritten
<1>5. TypeOK'
  BY <1>1, <1>3, <1>4 DEF SlotsInv, TypeOK, reload, engine
<1> QED BY <1>1, <1>4, <1>5, WriteStep

LEMMA DraftsKeep ==
  ASSUME SlotsInv, NEW s \in Slots, DiscardDraft(s) \/ \E f \in Docs[s] : SaveDraft(s, f)
  PROVE  SlotsInv'
<1>1. UNCHANGED <<active, disabled, enabled, timer, waiting, reload, engine, written, silent, shadowed>>
  BY DEF DiscardDraft, SaveDraft, history
<1>2. pending' \in Config
  BY SlotsAssumption DEF DiscardDraft, SaveDraft, SlotsInv, TypeOK, Config
<1>3. TypeOK'
  BY <1>1, <1>2 DEF SlotsInv, TypeOK, reload, engine
<1>4. LastSaveWins' /\ Enabled' = Enabled
  BY <1>1 DEF SlotsInv, LastSaveWins, LoadApplied, Enabled
<1> QED BY <1>1, <1>3, <1>4, WriteStep

LEMMA ApplyDraftKeeps == ASSUME SlotsInv, NEW s \in Slots, ApplyDraft(s) PROVE SlotsInv'
<1>1. PICK f \in Document : f = pending[s]
  BY DEF ApplyDraft, SlotsInv, TypeOK, Config
<1>2. /\ active' = [active EXCEPT ![s] = f] /\ Remember(s, f, FALSE)
      /\ pending' = [pending EXCEPT ![s] = NoFile]
      /\ timer' = TRUE /\ silent' = silent
      /\ UNCHANGED <<disabled, enabled, waiting, reload, engine>>
  BY <1>1 DEF ApplyDraft, Schedule, SlotsInv, TypeOK
<1>3. active' \in Config /\ active'[s] = f /\ (\A t \in Slots \ {s} : active'[t] = active[t]) /\ pending' \in Config
  BY <1>1, <1>2 DEF SlotsInv, TypeOK, Config
<1>4. LastSaveWins' /\ written' \in [Slots -> Nat]
  BY <1>1, <1>2, <1>3, Rewritten
<1>5. TypeOK'
  BY <1>2, <1>3, <1>4 DEF SlotsInv, TypeOK, reload, engine
<1> QED BY <1>2, <1>4, <1>5, WriteStep

(* Moving the files about never changes which copy counts. *)
LEMMA SameLoad ==
  ASSUME SlotsInv, UNCHANGED <<written, shadowed>>,
         \A s \in Slots : LoadApplied(s)' = LoadApplied(s)
  PROVE  LastSaveWins'
BY DEF SlotsInv, LastSaveWins

LEMMA ToggleKeeps ==
  ASSUME SlotsInv, NEW s \in Slots, NEW on \in BOOLEAN, NEW loud \in BOOLEAN, Toggle(s, on, loud)
  PROVE  SlotsInv'
<1>1. PICK f \in Document \cup {NoFile} : f = LoadApplied(s)
  BY DEF SlotsInv, TypeOK, Config, LoadApplied
<1>2. /\ active' = [active EXCEPT ![s] = IF on THEN f ELSE NoFile]
      /\ disabled' = [disabled EXCEPT ![s] = IF on THEN NoFile ELSE f]
      /\ enabled' = [enabled EXCEPT ![s] = on]
      /\ timer' = (timer \/ loud) /\ silent' = (silent \/ ~loud)
      /\ UNCHANGED <<pending, waiting, reload, engine, written, shadowed>>
  BY <1>1 DEF Toggle, Renamed, LoadApplied, Schedule
<1>3. /\ active' \in Config /\ disabled' \in Config /\ enabled' \in [Slots -> BOOLEAN]
      /\ \A t \in Slots \ {s} : active'[t] = active[t] /\ disabled'[t] = disabled[t]
      /\ active'[s] = (IF on THEN f ELSE NoFile) /\ disabled'[s] = (IF on THEN NoFile ELSE f)
  BY <1>1, <1>2 DEF SlotsInv, TypeOK, Config
<1>4. \A t \in Slots : LoadApplied(t)' = LoadApplied(t)
  BY <1>1, <1>3 DEF LoadApplied
<1>5. LastSaveWins'
  BY <1>2, <1>4, SameLoad
<1>6. TypeOK'
  BY <1>2, <1>3 DEF SlotsInv, TypeOK, reload, engine
<1> QED BY <1>2, <1>5, <1>6, WriteStep

------------------------------------------------------------------------------
(* Reload *)

LEMMA TimerKeeps == ASSUME SlotsInv, FireTimer \/ ReloadNow PROVE SlotsInv'
<1>1. /\ timer' = FALSE /\ waiting' \in Nat /\ waiting' # 0
      /\ UNCHANGED <<active, disabled, pending, enabled, reload, engine, written, silent, shadowed>>
  BY DEF FireTimer, ReloadNow, files, history, SlotsInv, TypeOK
<1>2. UNCHANGED <<pc, target, need, prevHasTun, applied, failed, up, loaded, skew>>
  BY <1>1 DEF reload, engine
<1>3. TypeOK'
  BY <1>1, <1>2 DEF SlotsInv, TypeOK
<1>4. LastSaveWins'
  BY <1>1 DEF SlotsInv, LastSaveWins, LoadApplied
<1>5. DownIsEmpty' /\ CrumbTun' /\ CrumbNames' /\ TunSeen' /\ TunKnown' /\ SighupKeepsTun'
  BY <1>2 DEF SlotsInv, DownIsEmpty, CrumbTun, CrumbNames, TunSeen, TunKnown, SighupKeepsTun
<1>6. Validated' /\ Settled'
  BY <1>1 DEF Validated, Settled, Rest
<1> QED BY <1>3, <1>4, <1>5, <1>6 DEF SlotsInv

(* Validation prunes in place: what it validates is what is enabled. *)
LEMMA ValidateKeeps == ASSUME SlotsInv, Validate PROVE SlotsInv'
<1> DEFINE pruned == Prune(Enabled, UserSlots)
           ok == Valid(pruned)
<1>1. /\ pc = "idle" /\ waiting > 0 /\ waiting' = waiting - 1
      /\ active' = [s \in Slots |-> IF enabled[s] THEN pruned[s] ELSE active[s]]
      /\ failed' = ~ok /\ pc' = (IF ok THEN "decide" ELSE "idle")
      /\ target' = (IF ok THEN pruned ELSE target)
      /\ need' = (IF ok THEN HasActiveWork ELSE need)
      /\ silent' = FALSE
      /\ UNCHANGED <<disabled, pending, enabled, timer, prevHasTun, applied, up, loaded, skew, written, shadowed>>
  BY DEF Validate, engine
<1>2. /\ Enabled \in Config /\ pruned \in Config
      /\ \A s \in Slots : /\ pruned[s] = NoFile <=> Enabled[s] = NoFile
                          /\ Enabled[s] # NoFile => pruned[s].id = Enabled[s].id
  BY EnabledType, PruneKeeps DEF SlotsInv
<1>3. ok \in BOOLEAN /\ HasActiveWork \in BOOLEAN
  BY DEF Valid, HasActiveWork
<1> HIDE DEF pruned, ok
<1>4. \A s \in Slots : Enabled[s] = IF enabled[s] THEN active[s] ELSE NoFile
  BY DEF Enabled
<1>5. active' \in Config /\ \A s \in Slots : active'[s] = IF enabled[s] THEN pruned[s] ELSE active[s]
  BY <1>1, <1>2 DEF SlotsInv, TypeOK, Config
<1>6. TypeOK'
  <2>1. waiting' \in Nat
    BY <1>1 DEF SlotsInv, TypeOK
  <2>2. target' \in Config /\ need' \in BOOLEAN /\ failed' \in BOOLEAN /\ pc' \in {"idle", "decide"}
    BY <1>1, <1>2, <1>3 DEF SlotsInv, TypeOK
  <2>3. active' \in Config /\ silent' \in BOOLEAN
    BY <1>1, <1>5
  <2>4. UNCHANGED <<disabled, pending, enabled, timer, prevHasTun, applied, up, loaded, skew, written>>
    BY <1>1
  <2> QED BY <2>1, <2>2, <2>3, <2>4 DEF SlotsInv, TypeOK
<1>7. LastSaveWins'
  <2> SUFFICES ASSUME NEW s \in Slots, s \notin shadowed PROVE LoadApplied(s)'.id = written[s]
    BY <1>1 DEF LastSaveWins
  <2>1. LoadApplied(s).id = written[s]
    BY DEF SlotsInv, LastSaveWins
  <2> QED BY <1>1, <1>2, <1>4, <1>5, <2>1 DEF LoadApplied
<1>8. Enabled' = pruned
  <2>1. ASSUME NEW s \in Slots PROVE (IF enabled[s] THEN active'[s] ELSE NoFile) = pruned[s]
    BY <1>2, <1>4, <1>5
  <2>2. Enabled' = [s \in Slots |-> IF enabled[s] THEN active'[s] ELSE NoFile]
    BY <1>1 DEF Enabled
  <2> QED BY <1>2, <2>1, <2>2 DEF Config
<1>9. Validated'
  <2>1. CASE ok
    BY <1>1, <1>8, <2>1 DEF Validated, ok
  <2>2. CASE ~ok
    BY <1>1, <1>8, <2>2 DEF Validated, ok
  <2> QED BY <2>1, <2>2
<1>10. Settled'
  BY <1>1 DEF Settled, Rest
<1>11. DownIsEmpty' /\ CrumbTun' /\ CrumbNames' /\ TunSeen' /\ SighupKeepsTun'
  BY <1>1 DEF SlotsInv, DownIsEmpty, CrumbTun, CrumbNames, TunSeen, SighupKeepsTun
<1>12. TunKnown'
  BY <1>1 DEF SlotsInv, TunKnown
<1> QED BY <1>6, <1>7, <1>9, <1>10, <1>11, <1>12 DEF SlotsInv

(* Files and requests for a Reload are left alone. *)
LEMMA ReloadFrame ==
  ASSUME SlotsInv, UNCHANGED <<files, enabled, timer, waiting, target, need, failed, history>>,
         pc' \in {"idle", "decide", "clear", "start", "restart", "hup", "record"},
         up' \in BOOLEAN, skew' \in BOOLEAN, loaded' \in Config, prevHasTun' \in BOOLEAN,
         applied' \in [cfg : Config \cup {NoFile}, tun : BOOLEAN]
  PROVE  TypeOK' /\ LastSaveWins' /\ Validated'
<1>1. UNCHANGED <<active, disabled, pending, enabled, timer, waiting, target, need, failed, written, silent, shadowed>>
  BY DEF files, history
<1>2. TypeOK'
  BY <1>1 DEF SlotsInv, TypeOK
<1>3. LastSaveWins'
  BY <1>1 DEF SlotsInv, LastSaveWins, LoadApplied
<1>4. Enabled' = Enabled
  BY <1>1 DEF Enabled
<1>5. Validated'
  BY <1>1, <1>4 DEF SlotsInv, Validated
<1> QED BY <1>2, <1>3, <1>5

LEMMA DecideKeeps == ASSUME SlotsInv, Decide PROVE SlotsInv'
<1>1. /\ pc = "decide" /\ pc' = (IF Branch = "skip" THEN "idle" ELSE Branch)
      /\ prevHasTun' = (IF Branch = "skip" THEN applied.tun ELSE prevHasTun)
      /\ up' = (up /\ Branch \in {"skip", "hup"}) /\ loaded' = (IF up' THEN loaded ELSE Empty)
      /\ UNCHANGED <<files, enabled, timer, waiting, target, need, applied, failed, skew, history>>
  BY DEF Decide
<1>2. /\ Branch \in {"clear", "start", "skip", "restart", "hup"}
      /\ Branch = "skip" => up /\ applied.cfg = target
      /\ Branch = "hup" => up /\ applied.cfg # target /\ ~prevHasTun /\ ~HasTun(target)
  BY DEF Branch, SlotsInv, TypeOK, HasTun
<1>3. /\ up \in BOOLEAN /\ skew \in BOOLEAN /\ prevHasTun \in BOOLEAN /\ applied.tun \in BOOLEAN
      /\ applied \in [cfg : Config \cup {NoFile}, tun : BOOLEAN] /\ target \in Config /\ loaded \in Config
  BY DEF SlotsInv, TypeOK
<1>4. TypeOK' /\ LastSaveWins' /\ Validated'
  BY <1>1, <1>2, <1>3, ReloadFrame, FileFacts
<1>5. DownIsEmpty' /\ CrumbTun'
  BY <1>1 DEF SlotsInv, DownIsEmpty, CrumbTun
<1>6. CASE Branch = "skip"
  <2>1. pc' = "idle" /\ up' = up /\ loaded' = loaded /\ prevHasTun' = applied.tun
    BY <1>1, <1>2, <1>3, <1>6
  <2>2. applied.cfg = target /\ applied.cfg # NoFile /\ applied.tun = HasTun(target)
    BY <1>2, <1>3, <1>6, FileFacts DEF SlotsInv, CrumbTun
  <2>3. up /\ ~skew => loaded = target
    BY <1>1, <2>2 DEF SlotsInv, CrumbNames
  <2>4. CrumbNames' /\ TunSeen' /\ TunKnown' /\ SighupKeepsTun' /\ Settled'
    BY <1>1, <2>1, <2>2, <2>3 DEF CrumbNames, TunSeen, TunKnown, SighupKeepsTun, Settled
  <2> QED BY <1>4, <1>5, <2>4 DEF SlotsInv
<1>7. CASE Branch # "skip"
  <2>1. pc' \in {"clear", "start", "restart", "hup"}
    BY <1>1, <1>2, <1>7
  <2>2. SighupKeepsTun'
    <3> SUFFICES ASSUME pc' = "hup" PROVE ~HasTun(target') /\ (~HasTun(loaded') \/ skew')
      BY DEF SighupKeepsTun
    <3>1. Branch = "hup" /\ up' /\ loaded' = loaded
      BY <1>1, <1>2, <1>7
    <3> QED BY <1>1, <1>2, <3>1 DEF SlotsInv, TunSeen
  <2>3. CrumbNames' /\ TunSeen' /\ TunKnown' /\ Settled'
    BY <2>1 DEF CrumbNames, TunSeen, TunKnown, Settled, Rest
  <2> QED BY <1>4, <1>5, <2>2, <2>3 DEF SlotsInv
<1> QED BY <1>6, <1>7

(* The engine has been started or signalled: recorded next, or down. *)
LEMMA AppliedKeeps ==
  ASSUME SlotsInv, UNCHANGED <<files, enabled, timer, waiting, target, need, applied, failed, history>>,
         up' \in BOOLEAN, skew' \in BOOLEAN, loaded' \in Config, ~up' => loaded' = Empty,
         pc' = IF up' THEN "record" ELSE "idle", prevHasTun' = IF up' THEN prevHasTun ELSE HasTun(target)
  PROVE  SlotsInv'
<1>1. prevHasTun' \in BOOLEAN
  BY DEF SlotsInv, TypeOK, HasTun
<1>2. TypeOK' /\ LastSaveWins' /\ Validated'
  BY <1>1, ReloadFrame DEF SlotsInv, TypeOK
<1>3. DownIsEmpty' /\ CrumbTun' /\ SighupKeepsTun'
  BY DEF SlotsInv, DownIsEmpty, CrumbTun, SighupKeepsTun
<1>4. CrumbNames' /\ TunSeen' /\ TunKnown' /\ Settled'
  BY DEF CrumbNames, TunSeen, TunKnown, Settled, Rest
<1> QED BY <1>2, <1>3, <1>4 DEF SlotsInv

LEMMA ReadType ==
  ASSUME SlotsInv, NEW expected, Read(expected)
  PROVE  /\ up' \in BOOLEAN /\ skew' \in BOOLEAN /\ loaded' \in Config /\ (~up' => loaded' = Empty)
         /\ up' /\ ~skew' => expected = {Dir} /\ loaded' = Dir
BY FileFacts DEF Read, Valid, SlotsInv, TypeOK, Dir

LEMMA StartKeeps == ASSUME SlotsInv, Start PROVE SlotsInv'
<1>1. up' \in BOOLEAN /\ skew' \in BOOLEAN /\ loaded' \in Config /\ (~up' => loaded' = Empty)
  <2>1. CASE UNCHANGED engine
    BY <2>1 DEF engine, SlotsInv, TypeOK, DownIsEmpty
  <2>2. CASE Read({target})
    BY <2>2, ReadType
  <2>3. CASE up' = FALSE /\ loaded' = Empty /\ UNCHANGED skew
    BY <2>3, FileFacts DEF SlotsInv, TypeOK
  <2> QED BY <2>1, <2>2, <2>3 DEF Start
<1> QED BY <1>1, AppliedKeeps DEF Start

LEMMA HupKeeps == ASSUME SlotsInv, Hup PROVE SlotsInv'
<1>1. up' \in BOOLEAN /\ skew' \in BOOLEAN /\ loaded' \in Config /\ (~up' => loaded' = Empty)
  <2>1. CASE skew' = TRUE /\ UNCHANGED <<up, loaded>>
    BY <2>1 DEF SlotsInv, TypeOK, DownIsEmpty
  <2>2. CASE Read({target})
    BY <2>2, ReadType
  <2> QED BY <2>1, <2>2 DEF Hup
<1> QED BY <1>1, AppliedKeeps DEF Hup

LEMMA RecordKeeps == ASSUME SlotsInv, Record PROVE SlotsInv'
<1>1. /\ pc' = "idle" /\ applied' = Breadcrumb /\ prevHasTun' = HasTun(target)
      /\ skew' = (up /\ loaded # target)
      /\ UNCHANGED <<files, enabled, timer, waiting, target, need, failed, up, loaded, history>>
  BY DEF Record
<1>2. /\ applied' \in [cfg : Config \cup {NoFile}, tun : BOOLEAN]
      /\ \/ applied'.cfg = target /\ applied'.tun = HasTun(target)
         \/ applied'.cfg = NoFile
  BY <1>1 DEF Breadcrumb, Nothing, SlotsInv, TypeOK, HasTun
<1>3. up' \in BOOLEAN /\ skew' \in BOOLEAN /\ loaded' \in Config /\ prevHasTun' \in BOOLEAN
  BY <1>1 DEF SlotsInv, TypeOK, HasTun
<1>4. TypeOK' /\ LastSaveWins' /\ Validated'
  BY <1>1, <1>2, <1>3, ReloadFrame
<1>5. DownIsEmpty' /\ CrumbTun' /\ SighupKeepsTun'
  BY <1>1, <1>2 DEF SlotsInv, DownIsEmpty, CrumbTun, SighupKeepsTun
<1>6. CrumbNames' /\ TunSeen' /\ TunKnown' /\ Settled'
  BY <1>1, <1>2 DEF CrumbNames, TunSeen, TunKnown, Settled
<1> QED BY <1>4, <1>5, <1>6 DEF SlotsInv

------------------------------------------------------------------------------
(* The engine and the daemon *)

LEMMA EngineDownKeeps == ASSUME SlotsInv, NEW b \in BOOLEAN, EngineDown(b) PROVE SlotsInv'
<1>1. /\ up' = FALSE /\ loaded' = Empty
      /\ UNCHANGED <<files, enabled, timer, waiting, pc, target, need, prevHasTun, applied, failed, skew, history>>
  BY DEF EngineDown, reload
<1>2. TypeOK' /\ LastSaveWins' /\ Validated'
  BY <1>1, FileFacts, ReloadFrame DEF SlotsInv, TypeOK
<1>3. DownIsEmpty' /\ CrumbTun' /\ CrumbNames' /\ TunSeen' /\ TunKnown' /\ SighupKeepsTun' /\ Settled'
  BY <1>1, FileFacts DEF SlotsInv, DownIsEmpty, CrumbTun, CrumbNames, TunSeen, TunKnown, SighupKeepsTun, Settled
<1> QED BY <1>2, <1>3 DEF SlotsInv

LEMMA EngineUpKeeps == ASSUME SlotsInv, EngineUp PROVE SlotsInv'
<1>1. /\ Read({applied.cfg, target})
      /\ UNCHANGED <<files, enabled, timer, waiting, pc, target, need, prevHasTun, applied, failed, history>>
  BY DEF EngineUp, reload
<1>2. /\ up' \in BOOLEAN /\ skew' \in BOOLEAN /\ loaded' \in Config /\ (~up' => loaded' = Empty)
      /\ up' /\ ~skew' => applied.cfg = target /\ loaded' = target
  BY <1>1, ReadType
<1>3. TypeOK' /\ LastSaveWins' /\ Validated'
  BY <1>1, <1>2, ReloadFrame DEF SlotsInv, TypeOK
<1>4. DownIsEmpty' /\ CrumbTun' /\ CrumbNames' /\ TunKnown' /\ Settled'
  BY <1>1, <1>2 DEF SlotsInv, DownIsEmpty, CrumbTun, CrumbNames, TunKnown, Settled
<1>5. TunSeen'
  BY <1>1, <1>2 DEF SlotsInv, TunSeen, TunKnown
<1>6. SighupKeepsTun'
  BY <1>1, <1>2, FileFacts DEF SlotsInv, SighupKeepsTun
<1> QED BY <1>3, <1>4, <1>5, <1>6 DEF SlotsInv

LEMMA DaemonRestartKeeps == ASSUME SlotsInv, NEW power \in BOOLEAN, DaemonRestart(power) PROVE SlotsInv'
<1>1. PICK crumb : crumb = IF power THEN Nothing ELSE applied
  OBVIOUS
<1>2. /\ active' = BootActive /\ enabled' = BootEnabled
      /\ disabled' = [s \in Slots |-> IF BootEnabled[s] THEN NoFile ELSE disabled[s]]
      /\ applied' = crumb /\ prevHasTun' = crumb.tun /\ target' = Empty /\ need' = FALSE
      /\ pc' = "idle" /\ waiting' = 0 /\ timer' = TRUE /\ failed' = FALSE
      /\ up' = (up /\ ~power) /\ loaded' = (IF up' THEN loaded ELSE Empty)
      /\ skew' = (skew \/ pc # "idle" \/ (up /\ loaded # applied.cfg))
      /\ UNCHANGED <<pending, written, silent, shadowed>>
  BY <1>1 DEF DaemonRestart, SeedTun, history
<1>3. /\ crumb \in [cfg : Config \cup {NoFile}, tun : BOOLEAN] /\ crumb.tun \in BOOLEAN
      /\ crumb.cfg # NoFile => crumb.tun = HasTun(crumb.cfg)
  BY <1>1 DEF SlotsInv, TypeOK, CrumbTun, Nothing
<1>4. \A s \in Slots : /\ active[s] \in Document \cup {NoFile} /\ disabled[s] \in Document \cup {NoFile}
                       /\ active'[s] = IF active[s] = NoFile /\ s \in AlwaysOn THEN disabled[s] ELSE active[s]
                       /\ disabled'[s] = IF active[s] # NoFile \/ s \in AlwaysOn THEN NoFile ELSE disabled[s]
  BY <1>2 DEF BootActive, BootEnabled, SlotsInv, TypeOK, Config
<1>5. active' \in Config /\ disabled' \in Config /\ enabled' \in [Slots -> BOOLEAN]
  BY <1>2, <1>4 DEF Config, BootActive, BootEnabled
<1>6. TypeOK'
  BY <1>2, <1>3, <1>5, FileFacts DEF SlotsInv, TypeOK
<1>7. LastSaveWins'
  <2>1. \A s \in Slots : LoadApplied(s)' = LoadApplied(s)
    BY <1>4 DEF LoadApplied
  <2> QED BY <1>2, <2>1, SameLoad
<1>8. DownIsEmpty' /\ CrumbTun' /\ SighupKeepsTun' /\ Validated' /\ Settled'
  BY <1>2, <1>3 DEF DownIsEmpty, CrumbTun, SighupKeepsTun, Validated, Settled, Rest
<1>9. up' /\ ~skew' => /\ crumb = applied /\ loaded' = applied.cfg /\ applied.cfg # NoFile
                       /\ prevHasTun' = HasTun(loaded')
  BY <1>1, <1>2, <1>3, FileFacts DEF SlotsInv, TypeOK
<1>10. CrumbNames' /\ TunSeen'
  BY <1>2, <1>9 DEF CrumbNames, TunSeen
<1>11. TunKnown'
  BY <1>2, <1>3, FileFacts DEF TunKnown
<1> QED BY <1>6, <1>7, <1>8, <1>10, <1>11 DEF SlotsInv

------------------------------------------------------------------------------

LEMMA SlotsInvInitially == ASSUME Init PROVE SlotsInv
<1>1. \A s \in Slots : First[s] \in Document /\ First[s].id = 1
  BY SlotsAssumption DEF First
<1>2. First \in Config /\ \A s \in Slots : First[s] # NoFile
  BY <1>1, SlotsAssumption DEF First, Config
<1>3. Enabled = active
  BY DEF Init, Enabled, First
<1>4. HasTun(First) \in BOOLEAN
  BY DEF HasTun
<1>5. TypeOK
  BY <1>2, <1>4, FileFacts DEF Init, TypeOK
<1>6. LastSaveWins
  BY <1>1, <1>2 DEF Init, LastSaveWins, LoadApplied
<1>7. DownIsEmpty /\ CrumbTun /\ CrumbNames /\ TunSeen /\ TunKnown /\ SighupKeepsTun
  BY DEF Init, DownIsEmpty, CrumbTun, CrumbNames, TunSeen, TunKnown, SighupKeepsTun
<1>8. Validated /\ Settled
  BY <1>3, SlotsAssumption DEF Init, Validated, Settled
<1> QED BY <1>5, <1>6, <1>7, <1>8 DEF SlotsInv

LEMMA SlotsInvStep == ASSUME SlotsInv, [Next]_vars PROVE SlotsInv'
<1>1. CASE Writing
  <2>1. PICK s \in Slots :
          \/ \E f \in Docs[s] : \/ Save(s, f) \/ SaveSilent(s, f)
                                \/ SaveAndValidate(s, f) \/ SaveDraft(s, f)
          \/ DiscardDraft(s) \/ ApplyDraft(s)
          \/ \E on \in BOOLEAN : SetEnabled(s, on) \/ SetEnabledSilent(s, on)
    BY <1>1 DEF Writing
  <2>2. ASSUME NEW f \in Docs[s], Save(s, f) \/ SaveSilent(s, f) PROVE SlotsInv'
    BY <2>2, SaveSlotKeeps DEF Save, SaveSilent
  <2>3. ASSUME NEW f \in Docs[s], SaveAndValidate(s, f) PROVE SlotsInv'
    BY <2>3, SaveAndValidateKeeps
  <2>4. ASSUME NEW f \in Docs[s], SaveDraft(s, f) PROVE SlotsInv'
    BY <2>4, DraftsKeep
  <2>5. CASE DiscardDraft(s)
    BY <2>5, DraftsKeep
  <2>6. CASE ApplyDraft(s)
    BY <2>6, ApplyDraftKeeps
  <2>7. ASSUME NEW on \in BOOLEAN, SetEnabled(s, on) \/ SetEnabledSilent(s, on) PROVE SlotsInv'
    BY <2>7, ToggleKeeps DEF SetEnabled, SetEnabledSilent
  <2> QED BY <2>1, <2>2, <2>3, <2>4, <2>5, <2>6, <2>7
<1>2. CASE Reloading
  BY <1>2, TimerKeeps, ValidateKeeps, DecideKeeps, StartKeeps, HupKeeps, RecordKeeps DEF Reloading
<1>3. CASE Outside
  BY <1>3, EngineDownKeeps, EngineUpKeeps, DaemonRestartKeeps DEF Outside
<1>4. CASE UNCHANGED vars
  <2>1. /\ UNCHANGED <<active, disabled, pending, enabled, timer, waiting, pc, target, need, prevHasTun>>
        /\ UNCHANGED <<applied, failed, up, loaded, skew, written, silent, shadowed>>
    BY <1>4 DEF vars, files, reload, engine, history
  <2>2. TypeOK'
    BY <2>1 DEF SlotsInv, TypeOK
  <2>3. Enabled' = Enabled /\ LastSaveWins'
    BY <2>1 DEF SlotsInv, LastSaveWins, LoadApplied, Enabled
  <2>4. DownIsEmpty' /\ CrumbTun' /\ CrumbNames' /\ TunSeen' /\ TunKnown' /\ SighupKeepsTun'
    BY <2>1 DEF SlotsInv, DownIsEmpty, CrumbTun, CrumbNames, TunSeen, TunKnown, SighupKeepsTun
  <2>5. Validated' /\ Settled'
    BY <2>1, <2>3 DEF SlotsInv, Validated, Settled, Rest
  <2> QED BY <2>2, <2>3, <2>4, <2>5 DEF SlotsInv
<1> QED BY <1>1, <1>2, <1>3, <1>4 DEF Next

(* The inductive invariant of the config orchestrator: what the breadcrumb,     *)
(* prevHasTun and the last validation know of the files and of what runs.       *)
THEOREM SlotsInvariant == Spec => []SlotsInv
<1>1. Init => SlotsInv
  BY SlotsInvInitially
<1>2. SlotsInv /\ [Next]_vars => SlotsInv'
  BY SlotsInvStep
<1> QED BY <1>1, <1>2, PTL DEF Spec

(* Through Save, Toggle, ApplyDraft, Bootstrap and the pruning of Reload, the   *)
(* document last written to a slot is the one kept, whatever copies there were. *)
THEOREM LastSaveKept == Spec => []LastSaveWins
<1>1. SlotsInv => LastSaveWins
  BY DEF SlotsInv
<1> QED BY <1>1, SlotsInvariant, PTL

(* No Reload, also of a daemon that adopted its predecessor's sing-box, sends   *)
(* SIGHUP to a process that has a tun inbound or is to get one.                 *)
THEOREM SighupSparesTun == Spec => []SighupKeepsTun
<1>1. SlotsInv => SighupKeepsTun
  BY DEF SlotsInv
<1> QED BY <1>1, SlotsInvariant, PTL

(* Once no Reload is armed, queued or running, sing-box runs the saved files or *)
(* the failed validation is on record: the skip gate never hides a save.        *)
THEOREM SavedIsRun == Spec => []RunsWhatIsSaved
<1>1. SlotsInv => RunsWhatIsSaved
  <2> SUFFICES ASSUME SlotsInv, Rest, up, ~silent, Strays = {}
               PROVE  IF Valid(Enabled) THEN loaded = Dir \/ skew ELSE failed
    BY DEF RunsWhatIsSaved
  <2>1. IF failed THEN ~Valid(Enabled) ELSE Enabled = target /\ Valid(target)
    BY DEF SlotsInv, Validated, Rest
  <2>2. ~skew /\ ~failed => loaded = target
    BY DEF SlotsInv, Settled
  <2>3. Enabled = active
    <3>1. ASSUME NEW s \in Slots PROVE (IF enabled[s] THEN active[s] ELSE NoFile) = active[s]
      BY DEF Strays
    <3>2. active = [s \in Slots |-> active[s]]
      BY DEF SlotsInv, TypeOK, Config
    <3> QED BY <3>1, <3>2 DEF Enabled
  <2> QED BY <2>1, <2>2, <2>3 DEF Dir
<1> QED BY <1>1, SlotsInvariant, PTL

==============================================================================
