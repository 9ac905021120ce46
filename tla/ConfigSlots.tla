---------------------------- MODULE ConfigSlots ----------------------------
(***************************************************************************)
(* The sing-box config orchestrator (internal/singbox/orchestrator): the   *)
(* slot files of config.d, their toggles and drafts, and the debounced     *)
(* Reload that validates the merged config and applies it to the engine.   *)
(*                                                                         *)
(* A file is a document: an id, the tags it declares, its selector         *)
(* members, its other references and whether it has a tun inbound.  The    *)
(* hash of a config is the config.  Every public method is one action,     *)
(* since it holds mu throughout; Reload is several, because it releases mu *)
(* after validation and sing-box reads the directory later.  The engine,   *)
(* the watchdog and Control are reduced to when sing-box reads the         *)
(* directory; SingboxEngine has the rest.                                  *)
(***************************************************************************)
EXTENDS Naturals, FiniteSets

CONSTANTS Slots,
          AlwaysOn,    \* slots that cannot be disabled
          UserSlots,   \* slots prune leaves alone (90-user.json)
          Drafted,     \* slots edited through drafts
          Docs,        \* Docs[s]: the documents the producer of s writes
          Builtin,     \* tags sing-box defines by itself
          NoFile,
          MaxWrites,   \* bound: files written by producers and the user
          MaxToggles,  \* bound: slots enabled or disabled
          MaxFaults    \* bound: crashes, stops and restarts

\* A file's document.
AllTags == UNION {UNION {d.decl \cup d.sel \cup d.refs : d \in Docs[s]} : s \in Slots}
Document == [id : Nat, decl : SUBSET AllTags, sel : SUBSET AllTags, refs : SUBSET AllTags,
             tun : BOOLEAN]

VARIABLES
    active, disabled, pending,   \* the slot's file in config.d, disabled/, pending/
    enabled,      \* Orchestrator.enabled
    timer,        \* reloadTimer is armed
    waiting,      \* goroutines in front of the heavyop gate
    pc,           \* where the Reload behind the gate is
    target, need, \* the enabled config the last Reload validated; it needs the engine
    prevHasTun,   \* Orchestrator.prevHasTun
    applied,      \* the applied state on tmpfs
    failed,       \* lastReloadValidation is set
    up, loaded,   \* sing-box runs; the files it has read
    stopped,      \* the user's stop intent (shouldRun)
    written,      \* history: id of the last document written to each slot
    silent,       \* history: a write since the last Reload asked for none
    skew,         \* history: sing-box has read other files than Reload records
    shadowed,     \* history: slots saved beside a stray active file
    writes, toggles, faults      \* bounds

files   == <<active, disabled, pending>>
engine  == <<up, loaded, skew>>
reload  == <<pc, target, need, prevHasTun, applied, failed>>
history == <<written, silent, shadowed>>
bounds  == <<writes, toggles, faults>>
vars == <<files, enabled, timer, waiting, reload, engine, stopped, history, bounds>>

-----------------------------------------------------------------------------
(* Configs: a function from slots to files *)

Empty == [s \in Slots |-> NoFile]

\* The files sing-box reads; the ones Reload looks at.
Dir == active
Enabled == [s \in Slots |-> IF enabled[s] THEN active[s] ELSE NoFile]

Present(cfg) == {s \in Slots : cfg[s] # NoFile}

\* enabledOutboundTagsLocked.
Tags(cfg) == Builtin \cup UNION {cfg[s].decl : s \in Present(cfg)}

HasTun(cfg) == \E s \in Present(cfg) : cfg[s].tun

\* pruneDanglingSelectorRefsInDoc: dangling members go, unless none would stay.
PruneDoc(f, known) ==
    [f EXCEPT !.sel = IF @ \cap known = {} THEN @ ELSE @ \cap known]

Prune(cfg, spared) ==
    [s \in Slots |-> IF cfg[s] = NoFile \/ s \in spared THEN cfg[s]
                     ELSE PruneDoc(cfg[s], Tags(cfg))]

\* validateWithEnabled: every reference resolves, no tag is declared twice.
Valid(cfg) ==
    /\ \A s \in Present(cfg) : cfg[s].sel \cup cfg[s].refs \subseteq Tags(cfg)
    /\ \A s, t \in Present(cfg) : s # t => cfg[s].decl \cap cfg[t].decl = {}

\* validateDraftLocked: the draft as if it were applied and enabled, the other
\* slots as prune would leave them.
ValidDraft(s, f) == Valid(Prune([Enabled EXCEPT ![s] = f], UserSlots \cup {s}))

\* hasActiveWorkLocked: an optional slot is on (the user's only with content),
\* or an always-on slot has content.
HasActiveWork ==
    \E s \in Slots : /\ enabled[s]
                     /\ s \in AlwaysOn \cup UserSlots =>
                            active[s] # NoFile /\ active[s].decl # {}

-----------------------------------------------------------------------------

\* The documents the slots start with.
First == [s \in Slots |-> CHOOSE d \in Docs[s] : d.id = 1]

ASSUME SlotsAssumption ==
    /\ \A s \in Slots : Docs[s] \subseteq Document /\ \E d \in Docs[s] : d.id = 1
    /\ NoFile \notin Document /\ NoFile \notin [Slots -> Document \cup {NoFile}]
    /\ Valid(First)

\* The breadcrumb of nothing applied; a missing one reads the same.
Nothing == [cfg |-> NoFile, tun |-> FALSE]

\* Every slot is enabled and its first document runs.
Init ==
    /\ active = First
    /\ disabled = Empty /\ pending = Empty
    /\ enabled = [s \in Slots |-> TRUE]
    /\ timer = FALSE /\ waiting = 0 /\ pc = "idle"
    /\ target = active /\ need = TRUE /\ prevHasTun = HasTun(active)
    /\ applied = [cfg |-> active, tun |-> HasTun(active)]
    /\ failed = FALSE
    /\ up = TRUE /\ loaded = active /\ skew = FALSE
    /\ stopped = FALSE
    /\ written = [s \in Slots |-> 1] /\ silent = FALSE /\ shadowed = {}
    /\ writes = 0 /\ toggles = 0 /\ faults = 0

-----------------------------------------------------------------------------
(* Writes: what producers and the editors do to the files *)

Wrote == writes < MaxWrites /\ writes' = writes + 1 /\ UNCHANGED <<toggles, faults>>
Toggled == toggles < MaxToggles /\ toggles' = toggles + 1 /\ UNCHANGED <<writes, faults>>
Failed == faults < MaxFaults /\ faults' = faults + 1 /\ UNCHANGED <<writes, toggles>>

\* scheduleReload, or the silent variants that leave it to the caller.
Schedule(loud) == timer' = (timer \/ loud) /\ silent' = (silent \/ ~loud)

\* History: f is the last word on s, hidden if it landed beside an active file.
Remember(s, f, hidden) ==
    /\ written' = [written EXCEPT ![s] = f.id]
    /\ shadowed' = IF hidden THEN shadowed \cup {s} ELSE shadowed \ {s}

\* Save and SaveSilent: the file goes where the enabled map says.
SaveSlot(s, f, loud) ==
    /\ s \notin UserSlots
    /\ Wrote
    /\ active' = IF enabled[s] THEN [active EXCEPT ![s] = f] ELSE active
    /\ disabled' = IF enabled[s] THEN disabled ELSE [disabled EXCEPT ![s] = f]
    /\ Remember(s, f, ~enabled[s] /\ active[s] # NoFile)
    /\ Schedule(loud)
    /\ UNCHANGED <<pending, enabled, waiting, reload, engine, stopped>>

Save(s, f) == SaveSlot(s, f, TRUE)
SaveSilent(s, f) == SaveSlot(s, f, FALSE)

\* SaveAndValidate: straight to the active file, if the merge would be valid.
SaveAndValidate(s, f) ==
    /\ s \in AlwaysOn
    /\ ValidDraft(s, f)
    /\ Wrote
    /\ active' = [active EXCEPT ![s] = f]
    /\ Remember(s, f, FALSE)
    /\ Schedule(TRUE)
    /\ UNCHANGED <<disabled, pending, enabled, waiting, reload, engine, stopped>>

SaveDraft(s, f) ==
    /\ s \in Drafted
    /\ Wrote
    /\ pending' = [pending EXCEPT ![s] = f]
    /\ UNCHANGED <<active, disabled, enabled, timer, waiting, reload, engine, stopped, history>>

DiscardDraft(s) ==
    /\ pending[s] # NoFile
    /\ pending' = [pending EXCEPT ![s] = NoFile]
    /\ UNCHANGED <<active, disabled, enabled, timer, waiting, reload, engine, stopped,
                   history, bounds>>

\* ApplyDraft: pending becomes active, even of a slot that is disabled.
ApplyDraft(s) ==
    /\ pending[s] # NoFile
    /\ ValidDraft(s, pending[s])
    /\ active' = [active EXCEPT ![s] = pending[s]]
    /\ pending' = [pending EXCEPT ![s] = NoFile]
    /\ Remember(s, pending[s], FALSE)
    /\ Schedule(TRUE)
    /\ UNCHANGED <<disabled, enabled, waiting, reload, engine, stopped, bounds>>

\* Mutant of Renamed: the parked copy is moved over the active one.
RenamedOver(s, on) ==
    LET f == IF disabled[s] # NoFile THEN disabled[s] ELSE active[s]
    IN  [active   |-> IF on THEN f ELSE NoFile,
         disabled |-> IF on THEN NoFile ELSE f]

\* renameForToggle: where both copies exist the active one is kept.
Renamed(s, on) ==
    LET f == IF active[s] # NoFile THEN active[s] ELSE disabled[s]
    IN  [active   |-> IF on THEN f ELSE NoFile,
         disabled |-> IF on THEN NoFile ELSE f]

\* setEnabledLocked.
Toggle(s, on, loud) ==
    LET moved == Renamed(s, on)
    IN  /\ on \/ s \notin AlwaysOn
        /\ ~ /\ enabled[s] = on
             /\ IF on THEN active[s] # NoFile /\ disabled[s] = NoFile ELSE active[s] = NoFile
        /\ Toggled
        /\ active' = [active EXCEPT ![s] = moved.active]
        /\ disabled' = [disabled EXCEPT ![s] = moved.disabled]
        /\ enabled' = [enabled EXCEPT ![s] = on]
        /\ Schedule(loud)
        /\ UNCHANGED <<pending, waiting, reload, engine, stopped, written, shadowed>>

SetEnabled(s, on) == Toggle(s, on, TRUE)
SetEnabledSilent(s, on) == Toggle(s, on, FALSE)

-----------------------------------------------------------------------------
(* Reload *)

\* The debounce timer fires, or ReloadNow stops it and calls Reload itself.
FireTimer ==
    /\ timer
    /\ timer' = FALSE
    /\ waiting' = waiting + 1
    /\ UNCHANGED <<files, enabled, reload, engine, stopped, history, bounds>>

ReloadNow ==
    /\ timer \/ silent
    /\ waiting = 0
    /\ timer' = FALSE
    /\ waiting' = 1
    /\ UNCHANGED <<files, enabled, reload, engine, stopped, history, bounds>>

\* heavyop.Lock, prune in place, validate, read what the rest of Reload needs.
Validate ==
    LET pruned == Prune(Enabled, UserSlots)
        ok     == Valid(pruned)
    IN  /\ pc = "idle" /\ waiting > 0
        /\ waiting' = waiting - 1
        /\ active' = [s \in Slots |-> IF enabled[s] THEN pruned[s] ELSE active[s]]
        /\ failed' = ~ok
        /\ pc' = IF ok THEN "decide" ELSE "idle"
        /\ target' = IF ok THEN pruned ELSE target
        /\ need' = IF ok THEN HasActiveWork ELSE need
        /\ silent' = FALSE
        /\ UNCHANGED <<disabled, pending, enabled, timer, prevHasTun, applied, engine,
                       stopped, written, shadowed, bounds>>

\* What the validated config asks of the engine.
Branch ==
    CASE ~need                                  -> "clear"
      [] need /\ ~up                            -> IF stopped THEN "clear" ELSE "start"
      [] need /\ up /\ applied.cfg = target     -> "skip"
      [] need /\ up /\ applied.cfg # target     ->
            IF HasTun(target) # prevHasTun \/ prevHasTun THEN "restart" ELSE "hup"

\* The skip gate and the switch: what runs is stopped, or kept, here.
Decide ==
    /\ pc = "decide"
    /\ pc' = IF Branch = "skip" THEN "idle" ELSE Branch
    /\ prevHasTun' = IF Branch = "skip" THEN applied.tun ELSE prevHasTun
    /\ up' = (up /\ Branch \in {"skip", "hup"})
    /\ loaded' = IF up' THEN loaded ELSE Empty
    /\ UNCHANGED <<files, enabled, timer, waiting, target, need, applied, failed, skew, stopped,
                   history, bounds>>

\* sing-box starts on what the directory holds by now; expected is what the
\* orchestrator takes it to have read.
Read(expected) ==
    /\ up' = Valid(Dir)
    /\ loaded' = IF up' THEN Dir ELSE Empty
    /\ skew' = (expected # {Dir})

\* Process.Start, after a Stop or on its own; nothing if sing-box runs, and an
\* error leaves the breadcrumb as it was.
Start ==
    /\ pc \in {"start", "restart"}
    /\ \/ /\ IF up THEN UNCHANGED engine ELSE Read({target})
          /\ UNCHANGED bounds
       \/ /\ ~up
          /\ Failed
          /\ up' = FALSE /\ loaded' = Empty
          /\ UNCHANGED skew
    /\ pc' = IF up' THEN "record" ELSE "idle"
    /\ prevHasTun' = IF up' THEN prevHasTun ELSE HasTun(target)
    /\ UNCHANGED <<files, enabled, timer, waiting, target, need, applied, failed, stopped, history>>

\* Process.Reload: SIGHUP; sing-box drops an invalid config or dies of it, and
\* a dead one is started.
Hup ==
    /\ pc = "hup"
    /\ \/ Read({target})
       \/ ~Valid(Dir) /\ up /\ skew' = TRUE /\ UNCHANGED <<up, loaded>>
    /\ pc' = IF up' THEN "record" ELSE "idle"
    /\ prevHasTun' = IF up' THEN prevHasTun ELSE HasTun(target)
    /\ UNCHANGED <<files, enabled, timer, waiting, target, need, applied, failed, stopped, history,
                   bounds>>

\* Mutant of Breadcrumb: the hash is taken after the apply, from the files of that moment.
BreadcrumbLate == IF pc = "record" THEN [cfg |-> Enabled, tun |-> HasTun(Enabled)] ELSE Nothing

\* saveAppliedState, then prevHasTun.
Breadcrumb == IF pc = "record" THEN [cfg |-> target, tun |-> HasTun(target)] ELSE Nothing

Record ==
    /\ pc \in {"record", "clear"}
    /\ pc' = "idle"
    /\ applied' = Breadcrumb
    /\ prevHasTun' = HasTun(target)
    /\ skew' = (up /\ loaded # target)
    /\ UNCHANGED <<files, enabled, timer, waiting, target, need, failed, up, loaded, stopped,
                   history, bounds>>

-----------------------------------------------------------------------------
(* The engine and the daemon *)

\* sing-box dies, or the user stops it; the orchestrator is not told.
EngineDown(byUser) ==
    /\ up
    /\ Failed
    /\ up' = FALSE /\ loaded' = Empty
    /\ stopped' = byUser
    /\ UNCHANGED <<files, enabled, timer, waiting, reload, skew, history>>

\* The watchdog or Control starts it outside Reload, on the current files.
EngineUp ==
    /\ ~up /\ HasActiveWork
    /\ Failed
    /\ Read({applied.cfg, target})
    /\ stopped' = FALSE
    /\ UNCHANGED <<files, enabled, timer, waiting, reload, history>>

\* Bootstrap: the files say which slots are enabled.
BootEnabled == [s \in Slots |-> active[s] # NoFile \/ s \in AlwaysOn]
BootActive ==
    [s \in Slots |-> IF active[s] = NoFile /\ s \in AlwaysOn THEN disabled[s] ELSE active[s]]

\* Mutant of SeedTun: a new daemon assumes there was no tun inbound.
SeedTunForgotten(crumb) == FALSE

\* New: prevHasTun is seeded from the breadcrumb.
SeedTun(crumb) == crumb.tun

\* The daemon dies and boots, alone or with the router; the boot's saves arm a Reload.
\* The new one knows what runs from the breadcrumb only: a Reload that was suppressed
\* by the stop intent clears it, also when sing-box has been started meanwhile.
DaemonRestart(power) ==
    LET crumb == IF power THEN Nothing ELSE applied
    IN  /\ Failed
        /\ active' = BootActive
        /\ disabled' = [s \in Slots |-> IF BootEnabled[s] THEN NoFile ELSE disabled[s]]
        /\ enabled' = BootEnabled
        /\ applied' = crumb
        /\ prevHasTun' = SeedTun(crumb)
        /\ target' = Empty /\ need' = FALSE
        /\ pc' = "idle" /\ waiting' = 0 /\ timer' = TRUE /\ failed' = FALSE
        /\ up' = (up /\ ~power) /\ loaded' = (IF up' THEN loaded ELSE Empty)
        /\ skew' = (skew \/ pc # "idle" \/ (up /\ loaded # applied.cfg))
        /\ UNCHANGED <<pending, stopped, history>>

-----------------------------------------------------------------------------

Writing ==
    \E s \in Slots :
        \/ \E f \in Docs[s] : \/ Save(s, f) \/ SaveSilent(s, f)
                              \/ SaveAndValidate(s, f) \/ SaveDraft(s, f)
        \/ DiscardDraft(s) \/ ApplyDraft(s)
        \/ \E on \in BOOLEAN : SetEnabled(s, on) \/ SetEnabledSilent(s, on)

Reloading == FireTimer \/ ReloadNow \/ Validate \/ Decide \/ Start \/ Hup \/ Record

Outside ==
    \/ \E b \in BOOLEAN : EngineDown(b) \/ DaemonRestart(b)
    \/ EngineUp

Next == Writing \/ Reloading \/ Outside

Spec == Init /\ [][Next]_vars

-----------------------------------------------------------------------------
(* Properties *)

\* No Reload is armed, waits or runs.
Rest == ~timer /\ waiting = 0 /\ pc = "idle"

\* Files sing-box reads of slots the orchestrator holds disabled.
Strays == {s \in Slots : ~enabled[s] /\ active[s] # NoFile}

\* Whatever order saves, toggles, applies, failed starts, crashes and restarts
\* came in, once no Reload is left to do a running sing-box runs the saved
\* files, or the last validation's failure is on record: a Save that lands while
\* a Reload is past its validation is never taken for applied by the skip gate.
RunsWhatIsSaved ==
    Rest /\ up /\ ~silent /\ Strays = {} =>
        IF Valid(Enabled) THEN loaded = Dir \/ skew ELSE failed

\* SIGHUP is only sent to a sing-box that has no tun inbound and gets none, also
\* by a daemon that was restarted and adopted it: a tun dies of SIGHUP.
SighupKeepsTun ==
    pc = "hup" => ~HasTun(target) /\ (~HasTun(loaded) \/ skew)

\* LoadApplied: the active file, or the parked one.
LoadApplied(s) == IF active[s] # NoFile THEN active[s] ELSE disabled[s]

\* Through toggles, applied drafts and restarts that meet two copies of a slot
\* the last document written to it is the one kept, unless it was saved to
\* disabled/ while a file of the disabled slot was in config.d.
LastSaveWins ==
    \A s \in Slots \ shadowed : LoadApplied(s).id = written[s]
=============================================================================
