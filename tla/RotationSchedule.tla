-------------------------- MODULE RotationSchedule --------------------------
(***************************************************************************)
(* backend/app/scan/rotation.py, scan/preset_scheduler.py and the handlers *)
(* of api/scan.py that start and stop scans and rotations.  Requests, the  *)
(* preset scheduler and one task per ScanRotation share state.scan_engine, *)
(* state.scan_state and state.scan_rotation on one event loop: an action   *)
(* is what runs between two awaits.                                        *)
(*                                                                         *)
(* The engine is reduced to what it promises its callers (ScanEngine):     *)
(* stop_async takes effect when it is called, a start or a preview when    *)
(* its open returns, and an open succeeds only on a free dongle.           *)
(*                                                                         *)
(* A cancelled task ends at its next await, except inside stop_async,      *)
(* retune_band_async and the decoders' stop functions, which await a task  *)
(* of theirs and swallow the CancelledError.                               *)
(***************************************************************************)
EXTENDS Naturals, FiniteSets

CONSTANTS
    Handlers,     \* HTTP requests under way at the same time
    Scheduler,    \* the task of the preset scheduler, when it applies a preset
    Rotations,    \* identities of ScanRotation objects, reused once unreferenced
    Presets,      \* presets that have a window
    Bands,        \* bands with their frequency range
    KnownBands,   \* those _lookup_band_bounds knows
    PreviewBand,  \* the band of the preview after a stop
    Slots,        \* slots of a rotation
    Configs,      \* RotationConfig: the bands of the slots, and whether to loop
    PresetConfig, \* what a preset holds; Nothing: from_dict rejects it
    Nothing       \* None

ASSUME RotationAssumption ==
    /\ Scheduler \notin Handlers
    /\ Nothing \notin Rotations \cup Presets \cup Bands \cup Configs
    /\ KnownBands \subseteq Bands /\ PreviewBand \in Bands
    /\ Slots \in Nat \ {0}
    /\ Configs \subseteq [plan : [0 .. Slots - 1 -> Bands], repeat : BOOLEAN]
    /\ PresetConfig \in [Presets -> Configs \cup {Nothing}]

VARIABLES
    engine,         \* what state.scan_engine does
    state, scan,    \* scan_state["state"], the band of scan_state["scan"]
    scan_rotation,  \* state.scan_rotation
    running,        \* its _running, per ScanRotation
    loop,           \* where its _rotation_loop is
    index,          \* its _current_index
    config,         \* its config; Nothing once its task is over
    pc, joins,      \* where each caller is, the rotation it awaits the end of
    on, active,     \* PresetScheduler._running, _active_preset_id
    sched,          \* where PresetScheduler._loop is
    want, target,   \* the preset being applied; the one whose window is open
    overlap         \* requests and ticks may interleave, or come one by one

service == <<engine, state, scan>>
objects == <<running, loop, index, config>>
presets == <<on, active, sched, want>>
vars == <<service, scan_rotation, objects, pc, joins, presets, target, overlap>>

Callers == Handlers \cup {Scheduler}

LoopState   == {"off", "ready", "decoders", "same", "retune", "engineStop",
                "engineStart", "dwell"}
CallerState == {"idle", "scanStart", "stopEngine", "stopJoin", "preview",
                "rotateJoin", "rotateStart", "haltJoin", "haltDecoders",
                "haltEngine", "applyJoin", "applyStop", "applyStart", "schedJoin"}

TypeOK ==
    /\ engine \in {"off", "preview", "scan"}
    /\ state \in {"stopped", "preview", "running"}
    /\ scan \in Bands \cup {Nothing}
    /\ scan_rotation \in Rotations \cup {Nothing}
    /\ running \in [Rotations -> BOOLEAN]
    /\ loop \in [Rotations -> LoopState]
    /\ index \in [Rotations -> 0 .. Slots - 1]
    /\ config \in [Rotations -> Configs \cup {Nothing}]
    /\ \A r \in Rotations : config[r] = Nothing <=> loop[r] = "off"
    /\ pc \in [Callers -> CallerState]
    /\ joins \in [Callers -> Rotations \cup {Nothing}]
    /\ on \in BOOLEAN
    /\ active \in Presets \cup {Nothing}
    /\ sched \in {"off", "asleep", "applying"}
    /\ want \in Presets \cup {Nothing}
    /\ target \in Presets \cup {Nothing}
    /\ overlap \in BOOLEAN

\* the scheduler is started on boot when a schedule is enabled
Init ==
    /\ engine = "off" /\ state = "stopped" /\ scan = Nothing
    /\ scan_rotation = Nothing
    /\ running = [r \in Rotations |-> FALSE]
    /\ loop = [r \in Rotations |-> "off"]
    /\ index = [r \in Rotations |-> 0]
    /\ config = [r \in Rotations |-> Nothing]
    /\ pc = [c \in Callers |-> "idle"]
    /\ joins = [c \in Callers |-> Nothing]
    /\ on \in BOOLEAN /\ sched = IF on THEN "asleep" ELSE "off"
    /\ active = Nothing /\ want = Nothing
    /\ target \in Presets \cup {Nothing}
    /\ overlap \in BOOLEAN

RotationOn == scan_rotation # Nothing /\ running[scan_rotation]

-----------------------------------------------------------------------------
(***************************************************************************)
(* ScanRotation: the object.                                               *)
(***************************************************************************)
\* the loop is over, and so is the use of its object
Ends(r) ==
    /\ running' = [running EXCEPT ![r] = FALSE]
    /\ loop' = [loop EXCEPT ![r] = "off"]
    /\ index' = [index EXCEPT ![r] = 0]
    /\ config' = [config EXCEPT ![r] = Nothing]

\* a cancelled loop ends, or swallows the cancellation and goes on
Cancel(r) ==
    \/ loop[r] \in {"ready", "dwell", "engineStart"} /\ Ends(r)
    \/ /\ loop[r] \notin {"ready", "dwell", "engineStart"}
       /\ running' = [running EXCEPT ![r] = FALSE]
       /\ UNCHANGED <<loop, index, config>>

\* rotation.stop up to its await; only called when it is running
StopRotation(c, where) ==
    /\ RotationOn
    /\ Cancel(scan_rotation)
    /\ joins' = [joins EXCEPT ![c] = scan_rotation]
    /\ pc' = [pc EXCEPT ![c] = where]

Joined(c, where) ==
    /\ pc[c] = where /\ loop[joins[c]] = "off"
    /\ joins' = [joins EXCEPT ![c] = Nothing]

\* state.scan_rotation = ScanRotation(f, _rotation_switch_slot), started
Create(c, f) ==
    \E r \in Rotations :
        /\ loop[r] = "off" /\ \A d \in Callers \ {c} : joins[d] # r
        /\ scan_rotation' = r
        /\ running' = [running EXCEPT ![r] = TRUE]
        /\ loop' = [loop EXCEPT ![r] = "ready"]
        /\ config' = [config EXCEPT ![r] = f]
        /\ UNCHANGED index

-----------------------------------------------------------------------------
(***************************************************************************)
(* ScanRotation: the loop and its callback _rotation_switch_slot.          *)
(***************************************************************************)
\* up to the first await: scan_state is read here
SwitchSlot(r, i) ==
    LET band == config[r].plan[i] IN
    loop' = [loop EXCEPT ![r] = IF band \notin KnownBands THEN "dwell"
                                ELSE IF scan = band THEN "same" ELSE "decoders"]

LoopStarts(r) ==
    /\ loop[r] = "ready" /\ running[r]
    /\ SwitchSlot(r, index[r])
    /\ UNCHANGED <<service, running, index, config>>

LoopMoves(r, from, to) == loop[r] = from /\ loop' = [loop EXCEPT ![r] = to]

\* same band and range: only the decoders change
DecodersSwitched(r) ==
    /\ LoopMoves(r, "same", "dwell")
    /\ UNCHANGED <<service, running, index, config>>

Retune(r) ==
    /\ LoopMoves(r, "decoders", "retune")
    /\ engine = "scan"
    /\ UNCHANGED <<service, running, index, config>>

\* not running, or the sample rate or the device differs, or tune raised
Restart(r) ==
    /\ \/ LoopMoves(r, "decoders", "engineStop")
       \/ LoopMoves(r, "retune", "engineStop")
    /\ engine' = "off"
    /\ UNCHANGED <<state, scan, running, index, config>>

OnBand(r) ==
    /\ scan' = config[r].plan[index[r]]
    /\ state' = "running"
    /\ UNCHANGED <<running, index, config>>

\* retune_band_async does not read self.running again: it also returns True
\* while a stop_async waits for the pump, or on the device of a preview
Retuned(r) ==
    /\ LoopMoves(r, "retune", "dwell")
    /\ OnBand(r)
    /\ UNCHANGED engine

EngineStopped(r) ==
    /\ LoopMoves(r, "engineStop", "engineStart")
    /\ UNCHANGED <<service, running, index, config>>

Restarted(r) ==
    /\ LoopMoves(r, "engineStart", "dwell")
    /\ engine = "off" /\ engine' = "scan"
    /\ OnBand(r)

\* the exception is caught in _rotation_loop: the slot is sat out
RestartFails(r) ==
    /\ LoopMoves(r, "engineStart", "dwell")
    /\ UNCHANGED <<service, running, index, config>>

\* mutant: while True
MutDwellEnds(r) ==
    LET next == (index[r] + 1) % Slots
        over == ~config[r].repeat /\ next = 0
    IN
    /\ loop[r] = "dwell"
    /\ \/ over /\ Ends(r)
       \/ /\ ~over
          /\ index' = [index EXCEPT ![r] = next]
          /\ SwitchSlot(r, next)
          /\ UNCHANGED <<running, config>>
    /\ UNCHANGED service

\* the end of the dwell, up to the first await of the next switch
DwellEnds(r) ==
    LET next == (index[r] + 1) % Slots
        over == ~running[r] \/ (~config[r].repeat /\ next = 0)
    IN
    /\ loop[r] = "dwell"
    /\ \/ over /\ Ends(r)
       \/ /\ ~over
          /\ index' = [index EXCEPT ![r] = next]
          /\ SwitchSlot(r, next)
          /\ UNCHANGED <<running, config>>
    /\ UNCHANGED service

LoopNext(r) ==
    /\ \/ LoopStarts(r) \/ DecodersSwitched(r) \/ Retune(r) \/ Restart(r)
       \/ Retuned(r) \/ EngineStopped(r) \/ Restarted(r) \/ RestartFails(r)
       \/ DwellEnds(r)
    /\ UNCHANGED <<scan_rotation, pc, joins, presets, target, overlap>>

-----------------------------------------------------------------------------
(***************************************************************************)
(* scan_start, from preview_close on, and scan_stop.                       *)
(***************************************************************************)
PreviewClosed == IF engine = "preview" THEN "off" ELSE engine

Begins(c) == pc[c] = "idle" /\ (overlap \/ \A d \in Callers : pc[d] = "idle")
Moves(c, from, to) == pc[c] = from /\ pc' = [pc EXCEPT ![c] = to]

\* no device is listed: 422, the preview is over
ScanStart(c) ==
    /\ Begins(c)
    /\ engine' = PreviewClosed
    /\ pc' = [pc EXCEPT ![c] = "scanStart"] \/ UNCHANGED pc
    /\ UNCHANGED <<state, scan, scan_rotation, objects, joins>>

\* in APRS mode rtl_fm takes the dongle, not the engine
ScanStarted(c) ==
    /\ Moves(c, "scanStart", "idle")
    /\ \/ engine = "off" /\ engine' = "scan"
       \/ UNCHANGED engine
    /\ state' = "running" /\ scan' \in KnownBands
    /\ UNCHANGED <<scan_rotation, objects, joins>>

ScanStartFails(c) ==
    /\ Moves(c, "scanStart", "idle")
    /\ UNCHANGED <<service, scan_rotation, objects, joins>>

ScanStop(c) ==
    /\ Begins(c)
    /\ Moves(c, "idle", "stopEngine")
    /\ engine' = "off"
    /\ UNCHANGED <<state, scan, scan_rotation, objects, joins>>

\* scan_state, then preview_open up to its await; it does nothing while the
\* engine scans, and is not called when no device is listed
Stopped(c) ==
    /\ state' = "stopped" /\ scan' = Nothing
    /\ \/ pc' = [pc EXCEPT ![c] = "idle"] /\ UNCHANGED engine
       \/ /\ engine # "scan" /\ engine' = "off"
          /\ pc' = [pc EXCEPT ![c] = "preview"]

\* mutant: the rotation is left alone
MutScanStopRotation(c) ==
    /\ pc[c] = "stopEngine"
    /\ Stopped(c)
    /\ UNCHANGED <<scan_rotation, objects, joins>>

ScanStopRotation(c) ==
    /\ pc[c] = "stopEngine"
    /\ \/ StopRotation(c, "stopJoin") /\ UNCHANGED service
       \/ ~RotationOn /\ Stopped(c) /\ UNCHANGED <<objects, joins>>
    /\ UNCHANGED scan_rotation

ScanStopJoined(c) ==
    /\ Joined(c, "stopJoin")
    /\ scan_rotation' = Nothing
    /\ Stopped(c)
    /\ UNCHANGED objects

PreviewOpened(c) ==
    /\ Moves(c, "preview", "idle")
    /\ engine = "off" /\ engine' = "preview"
    /\ state' = "preview" /\ scan' = PreviewBand
    /\ UNCHANGED <<scan_rotation, objects, joins>>

\* whatever preview there is by now is closed
PreviewFails(c) ==
    /\ Moves(c, "preview", "idle")
    /\ engine' = PreviewClosed
    /\ UNCHANGED <<state, scan, scan_rotation, objects, joins>>

-----------------------------------------------------------------------------
(***************************************************************************)
(* rotation_start and rotation_stop.                                       *)
(***************************************************************************)
\* once the old rotation is dealt with: 400 for the payload or for the first
\* band, a scan first when scan_state names none, or the new rotation
Configure(c, left) ==
    \/ /\ pc' = [pc EXCEPT ![c] = "idle"]
       /\ scan_rotation' = left
       /\ UNCHANGED <<engine, objects>>
    \/ /\ state = "running"
       /\ \E f \in Configs : Create(c, f)
       /\ pc' = [pc EXCEPT ![c] = "idle"]
       /\ UNCHANGED engine
    \/ /\ state # "running"
       /\ engine' = PreviewClosed
       /\ pc' = [pc EXCEPT ![c] = "rotateStart"] \/ pc' = [pc EXCEPT ![c] = "idle"]
       /\ scan_rotation' = left
       /\ UNCHANGED objects

\* mutant: the existing rotation is not stopped
MutRotationStart(c) ==
    /\ Begins(c)
    /\ Configure(c, scan_rotation)
    /\ UNCHANGED <<state, scan, joins>>

RotationStart(c) ==
    /\ Begins(c)
    /\ \/ StopRotation(c, "rotateJoin") /\ UNCHANGED <<engine, scan_rotation>>
       \/ ~RotationOn /\ Configure(c, scan_rotation) /\ UNCHANGED joins
    /\ UNCHANGED <<state, scan>>

RotationStartJoined(c) ==
    /\ Joined(c, "rotateJoin")
    /\ Configure(c, Nothing)
    /\ UNCHANGED <<state, scan>>

\* scan_start has returned: nothing is read again before the rotation starts
RotationScanStarted(c) ==
    /\ Moves(c, "rotateStart", "idle")
    /\ engine = "off" /\ engine' = "scan"
    /\ \E f \in Configs : /\ f.plan[0] \in KnownBands
                          /\ Create(c, f)
                          /\ scan' = f.plan[0]
    /\ state' = "running"
    /\ UNCHANGED joins

RotationScanFails(c) ==
    /\ Moves(c, "rotateStart", "idle")
    /\ UNCHANGED <<service, scan_rotation, objects, joins>>

\* mutant: the task is cancelled but not awaited
MutRotationStop(c) ==
    /\ Begins(c) /\ RotationOn
    /\ Cancel(scan_rotation)
    /\ pc' = [pc EXCEPT ![c] = "haltDecoders"]
    /\ UNCHANGED <<service, scan_rotation, joins>>

RotationStop(c) ==
    /\ Begins(c)
    /\ StopRotation(c, "haltJoin")
    /\ UNCHANGED <<service, scan_rotation>>

RotationStopJoined(c) ==
    /\ Joined(c, "haltJoin")
    /\ pc' = [pc EXCEPT ![c] = "haltDecoders"]
    /\ UNCHANGED <<service, scan_rotation, objects>>

RotationStopEngine(c) ==
    /\ Moves(c, "haltDecoders", "haltEngine")
    /\ engine' = "off"
    /\ UNCHANGED <<state, scan, scan_rotation, objects, joins>>

\* state.scan_rotation.status() raises when another request has cleared it
RotationStopped(c) ==
    /\ pc[c] = "haltEngine"
    /\ \/ scan_rotation # Nothing /\ Stopped(c)
       \/ /\ scan_rotation = Nothing
          /\ state' = "stopped" /\ scan' = Nothing
          /\ pc' = [pc EXCEPT ![c] = "idle"]
          /\ UNCHANGED engine
    /\ UNCHANGED <<scan_rotation, objects, joins>>

-----------------------------------------------------------------------------
(***************************************************************************)
(* PresetScheduler._tick and _apply_preset_by_id.                          *)
(***************************************************************************)
\* mutant: the config is remembered instead of the id
MutApplyEnds(ok) ==
    /\ pc' = [pc EXCEPT ![Scheduler] = "idle"]
    /\ sched' = "asleep" /\ want' = Nothing
    /\ active' = IF ok THEN PresetConfig[want] ELSE active

ApplyEnds(ok) ==
    /\ pc' = [pc EXCEPT ![Scheduler] = "idle"]
    /\ sched' = "asleep" /\ want' = Nothing
    /\ active' = IF ok THEN want ELSE active

\* p: the preset; left: what state.scan_rotation is if no rotation starts
Apply(p, left) ==
    LET f == PresetConfig[p]
        Accepted == f # Nothing /\ (state # "running" => f.plan[0] \in KnownBands)
    IN
    \/ /\ ~Accepted
       /\ pc' = [pc EXCEPT ![Scheduler] = "idle"]
       /\ sched' = "asleep" /\ want' = Nothing
       /\ scan_rotation' = left
       /\ UNCHANGED <<engine, active, objects>>
    \/ /\ Accepted /\ state = "running"
       /\ Create(Scheduler, f)
       /\ pc' = [pc EXCEPT ![Scheduler] = "idle"]
       /\ sched' = "asleep" /\ want' = Nothing /\ active' = p
       /\ UNCHANGED engine
    \/ /\ Accepted /\ state # "running"
       /\ pc' = [pc EXCEPT ![Scheduler] = IF engine = "preview" THEN "applyStop"
                                          ELSE "applyStart"]
       /\ engine' = PreviewClosed
       /\ sched' = "applying" /\ want' = p
       /\ scan_rotation' = left
       /\ UNCHANGED <<active, objects>>

\* mutant: whether a rotation runs is not asked
MutTick ==
    /\ Begins(Scheduler) /\ sched = "asleep" /\ on
    /\ target # Nothing /\ target # active
    /\ \/ /\ StopRotation(Scheduler, "applyJoin")
          /\ sched' = "applying" /\ want' = target
          /\ UNCHANGED <<engine, scan_rotation, active>>
       \/ /\ ~RotationOn /\ Apply(target, scan_rotation)
          /\ UNCHANGED joins
    /\ UNCHANGED <<state, scan, on, target, overlap>>

\* nothing is done outside every window, nor while the active preset is the
\* one wanted and some rotation runs
Tick ==
    /\ Begins(Scheduler) /\ sched = "asleep" /\ on
    /\ target # Nothing /\ (target # active \/ ~RotationOn)
    /\ \/ /\ StopRotation(Scheduler, "applyJoin")
          /\ sched' = "applying" /\ want' = target
          /\ UNCHANGED <<engine, scan_rotation, active>>
       \/ /\ ~RotationOn /\ Apply(target, scan_rotation)
          /\ UNCHANGED joins
    /\ UNCHANGED <<state, scan, on, target, overlap>>

ApplyJoined ==
    /\ Joined(Scheduler, "applyJoin")
    /\ Apply(want, Nothing)
    /\ UNCHANGED <<state, scan, on, target, overlap>>

ApplyPreviewStopped ==
    /\ Moves(Scheduler, "applyStop", "applyStart")
    /\ UNCHANGED <<service, scan_rotation, objects, joins, presets, target, overlap>>

ApplyStarted ==
    /\ pc[Scheduler] = "applyStart"
    /\ engine = "off" /\ engine' = "scan"
    /\ state' = "running" /\ scan' = PresetConfig[want].plan[0]
    /\ Create(Scheduler, PresetConfig[want])
    /\ ApplyEnds(TRUE)
    /\ UNCHANGED <<joins, on, target, overlap>>

ApplyStartFails ==
    /\ pc[Scheduler] = "applyStart"
    /\ ApplyEnds(FALSE)
    /\ UNCHANGED <<service, scan_rotation, objects, joins, on, target, overlap>>

\* a cancellation was swallowed: the loop sees _running after its sleep
SchedulerExits ==
    /\ sched = "asleep" /\ ~on
    /\ sched' = "off"
    /\ UNCHANGED <<service, scan_rotation, objects, pc, joins, on, active, want,
                   target, overlap>>

\* scheduler_start: a new PresetScheduler, once the old one's task is over
SchedulerStart(c) ==
    /\ Begins(c) /\ sched = "off"
    /\ \A d \in Handlers : pc[d] # "schedJoin"
    /\ on' = TRUE /\ sched' = "asleep" /\ active' = Nothing
    /\ UNCHANGED <<service, scan_rotation, objects, pc, joins, want>>

\* scheduler_stop: the cancellation reaches what the task awaits, which may
\* be the loop of the rotation it is stopping
SchedulerStop(c) ==
    /\ Begins(c) /\ on
    /\ on' = FALSE
    /\ \/ /\ sched = "asleep" /\ sched' = "off"
          /\ pc' = [pc EXCEPT ![c] = "schedJoin"]
          /\ UNCHANGED <<want, objects>>
       \/ /\ sched = "applying" /\ pc[Scheduler] = "applyJoin"
          /\ Cancel(joins[Scheduler])
          /\ pc' = [pc EXCEPT ![c] = "schedJoin"]
          /\ UNCHANGED <<sched, want>>
       \/ /\ sched = "applying" /\ pc[Scheduler] = "applyStop"
          /\ pc' = [pc EXCEPT ![c] = "schedJoin"]
          /\ UNCHANGED <<sched, want, objects>>
       \/ /\ sched = "applying" /\ pc[Scheduler] = "applyStart"
          /\ sched' = "off" /\ want' = Nothing
          /\ pc' = [pc EXCEPT ![c] = "schedJoin", ![Scheduler] = "idle"]
          /\ UNCHANGED objects
    /\ UNCHANGED <<service, scan_rotation, joins, active>>

SchedulerStopped(c) ==
    /\ Moves(c, "schedJoin", "idle")
    /\ sched = "off"
    /\ UNCHANGED <<service, scan_rotation, objects, joins, presets>>

\* a window opens or closes; bound: not while requests interleave, which
\* takes seconds where windows take minutes at least
ClockMoves ==
    /\ ~overlap
    /\ target' \in (Presets \cup {Nothing}) \ {target}
    /\ UNCHANGED <<service, scan_rotation, objects, pc, joins, presets, overlap>>

-----------------------------------------------------------------------------
Requests(c) ==
    \/ ScanStart(c) \/ ScanStop(c) \/ RotationStart(c) \/ RotationStop(c)

Continues(c) ==
    \/ ScanStarted(c) \/ ScanStartFails(c)
    \/ ScanStopRotation(c) \/ ScanStopJoined(c)
    \/ PreviewOpened(c) \/ PreviewFails(c)
    \/ RotationStartJoined(c) \/ RotationScanStarted(c) \/ RotationScanFails(c)
    \/ RotationStopJoined(c) \/ RotationStopEngine(c) \/ RotationStopped(c)

HandlerGoesOn(c) ==
    \/ Continues(c) /\ UNCHANGED <<presets, target, overlap>>
    \/ SchedulerStopped(c) /\ UNCHANGED <<target, overlap>>

HandlerNext(c) ==
    \/ Requests(c) /\ UNCHANGED <<presets, target, overlap>>
    \/ (SchedulerStart(c) \/ SchedulerStop(c)) /\ UNCHANGED <<target, overlap>>
    \/ HandlerGoesOn(c)

SchedulerNext ==
    \/ Tick \/ ApplyJoined \/ ApplyPreviewStopped \/ ApplyStarted
    \/ ApplyStartFails \/ SchedulerExits

Next ==
    \/ \E c \in Handlers : HandlerNext(c)
    \/ \E r \in Rotations : LoopNext(r)
    \/ SchedulerNext
    \/ ClockMoves

Spec == Init /\ [][Next]_vars

\* every await and every sleep ends; the dongle can be opened again and again
FairSpec ==
    /\ Spec
    /\ \A c \in Handlers : WF_vars(HandlerGoesOn(c))
    /\ \A r \in Rotations : WF_vars(LoopNext(r))
    /\ WF_vars(SchedulerNext) /\ SF_vars(ApplyStarted)

-----------------------------------------------------------------------------
(***************************************************************************)
(* Properties.                                                             *)
(***************************************************************************)
Quiet == \A c \in Callers : pc[c] = "idle"

\* What rotation_status and the scheduler's is_rotation_running report is
\* true: a rotation that says it runs has a loop that will switch slots, and
\* the loop of a rotation that says it does not is about to end, never to
\* start another slot.
RunningIsLive ==
    \A r \in Rotations :
        /\ running[r] => loop[r] # "off"
        /\ loop[r] = "ready" => running[r]

\* "Stop any existing rotation" (rotation_start): as long as requests and
\* ticks do not interleave, state.scan_rotation is the only rotation whose
\* loop is alive, so that a stop can reach it.
OneRotation ==
    ~overlap => \A r \in Rotations : running[r] => r = scan_rotation

\* A rotation is what it reports and, while requests and ticks come one by one,
\* the one that a stop ends: none runs unseen, none is shown that does not run.
RotationsKnown == RunningIsLive /\ OneRotation

\* When requests and ticks do not interleave, no slot is switched any more
\* once scan_stop, rotation_stop or a preview has put an end to the scan.
NoRotationWhenStopped ==
    ~overlap /\ Quiet /\ state # "running" =>
        \A r \in Rotations : loop[r] = "off"

\* "Stop scan rotation and the active scan, releasing the SDR device"
\* (rotation_stop): the rotation's last switch, cancelled or not, does not
\* start the engine again after stop_async.
RotationStopHolds ==
    ~overlap => \A c \in Handlers : pc[c] = "haltEngine" => engine = "off"

\* "Stop the currently running scan. Stops the scan engine" (scan_stop): when
\* it returns, with no other request under way, the engine does not scan.
StopStops ==
    [][\A c \in Handlers :
          ~overlap /\ pc[c] \in {"stopEngine", "stopJoin"} /\ pc'[c] = "idle"
             => engine' # "scan"]_vars

\* Every request is answered: rotation.stop and the scheduler's stop return
\* although the task they cancel may swallow the cancellation.
RequestsEnd == \A c \in Handlers : pc[c] # "idle" ~> pc[c] = "idle"

\* "If rotation stops unexpectedly, the scheduler detects and re-applies the
\* preset" (docs/user_manual_en.md): while the scheduler is on, the window of
\* a valid preset stays open and no request interferes, a rotation runs again
\* and again, unless the engine scans although scan_state says otherwise.
Appliable(p) ==
    PresetConfig[p] # Nothing /\ PresetConfig[p].plan[0] \in KnownBands
Undisturbed(p) ==
    /\ on /\ target = p
    /\ \A c \in Handlers : pc[c] = "idle"
    /\ ~(engine = "scan" /\ state # "running")
SchedulerReapplies ==
    \A p \in Presets : Appliable(p) => (<>[]Undisturbed(p) => []<>RotationOn)
=============================================================================
