------------------------ MODULE RotationSchedule_proofs ------------------------
(***************************************************************************)
(* Theorems about RotationSchedule, for every set of requests, rotations,  *)
(* presets and configs.                                                    *)
(***************************************************************************)
EXTENDS RotationSchedule, TLAPS

JoinStates == {"stopJoin", "rotateJoin", "haltJoin", "applyJoin"}

\* A caller awaits the end of a rotation exactly where the code does, and a
\* loop that goes on after its rotation was told to stop is awaited by
\* somebody.
JoinsMatch == \A c \in Callers : joins[c] # Nothing <=> pc[c] \in JoinStates

Awaited ==
    /\ \A r \in Rotations :
          loop[r] # "off" => running[r] \/ \E c \in Callers : joins[c] = r
    /\ \A c \in Callers : joins[c] # Nothing => ~running[joins[c]]

Joining == JoinsMatch /\ Awaited

\* The scheduler is applying a preset while its call is under way, and the
\* scan it starts is that preset's.
Applying ==
    /\ sched = "applying" => want # Nothing
    /\ pc[Scheduler] \in {"applyStop", "applyStart"} =>
          PresetConfig[want] # Nothing
    /\ sched = "applying" <=> pc[Scheduler] # "idle"
    /\ pc[Scheduler] \in {"idle", "applyJoin", "applyStop", "applyStart"}
    /\ \A c \in Handlers : pc[c] \notin {"applyJoin", "applyStop", "applyStart"}

\* Without overlap there is one caller at a time, the rotation that runs is
\* the one in state.scan_rotation, and there is none once it was told to stop.
Alone == \A c, d \in Callers : pc[c] # "idle" /\ pc[d] # "idle" => c = d

NoneRuns == \A r \in Rotations : ~running[r]

MayRun == {"idle", "scanStart", "stopEngine", "schedJoin"}

Halted ==
    /\ \A c \in Callers : pc[c] \notin MayRun => NoneRuns
    /\ state # "running" => NoneRuns

OneRuns == \A r \in Rotations : running[r] => r = scan_rotation

HaltHolds == \A c \in Handlers : pc[c] = "haltEngine" => engine = "off"

Polite == Alone /\ Halted /\ OneRuns /\ HaltHolds

IInv ==
    /\ TypeOK /\ Applying
    /\ RunningIsLive /\ Joining
    /\ ~overlap => Polite

-----------------------------------------------------------------------------
(***************************************************************************)
(* Type correctness, one group of variables at a time.                     *)
(***************************************************************************)
ObjectsTyped ==
    /\ running \in [Rotations -> BOOLEAN]
    /\ loop \in [Rotations -> LoopState]
    /\ index \in [Rotations -> 0 .. Slots - 1]
    /\ config \in [Rotations -> Configs \cup {Nothing}]
    /\ \A r \in Rotations : config[r] = Nothing <=> loop[r] = "off"

ServiceTyped ==
    /\ engine \in {"off", "preview", "scan"}
    /\ state \in {"stopped", "preview", "running"}
    /\ scan \in Bands \cup {Nothing}

CallersTyped ==
    /\ pc \in [Callers -> CallerState]
    /\ joins \in [Callers -> Rotations \cup {Nothing}]
    /\ scan_rotation \in Rotations \cup {Nothing}

SchedulerTyped ==
    /\ active \in Presets \cup {Nothing}
    /\ sched \in {"off", "asleep", "applying"}
    /\ want \in Presets \cup {Nothing}
    /\ target \in Presets \cup {Nothing}

FlagsTyped == on \in BOOLEAN /\ overlap \in BOOLEAN

LEMMA TypeGroups ==
    TypeOK <=> /\ ObjectsTyped /\ ServiceTyped /\ CallersTyped
               /\ SchedulerTyped /\ FlagsTyped
  BY Zenon DEF TypeOK, ObjectsTyped, ServiceTyped, CallersTyped, SchedulerTyped, FlagsTyped

LEMMA SlotFacts == Slots \in Nat \ {0} /\ 0 \in 0 .. Slots - 1
  <1>1. Slots \in Nat \ {0}
    BY RotationAssumption, Zenon DEF RotationAssumption
  <1> QED
    BY <1>1

LEMMA ConfigFacts ==
    /\ Nothing \notin Configs /\ Nothing \notin Rotations
    /\ \A p \in Presets : PresetConfig[p] \in Configs \cup {Nothing}
    /\ \A f \in Configs : \A i \in 0 .. Slots - 1 : f.plan[i] \in Bands
    /\ KnownBands \subseteq Bands /\ PreviewBand \in Bands
  <1>1. Configs \subseteq [plan : [0 .. Slots - 1 -> Bands], repeat : BOOLEAN]
    BY RotationAssumption, Zenon DEF RotationAssumption
  <1>2. ASSUME NEW f \in Configs PROVE f.plan \in [0 .. Slots - 1 -> Bands]
    BY <1>1
  <1>3. /\ Nothing \notin Configs /\ Nothing \notin Rotations
        /\ PresetConfig \in [Presets -> Configs \cup {Nothing}]
        /\ KnownBands \subseteq Bands /\ PreviewBand \in Bands
    BY RotationAssumption, Zenon DEF RotationAssumption
  <1> QED
    BY <1>2, <1>3

\* What the operations on a rotation object do to its variables.
LEMMA EndsTyped == ASSUME ObjectsTyped, NEW r, Ends(r) PROVE ObjectsTyped'
  BY SlotFacts, ConfigFacts DEF ObjectsTyped, Ends, LoopState

LEMMA CancelTyped == ASSUME ObjectsTyped, NEW r, Cancel(r) PROVE ObjectsTyped'
  <1>1. Ends(r) => ObjectsTyped'
    BY EndsTyped
  <1> QED
    BY <1>1 DEF ObjectsTyped, Cancel

LEMMA CreateTyped ==
    ASSUME ObjectsTyped, NEW c, NEW f \in Configs, Create(c, f)
    PROVE  ObjectsTyped' /\ scan_rotation' \in Rotations
  BY ConfigFacts DEF ObjectsTyped, Create, LoopState

LEMMA KeptTyped == ASSUME ObjectsTyped, UNCHANGED objects PROVE ObjectsTyped'
  BY DEF ObjectsTyped, objects

LEMMA SlotTyped ==
    ASSUME ObjectsTyped, NEW r \in Rotations, NEW i, SwitchSlot(r, i), loop[r] # "off",
           UNCHANGED <<running, config>>, index' \in [Rotations -> 0 .. Slots - 1]
    PROVE  ObjectsTyped'
  BY DEF ObjectsTyped, SwitchSlot, LoopState

LEMMA LoopTyped ==
    ASSUME ObjectsTyped, NEW r \in Rotations, LoopNext(r) PROVE ObjectsTyped'
  <1>1. CASE LoopStarts(r)
    BY <1>1, SlotTyped DEF LoopStarts, ObjectsTyped
  <1>2. CASE \/ DecodersSwitched(r) \/ Retune(r) \/ Restart(r) \/ Retuned(r)
             \/ EngineStopped(r) \/ Restarted(r) \/ RestartFails(r)
    BY <1>2 DEF DecodersSwitched, Retune, Restart, Retuned, EngineStopped, Restarted,
       RestartFails, LoopMoves, OnBand, ObjectsTyped, LoopState
  <1>3. CASE DwellEnds(r)
    <2>1. (index[r] + 1) % Slots \in 0 .. Slots - 1
      BY SlotFacts DEF ObjectsTyped
    <2>2. [index EXCEPT ![r] = (index[r] + 1) % Slots] \in [Rotations -> 0 .. Slots - 1]
      BY <2>1 DEF ObjectsTyped
    <2> QED
      BY <1>3, <2>2, EndsTyped, SlotTyped DEF DwellEnds
  <1> QED
    BY <1>1, <1>2, <1>3 DEF LoopNext

-----------------------------------------------------------------------------
(***************************************************************************)
(* Type correctness: what each action does to each group.                  *)
(***************************************************************************)
LEMMA ApplyObjects ==
    ASSUME ObjectsTyped, NEW p \in Presets, NEW left, Apply(p, left)
    PROVE  ObjectsTyped'
  <1>1. CASE UNCHANGED objects
    BY <1>1, KeptTyped
  <1>2. CASE PresetConfig[p] # Nothing /\ Create(Scheduler, PresetConfig[p])
    BY <1>2, ConfigFacts, CreateTyped
  <1> QED
    BY <1>1, <1>2 DEF Apply

LEMMA ConfigureObjects ==
    ASSUME ObjectsTyped, NEW c, NEW left, Configure(c, left) PROVE ObjectsTyped'
  <1>1. CASE UNCHANGED objects
    BY <1>1, KeptTyped
  <1>2. CASE \E f \in Configs : Create(c, f)
    BY <1>2, CreateTyped
  <1> QED
    BY <1>1, <1>2 DEF Configure

LEMMA HandlerObjects ==
    ASSUME ObjectsTyped, CallersTyped, Applying, NEW c \in Handlers, HandlerNext(c)
    PROVE  ObjectsTyped'
  <1>1. CASE \/ ScanStart(c) \/ ScanStop(c) \/ ScanStarted(c) \/ ScanStartFails(c)
             \/ ScanStopJoined(c) \/ PreviewOpened(c) \/ PreviewFails(c)
             \/ RotationScanFails(c) \/ RotationStopJoined(c) \/ RotationStopEngine(c)
             \/ RotationStopped(c) \/ SchedulerStart(c) \/ SchedulerStopped(c)
    <2> UNCHANGED objects
      BY <1>1, Zenon DEF ScanStart, ScanStop, ScanStarted, ScanStartFails, ScanStopJoined,
         PreviewOpened, PreviewFails, RotationScanFails, RotationStopJoined,
         RotationStopEngine, RotationStopped, SchedulerStart, SchedulerStopped
    <2> QED
      BY KeptTyped
  <1>2. CASE RotationStart(c)
    BY <1>2, CancelTyped, ConfigureObjects DEF RotationStart, StopRotation
  <1>3. CASE RotationStop(c)
    BY <1>3, CancelTyped DEF RotationStop, StopRotation
  <1>4. CASE ScanStopRotation(c)
    BY <1>4, CancelTyped, KeptTyped DEF ScanStopRotation, StopRotation
  <1>5. CASE RotationStartJoined(c)
    BY <1>5, ConfigureObjects DEF RotationStartJoined
  <1>6. CASE RotationScanStarted(c)
    BY <1>6, CreateTyped DEF RotationScanStarted
  <1>7. CASE SchedulerStop(c)
    BY <1>7, CancelTyped, KeptTyped DEF SchedulerStop
  <1> QED
    BY <1>1, <1>2, <1>3, <1>4, <1>5, <1>6, <1>7, Zenon
       DEF HandlerNext, Requests, HandlerGoesOn, Continues

LEMMA SchedulerObjects ==
    ASSUME ObjectsTyped, SchedulerTyped, CallersTyped, Applying, SchedulerNext
    PROVE  ObjectsTyped'
  <1>1. CASE Tick
    <2>1. target \in Presets
      BY <1>1 DEF Tick, SchedulerTyped
    <2> QED
      BY <1>1, <2>1, CancelTyped, ApplyObjects DEF Tick, StopRotation
  <1>2. CASE ApplyJoined
    <2>1. want \in Presets
      BY <1>2 DEF ApplyJoined, Joined, Applying, SchedulerTyped
    <2> QED
      BY <1>2, <2>1, ApplyObjects DEF ApplyJoined
  <1>3. CASE ApplyStarted
    <2>1. PresetConfig[want] \in Configs
      BY <1>3, ConfigFacts DEF ApplyStarted, Applying, SchedulerTyped
    <2> QED
      BY <1>3, <2>1, CreateTyped DEF ApplyStarted
  <1>4. CASE ApplyPreviewStopped \/ ApplyStartFails \/ SchedulerExits
    BY <1>4, KeptTyped DEF ApplyPreviewStopped, ApplyStartFails, SchedulerExits
  <1> QED
    BY <1>1, <1>2, <1>3, <1>4 DEF SchedulerNext

LEMMA PreviewClosedTyped ==
    ASSUME ServiceTyped PROVE PreviewClosed \in {"off", "preview", "scan"}
  BY DEF ServiceTyped, PreviewClosed

LEMMA StoppedTyped ==
    ASSUME ServiceTyped, CallersTyped, NEW c, Stopped(c)
    PROVE  ServiceTyped' /\ pc' \in [Callers -> CallerState]
  BY DEF ServiceTyped, CallersTyped, Stopped, CallerState

LEMMA SlotBand ==
    ASSUME ObjectsTyped, NEW r \in Rotations, loop[r] # "off"
    PROVE  config[r].plan[index[r]] \in Bands
  BY ConfigFacts DEF ObjectsTyped

LEMMA LoopService ==
    ASSUME ObjectsTyped, ServiceTyped, NEW r \in Rotations, LoopNext(r)
    PROVE  ServiceTyped'
  <1>1. CASE \/ LoopStarts(r) \/ DecodersSwitched(r) \/ Retune(r) \/ EngineStopped(r)
             \/ RestartFails(r) \/ DwellEnds(r)
    BY <1>1, Zenon DEF LoopStarts, DecodersSwitched, Retune, EngineStopped, RestartFails,
       DwellEnds, service, ServiceTyped
  <1>2. CASE Restart(r)
    BY <1>2 DEF Restart, ServiceTyped
  <1>3. CASE Retuned(r) \/ Restarted(r)
    <2>1. loop[r] # "off"
      BY <1>3 DEF Retuned, Restarted, LoopMoves
    <2> QED
      BY <1>3, <2>1, SlotBand DEF Retuned, Restarted, OnBand, ServiceTyped
  <1> QED
    BY <1>1, <1>2, <1>3 DEF LoopNext

LEMMA ConfigureService ==
    ASSUME ServiceTyped, NEW c, NEW left, Configure(c, left), UNCHANGED <<state, scan>>
    PROVE  ServiceTyped'
  BY PreviewClosedTyped DEF ServiceTyped, Configure

LEMMA HandlerService ==
    ASSUME ServiceTyped, CallersTyped, NEW c \in Handlers, HandlerNext(c)
    PROVE  ServiceTyped'
  <1>1. CASE \/ ScanStartFails(c) \/ RotationScanFails(c) \/ RotationStop(c)
             \/ RotationStopJoined(c) \/ SchedulerStart(c) \/ SchedulerStop(c)
             \/ SchedulerStopped(c)
    BY <1>1, Zenon DEF ScanStartFails, RotationScanFails, RotationStop, RotationStopJoined,
       SchedulerStart, SchedulerStop, SchedulerStopped, service, ServiceTyped
  <1>2. CASE ScanStart(c) \/ ScanStop(c) \/ PreviewFails(c) \/ RotationStopEngine(c)
    BY <1>2, PreviewClosedTyped DEF ScanStart, ScanStop, PreviewFails, RotationStopEngine,
       ServiceTyped
  <1>3. CASE ScanStarted(c) \/ PreviewOpened(c)
    BY <1>3, ConfigFacts DEF ScanStarted, PreviewOpened, ServiceTyped
  <1>4. CASE ScanStopRotation(c) \/ ScanStopJoined(c)
    BY <1>4, StoppedTyped DEF ScanStopRotation, ScanStopJoined, service, ServiceTyped
  <1>5. CASE RotationStart(c) \/ RotationStartJoined(c)
    BY <1>5, ConfigureService DEF RotationStart, RotationStartJoined, ServiceTyped
  <1>6. CASE RotationScanStarted(c)
    BY <1>6, ConfigFacts DEF RotationScanStarted, ServiceTyped
  <1>7. CASE RotationStopped(c)
    BY <1>7, StoppedTyped DEF RotationStopped, ServiceTyped
  <1> QED
    BY <1>1, <1>2, <1>3, <1>4, <1>5, <1>6, <1>7, Zenon
       DEF HandlerNext, Requests, HandlerGoesOn, Continues

LEMMA FirstBand ==
    ASSUME SchedulerTyped, Applying, pc[Scheduler] = "applyStart"
    PROVE  PresetConfig[want] \in Configs /\ PresetConfig[want].plan[0] \in Bands
  BY ConfigFacts, SlotFacts DEF SchedulerTyped, Applying

LEMMA SchedulerService ==
    ASSUME ServiceTyped, SchedulerTyped, Applying, SchedulerNext
    PROVE  ServiceTyped'
  <1>1. CASE ApplyPreviewStopped \/ ApplyStartFails \/ SchedulerExits
    BY <1>1, Zenon DEF ApplyPreviewStopped, ApplyStartFails, SchedulerExits, service,
       ServiceTyped
  <1>2. CASE Tick \/ ApplyJoined
    BY <1>2, PreviewClosedTyped DEF Tick, ApplyJoined, Apply, ServiceTyped
  <1>3. CASE ApplyStarted
    BY <1>3, FirstBand DEF ApplyStarted, ServiceTyped
  <1> QED
    BY <1>1, <1>2, <1>3 DEF SchedulerNext

LEMMA CallerFacts ==
    /\ Scheduler \in Callers /\ Scheduler \notin Handlers
    /\ \A c \in Handlers : c \in Callers /\ c # Scheduler
  <1>1. Scheduler \notin Handlers
    BY RotationAssumption, Zenon DEF RotationAssumption
  <1> QED
    BY <1>1 DEF Callers

LEMMA ConfigureCallers ==
    ASSUME CallersTyped, NEW c \in Callers, NEW left \in Rotations \cup {Nothing},
           Configure(c, left)
    PROVE  /\ pc' \in [Callers -> CallerState]
           /\ scan_rotation' \in Rotations \cup {Nothing}
  BY DEF CallersTyped, Configure, Create, CallerState

LEMMA StopRotationCallers ==
    ASSUME CallersTyped, NEW c \in Callers, NEW where \in CallerState,
           StopRotation(c, where)
    PROVE  /\ pc' \in [Callers -> CallerState]
           /\ joins' \in [Callers -> Rotations \cup {Nothing}]
  BY DEF CallersTyped, StopRotation

LEMMA HandlerCallers ==
    ASSUME ServiceTyped, CallersTyped, NEW c \in Handlers, HandlerNext(c)
    PROVE  CallersTyped'
  <1> c \in Callers
    BY CallerFacts
  <1>1. CASE \/ ScanStart(c) \/ ScanStarted(c) \/ ScanStartFails(c) \/ ScanStop(c)
             \/ PreviewOpened(c) \/ PreviewFails(c) \/ RotationScanFails(c)
             \/ RotationStopJoined(c) \/ RotationStopEngine(c) \/ SchedulerStart(c)
             \/ SchedulerStopped(c)
    BY <1>1 DEF ScanStart, ScanStarted, ScanStartFails, ScanStop, PreviewOpened,
       PreviewFails, RotationScanFails, RotationStopJoined, RotationStopEngine,
       SchedulerStart, SchedulerStopped, Moves, Joined, CallersTyped, CallerState
  <1>2. CASE ScanStopRotation(c)
    <2>1. "stopJoin" \in CallerState
      BY DEF CallerState
    <2> QED
      BY <1>2, <2>1, StoppedTyped, StopRotationCallers DEF ScanStopRotation, CallersTyped
  <1>3. CASE ScanStopJoined(c)
    BY <1>3, StoppedTyped DEF ScanStopJoined, Joined, CallersTyped
  <1>4. CASE RotationStart(c)
    <2>1. "rotateJoin" \in CallerState
      BY DEF CallerState
    <2> QED
      BY <1>4, <2>1, StopRotationCallers, ConfigureCallers DEF RotationStart, CallersTyped
  <1>5. CASE RotationStartJoined(c)
    BY <1>5, ConfigureCallers DEF RotationStartJoined, Joined, CallersTyped
  <1>6. CASE RotationScanStarted(c)
    BY <1>6 DEF RotationScanStarted, Create, Moves, CallersTyped, CallerState
  <1>7. CASE RotationStop(c)
    <2>1. "haltJoin" \in CallerState
      BY DEF CallerState
    <2> QED
      BY <1>7, <2>1, StopRotationCallers DEF RotationStop, CallersTyped
  <1>8. CASE RotationStopped(c)
    BY <1>8, StoppedTyped DEF RotationStopped, CallersTyped, CallerState
  <1>9. CASE SchedulerStop(c)
    BY <1>9 DEF SchedulerStop, CallersTyped, CallerState
  <1> QED
    BY <1>1, <1>2, <1>3, <1>4, <1>5, <1>6, <1>7, <1>8, <1>9, Zenon
       DEF HandlerNext, Requests, HandlerGoesOn, Continues

LEMMA ApplyTyped ==
    ASSUME CallersTyped, SchedulerTyped, NEW p \in Presets,
           NEW left \in Rotations \cup {Nothing}, Apply(p, left)
    PROVE  /\ pc' \in [Callers -> CallerState]
           /\ scan_rotation' \in Rotations \cup {Nothing}
           /\ active' \in Presets \cup {Nothing}
           /\ sched' \in {"asleep", "applying"}
           /\ want' \in Presets \cup {Nothing}
  BY DEF CallersTyped, SchedulerTyped, Apply, Create, CallerState

LEMMA SchedulerCallers ==
    ASSUME CallersTyped, SchedulerTyped, Applying, SchedulerNext
    PROVE  CallersTyped' /\ SchedulerTyped'
  <1> Scheduler \in Callers
    BY CallerFacts
  <1>1. CASE Tick
    <2>1. "applyJoin" \in CallerState /\ target \in Presets
      BY <1>1 DEF CallerState, Tick, SchedulerTyped
    <2>2. CASE StopRotation(Scheduler, "applyJoin") /\ sched' = "applying" /\ want' = target
               /\ UNCHANGED <<engine, scan_rotation, active>>
      BY <1>1, <2>1, <2>2, StopRotationCallers DEF Tick, CallersTyped, SchedulerTyped
    <2>3. CASE Apply(target, scan_rotation) /\ UNCHANGED joins
      BY <1>1, <2>1, <2>3, ApplyTyped DEF Tick, CallersTyped, SchedulerTyped
    <2> QED
      BY <1>1, <2>2, <2>3 DEF Tick
  <1>2. CASE ApplyJoined
    <2>1. want \in Presets
      BY <1>2 DEF ApplyJoined, Joined, Applying, SchedulerTyped
    <2> QED
      BY <1>2, <2>1, ApplyTyped DEF ApplyJoined, Joined, CallersTyped, SchedulerTyped
  <1>3. CASE ApplyStarted \/ ApplyStartFails
    BY <1>3 DEF ApplyStarted, ApplyStartFails, ApplyEnds, Create, CallersTyped,
       SchedulerTyped, CallerState
  <1>4. CASE ApplyPreviewStopped
    BY <1>4 DEF ApplyPreviewStopped, Moves, CallersTyped, SchedulerTyped, CallerState, presets
  <1>5. CASE SchedulerExits
    BY <1>5 DEF SchedulerExits, CallersTyped, SchedulerTyped
  <1> QED
    BY <1>1, <1>2, <1>3, <1>4, <1>5 DEF SchedulerNext

LEMMA HandlerScheduler ==
    ASSUME SchedulerTyped, NEW c \in Handlers, HandlerNext(c)
    PROVE  SchedulerTyped'
  <1>1. CASE (SchedulerStart(c) \/ SchedulerStop(c)) /\ UNCHANGED <<target, overlap>>
    BY <1>1 DEF SchedulerStart, SchedulerStop, SchedulerTyped
  <1>2. CASE (Requests(c) /\ UNCHANGED <<presets, target, overlap>>) \/ HandlerGoesOn(c)
    BY <1>2, Zenon DEF HandlerGoesOn, SchedulerStopped, presets, SchedulerTyped
  <1> QED
    BY <1>1, <1>2, Zenon DEF HandlerNext

LEMMA HandlerFlags ==
    ASSUME FlagsTyped, NEW c \in Handlers, HandlerNext(c) PROVE FlagsTyped'
  <1>1. CASE (SchedulerStart(c) \/ SchedulerStop(c)) /\ UNCHANGED <<target, overlap>>
    <2>1. on' = TRUE \/ on' = FALSE
      BY <1>1 DEF SchedulerStart, SchedulerStop
    <2> QED
      BY <1>1, <2>1, Zenon DEF FlagsTyped
  <1>2. CASE (Requests(c) /\ UNCHANGED <<presets, target, overlap>>) \/ HandlerGoesOn(c)
    BY <1>2, Zenon DEF HandlerGoesOn, SchedulerStopped, presets, FlagsTyped
  <1> QED
    BY <1>1, <1>2, Zenon DEF HandlerNext

LEMMA SchedulerFlags == ASSUME FlagsTyped, SchedulerNext PROVE FlagsTyped'
  BY Zenon DEF SchedulerNext, Tick, ApplyJoined, ApplyPreviewStopped, ApplyStarted,
     ApplyStartFails, SchedulerExits, presets, FlagsTyped

-----------------------------------------------------------------------------
(***************************************************************************)
(* Where the callers are.                                                  *)
(***************************************************************************)
ApplyStates == {"applyJoin", "applyStop", "applyStart"}

\* A request moves itself only, and never into the scheduler's own steps;
\* scheduler_stop also ends the scan the scheduler is starting.
LEMMA HandlerAlone ==
    ASSUME CallersTyped, NEW c \in Handlers,
           Requests(c) \/ HandlerGoesOn(c) \/ SchedulerStart(c)
    PROVE  /\ \A d \in Callers \ {c} : pc'[d] = pc[d] /\ joins'[d] = joins[d]
           /\ pc[c] \notin ApplyStates => pc'[c] \notin ApplyStates
  <1> c \in Callers
    BY CallerFacts
  <1>1. CASE Requests(c)
    BY <1>1 DEF Requests, ScanStart, ScanStop, RotationStart, RotationStop, StopRotation,
       Configure, Moves, Begins, CallersTyped, ApplyStates
  <1>2. CASE \/ ScanStarted(c) \/ ScanStartFails(c) \/ PreviewOpened(c) \/ PreviewFails(c)
             \/ RotationScanStarted(c) \/ RotationScanFails(c) \/ RotationStopEngine(c)
             \/ SchedulerStart(c) \/ SchedulerStopped(c)
    BY <1>2 DEF ScanStarted, ScanStartFails, PreviewOpened, PreviewFails,
       RotationScanStarted, RotationScanFails, RotationStopEngine, SchedulerStart,
       SchedulerStopped, Moves, Begins, CallersTyped, ApplyStates
  <1>3. CASE \/ ScanStopRotation(c) \/ ScanStopJoined(c) \/ RotationStartJoined(c)
             \/ RotationStopJoined(c) \/ RotationStopped(c)
    BY <1>3 DEF ScanStopRotation, ScanStopJoined, RotationStartJoined, RotationStopJoined,
       RotationStopped, StopRotation, Joined, Stopped, Configure, CallersTyped, ApplyStates
  <1> QED
    BY <1>1, <1>2, <1>3, Zenon DEF HandlerGoesOn, Continues

LEMMA SchedulerAlone ==
    ASSUME CallersTyped, SchedulerNext
    PROVE  \A d \in Handlers : pc'[d] = pc[d] /\ joins'[d] = joins[d]
  <1> SUFFICES ASSUME NEW d \in Handlers PROVE pc'[d] = pc[d] /\ joins'[d] = joins[d]
    OBVIOUS
  <1> d \in Callers /\ d # Scheduler
    BY CallerFacts
  <1>1. CASE Tick \/ ApplyJoined
    BY <1>1 DEF Tick, ApplyJoined, StopRotation, Joined, Apply, CallersTyped
  <1>2. CASE ApplyPreviewStopped \/ ApplyStarted \/ ApplyStartFails \/ SchedulerExits
    BY <1>2 DEF ApplyPreviewStopped, ApplyStarted, ApplyStartFails, SchedulerExits,
       ApplyEnds, Moves, CallersTyped
  <1> QED
    BY <1>1, <1>2 DEF SchedulerNext

LEMMA HandlerApplying ==
    ASSUME CallersTyped, Applying, NEW c \in Handlers, HandlerNext(c)
    PROVE  Applying'
  <1> c \in Callers /\ c # Scheduler /\ Scheduler \in Callers
    BY CallerFacts
  <1>1. CASE (Requests(c) /\ UNCHANGED <<presets, target, overlap>>) \/ HandlerGoesOn(c)
    <2>1. sched' = sched /\ want' = want
      BY <1>1, Zenon DEF HandlerGoesOn, SchedulerStopped, presets
    <2>2. /\ \A d \in Callers \ {c} : pc'[d] = pc[d]
          /\ pc[c] \notin ApplyStates => pc'[c] \notin ApplyStates
      BY <1>1, HandlerAlone
    <2> QED
      BY <2>1, <2>2, CallerFacts DEF Applying, ApplyStates
  <1>2. CASE SchedulerStart(c)
    BY <1>2 DEF SchedulerStart, Applying
  <1>3. CASE SchedulerStop(c)
    BY <1>3, CallerFacts DEF SchedulerStop, Begins, Applying, CallersTyped
  <1> QED
    BY <1>1, <1>2, <1>3, Zenon DEF HandlerNext

LEMMA ApplyApplying ==
    ASSUME CallersTyped, NEW p \in Presets, NEW left, Apply(p, left)
    PROVE  \/ pc'[Scheduler] = "idle" /\ sched' = "asleep" /\ want' = Nothing
           \/ /\ pc'[Scheduler] \in {"applyStop", "applyStart"} /\ sched' = "applying"
              /\ want' = p /\ PresetConfig[p] # Nothing
  BY CallerFacts DEF Apply, CallersTyped

LEMMA SchedulerApplying ==
    ASSUME CallersTyped, SchedulerTyped, Applying, SchedulerNext PROVE Applying'
  <1> Scheduler \in Callers /\ Nothing \notin Presets
    BY CallerFacts, RotationAssumption, Zenon DEF RotationAssumption
  <1>0. \A d \in Handlers : pc'[d] = pc[d]
    BY SchedulerAlone
  <1>1. CASE Tick
    <2>1. target \in Presets
      BY <1>1 DEF Tick, SchedulerTyped
    <2>2. CASE StopRotation(Scheduler, "applyJoin") /\ sched' = "applying" /\ want' = target
      BY <1>0, <2>1, <2>2 DEF StopRotation, CallersTyped, Applying
    <2>3. CASE Apply(target, scan_rotation)
      BY <1>0, <2>1, <2>3, ApplyApplying DEF Applying
    <2> QED
      BY <1>1, <2>2, <2>3 DEF Tick
  <1>2. CASE ApplyJoined
    <2>1. want \in Presets
      BY <1>2 DEF ApplyJoined, Joined, Applying, SchedulerTyped
    <2> QED
      BY <1>0, <1>2, <2>1, ApplyApplying DEF ApplyJoined, Applying
  <1>3. CASE ApplyStarted \/ ApplyStartFails
    BY <1>0, <1>3 DEF ApplyStarted, ApplyStartFails, ApplyEnds, CallersTyped, Applying
  <1>4. CASE ApplyPreviewStopped
    BY <1>0, <1>4 DEF ApplyPreviewStopped, Moves, CallersTyped, Applying, presets
  <1>5. CASE SchedulerExits
    BY <1>0, <1>5 DEF SchedulerExits, Applying
  <1> QED
    BY <1>1, <1>2, <1>3, <1>4, <1>5 DEF SchedulerNext

-----------------------------------------------------------------------------
LEMMA TypeInit == Init => TypeOK /\ Applying
  <1> SUFFICES ASSUME Init PROVE TypeOK /\ Applying
    OBVIOUS
  <1>1. ObjectsTyped
    BY SlotFacts DEF Init, ObjectsTyped, LoopState
  <1>2. ServiceTyped /\ SchedulerTyped
    BY DEF Init, ServiceTyped, SchedulerTyped
  <1>3. CallersTyped
    BY DEF Init, CallersTyped, CallerState
  <1>4. FlagsTyped
    BY Zenon DEF Init, FlagsTyped
  <1>5. Applying
    BY CallerFacts DEF Init, Applying
  <1> QED
    BY <1>1, <1>2, <1>3, <1>4, <1>5, TypeGroups

LEMMA TypeNext ==
    ASSUME TypeOK, Applying, [Next]_vars PROVE TypeOK' /\ Applying'
  <1> DEFINE Typed == /\ ObjectsTyped /\ ServiceTyped /\ CallersTyped
                      /\ SchedulerTyped /\ FlagsTyped
  <1> SUFFICES Typed' /\ Applying'
    BY TypeGroups, PTL
  <1>0. ObjectsTyped /\ ServiceTyped /\ CallersTyped /\ SchedulerTyped /\ FlagsTyped
    BY TypeGroups
  <1>1. ASSUME NEW c \in Handlers, HandlerNext(c) PROVE Typed' /\ Applying'
    <2>1. ObjectsTyped'
      BY <1>0, <1>1, HandlerObjects
    <2>2. ServiceTyped' /\ CallersTyped'
      BY <1>0, <1>1, HandlerService, HandlerCallers
    <2>3. SchedulerTyped' /\ FlagsTyped'
      BY <1>0, <1>1, HandlerScheduler, HandlerFlags
    <2>4. Applying'
      BY <1>0, <1>1, HandlerApplying
    <2> QED
      BY <2>1, <2>2, <2>3, <2>4
  <1>2. ASSUME NEW r \in Rotations, LoopNext(r) PROVE Typed' /\ Applying'
    <2>1. UNCHANGED <<scan_rotation, pc, joins, presets, target, overlap>>
      BY <1>2, Zenon DEF LoopNext
    <2>2. CallersTyped' /\ SchedulerTyped'
      BY <1>0, <2>1 DEF CallersTyped, SchedulerTyped, presets
    <2>3. FlagsTyped'
      BY <1>0, <2>1, Zenon DEF FlagsTyped, presets
    <2>4. Applying'
      BY <2>1 DEF Applying, presets
    <2>5. ObjectsTyped' /\ ServiceTyped'
      BY <1>0, <1>2, LoopTyped, LoopService
    <2> QED
      BY <2>2, <2>3, <2>4, <2>5
  <1>3. CASE SchedulerNext
    <2>1. ObjectsTyped' /\ ServiceTyped'
      BY <1>0, <1>3, SchedulerObjects, SchedulerService
    <2>2. CallersTyped' /\ SchedulerTyped'
      BY <1>0, <1>3, SchedulerCallers
    <2>3. FlagsTyped' /\ Applying'
      BY <1>0, <1>3, SchedulerFlags, SchedulerApplying
    <2> QED
      BY <2>1, <2>2, <2>3
  <1>4. CASE ClockMoves \/ UNCHANGED vars
    <2>1. /\ UNCHANGED <<service, scan_rotation, objects, pc, joins, presets, overlap>>
          /\ target' \in Presets \cup {Nothing}
      BY <1>0, <1>4 DEF ClockMoves, vars, SchedulerTyped
    <2>2. ObjectsTyped' /\ ServiceTyped'
      BY <1>0, <2>1 DEF ObjectsTyped, ServiceTyped, service, objects
    <2>3. CallersTyped' /\ SchedulerTyped'
      BY <1>0, <2>1 DEF CallersTyped, SchedulerTyped, presets
    <2>4. FlagsTyped'
      BY <1>0, <2>1, Zenon DEF FlagsTyped, presets
    <2>5. Applying'
      BY <2>1 DEF Applying, presets
    <2> QED
      BY <2>2, <2>3, <2>4, <2>5
  <1>5. \/ ClockMoves \/ UNCHANGED vars \/ SchedulerNext
        \/ (\E c \in Handlers : HandlerNext(c)) \/ (\E r \in Rotations : LoopNext(r))
    BY Zenon DEF Next
  <1> QED
    BY <1>1, <1>2, <1>3, <1>4, <1>5, Zenon

\* The state of the requests, the scheduler and the rotations is well formed,
\* and an object keeps its config exactly as long as its loop is alive.
THEOREM RotationTypeCorrect == Spec => []TypeOK
  <1>1. TypeOK /\ Applying /\ [Next]_vars => TypeOK' /\ Applying'
    BY TypeNext
  <1> QED
    BY <1>1, TypeInit, PTL DEF Spec

-----------------------------------------------------------------------------
(***************************************************************************)
(* Who stops, frees and creates rotations.                                 *)
(***************************************************************************)
\* caller c stops state.scan_rotation and awaits its loop
Stops(c) ==
    /\ joins[c] = Nothing /\ RotationOn
    /\ Cancel(scan_rotation)
    /\ joins' = [joins EXCEPT ![c] = scan_rotation]
    /\ pc'[c] \in JoinStates

\* caller c awaits no loop any more, and may start a rotation
Frees(c) ==
    /\ joins[c] # Nothing => loop[joins[c]] = "off"
    /\ joins' = [joins EXCEPT ![c] = Nothing]
    /\ pc'[c] \notin JoinStates
    /\ UNCHANGED objects \/ \E f \in Configs : Create(c, f)

\* scheduler_stop's cancellation reaches the rotation the scheduler awaits
StopsTick(c) ==
    /\ UNCHANGED joins
    /\ joins[c] = Nothing /\ pc'[c] \notin JoinStates
    /\ \/ /\ UNCHANGED objects
          /\ \/ pc'[Scheduler] = pc[Scheduler]
             \/ pc[Scheduler] = "applyStart" /\ pc'[Scheduler] = "idle"
       \/ /\ joins[Scheduler] # Nothing /\ Cancel(joins[Scheduler])
          /\ pc'[Scheduler] = pc[Scheduler]

LEMMA HandlerMoves ==
    ASSUME CallersTyped, Joining, NEW c \in Handlers, Requests(c) \/ HandlerGoesOn(c)
                                                      \/ SchedulerStart(c)
    PROVE  Stops(c) \/ Frees(c)
  <1> c \in Callers /\ c # Scheduler /\ Scheduler \in Callers
    BY CallerFacts
  <1>0. joins[c] # Nothing <=> pc[c] \in JoinStates
    BY DEF Joining, JoinsMatch
  <1>1. CASE \/ ScanStart(c) \/ ScanStop(c) \/ ScanStarted(c) \/ ScanStartFails(c)
             \/ PreviewOpened(c) \/ PreviewFails(c) \/ RotationScanFails(c)
             \/ RotationStopEngine(c) \/ RotationStopped(c)
    <2>1. UNCHANGED objects /\ UNCHANGED joins /\ pc[c] \notin JoinStates
      BY <1>1 DEF ScanStart, ScanStop, ScanStarted, ScanStartFails, PreviewOpened,
         PreviewFails, RotationScanFails, RotationStopEngine, RotationStopped, Begins,
         Moves, JoinStates
    <2>2. pc'[c] \notin JoinStates
      BY <1>1 DEF ScanStart, ScanStop, ScanStarted, ScanStartFails, PreviewOpened,
         PreviewFails, RotationScanFails, RotationStopEngine, RotationStopped, Begins,
         Moves, JoinStates, Stopped, CallersTyped
    <2> QED
      BY <1>0, <2>1, <2>2 DEF Frees, CallersTyped
  <1>2. CASE RotationStart(c) \/ RotationStop(c) \/ ScanStopRotation(c)
    <2>1. pc[c] \notin JoinStates /\ joins[c] = Nothing
      BY <1>0, <1>2 DEF RotationStart, RotationStop, ScanStopRotation, Begins, JoinStates
    <2>2. CASE \E where \in JoinStates : StopRotation(c, where)
      BY <2>1, <2>2 DEF StopRotation, Stops, CallersTyped
    <2>3. CASE ScanStopRotation(c) /\ Stopped(c) /\ UNCHANGED <<objects, joins>>
      BY <2>1, <2>3 DEF Stopped, Frees, CallersTyped, JoinStates
    <2>4. CASE RotationStart(c) /\ Configure(c, scan_rotation) /\ UNCHANGED joins
      <3>1. pc'[c] \notin JoinStates
        BY <2>1, <2>4 DEF Configure, CallersTyped, JoinStates, RotationStart, Begins
      <3>2. UNCHANGED objects \/ \E f \in Configs : Create(c, f)
        BY <2>4 DEF Configure
      <3> QED
        BY <2>1, <2>4, <3>1, <3>2 DEF Frees, CallersTyped
    <2> QED
      BY <1>2, <2>2, <2>3, <2>4 DEF RotationStart, RotationStop, ScanStopRotation, JoinStates
  <1>3. CASE ScanStopJoined(c) \/ RotationStopJoined(c)
    BY <1>3 DEF ScanStopJoined, RotationStopJoined, Joined, Stopped, Frees, CallersTyped,
       JoinStates
  <1>4. CASE RotationStartJoined(c)
    <2>1. pc'[c] \notin JoinStates
      BY <1>4 DEF RotationStartJoined, Configure, CallersTyped, JoinStates
    <2>2. UNCHANGED objects \/ \E f \in Configs : Create(c, f)
      BY <1>4 DEF RotationStartJoined, Configure
    <2> QED
      BY <1>4, <2>1, <2>2 DEF RotationStartJoined, Joined, Frees
  <1>5. CASE RotationScanStarted(c)
    <2>1. pc[c] \notin JoinStates /\ pc'[c] \notin JoinStates
      BY <1>5 DEF RotationScanStarted, Moves, CallersTyped, JoinStates
    <2>2. \E f \in Configs : Create(c, f)
      BY <1>5 DEF RotationScanStarted
    <2> QED
      BY <1>0, <1>5, <2>1, <2>2 DEF RotationScanStarted, Frees, CallersTyped
  <1>6. CASE SchedulerStart(c) \/ SchedulerStopped(c)
    BY <1>0, <1>6 DEF SchedulerStart, SchedulerStopped, Begins, Moves, Frees, CallersTyped,
       JoinStates
  <1> QED
    BY <1>1, <1>2, <1>3, <1>4, <1>5, <1>6, Zenon DEF Requests, HandlerGoesOn, Continues

LEMMA SchedulerStopMoves ==
    ASSUME CallersTyped, Joining, Applying, NEW c \in Handlers, SchedulerStop(c)
    PROVE  /\ StopsTick(c)
           /\ \A d \in Callers \ {c, Scheduler} : pc'[d] = pc[d]
  <1> c \in Callers /\ c # Scheduler /\ Scheduler \in Callers
    BY CallerFacts
  <1>0. /\ joins[c] # Nothing <=> pc[c] \in JoinStates
        /\ joins[Scheduler] # Nothing <=> pc[Scheduler] \in JoinStates
    BY DEF Joining, JoinsMatch
  <1>1. joins[c] = Nothing /\ pc'[c] = "schedJoin" /\ UNCHANGED joins
    BY <1>0 DEF SchedulerStop, Begins, CallersTyped, JoinStates
  <1>2. \A d \in Callers \ {c, Scheduler} : pc'[d] = pc[d]
    BY DEF SchedulerStop, CallersTyped
  <1>3. \/ /\ UNCHANGED objects
           /\ \/ pc'[Scheduler] = pc[Scheduler]
              \/ pc[Scheduler] = "applyStart" /\ pc'[Scheduler] = "idle"
        \/ /\ joins[Scheduler] # Nothing /\ Cancel(joins[Scheduler])
           /\ pc'[Scheduler] = pc[Scheduler]
    <2>1. CASE UNCHANGED objects /\ pc' = [pc EXCEPT ![c] = "schedJoin"]
      BY <2>1 DEF CallersTyped, objects
    <2>2. CASE /\ pc[Scheduler] = "applyJoin" /\ Cancel(joins[Scheduler])
               /\ pc' = [pc EXCEPT ![c] = "schedJoin"]
      BY <1>0, <2>2 DEF CallersTyped, JoinStates
    <2>3. CASE /\ pc[Scheduler] = "applyStart" /\ UNCHANGED objects
               /\ pc' = [pc EXCEPT ![c] = "schedJoin", ![Scheduler] = "idle"]
      BY <2>3 DEF CallersTyped
    <2> QED
      BY <2>1, <2>2, <2>3 DEF SchedulerStop
  <1> QED
    BY <1>1, <1>2, <1>3 DEF StopsTick, JoinStates

LEMMA ApplyMoves ==
    ASSUME CallersTyped, NEW p \in Presets, NEW left, Apply(p, left)
    PROVE  /\ pc'[Scheduler] \notin JoinStates
           /\ UNCHANGED objects \/ \E f \in Configs : Create(Scheduler, f)
  <1>1. pc'[Scheduler] \notin JoinStates
    BY CallerFacts DEF Apply, CallersTyped, JoinStates
  <1>2. \/ UNCHANGED objects
        \/ PresetConfig[p] # Nothing /\ Create(Scheduler, PresetConfig[p])
    BY DEF Apply
  <1> QED
    BY <1>1, <1>2, ConfigFacts

LEMMA SchedulerMoves ==
    ASSUME CallersTyped, SchedulerTyped, Joining, Applying, SchedulerNext
    PROVE  Stops(Scheduler) \/ Frees(Scheduler)
  <1> Scheduler \in Callers
    BY CallerFacts
  <1>0. joins[Scheduler] # Nothing <=> pc[Scheduler] \in JoinStates
    BY DEF Joining, JoinsMatch
  <1>1. CASE Tick
    <2>1. pc[Scheduler] \notin JoinStates /\ target \in Presets
      BY <1>1 DEF Tick, Begins, JoinStates, SchedulerTyped
    <2>2. CASE StopRotation(Scheduler, "applyJoin")
      BY <1>0, <2>1, <2>2 DEF StopRotation, Stops, CallersTyped, JoinStates
    <2>3. CASE Apply(target, scan_rotation) /\ UNCHANGED joins
      BY <1>0, <2>1, <2>3, ApplyMoves DEF Frees, CallersTyped
    <2> QED
      BY <1>1, <2>2, <2>3 DEF Tick
  <1>2. CASE ApplyJoined
    <2>1. want \in Presets
      BY <1>2 DEF ApplyJoined, Joined, Applying, SchedulerTyped
    <2> QED
      BY <1>2, <2>1, ApplyMoves DEF ApplyJoined, Joined, Frees
  <1>3. CASE ApplyStarted
    <2>1. PresetConfig[want] \in Configs
      BY <1>3, FirstBand DEF ApplyStarted
    <2>2. pc[Scheduler] \notin JoinStates /\ pc'[Scheduler] \notin JoinStates
      BY <1>3 DEF ApplyStarted, ApplyEnds, CallersTyped, JoinStates
    <2> QED
      BY <1>0, <1>3, <2>1, <2>2 DEF ApplyStarted, Frees, CallersTyped
  <1>4. CASE ApplyPreviewStopped \/ ApplyStartFails \/ SchedulerExits
    <2>1. UNCHANGED objects /\ UNCHANGED joins
      BY <1>4 DEF ApplyPreviewStopped, ApplyStartFails, SchedulerExits
    <2>2. pc[Scheduler] \notin JoinStates /\ pc'[Scheduler] \notin JoinStates
      BY <1>4 DEF ApplyPreviewStopped, ApplyStartFails, SchedulerExits, ApplyEnds, Moves,
         Applying, CallersTyped, JoinStates
    <2> QED
      BY <1>0, <2>1, <2>2 DEF Frees, CallersTyped
  <1> QED
    BY <1>1, <1>2, <1>3, <1>4 DEF SchedulerNext

-----------------------------------------------------------------------------
(***************************************************************************)
(* A rotation that runs is live, and one that was stopped is awaited.      *)
(***************************************************************************)
LEMMA CancelLive ==
    ASSUME ObjectsTyped, RunningIsLive, NEW r \in Rotations, Cancel(r)
    PROVE  /\ RunningIsLive'
           /\ \A q \in Rotations : /\ q # r => running'[q] = running[q]
                                   /\ q # r => loop'[q] = loop[q]
           /\ ~running'[r]
  BY DEF ObjectsTyped, RunningIsLive, Cancel, Ends

LEMMA CreateLive ==
    ASSUME ObjectsTyped, RunningIsLive, NEW c, NEW f, Create(c, f)
    PROVE  /\ RunningIsLive'
           /\ \E r \in Rotations :
                 /\ scan_rotation' = r
                 /\ \A d \in Callers \ {c} : joins[d] # r
                 /\ running'[r] /\ loop[r] = "off"
                 /\ \A q \in Rotations \ {r} : /\ running'[q] = running[q]
                                               /\ loop'[q] = loop[q]
  BY DEF ObjectsTyped, RunningIsLive, Create

LEMMA LoopLive ==
    ASSUME ObjectsTyped, RunningIsLive, NEW r \in Rotations, LoopNext(r)
    PROVE  /\ RunningIsLive'
           /\ loop[r] # "off"
           /\ \A q \in Rotations : /\ q # r => loop'[q] = loop[q]
                                   /\ running'[q] => running[q]
                                   /\ running[q] => running'[q] \/ loop'[q] = "off"
  <1>1. CASE LoopStarts(r)
    BY <1>1 DEF LoopStarts, SwitchSlot, ObjectsTyped, RunningIsLive
  <1>2. CASE \/ DecodersSwitched(r) \/ Retune(r) \/ Restart(r) \/ Retuned(r)
             \/ EngineStopped(r) \/ Restarted(r) \/ RestartFails(r)
    BY <1>2 DEF DecodersSwitched, Retune, Restart, Retuned, EngineStopped, Restarted,
       RestartFails, LoopMoves, OnBand, ObjectsTyped, RunningIsLive
  <1>3. CASE DwellEnds(r)
    BY <1>3 DEF DwellEnds, Ends, SwitchSlot, ObjectsTyped, RunningIsLive
  <1> QED
    BY <1>1, <1>2, <1>3 DEF LoopNext

LEMMA StopsLive ==
    ASSUME ObjectsTyped, CallersTyped, RunningIsLive, Awaited,
           NEW c \in Callers, Stops(c)
    PROVE  RunningIsLive' /\ Awaited'
  <1>1. scan_rotation \in Rotations
    BY DEF Stops, RotationOn, CallersTyped
  <1>2. /\ RunningIsLive' /\ ~running'[scan_rotation]
        /\ \A q \in Rotations : q # scan_rotation =>
              running'[q] = running[q] /\ loop'[q] = loop[q]
    BY <1>1, CancelLive DEF Stops
  <1>3. \A d \in Callers : joins'[d] = IF d = c THEN scan_rotation ELSE joins[d]
    BY DEF Stops, CallersTyped
  <1>4. ASSUME NEW q \in Rotations, loop'[q] # "off"
        PROVE  running'[q] \/ \E d \in Callers : joins'[d] = q
    <2>1. CASE q = scan_rotation
      BY <1>3, <2>1
    <2>2. CASE q # scan_rotation
      <3>1. running'[q] = running[q] /\ loop[q] # "off"
        BY <1>2, <1>4, <2>2
      <3>2. running[q] \/ \E d \in Callers \ {c} : joins[d] = q
        BY <3>1, ConfigFacts DEF Awaited, Stops
      <3> QED
        BY <1>3, <3>1, <3>2
    <2> QED
      BY <2>1, <2>2
  <1>5. ASSUME NEW d \in Callers, joins'[d] # Nothing PROVE ~running'[joins'[d]]
    <2>1. CASE joins'[d] = scan_rotation
      BY <1>2, <2>1
    <2>2. CASE joins'[d] # scan_rotation
      <3>1. joins'[d] = joins[d] /\ joins[d] \in Rotations
        BY <1>3, <1>5, <2>2 DEF CallersTyped
      <3> QED
        BY <1>2, <1>5, <2>2, <3>1 DEF Awaited
    <2> QED
      BY <2>1, <2>2
  <1> QED
    BY <1>2, <1>4, <1>5 DEF Awaited

LEMMA FreesLive ==
    ASSUME ObjectsTyped, CallersTyped, RunningIsLive, Awaited,
           NEW c \in Callers, Frees(c)
    PROVE  RunningIsLive' /\ Awaited'
  <1>1. \A d \in Callers : joins'[d] = IF d = c THEN Nothing ELSE joins[d]
    BY DEF Frees, CallersTyped
  <1>2. \A q \in Rotations : loop[q] # "off" =>
           running[q] \/ \E d \in Callers : joins'[d] = q
    <2> SUFFICES ASSUME NEW q \in Rotations, loop[q] # "off", ~running[q]
                 PROVE  \E d \in Callers : joins'[d] = q
      OBVIOUS
    <2>1. PICK d \in Callers : joins[d] = q
      BY DEF Awaited
    <2>2. d # c
      BY <2>1, ConfigFacts DEF Frees
    <2> QED
      BY <1>1, <2>1, <2>2
  <1>3. CASE UNCHANGED objects
    <2>1. UNCHANGED <<running, loop>>
      BY <1>3 DEF objects
    <2> QED
      BY <1>1, <1>2, <2>1 DEF RunningIsLive, Awaited
  <1>4. CASE \E f \in Configs : Create(c, f)
    <2>1. PICK r \in Rotations :
             /\ \A d \in Callers \ {c} : joins[d] # r
             /\ running'[r] /\ loop[r] = "off"
             /\ \A q \in Rotations \ {r} : running'[q] = running[q] /\ loop'[q] = loop[q]
      BY <1>4, CreateLive
    <2>2. RunningIsLive'
      BY <1>4, CreateLive
    <2>3. \A q \in Rotations : loop'[q] # "off" =>
             running'[q] \/ \E d \in Callers : joins'[d] = q
      BY <1>2, <2>1
    <2>4. ASSUME NEW d \in Callers, joins'[d] # Nothing PROVE ~running'[joins'[d]]
      <3>1. joins'[d] = joins[d] /\ joins[d] \in Rotations \ {r}
        BY <1>1, <2>1, <2>4 DEF CallersTyped
      <3> QED
        BY <2>1, <2>4, <3>1 DEF Awaited
    <2> QED
      BY <2>2, <2>3, <2>4 DEF Awaited
  <1> QED
    BY <1>3, <1>4 DEF Frees

LEMMA StopsTickLive ==
    ASSUME ObjectsTyped, CallersTyped, RunningIsLive, Awaited,
           NEW c \in Callers, StopsTick(c)
    PROVE  RunningIsLive' /\ Awaited'
  <1>1. CASE UNCHANGED objects
    <2>1. UNCHANGED <<running, loop, joins>>
      BY <1>1 DEF objects, StopsTick
    <2> QED
      BY <2>1 DEF RunningIsLive, Awaited
  <1>2. CASE joins[Scheduler] # Nothing /\ Cancel(joins[Scheduler])
    <2> DEFINE r == joins[Scheduler]
    <2>1. r \in Rotations /\ UNCHANGED joins /\ Scheduler \in Callers
      BY <1>2, CallerFacts DEF CallersTyped, StopsTick
    <2> HIDE DEF r
    <2>2. /\ RunningIsLive' /\ ~running'[r]
          /\ \A q \in Rotations : q # r => running'[q] = running[q] /\ loop'[q] = loop[q]
      BY <1>2, <2>1, CancelLive DEF r
    <2>3. \A q \in Rotations : loop'[q] # "off" =>
             running'[q] \/ \E d \in Callers : joins'[d] = q
      BY <2>1, <2>2 DEF Awaited, r
    <2>4. ASSUME NEW d \in Callers, joins'[d] # Nothing PROVE ~running'[joins'[d]]
      BY <2>1, <2>2, <2>4 DEF Awaited, CallersTyped
    <2> QED
      BY <2>2, <2>3, <2>4 DEF Awaited
  <1> QED
    BY <1>1, <1>2 DEF StopsTick

LEMMA LoopAwaited ==
    ASSUME ObjectsTyped, CallersTyped, RunningIsLive, Awaited,
           NEW r \in Rotations, LoopNext(r)
    PROVE  RunningIsLive' /\ Awaited'
  <1>1. UNCHANGED joins
    BY DEF LoopNext
  <1>2. /\ RunningIsLive' /\ loop[r] # "off"
        /\ \A q \in Rotations : /\ q # r => loop'[q] = loop[q]
                                /\ running'[q] => running[q]
                                /\ running[q] => running'[q] \/ loop'[q] = "off"
    BY LoopLive
  <1>3. \A q \in Rotations : loop'[q] # "off" =>
           running'[q] \/ \E d \in Callers : joins'[d] = q
    BY <1>1, <1>2 DEF Awaited
  <1>4. ASSUME NEW d \in Callers, joins'[d] # Nothing PROVE ~running'[joins'[d]]
    BY <1>1, <1>2, <1>4 DEF Awaited, CallersTyped
  <1> QED
    BY <1>2, <1>3, <1>4 DEF Awaited

\* pc of one caller changes: its joins entry says what it is waiting for
LEMMA MatchKept ==
    ASSUME JoinsMatch, NEW c \in Callers,
           \A d \in Callers \ {c} : pc'[d] = pc[d] /\ joins'[d] = joins[d],
           joins'[c] # Nothing <=> pc'[c] \in JoinStates
    PROVE  JoinsMatch'
  BY DEF JoinsMatch

LEMMA MovesMatch ==
    ASSUME CallersTyped, NEW c \in Callers, Stops(c) \/ Frees(c)
    PROVE  joins'[c] # Nothing <=> pc'[c] \in JoinStates
  <1>1. CASE Stops(c)
    BY <1>1 DEF Stops, RotationOn, CallersTyped
  <1>2. CASE Frees(c)
    BY <1>2 DEF Frees, CallersTyped
  <1> QED
    BY <1>1, <1>2

LEMMA LiveInit == Init => RunningIsLive /\ Joining
  BY DEF Init, RunningIsLive, Joining, JoinsMatch, Awaited, JoinStates

LEMMA LiveNext ==
    ASSUME TypeOK, Applying, RunningIsLive, Joining, [Next]_vars
    PROVE  RunningIsLive' /\ Joining'
  <1>0. /\ ObjectsTyped /\ ServiceTyped /\ CallersTyped /\ SchedulerTyped
        /\ JoinsMatch /\ Awaited /\ Scheduler \in Callers
        /\ \A c \in Handlers : c \in Callers /\ c # Scheduler
    BY TypeGroups, CallerFacts DEF Joining
  <1>1. ASSUME NEW c \in Handlers,
               Requests(c) \/ HandlerGoesOn(c) \/ SchedulerStart(c)
        PROVE  RunningIsLive' /\ Joining'
    <2>1. Stops(c) \/ Frees(c)
      BY <1>0, <1>1, HandlerMoves
    <2>2. RunningIsLive' /\ Awaited'
      BY <1>0, <2>1, StopsLive, FreesLive
    <2>3. JoinsMatch'
      BY <1>0, <1>1, <2>1, HandlerAlone, MovesMatch, MatchKept
    <2> QED
      BY <2>2, <2>3 DEF Joining
  <1>2. ASSUME NEW c \in Handlers, SchedulerStop(c)
        PROVE  RunningIsLive' /\ Joining'
    <2>1. StopsTick(c) /\ \A d \in Callers \ {c, Scheduler} : pc'[d] = pc[d]
      BY <1>0, <1>2, SchedulerStopMoves
    <2>2. RunningIsLive' /\ Awaited'
      BY <1>0, <2>1, StopsTickLive
    <2>3. JoinsMatch'
      BY <1>0, <2>1 DEF StopsTick, JoinsMatch, JoinStates
    <2> QED
      BY <2>2, <2>3 DEF Joining
  <1>3. ASSUME NEW r \in Rotations, LoopNext(r)
        PROVE  RunningIsLive' /\ Joining'
    <2>1. RunningIsLive' /\ Awaited'
      BY <1>0, <1>3, LoopAwaited
    <2>2. UNCHANGED <<pc, joins>>
      BY <1>3 DEF LoopNext
    <2> QED
      BY <1>0, <2>1, <2>2 DEF Joining, JoinsMatch
  <1>4. CASE SchedulerNext
    <2>1. Stops(Scheduler) \/ Frees(Scheduler)
      BY <1>0, <1>4, SchedulerMoves
    <2>2. RunningIsLive' /\ Awaited'
      BY <1>0, <2>1, StopsLive, FreesLive
    <2>3. \A d \in Callers \ {Scheduler} : pc'[d] = pc[d] /\ joins'[d] = joins[d]
      BY <1>0, <1>4, SchedulerAlone DEF Callers
    <2>4. JoinsMatch'
      BY <1>0, <2>1, <2>3, MovesMatch, MatchKept
    <2> QED
      BY <2>2, <2>4 DEF Joining
  <1>5. CASE ClockMoves \/ UNCHANGED vars
    <2>1. UNCHANGED <<running, loop, pc, joins>>
      BY <1>5 DEF ClockMoves, vars, objects
    <2> QED
      BY <1>0, <2>1 DEF Joining, JoinsMatch, Awaited, RunningIsLive
  <1>6. \/ ClockMoves \/ UNCHANGED vars \/ SchedulerNext
        \/ \E r \in Rotations : LoopNext(r)
        \/ \E c \in Handlers : \/ Requests(c) \/ HandlerGoesOn(c)
                               \/ SchedulerStart(c) \/ SchedulerStop(c)
    BY Zenon DEF Next, HandlerNext
  <1> QED
    BY <1>1, <1>2, <1>3, <1>4, <1>5, <1>6, Zenon

\* What rotation_status and is_rotation_running report is true, whatever
\* requests and ticks interleave.
THEOREM RotationRunningIsLive == Spec => []RunningIsLive
  <1> DEFINE Inv == TypeOK /\ Applying /\ RunningIsLive /\ Joining
  <1>1. Init => Inv
    BY TypeInit, LiveInit
  <1>2. Inv /\ [Next]_vars => Inv'
    BY TypeNext, LiveNext
  <1>3. Inv => RunningIsLive
    OBVIOUS
  <1> QED
    BY <1>1, <1>2, <1>3, PTL DEF Spec

-----------------------------------------------------------------------------
(***************************************************************************)
(* Requests and ticks one by one.                                          *)
(***************************************************************************)
\* what a step of caller c does to the rotations
Stopping == RotationOn /\ Cancel(scan_rotation) /\ UNCHANGED <<scan_rotation, state>>
NoneToRun == NoneRuns /\ UNCHANGED running
Creating(c) ==
    /\ NoneRuns /\ \E f \in Configs : Create(c, f)
    /\ state' = "running" /\ pc'[c] = "idle"
Passing(c) ==
    /\ UNCHANGED <<running, scan_rotation>>
    /\ state' \in {state, "running"}
    /\ pc'[c] \in MayRun
Manages(c) == Stopping \/ NoneToRun \/ Creating(c) \/ Passing(c)

LEMMA NotOn == ASSUME OneRuns, ~RotationOn PROVE NoneRuns
  BY ConfigFacts DEF OneRuns, RotationOn, NoneRuns

LEMMA HandlerManages ==
    ASSUME CallersTyped, OneRuns, Halted, NEW c \in Handlers,
           Requests(c) \/ HandlerGoesOn(c) \/ SchedulerStart(c)
    PROVE  Manages(c)
  <1> c \in Callers
    BY CallerFacts
  <1>1. CASE \/ ScanStart(c) \/ ScanStop(c) \/ ScanStarted(c) \/ ScanStartFails(c)
             \/ SchedulerStart(c) \/ SchedulerStopped(c)
    BY <1>1 DEF ScanStart, ScanStop, ScanStarted, ScanStartFails, SchedulerStart,
       SchedulerStopped, Begins, Moves, CallersTyped, Manages, Passing, MayRun, service,
       objects
  <1>2. CASE \/ PreviewOpened(c) \/ PreviewFails(c) \/ RotationScanFails(c)
             \/ RotationStopJoined(c) \/ RotationStopEngine(c) \/ RotationStopped(c)
             \/ ScanStopJoined(c)
    <2>1. pc[c] \notin MayRun
      BY <1>2 DEF PreviewOpened, PreviewFails, RotationScanFails, RotationStopJoined,
         RotationStopEngine, RotationStopped, ScanStopJoined, Joined, Moves, MayRun
    <2>2. UNCHANGED running
      BY <1>2 DEF PreviewOpened, PreviewFails, RotationScanFails, RotationStopJoined,
         RotationStopEngine, RotationStopped, ScanStopJoined, objects
    <2> QED
      BY <2>1, <2>2 DEF Halted, Manages, NoneToRun
  <1>3. CASE RotationStop(c)
    BY <1>3 DEF RotationStop, StopRotation, Manages, Stopping, service
  <1>4. CASE ScanStopRotation(c)
    BY <1>4, NotOn DEF ScanStopRotation, StopRotation, Manages, Stopping, NoneToRun,
       service, objects
  <1>5. ASSUME NEW left, NoneRuns, Configure(c, left), UNCHANGED <<state, scan>>
        PROVE  Manages(c)
    <2>1. CASE UNCHANGED objects
      BY <1>5, <2>1 DEF Manages, NoneToRun, objects
    <2>2. CASE /\ state = "running" /\ \E f \in Configs : Create(c, f)
               /\ pc' = [pc EXCEPT ![c] = "idle"]
      BY <1>5, <2>2 DEF Manages, Creating, CallersTyped
    <2> QED
      BY <1>5, <2>1, <2>2 DEF Configure
  <1>6. CASE RotationStart(c)
    BY <1>5, <1>6, NotOn DEF RotationStart, StopRotation, Manages, Stopping
  <1>7. CASE RotationStartJoined(c)
    <2>1. NoneRuns
      BY <1>7 DEF RotationStartJoined, Joined, Halted, MayRun
    <2> QED
      BY <1>5, <1>7, <2>1 DEF RotationStartJoined
  <1>8. CASE RotationScanStarted(c)
    <2>1. NoneRuns
      BY <1>8 DEF RotationScanStarted, Moves, Halted, MayRun
    <2>2. (\E f \in Configs : Create(c, f)) /\ state' = "running" /\ pc'[c] = "idle"
      BY <1>8 DEF RotationScanStarted, Moves, CallersTyped
    <2> QED
      BY <2>1, <2>2 DEF Manages, Creating
  <1> QED
    BY <1>1, <1>2, <1>3, <1>4, <1>6, <1>7, <1>8, Zenon DEF Requests, HandlerGoesOn, Continues

LEMMA ApplyManages ==
    ASSUME CallersTyped, NEW p \in Presets, NEW left, NoneRuns, Apply(p, left),
           UNCHANGED <<state, scan>>
    PROVE  Manages(Scheduler)
  <1>1. CASE UNCHANGED objects
    BY <1>1 DEF Manages, NoneToRun, objects
  <1>2. CASE /\ PresetConfig[p] # Nothing /\ state = "running"
             /\ Create(Scheduler, PresetConfig[p])
             /\ pc' = [pc EXCEPT ![Scheduler] = "idle"]
    BY <1>2, ConfigFacts, CallerFacts DEF Manages, Creating, CallersTyped
  <1> QED
    BY <1>1, <1>2 DEF Apply

LEMMA SchedulerManages ==
    ASSUME CallersTyped, SchedulerTyped, Applying, OneRuns, Halted, SchedulerNext
    PROVE  Manages(Scheduler)
  <1> Scheduler \in Callers
    BY CallerFacts
  <1>1. CASE Tick
    <2>1. target \in Presets
      BY <1>1 DEF Tick, SchedulerTyped
    <2> QED
      BY <1>1, <2>1, NotOn, ApplyManages DEF Tick, StopRotation, Manages, Stopping
  <1>2. CASE ApplyJoined
    <2>1. want \in Presets /\ NoneRuns
      BY <1>2 DEF ApplyJoined, Joined, Applying, SchedulerTyped, Halted, MayRun
    <2> QED
      BY <1>2, <2>1, ApplyManages DEF ApplyJoined
  <1>3. CASE ApplyStarted
    <2>1. NoneRuns /\ PresetConfig[want] \in Configs
      BY <1>3, FirstBand DEF ApplyStarted, Halted, MayRun
    <2>2. /\ Create(Scheduler, PresetConfig[want])
          /\ state' = "running" /\ pc'[Scheduler] = "idle"
      BY <1>3 DEF ApplyStarted, ApplyEnds, CallersTyped
    <2> QED
      BY <2>1, <2>2 DEF Manages, Creating
  <1>4. CASE ApplyPreviewStopped \/ ApplyStartFails
    <2>1. NoneRuns
      BY <1>4 DEF ApplyPreviewStopped, ApplyStartFails, Moves, Halted, MayRun
    <2> QED
      BY <1>4, <2>1 DEF ApplyPreviewStopped, ApplyStartFails, Manages, NoneToRun, objects
  <1>5. CASE SchedulerExits
    BY <1>5 DEF SchedulerExits, Applying, Manages, Passing, MayRun, service, objects
  <1> QED
    BY <1>1, <1>2, <1>3, <1>4, <1>5 DEF SchedulerNext

LEMMA ManagesPolite ==
    ASSUME ObjectsTyped, CallersTyped, RunningIsLive, OneRuns, Halted,
           NEW c \in Callers, Manages(c),
           \A d \in Callers \ {c} : pc'[d] = "idle"
    PROVE  Alone' /\ Halted' /\ OneRuns'
  <1>1. Alone'
    BY DEF Alone
  <1>2. CASE Stopping
    <2>1. scan_rotation \in Rotations
      BY <1>2 DEF Stopping, RotationOn, CallersTyped
    <2>2. NoneRuns'
      BY <1>2, <2>1, CancelLive DEF Stopping, NoneRuns, OneRuns
    <2> QED
      BY <1>1, <2>2 DEF Halted, OneRuns, NoneRuns
  <1>3. CASE NoneToRun
    BY <1>1, <1>3 DEF NoneToRun, NoneRuns, Halted, OneRuns
  <1>4. CASE Creating(c)
    <2>1. OneRuns'
      BY <1>4, CreateLive DEF Creating, NoneRuns, OneRuns
    <2> QED
      BY <1>1, <1>4, <2>1 DEF Creating, Halted, MayRun
  <1>5. CASE Passing(c)
    BY <1>1, <1>5 DEF Passing, Halted, OneRuns, NoneRuns, MayRun
  <1> QED
    BY <1>2, <1>3, <1>4, <1>5 DEF Manages

LEMMA HandlerHalts ==
    ASSUME CallersTyped, NEW c \in Handlers,
           Requests(c) \/ HandlerGoesOn(c) \/ SchedulerStart(c), pc'[c] = "haltEngine"
    PROVE  engine' = "off"
  <1> c \in Callers
    BY CallerFacts
  <1>1. ~Requests(c) /\ ~SchedulerStart(c) /\ ~SchedulerStopped(c)
    BY DEF Requests, ScanStart, ScanStop, RotationStart, RotationStop, StopRotation,
       Configure, Moves, Begins, SchedulerStart, SchedulerStopped, CallersTyped
  <1>2. CASE \/ ScanStarted(c) \/ ScanStartFails(c) \/ PreviewOpened(c) \/ PreviewFails(c)
             \/ RotationScanStarted(c) \/ RotationScanFails(c) \/ RotationStopEngine(c)
    BY <1>2 DEF ScanStarted, ScanStartFails, PreviewOpened, PreviewFails,
       RotationScanStarted, RotationScanFails, RotationStopEngine, Moves, CallersTyped
  <1>3. CASE \/ ScanStopRotation(c) \/ ScanStopJoined(c) \/ RotationStartJoined(c)
             \/ RotationStopJoined(c) \/ RotationStopped(c)
    BY <1>3 DEF ScanStopRotation, ScanStopJoined, RotationStartJoined, RotationStopJoined,
       RotationStopped, StopRotation, Joined, Stopped, Configure, CallersTyped
  <1> QED
    BY <1>1, <1>2, <1>3, Zenon DEF HandlerGoesOn, Continues

\* a continuation finds its caller at work
LEMMA GoesOnBusy ==
    ASSUME NEW c \in Handlers, HandlerGoesOn(c) PROVE pc[c] # "idle"
  BY DEF HandlerGoesOn, Continues, ScanStarted, ScanStartFails, ScanStopRotation,
     ScanStopJoined, PreviewOpened, PreviewFails, RotationStartJoined,
     RotationScanStarted, RotationScanFails, RotationStopJoined, RotationStopEngine,
     RotationStopped, SchedulerStopped, Moves, Joined

LEMMA OthersIdle ==
    ASSUME ~overlap, Alone, NEW c \in Callers, Begins(c) \/ pc[c] # "idle"
    PROVE  \A d \in Callers \ {c} : pc[d] = "idle"
  BY DEF Begins, Alone

LEMMA PoliteInit == Init => Polite
  BY DEF Init, Polite, Alone, Halted, OneRuns, HaltHolds, NoneRuns, MayRun

LEMMA OverlapKept == [Next]_vars => UNCHANGED overlap
  BY Zenon DEF Next, HandlerNext, HandlerGoesOn, LoopNext, SchedulerNext, Tick, ApplyJoined,
     ApplyPreviewStopped, ApplyStarted, ApplyStartFails, SchedulerExits, ClockMoves, vars

LEMMA PoliteNext ==
    ASSUME TypeOK, Applying, RunningIsLive, Joining, ~overlap, Polite, [Next]_vars
    PROVE  Polite'
  <1>0. /\ ObjectsTyped /\ ServiceTyped /\ CallersTyped /\ SchedulerTyped
        /\ JoinsMatch /\ Awaited /\ Scheduler \in Callers
        /\ Alone /\ Halted /\ OneRuns /\ HaltHolds
        /\ \A c \in Handlers : c \in Callers /\ c # Scheduler
    BY TypeGroups, CallerFacts DEF Joining, Polite
  <1>1. ASSUME NEW c \in Handlers,
               Requests(c) \/ HandlerGoesOn(c) \/ SchedulerStart(c)
        PROVE  Polite'
    <2>1. Begins(c) \/ pc[c] # "idle"
      BY <1>1, GoesOnBusy DEF Requests, ScanStart, ScanStop, RotationStart, RotationStop,
         SchedulerStart
    <2>2. \A d \in Callers \ {c} : pc'[d] = "idle"
      BY <1>0, <1>1, <2>1, OthersIdle, HandlerAlone
    <2>3. Manages(c)
      BY <1>0, <1>1, HandlerManages
    <2>4. Alone' /\ Halted' /\ OneRuns'
      BY <1>0, <2>2, <2>3, ManagesPolite
    <2>5. HaltHolds'
      BY <1>0, <1>1, <2>2, HandlerHalts DEF HaltHolds
    <2> QED
      BY <2>4, <2>5 DEF Polite
  <1>2. ASSUME NEW c \in Handlers, SchedulerStop(c) PROVE Polite'
    <2>1. \A d \in Callers : pc[d] = "idle"
      BY <1>0, <1>2 DEF SchedulerStop, Begins
    <2>2. \A d \in Callers : pc'[d] = IF d = c THEN "schedJoin" ELSE "idle"
      BY <1>0, <1>2, <2>1 DEF SchedulerStop, CallersTyped
    <2>3. UNCHANGED objects /\ UNCHANGED <<service, scan_rotation>>
      BY <1>0, <1>2, <2>1 DEF SchedulerStop
    <2>4. Manages(c)
      BY <1>0, <2>2, <2>3 DEF Manages, Passing, MayRun, objects, service
    <2>5. Alone' /\ Halted' /\ OneRuns'
      BY <1>0, <2>2, <2>4, ManagesPolite
    <2>6. HaltHolds'
      BY <1>0, <2>2 DEF HaltHolds
    <2> QED
      BY <2>5, <2>6 DEF Polite
  <1>3. ASSUME NEW r \in Rotations, LoopNext(r) PROVE Polite'
    <2>1. /\ \A q \in Rotations : running'[q] => running[q]
          /\ loop[r] # "off"
      BY <1>0, <1>3, LoopLive
    <2>2. UNCHANGED <<pc, joins, scan_rotation>>
      BY <1>3 DEF LoopNext
    <2>3. state' \in {state, "running"}
      BY <1>3 DEF LoopNext, LoopStarts, DecodersSwitched, Retune, Restart, Retuned,
         EngineStopped, Restarted, RestartFails, DwellEnds, OnBand, service
    <2>4. Alone' /\ Halted' /\ OneRuns'
      BY <1>0, <2>1, <2>2, <2>3 DEF Alone, Halted, OneRuns, NoneRuns
    <2>5. ASSUME NEW c \in Handlers, pc[c] = "haltEngine" PROVE FALSE
      <3>1. \A d \in Callers : pc[d] \notin JoinStates
        BY <1>0, <2>5 DEF Alone, JoinStates
      <3>2. \A d \in Callers : joins[d] # r
        BY <1>0, <3>1, ConfigFacts DEF JoinsMatch
      <3>3. NoneRuns
        BY <1>0, <2>5 DEF Halted, MayRun
      <3> QED
        BY <1>0, <2>1, <3>2, <3>3 DEF Awaited, NoneRuns
    <2>6. HaltHolds'
      BY <2>2, <2>5 DEF HaltHolds
    <2> QED
      BY <2>4, <2>6 DEF Polite
  <1>4. CASE SchedulerExits
    <2>1. UNCHANGED <<pc, running, scan_rotation, engine, state>>
      BY <1>4 DEF SchedulerExits, service, objects
    <2> QED
      BY <1>0, <2>1 DEF Polite, Alone, Halted, OneRuns, NoneRuns, HaltHolds
  <1>5. CASE SchedulerNext /\ ~SchedulerExits
    <2>1. Begins(Scheduler) \/ pc[Scheduler] # "idle"
      BY <1>5 DEF SchedulerNext, Tick, ApplyJoined, ApplyPreviewStopped, ApplyStarted,
         ApplyStartFails, Joined, Moves
    <2>2. \A d \in Callers \ {Scheduler} : pc'[d] = "idle"
      BY <1>0, <1>5, <2>1, OthersIdle, SchedulerAlone DEF Callers
    <2>3. Manages(Scheduler)
      BY <1>0, <1>5, SchedulerManages
    <2>4. Alone' /\ Halted' /\ OneRuns'
      BY <1>0, <2>2, <2>3, ManagesPolite
    <2>5. HaltHolds'
      BY <1>0, <2>2 DEF HaltHolds
    <2> QED
      BY <2>4, <2>5 DEF Polite
  <1>6. CASE ClockMoves \/ UNCHANGED vars
    <2>1. UNCHANGED <<pc, running, scan_rotation, engine, state>>
      BY <1>6 DEF ClockMoves, vars, service, objects
    <2> QED
      BY <1>0, <2>1 DEF Polite, Alone, Halted, OneRuns, NoneRuns, HaltHolds
  <1>7. \/ ClockMoves \/ UNCHANGED vars \/ SchedulerNext
        \/ \E r \in Rotations : LoopNext(r)
        \/ \E c \in Handlers : \/ Requests(c) \/ HandlerGoesOn(c)
                               \/ SchedulerStart(c) \/ SchedulerStop(c)
    BY Zenon DEF Next, HandlerNext
  <1> QED
    BY <1>1, <1>2, <1>3, <1>4, <1>5, <1>6, <1>7, Zenon

LEMMA Inductive == Spec => []IInv
  <1>1. Init => IInv
    BY TypeInit, LiveInit, PoliteInit DEF IInv
  <1>2. IInv /\ [Next]_vars => IInv'
    <2> SUFFICES ASSUME IInv, [Next]_vars PROVE IInv'
      OBVIOUS
    <2>1. TypeOK' /\ Applying'
      BY TypeNext DEF IInv
    <2>2. RunningIsLive' /\ Joining'
      BY LiveNext DEF IInv
    <2>3. (~overlap)' => Polite'
      BY PoliteNext, OverlapKept DEF IInv
    <2> QED
      BY <2>1, <2>2, <2>3 DEF IInv
  <1> QED
    BY <1>1, <1>2, PTL DEF Spec

\* As long as requests and ticks come one by one, the rotation a stop can
\* reach is the only one that runs, whoever started it.
THEOREM RotationIsOne == Spec => []OneRotation
  <1>1. IInv => OneRotation
    BY DEF IInv, Polite, OneRuns, OneRotation
  <1> QED
    BY <1>1, Inductive, PTL

\* Every rotation is what it reports, whatever interleaves, and the one a stop
\* ends as long as requests and ticks come one by one.
THEOREM RotationsAreKnown == Spec => []RotationsKnown
  <1>1. RunningIsLive /\ OneRotation => RotationsKnown
    BY DEF RotationsKnown
  <1> QED
    BY <1>1, RotationRunningIsLive, RotationIsOne, PTL

\* As long as requests and ticks come one by one, no rotation is alive once
\* the scan is over and nobody is at work.
THEOREM StoppedMeansStopped == Spec => []NoRotationWhenStopped
  <1>1. ASSUME IInv PROVE NoRotationWhenStopped
    <2> SUFFICES ASSUME ~overlap, Quiet, state # "running", NEW r \in Rotations
                 PROVE  loop[r] = "off"
      BY DEF NoRotationWhenStopped
    <2>1. ~running[r]
      BY <1>1 DEF IInv, Polite, Halted, NoneRuns
    <2>2. \A c \in Callers : joins[c] # r
      BY <1>1, ConfigFacts DEF IInv, Joining, JoinsMatch, JoinStates, Quiet
    <2> QED
      BY <1>1, <2>1, <2>2 DEF IInv, Joining, Awaited
  <1> QED
    BY <1>1, Inductive, PTL

\* As long as requests and ticks come one by one, the engine stays off from
\* the stop_async of rotation_stop to its end.
THEOREM RotationStopFinal == Spec => []RotationStopHolds
  <1>1. IInv => RotationStopHolds
    BY DEF IInv, Polite, HaltHolds, RotationStopHolds
  <1> QED
    BY <1>1, Inductive, PTL
================================================================================
