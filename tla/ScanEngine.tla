----------------------------- MODULE ScanEngine -----------------------------
(***************************************************************************)
(* backend/app/scan/engine.py: one ScanEngine object owns the one SDR      *)
(* dongle.  HTTP handlers, the rotation task and the preset scheduler are  *)
(* asyncio tasks (Callers) that run start_async, stop_async,               *)
(* retune_band_async and preview_open on it, and the engine starts two     *)
(* tasks of its own, the IQ pump (Pumps) and the scan loop (Loops).  There *)
(* is no lock: a coroutine keeps the engine to itself only until its next  *)
(* await, so an action below is what runs between two awaits.              *)
(*                                                                         *)
(* controller.open runs on an executor thread that nobody can cancel.      *)
(* handle[h] says where the outcome of one such call is:                   *)
(*   free           no call                                                *)
(*   opening        the thread runs, a coroutine awaits it                 *)
(*   opened         the thread has claimed the dongle, the coroutine has   *)
(*                  not resumed yet                                        *)
(*   refused        the thread raised, the coroutine has not resumed yet   *)
(*   engine         the handle is self.device                              *)
(*   lateOpening    the await timed out, the thread runs, the done         *)
(*                  callback is armed                                      *)
(*   lateOpened     the same, and the thread has claimed the dongle        *)
(*   orphanOpening  the await was cancelled, the thread runs, no callback  *)
(*   leaked         claimed and referenced by nobody                       *)
(***************************************************************************)
EXTENDS Naturals, FiniteSets

CONSTANTS
    Callers,    \* tasks that call the engine
    Pumps,      \* identities of _iq_pump_loop tasks, reused once finished
    Loops,      \* identities of _scan_loop tasks, reused once finished
    Handles,    \* identities of controller.open calls, reused once free
    NoHandle,   \* None, for a handle
    NoTask,     \* None, for a task
    Faults      \* which of AllFaults may happen

\* stall: no IQ for _iq_starvation_recover_s; tune: controller.tune raises;
\* write: writing the recording raises; record: opening record_path raises;
\* cancel: a caller is cancelled while it awaits controller.open
AllFaults == {"stall", "tune", "write", "record", "cancel"}

ASSUME EngineAssumption ==
    /\ Callers \cap Pumps = {}
    /\ NoHandle \notin Handles
    /\ NoTask \notin Callers \cup Pumps \cup Loops
    /\ Faults \subseteq AllFaults

VARIABLES
    running, preview,       \* self.running, self.preview
    device,                 \* self.device (self.stream goes with it)
    spectrum_queue,         \* self._spectrum_queue is not None
    record_fp,              \* self._record_fp is not None
    pump_task, scan_task,   \* self._pump_task, self._task
    pump, loop,             \* where each task is
    pc,                     \* where each caller is
    handle,                 \* where the outcome of each open call is
    opening                 \* the open call a coroutine awaits

flags == <<running, preview, spectrum_queue, record_fp>>
tasks == <<pump_task, scan_task, pump, loop>>
vars  == <<flags, tasks, device, pc, handle, opening>>

HandleState == {"free", "opening", "opened", "refused", "engine",
                "lateOpening", "lateOpened", "orphanOpening", "leaked"}
PumpState   == {"off", "reading", "settling", "reopening", "failed"}
LoopState   == {"off", "live", "failed"}
CallerState == {"idle", "startOpen", "previewOpen",
                "stopPump", "stopLoop", "retuneLoop"}

TypeOK ==
    /\ running \in BOOLEAN /\ preview \in BOOLEAN
    /\ spectrum_queue \in BOOLEAN /\ record_fp \in BOOLEAN
    /\ device \in Handles \cup {NoHandle}
    /\ pump_task \in Pumps \cup {NoTask}
    /\ scan_task \in Loops \cup {NoTask}
    /\ pump \in [Pumps -> PumpState]
    /\ loop \in [Loops -> LoopState]
    /\ pc \in [Callers -> CallerState]
    /\ handle \in [Handles -> HandleState]
    /\ opening \in [Callers \cup Pumps -> Handles \cup {NoHandle}]

Init ==
    /\ running = FALSE /\ preview = FALSE
    /\ device = NoHandle
    /\ spectrum_queue = FALSE /\ record_fp = FALSE
    /\ pump_task = NoTask /\ scan_task = NoTask
    /\ pump = [p \in Pumps |-> "off"]
    /\ loop = [l \in Loops |-> "off"]
    /\ pc = [c \in Callers |-> "idle"]
    /\ handle = [h \in Handles |-> "free"]
    /\ opening = [o \in Callers \cup Pumps |-> NoHandle]

-----------------------------------------------------------------------------
(***************************************************************************)
(* The open call and its thread.                                           *)
(***************************************************************************)
Holding == {"opened", "engine", "lateOpened", "leaked"}
Claimed(h) == handle[h] \in Holding

\* _release_device: self.device is closed, whoever opened it
Released(f) == [h \in Handles |-> IF h = device THEN "free" ELSE f[h]]

\* self.device = <result>: a handle it replaces is referenced by nobody
Installed(n) ==
    [h \in Handles |-> IF h = n THEN "engine"
                       ELSE IF h = device THEN "leaked" ELSE handle[h]]

\* mutants: no done callback is armed; a refused call is never accounted for
MutNoGuard(h) ==
    [handle EXCEPT ![h] = CASE @ = "opening" -> "orphanOpening"
                            [] @ = "opened"  -> "leaked"
                            [] OTHER         -> "free"]
MutUnaccounted(h) ==
    [handle EXCEPT ![h] = CASE @ = "opening" -> "lateOpening"
                            [] @ = "opened"  -> "lateOpened"
                            [] OTHER         -> "closed"]

\* what the except branch of a timed-out await leaves behind
GivenUp(h) ==
    [handle EXCEPT ![h] = CASE @ = "opening" -> "lateOpening"
                            [] @ = "opened"  -> "lateOpened"
                            [] OTHER         -> "free"]

\* a cancelled await raises CancelledError: no callback is armed
Orphaned(h) ==
    [handle EXCEPT ![h] = CASE @ = "opening" -> "orphanOpening"
                            [] @ = "opened"  -> "leaked"
                            [] OTHER         -> "free"]

Awaits(o, s) == opening[o] # NoHandle /\ handle[opening[o]] = s
Delivered(o) == Awaits(o, "opened") \/ Awaits(o, "refused")

\* the dongle is exclusive: SoapySDR.Device raises while it is claimed
ThreadOpens(h) ==
    /\ handle[h] \in {"opening", "lateOpening", "orphanOpening"}
    /\ \A g \in Handles : ~Claimed(g)
    /\ handle' = [handle EXCEPT ![h] = CASE @ = "opening"     -> "opened"
                                         [] @ = "lateOpening" -> "lateOpened"
                                         [] OTHER             -> "leaked"]
    /\ UNCHANGED <<flags, tasks, device, pc, opening>>

ThreadRaises(h) ==
    /\ handle[h] \in {"opening", "lateOpening", "orphanOpening"}
    /\ handle' = [handle EXCEPT ![h] = IF @ = "opening" THEN "refused" ELSE "free"]
    /\ UNCHANGED <<flags, tasks, device, pc, opening>>

\* mutant: the callback closes the handle only while a preview is on
MutLateClose(h) ==
    /\ handle[h] = "lateOpened" /\ preview
    /\ handle' = [handle EXCEPT ![h] = "free"]
    /\ UNCHANGED <<flags, tasks, device, pc, opening>>

\* _cleanup_late_open
LateClose(h) ==
    /\ handle[h] = "lateOpened"
    /\ handle' = [handle EXCEPT ![h] = "free"]
    /\ UNCHANGED <<flags, tasks, device, pc, opening>>

-----------------------------------------------------------------------------
(***************************************************************************)
(* preview_close: synchronous, called by scan_start and by preview_open.   *)
(* Cancelling the pump while it awaits the open of a recovery orphans it.  *)
(***************************************************************************)
Closes == preview /\ ~running

HandleAfterClose ==
    IF ~Closes THEN handle
    ELSE IF pump_task # NoTask /\ opening[pump_task] # NoHandle
         THEN Released(Orphaned(opening[pump_task]))
         ELSE Released(handle)

\* mutant: the pump is forgotten, not cancelled
MutPumpAfterClose == pump

PumpAfterClose ==
    [p \in Pumps |-> IF Closes /\ p = pump_task /\ pump[p] # "failed"
                     THEN "off" ELSE pump[p]]

PreviewClose ==
    /\ pump' = PumpAfterClose
    /\ pump_task' = IF Closes THEN NoTask ELSE pump_task
    /\ spectrum_queue' = (spectrum_queue /\ ~Closes)
    /\ preview' = (preview /\ ~Closes)
    /\ device' = IF Closes THEN NoHandle ELSE device

\* preview_close, then the caller awaits a new controller.open
CloseThenOpen(c, where) ==
    /\ pc[c] = "idle"
    /\ PreviewClose
    /\ \E h \in Handles :
          /\ handle[h] = "free"
          /\ handle' = [HandleAfterClose EXCEPT ![h] = "opening"]
          /\ opening' = [o \in Callers \cup Pumps |->
                            IF o = c THEN h
                            ELSE IF Closes /\ o = pump_task THEN NoHandle
                            ELSE opening[o]]
    /\ pc' = [pc EXCEPT ![c] = where]
    /\ UNCHANGED <<running, record_fp, scan_task, loop>>

-----------------------------------------------------------------------------
(***************************************************************************)
(* start_async.                                                            *)
(***************************************************************************)
ScanStart(c) == CloseThenOpen(c, "startOpen")

Resumed(c) ==
    /\ pc' = [pc EXCEPT ![c] = "idle"]
    /\ opening' = [opening EXCEPT ![c] = NoHandle]

StartPump ==
    \E p \in Pumps \ {pump_task} :
        /\ pump[p] \in {"off", "failed"}
        /\ pump_task' = p
        /\ pump' = [pump EXCEPT ![p] = "reading"]

StartLoop ==
    \E l \in Loops \ {scan_task} :
        /\ loop[l] \in {"off", "failed"}
        /\ scan_task' = l
        /\ loop' = [loop EXCEPT ![l] = "live"]

\* the await returns a handle: record, then pump, then loop or a fixed tune
StartOpened(c) ==
    /\ pc[c] = "startOpen" /\ Awaits(c, "opened")
    /\ device' = opening[c]
    /\ handle' = Installed(opening[c])
    /\ Resumed(c)
    /\ running' = TRUE
    /\ record_fp' \in {record_fp, TRUE}
    /\ spectrum_queue' = TRUE
    /\ StartPump
    /\ StartLoop \/ UNCHANGED <<scan_task, loop>>
    /\ UNCHANGED preview

\* open(record_path) raises: the device is in self.device, nothing runs
StartRecordFails(c) ==
    /\ pc[c] = "startOpen" /\ Awaits(c, "opened")
    /\ "record" \in Faults
    /\ device' = opening[c]
    /\ handle' = Installed(opening[c])
    /\ Resumed(c)
    /\ UNCHANGED <<flags, tasks>>

\* mutant: the except branch of preview_open, in start_async
MutStartRefused(c) ==
    /\ pc[c] = "startOpen" /\ Awaits(c, "refused")
    /\ handle' = Released([handle EXCEPT ![opening[c]] = "free"])
    /\ device' = NoHandle
    /\ Resumed(c)
    /\ UNCHANGED <<flags, tasks>>

StartRefused(c) ==
    /\ pc[c] = "startOpen" /\ Awaits(c, "refused")
    /\ handle' = [handle EXCEPT ![opening[c]] = "free"]
    /\ Resumed(c)
    /\ UNCHANGED <<flags, tasks, device>>

\* scan_start retries at once with another sample rate
StartRetry(c) ==
    /\ pc[c] = "startOpen" /\ Awaits(c, "refused")
    /\ handle' = [handle EXCEPT ![opening[c]] = "opening"]
    /\ UNCHANGED <<flags, tasks, device, pc, opening>>

\* mutant: no wait_for, the caller waits for the thread
MutStartTimeout(c) ==
    /\ pc[c] = "startOpen" /\ Delivered(c)
    /\ handle' = GivenUp(opening[c])
    /\ Resumed(c)
    /\ UNCHANGED <<flags, tasks, device>>

\* 25 s have passed
StartTimeout(c) ==
    /\ pc[c] = "startOpen" /\ opening[c] # NoHandle
    /\ handle' = GivenUp(opening[c])
    /\ Resumed(c)
    /\ UNCHANGED <<flags, tasks, device>>

\* rotation.stop or the preset scheduler's stop cancels the calling task
StartCancelled(c) ==
    /\ pc[c] = "startOpen" /\ opening[c] # NoHandle
    /\ "cancel" \in Faults
    /\ handle' = Orphaned(opening[c])
    /\ Resumed(c)
    /\ UNCHANGED <<flags, tasks, device>>

-----------------------------------------------------------------------------
(***************************************************************************)
(* stop_async.  Awaiting a cancelled task takes a turn of the event loop;  *)
(* awaiting one that died re-raises what killed it, out of stop_async.     *)
(***************************************************************************)
LivePump(p) == p # NoTask /\ pump[p] \in {"reading", "settling", "reopening"}
DeadPump(p) == p # NoTask /\ pump[p] = "failed"
LiveLoop(l) == l # NoTask /\ loop[l] = "live"
DeadLoop(l) == l # NoTask /\ loop[l] = "failed"

\* mutant: no _release_device at the end
MutStopRelease(c) ==
    /\ scan_task' = NoTask
    /\ record_fp' = FALSE
    /\ preview' = FALSE
    /\ pc' = [pc EXCEPT ![c] = "idle"]
    /\ UNCHANGED <<device, handle, loop, opening>>

\* record closed, preview over, device released: the end of stop_async
StopRelease(c) ==
    /\ scan_task' = NoTask
    /\ record_fp' = FALSE
    /\ preview' = FALSE
    /\ device' = NoHandle
    /\ handle' = Released(handle)
    /\ pc' = [pc EXCEPT ![c] = "idle"]
    /\ UNCHANGED <<loop, opening>>

\* mutant: returns once the scan loop is cancelled
MutStopLoopNext(c) ==
    /\ pump_task' = NoTask
    /\ spectrum_queue' = FALSE
    /\ loop' = [l \in Loops |-> IF l = scan_task THEN "off" ELSE loop[l]]
    /\ pc' = [pc EXCEPT ![c] = "idle"]
    /\ UNCHANGED <<scan_task, record_fp, preview, device, handle, opening>>

\* from self._pump_task = None to the await of the scan loop, or to the end
StopLoopNext(c) ==
    /\ pump_task' = NoTask
    /\ spectrum_queue' = FALSE
    /\ \/ /\ LiveLoop(scan_task)
          /\ loop' = [loop EXCEPT ![scan_task] = "off"]
          /\ pc' = [pc EXCEPT ![c] = "stopLoop"]
          /\ UNCHANGED <<scan_task, record_fp, preview, device, handle, opening>>
       \/ /\ DeadLoop(scan_task)
          /\ pc' = [pc EXCEPT ![c] = "idle"]
          /\ UNCHANGED <<scan_task, record_fp, preview, device, handle, opening, loop>>
       \/ /\ ~LiveLoop(scan_task) /\ ~DeadLoop(scan_task)
          /\ StopRelease(c)

\* a live pump is cancelled, also while it awaits the open of a recovery
StopCancelsPump(c) ==
    /\ pc[c] = "idle" /\ LivePump(pump_task)
    /\ running' = FALSE
    /\ pump' = [pump EXCEPT ![pump_task] = "off"]
    /\ handle' = IF opening[pump_task] = NoHandle THEN handle
                 ELSE Orphaned(opening[pump_task])
    /\ opening' = [opening EXCEPT ![pump_task] = NoHandle]
    /\ pc' = [pc EXCEPT ![c] = "stopPump"]
    /\ UNCHANGED <<preview, spectrum_queue, record_fp, device, pump_task, scan_task, loop>>

\* a dead pump: stop_async raises here, on this call and on every later one
StopMeetsDeadPump(c) ==
    /\ pc[c] = "idle" /\ DeadPump(pump_task)
    /\ running' = FALSE
    /\ UNCHANGED <<preview, spectrum_queue, record_fp, tasks, device, pc, handle, opening>>

StopWithoutPump(c) ==
    /\ pc[c] = "idle" /\ ~LivePump(pump_task) /\ ~DeadPump(pump_task)
    /\ running' = FALSE
    /\ StopLoopNext(c)
    /\ UNCHANGED pump

StopAfterPump(c) ==
    /\ pc[c] = "stopPump"
    /\ StopLoopNext(c)
    /\ UNCHANGED <<running, pump>>

StopAfterLoop(c) ==
    /\ pc[c] = "stopLoop"
    /\ StopRelease(c)
    /\ UNCHANGED <<running, spectrum_queue, pump_task, pump>>

-----------------------------------------------------------------------------
(***************************************************************************)
(* retune_band_async: a new band on the open device.                       *)
(***************************************************************************)
\* the loop is gone: tune, and start a new one when the band is swept
RetuneApply(c) ==
    /\ pc' = [pc EXCEPT ![c] = "idle"]
    /\ \/ StartLoop
       \/ scan_task' = NoTask /\ UNCHANGED loop     \* fixed, or tune raised
    /\ UNCHANGED <<flags, pump_task, pump, device, handle, opening>>

RetuneCancelsLoop(c) ==
    /\ pc[c] = "idle" /\ running /\ device # NoHandle
    /\ LiveLoop(scan_task)
    /\ loop' = [loop EXCEPT ![scan_task] = "off"]
    /\ pc' = [pc EXCEPT ![c] = "retuneLoop"]
    /\ UNCHANGED <<flags, pump_task, scan_task, pump, device, handle, opening>>

RetuneWithoutLoop(c) ==
    /\ pc[c] = "idle" /\ running /\ device # NoHandle
    /\ ~LiveLoop(scan_task) /\ ~DeadLoop(scan_task)
    /\ RetuneApply(c)

RetuneAfterLoop(c) ==
    /\ pc[c] = "retuneLoop"
    /\ RetuneApply(c)

-----------------------------------------------------------------------------
(***************************************************************************)
(* preview_open.                                                           *)
(***************************************************************************)
\* mutant: a running scan is not respected
MutPreviewOpen(c) == CloseThenOpen(c, "previewOpen")

PreviewOpen(c) == ~running /\ CloseThenOpen(c, "previewOpen")

PreviewOpened(c) ==
    /\ pc[c] = "previewOpen" /\ Awaits(c, "opened")
    /\ device' = opening[c]
    /\ handle' = Installed(opening[c])
    /\ Resumed(c)
    /\ preview' = TRUE
    /\ spectrum_queue' = TRUE
    /\ StartPump
    /\ UNCHANGED <<running, record_fp, scan_task, loop>>

\* mutant: self.device is forgotten, not closed
MutPreviewGone(f) ==
    /\ preview' = FALSE
    /\ spectrum_queue' = FALSE
    /\ device' = NoHandle
    /\ handle' = f
    /\ UNCHANGED <<running, record_fp>>

\* the except branch: whatever is in self.device by now is released
PreviewGone(f) ==
    /\ preview' = FALSE
    /\ spectrum_queue' = FALSE
    /\ device' = NoHandle
    /\ handle' = Released(f)
    /\ UNCHANGED <<running, record_fp>>

PreviewRefused(c) ==
    /\ pc[c] = "previewOpen" /\ Awaits(c, "refused")
    /\ PreviewGone([handle EXCEPT ![opening[c]] = "free"])
    /\ Resumed(c)
    /\ UNCHANGED tasks

PreviewTimeout(c) ==
    /\ pc[c] = "previewOpen" /\ opening[c] # NoHandle
    /\ PreviewGone(GivenUp(opening[c]))
    /\ Resumed(c)
    /\ UNCHANGED tasks

-----------------------------------------------------------------------------
(***************************************************************************)
(* _iq_pump_loop and _recover_preview_device.                              *)
(***************************************************************************)
PumpExits(p) ==
    /\ pump[p] = "reading" /\ ~running /\ ~preview
    /\ pump' = [pump EXCEPT ![p] = "off"]
    /\ UNCHANGED <<flags, pump_task, scan_task, loop, device, pc, handle, opening>>

\* mutant: the device is closed, self.device keeps naming it
MutPumpStall(p) ==
    /\ pump[p] = "reading" /\ preview /\ ~running
    /\ "stall" \in Faults \/ device = NoHandle
    /\ pump' = [pump EXCEPT ![p] = "settling"]
    /\ handle' = Released(handle)
    /\ UNCHANGED <<flags, pump_task, scan_task, loop, device, pc, opening>>

\* no IQ for 5 s in preview: close, then wait 0.25 s
PumpStall(p) ==
    /\ pump[p] = "reading" /\ preview /\ ~running
    /\ "stall" \in Faults \/ device = NoHandle
    /\ pump' = [pump EXCEPT ![p] = "settling"]
    /\ device' = NoHandle
    /\ handle' = Released(handle)
    /\ UNCHANGED <<flags, pump_task, scan_task, loop, pc, opening>>

\* reopen; preview and running are not read again
PumpReopen(p) ==
    /\ pump[p] = "settling"
    /\ \E h \in Handles :
          /\ handle[h] = "free"
          /\ handle' = [handle EXCEPT ![h] = "opening"]
          /\ opening' = [opening EXCEPT ![p] = h]
    /\ pump' = [pump EXCEPT ![p] = "reopening"]
    /\ UNCHANGED <<flags, pump_task, scan_task, loop, device, pc>>

PumpResumed(p) ==
    /\ pump' = [pump EXCEPT ![p] = "reading"]
    /\ opening' = [opening EXCEPT ![p] = NoHandle]
    /\ UNCHANGED <<pump_task, scan_task, loop, pc>>

PumpReopened(p) ==
    /\ pump[p] = "reopening" /\ Awaits(p, "opened")
    /\ device' = opening[p]
    /\ handle' = Installed(opening[p])
    /\ PumpResumed(p)
    /\ UNCHANGED flags

PumpReopenRefused(p) ==
    /\ pump[p] = "reopening" /\ Awaits(p, "refused")
    /\ PreviewGone([handle EXCEPT ![opening[p]] = "free"])
    /\ PumpResumed(p)

PumpReopenTimeout(p) ==
    /\ pump[p] = "reopening" /\ opening[p] # NoHandle
    /\ PreviewGone(GivenUp(opening[p]))
    /\ PumpResumed(p)

\* _record_max_bytes reached
PumpRecordFull(p) ==
    /\ pump[p] = "reading" /\ running /\ record_fp /\ device # NoHandle
    /\ record_fp' = FALSE
    /\ UNCHANGED <<running, preview, spectrum_queue, tasks, device, pc, handle, opening>>

\* the write is outside every try: the task dies
PumpWriteFails(p) ==
    /\ "write" \in Faults
    /\ pump[p] = "reading" /\ running /\ record_fp /\ device # NoHandle
    /\ pump' = [pump EXCEPT ![p] = "failed"]
    /\ UNCHANGED <<flags, pump_task, scan_task, loop, device, pc, handle, opening>>

-----------------------------------------------------------------------------
(***************************************************************************)
(* _scan_loop.                                                             *)
(***************************************************************************)
LoopExits(l) ==
    /\ loop[l] = "live" /\ ~running
    /\ loop' = [loop EXCEPT ![l] = "off"]
    /\ UNCHANGED <<flags, pump_task, scan_task, pump, device, pc, handle, opening>>

\* controller.tune is outside every try: the task dies
LoopTuneFails(l) ==
    /\ "tune" \in Faults
    /\ loop[l] = "live" /\ running /\ device # NoHandle
    /\ loop' = [loop EXCEPT ![l] = "failed"]
    /\ UNCHANGED <<flags, pump_task, scan_task, pump, device, pc, handle, opening>>

-----------------------------------------------------------------------------
CallerResumes(c) ==
    \/ StartOpened(c) \/ StartRecordFails(c) \/ StartRefused(c)
    \/ StartTimeout(c)
    \/ StopAfterPump(c) \/ StopAfterLoop(c)
    \/ RetuneAfterLoop(c)
    \/ PreviewOpened(c) \/ PreviewRefused(c) \/ PreviewTimeout(c)

CallerNext(c) ==
    \/ ScanStart(c) \/ StartRetry(c) \/ StartCancelled(c)
    \/ StopCancelsPump(c) \/ StopMeetsDeadPump(c) \/ StopWithoutPump(c)
    \/ RetuneCancelsLoop(c) \/ RetuneWithoutLoop(c)
    \/ PreviewOpen(c)
    \/ CallerResumes(c)

PumpNext(p) ==
    \/ PumpExits(p) \/ PumpStall(p) \/ PumpReopen(p)
    \/ PumpReopened(p) \/ PumpReopenRefused(p) \/ PumpReopenTimeout(p)
    \/ PumpRecordFull(p) \/ PumpWriteFails(p)

LoopNext(l) == LoopExits(l) \/ LoopTuneFails(l)

ThreadNext(h) == ThreadOpens(h) \/ ThreadRaises(h) \/ LateClose(h)

Next ==
    \/ \E c \in Callers : CallerNext(c)
    \/ \E p \in Pumps : PumpNext(p)
    \/ \E l \in Loops : LoopNext(l)
    \/ \E h \in Handles : ThreadNext(h)

Spec == Init /\ [][Next]_vars

\* a caller's await always ends: by its result, by the 25 s timeout, or by
\* the end of the task it cancelled; call_soon runs every done callback.
\* Nothing is assumed of the executor threads.
FairSpec ==
    /\ Spec
    /\ \A c \in Callers : WF_vars(CallerResumes(c))
    /\ \A h \in Handles : WF_vars(LateClose(h))

-----------------------------------------------------------------------------
(***************************************************************************)
(* Properties.                                                             *)
(***************************************************************************)
\* An open call that a coroutine awaits is awaited by exactly one coroutine:
\* no two of them install, or give up on, the same handle.
AwaitedOnce ==
    /\ \A h \in Handles :
          handle[h] \in {"opening", "opened", "refused"}
             <=> \E o \in Callers \cup Pumps : opening[o] = h
    /\ \A o, q \in Callers \cup Pumps :
          opening[o] = opening[q] /\ opening[o] # NoHandle => o = q

\* self.device is a claimed handle, never one that _release_device closed,
\* and no other handle passes for the engine's.
DeviceIsHeld == \A h \in Handles : handle[h] = "engine" <=> h = device

\* The dongle is claimed once.
ClaimedOnce == \A g, h \in Handles : Claimed(g) /\ Claimed(h) => g = h

\* Whatever the interleaving of handlers, pump and executor threads, every
\* open call is in one known place: awaited once, in self.device, guarded by
\* its done callback, or known to be orphaned (_open_device_with_timeout,
\* _release_device).
HandleAccounted == AwaitedOnce /\ DeviceIsHeld /\ ClaimedOnce

\* The assignments self.device = await ... (start_async, preview_open,
\* _recover_preview_device) never overwrite a handle that is still open: the
\* value of self.device may have changed during the await, but whenever the
\* await delivers a handle self.device is None.
NothingOverwritten ==
    \A o \in Callers \cup Pumps : Awaits(o, "opened") => device = NoHandle

\* A dongle that a thread opened is never lost: it is in self.device, about
\* to be delivered, or about to be closed by the done callback ("handle leak
\* guard armed" in _open_device_with_timeout).
NoOrphan == \A h \in Handles : handle[h] \notin {"orphanOpening", "leaked"}

\* When no scan and no preview is on and no stop is under way, the engine
\* does not keep the dongle from other programs.
IdleReleases ==
    ~running /\ ~preview /\ (\A c \in Callers : pc[c] \notin {"stopPump", "stopLoop"})
       => device = NoHandle

\* A running scan has its device and its queue, and the pump that reads the
\* device is the one self._pump_task names, so that stop_async can reach it.
ScanOwnsDevice ==
    running => /\ device # NoHandle
               /\ spectrum_queue
               /\ LivePump(pump_task) /\ pump[pump_task] = "reading"

\* The device has one reader and one tuner at a time, and they are the ones
\* stop_async and retune_band_async would cancel.
OneReader ==
    /\ \A p \in Pumps : LivePump(p) /\ (running \/ preview) => p = pump_task
    /\ \A l \in Loops : LiveLoop(l) /\ running => l = scan_task

\* "scan owns the device - do not interfere" (preview_open), "No-op when a
\* scan is running" (preview_close): while a scan runs nothing replaces or
\* releases its device.
ScanKeepsDevice == [][running /\ running' => device' = device]_vars

\* "Stop scan rotation and the active scan, releasing the SDR device"
\* (api/scan.py, rotation_stop): a stop_async that has cancelled the engine's
\* tasks does not return with the device still open.
StopReleases ==
    [][\A c \in Callers :
          pc[c] \in {"stopPump", "stopLoop"} /\ pc'[c] = "idle"
             => device' = NoHandle]_vars

\* Each engine call returns, whatever the executor threads do.
CallsReturn == \A c \in Callers : pc[c] # "idle" ~> pc[c] = "idle"

\* "if the open() eventually completes, the device handle would be silently
\* leaked" (start_async): a handle that arrives after its timeout is closed.
LateHandleClosed ==
    \A h \in Handles : handle[h] = "lateOpened" ~> handle[h] = "free"

\* Whatever the executor threads do, nobody waits for ever: neither a caller nor
\* the device an abandoned open returns late.
EngineSettles == CallsReturn /\ LateHandleClosed
=============================================================================
