----------------------------- MODULE ScanPark -----------------------------
(***************************************************************************)
(* The park flag of scan/engine.py and its three users: the beacon slots   *)
(* of beacons/scheduler.py, the decode windows of decoders/ft_external.py  *)
(* and the CW sweep of decoders/cw_sweep.py, with the functions of         *)
(* api/decoders.py, api/beacons.py and api/scan.py that start and stop     *)
(* them.  The flag has no owner: each user parks when it listens and       *)
(* unparks when it is done.  An action is what runs between two awaits.    *)
(*                                                                         *)
(* A loop that is not cancelled sees its _running set: every stop cancels  *)
(* the task in the step that clears the flag.                              *)
(***************************************************************************)
EXTENDS Naturals, Sequences, FiniteSets

CONSTANTS
    ParkCallers,    \* requests under way at the same time
    ParkTasks,      \* identities of asyncio tasks, per user
    ScanBands,      \* bands a scan runs on
    BeaconBands,    \* BeaconScheduler._bands, a sequence
    SlotsPerCycle,  \* beacons/catalog.py
    CwPositions,    \* length of CWSweepDecoder._build_positions
    ParkEnvs,       \* whether requests overlap, the users, and the faults:
                    \* "raise", decoding raises; "settle", a stop may fall in
                    \* the 50 ms after an FT park
    NoTask          \* None

ASSUME ParkAssumption ==
    /\ NoTask \notin ParkTasks /\ NoTask \notin ScanBands
    /\ \A i \in 1 .. Len(BeaconBands) : NoTask # <<"beacon", BeaconBands[i]>>
    /\ BeaconBands \in Seq(STRING) /\ Len(BeaconBands) > 0
    /\ SlotsPerCycle \in Nat \ {0} /\ CwPositions \in Nat \ {0}
    /\ ParkEnvs \subseteq [overlap : BOOLEAN, users : SUBSET {"beacon", "ft", "cw"},
                            faults : SUBSET {"raise", "settle"}]

VARIABLES
    eng,        \* ScanEngine: running, _parked, center_hz, config["band"]
    listeners,  \* ScanEngine._iq_listeners
    beacon,     \* state.beacon_scheduler and its loops
    ft,         \* state.ft_external_decoder and its loops
    cw,         \* state.cw_decoder and its loops
    parkPc,     \* where each request is suspended
    parkEnv     \* chosen once: may requests overlap, who is used, the faults

parkVars == <<eng, listeners, beacon, ft, cw, parkPc, parkEnv>>

Centers == {NoTask} \cup ({"scan"} \X ScanBands)
           \cup {<<"beacon", BeaconBands[i]>> : i \in 1 .. Len(BeaconBands)}
           \cup ({"ft"} \X ScanBands) \cup ({"cw"} \X (1 .. CwPositions))

Nowhere == [at |-> "idle", task |-> NoTask, then |-> "end", last |-> "end"]

ParkTypeOK ==
    /\ eng \in [run : BOOLEAN, parked : BOOLEAN, center : Centers,
                band : ScanBands \cup {NoTask}]
    /\ listeners \subseteq {"beacon", "ft", "cw"}
    /\ beacon \in [running : BOOLEAN, task : ParkTasks \cup {NoTask},
                   held : Centers, band : 1 .. Len(BeaconBands),
                   slots : 0 .. SlotsPerCycle - 1,
                   pc : [ParkTasks -> {"gone", "wait", "settle", "collect",
                                       "detect", "cancelled"}]]
    /\ ft \in [ref : BOOLEAN, running : BOOLEAN, task : ParkTasks \cup {NoTask},
               abort : [ParkTasks -> BOOLEAN],
               before : [ParkTasks -> ScanBands \cup {NoTask}],
               pc : [ParkTasks -> {"gone", "new", "poll", "slot", "settle", "collect",
                                   "decode", "empty", "cancelled", "unwinding"}]]
    /\ cw \in [ref : BOOLEAN, running : BOOLEAN, task : ParkTasks \cup {NoTask},
               pos : [ParkTasks -> 1 .. CwPositions],
               pc : [ParkTasks -> {"gone", "new", "settle", "norate", "collect",
                                   "decode", "cancelled"}]]
    /\ parkPc \in [ParkCallers ->
                   [at : {"idle", "beaconJoin", "ftJoin", "cwJoin", "open", "opening"},
                    task : ParkTasks \cup {NoTask},
                    then : {"end", "ft", "cw", "ftOff"}, last : {"end", "open"}]]
    /\ parkEnv \in ParkEnvs

\* no scan, no preview, no decoder enabled in the configuration
ParkInit ==
    /\ eng = [run |-> FALSE, parked |-> FALSE, center |-> NoTask, band |-> NoTask]
    /\ listeners = {}
    /\ beacon = [running |-> FALSE, task |-> NoTask, held |-> NoTask, band |-> 1,
                 slots |-> 0, pc |-> [t \in ParkTasks |-> "gone"]]
    /\ ft = [ref |-> FALSE, running |-> FALSE, task |-> NoTask,
             abort |-> [t \in ParkTasks |-> FALSE],
             before |-> [t \in ParkTasks |-> NoTask],
             pc |-> [t \in ParkTasks |-> "gone"]]
    /\ cw = [ref |-> FALSE, running |-> FALSE, task |-> NoTask,
             pos |-> [t \in ParkTasks |-> 1], pc |-> [t \in ParkTasks |-> "gone"]]
    /\ parkPc = [c \in ParkCallers |-> Nowhere]
    /\ parkEnv \in ParkEnvs

-----------------------------------------------------------------------------
(***************************************************************************)
(* ScanEngine.                                                             *)
(***************************************************************************)
Parked(hz) == [eng EXCEPT !.parked = TRUE, !.center = hz]

Unparked == [eng EXCEPT !.parked = FALSE]

\* _ft_external_scan_unpark
FtUnparked == IF eng.run THEN Unparked ELSE eng

\* _scan_loop: the next step of a sweep that is not parked
SweepStep ==
    /\ eng.run /\ ~eng.parked
    /\ eng' = [eng EXCEPT !.center = <<"scan", eng.band>>]
    /\ UNCHANGED <<listeners, beacon, ft, cw, parkPc, parkEnv>>

-----------------------------------------------------------------------------
(***************************************************************************)
(* BeaconScheduler._slot_loop.                                             *)
(***************************************************************************)
BeaconOnly == UNCHANGED <<listeners, ft, cw, parkPc, parkEnv>>

\* the radio is parked only when the monitored band changes
BeaconSlotStarts(t) ==
    /\ beacon.pc[t] = "wait"
    /\ LET hz == <<"beacon", BeaconBands[beacon.band]>> IN
       \/ /\ beacon.held # hz
          /\ eng' = Parked(hz)
          /\ beacon' = [beacon EXCEPT !.held = hz, !.pc[t] = "settle"]
       \/ /\ beacon.held = hz
          /\ beacon' = [beacon EXCEPT !.pc[t] = "collect"]
          /\ UNCHANGED eng
    /\ BeaconOnly

BeaconSettled(t) ==
    /\ beacon.pc[t] = "settle"
    /\ beacon' = [beacon EXCEPT !.pc[t] = "collect"]
    /\ UNCHANGED eng /\ BeaconOnly

\* mutant: the slots on the band are not counted
MutAfterSlot(t) == [beacon EXCEPT !.pc[t] = "wait"]

\* the slot is observed; the band advances after a full cycle on it
AfterSlot(t) ==
    IF beacon.slots + 1 = SlotsPerCycle
    THEN [beacon EXCEPT !.pc[t] = "wait", !.slots = 0,
                        !.band = (beacon.band % Len(BeaconBands)) + 1]
    ELSE [beacon EXCEPT !.pc[t] = "wait", !.slots = beacon.slots + 1]

\* enough samples for the detector, or none worth looking at
BeaconCollected(t) ==
    /\ beacon.pc[t] = "collect"
    /\ \/ beacon' = [beacon EXCEPT !.pc[t] = "detect"]
       \/ beacon' = AfterSlot(t)
    /\ UNCHANGED eng /\ BeaconOnly

BeaconDetected(t) ==
    /\ beacon.pc[t] = "detect"
    /\ beacon' = AfterSlot(t)
    /\ UNCHANGED eng /\ BeaconOnly

\* _run swallows the error and ends, with _running still set
BeaconRaises(t) ==
    /\ "raise" \in parkEnv.faults /\ beacon.pc[t] = "detect"
    /\ beacon' = [beacon EXCEPT !.pc[t] = "gone"]
    /\ UNCHANGED eng /\ BeaconOnly

BeaconEnds(t) ==
    /\ beacon.pc[t] = "cancelled"
    /\ beacon' = [beacon EXCEPT !.pc[t] = "gone"]
    /\ UNCHANGED eng /\ BeaconOnly

BeaconSteps(t) == BeaconSlotStarts(t) \/ BeaconSettled(t) \/ BeaconCollected(t)
                  \/ BeaconDetected(t) \/ BeaconEnds(t)

-----------------------------------------------------------------------------
(***************************************************************************)
(* ExternalFtDecoder._run.  Only "slot" to "empty" belong to a window; the *)
(* 50 ms after the park ("settle") lie outside its try.                    *)
(***************************************************************************)
FtOnly == UNCHANGED <<listeners, beacon, cw, parkPc, parkEnv>>

\* the top of the loop, up to its first await: the frequency must be known
FtTop(t) ==
    IF eng.center = NoTask
    THEN [ft EXCEPT !.pc[t] = "poll", !.abort[t] = FALSE]
    ELSE [ft EXCEPT !.pc[t] = "slot", !.abort[t] = FALSE, !.before[t] = eng.band]

FtIterate(t) ==
    /\ ft.pc[t] \in {"new", "poll"}
    /\ ft' = FtTop(t)
    /\ UNCHANGED eng /\ FtOnly

\* the slot boundary: new modes or a new band skip the window
FtSlot(t) ==
    /\ ft.pc[t] = "slot"
    /\ \/ /\ ft.abort[t] \/ (eng.band # ft.before[t] /\ ft.before[t] # NoTask)
          /\ ft' = FtTop(t)
          /\ UNCHANGED eng
       \/ /\ ~ft.abort[t] /\ (eng.band = ft.before[t] \/ ft.before[t] = NoTask)
          /\ ft' = [ft EXCEPT !.pc[t] = "settle"]
          /\ eng' = IF eng.run THEN Parked(<<"ft", eng.band>>) ELSE eng
    /\ FtOnly

FtSettled(t) ==
    /\ ft.pc[t] = "settle"
    /\ ft' = [ft EXCEPT !.pc[t] = "collect"]
    /\ UNCHANGED eng /\ FtOnly

FtCollected(t) ==
    /\ ft.pc[t] = "collect"
    /\ \/ ft.abort[t] /\ ft' = FtTop(t) /\ eng' = FtUnparked
       \/ ~ft.abort[t] /\ ft' = [ft EXCEPT !.pc[t] = "decode"] /\ UNCHANGED eng
       \/ ~ft.abort[t] /\ ft' = [ft EXCEPT !.pc[t] = "empty"] /\ UNCHANGED eng
    /\ FtOnly

\* mutant: the window of a decode is not in the try
MutFtDecoded(t) ==
    /\ ft.pc[t] = "decode"
    /\ ft' = [ft EXCEPT !.pc[t] = "poll"]
    /\ UNCHANGED eng /\ FtOnly

FtDecoded(t) ==
    /\ ft.pc[t] = "decode"
    /\ ft' = [ft EXCEPT !.pc[t] = "poll"]
    /\ eng' = FtUnparked
    /\ FtOnly

FtEmptyPolled(t) ==
    /\ ft.pc[t] = "empty"
    /\ ft' = FtTop(t)
    /\ eng' = FtUnparked
    /\ FtOnly

\* the signal processing raises: the finally clause, then the except clause
FtRaises(t) ==
    /\ "raise" \in parkEnv.faults /\ ft.pc[t] = "collect"
    /\ ft' = [ft EXCEPT !.pc[t] = "gone", !.abort[t] = FALSE, !.before[t] = NoTask,
                        !.running = IF ft.task = t THEN FALSE ELSE ft.running]
    /\ eng' = FtUnparked
    /\ FtOnly

\* a cancelled loop ends; inside the try it unparks first
FtEnds(t) ==
    /\ \/ ft.pc[t] = "cancelled" /\ UNCHANGED eng
       \/ ft.pc[t] = "unwinding" /\ eng' = FtUnparked
    /\ ft' = [ft EXCEPT !.pc[t] = "gone", !.abort[t] = FALSE, !.before[t] = NoTask]
    /\ FtOnly

FtSteps(t) == FtIterate(t) \/ FtSlot(t) \/ FtSettled(t) \/ FtCollected(t)
              \/ FtDecoded(t) \/ FtEmptyPolled(t) \/ FtEnds(t)

-----------------------------------------------------------------------------
(***************************************************************************)
(* CWSweepDecoder._run.                                                    *)
(***************************************************************************)
CwOnly == UNCHANGED <<listeners, beacon, ft, parkPc, parkEnv>>

\* park on position p, whatever the engine is doing
CwTune(t, p) ==
    /\ eng' = Parked(<<"cw", p>>)
    /\ cw' = [cw EXCEPT !.pc[t] = "settle", !.pos[t] = p]
    /\ CwOnly

CwBegins(t) == cw.pc[t] = "new" /\ CwTune(t, 1)

CwSettled(t) ==
    /\ cw.pc[t] = "settle"
    /\ \E next \in {"collect", "norate"} : cw' = [cw EXCEPT !.pc[t] = next]
    /\ UNCHANGED eng /\ CwOnly

CwCollected(t) ==
    /\ cw.pc[t] = "collect"
    /\ cw' = [cw EXCEPT !.pc[t] = "decode"]
    /\ UNCHANGED eng /\ CwOnly

CwAdvances(t) ==
    /\ cw.pc[t] \in {"decode", "norate"}
    /\ CwTune(t, (cw.pos[t] % CwPositions) + 1)

\* the except clause does not unpark, and stop does nothing after it
CwRaises(t) ==
    /\ "raise" \in parkEnv.faults /\ cw.pc[t] = "decode"
    /\ cw' = [cw EXCEPT !.pc[t] = "gone", !.pos[t] = 1,
                        !.running = IF cw.task = t THEN FALSE ELSE cw.running]
    /\ UNCHANGED eng /\ CwOnly

CwEnds(t) ==
    /\ cw.pc[t] = "cancelled"
    /\ cw' = [cw EXCEPT !.pc[t] = "gone", !.pos[t] = 1]
    /\ UNCHANGED eng /\ CwOnly

CwSteps(t) == CwBegins(t) \/ CwSettled(t) \/ CwCollected(t) \/ CwAdvances(t)
              \/ CwEnds(t)

-----------------------------------------------------------------------------
(***************************************************************************)
(* Starting and stopping the users.  Bounds: ParkTasks identities, and one *)
(* stop of the FT and one of the CW decoder under way at a time.           *)
(***************************************************************************)
Asks(c) ==
    /\ parkPc[c] = Nowhere
    /\ \/ parkEnv.overlap
       \/ /\ \A d \in ParkCallers : parkPc[d] = Nowhere
          /\ c = CHOOSE d \in ParkCallers : TRUE

Uses(u) == u \in parkEnv.users
\* an identity for a new task of u: the first that is free
Free(u) == {t \in ParkTasks : u.pc[t] = "gone"} \ {parkPc[d].task : d \in ParkCallers}
Fresh(u, t) == t \in Free(u) /\ t = CHOOSE s \in Free(u) : TRUE
Joins(where) == \E d \in ParkCallers : parkPc[d].at = where
Alive(u) == u.task # NoTask /\ u.pc[u.task] # "gone"

\* the request goes on: it is over, or it starts the engine next
Finish(c, last) ==
    parkPc' = [parkPc EXCEPT ![c] = IF last = "open"
                                    THEN [Nowhere EXCEPT !.at = "open"] ELSE Nowhere]

\* the queue is registered before the scheduler knows whether it starts
BeaconStart(c) ==
    /\ Asks(c) /\ Uses("beacon") /\ ~beacon.running
    /\ \E t \in ParkTasks :
        /\ Fresh(beacon, t)
        /\ beacon' = [beacon EXCEPT !.running = TRUE, !.task = t, !.band = 1,
                                    !.slots = 0, !.pc[t] = "wait"]
    /\ listeners' = listeners \cup {"beacon"}
    /\ UNCHANGED <<eng, ft, cw, parkPc, parkEnv>>

\* what a stop does after its await, whatever has been started meanwhile
BeaconReleased(on) ==
    /\ beacon' = [beacon EXCEPT !.running = on, !.task = NoTask, !.held = NoTask]
    /\ eng' = Unparked
    /\ listeners' = listeners \ {"beacon"}
    /\ UNCHANGED <<ft, cw, parkEnv>>

BeaconStop(c) ==
    /\ Asks(c) /\ Uses("beacon")
    /\ \/ /\ ~beacon.running
          /\ listeners' = listeners \ {"beacon"}
          /\ UNCHANGED <<eng, beacon, ft, cw, parkPc, parkEnv>>
       \/ /\ beacon.running /\ Alive(beacon)
          /\ beacon' = [beacon EXCEPT !.running = FALSE, !.pc[beacon.task] = "cancelled"]
          /\ parkPc' = [parkPc EXCEPT ![c].at = "beaconJoin", ![c].task = beacon.task]
          /\ UNCHANGED <<eng, listeners, ft, cw, parkEnv>>
       \/ /\ beacon.running /\ ~Alive(beacon)
          /\ BeaconReleased(FALSE)
          /\ UNCHANGED parkPc

BeaconStopped(c) ==
    /\ parkPc[c].at = "beaconJoin" /\ beacon.pc[parkPc[c].task] = "gone"
    /\ BeaconReleased(beacon.running)
    /\ Finish(c, "end")

\* _start_ft_external_decoder on decoder f: its queue, the object, its task
FtStarted(f) ==
    /\ listeners' = listeners \cup {"ft"}
    /\ \/ f.running /\ Alive(f) /\ ft' = f
       \/ /\ ~(f.running /\ Alive(f))
          /\ \E t \in ParkTasks :
              /\ Fresh(f, t)
              /\ ft' = [f EXCEPT !.ref = TRUE, !.running = TRUE, !.task = t,
                                 !.pc[t] = "new"]

\* _stop_ft_external_decoder up to its await; a task that is over is awaited
\* as well, in a step of its own
FtStopping(c, then, last) ==
    /\ ft.ref /\ ~Joins("ftJoin")
    /\ listeners' = listeners \ {"ft"}
    /\ \/ /\ Alive(ft)
          /\ ft.pc[ft.task] = "settle" => "settle" \in parkEnv.faults
          /\ ft' = [ft EXCEPT !.running = FALSE, !.pc[ft.task] =
                      IF ft.pc[ft.task] \in {"collect", "decode", "empty"}
                      THEN "unwinding" ELSE "cancelled"]
          /\ parkPc' = [parkPc EXCEPT ![c] = [at |-> "ftJoin", task |-> ft.task,
                                              then |-> then, last |-> last]]
       \/ /\ ~Alive(ft)
          /\ ft' = [ft EXCEPT !.running = FALSE]
          /\ parkPc' = [parkPc EXCEPT ![c] = [at |-> "ftJoin", task |-> NoTask,
                                              then |-> then, last |-> last]]

\* the reference is cleared, to whatever task it leads by now
FtDropped == [ft EXCEPT !.ref = FALSE, !.running = FALSE, !.task = NoTask]

\* _start_cw_decoder on decoder w: only _running is asked
CwStarted(w) ==
    /\ listeners' = listeners \cup {"cw"}
    /\ \/ w.running /\ cw' = w
       \/ /\ ~w.running
          /\ \E t \in ParkTasks :
              /\ Fresh(w, t)
              /\ cw' = [w EXCEPT !.ref = TRUE, !.running = TRUE, !.task = t,
                                 !.pc[t] = "new"]

\* _stop_cw_decoder; stop does nothing on a sweep that has failed
CwStopping(c, then, last) ==
    /\ cw.ref /\ ~Joins("cwJoin")
    /\ listeners' = listeners \ {"cw"}
    /\ cw' = IF cw.running
             THEN [cw EXCEPT !.running = FALSE, !.pc[cw.task] = "cancelled"] ELSE cw
    /\ parkPc' = [parkPc EXCEPT ![c] =
                    [at |-> "cwJoin", task |-> IF cw.running THEN cw.task ELSE NoTask,
                     then |-> then, last |-> last]]

\* mutant: a cancelled sweep leaves the radio parked
MutCwUnparked(c) == eng

CwUnparked(c) == IF parkPc[c].task = NoTask THEN eng ELSE Unparked

CwDropped == [cw EXCEPT !.ref = FALSE, !.running = FALSE, !.task = NoTask]

\* set_modes: another set of modes aborts the window under way
ModesSet(f) ==
    \E differs \in BOOLEAN :
        ft' = IF f.task = NoTask THEN f
              ELSE [f EXCEPT !.abort[f.task] = f.abort[f.task] \/ differs]

\* the next part of a change of decoders, with f and w the decoders by now
Proceed(c, then, last, f, w) ==
    \/ /\ then = "end"
       /\ ft' = f /\ cw' = w
       /\ Finish(c, last) /\ UNCHANGED listeners
    \/ /\ then = "ft"
       /\ IF f.ref THEN ModesSet(f) /\ UNCHANGED listeners ELSE FtStarted(f)
       /\ cw' = w
       /\ Finish(c, last)
    \/ /\ then = "cw" /\ w.ref
       /\ \/ ft' = f /\ cw' = w /\ Finish(c, last) /\ UNCHANGED listeners
          \/ last = "open" /\ CwStopping(c, "cw", last) /\ ft' = f
    \/ /\ then = "cw" /\ ~w.ref
       /\ CwStarted(w) /\ ft' = f
       /\ Finish(c, last)
    \/ /\ then = "ftOff"
       /\ \/ f.ref /\ FtStopping(c, "end", last)
          \/ ~f.ref /\ ft' = f /\ Finish(c, last) /\ UNCHANGED listeners
       /\ cw' = w

FtStopped(c) ==
    /\ parkPc[c].at = "ftJoin"
    /\ parkPc[c].task # NoTask => ft.pc[parkPc[c].task] = "gone"
    /\ Proceed(c, parkPc[c].then, parkPc[c].last, FtDropped, cw)
    /\ UNCHANGED <<eng, beacon, parkEnv>>

CwStopped(c) ==
    /\ parkPc[c].at = "cwJoin"
    /\ parkPc[c].task # NoTask => cw.pc[parkPc[c].task] = "gone"
    /\ Proceed(c, parkPc[c].then, parkPc[c].last, ft, CwDropped)
    /\ eng' = CwUnparked(c)
    /\ UNCHANGED <<beacon, parkEnv>>

\* the endpoints of one decoder
FtStart(c) ==
    /\ Asks(c) /\ Uses("ft")
    /\ FtStarted(ft)
    /\ UNCHANGED <<eng, beacon, cw, parkPc, parkEnv>>

FtStop(c) ==
    /\ Asks(c) /\ Uses("ft")
    /\ FtStopping(c, "end", "end")
    /\ UNCHANGED <<eng, beacon, cw, parkEnv>>

FtModes(c) ==
    /\ Asks(c) /\ Uses("ft") /\ ft.ref
    /\ ModesSet(ft)
    /\ UNCHANGED <<eng, listeners, beacon, cw, parkPc, parkEnv>>

CwStart(c) ==
    /\ Asks(c) /\ Uses("cw")
    /\ CwStarted(cw)
    /\ UNCHANGED <<eng, beacon, ft, parkPc, parkEnv>>

CwStop(c) ==
    /\ Asks(c) /\ Uses("cw")
    /\ CwStopping(c, "end", "end")
    /\ UNCHANGED <<eng, beacon, ft, parkEnv>>

\* scan_start and change_decoder_mode for FT, CW and other modes
SwitchMode(c, last) ==
    /\ Asks(c)
    /\ \/ /\ Uses("ft")
          /\ IF cw.ref THEN CwStopping(c, "ft", last) /\ UNCHANGED ft
                       ELSE Proceed(c, "ft", last, ft, cw)
       \/ /\ Uses("cw")
          /\ IF ft.ref THEN FtStopping(c, "cw", last) /\ UNCHANGED cw
                       ELSE Proceed(c, "cw", last, ft, cw)
       \/ IF cw.ref THEN CwStopping(c, "ftOff", last) /\ UNCHANGED ft
                    ELSE Proceed(c, "ftOff", last, ft, cw)
    /\ UNCHANGED <<eng, beacon, parkEnv>>

ScanStart(c)  == SwitchMode(c, "open")
ChangeMode(c) == SwitchMode(c, "end")

\* start_async: the parameters and the flag are reset before the open, also
\* by a start that is refused because the engine runs
ScanResets(c) ==
    /\ parkPc[c].at = "open"
    /\ \E b \in ScanBands :
        eng' = [eng EXCEPT !.parked = FALSE, !.center = <<"scan", b>>, !.band = b]
    /\ parkPc' = [parkPc EXCEPT ![c].at = "opening"]
    /\ UNCHANGED <<listeners, beacon, ft, cw, parkEnv>>

ScanOpened(c) ==
    /\ parkPc[c].at = "opening"
    /\ \/ ~eng.run /\ eng' = [eng EXCEPT !.run = TRUE]
       \/ UNCHANGED eng
    /\ Finish(c, "end")
    /\ UNCHANGED <<listeners, beacon, ft, cw, parkEnv>>

\* scan_stop does not touch the FT and CW decoders
ScanStop(c) ==
    /\ Asks(c) /\ eng.run
    /\ eng' = [eng EXCEPT !.run = FALSE]
    /\ UNCHANGED <<listeners, beacon, ft, cw, parkPc, parkEnv>>

\* retune_band_async of a rotation: another band without a stop
Retune ==
    /\ eng.run
    /\ \E b \in ScanBands \ {eng.band} :
        eng' = [eng EXCEPT !.parked = FALSE, !.center = <<"scan", b>>, !.band = b]
    /\ UNCHANGED <<listeners, beacon, ft, cw, parkPc, parkEnv>>

ParkAsks(c) == BeaconStart(c) \/ BeaconStop(c) \/ FtStart(c) \/ FtStop(c)
               \/ FtModes(c) \/ CwStart(c) \/ CwStop(c) \/ ScanStart(c)
               \/ ChangeMode(c) \/ ScanStop(c)

ParkGoesOn(c) == BeaconStopped(c) \/ FtStopped(c) \/ CwStopped(c)
                 \/ ScanResets(c) \/ ScanOpened(c)

ParkNext ==
    \/ SweepStep \/ Retune
    \/ \E t \in ParkTasks : \/ BeaconSteps(t) \/ BeaconRaises(t)
                            \/ FtSteps(t) \/ FtRaises(t)
                            \/ CwSteps(t) \/ CwRaises(t)
    \/ \E c \in ParkCallers : ParkAsks(c) \/ ParkGoesOn(c)

ParkSpec == ParkInit /\ [][ParkNext]_parkVars

\* every sleep, every thread and every await of a loop or a request ends
ParkFair ==
    /\ WF_parkVars(\E t \in ParkTasks : BeaconSteps(t))
    /\ WF_parkVars(\E t \in ParkTasks : FtSteps(t))
    /\ WF_parkVars(\E t \in ParkTasks : CwSteps(t))
    /\ WF_parkVars(\E c \in ParkCallers : ParkGoesOn(c))

-----------------------------------------------------------------------------
FtListens(t) == ft.pc[t] \in {"settle", "collect", "decode", "empty", "unwinding"}
CwListens(t) == cw.pc[t] # "gone"

\* A sweep is held up only for somebody who listens: without the two faults
\* (a CW sweep that raises, an FT stop in the 50 ms after the park) and with
\* requests that come one by one, a parked scan has a beacon scheduler that
\* holds it, an open FT window, a CW sweep, or a stop about to unpark.
ParkedForSomebody ==
    eng.run /\ eng.parked /\ ~parkEnv.overlap /\ parkEnv.faults = {}
      => \/ beacon.held # NoTask
         \/ \E t \in ParkTasks : FtListens(t) \/ CwListens(t)
         \/ Joins("cwJoin")

\* No loop outlives the reference that could stop it: with requests that come
\* one by one, a loop nobody has cancelled is the task of the decoder the API
\* holds, and the decoder says it runs.
NoStrayUser ==
    ~parkEnv.overlap =>
      \A t \in ParkTasks :
        /\ beacon.pc[t] \notin {"gone", "cancelled"}
             => beacon.task = t /\ beacon.running
        /\ ft.pc[t] \notin {"gone", "cancelled", "unwinding"}
             => ft.task = t /\ ft.running /\ ft.ref
        /\ cw.pc[t] \notin {"gone", "cancelled"}
             => cw.task = t /\ cw.running /\ cw.ref

\* However an FT window ends (decoded, empty, aborted, cancelled, failed), the
\* scan is released: no window keeps it for ever.
WindowsEnd ==
    ~parkEnv.overlap /\ "settle" \notin parkEnv.faults /\ (\E t \in ParkTasks : FtListens(t))
      ~> ~eng.parked \/ ~eng.run

\* The beacon scheduler parks only when its band changes, so a start, a retune
\* or another user that takes the radio away is repaired no sooner than that;
\* but with more than one band it is repaired.
BeaconRegainsBand ==
    ~parkEnv.overlap /\ beacon.running /\ parkEnv.faults = {}
      ~> ~beacon.running \/ (eng.parked /\ eng.center = beacon.held)

\* The radio goes back to whom it belongs: from the FT decoder to the scan, and
\* from whoever took it to the beacon scheduler.
RadioReturns == WindowsEnd /\ BeaconRegainsBand
===========================================================================
