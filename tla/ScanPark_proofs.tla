-------------------------- MODULE ScanPark_proofs --------------------------
(***************************************************************************)
(* Proofs about ScanPark, for any number of requests, of bands and of      *)
(* beacon slots, and any identities of tasks.                              *)
(***************************************************************************)
EXTENDS ScanPark, TLAPS

\* the types of the variables, as ParkTypeOK has them
Engines == [run : BOOLEAN, parked : BOOLEAN, center : Centers, band : ScanBands \cup {NoTask}]
BeaconStates == [running : BOOLEAN, task : ParkTasks \cup {NoTask}, held : Centers,
                 band : 1 .. Len(BeaconBands), slots : 0 .. SlotsPerCycle - 1,
                 pc : [ParkTasks -> {"gone", "wait", "settle", "collect", "detect", "cancelled"}]]
FtStates == [ref : BOOLEAN, running : BOOLEAN, task : ParkTasks \cup {NoTask},
             abort : [ParkTasks -> BOOLEAN],
             before : [ParkTasks -> ScanBands \cup {NoTask}],
             pc : [ParkTasks -> {"gone", "new", "poll", "slot", "settle", "collect",
                                 "decode", "empty", "cancelled", "unwinding"}]]
CwStates == [ref : BOOLEAN, running : BOOLEAN, task : ParkTasks \cup {NoTask},
             pos : [ParkTasks -> 1 .. CwPositions],
             pc : [ParkTasks -> {"gone", "new", "settle", "norate", "collect", "decode", "cancelled"}]]
Requests == [at : {"idle", "beaconJoin", "ftJoin", "cwJoin", "open", "opening"},
             task : ParkTasks \cup {NoTask},
             then : {"end", "ft", "cw", "ftOff"}, last : {"end", "open"}]

\* A running engine has a band, and so has one a start is about to set running.
BandKnown == eng.run \/ Joins("opening") => eng.band # NoTask

ParkTyped == ParkTypeOK /\ BandKnown

LEMMA ParkTypeOKParts ==
    ParkTypeOK <=> /\ eng \in Engines /\ listeners \subseteq {"beacon", "ft", "cw"}
                   /\ beacon \in BeaconStates /\ ft \in FtStates /\ cw \in CwStates
                   /\ parkPc \in [ParkCallers -> Requests] /\ parkEnv \in ParkEnvs
  BY DEF ParkTypeOK, Engines, BeaconStates, FtStates, CwStates, Requests

\* Every frequency somebody parks on is one the engine can be tuned to.
LEMMA CentersKnown ==
    /\ NoTask \in Centers
    /\ \A b \in ScanBands : <<"scan", b>> \in Centers /\ <<"ft", b>> \in Centers
    /\ \A p \in 1 .. CwPositions : <<"cw", p>> \in Centers
    /\ \A i \in 1 .. Len(BeaconBands) : <<"beacon", BeaconBands[i]>> \in Centers
  BY DEF Centers

LEMMA EngineMoves ==
    ASSUME eng \in Engines
    PROVE  /\ Unparked \in Engines /\ FtUnparked \in Engines
           /\ Unparked.run = eng.run /\ ~Unparked.parked /\ Unparked.band = eng.band
           /\ FtUnparked.run = eng.run /\ FtUnparked.band = eng.band
           /\ FtUnparked.parked => ~eng.run /\ eng.parked
           /\ \A hz \in Centers : /\ Parked(hz) \in Engines /\ Parked(hz).parked
                                  /\ Parked(hz).run = eng.run /\ Parked(hz).band = eng.band
  BY DEF Engines, Unparked, FtUnparked, Parked

-----------------------------------------------------------------------------
(***************************************************************************)
(* What a step of a loop may do, whatever the step.                        *)
(***************************************************************************)
\* the engine keeps running on its band
EngineKept == eng' \in Engines /\ eng'.run = eng.run /\ eng'.band = eng.band

BeaconMoved(t) ==
    /\ UNCHANGED <<listeners, ft, cw, parkPc, parkEnv>>
    /\ EngineKept /\ beacon' \in BeaconStates
    /\ beacon'.running = beacon.running /\ beacon'.task = beacon.task
    /\ \A s \in ParkTasks \ {t} : beacon'.pc[s] = beacon.pc[s]
    /\ beacon.pc[t] # "gone"
    /\ beacon.pc[t] = "cancelled" => beacon'.pc[t] = "gone"
    /\ \/ eng' = eng /\ beacon'.held = beacon.held
       \/ beacon'.held # NoTask

LEMMA BeaconLoopMoves ==
    ASSUME ParkTypeOK, NEW t \in ParkTasks, BeaconSteps(t) \/ BeaconRaises(t)
    PROVE  BeaconMoved(t)
  <1> USE ParkAssumption, ParkTypeOKParts
  <1> DEFINE N == Len(BeaconBands)
  <1>n. N \in Nat \ {0} /\ beacon.band \in 1 .. N
    BY DEF BeaconStates
  <1>1. CASE BeaconSlotStarts(t)
    <2> DEFINE hz == <<"beacon", BeaconBands[beacon.band]>>
    <2>1. hz \in Centers /\ hz # NoTask
      BY <1>n, CentersKnown
    <2>2. CASE beacon.held = hz
      <3>1. /\ beacon' = [beacon EXCEPT !.pc[t] = "collect"] /\ eng' = eng
            /\ beacon.pc[t] = "wait" /\ BeaconOnly
        BY <1>1, <2>2 DEF BeaconSlotStarts
      <3> HIDE DEF hz
      <3> QED BY <3>1 DEF BeaconOnly, BeaconMoved, BeaconStates, EngineKept
    <2>3. CASE beacon.held # hz
      <3>1. eng' = Parked(hz) /\ beacon' = [beacon EXCEPT !.held = hz, !.pc[t] = "settle"]
            /\ beacon.pc[t] = "wait" /\ BeaconOnly
        BY <1>1, <2>3 DEF BeaconSlotStarts
      <3>2. EngineKept
        BY <2>1, <3>1, EngineMoves DEF EngineKept
      <3> HIDE DEF hz
      <3> QED BY <2>1, <3>1, <3>2 DEF BeaconOnly, BeaconMoved, BeaconStates
    <2> QED BY <2>2, <2>3
  <1>2. ASSUME NEW b, b = AfterSlot(t)
        PROVE  /\ b \in BeaconStates /\ b.running = beacon.running /\ b.task = beacon.task
               /\ b.held = beacon.held /\ b.pc = [beacon.pc EXCEPT ![t] = "wait"]
    <2>1. /\ (beacon.band % N) + 1 \in 1 .. N
          /\ beacon.slots + 1 # SlotsPerCycle => beacon.slots + 1 \in 0 .. SlotsPerCycle - 1
          /\ 0 \in 0 .. SlotsPerCycle - 1
      BY <1>n DEF BeaconStates
    <2> QED BY <1>2, <2>1 DEF AfterSlot, BeaconStates
  <1>3. CASE BeaconSettled(t)
    BY <1>3 DEF BeaconSettled, BeaconOnly, BeaconMoved, EngineKept, BeaconStates
  <1>4. CASE BeaconCollected(t)
    <2>1. CASE beacon' = [beacon EXCEPT !.pc[t] = "detect"]
      BY <1>4, <2>1 DEF BeaconCollected, BeaconOnly, BeaconMoved, EngineKept, BeaconStates
    <2>2. CASE beacon' = AfterSlot(t)
      BY <1>4, <1>2, <2>2 DEF BeaconCollected, BeaconOnly, BeaconMoved, EngineKept, BeaconStates
    <2> QED BY <1>4, <2>1, <2>2 DEF BeaconCollected
  <1>5. CASE BeaconDetected(t)
    BY <1>5, <1>2 DEF BeaconDetected, BeaconOnly, BeaconMoved, EngineKept, BeaconStates
  <1>6. CASE BeaconRaises(t)
    BY <1>6 DEF BeaconRaises, BeaconOnly, BeaconMoved, EngineKept, BeaconStates
  <1>7. CASE BeaconEnds(t)
    BY <1>7 DEF BeaconEnds, BeaconOnly, BeaconMoved, EngineKept, BeaconStates
  <1> QED BY <1>1, <1>3, <1>4, <1>5, <1>6, <1>7 DEF BeaconSteps

\* A window that is over has released a scan that runs; a park is of such a scan.
FtMoved(t) ==
    /\ UNCHANGED <<listeners, beacon, cw, parkPc, parkEnv>>
    /\ EngineKept /\ ft' \in FtStates
    /\ ft'.ref = ft.ref /\ ft'.task = ft.task
    /\ ft'.running = ft.running \/ (~ft'.running /\ ft.task = t /\ ft'.pc[t] = "gone")
    /\ \A s \in ParkTasks \ {t} : ft'.pc[s] = ft.pc[s]
    /\ ft.pc[t] # "gone" /\ ft'.pc[t] \notin {"cancelled", "unwinding"}
    /\ ft.pc[t] \in {"cancelled", "unwinding"} => ft'.pc[t] = "gone"
    /\ eng'.parked => IF eng.run THEN FtListens(t)' \/ (eng.parked /\ ~FtListens(t))
                                 ELSE eng.parked

LEMMA FtLoopMoves ==
    ASSUME ParkTyped, NEW t \in ParkTasks, FtSteps(t) \/ FtRaises(t)
    PROVE  FtMoved(t)
  <1> USE ParkAssumption, ParkTypeOKParts DEF ParkTyped
  <1>0. /\ eng \in Engines /\ eng.band \in ScanBands \cup {NoTask} /\ eng.run \in BOOLEAN
        /\ eng.parked \in BOOLEAN
        /\ eng.run => eng.band \in ScanBands
    BY DEF Engines, BandKnown
  <1>1. ASSUME NEW f, f = FtTop(t)
        PROVE  /\ f \in FtStates /\ f.ref = ft.ref /\ f.task = ft.task /\ f.running = ft.running
               /\ f.pc[t] \in {"poll", "slot"}
               /\ \A s \in ParkTasks \ {t} : f.pc[s] = ft.pc[s]
    BY <1>0, <1>1 DEF FtTop, FtStates
  <1>k. eng' = eng => EngineKept
    BY DEF EngineKept
  <1>u. eng' = FtUnparked => EngineKept /\ (eng'.parked => ~eng.run /\ eng.parked)
    BY EngineMoves DEF EngineKept
  <1>2. CASE FtIterate(t)
    BY <1>2, <1>1, <1>k DEF FtIterate, FtOnly, FtMoved, FtListens
  <1>3. CASE FtSlot(t)
    <2>1. CASE ft' = FtTop(t) /\ UNCHANGED eng
      BY <1>3, <2>1, <1>1, <1>k DEF FtSlot, FtOnly, FtMoved, FtListens
    <2>2. CASE /\ ft' = [ft EXCEPT !.pc[t] = "settle"]
               /\ eng' = IF eng.run THEN Parked(<<"ft", eng.band>>) ELSE eng
      <3>1. EngineKept /\ (~eng.run => eng' = eng)
        BY <2>2, <1>0, CentersKnown, EngineMoves DEF EngineKept
      <3>2. /\ ft' \in FtStates /\ ft'.pc = [ft.pc EXCEPT ![t] = "settle"]
            /\ ft'.ref = ft.ref /\ ft'.task = ft.task /\ ft'.running = ft.running
        BY <2>2 DEF FtStates
      <3>3. FtOnly /\ ft.pc[t] = "slot" /\ DOMAIN ft.pc = ParkTasks
        BY <1>3 DEF FtSlot, FtStates
      <3> QED BY <3>1, <3>2, <3>3 DEF FtOnly, FtMoved, FtListens
    <2> QED BY <1>3, <2>1, <2>2 DEF FtSlot
  <1>4. CASE FtSettled(t)
    BY <1>4, <1>k DEF FtSettled, FtOnly, FtMoved, FtListens, FtStates
  <1>5. CASE FtCollected(t)
    <2>1. CASE ft' = FtTop(t) /\ eng' = FtUnparked
      BY <1>5, <2>1, <1>1, <1>u DEF FtCollected, FtOnly, FtMoved, FtListens
    <2>2. ASSUME NEW where \in {"decode", "empty"}, ft' = [ft EXCEPT !.pc[t] = where],
                 UNCHANGED eng
          PROVE  FtMoved(t)
      <3>1. /\ ft' \in FtStates /\ ft'.pc = [ft.pc EXCEPT ![t] = where]
            /\ ft'.ref = ft.ref /\ ft'.task = ft.task /\ ft'.running = ft.running
        BY <2>2 DEF FtStates
      <3>2. FtOnly /\ ft.pc[t] = "collect" /\ DOMAIN ft.pc = ParkTasks
        BY <1>5 DEF FtCollected, FtStates
      <3> QED BY <2>2, <3>1, <3>2, <1>k DEF FtOnly, FtMoved, FtListens
    <2> QED BY <1>5, <2>1, <2>2 DEF FtCollected
  <1>6. CASE FtDecoded(t)
    BY <1>6, <1>u DEF FtDecoded, FtOnly, FtMoved, FtListens, FtStates
  <1>7. CASE FtEmptyPolled(t)
    BY <1>7, <1>1, <1>u DEF FtEmptyPolled, FtOnly, FtMoved, FtListens
  <1>8. CASE FtRaises(t)
    BY <1>8, <1>u DEF FtRaises, FtOnly, FtMoved, FtListens, FtStates
  <1>9. CASE FtEnds(t)
    BY <1>9, <1>u, <1>k DEF FtEnds, FtOnly, FtMoved, FtListens, FtStates
  <1> QED BY <1>2, <1>3, <1>4, <1>5, <1>6, <1>7, <1>8, <1>9 DEF FtSteps

\* A sweep ends by a cancellation, or else by an error.
CwMoved(t) ==
    /\ UNCHANGED <<listeners, beacon, ft, parkPc, parkEnv>>
    /\ EngineKept /\ cw' \in CwStates
    /\ cw'.ref = cw.ref /\ cw'.task = cw.task
    /\ cw'.running = cw.running \/ (~cw'.running /\ cw.task = t /\ cw'.pc[t] = "gone")
    /\ \A s \in ParkTasks \ {t} : cw'.pc[s] = cw.pc[s]
    /\ cw.pc[t] # "gone" /\ cw'.pc[t] # "cancelled"
    /\ cw.pc[t] = "cancelled" => cw'.pc[t] = "gone"
    /\ cw.pc[t] # "cancelled" /\ "raise" \notin parkEnv.faults => cw'.pc[t] # "gone"

LEMMA CwLoopMoves ==
    ASSUME ParkTypeOK, NEW t \in ParkTasks, CwSteps(t) \/ CwRaises(t)
    PROVE  CwMoved(t)
  <1> USE ParkAssumption, ParkTypeOKParts
  <1>1. ASSUME NEW p \in 1 .. CwPositions, CwTune(t, p), cw.pc[t] \notin {"gone", "cancelled"}
        PROVE  CwMoved(t)
    <2>1. EngineKept
      BY <1>1, CentersKnown, EngineMoves DEF CwTune, EngineKept
    <2> QED BY <1>1, <2>1 DEF CwTune, CwOnly, CwMoved, CwStates
  <1>p. 1 \in 1 .. CwPositions /\ (cw.pos[t] % CwPositions) + 1 \in 1 .. CwPositions
    BY DEF CwStates
  <1>2. CASE CwBegins(t)
    BY <1>2, <1>1, <1>p DEF CwBegins
  <1>3. CASE CwSettled(t)
    <2>1. PICK next \in {"collect", "norate"} : cw' = [cw EXCEPT !.pc[t] = next]
      BY <1>3 DEF CwSettled
    <2> QED BY <1>3, <2>1 DEF CwSettled, CwOnly, CwMoved, CwStates, EngineKept
  <1>4. CASE CwCollected(t)
    BY <1>4 DEF CwCollected, CwOnly, CwMoved, CwStates, EngineKept
  <1>5. CASE CwAdvances(t)
    BY <1>5, <1>1, <1>p DEF CwAdvances
  <1>6. CASE CwRaises(t)
    BY <1>6, <1>p DEF CwRaises, CwOnly, CwMoved, CwStates, EngineKept
  <1>7. CASE CwEnds(t)
    BY <1>7, <1>p DEF CwEnds, CwOnly, CwMoved, CwStates, EngineKept
  <1> QED BY <1>2, <1>3, <1>4, <1>5, <1>6, <1>7 DEF CwSteps

-----------------------------------------------------------------------------
(***************************************************************************)
(* The inductive invariant.                                                *)
(***************************************************************************)
\* Requests that come one by one: one is under way at most.
OneAtWork ==
    \A c, d \in ParkCallers : parkPc[c] # Nowhere /\ parkPc[d] # Nowhere => c = d

\* A loop nobody has cancelled is the task of a decoder that runs; a stop that
\* waits has cleared the flag; a cancelled loop is waited for.
BeaconSound ==
    \A t \in ParkTasks :
        beacon.pc[t] \notin {"gone", "cancelled"} => beacon.task = t /\ beacon.running
FtSound(f) ==
    \A t \in ParkTasks : f.pc[t] \notin {"gone", "cancelled", "unwinding"}
                           => f.task = t /\ f.running /\ f.ref
CwSound(w) ==
    \A t \in ParkTasks : w.pc[t] \notin {"gone", "cancelled"}
                           => w.task = t /\ w.running /\ w.ref

Awaited(where, t) == \E c \in ParkCallers : parkPc[c].at = where /\ parkPc[c].task = t

BeaconSerial == BeaconSound /\ (Joins("beaconJoin") => ~beacon.running)
FtSerial ==
    /\ FtSound(ft) /\ (Joins("ftJoin") => ~ft.running)
    /\ \A t \in ParkTasks : ft.pc[t] \in {"cancelled", "unwinding"} => Awaited("ftJoin", t)
CwSerial ==
    /\ CwSound(cw) /\ (Joins("cwJoin") => ~cw.running)
    /\ \A t \in ParkTasks : cw.pc[t] = "cancelled" => Awaited("cwJoin", t)

\* Who keeps a sweep parked, and will unpark it.
CwHolds == \/ \E t \in ParkTasks : CwListens(t)
           \/ \E c \in ParkCallers : parkPc[c].at = "cwJoin" /\ parkPc[c].task # NoTask
Held == beacon.held # NoTask \/ CwHolds \/ \E t \in ParkTasks : FtListens(t)

\* A start has cleared the flag before it opens the device: of those who park,
\* FT parks only a scan that runs.
HeldWhileParked ==
    /\ eng.run /\ eng.parked => Held
    /\ ~eng.run /\ eng.parked /\ Joins("opening") => beacon.held # NoTask \/ CwHolds

SerialInv == OneAtWork /\ BeaconSerial /\ FtSerial /\ CwSerial
             /\ (parkEnv.faults = {} => HeldWhileParked)

ParkInv == ParkTyped /\ (~parkEnv.overlap => SerialInv)

-----------------------------------------------------------------------------
(***************************************************************************)
(* What a step of a request may do.                                        *)
(***************************************************************************)
\* FT is kept or started, from the state f
FtGoesOn(f) ==
    /\ ft' \in FtStates
    /\ FtSound(f) => FtSound(ft')
    /\ \A t \in ParkTasks : \/ f.pc[t] # "gone" /\ ft'.pc[t] = f.pc[t]
                            \/ f.pc[t] = "gone" /\ ft'.pc[t] \in {"gone", "new"}

\* FT is told to stop, and its task j awaited
FtTold(j) ==
    /\ ft' \in FtStates /\ ~ft'.running
    /\ FtSound(ft) => FtSound(ft')
    /\ \A t \in ParkTasks : ft'.pc[t] \in {"cancelled", "unwinding"}
                              => ft.pc[t] \in {"cancelled", "unwinding"} \/ t = j
    /\ parkEnv.faults = {} =>
         \A t \in ParkTasks : FtListens(t) /\ ft.pc[t] # "unwinding" => FtListens(t)'

CwGoesOn(w) ==
    /\ cw' \in CwStates
    /\ CwSound(w) => CwSound(cw')
    /\ \A t \in ParkTasks : \/ w.pc[t] # "gone" /\ cw'.pc[t] = w.pc[t]
                            \/ w.pc[t] = "gone" /\ cw'.pc[t] \in {"gone", "new"}

CwTold(j) ==
    /\ cw' \in CwStates /\ ~cw'.running
    /\ CwSound(cw) => CwSound(cw')
    /\ \A t \in ParkTasks : cw'.pc[t] = "cancelled" => cw.pc[t] = "cancelled" \/ t = j
    /\ \A t \in ParkTasks : CwListens(t) => CwListens(t)'

\* A request goes on from the decoders f and w: it starts, stops or keeps them.
RequestMoved(c, f, w) ==
    /\ listeners' \subseteq {"beacon", "ft", "cw"}
    /\ \E r \in Requests :
        /\ parkPc' = [parkPc EXCEPT ![c] = r]
        /\ \/ r.at \in {"idle", "open"} /\ FtGoesOn(f) /\ CwGoesOn(w)
           \/ r.at = "ftJoin" /\ f = ft /\ FtTold(r.task) /\ CwGoesOn(w)
           \/ r.at = "cwJoin" /\ w = cw /\ CwTold(r.task) /\ FtGoesOn(f)

LEMMA NowhereTyped ==
    /\ Nowhere \in Requests /\ Nowhere.at = "idle"
    /\ [Nowhere EXCEPT !.at = "open"] \in Requests
  BY DEF Nowhere, Requests

LEMMA FtKeeps ==
    ASSUME NEW f \in FtStates, ft' = f \/ ModesSet(f)
    PROVE  FtGoesOn(f)
  <1>1. CASE ft' = f
    BY <1>1 DEF FtGoesOn, FtStates, FtSound
  <1>2. CASE ModesSet(f)
    <2>1. PICK b \in BOOLEAN : ft' = [f EXCEPT !.abort[f.task] = b] \/ ft' = f
      BY <1>2 DEF ModesSet, FtStates
    <2> QED BY <2>1, <1>1 DEF FtGoesOn, FtStates, FtSound
  <1> QED BY <1>1, <1>2

LEMMA FtStarts ==
    ASSUME NEW f \in FtStates, FtStarted(f), listeners \subseteq {"beacon", "ft", "cw"}
    PROVE  FtGoesOn(f) /\ listeners' \subseteq {"beacon", "ft", "cw"}
  <1>0. listeners' \subseteq {"beacon", "ft", "cw"}
    BY DEF FtStarted
  <1>1. CASE ft' = f
    BY <1>0, <1>1, FtKeeps
  <1>2. CASE ft' # f
    <2>1. PICK t \in ParkTasks :
            /\ f.pc[t] = "gone"
            /\ ft' = [f EXCEPT !.ref = TRUE, !.running = TRUE, !.task = t, !.pc[t] = "new"]
      BY <1>2 DEF FtStarted, Fresh, Free
    <2>2. ~(f.running /\ f.task # NoTask /\ f.pc[f.task] # "gone")
      BY <1>2 DEF FtStarted, Alive
    <2>3. /\ ft' \in FtStates /\ ft'.pc = [f.pc EXCEPT ![t] = "new"]
          /\ ft'.task = t /\ ft'.running /\ ft'.ref
      BY <2>1 DEF FtStates
    <2>4. FtSound(f) => \A s \in ParkTasks : f.pc[s] \in {"gone", "cancelled", "unwinding"}
      BY <2>2, ParkAssumption DEF FtSound
    <2>5. DOMAIN f.pc = ParkTasks
      BY DEF FtStates
    <2>6. FtSound(f) => FtSound(ft')
      BY <2>3, <2>4, <2>5 DEF FtSound
    <2> QED BY <1>0, <2>1, <2>3, <2>5, <2>6 DEF FtGoesOn
  <1> QED BY <1>1, <1>2

LEMMA FtStops ==
    ASSUME ParkTypeOK, NEW c \in ParkCallers, NEW then \in {"end", "ft", "cw", "ftOff"},
           NEW last \in {"end", "open"}, FtStopping(c, then, last)
    PROVE  /\ \E r \in Requests : /\ r.at = "ftJoin" /\ FtTold(r.task)
                                  /\ parkPc' = [parkPc EXCEPT ![c] = r]
           /\ listeners' \subseteq {"beacon", "ft", "cw"}
  <1>0. ft \in FtStates /\ ft.task \in ParkTasks \cup {NoTask} /\ DOMAIN ft.pc = ParkTasks
        /\ listeners' \subseteq {"beacon", "ft", "cw"}
    BY ParkTypeOKParts DEF FtStates, FtStopping
  <1>1. CASE Alive(ft)
    <2> DEFINE r == [at |-> "ftJoin", task |-> ft.task, then |-> then, last |-> last]
               how == IF ft.pc[ft.task] \in {"collect", "decode", "empty"}
                      THEN "unwinding" ELSE "cancelled"
    <2>1. /\ ft.pc[ft.task] = "settle" => "settle" \in parkEnv.faults
          /\ ft' = [ft EXCEPT !.running = FALSE, !.pc[ft.task] = how]
          /\ parkPc' = [parkPc EXCEPT ![c] = r]
      BY <1>1 DEF FtStopping
    <2>2. r \in Requests /\ r.at = "ftJoin" /\ r.task = ft.task
      BY <1>0 DEF Requests
    <2>3. ft.task \in ParkTasks
      BY <1>0, <1>1 DEF Alive
    <2>4. /\ ft' \in FtStates /\ ~ft'.running /\ ft'.task = ft.task
          /\ ft'.pc = [ft.pc EXCEPT ![ft.task] = how]
      BY <1>0, <2>1, <2>3 DEF FtStates
    <2>5. FtSound(ft) => FtSound(ft')
      BY <1>0, <2>3, <2>4 DEF FtSound
    <2>6. FtTold(ft.task)
      BY <1>0, <2>1, <2>3, <2>4, <2>5 DEF FtTold, FtListens
    <2> HIDE DEF r
    <2> QED BY <1>0, <2>1, <2>2, <2>6
  <1>2. CASE ~Alive(ft)
    <2> DEFINE r == [at |-> "ftJoin", task |-> NoTask, then |-> then, last |-> last]
    <2>1. ft' = [ft EXCEPT !.running = FALSE] /\ parkPc' = [parkPc EXCEPT ![c] = r]
      BY <1>2 DEF FtStopping
    <2>2. r \in Requests /\ r.at = "ftJoin"
      BY DEF Requests
    <2>3. ft' \in FtStates /\ ~ft'.running /\ ft'.pc = ft.pc
      BY <1>0, <2>1 DEF FtStates
    <2>4. FtSound(ft) => \A s \in ParkTasks : ft.pc[s] \in {"gone", "cancelled", "unwinding"}
      BY <1>2, ParkAssumption DEF FtSound, Alive
    <2>5. FtTold(r.task)
      BY <2>3, <2>4 DEF FtTold, FtSound, FtListens
    <2> HIDE DEF r
    <2> QED BY <1>0, <2>1, <2>2, <2>5
  <1> QED BY <1>1, <1>2

LEMMA CwStarts ==
    ASSUME NEW w \in CwStates, CwStarted(w), listeners \subseteq {"beacon", "ft", "cw"}
    PROVE  CwGoesOn(w) /\ listeners' \subseteq {"beacon", "ft", "cw"}
  <1>0. listeners' \subseteq {"beacon", "ft", "cw"}
    BY DEF CwStarted
  <1>1. CASE cw' = w
    BY <1>0, <1>1 DEF CwGoesOn, CwStates, CwSound
  <1>2. CASE cw' # w
    <2>1. PICK t \in ParkTasks :
            /\ w.pc[t] = "gone" /\ ~w.running
            /\ cw' = [w EXCEPT !.ref = TRUE, !.running = TRUE, !.task = t, !.pc[t] = "new"]
      BY <1>2 DEF CwStarted, Fresh, Free
    <2>2. /\ cw' \in CwStates /\ cw'.pc = [w.pc EXCEPT ![t] = "new"]
          /\ cw'.task = t /\ cw'.running /\ cw'.ref /\ DOMAIN w.pc = ParkTasks
      BY <2>1 DEF CwStates
    <2>3. CwSound(w) => CwSound(cw')
      BY <2>1, <2>2 DEF CwSound
    <2> QED BY <1>0, <2>1, <2>2, <2>3 DEF CwGoesOn
  <1> QED BY <1>1, <1>2

LEMMA CwStops ==
    ASSUME ParkTypeOK, NEW c \in ParkCallers, NEW then \in {"end", "ft", "cw", "ftOff"},
           NEW last \in {"end", "open"}, CwStopping(c, then, last)
    PROVE  /\ \E r \in Requests : /\ r.at = "cwJoin" /\ CwTold(r.task)
                                  /\ parkPc' = [parkPc EXCEPT ![c] = r]
           /\ listeners' \subseteq {"beacon", "ft", "cw"}
  <1> DEFINE r == [at |-> "cwJoin", task |-> IF cw.running THEN cw.task ELSE NoTask,
                   then |-> then, last |-> last]
  <1>0. /\ cw \in CwStates /\ cw.task \in ParkTasks \cup {NoTask} /\ DOMAIN cw.pc = ParkTasks
        /\ cw.running \in BOOLEAN
        /\ listeners' \subseteq {"beacon", "ft", "cw"} /\ parkPc' = [parkPc EXCEPT ![c] = r]
    BY ParkTypeOKParts DEF CwStates, CwStopping
  <1>1. r \in Requests /\ r.at = "cwJoin" /\ r.task = IF cw.running THEN cw.task ELSE NoTask
    BY <1>0 DEF Requests
  <1> HIDE DEF r
  <1>2. CASE cw.running
    <2>1. cw' = [cw EXCEPT !.running = FALSE, !.pc[cw.task] = "cancelled"]
      BY <1>2 DEF CwStopping
    <2>2. /\ cw' \in CwStates /\ ~cw'.running
          /\ cw'.pc = [cw.pc EXCEPT ![cw.task] = "cancelled"]
      BY <1>0, <2>1 DEF CwStates
    <2>3. CwTold(r.task)
      BY <1>0, <1>1, <1>2, <2>2 DEF CwTold, CwSound, CwListens
    <2> QED BY <1>0, <1>1, <2>3
  <1>3. CASE ~cw.running
    <2>1. cw' = cw
      BY <1>3 DEF CwStopping
    <2>2. CwTold(r.task)
      BY <1>0, <1>3, <2>1 DEF CwTold, CwListens
    <2> QED BY <1>0, <1>1, <2>2
  <1> QED BY <1>2, <1>3

LEMMA Finishes ==
    ASSUME NEW c \in ParkCallers, NEW last \in {"end", "open"}, Finish(c, last)
    PROVE  \E r \in Requests : r.at \in {"idle", "open"} /\ parkPc' = [parkPc EXCEPT ![c] = r]
  BY NowhereTyped DEF Finish, Nowhere

LEMMA ProceedMoves ==
    ASSUME ParkTypeOK, NEW c \in ParkCallers, NEW then \in {"end", "ft", "cw", "ftOff"},
           NEW last \in {"end", "open"},
           NEW f \in FtStates, NEW w \in CwStates, f = ft \/ ~f.ref, w = cw \/ ~w.ref,
           Proceed(c, then, last, f, w)
    PROVE  RequestMoved(c, f, w)
  <1>0. listeners \subseteq {"beacon", "ft", "cw"}
    BY ParkTypeOKParts
  <1>f. ft' = f \/ ModesSet(f) => FtGoesOn(f)
    BY FtKeeps
  <1>w. cw' = w => CwGoesOn(w)
    BY DEF CwGoesOn, CwStates, CwSound
  <1>1. CASE ft' = f /\ cw' = w /\ Finish(c, last) /\ UNCHANGED listeners
    BY <1>0, <1>f, <1>w, <1>1, Finishes DEF RequestMoved
  <1>2. CASE ModesSet(f) /\ UNCHANGED listeners /\ cw' = w /\ Finish(c, last)
    BY <1>0, <1>f, <1>w, <1>2, Finishes DEF RequestMoved
  <1>3. CASE FtStarted(f) /\ cw' = w /\ Finish(c, last)
    <2>1. FtGoesOn(f) /\ listeners' \subseteq {"beacon", "ft", "cw"}
      BY <1>0, <1>3, FtStarts
    <2> QED BY <2>1, <1>3, <1>w, Finishes DEF RequestMoved
  <1>4. CASE w.ref /\ CwStopping(c, "cw", last) /\ ft' = f
    BY <1>4, <1>f, CwStops DEF RequestMoved
  <1>5. CASE CwStarted(w) /\ ft' = f /\ Finish(c, last)
    <2>1. CwGoesOn(w) /\ listeners' \subseteq {"beacon", "ft", "cw"}
      BY <1>0, <1>5, CwStarts
    <2> QED BY <2>1, <1>5, <1>f, Finishes DEF RequestMoved
  <1>6. CASE f.ref /\ FtStopping(c, "end", last) /\ cw' = w
    BY <1>6, <1>w, FtStops DEF RequestMoved
  <1> QED BY <1>1, <1>2, <1>3, <1>4, <1>5, <1>6 DEF Proceed

\* the requests that deal with the FT and CW decoders, and what they go on from
FtCwRequest(c) == FtStart(c) \/ FtStop(c) \/ FtModes(c) \/ CwStart(c) \/ CwStop(c)
                  \/ ScanStart(c) \/ ChangeMode(c)

LEMMA DroppedTyped ==
    ASSUME ParkTypeOK
    PROVE  /\ FtDropped \in FtStates /\ ~FtDropped.ref /\ FtDropped.pc = ft.pc
           /\ CwDropped \in CwStates /\ ~CwDropped.ref /\ CwDropped.pc = cw.pc
  BY ParkTypeOKParts DEF FtDropped, CwDropped, FtStates, CwStates

LEMMA RequestsMove ==
    ASSUME ParkTypeOK, NEW c \in ParkCallers, FtCwRequest(c)
    PROVE  RequestMoved(c, ft, cw) /\ UNCHANGED <<eng, beacon, parkEnv>> /\ Asks(c)
  <1>0. /\ ft \in FtStates /\ cw \in CwStates /\ listeners \subseteq {"beacon", "ft", "cw"}
        /\ parkPc \in [ParkCallers -> Requests]
    BY ParkTypeOKParts
  <1>f. ft' = ft => FtGoesOn(ft)
    BY <1>0, FtKeeps
  <1>w. cw' = cw => CwGoesOn(cw)
    BY <1>0 DEF CwGoesOn, CwStates, CwSound
  <1>i. Asks(c) /\ UNCHANGED parkPc =>
          \E r \in Requests : r.at \in {"idle", "open"} /\ parkPc' = [parkPc EXCEPT ![c] = r]
    BY <1>0, NowhereTyped DEF Asks
  <1>1. CASE FtStart(c)
    <2>1. FtGoesOn(ft) /\ listeners' \subseteq {"beacon", "ft", "cw"}
      BY <1>0, <1>1, FtStarts DEF FtStart
    <2> QED BY <2>1, <1>w, <1>i, <1>1 DEF FtStart, RequestMoved
  <1>2. CASE FtStop(c)
    <2>1. FtStopping(c, "end", "end") /\ Asks(c) /\ UNCHANGED <<eng, beacon, cw, parkEnv>>
      BY <1>2 DEF FtStop
    <2> QED BY <2>1, <1>w, FtStops DEF RequestMoved
  <1>3. CASE FtModes(c)
    <2>1. FtGoesOn(ft)
      BY <1>0, <1>3, FtKeeps DEF FtModes
    <2> QED BY <1>0, <2>1, <1>w, <1>i, <1>3 DEF FtModes, RequestMoved
  <1>4. CASE CwStart(c)
    <2>1. CwGoesOn(cw) /\ listeners' \subseteq {"beacon", "ft", "cw"}
      BY <1>0, <1>4, CwStarts DEF CwStart
    <2> QED BY <2>1, <1>f, <1>i, <1>4 DEF CwStart, RequestMoved
  <1>5. CASE CwStop(c)
    <2>1. CwStopping(c, "end", "end") /\ Asks(c) /\ UNCHANGED <<eng, beacon, ft, parkEnv>>
      BY <1>5 DEF CwStop
    <2> QED BY <2>1, <1>f, CwStops DEF RequestMoved
  <1>6. ASSUME NEW last \in {"end", "open"}, SwitchMode(c, last)
        PROVE  RequestMoved(c, ft, cw) /\ UNCHANGED <<eng, beacon, parkEnv>> /\ Asks(c)
    <2>0. UNCHANGED <<eng, beacon, parkEnv>> /\ Asks(c)
      BY <1>6 DEF SwitchMode
    <2>1. CASE \E then \in {"ft", "ftOff"} : CwStopping(c, then, last) /\ UNCHANGED ft
      <3>1. PICK then \in {"ft", "ftOff"} : CwStopping(c, then, last) /\ UNCHANGED ft
        BY <2>1
      <3> QED BY <2>0, <3>1, <1>f, CwStops DEF RequestMoved
    <2>2. CASE \E then \in {"ft", "cw", "ftOff"} : Proceed(c, then, last, ft, cw)
      BY <1>0, <2>0, <2>2, ProceedMoves
    <2>3. CASE FtStopping(c, "cw", last) /\ UNCHANGED cw
      BY <2>0, <2>3, <1>w, FtStops DEF RequestMoved
    <2> QED BY <1>6, <2>1, <2>2, <2>3 DEF SwitchMode
  <1> QED BY <1>1, <1>2, <1>3, <1>4, <1>5, <1>6 DEF FtCwRequest, ScanStart, ChangeMode

LEMMA StoppedMove ==
    ASSUME ParkTypeOK, NEW c \in ParkCallers
    PROVE  /\ FtStopped(c) => /\ RequestMoved(c, FtDropped, cw)
                              /\ UNCHANGED <<eng, beacon, parkEnv>>
           /\ CwStopped(c) => /\ RequestMoved(c, ft, CwDropped)
                              /\ eng' = CwUnparked(c) /\ UNCHANGED <<beacon, parkEnv>>
  <1>0. /\ ft \in FtStates /\ cw \in CwStates
        /\ parkPc[c].then \in {"end", "ft", "cw", "ftOff"} /\ parkPc[c].last \in {"end", "open"}
    BY ParkTypeOKParts DEF Requests
  <1>1. ASSUME FtStopped(c)
        PROVE  RequestMoved(c, FtDropped, cw) /\ UNCHANGED <<eng, beacon, parkEnv>>
    BY <1>0, <1>1, DroppedTyped, ProceedMoves DEF FtStopped
  <1>2. ASSUME CwStopped(c)
        PROVE  /\ RequestMoved(c, ft, CwDropped)
               /\ eng' = CwUnparked(c) /\ UNCHANGED <<beacon, parkEnv>>
    BY <1>0, <1>2, DroppedTyped, ProceedMoves DEF CwStopped
  <1> QED BY <1>1, <1>2

-----------------------------------------------------------------------------
(***************************************************************************)
(* The types.                                                              *)
(***************************************************************************)
LEMMA RequestTyped ==
    ASSUME ParkTyped, NEW c \in ParkCallers, NEW f, NEW w, RequestMoved(c, f, w),
           eng' \in Engines, eng'.run = eng.run, eng'.band = eng.band,
           UNCHANGED <<beacon, parkEnv>>
    PROVE  ParkTyped'
  <1>1. PICK r \in Requests : parkPc' = [parkPc EXCEPT ![c] = r] /\ r.at # "opening"
    BY DEF RequestMoved
  <1>2. ft' \in FtStates /\ cw' \in CwStates /\ listeners' \subseteq {"beacon", "ft", "cw"}
    BY DEF RequestMoved, FtGoesOn, FtTold, CwGoesOn, CwTold
  <1>3. parkPc \in [ParkCallers -> Requests]
    BY ParkTypeOKParts DEF ParkTyped
  <1>4. parkPc' \in [ParkCallers -> Requests] /\ (Joins("opening")' => Joins("opening"))
    BY <1>1, <1>3 DEF Joins
  <1>5. ParkTypeOK'
    BY <1>2, <1>4, ParkTypeOKParts DEF ParkTyped, ParkTypeOK, Engines, BeaconStates, FtStates,
       CwStates, Requests
  <1> QED BY <1>4, <1>5 DEF ParkTyped, BandKnown

LEMMA ParkTypedInit == ParkInit => ParkTyped
  <1> USE ParkAssumption
  <1>1. ASSUME ParkInit PROVE ParkTypeOK
    <2>1. 0 \in 0 .. SlotsPerCycle - 1 /\ 1 \in 1 .. CwPositions /\ 1 \in 1 .. Len(BeaconBands)
      OBVIOUS
    <2>2. \A c \in ParkCallers : parkPc[c] = Nowhere
      BY <1>1 DEF ParkInit
    <2> QED BY <1>1, <2>1, CentersKnown, NowhereTyped
            DEF ParkInit, ParkTypeOK, Requests
  <1>2. ASSUME ParkInit PROVE BandKnown
    BY <1>2 DEF ParkInit, BandKnown, Joins, Nowhere
  <1> QED BY <1>1, <1>2 DEF ParkTyped

\* the requests that only deal with the beacon scheduler or the engine
OtherRequest(c) == BeaconStart(c) \/ BeaconStop(c) \/ BeaconStopped(c) \/ ScanResets(c)
                   \/ ScanOpened(c) \/ ScanStop(c)

LEMMA BeaconReleases ==
    ASSUME ParkTypeOK, NEW on \in BOOLEAN, BeaconReleased(on)
    PROVE  /\ eng' = Unparked /\ eng' \in Engines /\ UNCHANGED <<ft, cw, parkEnv>>
           /\ beacon' \in BeaconStates /\ beacon'.running = on /\ beacon'.pc = beacon.pc
           /\ beacon'.held = NoTask /\ listeners' \subseteq {"beacon", "ft", "cw"}
  BY ParkTypeOKParts, EngineMoves, CentersKnown DEF BeaconReleased, BeaconStates

LEMMA OtherTyped ==
    ASSUME ParkTyped, NEW c \in ParkCallers, OtherRequest(c)
    PROVE  ParkTyped'
  <1>0. /\ eng \in Engines /\ listeners \subseteq {"beacon", "ft", "cw"}
        /\ beacon \in BeaconStates /\ ft \in FtStates /\ cw \in CwStates
        /\ parkPc \in [ParkCallers -> Requests] /\ parkEnv \in ParkEnvs
    BY ParkTypeOKParts DEF ParkTyped
  <1> DEFINE Typed == /\ eng' \in Engines /\ listeners' \subseteq {"beacon", "ft", "cw"}
                      /\ beacon' \in BeaconStates /\ ft' \in FtStates /\ cw' \in CwStates
                      /\ parkPc' \in [ParkCallers -> Requests] /\ parkEnv' \in ParkEnvs
  <1>e. Typed => ParkTypeOK'
    BY DEF ParkTypeOK, Engines, BeaconStates, FtStates, CwStates, Requests
  <1>f. ASSUME NEW last \in {"end", "open"}, Finish(c, last)
        PROVE  parkPc' \in [ParkCallers -> Requests] /\ (Joins("opening")' => Joins("opening"))
    <2>1. PICK r \in Requests : r.at \in {"idle", "open"} /\ parkPc' = [parkPc EXCEPT ![c] = r]
      BY <1>f, Finishes
    <2> QED BY <1>0, <2>1 DEF Joins
  <1>b. ASSUME Typed, eng'.run => eng.run \/ Joins("opening"), eng'.band = eng.band,
               Joins("opening")' => Joins("opening")
        PROVE  ParkTyped'
    BY <1>b, <1>e DEF ParkTyped, BandKnown
  <1>1. CASE BeaconStart(c)
    <2>1. PICK t \in ParkTasks :
            beacon' = [beacon EXCEPT !.running = TRUE, !.task = t, !.band = 1, !.slots = 0,
                                     !.pc[t] = "wait"]
      BY <1>1 DEF BeaconStart
    <2>2. 0 \in 0 .. SlotsPerCycle - 1 /\ 1 \in 1 .. Len(BeaconBands)
      BY ParkAssumption
    <2>3. beacon' \in BeaconStates
      BY <1>0, <2>1, <2>2 DEF BeaconStates
    <2> QED BY <1>0, <1>1, <2>3, <1>b DEF BeaconStart, Joins
  <1>2. CASE BeaconStop(c)
    <2>1. CASE UNCHANGED <<eng, beacon, ft, cw, parkPc, parkEnv>>
               /\ listeners' = listeners \ {"beacon"}
      BY <1>0, <2>1, <1>b DEF Joins
    <2>2. CASE /\ beacon' = [beacon EXCEPT !.running = FALSE, !.pc[beacon.task] = "cancelled"]
               /\ parkPc' = [parkPc EXCEPT ![c].at = "beaconJoin", ![c].task = beacon.task]
               /\ UNCHANGED <<eng, listeners, ft, cw, parkEnv>>
      <3>1. beacon' \in BeaconStates
        BY <1>0, <2>2 DEF BeaconStates
      <3>2. beacon.task \in ParkTasks \cup {NoTask}
        BY <1>0 DEF BeaconStates
      <3>3. PICK r \in Requests : r.at = "beaconJoin" /\ parkPc' = [parkPc EXCEPT ![c] = r]
        <4> DEFINE r == [parkPc[c] EXCEPT !.at = "beaconJoin", !.task = beacon.task]
        <4>1. r \in Requests /\ r.at = "beaconJoin"
          BY <1>0, <3>2 DEF Requests
        <4>2. parkPc' = [parkPc EXCEPT ![c] = r]
          BY <1>0, <2>2 DEF Requests
        <4> QED BY <4>1, <4>2
      <3>4. parkPc' \in [ParkCallers -> Requests] /\ (Joins("opening")' => Joins("opening"))
        BY <1>0, <3>3 DEF Joins
      <3> QED BY <1>0, <2>2, <3>1, <3>4, <1>b
    <2>3. CASE BeaconReleased(FALSE) /\ UNCHANGED parkPc
      BY <1>0, <2>3, <1>b, BeaconReleases, EngineMoves DEF ParkTyped, Joins
    <2> QED BY <1>2, <2>1, <2>2, <2>3 DEF BeaconStop
  <1>3. CASE BeaconStopped(c)
    <2>1. BeaconReleased(beacon.running) /\ Finish(c, "end") /\ beacon.running \in BOOLEAN
      BY <1>0, <1>3 DEF BeaconStopped, BeaconStates
    <2> QED BY <1>0, <2>1, <1>b, <1>f, BeaconReleases, EngineMoves DEF ParkTyped
  <1>4. CASE ScanResets(c)
    <2>1. PICK b \in ScanBands :
            eng' = [eng EXCEPT !.parked = FALSE, !.center = <<"scan", b>>, !.band = b]
      BY <1>4 DEF ScanResets
    <2>2. eng' \in Engines /\ eng'.band # NoTask
      BY <1>0, <2>1, CentersKnown, ParkAssumption DEF Engines
    <2>3. parkPc' \in [ParkCallers -> Requests]
      BY <1>0, <1>4 DEF ScanResets, Requests
    <2> QED BY <1>0, <1>4, <2>2, <2>3, <1>e DEF ScanResets, ParkTyped, BandKnown
  <1>5. CASE ScanOpened(c)
    <2>1. eng' \in Engines /\ eng'.band = eng.band
      BY <1>0, <1>5 DEF ScanOpened, Engines
    <2>2. Joins("opening") /\ Finish(c, "end") /\ UNCHANGED <<listeners, beacon, ft, cw, parkEnv>>
      BY <1>5 DEF ScanOpened, Joins
    <2> QED BY <1>0, <2>1, <2>2, <1>f, <1>b
  <1>6. CASE ScanStop(c)
    <2>1. eng' \in Engines /\ eng'.band = eng.band /\ ~eng'.run
      BY <1>0, <1>6 DEF ScanStop, Engines
    <2> QED BY <1>0, <1>6, <2>1, <1>b DEF ScanStop, Joins
  <1> QED BY <1>1, <1>2, <1>3, <1>4, <1>5, <1>6 DEF OtherRequest

\* the engine by itself
EngineAlone == SweepStep \/ Retune

LEMMA EngineAloneMoves ==
    ASSUME ParkTyped, EngineAlone
    PROVE  /\ UNCHANGED <<listeners, beacon, ft, cw, parkPc, parkEnv>>
           /\ eng' \in Engines /\ eng'.run /\ eng.run /\ ~eng'.parked /\ eng'.band # NoTask
  <1>0. eng \in Engines /\ (eng.run => eng.band \in ScanBands)
    BY ParkTypeOKParts DEF ParkTyped, BandKnown, Engines
  <1>1. CASE SweepStep
    BY <1>0, <1>1, CentersKnown, ParkAssumption DEF SweepStep, Engines
  <1>2. CASE Retune
    <2>1. PICK b \in ScanBands :
            eng' = [eng EXCEPT !.parked = FALSE, !.center = <<"scan", b>>, !.band = b]
      BY <1>2 DEF Retune
    <2> QED BY <1>0, <1>2, <2>1, CentersKnown, ParkAssumption DEF Retune, Engines
  <1> QED BY <1>1, <1>2 DEF EngineAlone

\* the steps of the loops
LoopMoves == \E t \in ParkTasks : BeaconMoved(t) \/ FtMoved(t) \/ CwMoved(t)

LEMMA LoopTyped == ASSUME ParkTyped, LoopMoves PROVE ParkTyped'
  <1>1. /\ eng' \in Engines /\ eng'.run = eng.run /\ eng'.band = eng.band
        /\ listeners' \subseteq {"beacon", "ft", "cw"}
        /\ beacon' \in BeaconStates /\ ft' \in FtStates /\ cw' \in CwStates
        /\ parkPc' = parkPc /\ parkPc \in [ParkCallers -> Requests] /\ parkEnv' \in ParkEnvs
    BY ParkTypeOKParts DEF ParkTyped, LoopMoves, BeaconMoved, FtMoved, CwMoved, EngineKept
  <1>2. ParkTypeOK'
    BY <1>1 DEF ParkTypeOK, Engines, BeaconStates, FtStates, CwStates, Requests
  <1> QED BY <1>1, <1>2 DEF ParkTyped, BandKnown, Joins

\* A step is one of these.
LEMMA ParkSteps ==
    ASSUME ParkTyped, ParkNext
    PROVE  \/ EngineAlone \/ LoopMoves
           \/ \E c \in ParkCallers : \/ FtCwRequest(c) \/ OtherRequest(c)
                                     \/ FtStopped(c) \/ CwStopped(c)
  <1>1. CASE \E t \in ParkTasks : \/ BeaconSteps(t) \/ BeaconRaises(t)
                                  \/ FtSteps(t) \/ FtRaises(t) \/ CwSteps(t) \/ CwRaises(t)
    BY <1>1, BeaconLoopMoves, FtLoopMoves, CwLoopMoves DEF LoopMoves, ParkTyped
  <1>2. CASE \E c \in ParkCallers : ParkAsks(c) \/ ParkGoesOn(c)
    BY <1>2 DEF ParkAsks, ParkGoesOn, FtCwRequest, OtherRequest
  <1> QED BY <1>1, <1>2 DEF ParkNext, EngineAlone

LEMMA CwUnparkedMoves ==
    ASSUME eng \in Engines, NEW c \in ParkCallers
    PROVE  CwUnparked(c) \in Engines /\ CwUnparked(c).run = eng.run /\ CwUnparked(c).band = eng.band
  BY EngineMoves DEF CwUnparked

LEMMA ParkTypedStep == ParkTyped /\ [ParkNext]_parkVars => ParkTyped'
  <1> SUFFICES ASSUME ParkTyped, [ParkNext]_parkVars PROVE ParkTyped'
    OBVIOUS
  <1>0. eng \in Engines /\ ParkTypeOK
    BY ParkTypeOKParts DEF ParkTyped
  <1>1. CASE UNCHANGED parkVars
    BY <1>1 DEF parkVars, ParkTyped, ParkTypeOK, BandKnown, Joins
  <1>2. CASE EngineAlone
    <2>1. /\ UNCHANGED <<listeners, beacon, ft, cw, parkPc, parkEnv>>
          /\ eng' \in Engines /\ eng'.band # NoTask
      BY <1>2, EngineAloneMoves
    <2> QED BY <1>0, <2>1 DEF ParkTyped, BandKnown, ParkTypeOK, Engines
  <1>3. CASE LoopMoves
    BY <1>3, LoopTyped
  <1>4. ASSUME NEW c \in ParkCallers, FtCwRequest(c) PROVE ParkTyped'
    BY <1>0, <1>4, RequestsMove, RequestTyped
  <1>5. ASSUME NEW c \in ParkCallers, OtherRequest(c) PROVE ParkTyped'
    BY <1>5, OtherTyped
  <1>6. ASSUME NEW c \in ParkCallers, FtStopped(c) PROVE ParkTyped'
    BY <1>0, <1>6, StoppedMove, RequestTyped
  <1>7. ASSUME NEW c \in ParkCallers, CwStopped(c) PROVE ParkTyped'
    BY <1>0, <1>7, StoppedMove, RequestTyped, CwUnparkedMoves
  <1> QED BY <1>1, <1>2, <1>3, <1>4, <1>5, <1>6, <1>7, ParkSteps

-----------------------------------------------------------------------------
(***************************************************************************)
(* Requests that come one by one.                                          *)
(***************************************************************************)
LEMMA EngineAloneSerial ==
    ASSUME ParkTyped, SerialInv, EngineAlone
    PROVE  SerialInv'
  <1>1. /\ UNCHANGED <<listeners, beacon, ft, cw, parkPc, parkEnv>>
        /\ eng'.run /\ ~eng'.parked
    BY EngineAloneMoves
  <1>2. HeldWhileParked'
    BY <1>1 DEF HeldWhileParked
  <1> QED BY <1>1, <1>2 DEF SerialInv, OneAtWork, BeaconSerial, BeaconSound, FtSerial, CwSerial,
             FtSound, CwSound, Joins, Awaited

LEMMA BeaconLoopSerial ==
    ASSUME SerialInv, NEW t \in ParkTasks, BeaconMoved(t)
    PROVE  SerialInv'
  <1> USE DEF BeaconMoved
  <1>1. OneAtWork' /\ FtSerial' /\ CwSerial'
    BY DEF SerialInv, OneAtWork, FtSerial, CwSerial, FtSound, CwSound, Joins, Awaited
  <1>2. BeaconSerial'
    <2>1. BeaconSound'
      BY DEF SerialInv, BeaconSerial, BeaconSound
    <2> QED BY <2>1 DEF SerialInv, BeaconSerial, Joins
  <1>3. HeldWhileParked => HeldWhileParked'
    BY DEF HeldWhileParked, Held, CwHolds, CwListens, FtListens, EngineKept, Joins
  <1> QED BY <1>1, <1>2, <1>3 DEF SerialInv

LEMMA FtLoopSerial ==
    ASSUME SerialInv, NEW t \in ParkTasks, FtMoved(t)
    PROVE  SerialInv'
  <1> USE DEF FtMoved
  <1>1. OneAtWork' /\ BeaconSerial' /\ CwSerial'
    BY DEF SerialInv, OneAtWork, BeaconSerial, CwSerial, BeaconSound, CwSound, Joins, Awaited
  <1>2. FtSerial'
    <2>1. FtSound(ft')
      BY DEF SerialInv, FtSerial, FtSound
    <2>2. \A s \in ParkTasks : ft'.pc[s] \in {"cancelled", "unwinding"} => Awaited("ftJoin", s)'
      BY DEF SerialInv, FtSerial, Awaited
    <2>3. Joins("ftJoin")' => ~ft'.running
      BY DEF SerialInv, FtSerial, Joins
    <2> QED BY <2>1, <2>2, <2>3 DEF FtSerial
  <1>3. HeldWhileParked => HeldWhileParked'
    <2>1. CwHolds <=> CwHolds'
      BY DEF CwHolds, CwListens
    <2>2. \A s \in ParkTasks \ {t} : FtListens(s) <=> FtListens(s)'
      BY DEF FtListens
    <2>3. Joins("opening") <=> Joins("opening")'
      BY DEF Joins
    <2> QED BY <2>1, <2>2, <2>3 DEF HeldWhileParked, Held, EngineKept
  <1> QED BY <1>1, <1>2, <1>3 DEF SerialInv

LEMMA CwLoopSerial ==
    ASSUME ParkTyped, SerialInv, NEW t \in ParkTasks, CwMoved(t)
    PROVE  SerialInv'
  <1> USE DEF CwMoved
  <1>1. OneAtWork' /\ BeaconSerial' /\ FtSerial'
    BY DEF SerialInv, OneAtWork, BeaconSerial, FtSerial, BeaconSound, FtSound, Joins, Awaited
  <1>2. CwSerial'
    <2>1. CwSound(cw')
      BY DEF SerialInv, CwSerial, CwSound
    <2>2. \A s \in ParkTasks : cw'.pc[s] = "cancelled" => Awaited("cwJoin", s)'
      BY DEF SerialInv, CwSerial, Awaited
    <2>3. Joins("cwJoin")' => ~cw'.running
      BY DEF SerialInv, CwSerial, Joins
    <2> QED BY <2>1, <2>2, <2>3 DEF CwSerial
  <1>3. ASSUME parkEnv.faults = {} PROVE HeldWhileParked'
    <2>1. CwHolds'
      <3>1. CASE cw.pc[t] = "cancelled"
        <4>1. PICK c \in ParkCallers : parkPc[c].at = "cwJoin" /\ parkPc[c].task = t
          BY <3>1 DEF SerialInv, CwSerial, Awaited
        <4> QED BY <4>1, ParkAssumption DEF CwHolds
      <3>2. CASE cw.pc[t] # "cancelled"
        BY <1>3, <3>2 DEF CwHolds, CwListens
      <3> QED BY <3>1, <3>2
    <2> QED BY <2>1 DEF HeldWhileParked, Held
  <1> QED BY <1>1, <1>2, <1>3 DEF SerialInv

-----------------------------------------------------------------------------
\* The request that is to go on is the only one, and no FT or CW loop is on its
\* way out.
Quiet(c) ==
    /\ \A d \in ParkCallers \ {c} : parkPc[d] = Nowhere
    /\ \A t \in ParkTasks : /\ ft.pc[t] \notin {"cancelled", "unwinding"}
                            /\ cw.pc[t] # "cancelled"

\* where a request may go on
GoesOn(c) ==
    \/ Asks(c)
    \/ parkPc[c].at \in {"beaconJoin", "open", "opening"}
    \/ parkPc[c].at = "ftJoin" /\ (parkPc[c].task # NoTask => ft.pc[parkPc[c].task] = "gone")
    \/ parkPc[c].at = "cwJoin" /\ (parkPc[c].task # NoTask => cw.pc[parkPc[c].task] = "gone")

LEMMA QuietSteps ==
    ASSUME SerialInv, ~parkEnv.overlap, NEW c \in ParkCallers, GoesOn(c)
    PROVE  Quiet(c)
  <1>1. \A d \in ParkCallers \ {c} : parkPc[d] = Nowhere
    BY DEF GoesOn, Asks, SerialInv, OneAtWork, Nowhere
  <1>2. ASSUME NEW t \in ParkTasks, ft.pc[t] \in {"cancelled", "unwinding"} PROVE FALSE
    <2>1. PICK d \in ParkCallers : parkPc[d].at = "ftJoin" /\ parkPc[d].task = t
      BY <1>2 DEF SerialInv, FtSerial, Awaited
    <2>2. d = c
      BY <1>1, <2>1 DEF Nowhere
    <2> QED BY <1>2, <2>1, <2>2, ParkAssumption DEF GoesOn, Asks, Nowhere
  <1>3. ASSUME NEW t \in ParkTasks, cw.pc[t] = "cancelled" PROVE FALSE
    <2>1. PICK d \in ParkCallers : parkPc[d].at = "cwJoin" /\ parkPc[d].task = t
      BY <1>3 DEF SerialInv, CwSerial, Awaited
    <2>2. d = c
      BY <1>1, <2>1 DEF Nowhere
    <2> QED BY <1>3, <2>1, <2>2, ParkAssumption DEF GoesOn, Asks, Nowhere
  <1> QED BY <1>1, <1>2, <1>3 DEF Quiet

LEMMA RequestSerial ==
    ASSUME ParkTyped, SerialInv, NEW c \in ParkCallers, Quiet(c),
           NEW f \in FtStates, NEW w \in CwStates, RequestMoved(c, f, w),
           f.pc = ft.pc, w.pc = cw.pc, FtSound(f), CwSound(w),
           UNCHANGED <<beacon, parkEnv>>, eng'.run = eng.run,
           \/ eng' = eng /\ ~(parkPc[c].at = "cwJoin" /\ parkPc[c].task # NoTask)
           \/ ~eng'.parked
    PROVE  SerialInv'
  <1>1. PICK r \in Requests :
          /\ parkPc' = [parkPc EXCEPT ![c] = r]
          /\ \/ r.at \in {"idle", "open"} /\ FtGoesOn(f) /\ CwGoesOn(w)
             \/ r.at = "ftJoin" /\ f = ft /\ FtTold(r.task) /\ CwGoesOn(w)
             \/ r.at = "cwJoin" /\ w = cw /\ CwTold(r.task) /\ FtGoesOn(f)
    BY DEF RequestMoved
  <1>2. /\ parkPc'[c] = r
        /\ \A d \in ParkCallers \ {c} : parkPc'[d] = Nowhere
    <2>1. DOMAIN parkPc = ParkCallers
      BY ParkTypeOKParts DEF ParkTyped
    <2> QED BY <1>1, <2>1 DEF Quiet
  <1>3. /\ OneAtWork' /\ BeaconSound'
        /\ \A where \in {"beaconJoin", "opening"} : ~Joins(where)'
        /\ Joins("ftJoin")' => r.at = "ftJoin"
        /\ Joins("cwJoin")' => r.at = "cwJoin"
    BY <1>1, <1>2 DEF OneAtWork, BeaconSound, SerialInv, BeaconSerial, Joins, Nowhere
  <1>4. FtSound(ft') /\ (r.at = "ftJoin" => ~ft'.running)
    BY <1>1 DEF FtGoesOn, FtTold
  <1>5. CwSound(cw') /\ (r.at = "cwJoin" => ~cw'.running)
    BY <1>1 DEF CwGoesOn, CwTold
  <1>6. ASSUME NEW t \in ParkTasks, ft'.pc[t] \in {"cancelled", "unwinding"}
        PROVE  Awaited("ftJoin", t)'
    BY <1>1, <1>2, <1>6 DEF FtGoesOn, FtTold, Quiet, Awaited
  <1>7. ASSUME NEW t \in ParkTasks, cw'.pc[t] = "cancelled"
        PROVE  Awaited("cwJoin", t)'
    BY <1>1, <1>2, <1>7 DEF CwGoesOn, CwTold, Quiet, Awaited
  <1>8. ASSUME parkEnv.faults = {} PROVE HeldWhileParked'
    <2>1. CASE ~eng'.parked
      BY <2>1, <1>3 DEF HeldWhileParked
    <2>2. CASE eng' = eng /\ ~(parkPc[c].at = "cwJoin" /\ parkPc[c].task # NoTask)
      <3>1. \A t \in ParkTasks : FtListens(t) => FtListens(t)'
        BY <1>1, <1>8 DEF FtGoesOn, FtTold, FtListens, Quiet
      <3>2. \A t \in ParkTasks : CwListens(t) => CwListens(t)'
        BY <1>1 DEF CwGoesOn, CwTold, CwListens, Quiet
      <3>3. CwHolds => \E t \in ParkTasks : CwListens(t)
        BY <2>2 DEF CwHolds, Quiet, Nowhere
      <3>4. Held => Held'
        BY <3>1, <3>2, <3>3 DEF Held, CwHolds
      <3> QED BY <2>2, <1>3, <1>8, <3>4 DEF HeldWhileParked, SerialInv
    <2> QED BY <2>1, <2>2
  <1> QED BY <1>3, <1>4, <1>5, <1>6, <1>7, <1>8 DEF SerialInv, BeaconSerial, FtSerial, CwSerial

\* A step that leaves the FT and CW decoders alone, and the request on no join.
LEMMA OtherFrame ==
    ASSUME ParkTyped, SerialInv, NEW c \in ParkCallers, Quiet(c), UNCHANGED <<ft, cw>>,
           NEW r, parkPc' = [parkPc EXCEPT ![c] = r], r.at \notin {"ftJoin", "cwJoin"}
    PROVE  /\ OneAtWork' /\ FtSerial' /\ CwSerial'
           /\ parkPc'[c] = r /\ \A d \in ParkCallers \ {c} : parkPc'[d] = Nowhere
  <1>1. DOMAIN parkPc = ParkCallers
    BY ParkTypeOKParts DEF ParkTyped
  <1>2. /\ parkPc'[c] = r /\ \A d \in ParkCallers \ {c} : parkPc'[d] = Nowhere
        /\ ~Joins("ftJoin")' /\ ~Joins("cwJoin")'
    BY <1>1 DEF Quiet, Joins, Nowhere
  <1> QED BY <1>2 DEF OneAtWork, FtSerial, CwSerial, SerialInv, FtSound, CwSound, Quiet

LEMMA OtherSerial ==
    ASSUME ParkTyped, SerialInv, ~parkEnv.overlap, NEW c \in ParkCallers, OtherRequest(c)
    PROVE  SerialInv'
  <1>0. /\ eng \in Engines /\ beacon \in BeaconStates /\ DOMAIN beacon.pc = ParkTasks
        /\ parkPc \in [ParkCallers -> Requests] /\ beacon.running \in BOOLEAN /\ ParkTypeOK
    BY ParkTypeOKParts DEF ParkTyped, BeaconStates
  <1>q. Quiet(c) /\ UNCHANGED <<ft, cw, parkEnv>>
    <2>1. GoesOn(c)
      BY DEF OtherRequest, BeaconStart, BeaconStop, BeaconStopped, ScanResets, ScanOpened,
             ScanStop, GoesOn
    <2> QED BY <2>1, QuietSteps DEF OtherRequest, BeaconStart, BeaconStop, BeaconStopped,
               BeaconReleased, ScanResets, ScanOpened, ScanStop
  <1>u. UNCHANGED parkPc => parkPc' = [parkPc EXCEPT ![c] = parkPc[c]]
    BY <1>0
  <1>n. Nowhere.at = "idle"
    BY DEF Nowhere
  <1>h. ASSUME eng' = eng, beacon'.held = beacon.held, UNCHANGED parkPc
        PROVE  HeldWhileParked => HeldWhileParked'
    BY <1>h, <1>q DEF HeldWhileParked, Held, CwHolds, CwListens, FtListens, Joins
  <1>b. ASSUME NEW r, parkPc' = [parkPc EXCEPT ![c] = r], r.at \notin {"ftJoin", "cwJoin"},
               BeaconSound', r.at = "beaconJoin" => ~beacon'.running,
               parkEnv.faults = {} => HeldWhileParked'
        PROVE  SerialInv'
    <2>1. /\ OneAtWork' /\ FtSerial' /\ CwSerial'
          /\ parkPc'[c] = r /\ \A d \in ParkCallers \ {c} : parkPc'[d] = Nowhere
      BY <1>b, <1>q, OtherFrame
    <2>2. Joins("beaconJoin")' => ~beacon'.running
      BY <2>1, <1>b, <1>n DEF Joins
    <2> QED BY <2>1, <2>2, <1>b, <1>q DEF SerialInv, BeaconSerial
  <1>1. CASE BeaconStart(c)
    <2>1. PICK t \in ParkTasks :
            beacon' = [beacon EXCEPT !.running = TRUE, !.task = t, !.band = 1, !.slots = 0,
                                     !.pc[t] = "wait"]
      BY <1>1 DEF BeaconStart
    <2>2. /\ beacon'.running /\ beacon'.task = t /\ beacon'.pc = [beacon.pc EXCEPT ![t] = "wait"]
          /\ beacon'.held = beacon.held /\ ~beacon.running
          /\ eng' = eng /\ UNCHANGED parkPc /\ parkPc[c].at = "idle"
      BY <1>0, <1>1, <2>1, <1>n DEF BeaconStates, BeaconStart, Asks
    <2>3. BeaconSound'
      BY <1>0, <2>2 DEF SerialInv, BeaconSerial, BeaconSound
    <2> QED BY <2>2, <2>3, <1>h, <1>u, <1>b DEF SerialInv
  <1>2. CASE BeaconStop(c)
    <2>0. parkPc[c].at = "idle"
      BY <1>2, <1>n DEF BeaconStop, Asks
    <2>1. CASE UNCHANGED <<eng, beacon, ft, cw, parkPc, parkEnv>>
      <3>1. BeaconSound'
        BY <2>1 DEF SerialInv, BeaconSerial, BeaconSound
      <3> QED BY <2>0, <2>1, <3>1, <1>h, <1>u, <1>b DEF SerialInv
    <2>2. CASE /\ beacon' = [beacon EXCEPT !.running = FALSE, !.pc[beacon.task] = "cancelled"]
               /\ parkPc' = [parkPc EXCEPT ![c].at = "beaconJoin", ![c].task = beacon.task]
               /\ UNCHANGED <<eng, listeners, ft, cw, parkEnv>>
      <3>1. /\ beacon'.pc = [beacon.pc EXCEPT ![beacon.task] = "cancelled"]
            /\ ~beacon'.running /\ beacon'.held = beacon.held
        BY <1>0, <2>2 DEF BeaconStates
      <3>2. BeaconSound'
        BY <1>0, <3>1 DEF SerialInv, BeaconSerial, BeaconSound
      <3>3. PICK r : r.at = "beaconJoin" /\ parkPc' = [parkPc EXCEPT ![c] = r]
        <4> DEFINE r == [parkPc[c] EXCEPT !.at = "beaconJoin", !.task = beacon.task]
        <4>1. r.at = "beaconJoin"
          BY <1>0 DEF Requests
        <4>2. parkPc' = [parkPc EXCEPT ![c] = r]
          BY <1>0, <2>2 DEF Requests
        <4> QED BY <4>1, <4>2
      <3>4. ASSUME parkEnv.faults = {} PROVE HeldWhileParked'
        <4>1. /\ parkPc'[c].at = "beaconJoin"
              /\ \A d \in ParkCallers \ {c} : parkPc'[d] = Nowhere
          BY <2>2, <3>3, <1>q, OtherFrame
        <4>2. CwHolds => \E t \in ParkTasks : CwListens(t)
          BY <2>0, <1>q, <1>n DEF CwHolds, Quiet
        <4>3. (Held => Held') /\ ~Joins("opening")'
          BY <4>1, <4>2, <3>1, <1>q, <1>n DEF Held, CwHolds, CwListens, FtListens, Joins
        <4> QED BY <2>2, <3>4, <4>3 DEF HeldWhileParked, SerialInv
      <3> QED BY <3>1, <3>2, <3>3, <3>4, <1>b
    <2>3. CASE beacon.running /\ ~Alive(beacon) /\ BeaconReleased(FALSE) /\ UNCHANGED parkPc
      <3>1. /\ ~eng'.parked /\ beacon'.pc = beacon.pc
        BY <1>0, <2>3, BeaconReleases, EngineMoves
      <3>2. BeaconSound'
        BY <2>3, <3>1, ParkAssumption DEF SerialInv, BeaconSerial, BeaconSound, Alive
      <3>3. HeldWhileParked'
        BY <3>1 DEF HeldWhileParked
      <3> QED BY <2>0, <2>3, <3>2, <3>3, <1>u, <1>b
    <2> QED BY <1>2, <2>1, <2>2, <2>3 DEF BeaconStop
  <1>3. CASE BeaconStopped(c)
    <2>1. /\ BeaconReleased(beacon.running) /\ Finish(c, "end")
          /\ Joins("beaconJoin")
      BY <1>3 DEF BeaconStopped, Joins
    <2>2. ~beacon.running
      BY <2>1 DEF SerialInv, BeaconSerial
    <2>3. ~eng'.parked /\ beacon'.pc = beacon.pc
      BY <1>0, <2>1, BeaconReleases, EngineMoves
    <2>4. BeaconSound' /\ HeldWhileParked'
      BY <2>2, <2>3 DEF SerialInv, BeaconSerial, BeaconSound, HeldWhileParked
    <2>5. PICK r \in Requests : r.at \in {"idle", "open"} /\ parkPc' = [parkPc EXCEPT ![c] = r]
      BY <2>1, Finishes
    <2> QED BY <2>4, <2>5, <1>b
  <1>s. UNCHANGED beacon => BeaconSound'
    BY DEF SerialInv, BeaconSerial, BeaconSound
  <1>4. CASE ScanResets(c)
    <2>1. ~eng'.parked /\ UNCHANGED beacon
      BY <1>0, <1>4 DEF ScanResets, Engines
    <2>2. HeldWhileParked'
      BY <2>1 DEF HeldWhileParked
    <2>3. PICK r : r.at = "opening" /\ parkPc' = [parkPc EXCEPT ![c] = r]
      <3> DEFINE r == [parkPc[c] EXCEPT !.at = "opening"]
      <3>1. r.at = "opening"
        BY <1>0 DEF Requests
      <3>2. parkPc' = [parkPc EXCEPT ![c] = r]
        BY <1>0, <1>4 DEF ScanResets, Requests
      <3> QED BY <3>1, <3>2
    <2> QED BY <2>1, <2>2, <2>3, <1>s, <1>b
  <1>5. CASE ScanOpened(c)
    <2>1. /\ parkPc[c].at = "opening" /\ Joins("opening") /\ Finish(c, "end") /\ UNCHANGED beacon
          /\ eng'.parked = eng.parked /\ (eng' = eng \/ ~eng.run)
      BY <1>0, <1>5 DEF ScanOpened, Joins, Engines
    <2>2. PICK r \in Requests : r.at \in {"idle", "open"} /\ parkPc' = [parkPc EXCEPT ![c] = r]
      BY <2>1, Finishes
    <2>3. ASSUME parkEnv.faults = {} PROVE HeldWhileParked'
      <3>1. /\ parkPc'[c] = r
            /\ \A d \in ParkCallers \ {c} : parkPc'[d] = Nowhere
        BY <2>2, <1>q, OtherFrame
      <3>2. CwHolds => \E t \in ParkTasks : CwListens(t)
        BY <2>1, <1>q, <1>n DEF CwHolds, Quiet
      <3>3. (Held => Held') /\ ~Joins("opening")'
        BY <3>1, <3>2, <2>1, <2>2, <1>q, <1>n DEF Held, CwHolds, CwListens, FtListens, Joins
      <3>4. eng.parked => Held
        BY <2>1, <2>3 DEF HeldWhileParked, SerialInv, Held
      <3> QED BY <2>1, <3>3, <3>4 DEF HeldWhileParked
    <2> QED BY <2>1, <2>2, <2>3, <1>s, <1>b
  <1>6. CASE ScanStop(c)
    <2>1. ~eng'.run /\ UNCHANGED <<beacon, parkPc>> /\ parkPc[c].at = "idle"
      BY <1>0, <1>6, <1>n DEF ScanStop, Engines, Asks
    <2>2. ~Joins("opening")'
      BY <2>1, <1>q, <1>n DEF Quiet, Joins
    <2>3. HeldWhileParked'
      BY <2>1, <2>2 DEF HeldWhileParked
    <2> QED BY <2>1, <2>3, <1>s, <1>u, <1>b
  <1> QED BY <1>1, <1>2, <1>3, <1>4, <1>5, <1>6 DEF OtherRequest

-----------------------------------------------------------------------------
LEMMA ParkInvInit == ParkInit => ParkInv
  <1> SUFFICES ASSUME ParkInit PROVE ParkInv
    OBVIOUS
  <1>1. ParkTyped
    BY ParkTypedInit
  <1>2. \A c \in ParkCallers : parkPc[c] = Nowhere /\ Nowhere.at = "idle"
    BY DEF ParkInit, Nowhere
  <1>3. \A t \in ParkTasks : beacon.pc[t] = "gone" /\ ft.pc[t] = "gone" /\ cw.pc[t] = "gone"
    BY DEF ParkInit
  <1>4. OneAtWork /\ BeaconSerial /\ FtSerial /\ CwSerial
    BY <1>2, <1>3 DEF OneAtWork, BeaconSerial, FtSerial, CwSerial, BeaconSound, FtSound,
       CwSound, Joins
  <1>5. HeldWhileParked
    BY DEF ParkInit, HeldWhileParked
  <1> QED BY <1>1, <1>4, <1>5 DEF ParkInv, SerialInv

LEMMA SerialStep ==
    ASSUME ParkTyped, SerialInv, ~parkEnv.overlap, ParkNext
    PROVE  SerialInv'
  <1>0. /\ ParkTypeOK /\ eng \in Engines /\ ft \in FtStates /\ cw \in CwStates
    BY ParkTypeOKParts DEF ParkTyped
  <1>1. CASE EngineAlone
    BY <1>1, EngineAloneSerial
  <1>2. CASE LoopMoves
    BY <1>2, BeaconLoopSerial, FtLoopSerial, CwLoopSerial DEF LoopMoves
  <1>3. ASSUME NEW c \in ParkCallers, FtCwRequest(c) PROVE SerialInv'
    <2>1. RequestMoved(c, ft, cw) /\ UNCHANGED <<eng, beacon, parkEnv>> /\ Asks(c)
      BY <1>0, <1>3, RequestsMove
    <2>2. Quiet(c) /\ parkPc[c].at # "cwJoin"
      BY <2>1, QuietSteps DEF GoesOn, Asks, Nowhere
    <2> QED BY <1>0, <2>1, <2>2, RequestSerial DEF SerialInv, FtSerial, CwSerial
  <1>4. ASSUME NEW c \in ParkCallers, OtherRequest(c) PROVE SerialInv'
    BY <1>4, OtherSerial
  <1>5. ASSUME NEW c \in ParkCallers, FtStopped(c) PROVE SerialInv'
    <2>1. RequestMoved(c, FtDropped, cw) /\ UNCHANGED <<eng, beacon, parkEnv>>
      BY <1>0, <1>5, StoppedMove
    <2>2. Quiet(c) /\ parkPc[c].at = "ftJoin" /\ ~ft.running
      BY <1>5, QuietSteps DEF GoesOn, FtStopped, SerialInv, FtSerial, Joins
    <2>3. FtDropped \in FtStates /\ FtDropped.pc = ft.pc
      BY <1>0, DroppedTyped
    <2>4. FtSound(FtDropped) /\ CwSound(cw)
      BY <2>2, <2>3 DEF SerialInv, FtSerial, CwSerial, FtSound
    <2> QED BY <1>0, <2>1, <2>2, <2>3, <2>4, RequestSerial
  <1>6. ASSUME NEW c \in ParkCallers, CwStopped(c) PROVE SerialInv'
    <2>1. RequestMoved(c, ft, CwDropped) /\ eng' = CwUnparked(c) /\ UNCHANGED <<beacon, parkEnv>>
      BY <1>0, <1>6, StoppedMove
    <2>2. Quiet(c) /\ ~cw.running
      BY <1>6, QuietSteps DEF GoesOn, CwStopped, SerialInv, CwSerial, Joins
    <2>3. CwDropped \in CwStates /\ CwDropped.pc = cw.pc
      BY <1>0, DroppedTyped
    <2>4. CwSound(CwDropped) /\ FtSound(ft)
      BY <2>2, <2>3 DEF SerialInv, FtSerial, CwSerial, CwSound
    <2>5. /\ eng'.run = eng.run
          /\ (eng' = eng /\ parkPc[c].task = NoTask) \/ ~eng'.parked
      BY <1>0, <2>1, EngineMoves DEF CwUnparked
    <2> QED BY <1>0, <2>1, <2>2, <2>3, <2>4, <2>5, RequestSerial
  <1> QED BY <1>1, <1>2, <1>3, <1>4, <1>5, <1>6, ParkSteps

LEMMA ParkInvStep == ParkInv /\ [ParkNext]_parkVars => ParkInv'
  <1> SUFFICES ASSUME ParkInv, [ParkNext]_parkVars PROVE ParkInv'
    OBVIOUS
  <1>1. ParkTyped'
    BY ParkTypedStep DEF ParkInv
  <1>2. parkEnv' = parkEnv
    BY ParkSteps, RequestsMove, StoppedMove, EngineAloneMoves
       DEF ParkInv, ParkTyped, LoopMoves, BeaconMoved, FtMoved, CwMoved, OtherRequest, BeaconStart,
           BeaconStop, BeaconReleased, BeaconStopped, ScanResets, ScanOpened, ScanStop, parkVars
  <1>3. CASE UNCHANGED parkVars
    BY <1>1, <1>3 DEF parkVars, ParkInv, SerialInv, OneAtWork, BeaconSerial, FtSerial, CwSerial,
       BeaconSound, FtSound, CwSound, HeldWhileParked, Held, CwHolds, CwListens, FtListens, Joins,
       Awaited
  <1>4. CASE ParkNext
    BY <1>1, <1>2, <1>4, SerialStep DEF ParkInv
  <1> QED BY <1>3, <1>4

LEMMA ParkInvHolds == ParkSpec => []ParkInv
  BY ParkInvInit, ParkInvStep, PTL DEF ParkSpec

\* Type correctness of the park flag, its users and the requests.
THEOREM ParkTypes == ParkSpec => []ParkTypeOK
  <1>1. ParkInv => ParkTypeOK
    BY DEF ParkInv, ParkTyped
  <1> QED BY <1>1, ParkInvHolds, PTL

\* A sweep is held up only for somebody who listens: without a CW sweep that
\* raises or an FT stop in the 50 ms after the park, and with requests that come
\* one by one, a parked scan has a beacon scheduler that holds it, an open FT
\* window, a CW sweep, or a stop about to unpark.
THEOREM ParkIsForSomebody == ParkSpec => []ParkedForSomebody
  <1>1. ParkInv => ParkedForSomebody
    BY DEF ParkInv, SerialInv, HeldWhileParked, Held, CwHolds, ParkedForSomebody, Joins
  <1> QED BY <1>1, ParkInvHolds, PTL

\* With requests that come one by one, a loop nobody has cancelled is the task
\* of the decoder the API holds, and the decoder says it runs.
THEOREM NoUserStrays == ParkSpec => []NoStrayUser
  <1>1. ParkInv => NoStrayUser
    BY DEF ParkInv, SerialInv, NoStrayUser, BeaconSerial, FtSerial, CwSerial, BeaconSound,
       FtSound, CwSound
  <1> QED BY <1>1, ParkInvHolds, PTL
=============================================================================
