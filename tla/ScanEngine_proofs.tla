--------------------------- MODULE ScanEngine_proofs ---------------------------
(***************************************************************************)
(* Theorems about ScanEngine, for every set of callers, tasks and open     *)
(* calls.                                                                  *)
(***************************************************************************)
EXTENDS ScanEngineLease, TLAPS

\* Type correctness, in two halves: the Boolean flags and the rest.
FlagsTyped ==
    /\ running \in BOOLEAN /\ preview \in BOOLEAN
    /\ spectrum_queue \in BOOLEAN /\ record_fp \in BOOLEAN

StateTyped ==
    /\ device \in Handles \cup {NoHandle}
    /\ pump_task \in Pumps \cup {NoTask}
    /\ scan_task \in Loops \cup {NoTask}
    /\ pump \in [Pumps -> PumpState]
    /\ loop \in [Loops -> LoopState]
    /\ pc \in [Callers -> CallerState]
    /\ handle \in [Handles -> HandleState]
    /\ opening \in [Callers \cup Pumps -> Handles \cup {NoHandle}]

\* Every action leaves each flag alone or assigns it a Boolean.
LEMMA FlagsNext == FlagsTyped /\ [Next]_vars => FlagsTyped'
  <1> SUFFICES ASSUME FlagsTyped, [Next]_vars PROVE FlagsTyped'
    OBVIOUS
  <1> USE DEF FlagsTyped, flags
  <1>1. ASSUME NEW c \in Callers, CallerNext(c) PROVE FlagsTyped'
    <2>1. ASSUME NEW w, CloseThenOpen(c, w) PROVE FlagsTyped'
      BY <2>1, Zenon DEF CloseThenOpen, PreviewClose
    <2>2. CASE \/ StartOpened(c) \/ StartRecordFails(c) \/ StartRefused(c)
               \/ StartRetry(c) \/ StartTimeout(c) \/ StartCancelled(c)
      <3>1. record_fp' \in {record_fp, TRUE} => record_fp' \in BOOLEAN
        OBVIOUS
      <3> QED
        BY <2>2, <3>1, Zenon DEF StartOpened, StartRecordFails, StartRefused,
              StartRetry, StartTimeout, StartCancelled
    <2>3. CASE \/ StopCancelsPump(c) \/ StopMeetsDeadPump(c) \/ StopWithoutPump(c)
               \/ StopAfterPump(c) \/ StopAfterLoop(c)
      BY <2>3, Zenon DEF StopCancelsPump, StopMeetsDeadPump, StopWithoutPump,
            StopAfterPump, StopAfterLoop, StopLoopNext, StopRelease
    <2>4. CASE RetuneCancelsLoop(c) \/ RetuneWithoutLoop(c) \/ RetuneAfterLoop(c)
      BY <2>4, Zenon DEF RetuneCancelsLoop, RetuneWithoutLoop, RetuneAfterLoop,
            RetuneApply
    <2>5. CASE PreviewOpened(c) \/ PreviewRefused(c) \/ PreviewTimeout(c)
      BY <2>5, Zenon DEF PreviewOpened, PreviewRefused, PreviewTimeout, PreviewGone
    <2> QED
      BY <1>1, <2>1, <2>2, <2>3, <2>4, <2>5, Zenon
         DEF CallerNext, CallerResumes, ScanStart, PreviewOpen
  <1>2. ASSUME NEW p \in Pumps, PumpNext(p) PROVE FlagsTyped'
    BY <1>2, Zenon DEF PumpNext, PumpExits, PumpStall, PumpReopen, PumpReopened,
          PumpReopenRefused, PumpReopenTimeout, PumpRecordFull, PumpWriteFails,
          PreviewGone
  <1>3. ASSUME NEW l \in Loops, LoopNext(l) PROVE FlagsTyped'
    BY <1>3, Zenon DEF LoopNext, LoopExits, LoopTuneFails
  <1>4. ASSUME NEW h \in Handles, ThreadNext(h) PROVE FlagsTyped'
    BY <1>4, Zenon DEF ThreadNext, ThreadOpens, ThreadRaises, LateClose
  <1>5. CASE UNCHANGED vars
    BY <1>5, Zenon DEF vars
  <1> QED
    BY <1>1, <1>2, <1>3, <1>4, <1>5, Zenon DEF Next

\* The functions and references keep their types.
LEMMA StateNext == StateTyped /\ [Next]_vars => StateTyped'
  <1> SUFFICES ASSUME StateTyped, [Next]_vars PROVE StateTyped'
    OBVIOUS
  <1> USE EngineAssumption DEF StateTyped, HandleState, PumpState, LoopState, CallerState,
          tasks
  <1>1. ASSUME NEW c \in Callers, NEW w \in {"startOpen", "previewOpen"},
               CloseThenOpen(c, w)
        PROVE StateTyped'
    BY <1>1 DEF CloseThenOpen, PreviewClose, Closes, HandleAfterClose, PumpAfterClose,
                Released, Orphaned
  <1>2. ASSUME NEW c \in Callers, StartOpened(c) PROVE StateTyped'
    BY <1>2 DEF StartOpened, Awaits, Installed, Resumed, StartPump, StartLoop
  <1>3. ASSUME NEW c \in Callers,
               \/ StartRecordFails(c) \/ StartRefused(c) \/ StartRetry(c)
               \/ StartTimeout(c) \/ StartCancelled(c)
        PROVE StateTyped'
    BY <1>3 DEF StartRecordFails, StartRefused, StartRetry, StartTimeout, StartCancelled,
                Awaits, Installed, Resumed, GivenUp, Orphaned
  <1>4. ASSUME NEW c \in Callers,
               \/ StopCancelsPump(c) \/ StopMeetsDeadPump(c) \/ StopWithoutPump(c)
               \/ StopAfterPump(c) \/ StopAfterLoop(c)
        PROVE StateTyped'
    BY <1>4 DEF StopCancelsPump, StopMeetsDeadPump, StopWithoutPump, StopAfterPump,
                StopAfterLoop, StopLoopNext, StopRelease, LivePump, DeadPump, LiveLoop,
                DeadLoop, Orphaned, Released
  <1>5. ASSUME NEW c \in Callers,
               RetuneCancelsLoop(c) \/ RetuneWithoutLoop(c) \/ RetuneAfterLoop(c)
        PROVE StateTyped'
    BY <1>5 DEF RetuneCancelsLoop, RetuneWithoutLoop, RetuneAfterLoop, RetuneApply,
                StartLoop, LiveLoop
  <1>6. ASSUME NEW c \in Callers,
               PreviewOpened(c) \/ PreviewRefused(c) \/ PreviewTimeout(c)
        PROVE StateTyped'
    BY <1>6 DEF PreviewOpened, PreviewRefused, PreviewTimeout, PreviewGone, Awaits,
                Installed, Resumed, StartPump, Released, GivenUp
  <1>7. ASSUME NEW p \in Pumps, PumpNext(p) PROVE StateTyped'
    BY <1>7 DEF PumpNext, PumpExits, PumpStall, PumpReopen, PumpReopened,
                PumpReopenRefused, PumpReopenTimeout, PumpRecordFull, PumpWriteFails,
                PumpResumed, PreviewGone, Awaits, Installed, Released, GivenUp
  <1>8. ASSUME NEW l \in Loops, LoopNext(l) PROVE StateTyped'
    BY <1>8 DEF LoopNext, LoopExits, LoopTuneFails
  <1>9. ASSUME NEW h \in Handles, ThreadNext(h) PROVE StateTyped'
    BY <1>9 DEF ThreadNext, ThreadOpens, ThreadRaises, LateClose
  <1>10. CASE UNCHANGED vars
    BY <1>10 DEF vars
  <1> QED
    BY <1>1, <1>2, <1>3, <1>4, <1>5, <1>6, <1>7, <1>8, <1>9, <1>10
       DEF Next, CallerNext, CallerResumes, ScanStart, PreviewOpen

\* The engine's state keeps its types, whatever its callers do and whatever
\* fails (all of engine.py's handlers).
THEOREM TypeCorrect == Spec => []TypeOK
  <1>1. Init => FlagsTyped
    BY Zenon DEF Init, FlagsTyped
  <1>2. Init => StateTyped
    BY EngineAssumption
       DEF Init, StateTyped, HandleState, PumpState, LoopState, CallerState
  <1>3. FlagsTyped /\ StateTyped => TypeOK
    BY Zenon DEF FlagsTyped, StateTyped, TypeOK
  <1> QED
    BY <1>1, <1>2, <1>3, FlagsNext, StateNext, PTL DEF Spec
-----------------------------------------------------------------------------
(***************************************************************************)
(* Where every open call is.  HandleAccounted is not inductive: a caller   *)
(* that begins an open must not be awaiting one already.                   *)
(***************************************************************************)
PendingCalls ==
    /\ \A c \in Callers : opening[c] # NoHandle => pc[c] \in {"startOpen", "previewOpen"}
    /\ \A p \in Pumps : opening[p] # NoHandle => pump[p] = "reopening"

HandleInv == StateTyped /\ PendingCalls /\ HandleAccounted

\* preview_close and the open that follows it.
LEMMA CloseThenOpenInv ==
  ASSUME HandleInv, NEW c \in Callers, NEW w \in {"startOpen", "previewOpen"},
         CloseThenOpen(c, w)
  PROVE  PendingCalls' /\ HandleAccounted'
  <1> USE EngineAssumption DEF HandleInv, StateTyped
  <1>1. PICK h \in Handles :
           /\ handle[h] = "free"
           /\ handle' = [HandleAfterClose EXCEPT ![h] = "opening"]
           /\ opening' = [o \in Callers \cup Pumps |->
                             IF o = c THEN h
                             ELSE IF Closes /\ o = pump_task THEN NoHandle
                             ELSE opening[o]]
    BY DEF CloseThenOpen
  <1>2. opening[c] = NoHandle
    BY DEF CloseThenOpen, PendingCalls
  <1>3. PendingCalls'
    BY <1>1 DEF PendingCalls, CloseThenOpen, PreviewClose, PumpAfterClose
  <1>4. \A o \in Callers \cup Pumps :
           opening'[o] = IF o = c THEN h
                         ELSE IF Closes /\ o = pump_task THEN NoHandle ELSE opening[o]
    BY <1>1
  <1>5. \A g \in Handles : handle'[g] = IF g = h THEN "opening" ELSE HandleAfterClose[g]
    BY <1>1 DEF HandleAfterClose, Released, Orphaned
  <1>6. \A o \in Callers \cup Pumps : opening[o] # h
    BY <1>1 DEF HandleAccounted, AwaitedOnce
  <1>7. device # h
    BY <1>1 DEF HandleAccounted, DeviceIsHeld
  <1>8. device' = IF Closes THEN NoHandle ELSE device
    BY DEF CloseThenOpen, PreviewClose
  <1>9. \A g \in Handles \ {h} :
           handle'[g] = IF Closes /\ g = device THEN "free"
                        ELSE IF /\ Closes /\ pump_task # NoTask
                                /\ opening[pump_task] = g
                             THEN IF handle[g] = "opening" THEN "orphanOpening"
                                  ELSE IF handle[g] = "opened" THEN "leaked"
                                  ELSE "free"
                        ELSE handle[g]
    BY <1>5 DEF HandleAfterClose, Released, Orphaned
  <1>10. AwaitedOnce'
    <2>1. \A o, q \in Callers \cup Pumps :
             opening'[o] = opening'[q] /\ opening'[o] # NoHandle => o = q
      BY <1>4, <1>6 DEF HandleAccounted, AwaitedOnce
    <2>2. ASSUME NEW g \in Handles
          PROVE  handle'[g] \in {"opening", "opened", "refused"}
                    <=> \E o \in Callers \cup Pumps : opening'[o] = g
      <3>1. CASE g = h
        BY <1>4, <1>5, <3>1
      <3>2. CASE g # h /\ Closes /\ g = device
        <4>1. \A o \in Callers \cup Pumps : opening[o] # g
          BY <3>2 DEF HandleAccounted, AwaitedOnce, DeviceIsHeld
        <4>2. handle'[g] = "free"
          BY <1>9, <3>2
        <4>3. ASSUME NEW o \in Callers \cup Pumps PROVE opening'[o] # g
          <5>1. h # g /\ NoHandle # g /\ opening[o] # g
            BY <3>2, <4>1
          <5> QED
            BY <1>4, <5>1, Zenon
        <4> QED
          BY <4>2, <4>3
      <3>3. CASE g # h /\ ~(Closes /\ g = device)
                 /\ Closes /\ pump_task # NoTask /\ opening[pump_task] = g
        <4>1. pump_task \in Callers \cup Pumps
          BY <3>3
        <4>2. \A o \in Callers \cup Pumps : opening[o] = g => o = pump_task
          BY <3>3, <4>1 DEF HandleAccounted, AwaitedOnce
        <4>3. handle'[g] \in {"orphanOpening", "leaked", "free"}
          BY <1>9, <3>3
        <4> QED
          BY <1>4, <3>3, <4>2, <4>3
      <3>4. CASE g # h /\ ~(Closes /\ g = device)
                 /\ ~(Closes /\ pump_task # NoTask /\ opening[pump_task] = g)
        <4>1. handle'[g] = handle[g]
          BY <1>9, <3>4
        <4>2. \A o \in Callers \cup Pumps : opening'[o] = g <=> opening[o] = g
          BY <1>2, <1>4, <3>4
        <4> QED
          BY <4>1, <4>2 DEF HandleAccounted, AwaitedOnce
      <3> QED
        BY <3>1, <3>2, <3>3, <3>4
    <2> QED
      BY <2>1, <2>2 DEF AwaitedOnce
  <1>11. DeviceIsHeld'
    BY <1>5, <1>7, <1>8, <1>9 DEF HandleAccounted, DeviceIsHeld
  <1>12. ClaimedOnce'
    BY <1>5, <1>9 DEF HandleAccounted, ClaimedOnce, Claimed, Holding
  <1> QED
    BY <1>3, <1>10, <1>11, <1>12 DEF HandleAccounted

\* The awaits of start_async.
LEMMA StartInv ==
  ASSUME HandleInv, NEW c \in Callers,
         \/ StartOpened(c) \/ StartRecordFails(c) \/ StartRefused(c)
         \/ StartRetry(c) \/ StartTimeout(c) \/ StartCancelled(c)
  PROVE  PendingCalls' /\ HandleAccounted'
  <1> USE EngineAssumption
      DEF HandleInv, StateTyped, PendingCalls, HandleAccounted, AwaitedOnce, DeviceIsHeld,
          ClaimedOnce, Claimed, Holding, Awaits, Resumed, tasks
  <1>1. CASE StartOpened(c)
    BY <1>1 DEF StartOpened, Installed, StartPump
  <1>2. CASE StartRecordFails(c)
    BY <1>2 DEF StartRecordFails, Installed
  <1>3. CASE StartRefused(c) \/ StartRetry(c)
    BY <1>3 DEF StartRefused, StartRetry
  <1>4. CASE StartTimeout(c)
    BY <1>4 DEF StartTimeout, GivenUp
  <1>5. CASE StartCancelled(c)
    BY <1>5 DEF StartCancelled, Orphaned
  <1> QED
    BY <1>1, <1>2, <1>3, <1>4, <1>5

\* stop_async.
LEMMA StopInv ==
  ASSUME HandleInv, NEW c \in Callers,
         \/ StopCancelsPump(c) \/ StopMeetsDeadPump(c) \/ StopWithoutPump(c)
         \/ StopAfterPump(c) \/ StopAfterLoop(c)
  PROVE  PendingCalls' /\ HandleAccounted'
  <1> USE EngineAssumption
      DEF HandleInv, StateTyped, PendingCalls, HandleAccounted, AwaitedOnce, DeviceIsHeld,
          ClaimedOnce, Claimed, Holding, tasks
  <1>1. CASE StopCancelsPump(c)
    BY <1>1 DEF StopCancelsPump, LivePump, Orphaned
  <1>2. CASE StopMeetsDeadPump(c)
    BY <1>2 DEF StopMeetsDeadPump
  <1>3. CASE StopWithoutPump(c) \/ StopAfterPump(c) \/ StopAfterLoop(c)
    BY <1>3 DEF StopWithoutPump, StopAfterPump, StopAfterLoop, StopLoopNext, StopRelease,
                Released
  <1> QED
    BY <1>1, <1>2, <1>3

\* preview_open, once its open call has ended.
LEMMA PreviewInv ==
  ASSUME HandleInv, NEW c \in Callers,
         PreviewOpened(c) \/ PreviewRefused(c) \/ PreviewTimeout(c)
  PROVE  PendingCalls' /\ HandleAccounted'
  <1> USE EngineAssumption
      DEF HandleInv, StateTyped, PendingCalls, HandleAccounted, AwaitedOnce, DeviceIsHeld,
          ClaimedOnce, Claimed, Holding, Awaits, Resumed, tasks
  <1>1. CASE PreviewOpened(c)
    BY <1>1 DEF PreviewOpened, Installed, StartPump
  <1>2. CASE PreviewRefused(c)
    BY <1>2 DEF PreviewRefused, PreviewGone, Released
  <1>3. CASE PreviewTimeout(c)
    BY <1>3 DEF PreviewTimeout, PreviewGone, Released, GivenUp
  <1> QED
    BY <1>1, <1>2, <1>3

\* _iq_pump_loop and _recover_preview_device.
LEMMA PumpInv ==
  ASSUME HandleInv, NEW p \in Pumps, PumpNext(p)
  PROVE  PendingCalls' /\ HandleAccounted'
  <1> USE EngineAssumption
      DEF HandleInv, StateTyped, PendingCalls, HandleAccounted, AwaitedOnce, DeviceIsHeld,
          ClaimedOnce, Claimed, Holding, Awaits, PumpResumed, tasks
  <1>1. CASE PumpExits(p) \/ PumpRecordFull(p) \/ PumpWriteFails(p)
    BY <1>1 DEF PumpExits, PumpRecordFull, PumpWriteFails
  <1>2. CASE PumpStall(p)
    BY <1>2 DEF PumpStall, Released
  <1>3. CASE PumpReopen(p)
    BY <1>3 DEF PumpReopen
  <1>4. CASE PumpReopened(p)
    BY <1>4 DEF PumpReopened, Installed
  <1>5. CASE PumpReopenRefused(p)
    BY <1>5 DEF PumpReopenRefused, PreviewGone, Released
  <1>6. CASE PumpReopenTimeout(p)
    BY <1>6 DEF PumpReopenTimeout, PreviewGone, Released, GivenUp
  <1> QED
    BY <1>1, <1>2, <1>3, <1>4, <1>5, <1>6 DEF PumpNext

\* The executor threads and the done callback.
LEMMA ThreadInv ==
  ASSUME HandleInv, NEW h \in Handles, ThreadNext(h)
  PROVE  PendingCalls' /\ HandleAccounted'
  BY DEF HandleInv, StateTyped, PendingCalls, HandleAccounted, AwaitedOnce, DeviceIsHeld,
         ClaimedOnce, Claimed, Holding, ThreadNext, ThreadOpens, ThreadRaises, LateClose,
         tasks

\* No action loses track of an open call.
LEMMA HandleNext == HandleInv /\ [Next]_vars => PendingCalls' /\ HandleAccounted'
  <1> SUFFICES ASSUME HandleInv, [Next]_vars PROVE PendingCalls' /\ HandleAccounted'
    OBVIOUS
  <1>1. ASSUME NEW c \in Callers, CallerNext(c) PROVE PendingCalls' /\ HandleAccounted'
    <2>1. CASE RetuneCancelsLoop(c) \/ RetuneWithoutLoop(c) \/ RetuneAfterLoop(c)
      BY <2>1 DEF RetuneCancelsLoop, RetuneWithoutLoop, RetuneAfterLoop, RetuneApply,
                  HandleInv, StateTyped, PendingCalls, HandleAccounted, AwaitedOnce,
                  DeviceIsHeld, ClaimedOnce, Claimed
    <2> QED
      BY <1>1, <2>1, CloseThenOpenInv, StartInv, StopInv, PreviewInv
         DEF CallerNext, CallerResumes, ScanStart, PreviewOpen
  <1>2. ASSUME NEW l \in Loops, LoopNext(l) PROVE PendingCalls' /\ HandleAccounted'
    BY <1>2 DEF LoopNext, LoopExits, LoopTuneFails, HandleInv, PendingCalls,
                HandleAccounted, AwaitedOnce, DeviceIsHeld, ClaimedOnce, Claimed
  <1>3. CASE UNCHANGED vars
    BY <1>3 DEF vars, tasks, HandleInv, PendingCalls, HandleAccounted, AwaitedOnce,
                DeviceIsHeld, ClaimedOnce, Claimed
  <1> QED
    BY <1>1, <1>2, <1>3, PumpInv, ThreadInv DEF Next

LEMMA HandleInvariant == Spec => []HandleInv
  <1>1. Init => HandleInv
    BY EngineAssumption
       DEF Init, HandleInv, StateTyped, HandleState, PumpState, LoopState, CallerState,
           PendingCalls, HandleAccounted, AwaitedOnce, DeviceIsHeld, ClaimedOnce, Claimed,
           Holding
  <1>2. HandleInv /\ [Next]_vars => HandleInv'
    BY StateNext, HandleNext DEF HandleInv
  <1> QED
    BY <1>1, <1>2, PTL DEF Spec

\* For any number of callers and any mix of faults, the engine's bookkeeping
\* of open calls is exact: awaited once, installed once, claimed once.
THEOREM HandlesAccounted == Spec => []HandleAccounted
  BY HandleInvariant, PTL DEF HandleInv

\* self.device is None whenever an await is about to assign it.
THEOREM NeverOverwrites == Spec => []NothingOverwritten
  <1>1. HandleInv => NothingOverwritten
    BY EngineAssumption
       DEF HandleInv, StateTyped, HandleAccounted, DeviceIsHeld, ClaimedOnce, Claimed,
           Holding, NothingOverwritten, Awaits
  <1> QED
    BY <1>1, HandleInvariant, PTL

-----------------------------------------------------------------------------
(***************************************************************************)
(* What holds when some faults are excluded.  Without IQ starvation no     *)
(* pump ever recovers the preview device, because a preview always has its *)
(* device.                                                                 *)
(***************************************************************************)
QuietPumps ==
    /\ preview => device # NoHandle
    /\ \A p \in Pumps : pump[p] \notin {"settling", "reopening"}

\* No recovery starts unless the IQ stream starves.
LEMMA QuietNext ==
  ASSUME "stall" \notin Faults
  PROVE  StateTyped /\ QuietPumps /\ [Next]_vars => QuietPumps'
  <1> SUFFICES ASSUME StateTyped, QuietPumps, [Next]_vars PROVE QuietPumps'
    OBVIOUS
  <1> USE EngineAssumption DEF StateTyped, QuietPumps, flags, tasks
  <1>1. ASSUME NEW c \in Callers, CallerNext(c) PROVE QuietPumps'
    <2>1. ASSUME NEW w, CloseThenOpen(c, w) PROVE QuietPumps'
      BY <2>1 DEF CloseThenOpen, PreviewClose, PumpAfterClose
    <2>2. CASE StartOpened(c)
      BY <2>2 DEF StartOpened, StartPump, Awaits
    <2>3. CASE \/ StartRecordFails(c) \/ StartRefused(c) \/ StartRetry(c)
               \/ StartTimeout(c) \/ StartCancelled(c)
      BY <2>3 DEF StartRecordFails, StartRefused, StartRetry, StartTimeout,
                  StartCancelled, Awaits
    <2>4. CASE \/ StopCancelsPump(c) \/ StopMeetsDeadPump(c) \/ StopWithoutPump(c)
               \/ StopAfterPump(c) \/ StopAfterLoop(c)
      BY <2>4 DEF StopCancelsPump, StopMeetsDeadPump, StopWithoutPump, StopAfterPump,
                  StopAfterLoop, StopLoopNext, StopRelease
    <2>5. CASE RetuneCancelsLoop(c) \/ RetuneWithoutLoop(c) \/ RetuneAfterLoop(c)
      BY <2>5 DEF RetuneCancelsLoop, RetuneWithoutLoop, RetuneAfterLoop, RetuneApply
    <2>6. CASE PreviewOpened(c) \/ PreviewRefused(c) \/ PreviewTimeout(c)
      BY <2>6 DEF PreviewOpened, PreviewRefused, PreviewTimeout, PreviewGone, StartPump,
                  Awaits
    <2> QED
      BY <1>1, <2>1, <2>2, <2>3, <2>4, <2>5, <2>6
         DEF CallerNext, CallerResumes, ScanStart, PreviewOpen
  <1>2. ASSUME NEW p \in Pumps, PumpNext(p) PROVE QuietPumps'
    BY <1>2 DEF PumpNext, PumpExits, PumpStall, PumpReopen, PumpReopened,
                PumpReopenRefused, PumpReopenTimeout, PumpRecordFull, PumpWriteFails
  <1>3. ASSUME NEW l \in Loops, LoopNext(l) PROVE QuietPumps'
    BY <1>3 DEF LoopNext, LoopExits, LoopTuneFails
  <1>4. ASSUME NEW h \in Handles, ThreadNext(h) PROVE QuietPumps'
    BY <1>4 DEF ThreadNext, ThreadOpens, ThreadRaises, LateClose
  <1>5. CASE UNCHANGED vars
    BY <1>5 DEF vars
  <1> QED
    BY <1>1, <1>2, <1>3, <1>4, <1>5 DEF Next

LEMMA QuietInvariant ==
  ASSUME "stall" \notin Faults
  PROVE  Spec => [](HandleInv /\ QuietPumps)
  <1>1. Init => QuietPumps
    BY DEF Init, QuietPumps
  <1>2. HandleInv /\ QuietPumps /\ [Next]_vars => QuietPumps'
    BY QuietNext DEF HandleInv
  <1> QED
    BY <1>1, <1>2, HandleInvariant, PTL DEF Spec

\* One step never orphans an open call when neither the pump nor a caller is
\* cancelled while it awaits one.
LEMMA OrphanNext ==
  ASSUME "cancel" \notin Faults
  PROVE  HandleInv /\ QuietPumps /\ NoOrphan /\ [Next]_vars => NoOrphan'
  <1> SUFFICES ASSUME HandleInv, QuietPumps, NoOrphan, [Next]_vars PROVE NoOrphan'
    OBVIOUS
  <1> USE EngineAssumption DEF HandleInv, StateTyped, NoOrphan
  <1>1. \A p \in Pumps : opening[p] = NoHandle
    BY DEF QuietPumps, PendingCalls
  <1>2. \A o \in Callers \cup Pumps : Awaits(o, "opened") => device = NoHandle
    BY DEF HandleAccounted, DeviceIsHeld, ClaimedOnce, Claimed, Holding, Awaits
  <1>3. ASSUME NEW c \in Callers, CallerNext(c) PROVE NoOrphan'
    <2>1. ASSUME NEW w, CloseThenOpen(c, w) PROVE NoOrphan'
      <3>1. \A h \in Handles : HandleAfterClose[h] \in {handle[h], "free"}
        BY <1>1 DEF HandleAfterClose, Released
      <3> QED
        BY <2>1, <3>1 DEF CloseThenOpen, HandleAfterClose, Released, Orphaned
    <2>2. CASE StartOpened(c) \/ StartRecordFails(c) \/ PreviewOpened(c)
      BY <1>2, <2>2 DEF StartOpened, StartRecordFails, PreviewOpened, Installed
    <2>3. CASE StartRefused(c) \/ StartRetry(c) \/ StartTimeout(c)
      BY <2>3 DEF StartRefused, StartRetry, StartTimeout, GivenUp
    <2>4. CASE StartCancelled(c)
      BY <2>4 DEF StartCancelled
    <2>5. CASE \/ StopCancelsPump(c) \/ StopMeetsDeadPump(c) \/ StopWithoutPump(c)
               \/ StopAfterPump(c) \/ StopAfterLoop(c)
      BY <1>1, <2>5
         DEF StopCancelsPump, StopMeetsDeadPump, StopWithoutPump, StopAfterPump,
             StopAfterLoop, StopLoopNext, StopRelease, LivePump, Released
    <2>6. CASE RetuneCancelsLoop(c) \/ RetuneWithoutLoop(c) \/ RetuneAfterLoop(c)
      BY <2>6 DEF RetuneCancelsLoop, RetuneWithoutLoop, RetuneAfterLoop, RetuneApply
    <2>7. CASE PreviewRefused(c) \/ PreviewTimeout(c)
      BY <2>7 DEF PreviewRefused, PreviewTimeout, PreviewGone, Released, GivenUp
    <2> QED
      BY <1>3, <2>1, <2>2, <2>3, <2>4, <2>5, <2>6, <2>7
         DEF CallerNext, CallerResumes, ScanStart, PreviewOpen
  <1>4. ASSUME NEW p \in Pumps, PumpNext(p) PROVE NoOrphan'
    BY <1>4 DEF PumpNext, PumpExits, PumpStall, PumpReopen, PumpReopened,
                PumpReopenRefused, PumpReopenTimeout, PumpRecordFull, PumpWriteFails,
                QuietPumps, Released
  <1>5. ASSUME NEW l \in Loops, LoopNext(l) PROVE NoOrphan'
    BY <1>5 DEF LoopNext, LoopExits, LoopTuneFails
  <1>6. ASSUME NEW h \in Handles, ThreadNext(h) PROVE NoOrphan'
    BY <1>6 DEF ThreadNext, ThreadOpens, ThreadRaises, LateClose
  <1>7. CASE UNCHANGED vars
    BY <1>7 DEF vars
  <1> QED
    BY <1>3, <1>4, <1>5, <1>6, <1>7 DEF Next

\* The leak guard of _open_device_with_timeout is complete for timeouts: with
\* any number of callers, and whatever tune, write and record do, no handle
\* is lost unless an await of an open call is cancelled.
THEOREM GuardComplete ==
  ASSUME "stall" \notin Faults, "cancel" \notin Faults
  PROVE  Spec => []NoOrphan
  <1>1. Init => NoOrphan
    BY DEF Init, NoOrphan
  <1> QED
    BY <1>1, OrphanNext, QuietInvariant, PTL DEF Spec

\* The dead tasks that make stop_async raise, and the failed recording, are
\* excluded; callers may be cancelled.
NoDeadTask ==
    /\ \A p \in Pumps : pump[p] # "failed"
    /\ \A l \in Loops : loop[l] # "failed"

LEMMA IdleNext ==
  ASSUME Faults \subseteq {"cancel"}
  PROVE  /\ HandleInv /\ QuietPumps /\ NoDeadTask /\ IdleReleases /\ [Next]_vars
         => NoDeadTask' /\ IdleReleases'
  <1> SUFFICES ASSUME HandleInv, QuietPumps, NoDeadTask, IdleReleases, [Next]_vars
               PROVE  NoDeadTask' /\ IdleReleases'
    OBVIOUS
  <1> USE EngineAssumption
      DEF HandleInv, StateTyped, NoDeadTask, IdleReleases, flags, tasks
  <1>1. ASSUME NEW c \in Callers, CallerNext(c) PROVE NoDeadTask' /\ IdleReleases'
    <2>1. ASSUME NEW w \in {"startOpen", "previewOpen"}, CloseThenOpen(c, w)
          PROVE  NoDeadTask' /\ IdleReleases'
      <3>1. /\ preview' = (preview /\ ~Closes)
            /\ device' = IF Closes THEN NoHandle ELSE device
            /\ pump' = PumpAfterClose
            /\ pc' = [pc EXCEPT ![c] = w]
            /\ pc[c] = "idle"
            /\ UNCHANGED <<running, loop>>
        BY <2>1, Zenon DEF CloseThenOpen, PreviewClose
      <3>2. CASE Closes
        BY <3>1, <3>2 DEF PumpAfterClose
      <3>3. CASE ~Closes
        BY <3>1, <3>3 DEF PumpAfterClose
      <3> QED
        BY <3>2, <3>3
    <2>2. CASE StartOpened(c)
      BY <2>2 DEF StartOpened, StartPump, StartLoop
    <2>3. CASE \/ StartRecordFails(c) \/ StartRefused(c) \/ StartRetry(c)
               \/ StartTimeout(c) \/ StartCancelled(c)
      BY <2>3 DEF StartRecordFails, StartRefused, StartRetry, StartTimeout,
                  StartCancelled, Resumed
    <2>4. CASE StopCancelsPump(c) \/ StopMeetsDeadPump(c)
      BY <2>4 DEF StopCancelsPump, StopMeetsDeadPump, DeadPump, LivePump
    <2>5. CASE StopWithoutPump(c) \/ StopAfterPump(c) \/ StopAfterLoop(c)
      BY <2>5 DEF StopWithoutPump, StopAfterPump, StopAfterLoop, StopLoopNext,
                  StopRelease, LiveLoop, DeadLoop
    <2>6. CASE RetuneCancelsLoop(c) \/ RetuneWithoutLoop(c) \/ RetuneAfterLoop(c)
      BY <2>6 DEF RetuneCancelsLoop, RetuneWithoutLoop, RetuneAfterLoop, RetuneApply,
                  StartLoop, LiveLoop
    <2>7. CASE PreviewOpened(c) \/ PreviewRefused(c) \/ PreviewTimeout(c)
      BY <2>7 DEF PreviewOpened, PreviewRefused, PreviewTimeout, PreviewGone, StartPump
    <2> QED
      BY <1>1, <2>1, <2>2, <2>3, <2>4, <2>5, <2>6, <2>7
         DEF CallerNext, CallerResumes, ScanStart, PreviewOpen
  <1>2. ASSUME NEW p \in Pumps, PumpNext(p) PROVE NoDeadTask' /\ IdleReleases'
    BY <1>2 DEF PumpNext, PumpExits, PumpStall, PumpReopen, PumpReopened,
                PumpReopenRefused, PumpReopenTimeout, PumpRecordFull, PumpWriteFails,
                QuietPumps
  <1>3. ASSUME NEW l \in Loops, LoopNext(l) PROVE NoDeadTask' /\ IdleReleases'
    BY <1>3 DEF LoopNext, LoopExits, LoopTuneFails
  <1>4. ASSUME NEW h \in Handles, ThreadNext(h) PROVE NoDeadTask' /\ IdleReleases'
    BY <1>4 DEF ThreadNext, ThreadOpens, ThreadRaises, LateClose
  <1>5. CASE UNCHANGED vars
    BY <1>5 DEF vars
  <1> QED
    BY <1>1, <1>2, <1>3, <1>4, <1>5 DEF Next

\* With any number of overlapping callers, and callers that are cancelled,
\* the engine that neither scans nor previews nor stops holds no device, as
\* long as tune, the recording and the IQ stream do not fail.
THEOREM IdleEngineReleases ==
  ASSUME Faults \subseteq {"cancel"}
  PROVE  Spec => []IdleReleases
  <1>1. "stall" \notin Faults
    OBVIOUS
  <1>2. Init => NoDeadTask /\ IdleReleases
    BY DEF Init, NoDeadTask, IdleReleases
  <1> QED
    BY <1>1, <1>2, IdleNext, QuietInvariant, PTL DEF Spec

\* What makes a stop fall short is a scan loop that has died, which only a tune that
\* raises can do to it.
LoopsSound == \A l \in Loops : loop[l] # "failed"

LEMMA StopNext ==
  ASSUME "tune" \notin Faults
  PROVE  /\ HandleInv /\ LoopsSound /\ [Next]_vars
         => /\ LoopsSound'
            /\ \A c \in Callers : pc[c] \in {"stopPump", "stopLoop"} /\ pc'[c] = "idle"
                                     => device' = NoHandle
  <1> SUFFICES ASSUME HandleInv, LoopsSound, [Next]_vars
               PROVE  /\ LoopsSound'
                      /\ \A c \in Callers : pc[c] \in {"stopPump", "stopLoop"} /\ pc'[c] = "idle"
                                               => device' = NoHandle
    OBVIOUS
  <1> DEFINE Sound == /\ LoopsSound'
                      /\ \A c \in Callers : pc[c] \in {"stopPump", "stopLoop"} /\ pc'[c] = "idle"
                                               => device' = NoHandle
  <1> USE EngineAssumption DEF HandleInv, StateTyped, LoopsSound, tasks
  <1>1. ASSUME NEW c \in Callers, CallerNext(c) PROVE Sound
    <2>1. ASSUME NEW w \in {"startOpen", "previewOpen"}, CloseThenOpen(c, w) PROVE Sound
      BY <2>1 DEF CloseThenOpen
    <2>2. CASE \/ StartOpened(c) \/ StartRecordFails(c) \/ StartRefused(c) \/ StartRetry(c)
               \/ StartTimeout(c) \/ StartCancelled(c)
      BY <2>2 DEF StartOpened, StartRecordFails, StartRefused, StartRetry, StartTimeout,
                  StartCancelled, Resumed, StartPump, StartLoop
    <2>3. CASE StopCancelsPump(c) \/ StopMeetsDeadPump(c)
      BY <2>3 DEF StopCancelsPump, StopMeetsDeadPump
    <2>4. CASE StopWithoutPump(c) \/ StopAfterPump(c) \/ StopAfterLoop(c)
      BY <2>4 DEF StopWithoutPump, StopAfterPump, StopAfterLoop, StopLoopNext,
                  StopRelease, LiveLoop, DeadLoop
    <2>5. CASE RetuneCancelsLoop(c) \/ RetuneWithoutLoop(c) \/ RetuneAfterLoop(c)
      BY <2>5 DEF RetuneCancelsLoop, RetuneWithoutLoop, RetuneAfterLoop, RetuneApply,
                  StartLoop, LiveLoop
    <2>6. CASE PreviewOpened(c) \/ PreviewRefused(c) \/ PreviewTimeout(c)
      BY <2>6 DEF PreviewOpened, PreviewRefused, PreviewTimeout, PreviewGone, StartPump,
                  Resumed
    <2> QED
      BY <1>1, <2>1, <2>2, <2>3, <2>4, <2>5, <2>6
         DEF CallerNext, CallerResumes, ScanStart, PreviewOpen
  <1>2. ASSUME NEW p \in Pumps, PumpNext(p) PROVE Sound
    BY <1>2 DEF PumpNext, PumpExits, PumpStall, PumpReopen, PumpReopened,
                PumpReopenRefused, PumpReopenTimeout, PumpRecordFull, PumpWriteFails,
                PumpResumed
  <1>3. ASSUME NEW l \in Loops, LoopNext(l) PROVE Sound
    BY <1>3 DEF LoopNext, LoopExits, LoopTuneFails
  <1>4. ASSUME NEW h \in Handles, ThreadNext(h) PROVE Sound
    BY <1>4 DEF ThreadNext, ThreadOpens, ThreadRaises, LateClose
  <1>5. CASE UNCHANGED vars
    BY <1>5 DEF vars
  <1> QED
    BY <1>1, <1>2, <1>3, <1>4, <1>5 DEF Next

\* "Stop scan rotation and the active scan, releasing the SDR device": with any
\* number of overlapping callers and every other fault, cancelled callers, stalled
\* streams and failed recordings included, stop_async returns with the device closed,
\* as long as controller.tune does not raise.
THEOREM StopsRelease ==
  ASSUME "tune" \notin Faults
  PROVE  Spec => StopReleases
  <1>1. Init => LoopsSound
    BY DEF Init, LoopsSound
  <1>2. HandleInv /\ LoopsSound /\ [Next]_vars =>
          [\A c \in Callers : pc[c] \in {"stopPump", "stopLoop"} /\ pc'[c] = "idle"
                                 => device' = NoHandle]_vars
    BY StopNext
  <1> QED
    BY <1>1, <1>2, StopNext, HandleInvariant, PTL DEF Spec, StopReleases

-----------------------------------------------------------------------------
(***************************************************************************)
(* One caller at a time and no fault: the engine as its handlers assume    *)
(* it.  The invariant says which tasks are alive at each point of a call.  *)
(***************************************************************************)
SerialTasks ==
    /\ \A p \in Pumps : LivePump(p) => p = pump_task /\ (running \/ preview)
    /\ \A l \in Loops : LiveLoop(l) =>
          l = scan_task /\ (running \/ \E c \in Callers : pc[c] = "stopPump")

SerialCalls ==
    \A c \in Callers :
        /\ pc[c] \in {"startOpen", "previewOpen"} => ~preview
        /\ pc[c] \in {"previewOpen", "stopPump", "stopLoop"} => ~running
        /\ pc[c] \in {"stopPump", "stopLoop"} => \A p \in Pumps : ~LivePump(p)
        /\ pc[c] = "retuneLoop" => running /\ \A l \in Loops : ~LiveLoop(l)

SerialInv == /\ HandleInv /\ QuietPumps /\ NoDeadTask
             /\ SerialTasks /\ SerialCalls
             /\ (running => ~preview) /\ ScanOwnsDevice

\* One step of the only caller, of the engine's tasks or of a thread.
LEMMA SerialNext ==
  ASSUME NEW c \in Callers, Callers = {c}, Faults = {},
         SerialInv, [Next]_vars
  PROVE  /\ NoDeadTask' /\ SerialTasks' /\ SerialCalls'
         /\ (running => ~preview)' /\ ScanOwnsDevice'
         /\ running /\ running' => device' = device
  <1> DEFINE Goal == /\ NoDeadTask' /\ SerialTasks' /\ SerialCalls'
                     /\ (running => ~preview)' /\ ScanOwnsDevice'
                     /\ running /\ running' => device' = device
  <1> USE EngineAssumption
      DEF SerialInv, HandleInv, StateTyped, QuietPumps, NoDeadTask, SerialTasks,
          SerialCalls, ScanOwnsDevice, LivePump, LiveLoop, flags, tasks
  <1>1. CASE ScanStart(c) \/ PreviewOpen(c)
    <2>1. PICK w \in {"startOpen", "previewOpen"} :
             CloseThenOpen(c, w) /\ (w = "previewOpen" => ~running)
      BY <1>1 DEF ScanStart, PreviewOpen
    <2>2. /\ preview' = (preview /\ ~Closes)
          /\ device' = IF Closes THEN NoHandle ELSE device
          /\ spectrum_queue' = (spectrum_queue /\ ~Closes)
          /\ pump' = PumpAfterClose
          /\ pump_task' = IF Closes THEN NoTask ELSE pump_task
          /\ pc' = [pc EXCEPT ![c] = w]
          /\ pc[c] = "idle"
          /\ UNCHANGED <<running, loop, scan_task>>
      BY <2>1, Zenon DEF CloseThenOpen, PreviewClose
    <2>3. CASE Closes
      BY <2>1, <2>2, <2>3 DEF PumpAfterClose, Closes
    <2>4. CASE ~Closes
      BY <2>1, <2>2, <2>4 DEF PumpAfterClose, Closes
    <2> QED
      BY <2>3, <2>4
  <1>2. CASE StartOpened(c)
    <2>1. device = NoHandle
      BY <1>2 DEF StartOpened, HandleAccounted, DeviceIsHeld, ClaimedOnce, Claimed,
                  Holding, Awaits
    <2>2. ~running /\ ~preview /\ pc[c] = "startOpen"
      BY <1>2, <2>1 DEF StartOpened
    <2>3. (\A p \in Pumps : ~LivePump(p)) /\ (\A l \in Loops : ~LiveLoop(l))
      BY <2>2
    <2> QED
      BY <1>2, <2>2, <2>3 DEF StartOpened, StartPump, StartLoop, Resumed, Awaits
  <1>3. CASE \/ StartRecordFails(c) \/ StartRefused(c) \/ StartRetry(c)
             \/ StartTimeout(c) \/ StartCancelled(c)
    BY <1>3 DEF StartRecordFails, StartRefused, StartRetry, StartTimeout, StartCancelled,
                Resumed
  <1>4. CASE StopCancelsPump(c) \/ StopMeetsDeadPump(c)
    BY <1>4 DEF StopCancelsPump, StopMeetsDeadPump, DeadPump
  <1>5. CASE StopWithoutPump(c)
    <2>1. (\A p \in Pumps : ~LivePump(p)) /\ (\A l \in Loops : ~LiveLoop(l))
      BY <1>5 DEF StopWithoutPump
    <2>2. ~LiveLoop(scan_task) /\ ~DeadLoop(scan_task)
      BY <2>1 DEF DeadLoop
    <2>3. StopRelease(c) /\ running' = FALSE /\ pump' = pump /\ pc[c] = "idle"
      BY <1>5, <2>2, Zenon DEF StopWithoutPump, StopLoopNext
    <2> QED
      BY <2>1, <2>3 DEF StopRelease
  <1>6. CASE StopAfterPump(c)
    <2>1. (\A p \in Pumps : ~LivePump(p)) /\ ~running /\ ~DeadLoop(scan_task)
      BY <1>6 DEF StopAfterPump, DeadLoop
    <2>2. CASE LiveLoop(scan_task)
      <3>1. /\ loop' = [loop EXCEPT ![scan_task] = "off"]
            /\ pc' = [pc EXCEPT ![c] = "stopLoop"]
            /\ UNCHANGED <<scan_task, preview, device, running, pump>>
        BY <1>6, <2>1, <2>2, Zenon DEF StopAfterPump, StopLoopNext, StopRelease
      <3> QED
        BY <2>1, <3>1
    <2>3. CASE ~LiveLoop(scan_task)
      <3>1. StopRelease(c) /\ UNCHANGED <<running, pump>>
        BY <1>6, <2>1, <2>3, Zenon DEF StopAfterPump, StopLoopNext
      <3>2. \A l \in Loops : ~LiveLoop(l)
        BY <2>1, <2>3
      <3> QED
        BY <2>1, <3>1, <3>2 DEF StopRelease
    <2> QED
      BY <2>2, <2>3
  <1>7. CASE StopAfterLoop(c)
    BY <1>7 DEF StopAfterLoop, StopRelease
  <1>8. CASE RetuneCancelsLoop(c)
    BY <1>8 DEF RetuneCancelsLoop
  <1>9. CASE RetuneWithoutLoop(c) \/ RetuneAfterLoop(c)
    BY <1>9 DEF RetuneWithoutLoop, RetuneAfterLoop, RetuneApply, StartLoop
  <1>10. CASE PreviewOpened(c)
    BY <1>10 DEF PreviewOpened, StartPump, Resumed, Awaits
  <1>11. CASE PreviewRefused(c) \/ PreviewTimeout(c)
    BY <1>11 DEF PreviewRefused, PreviewTimeout, PreviewGone, Resumed
  <1>12. ASSUME NEW p \in Pumps, PumpNext(p) PROVE Goal
    BY <1>12 DEF PumpNext, PumpExits, PumpStall, PumpReopen, PumpReopened,
                 PumpReopenRefused, PumpReopenTimeout, PumpRecordFull, PumpWriteFails
  <1>13. ASSUME NEW l \in Loops, LoopNext(l) PROVE Goal
    BY <1>13 DEF LoopNext, LoopExits, LoopTuneFails
  <1>14. ASSUME NEW h \in Handles, ThreadNext(h) PROVE Goal
    BY <1>14 DEF ThreadNext, ThreadOpens, ThreadRaises, LateClose
  <1>15. CASE UNCHANGED vars
    BY <1>15 DEF vars
  <1> QED
    BY <1>1, <1>2, <1>3, <1>4, <1>5, <1>6, <1>7, <1>8, <1>9, <1>10, <1>11, <1>12, <1>13,
       <1>14, <1>15 DEF Next, CallerNext, CallerResumes

LEMMA SerialInvariant ==
  ASSUME NEW c \in Callers, Callers = {c}, Faults = {}
  PROVE  Spec => [](SerialInv /\ HandleInv)
  <1>1. Init => NoDeadTask /\ SerialTasks /\ SerialCalls /\ (running => ~preview)
                /\ ScanOwnsDevice
    BY EngineAssumption
       DEF Init, NoDeadTask, SerialTasks, SerialCalls, ScanOwnsDevice, LivePump, LiveLoop
  <1>2. SerialInv /\ [Next]_vars
           => NoDeadTask' /\ SerialTasks' /\ SerialCalls' /\ (running => ~preview)'
              /\ ScanOwnsDevice'
    BY SerialNext
  <1>3. "stall" \notin Faults
    OBVIOUS
  <1> QED
    BY <1>1, <1>2, <1>3, QuietInvariant, PTL DEF Spec, SerialInv

\* With one caller at a time and no fault, a running scan has its device, its
\* queue and its pump.
THEOREM ScanOwns ==
  ASSUME NEW c \in Callers, Callers = {c}, Faults = {}
  PROVE  Spec => []ScanOwnsDevice
  BY SerialInvariant, PTL DEF SerialInv

\* ... its device has one reader and one tuner, the ones stop_async knows of
THEOREM ScanHasOneReader ==
  ASSUME NEW c \in Callers, Callers = {c}, Faults = {}
  PROVE  Spec => []OneReader
  <1>1. SerialInv => OneReader
    <2> SUFFICES ASSUME SerialInv PROVE OneReader
      OBVIOUS
    <2>1. \A l \in Loops : LiveLoop(l) /\ running => l = scan_task
      BY DEF SerialInv, SerialTasks
    <2> QED
      BY <2>1 DEF SerialInv, SerialTasks, OneReader
  <1> QED
    BY <1>1, SerialInvariant, PTL

\* ... and no step of the engine takes the device away while it runs.
THEOREM ScanKeeps ==
  ASSUME NEW c \in Callers, Callers = {c}, Faults = {}
  PROVE  Spec => ScanKeepsDevice
  <1>1. SerialInv /\ [Next]_vars => [running /\ running' => device' = device]_vars
    BY SerialNext
  <1> QED
    BY <1>1, SerialInvariant, PTL DEF Spec, ScanKeepsDevice

-----------------------------------------------------------------------------
\* ScanEngine implements DongleLease, for every set of callers, tasks and open
\* calls and every combination of faults.

\* What one step may do with a claimed handle, and when one may be claimed.
Moves(h) ==
    /\ handle[h] = "opened" => handle'[h] \in {"opened", "engine", "lateOpened", "leaked"}
    /\ handle[h] = "engine" => handle'[h] \in {"engine", "free"}
    /\ handle[h] = "lateOpened" => handle'[h] \in {"lateOpened", "free"}
    /\ handle[h] = "leaked" => handle'[h] = "leaked"
    /\ ~Claimed(h) /\ handle'[h] \in Holding =>
          /\ handle'[h] # "engine"
          /\ \A g \in Handles : ~Claimed(g)

\* No step moves a handle otherwise; the invariant is what keeps a start from
\* installing its handle over another one.
LEMMA StepMoves == HandleInv /\ [Next]_vars => \A h \in Handles : Moves(h)
  <1> SUFFICES ASSUME HandleInv, [Next]_vars PROVE \A h \in Handles : Moves(h)
    OBVIOUS
  <1> USE EngineAssumption DEF HandleInv, StateTyped, HandleState, Moves, Claimed, Holding
  <1>1. ASSUME NEW c \in Callers, NEW w, CloseThenOpen(c, w)
        PROVE \A h \in Handles : Moves(h)
    <2>1. PICK n \in Handles :
             handle[n] = "free" /\ handle' = [HandleAfterClose EXCEPT ![n] = "opening"]
      BY <1>1 DEF CloseThenOpen
    <2>2. Closes /\ pump_task # NoTask /\ opening[pump_task] # NoHandle =>
             device # opening[pump_task]
      BY DEF HandleAccounted, AwaitedOnce, DeviceIsHeld
    <2>3. \A h \in Handles :
             handle'[h] = IF h = n THEN "opening" ELSE HandleAfterClose[h]
      BY <2>1 DEF HandleAfterClose, Released, Orphaned
    <2>4. \A h \in Handles :
             \/ HandleAfterClose[h] = handle[h]
             \/ h = device /\ HandleAfterClose[h] = "free"
             \/ /\ handle[h] \notin {"engine", "lateOpened", "leaked"}
                /\ HandleAfterClose[h] = IF handle[h] = "opening" THEN "orphanOpening"
                                         ELSE IF handle[h] = "opened" THEN "leaked"
                                         ELSE "free"
      <3>1. Closes /\ pump_task # NoTask /\ opening[pump_task] # NoHandle =>
               handle[opening[pump_task]] \in {"opening", "opened", "refused"}
        BY DEF HandleAccounted, AwaitedOnce
      <3> QED
        BY <2>2, <3>1 DEF HandleAfterClose, Released, Orphaned
    <2> QED
      BY <2>1, <2>3, <2>4 DEF HandleAccounted, DeviceIsHeld
  <1>2. ASSUME NEW o \in Callers \cup Pumps, Awaits(o, "opened"),
               handle' = Installed(opening[o])
        PROVE \A h \in Handles : Moves(h)
    <2>1. device = NoHandle
      BY <1>2 DEF HandleAccounted, DeviceIsHeld, ClaimedOnce, Awaits
    <2> QED
      BY <1>2, <2>1 DEF Installed, Awaits
  <1>3. ASSUME NEW o \in Callers \cup Pumps, Awaits(o, "refused"),
               \/ handle' = [handle EXCEPT ![opening[o]] = "free"]
               \/ handle' = [handle EXCEPT ![opening[o]] = "opening"]
               \/ handle' = Released([handle EXCEPT ![opening[o]] = "free"])
        PROVE \A h \in Handles : Moves(h)
    BY <1>3 DEF Awaits, Released, HandleAccounted, DeviceIsHeld
  <1>4. ASSUME NEW o \in Callers \cup Pumps, opening[o] # NoHandle,
               \/ handle' = GivenUp(opening[o])
               \/ handle' = Released(GivenUp(opening[o]))
               \/ handle' = Orphaned(opening[o])
        PROVE \A h \in Handles : Moves(h)
    BY <1>4 DEF GivenUp, Orphaned, Released, HandleAccounted, AwaitedOnce, DeviceIsHeld
  <1>5. ASSUME handle' = handle \/ handle' = Released(handle)
        PROVE \A h \in Handles : Moves(h)
    BY <1>5 DEF Released, HandleAccounted, DeviceIsHeld
  <1>6. ASSUME NEW h \in Handles, ThreadNext(h) PROVE \A g \in Handles : Moves(g)
    BY <1>6 DEF ThreadNext, ThreadOpens, ThreadRaises, LateClose
  <1>7. ASSUME NEW c \in Callers, CallerNext(c) PROVE \A h \in Handles : Moves(h)
    <2>1. CASE ScanStart(c) \/ PreviewOpen(c)
      BY <1>1, <2>1 DEF ScanStart, PreviewOpen
    <2>2. CASE StartOpened(c) \/ StartRecordFails(c) \/ PreviewOpened(c)
      BY <1>2, <2>2 DEF StartOpened, StartRecordFails, PreviewOpened
    <2>3. CASE StartRefused(c) \/ StartRetry(c) \/ PreviewRefused(c)
      BY <1>3, <2>3 DEF StartRefused, StartRetry, PreviewRefused, PreviewGone
    <2>4. CASE StartTimeout(c) \/ StartCancelled(c) \/ PreviewTimeout(c)
      BY <1>4, <2>4 DEF StartTimeout, StartCancelled, PreviewTimeout, PreviewGone
    <2>5. CASE StopCancelsPump(c)
      BY <1>4, <1>5, <2>5 DEF StopCancelsPump, LivePump
    <2>6. CASE \/ StopMeetsDeadPump(c) \/ StopWithoutPump(c)
               \/ StopAfterPump(c) \/ StopAfterLoop(c)
               \/ RetuneCancelsLoop(c) \/ RetuneWithoutLoop(c) \/ RetuneAfterLoop(c)
      BY <1>5, <2>6
         DEF StopMeetsDeadPump, StopWithoutPump, StopAfterPump, StopAfterLoop,
             StopLoopNext, StopRelease, RetuneCancelsLoop, RetuneWithoutLoop,
             RetuneAfterLoop, RetuneApply
    <2> QED
      BY <1>7, <2>1, <2>2, <2>3, <2>4, <2>5, <2>6 DEF CallerNext, CallerResumes
  <1>8. ASSUME NEW p \in Pumps, PumpNext(p) PROVE \A h \in Handles : Moves(h)
    <2>1. CASE PumpExits(p) \/ PumpStall(p) \/ PumpRecordFull(p) \/ PumpWriteFails(p)
      BY <1>5, <2>1 DEF PumpExits, PumpStall, PumpRecordFull, PumpWriteFails
    <2>2. CASE PumpReopen(p)
      BY <2>2 DEF PumpReopen
    <2>3. CASE PumpReopened(p)
      BY <1>2, <2>3 DEF PumpReopened
    <2>4. CASE PumpReopenRefused(p)
      BY <1>3, <2>4 DEF PumpReopenRefused, PreviewGone
    <2>5. CASE PumpReopenTimeout(p)
      BY <1>4, <2>5 DEF PumpReopenTimeout, PreviewGone
    <2> QED
      BY <1>8, <2>1, <2>2, <2>3, <2>4, <2>5 DEF PumpNext
  <1>9. ASSUME NEW l \in Loops, LoopNext(l) PROVE \A h \in Handles : Moves(h)
    BY <1>5, <1>9 DEF LoopNext, LoopExits, LoopTuneFails
  <1>10. CASE UNCHANGED vars
    BY <1>5, <1>10 DEF vars
  <1> QED
    BY <1>6, <1>7, <1>8, <1>9, <1>10 DEF Next

\* A claimed handle decides who holds the dongle.
LEMMA HolderIs ==
  ASSUME HandleInv, NEW h \in Handles, Claimed(h)
  PROVE  holder = CASE handle[h] = "opened"     -> "thread"
                    [] handle[h] = "engine"     -> "engine"
                    [] handle[h] = "lateOpened" -> "guard"
                    [] OTHER                    -> "lost"
  BY DEF HandleInv, HandleAccounted, ClaimedOnce, Claimed, Holding, holder, Some

LEMMA HolderNobody ==
  ASSUME \A h \in Handles : ~Claimed(h)
  PROVE  holder = "nobody"
  BY DEF Claimed, Holding, holder, Some

\* Every step of the engine is a step of the lease, or leaves it alone.
LEMMA LeaseStep ==
  HandleInv /\ HandleInv' /\ [Next]_vars => [Lease!Next]_holder
  <1> SUFFICES ASSUME HandleInv, HandleInv', [Next]_vars PROVE [Lease!Next]_holder
    OBVIOUS
  <1>0. \A h \in Handles : Moves(h)
    BY StepMoves
  <1> USE DEF Lease!Next, Lease!Claim, Lease!Deliver, Lease!GiveUp, Lease!Release,
              Lease!CloseLate
  <1>1. CASE \A h \in Handles : ~Claimed(h)
    <2>1. holder = "nobody"
      BY <1>1, HolderNobody
    <2>2. CASE \A h \in Handles : ~Claimed(h)'
      <3>1. holder' = "nobody"
        BY <2>2 DEF Claimed, Holding, holder, Some
      <3> QED
        BY <2>1, <3>1
    <2>3. ASSUME NEW h \in Handles, Claimed(h)' PROVE [Lease!Next]_holder
      <3>1. handle'[h] \in {"opened", "lateOpened", "leaked"}
        BY <1>0, <1>1, <2>3 DEF Moves, Claimed, Holding
      <3>2. \A g \in Handles : handle'[g] \in Holding => g = h
        BY <2>3 DEF HandleInv, HandleAccounted, ClaimedOnce, Claimed
      <3>3. holder' \in {"thread", "guard", "lost"}
        BY <3>1, <3>2 DEF holder, Some, Holding
      <3> QED
        BY <2>1, <3>3
    <2> QED
      BY <2>2, <2>3
  <1>2. ASSUME NEW h \in Handles, Claimed(h) PROVE [Lease!Next]_holder
    <2>1. \A g \in Handles \ {h} : handle'[g] \notin Holding
      BY <1>0, <1>2 DEF Moves, HandleInv, HandleAccounted, ClaimedOnce, Claimed, Holding
    <2>2. holder' = CASE handle'[h] = "opened"     -> "thread"
                      [] handle'[h] = "engine"     -> "engine"
                      [] handle'[h] = "lateOpened" -> "guard"
                      [] handle'[h] = "leaked"     -> "lost"
                      [] OTHER                     -> "nobody"
      BY <2>1 DEF holder, Some, Holding
    <2> QED
      BY <1>0, <1>2, <2>2, HolderIs DEF Moves, Claimed, Holding
  <1> QED
    BY <1>1, <1>2

\* The engine keeps the lease: for any number of overlapping callers, under
\* every fault, the dongle is opened only when nobody holds it, and whoever
\* holds it hands it on, closes it, or loses it with a cancelled await
\* (start_async, stop_async, preview_open, preview_close,
\* _recover_preview_device, _open_device_with_timeout).
THEOREM LeaseRefined == Spec => LeaseKept
  <1>1. Init => Lease!Init
    BY HolderNobody DEF Init, Lease!Init, Claimed, Holding
  <1> QED
    BY <1>1, LeaseStep, HandleInvariant, PTL DEF Spec, LeaseKept, Lease!Spec
=============================================================================
