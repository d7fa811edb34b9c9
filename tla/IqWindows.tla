----------------------------- MODULE IqWindows -----------------------------
(***************************************************************************)
(* From the I/Q pump of scan/engine.py to a window of audio: the queue of  *)
(* a listener, which drops what does not fit; the slots of                 *)
(* beacons/scheduler.py, which must hold only what was recorded in them;   *)
(* and the overlapping windows of decoders/cw_session.py.  Time is in      *)
(* ticks, a block holds one of them; a loop that may act may be late.      *)
(***************************************************************************)
EXTENDS Naturals, Sequences

CONSTANTS
    SlotTicks, SettleTicks, GuardTicks, \* SLOT_SECONDS, _SETTLE_S, _GUARD_S
    MinFill,        \* _MIN_FILL_RATIO of a window, in blocks
    ListenerCap,    \* maxsize of beacon_iq_queue
    SlotBands,      \* bands of the scheduler, 1 .. SlotBands
    BandSlots,      \* SLOTS_PER_CYCLE
    LastTick,       \* bound on the clock
    CwWindow,       \* samples of a window of the CW session
    CwOverlaps,     \* overlap_seconds, in samples: chosen once
    CwChunks,       \* sizes of a chunk after resampling
    CwLast          \* bound on the samples of a CW session

ASSUME IqAssumption ==
    /\ SlotTicks \in Nat /\ SettleTicks \in Nat /\ GuardTicks \in Nat /\ MinFill \in Nat
    /\ SettleTicks + GuardTicks < SlotTicks
    /\ ListenerCap \in Nat \ {0} /\ SlotBands \in Nat \ {0} /\ BandSlots \in Nat \ {0}
    /\ LastTick \in Nat /\ CwWindow \in Nat \ {0} /\ CwLast \in Nat
    /\ CwOverlaps \subseteq 0 .. CwWindow - 1 /\ CwChunks \subseteq Nat \ {0}

VARIABLES
    iqNow,      \* the clock
    tuned,      \* center_hz, 0 for the scan's, and since when
    iqQueue,    \* state.beacon_iq_queue
    slotLoop,   \* BeaconScheduler
    cwAudio     \* CWDecoderSession: _audio_buffer and the last two windows, as
                \* sample numbers, [lo, hi)

iqVars == <<iqNow, tuned, iqQueue, slotLoop, cwAudio>>

Blocks == [at : 0 .. LastTick, hz : 0 .. SlotBands]
CollectTicks == SlotTicks - SettleTicks - GuardTicks

IqTypeOK ==
    /\ iqNow \in 0 .. LastTick
    /\ tuned \in [hz : 0 .. SlotBands, since : 0 .. LastTick]
    /\ iqQueue \in Seq(Blocks) /\ Len(iqQueue) <= ListenerCap
    /\ slotLoop.pc \in {"off", "wait", "settle", "collect", "detect"}
    /\ slotLoop.start \in Nat /\ slotLoop.band \in 1 .. SlotBands
    /\ slotLoop.count \in 0 .. BandSlots - 1 /\ slotLoop.parked \in 0 .. SlotBands
    /\ slotLoop.audio \in Seq(Blocks) /\ Len(slotLoop.audio) <= CollectTicks
    /\ cwAudio \in [lo : 0 .. CwLast, hi : 0 .. CwLast, last : 0 .. CwLast,
                    next : 0 .. CwLast, overlap : CwOverlaps]

IqInit ==
    /\ iqNow = 0
    /\ tuned = [hz |-> 0, since |-> 0]
    /\ iqQueue = <<>>
    /\ slotLoop = [pc |-> "off", start |-> 0, band |-> 1, count |-> 0, parked |-> 0,
                   audio |-> <<>>]
    /\ \E n \in CwOverlaps :
        cwAudio = [lo |-> 0, hi |-> 0, last |-> 0, next |-> 0, overlap |-> n]

-----------------------------------------------------------------------------
(***************************************************************************)
(* _iq_pump_loop.                                                          *)
(***************************************************************************)
\* mutant: the queue has no limit
MutOffered(q, block) == Append(q, block)

\* a listener that is too slow loses the newest block
Offered(q, block) == IF Len(q) < ListenerCap THEN Append(q, block) ELSE q

\* a tick passes: one block for a registered listener, or none, on a stall
IqTick ==
    /\ iqNow < LastTick
    /\ iqNow' = iqNow + 1
    /\ iqQueue' \in {iqQueue} \cup
         (IF slotLoop.pc = "off" THEN {}
          ELSE {Offered(iqQueue, [at |-> iqNow, hz |-> tuned.hz])})
    /\ UNCHANGED <<tuned, slotLoop, cwAudio>>

-----------------------------------------------------------------------------
(***************************************************************************)
(* _slot_loop and _collect_audio.                                          *)
(***************************************************************************)
NextBoundary == (iqNow \div SlotTicks + 1) * SlotTicks

\* start: too close to the boundary, the one after is taken
SlotsOn ==
    /\ slotLoop.pc = "off"
    /\ \E start \in {NextBoundary, NextBoundary + SlotTicks} :
        slotLoop' = [slotLoop EXCEPT !.pc = "wait", !.start = start, !.band = 1,
                                     !.count = 0]
    /\ UNCHANGED <<iqNow, tuned, iqQueue, cwAudio>>

\* stop: the queue keeps its blocks, the scan its sweep
SlotsOff ==
    /\ slotLoop.pc # "off"
    /\ slotLoop' = [slotLoop EXCEPT !.pc = "off", !.parked = 0, !.audio = <<>>]
    /\ tuned' = [hz |-> 0, since |-> iqNow]
    /\ UNCHANGED <<iqNow, iqQueue, cwAudio>>

\* mutant: only a retune flushes
MutFlushed(retunes) == IF retunes THEN <<>> ELSE iqQueue

\* every slot flushes what the queue holds
Flushed(retunes) == <<>>

SlotBegins ==
    /\ slotLoop.pc = "wait" /\ iqNow >= slotLoop.start
    /\ LET retunes == slotLoop.parked # slotLoop.band IN
       /\ tuned' = IF retunes THEN [hz |-> slotLoop.band, since |-> iqNow] ELSE tuned
       /\ slotLoop' = [slotLoop EXCEPT !.parked = slotLoop.band, !.audio = <<>>,
                                       !.pc = IF retunes THEN "settle" ELSE "collect"]
       /\ iqQueue' = Flushed(retunes)
    /\ UNCHANGED <<iqNow, cwAudio>>

\* after a retune, also what was recorded while the front end settled
SlotSettled ==
    /\ slotLoop.pc = "settle" /\ iqNow >= tuned.since + SettleTicks
    /\ slotLoop' = [slotLoop EXCEPT !.pc = "collect"]
    /\ iqQueue' = <<>>
    /\ UNCHANGED <<iqNow, tuned, cwAudio>>

Deadline == slotLoop.start + SlotTicks - GuardTicks

SlotCollects ==
    /\ slotLoop.pc = "collect" /\ iqNow < Deadline
    /\ Len(slotLoop.audio) < CollectTicks /\ iqQueue # <<>>
    /\ slotLoop' = [slotLoop EXCEPT !.audio = Append(@, Head(iqQueue))]
    /\ iqQueue' = Tail(iqQueue)
    /\ UNCHANGED <<iqNow, tuned, cwAudio>>

\* the next slot, however late, on the next band after BandSlots of them
NextSlot ==
    IF slotLoop.count + 1 < BandSlots
    THEN [slotLoop EXCEPT !.pc = "wait", !.audio = <<>>, !.start = @ + SlotTicks,
                          !.count = @ + 1]
    ELSE [slotLoop EXCEPT !.pc = "wait", !.audio = <<>>, !.start = @ + SlotTicks,
                          !.count = 0, !.band = (@ % SlotBands) + 1]

\* full, or out of time: enough for the detector, or not
SlotCollected ==
    /\ slotLoop.pc = "collect"
    /\ iqNow >= Deadline \/ Len(slotLoop.audio) = CollectTicks
    /\ slotLoop' = IF Len(slotLoop.audio) >= MinFill
                   THEN [slotLoop EXCEPT !.pc = "detect"] ELSE NextSlot
    /\ UNCHANGED <<iqNow, tuned, iqQueue, cwAudio>>

SlotDetected ==
    /\ slotLoop.pc = "detect"
    /\ slotLoop' = NextSlot
    /\ UNCHANGED <<iqNow, tuned, iqQueue, cwAudio>>

SlotNext == SlotsOn \/ SlotsOff \/ SlotBegins \/ SlotSettled \/ SlotCollects
            \/ SlotCollected \/ SlotDetected

-----------------------------------------------------------------------------
(***************************************************************************)
(* CWDecoderSession._run.                                                  *)
(***************************************************************************)
CwBuffers ==
    /\ cwAudio.hi - cwAudio.lo < CwWindow
    /\ \E n \in CwChunks :
        /\ cwAudio.hi + n <= CwLast
        /\ cwAudio' = [cwAudio EXCEPT !.hi = @ + n]
    /\ UNCHANGED <<iqNow, tuned, iqQueue, slotLoop>>

\* mutant: all that follows the window counts as overlap
MutKept(extra) == IF cwAudio.overlap < extra THEN extra ELSE cwAudio.overlap

\* what is kept of a window: never more than what follows it
Kept(extra) == IF cwAudio.overlap < extra THEN cwAudio.overlap ELSE extra

\* a window is decoded and the buffer slides; without an overlap, or when
\* nothing follows the window, it is emptied
CwDecodes ==
    /\ cwAudio.hi - cwAudio.lo >= CwWindow
    /\ LET end == cwAudio.lo + CwWindow
           lo == IF cwAudio.overlap > 0 /\ cwAudio.hi > end
                 THEN end - Kept(cwAudio.hi - end) ELSE cwAudio.hi
       IN cwAudio' = [cwAudio EXCEPT !.lo = lo, !.next = lo, !.last = end]
    /\ UNCHANGED <<iqNow, tuned, iqQueue, slotLoop>>

IqNext == IqTick \/ SlotNext \/ CwBuffers \/ CwDecodes

IqSpec == IqInit /\ [][IqNext]_iqVars

-----------------------------------------------------------------------------
\* However late the loop is and whatever the queue drops, the detector sees
\* only what was recorded within the slot it is told, on the slot's band, and
\* not while the front end settled.
SlotAudio ==
    slotLoop.pc = "detect" =>
      \A i \in 1 .. Len(slotLoop.audio) :
        LET block == slotLoop.audio[i] IN
        /\ slotLoop.start <= block.at /\ block.at < Deadline
        /\ block.hz = slotLoop.band
        /\ block.at >= tuned.since + SettleTicks
        /\ i > 1 => slotLoop.audio[i - 1].at < block.at

\* With an overlap, no sample of a CW session escapes the decoder, and none is
\* decoded again beyond the overlap asked for.
NoSampleSkipped ==
    cwAudio.overlap > 0 =>
        cwAudio.next <= cwAudio.last /\ cwAudio.next + cwAudio.overlap >= cwAudio.last

\* Each decoder is given the samples of its own windows: the beacon detector
\* none from outside its slot, the CW decoder all of them, once but for the
\* overlap.
WindowsExact == SlotAudio /\ NoSampleSkipped
===========================================================================
