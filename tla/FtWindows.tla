----------------------------- MODULE FtWindows -----------------------------
(***************************************************************************)
(* The windows of decoders/ft_external.py: the turn of a mode, the wait    *)
(* for its UTC slot, the capture from a queue that the I/Q pump fills and  *)
(* the flush empties, the decode in a thread, and the ingest of the result *)
(* in api/decoders.py, with a user who changes modes, band and scan at any *)
(* moment.  Time is in ticks, a block holds the samples of one; the loop   *)
(* may be late.  Starts and stops of the decoder are in ScanPark.          *)
(***************************************************************************)
EXTENDS Naturals, Sequences, Functions

CONSTANTS
    WinPeriod,      \* window_seconds: a mode to its ticks
    WinModeLists,   \* the lists set_modes may be given
    WinFamily,      \* _FT_FAMILY
    WinBands,       \* config["band"]
    WsprEvery,      \* wspr_every_n
    WinCap,         \* maxsize of _ft_external_iq_queue
    WinLast,        \* bound on the clock
    WinAsks         \* bound on the requests of the user

WinModes == DOMAIN WinPeriod

ASSUME WinAssumption ==
    /\ WinPeriod \in [WinModes -> Nat \ {0}] /\ "WSPR" \in WinModes
    /\ WinModeLists \subseteq Seq(WinModes) \ {<<>>} /\ WinFamily \subseteq WinModes
    /\ \A l \in WinModeLists : Len(l) \in {1, 2}
    /\ WsprEvery \in Nat \ {0} /\ WinCap \in Nat \ {0}
    /\ WinLast \in Nat /\ WinAsks \in Nat

VARIABLES
    winNow,     \* the clock
    winScan,    \* run: the engine and scan_state; band; mode: decoder_mode
    winQueue,   \* _ft_external_iq_queue
    winLoop,    \* ExternalFtDecoder; moved and missed are history: the radio
                \* was taken elsewhere, a block was lost during the window
    winSaved,   \* the windows an event was saved of, as [from, to] in ticks
    winAsked    \* requests so far

winVars == <<winNow, winScan, winQueue, winLoop, winSaved, winAsked>>

WinBlocks == [at : 0 .. WinLast, band : WinBands]

WinTypeOK ==
    /\ winNow \in 0 .. WinLast /\ winAsked \in 0 .. WinAsks
    /\ winScan \in [run : BOOLEAN, band : WinBands, mode : WinModes]
    /\ winQueue \in Seq(WinBlocks) /\ Len(winQueue) <= WinCap
    /\ winLoop.pc \in {"top", "wait", "settle", "collect", "process", "decode"}
    /\ winLoop.modes \in WinModeLists /\ winLoop.mode \in WinModes
    /\ winLoop.turn \in {0, 1} /\ winLoop.skips \in 0 .. WsprEvery - 1
    /\ winLoop.band \in WinBands /\ winLoop.boundary \in Nat
    /\ winLoop.audio \in Seq(WinBlocks)
    /\ Len(winLoop.audio) <= WinPeriod[winLoop.mode]
    /\ {winLoop.abort, winLoop.moved, winLoop.missed} \subseteq BOOLEAN
    /\ winSaved \subseteq [from : 0 .. WinLast, to : 0 .. WinLast]

\* a scan is on and the decoder has been started
WinInit ==
    /\ winNow = 0 /\ winQueue = <<>> /\ winSaved = {} /\ winAsked = 0
    /\ winScan \in [run : {TRUE}, band : WinBands, mode : WinFamily]
    /\ \E l \in WinModeLists :
        winLoop = [pc |-> "top", modes |-> l, mode |-> l[1], turn |-> 0, skips |-> 0,
                   band |-> winScan.band, boundary |-> 0, audio |-> <<>>,
                   abort |-> FALSE, moved |-> FALSE, missed |-> FALSE]

-----------------------------------------------------------------------------
\* _iq_pump_loop: a block for the listener, which loses it when its queue is
\* full, or none on a stall
WinTick ==
    /\ winNow < WinLast
    /\ winNow' = winNow + 1
    /\ \/ /\ winScan.run /\ Len(winQueue) < WinCap
          /\ winQueue' = Append(winQueue, [at |-> winNow, band |-> winScan.band])
          /\ UNCHANGED winLoop
       \/ /\ winLoop' = [winLoop EXCEPT !.missed = @ \/ winLoop.pc = "collect"]
          /\ UNCHANGED winQueue
    /\ UNCHANGED <<winScan, winSaved, winAsked>>

-----------------------------------------------------------------------------
(***************************************************************************)
(* _run.                                                                   *)
(***************************************************************************)
WinOnly == UNCHANGED <<winNow, winScan, winAsked>>

\* with other modes about, WSPR takes every WsprEvery-th of its turns only
Skipped(mode) ==
    /\ mode = "WSPR" /\ Len(winLoop.modes) > 1
    /\ (winLoop.skips + 1) % WsprEvery # 0

\* the turn of the next mode; the wait is for the next multiple of its period
WinPicks ==
    /\ winLoop.pc = "top"
    /\ LET mode == winLoop.modes[(winLoop.turn % Len(winLoop.modes)) + 1]
           counted == mode = "WSPR" /\ Len(winLoop.modes) > 1
           next == [winLoop EXCEPT
                      !.mode = mode, !.abort = FALSE, !.turn = 1 - @,
                      !.skips = IF counted THEN (@ + 1) % WsprEvery ELSE @]
       IN winLoop' = IF Skipped(mode) THEN next
                     ELSE [next EXCEPT !.pc = "wait", !.band = winScan.band,
                             !.boundary = (winNow \div WinPeriod[mode] + 1) * WinPeriod[mode]]
    /\ WinOnly /\ UNCHANGED <<winQueue, winSaved>>

\* whatever ends the window early, the loop takes the next turn
WinOver == [winLoop EXCEPT !.pc = "top", !.audio = <<>>, !.boundary = 0,
                           !.moved = FALSE, !.missed = FALSE]

\* _wait_for_slot_boundary gives up as soon as the modes have changed
WinGivesUp ==
    /\ winLoop.pc = "wait" /\ winLoop.abort
    /\ winLoop' = WinOver
    /\ WinOnly /\ UNCHANGED <<winQueue, winSaved>>

\* the slot begins; a band that is not the one before the wait loses it.  A
\* change of modes in its last 50 ms is seen later.
WinAligned ==
    /\ winLoop.pc = "wait" /\ winNow >= winLoop.boundary
    /\ winLoop' = IF winScan.band # winLoop.band THEN WinOver
                  ELSE [winLoop EXCEPT !.pc = "settle", !.moved = FALSE]
    /\ WinOnly /\ UNCHANGED <<winQueue, winSaved>>

\* mutant: what came in during the last decode is used
MutWinFlushed == winQueue

\* _ft_external_flush_iq
WinFlushed == <<>>

\* 50 ms after the park: the capture begins
WinOpens ==
    /\ winLoop.pc = "settle"
    /\ winLoop' = [winLoop EXCEPT !.pc = "collect", !.missed = FALSE]
    /\ winQueue' = WinFlushed
    /\ WinOnly /\ UNCHANGED winSaved

WinFull == Len(winLoop.audio) = WinPeriod[winLoop.mode]

WinReads ==
    /\ winLoop.pc = "collect" /\ ~winLoop.abort /\ ~WinFull /\ winQueue # <<>>
    /\ winLoop' = [winLoop EXCEPT !.audio = Append(@, Head(winQueue))]
    /\ winQueue' = Tail(winQueue)
    /\ WinOnly /\ UNCHANGED winSaved

\* an aborted capture is dropped, a full one goes to the thread of the DSP
WinCaptured ==
    /\ winLoop.pc = "collect" /\ (winLoop.abort \/ WinFull)
    /\ winLoop' = IF winLoop.abort THEN WinOver ELSE [winLoop EXCEPT !.pc = "process"]
    /\ WinOnly /\ UNCHANGED <<winQueue, winSaved>>

\* back from the thread: the modes may have changed under it
WinProcessed ==
    /\ winLoop.pc = "process"
    /\ winLoop' = IF winLoop.abort THEN WinOver ELSE [winLoop EXCEPT !.pc = "decode"]
    /\ WinOnly /\ UNCHANGED <<winQueue, winSaved>>

\* _ingest_callsign_payloads, in the decoder's thread: an event is dropped unless
\* a scan is on in its mode, or in another of its family
Ingested(window) ==
    IF /\ winScan.run
       /\ \/ winLoop.mode = winScan.mode
          \/ {winLoop.mode, winScan.mode} \subseteq WinFamily
    THEN winSaved \cup {window} ELSE winSaved

\* _decode_audio_window: the program finds something, or nothing, or fails
WinDecoded ==
    /\ winLoop.pc = "decode"
    /\ winLoop' = WinOver
    /\ LET audio == winLoop.audio IN
       winSaved' \in {winSaved, Ingested([from |-> audio[1].at, to |-> audio[Len(audio)].at])}
    /\ WinOnly /\ UNCHANGED winQueue

WinStep == WinPicks \/ WinGivesUp \/ WinAligned \/ WinOpens \/ WinReads
           \/ WinCaptured \/ WinProcessed \/ WinDecoded

-----------------------------------------------------------------------------
(***************************************************************************)
(* The user.                                                               *)
(***************************************************************************)
WinAsk ==
    /\ winAsked < WinAsks
    /\ winAsked' = winAsked + 1
    /\ UNCHANGED <<winNow, winQueue, winSaved>>

\* mutant: a new list that still has modes of the old one aborts nothing
MutChanged(old, new) == Range(old) \cap Range(new) = {}

\* set_modes compares sets: another order is no change
Changed(old, new) == Range(old) # Range(new)

\* decoder_external_ft_modes
WinModesSet ==
    /\ WinAsk
    /\ \E l \in WinModeLists \ {winLoop.modes} :
        winLoop' = [winLoop EXCEPT !.modes = l,
                      !.abort = @ \/ Changed(winLoop.modes, l)]
    /\ UNCHANGED winScan

\* change_decoder_mode, which also aborts what is not the new mode
WinSelects ==
    /\ WinAsk
    /\ \E m \in WinModes :
        /\ <<m>> \in WinModeLists \ {winLoop.modes}
        /\ winScan' = [winScan EXCEPT !.mode = m]
        /\ winLoop' = [winLoop EXCEPT !.modes = <<m>>,
                         !.abort = @ \/ Changed(winLoop.modes, <<m>>)]

\* scan_start and scan_stop, and the retunes of a rotation
WinScanMoves ==
    /\ WinAsk
    /\ \/ winScan' = [winScan EXCEPT !.run = ~@]
       \/ \E b \in WinBands \ {winScan.band} :
            winScan' = [winScan EXCEPT !.run = TRUE, !.band = b]
    /\ winLoop' = [winLoop EXCEPT !.moved = @ \/ winLoop.pc \in {"settle", "collect"}]

WinNext == WinTick \/ WinStep \/ WinModesSet \/ WinSelects \/ WinScanMoves

WinSpec == WinInit /\ [][WinNext]_winVars

-----------------------------------------------------------------------------
\* What the FT decoder is given is one whole window: as long as its mode asks,
\* none of it recorded before the slot began, in the order of recording, without
\* a gap unless the pump lost a block, and all from one band unless the scan was
\* moved during the window itself.
WholeWindow ==
    winLoop.pc \in {"process", "decode"} =>
      LET audio == winLoop.audio IN
      /\ WinFull
      /\ \A i \in DOMAIN audio :
          /\ audio[i].at >= winLoop.boundary
          /\ i > 1 => audio[i - 1].at < audio[i].at
          /\ (i > 1 /\ ~winLoop.missed) => audio[i].at = audio[i - 1].at + 1
          /\ ~winLoop.moved => audio[i].band = winLoop.band

\* A window whose mode has been taken off the list is marked, however late the
\* change came, and so never reaches the program.
OldModesAbort ==
    (winLoop.pc \in {"wait", "settle", "collect", "process"}
     /\ winLoop.mode \notin Range(winLoop.modes)) => winLoop.abort

\* No sample is behind two events' windows: what the queue kept during a decode,
\* or held when the modes changed, is never decoded again.
WindowsApart ==
    \A a, b \in winSaved : a # b => a.to < b.from \/ b.to < a.from

FtWindowsExact == WholeWindow /\ OldModesAbort /\ WindowsApart
===========================================================================
