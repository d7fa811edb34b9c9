---------------------------- MODULE VoiceEvents ----------------------------
(***************************************************************************)
(* When a voice on the band becomes an event.  The sweep of                *)
(* scan/engine.py holds on a frequency that was reported often enough and  *)
(* validates it for a while; two loops hear the band, the occupancy loop   *)
(* of websocket/events.py ("ws") and the SSB detector of api/decoders.py   *)
(* ("asr"), and each stores at most one event per frequency and gap.  The  *)
(* occupancy loop stores raw occupancy of the other modes too ("raw").     *)
(*                                                                         *)
(* Time is kept as ages, in ticks, up to the age that still matters.  What *)
(* has expired and what was never there look the same to every reader, so  *)
(* the pruning of the dictionaries is not a step.                          *)
(***************************************************************************)
EXTENDS Integers, Sequences

CONSTANTS
    VoiceFreqs,     \* frequencies that are heard
    SweepCentres,   \* the frequencies of a pass, a sequence
    HoldWidth, ClaimWidth, RawWidth,    \* widths of the three kinds of buckets
    Ttl, Cooldown, Hits, MaxHolds,      \* ssb_focus_*
    ValidAge,       \* max_age_s of is_ssb_frequency_validated
    EmitGap         \* debounce of each emitter, and of "digital" raw events

Emitters == {"ws", "asr", "raw"}

ASSUME VoiceAssumption ==
    /\ VoiceFreqs \subseteq Nat \ {0} /\ SweepCentres \in Seq(Nat \ {0})
    /\ Len(SweepCentres) > 0
    /\ {HoldWidth, ClaimWidth, RawWidth, Hits, MaxHolds} \subseteq Nat \ {0}
    /\ {Ttl, Cooldown, ValidAge} \subseteq Nat
    /\ EmitGap \in [Emitters \cup {"digital"} -> Nat]
    /\ EmitGap["digital"] <= EmitGap["raw"]

VARIABLES
    voice,      \* running, scan_state["decoder_mode"], _ssb_focus_enabled
    sweep,      \* where the pass is, its holds, and whether it holds now
    cand,       \* _ssb_focus_candidates
    valid,      \* _ssb_validated_freqs: age, ValidAge + 1 for none
    chunk,      \* has the SSB detector taken samples, and let others run
    claims,     \* _ssb_traffic_last_emit of both modules, _occ_last_emit
    heard,      \* history: reports since the reset, the hold or a silence
    shown,      \* history: age of the last hold that enough reports earned
    spoke,      \* history: age of the last event of an emitter and its bucket
    voiceEvent  \* history: the event the last step stored, if any

voiceVars ==
    <<voice, sweep, cand, valid, chunk, claims, heard, shown, spoke, voiceEvent>>

\* round(f / width), halves to the even side
Rounded(f, width) ==
    LET q == f \div width
        r == f % width
    IN IF 2 * r > width \/ (2 * r = width /\ q % 2 = 1) THEN q + 1 ELSE q

HoldBucket(f) == Rounded(f, HoldWidth)
EmitKey(e, f) == IF e = "raw" THEN f \div RawWidth ELSE f \div ClaimWidth

HoldBuckets == {HoldBucket(f) : f \in VoiceFreqs}
                \cup {HoldBucket(SweepCentres[i]) : i \in 1 .. Len(SweepCentres)}
EmitKeys == {EmitKey(e, f) : e \in Emitters, f \in VoiceFreqs}

\* what no report made, and what is too old to count
Absent == [hits |-> 0, seen |-> Ttl + 1, held |-> Cooldown]
NoVoiceEvent == [by |-> "none", freq |-> 0, ago |-> 0, wait |-> 0]

VoiceTypeOK ==
    /\ voice \in [on : BOOLEAN, mode : {"", "ssb", "cw", "ft8"}, focus : BOOLEAN]
    /\ sweep \in [at : 1 .. Len(SweepCentres), holds : 0 .. MaxHolds, holding : BOOLEAN]
    /\ cand \in [HoldBuckets -> [hits : 0 .. Hits, seen : 0 .. Ttl + 1,
                                 held : 0 .. Cooldown]]
    /\ valid \in [HoldBuckets -> 0 .. ValidAge + 1]
    /\ chunk \in BOOLEAN
    /\ claims \in [Emitters -> [EmitKeys -> Nat]]
    /\ heard \in [HoldBuckets -> [count : 0 .. Hits, ago : 0 .. Ttl + 1]]
    /\ shown \in [HoldBuckets -> 0 .. ValidAge + 1]
    /\ spoke \in [Emitters -> [EmitKeys -> Nat]]
    /\ voiceEvent \in [by : Emitters, freq : VoiceFreqs, ago : Nat, wait : Nat]
                        \cup {NoVoiceEvent}

VoiceInit ==
    /\ voice = [on |-> FALSE, mode |-> "", focus |-> FALSE]
    /\ sweep = [at |-> 1, holds |-> 0, holding |-> FALSE]
    /\ cand = [b \in HoldBuckets |-> Absent]
    /\ valid = [b \in HoldBuckets |-> ValidAge + 1]
    /\ chunk = FALSE
    /\ claims = [e \in Emitters |-> [k \in EmitKeys |-> EmitGap[e]]]
    /\ heard = [b \in HoldBuckets |-> [count |-> 0, ago |-> Ttl + 1]]
    /\ shown = [b \in HoldBuckets |-> ValidAge + 1]
    /\ spoke = [e \in Emitters |-> [k \in EmitKeys |-> EmitGap[e]]]
    /\ voiceEvent = NoVoiceEvent

Older(age, limit) == IF age < limit THEN age + 1 ELSE age

\* a candidate that was silent for too long is dropped where it is met
Aged(c) ==
    IF c.seen >= Ttl THEN Absent
    ELSE [c EXCEPT !.seen = @ + 1, !.held = Older(@, Cooldown)]

VoiceTick ==
    /\ cand' = [b \in HoldBuckets |-> Aged(cand[b])]
    /\ valid' = [b \in HoldBuckets |-> Older(valid[b], ValidAge + 1)]
    /\ claims' = [e \in Emitters |-> [k \in EmitKeys |-> Older(claims[e][k], EmitGap[e])]]
    /\ heard' = [b \in HoldBuckets |->
                    IF heard[b].ago >= Ttl THEN [count |-> 0, ago |-> Ttl + 1]
                    ELSE [heard[b] EXCEPT !.ago = @ + 1]]
    /\ shown' = [b \in HoldBuckets |-> Older(shown[b], ValidAge + 1)]
    /\ spoke' = [e \in Emitters |-> [k \in EmitKeys |-> Older(spoke[e][k], EmitGap[e])]]
    /\ voiceEvent' = NoVoiceEvent
    /\ UNCHANGED <<voice, sweep, chunk>>

-----------------------------------------------------------------------------
(***************************************************************************)
(* Start, retune, mode and stop.                                           *)
(***************************************************************************)
Dropped ==
    /\ heard' = [b \in HoldBuckets |-> [count |-> 0, ago |-> Ttl + 1]]
    /\ shown' = [b \in HoldBuckets |-> ValidAge + 1]
    /\ voiceEvent' = NoVoiceEvent

\* mutant: validations of the band before stay
MutFocusReset(on) ==
    /\ \E focus \in BOOLEAN : voice' = [voice EXCEPT !.on = on, !.focus = focus]
    /\ sweep' = [at |-> 1, holds |-> 0, holding |-> FALSE]
    /\ cand' = [b \in HoldBuckets |-> Absent]
    /\ UNCHANGED valid

\* what start_async and retune_band_async set of the focus, the flag as the
\* request has it: scan_start asks for it in mode ssb unless told otherwise
FocusReset(on) ==
    /\ \E focus \in BOOLEAN : voice' = [voice EXCEPT !.on = on, !.focus = focus]
    /\ sweep' = [at |-> 1, holds |-> 0, holding |-> FALSE]
    /\ cand' = [b \in HoldBuckets |-> Absent]
    /\ valid' = [b \in HoldBuckets |-> ValidAge + 1]

VoiceStarts == FocusReset(TRUE) /\ Dropped /\ UNCHANGED <<chunk, claims, spoke>>

\* a rotation that retunes keeps the scan running
VoiceRetunes ==
    voice.on /\ FocusReset(TRUE) /\ Dropped /\ UNCHANGED <<chunk, claims, spoke>>

\* scan_start, change_decoder_mode and the rotation write the mode in a step
\* of their own; none touches the focus
ModeSet ==
    /\ \E mode \in {"ssb", "cw", "ft8"} : voice' = [voice EXCEPT !.mode = mode]
    /\ voiceEvent' = NoVoiceEvent
    /\ UNCHANGED <<sweep, cand, valid, chunk, claims, heard, shown, spoke>>

VoiceStops ==
    /\ voice.on
    /\ voice' = [voice EXCEPT !.on = FALSE, !.mode = ""]
    /\ voiceEvent' = NoVoiceEvent
    /\ UNCHANGED <<sweep, cand, valid, chunk, claims, heard, shown, spoke>>

-----------------------------------------------------------------------------
(***************************************************************************)
(* _scan_loop with _resolve_ssb_focus_extra_dwell_ms.                      *)
(***************************************************************************)
\* the next frequency, or the next pass
Advanced(s) ==
    IF s.at < Len(SweepCentres) THEN [s EXCEPT !.at = @ + 1, !.holding = FALSE]
    ELSE [at |-> 1, holds |-> 0, holding |-> FALSE]

\* mutant: a pass holds as often as it likes
MutHoldBudget(b) ==
    /\ voice.focus
    /\ cand[b].seen <= Ttl /\ cand[b].hits >= Hits /\ cand[b].held >= Cooldown

\* reported recently and often enough, and not held a moment ago
HoldsOn(b) ==
    /\ voice.focus /\ sweep.holds < MaxHolds
    /\ cand[b].seen <= Ttl /\ cand[b].hits >= Hits /\ cand[b].held >= Cooldown

\* the dwell on a frequency is over; it is validated when the hold begins
SweepDwelt ==
    /\ voice.on /\ ~sweep.holding
    /\ LET b == HoldBucket(SweepCentres[sweep.at]) IN
       \/ /\ HoldsOn(b)
          /\ sweep' = [sweep EXCEPT !.holding = TRUE, !.holds = @ + 1]
          /\ cand' = [cand EXCEPT ![b].hits = 0, ![b].held = 0]
          /\ valid' = [valid EXCEPT ![b] = 0]
          /\ shown' = IF heard[b].count >= Hits /\ heard[b].ago <= Ttl
                      THEN [shown EXCEPT ![b] = 0] ELSE shown
          /\ heard' = [heard EXCEPT ![b].count = 0]
       \/ /\ ~HoldsOn(b)
          /\ sweep' = Advanced(sweep)
          /\ UNCHANGED <<cand, valid, shown, heard>>
    /\ voiceEvent' = NoVoiceEvent
    /\ UNCHANGED <<voice, chunk, claims, spoke>>

SweepHeld ==
    /\ voice.on /\ sweep.holding
    /\ sweep' = Advanced(sweep)
    /\ voiceEvent' = NoVoiceEvent
    /\ UNCHANGED <<voice, cand, valid, chunk, claims, heard, shown, spoke>>

-----------------------------------------------------------------------------
(***************************************************************************)
(* The two loops that hear the band.                                       *)
(***************************************************************************)
\* report_ssb_candidate
Report(b) ==
    /\ cand' = IF ~voice.focus THEN cand
               ELSE IF cand[b].seen > Ttl
               THEN [cand EXCEPT ![b] = [hits |-> 1, seen |-> 0, held |-> Cooldown]]
               ELSE [cand EXCEPT ![b].hits = Older(@, Hits), ![b].seen = 0]
    /\ heard' = IF ~voice.focus THEN heard
                ELSE [heard EXCEPT ![b] = [count |-> Older(@.count, Hits), ago |-> 0]]

\* is_ssb_frequency_validated
Validated(f) == voice.focus /\ valid[HoldBucket(f)] <= ValidAge

\* the event and what it takes; a claim may be taken for nothing
Silent == voiceEvent' = NoVoiceEvent /\ UNCHANGED <<claims, spoke>>

Claimed(e, f, wait) == claims[e][EmitKey(e, f)] < wait

Speaks(e, f, wait) ==
    /\ claims' = [claims EXCEPT ![e][EmitKey(e, f)] = 0]
    /\ spoke' = [spoke EXCEPT ![e][EmitKey(e, f)] = 0]
    /\ voiceEvent' = [by |-> e, freq |-> f, wait |-> wait, ago |-> spoke[e][EmitKey(e, f)]]

\* mutant: an event that is stored makes no claim
MutVoiceEmit(e, f, enough) ==
    \/ Claimed(e, f, EmitGap[e]) /\ Silent
    \/ /\ ~Claimed(e, f, EmitGap[e]) /\ enough
       /\ spoke' = [spoke EXCEPT ![e][EmitKey(e, f)] = 0]
       /\ voiceEvent' = [by |-> e, freq |-> f, wait |-> EmitGap[e],
                         ago |-> spoke[e][EmitKey(e, f)]]
       /\ UNCHANGED claims

\* _emit_ssb_traffic_event_from_occupancy, of either module: the claim is made
\* before the strength of the signal is looked at
VoiceEmit(e, f, enough) ==
    \/ Claimed(e, f, EmitGap[e]) /\ Silent
    \/ /\ ~Claimed(e, f, EmitGap[e]) /\ enough
       /\ Speaks(e, f, EmitGap[e])
    \/ /\ ~Claimed(e, f, EmitGap[e]) /\ ~enough
       /\ claims' = [claims EXCEPT ![e][EmitKey(e, f)] = 0]
       /\ voiceEvent' = NoVoiceEvent
       /\ UNCHANGED spoke

\* _run_occupancy_detection_loop in mode ssb: below 6 dB a signal is only
\* reported, below 8 dB it makes no event
OccupancyHearsVoice(f, strength) ==
    /\ voice.on /\ voice.mode = "ssb"
    /\ Report(HoldBucket(f))
    /\ \/ strength # "weak" /\ Validated(f) /\ VoiceEmit("ws", f, strength = "strong")
       \/ (strength = "weak" \/ ~Validated(f)) /\ Silent
    /\ UNCHANGED <<voice, sweep, valid, chunk, shown>>

\* the other modes store raw occupancy, and no voice: the emitter looks at the
\* mode first, whatever is validated
OccupancyHears(f) ==
    /\ voice.on /\ voice.mode # "ssb"
    /\ LET wait == EmitGap[IF voice.mode = "ft8" THEN "digital" ELSE "raw"] IN
       \/ Claimed("raw", f, wait) /\ Silent
       \/ ~Claimed("raw", f, wait) /\ Speaks("raw", f, wait)
    /\ UNCHANGED <<voice, sweep, cand, valid, chunk, heard, shown>>

\* _run_ssb_detector_loop looks at the scan and its mode, takes samples, and
\* lets the requests run before it works on them
SsbTakes ==
    /\ voice.on /\ voice.mode = "ssb" /\ ~chunk
    /\ chunk' = TRUE
    /\ voiceEvent' = NoVoiceEvent
    /\ UNCHANGED <<voice, sweep, cand, valid, claims, heard, shown, spoke>>

\* nothing is found, the confidence is low, the loop is cancelled; and while the
\* sweep holds, all audio goes to the transcription and nothing is reported
SsbHearsNothing ==
    /\ chunk /\ chunk' = FALSE
    /\ Silent
    /\ UNCHANGED <<voice, sweep, cand, valid, heard, shown>>

\* the mode is not looked at again
SsbHears(f, enough) ==
    /\ chunk /\ chunk' = FALSE
    /\ ~Validated(SweepCentres[sweep.at])
    /\ Report(HoldBucket(f))
    /\ \/ Validated(f) /\ VoiceEmit("asr", f, enough)
       \/ ~Validated(f) /\ Silent
    /\ UNCHANGED <<voice, sweep, valid, shown>>

VoiceNext ==
    \/ VoiceTick \/ VoiceStarts \/ VoiceRetunes \/ ModeSet \/ VoiceStops
    \/ SweepDwelt \/ SweepHeld \/ SsbTakes \/ SsbHearsNothing
    \/ \E f \in VoiceFreqs :
        \/ \E strength \in {"weak", "fair", "strong"} : OccupancyHearsVoice(f, strength)
        \/ OccupancyHears(f)
        \/ \E enough \in BOOLEAN : SsbHears(f, enough)

VoiceSpec == VoiceInit /\ [][VoiceNext]_voiceVars

-----------------------------------------------------------------------------
\* A voice event is stored only on a frequency whose bucket the sweep held for
\* enough reports, none of them from before the band or the scan changed, and
\* not long ago; the occupancy loop stores none after the scan has stopped or
\* changed its mode (the detector may, for samples it took before).
VoiceJustified ==
    /\ voiceEvent.by \in {"ws", "asr"} =>
        voice.focus /\ shown[HoldBucket(voiceEvent.freq)] <= ValidAge
    /\ voiceEvent.by = "ws" => voice.on /\ voice.mode = "ssb"

\* An emitter stores two events of one bucket no closer than its debounce, the
\* bands and modes in between notwithstanding.
VoiceSpaced == voiceEvent.ago >= voiceEvent.wait

\* Two loops with a debounce each, and requests that change the band, the mode
\* and the scan under them, store voice events that the sweep has justified and
\* that keep their distance.
VoiceSound == VoiceJustified /\ VoiceSpaced
=============================================================================
