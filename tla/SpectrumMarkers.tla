-------------------------- MODULE SpectrumMarkers --------------------------
(***************************************************************************)
(* backend/app/websocket/spectrum.py: the markers of a spectrum frame.     *)
(* Every viewer has a coroutine that builds a frame without an await and   *)
(* then waits for the socket; they share the table of the candidates and   *)
(* the markers the CW and the voice decoders leave in state, and keep      *)
(* nothing of their own, so one action builds the frames of them all.  The *)
(* signal processing is a choice of segments; time is counted in ticks.    *)
(***************************************************************************)
EXTENDS Naturals, FiniteSets

CONSTANTS
    Signals,       \* frequencies of segments, in units of 500 Hz
    MarkerBands,   \* what the radio may be tuned to: sets of Signals
    CwSpots,       \* buckets of state.cw_marker_cache
    VoiceSpots,    \* buckets of state.voice_marker_cache
    MinHits, MaxAge,        \* marker_min_hits, marker_max_age_s
    CwTtl, SweepTtl,        \* cw_marker_ttl_s; a cycle of the CW sweep and 5 s
    VoiceTtl,
    MaxMarkers,    \* markers in a frame; the code: 24
    MaxSegments    \* bound: segments in a frame

ASSUME MarkersAssumption ==
    /\ Signals \subseteq Nat /\ MarkerBands \subseteq SUBSET Signals /\ MarkerBands # {}
    /\ {MinHits, MaxAge, CwTtl, SweepTtl, VoiceTtl, MaxMarkers, MaxSegments} \subseteq Nat

VARIABLES
    candidates,  \* state.marker_candidates: the hits, the ticks since the last
    cwCache,     \* state.cw_marker_cache: the ticks since seen_at
    voiceCache,  \* state.voice_marker_cache
    listening,   \* the band of the engine, the decoder mode, a CW sweep
    onFrame,     \* the markers of the frame just built; {}: none
    sightings    \* history: sightings that follow each other within MaxAge

markerVars == <<candidates, cwCache, voiceCache, listening, onFrame, sightings>>

\* int(round(frequency_hz / 1000)): a half goes to the even side
MarkerKey(f) == LET half == f \div 2 IN IF f % 2 = 1 THEN half + (half % 2) ELSE half

MarkerKeys == {MarkerKey(f) : f \in Signals}
Gone == MaxAge + 1   \* bound: older is as old
CwGone == (IF CwTtl < SweepTtl THEN SweepTtl ELSE CwTtl) + 1
VoiceGone == VoiceTtl + 1
None == [hits |-> 0, age |-> Gone]
Markers == [of : {"dsp"}, at : MarkerKeys] \cup [of : {"cw"}, at : CwSpots]
              \cup [of : {"voice"}, at : VoiceSpots]

MarkersTypeOK ==
    /\ candidates \in [MarkerKeys -> [hits : 0 .. MinHits, age : 0 .. Gone]]
    /\ sightings \in [MarkerKeys -> [hits : 0 .. MinHits, age : 0 .. Gone]]
    /\ cwCache \in [CwSpots -> 0 .. CwGone]
    /\ voiceCache \in [VoiceSpots -> 0 .. VoiceGone]
    /\ listening \in [band : MarkerBands, ssb : BOOLEAN, sweep : BOOLEAN]
    /\ onFrame \subseteq Markers

MarkersInit ==
    /\ candidates = [k \in MarkerKeys |-> None]
    /\ sightings = [k \in MarkerKeys |-> None]
    /\ cwCache = [c \in CwSpots |-> CwGone]
    /\ voiceCache = [c \in VoiceSpots |-> VoiceGone]
    /\ listening = [band |-> CHOOSE b \in MarkerBands : TRUE, ssb |-> FALSE, sweep |-> FALSE]
    /\ onFrame = {}

-----------------------------------------------------------------------------
(***************************************************************************)
(* The frame.                                                              *)
(***************************************************************************)
\* a segment above the gates for SNR and confidence: voice, or a digital mode
Segment == [signal : Signals, voice : BOOLEAN]

\* the band of the scan, and the kind of marker the decoder mode is about
Passes(s) == s.signal \in listening.band /\ (s.voice <=> listening.ssb)

\* mutant: no candidate is ever stale
MutUnexpired(table) == table

\* "Expire stale candidates from persistence tracker"
Unexpired(table) ==
    [k \in MarkerKeys |-> IF table[k].age > MaxAge THEN None ELSE table[k]]

\* the segments of a frame that count for the bucket k
Sees(segments, k) ==
    {i \in DOMAIN segments : Passes(segments[i]) /\ MarkerKey(segments[i].signal) = k}

\* n more hits, now; beyond MinHits they are not told apart
Hit(c, n) ==
    [hits |-> IF c.hits + n < MinHits THEN c.hits + n ELSE MinHits, age |-> 0]

\* the loop over the segments: one bucket does not depend on another
Scanned(table, segments) ==
    [k \in MarkerKeys |->
        IF Sees(segments, k) = {} THEN table[k]
        ELSE Hit(table[k], Cardinality(Sees(segments, k)))]

\* the buckets of this frame that have enough hits
Shown(table, segments) ==
    {k \in MarkerKeys : Sees(segments, k) # {} /\ table[k].hits >= MinHits}

\* history: a sighting too long after the one before is the first again
Sighted(segments) ==
    [k \in MarkerKeys |->
        IF Sees(segments, k) = {} THEN sightings[k]
        ELSE Hit(IF sightings[k].age > MaxAge THEN None ELSE sightings[k],
                 Cardinality(Sees(segments, k)))]

\* the time a CW marker is kept covers a whole cycle of the sweep
CwKept ==
    {c \in CwSpots : cwCache[c] <= (IF listening.sweep /\ CwTtl < SweepTtl THEN SweepTtl ELSE CwTtl)}
VoiceKept == {c \in VoiceSpots : voiceCache[c] <= VoiceTtl}

\* read_iq returned samples; the markers beyond the limit are those farthest
\* up, which the model does not know
BuildFrame ==
    /\ \E n \in 0 .. MaxSegments : \E segments \in [1 .. n -> Segment] :
         LET table == Scanned(Unexpired(candidates), segments)
             all == [of : {"dsp"}, at : Shown(table, segments)]
                      \cup [of : {"cw"}, at : CwKept] \cup [of : {"voice"}, at : VoiceKept]
         IN
         /\ candidates' = table
         /\ sightings' = Sighted(segments)
         /\ onFrame' \in SUBSET all
         /\ IF Cardinality(all) <= MaxMarkers THEN onFrame' = all
                                              ELSE Cardinality(onFrame') = MaxMarkers
    /\ cwCache' = [c \in CwSpots |-> IF c \in CwKept THEN cwCache[c] ELSE CwGone]
    /\ voiceCache' = [c \in VoiceSpots |-> IF c \in VoiceKept THEN voiceCache[c] ELSE VoiceGone]
    /\ UNCHANGED listening

-----------------------------------------------------------------------------
(***************************************************************************)
(* What the rest of the program does to the tables.                        *)
(***************************************************************************)
\* the radio goes to another band, the decoder mode changes, a sweep starts or ends
ListensTo(l) ==
    /\ listening' = l /\ l # listening
    /\ onFrame' = {}
    /\ UNCHANGED <<candidates, cwCache, voiceCache, sightings>>

\* _handle_cw_event
CwMarked(c) ==
    /\ cwCache' = [cwCache EXCEPT ![c] = 0]
    /\ onFrame' = {}
    /\ UNCHANGED <<candidates, voiceCache, listening, sightings>>

\* _emit_ssb_traffic_event_from_occupancy, in either of its two forms
VoiceMarked(c) ==
    /\ listening.ssb
    /\ voiceCache' = [voiceCache EXCEPT ![c] = 0]
    /\ onFrame' = {}
    /\ UNCHANGED <<candidates, cwCache, listening, sightings>>

\* scan_stop and rotation_stop; the CW markers stay
VoiceCleared ==
    /\ voiceCache' = [c \in VoiceSpots |-> VoiceGone]
    /\ onFrame' = {}
    /\ UNCHANGED <<candidates, cwCache, listening, sightings>>

AgedBy1(age, limit) == IF age < limit THEN age + 1 ELSE age

MarkersTick ==
    /\ candidates' = [k \in MarkerKeys |-> [candidates[k] EXCEPT !.age = AgedBy1(@, Gone)]]
    /\ sightings' = [k \in MarkerKeys |-> [sightings[k] EXCEPT !.age = AgedBy1(@, Gone)]]
    /\ cwCache' = [c \in CwSpots |-> AgedBy1(cwCache[c], CwGone)]
    /\ voiceCache' = [c \in VoiceSpots |-> AgedBy1(voiceCache[c], VoiceGone)]
    /\ onFrame' = {}
    /\ UNCHANGED listening

MarkersNext ==
    \/ BuildFrame \/ MarkersTick \/ VoiceCleared
    \/ \E l \in [band : MarkerBands, ssb : BOOLEAN, sweep : BOOLEAN] : ListensTo(l)
    \/ \E c \in CwSpots : CwMarked(c)
    \/ \E c \in VoiceSpots : VoiceMarked(c)

MarkersSpec == MarkersInit /\ [][MarkersNext]_markerVars

-----------------------------------------------------------------------------
\* "Temporal persistence: requires multiple consecutive detections", "stale
\* markers expired after configurable timeout" (ws_spectrum): however many
\* viewers build frames and however long none does, a marker of a frame is seen
\* at its time, on the band of the scan, for the last of enough times with no
\* pause between them longer than the time-out; a CW or voice marker is not older than its
\* time to live.
MarkersEarned ==
    [][\A m \in onFrame' :
         CASE m.of = "dsp" ->
                /\ sightings'[m.at].hits >= MinHits /\ sightings'[m.at].age = 0
                /\ \E f \in listening.band : MarkerKey(f) = m.at
           [] m.of = "cw" ->
                cwCache[m.at] <= CwTtl \/ (listening.sweep /\ cwCache[m.at] <= SweepTtl)
           [] m.of = "voice" -> voiceCache[m.at] <= VoiceTtl]_markerVars
=============================================================================
