---------------------------- MODULE Heard_proofs ----------------------------
(***************************************************************************)
(* What is stored was heard: the voice events (VoiceEvents), the audio on  *)
(* its way to the speech model (VoiceTranscripts) and the windows of FT    *)
(* (FtWindows).  Each has an inductive invariant, which the model's own    *)
(* claims follow from, for every length of a queue, a buffer or a window,  *)
(* any number of threads, buckets, modes and bands, and a clock without    *)
(* end.                                                                    *)
(***************************************************************************)
EXTENDS VoiceEvents, VoiceTranscripts, FtWindows, SequenceTheorems, TLAPS

\* What is put at the end of a queue, and what is left of one.
LEMMA AppendTo ==
    ASSUME NEW S, NEW q \in Seq(S), NEW e \in S
    PROVE  /\ Append(q, e) \in Seq(S) /\ Len(Append(q, e)) = Len(q) + 1 /\ Len(q) \in Nat
           /\ \A i \in 1 .. Len(q) : Append(q, e)[i] = q[i]
           /\ Append(q, e)[Len(q) + 1] = e
  OBVIOUS

LEMMA TailOf ==
    ASSUME NEW S, NEW q \in Seq(S), q # <<>>
    PROVE  /\ Head(q) \in S /\ Head(q) = q[1] /\ Len(q) \in Nat \ {0}
           /\ Tail(q) \in Seq(S) /\ Len(Tail(q)) = Len(q) - 1
           /\ \A i \in 1 .. Len(Tail(q)) : Tail(q)[i] = q[i + 1]
  OBVIOUS

-----------------------------------------------------------------------------
(***************************************************************************)
(* Voice events (VoiceEvents).                                             *)
(***************************************************************************)
Candidates == [hits : Nat, seen : Nat, held : Nat]
Reports == [count : Nat, ago : Nat]

VoiceTyped ==
    /\ voice \in [on : BOOLEAN, mode : {"", "ssb", "cw", "ft8"}, focus : BOOLEAN]
    /\ sweep \in [at : 1 .. Len(SweepCentres), holds : Nat, holding : BOOLEAN]
    /\ cand \in [HoldBuckets -> Candidates]
    /\ valid \in [HoldBuckets -> Nat]
    /\ heard \in [HoldBuckets -> Reports]
    /\ claims \in [Emitters -> [EmitKeys -> Nat]]
    /\ spoke \in [Emitters -> [EmitKeys -> Nat]]

\* The sweep's count is the history's: no report is lost, none is counted from
\* before a reset, a hold or a silence.
Counted ==
    \A b \in HoldBuckets :
        /\ cand[b].hits = heard[b].count /\ cand[b].seen = heard[b].ago
        /\ cand[b].seen > Ttl => cand[b].hits = 0

\* What is validated was held for enough reports, and as long ago.
HeldForReports == shown = valid

\* A claim may be taken for nothing, and no event is stored without one.
ClaimsFirst == \A e \in Emitters : \A k \in EmitKeys : claims[e][k] <= spoke[e][k]

VoiceInv == VoiceTyped /\ Counted /\ HeldForReports /\ ClaimsFirst /\ VoiceSound

-----------------------------------------------------------------------------
LEMMA VoiceNumbers ==
    /\ Ttl \in Nat /\ Cooldown \in Nat /\ ValidAge \in Nat
    /\ Hits \in Nat \ {0} /\ MaxHolds \in Nat \ {0} /\ Len(SweepCentres) \in Nat \ {0}
    /\ EmitGap \in [Emitters \cup {"digital"} -> Nat]
  BY VoiceAssumption

LEMMA BucketsKnown ==
    /\ \A f \in VoiceFreqs : HoldBucket(f) \in HoldBuckets
    /\ \A i \in 1 .. Len(SweepCentres) : HoldBucket(SweepCentres[i]) \in HoldBuckets
    /\ \A e \in Emitters, f \in VoiceFreqs : EmitKey(e, f) \in EmitKeys
  BY DEF HoldBuckets, EmitKeys

LEMMA Nothing ==
    /\ Absent \in Candidates /\ Absent.hits = 0 /\ Absent.seen = Ttl + 1
    /\ [count |-> 0, ago |-> Ttl + 1] \in Reports
    /\ [at |-> 1, holds |-> 0, holding |-> FALSE]
         \in [at : 1 .. Len(SweepCentres), holds : Nat, holding : BOOLEAN]
  <1>1. Ttl + 1 \in Nat /\ 1 \in 1 .. Len(SweepCentres) /\ Cooldown \in Nat
    BY VoiceNumbers
  <1> QED BY <1>1 DEF Absent, Candidates, Reports

LEMMA CandidateHeld ==
    ASSUME NEW c \in Candidates, NEW d, d = [c EXCEPT !.hits = 0, !.held = 0]
    PROVE  d \in Candidates /\ d.hits = 0 /\ d.seen = c.seen
  BY DEF Candidates

Seen(c, n) == [c EXCEPT !.hits = n, !.seen = 0]

LEMMA CandidateSeen ==
    ASSUME NEW c \in Candidates, NEW n \in Nat
    PROVE  Seen(c, n) \in Candidates /\ Seen(c, n).hits = n /\ Seen(c, n).seen = 0
  BY DEF Candidates, Seen

LEMMA VoiceInvInit == VoiceInit => VoiceInv
  <1> SUFFICES ASSUME VoiceInit PROVE VoiceInv
    OBVIOUS
  <1>1. EmitGap \in [Emitters -> Nat]  \/ \A e \in Emitters : EmitGap[e] \in Nat
    BY VoiceNumbers
  <1>2. /\ Absent \in Candidates /\ Absent.hits = 0 /\ Absent.seen = Ttl + 1
        /\ [count |-> 0, ago |-> Ttl + 1] \in Reports
    BY Nothing
  <1>3. /\ cand \in [HoldBuckets -> Candidates]
        /\ heard \in [HoldBuckets -> Reports]
    BY <1>2 DEF VoiceInit
  <1>4. claims \in [Emitters -> [EmitKeys -> Nat]] /\ claims = spoke
    BY <1>1, VoiceNumbers DEF VoiceInit
  <1>5. /\ voice \in [on : BOOLEAN, mode : {"", "ssb", "cw", "ft8"}, focus : BOOLEAN]
        /\ sweep \in [at : 1 .. Len(SweepCentres), holds : Nat, holding : BOOLEAN]
    BY Nothing DEF VoiceInit
  <1>10. valid \in [HoldBuckets -> Nat]
    <2>1. ValidAge + 1 \in Nat
      BY VoiceNumbers
    <2> QED BY <2>1 DEF VoiceInit
  <1>6. VoiceTyped
    BY <1>3, <1>4, <1>5, <1>10 DEF VoiceTyped
  <1>7. Counted
    <2>1. ASSUME NEW b \in HoldBuckets
          PROVE  /\ cand[b].hits = heard[b].count /\ cand[b].seen = heard[b].ago
                 /\ cand[b].hits = 0
      <3>1. cand[b] = Absent /\ heard[b] = [count |-> 0, ago |-> Ttl + 1]
        BY DEF VoiceInit
      <3>2. heard[b].count = 0 /\ heard[b].ago = Ttl + 1
        BY <3>1
      <3> QED BY <1>2, <3>1, <3>2
    <2> QED BY <2>1 DEF Counted
  <1>8. HeldForReports
    BY DEF VoiceInit, HeldForReports
  <1>11. VoiceSound
    <2>1. voiceEvent.by = "none" /\ voiceEvent.ago = 0 /\ voiceEvent.wait = 0
      BY DEF VoiceInit, NoVoiceEvent
    <2> QED BY <2>1 DEF VoiceSound, VoiceJustified, VoiceSpaced
  <1>9. ClaimsFirst
    <2>1. ASSUME NEW e \in Emitters, NEW k \in EmitKeys PROVE claims[e][k] \in Nat
      BY <1>4
    <2> QED BY <1>4, <2>1 DEF ClaimsFirst
  <1> QED BY <1>6, <1>7, <1>8, <1>9, <1>11 DEF VoiceInv

LEMMA SilenceIsSound ==
    voiceEvent' = NoVoiceEvent => VoiceSound'
  BY DEF VoiceSound, VoiceJustified, VoiceSpaced, NoVoiceEvent

LEMMA OlderIs ==
    ASSUME NEW age \in Nat, NEW limit \in Nat
    PROVE  /\ Older(age, limit) \in Nat
           /\ \A other \in Nat : age <= other => Older(age, limit) <= Older(other, limit)
  BY DEF Older

LEMMA VoiceTickKeeps ==
    ASSUME VoiceInv, VoiceTick PROVE VoiceInv'
  <1>1. /\ cand \in [HoldBuckets -> Candidates] /\ heard \in [HoldBuckets -> Reports]
        /\ valid \in [HoldBuckets -> Nat] /\ shown = valid
        /\ claims \in [Emitters -> [EmitKeys -> Nat]]
        /\ spoke \in [Emitters -> [EmitKeys -> Nat]]
    BY DEF VoiceInv, VoiceTyped, HeldForReports
  <1>2. ASSUME NEW b \in HoldBuckets
        PROVE  /\ Aged(cand[b]) \in Candidates /\ heard'[b] \in Reports
               /\ Aged(cand[b]).hits = heard'[b].count /\ Aged(cand[b]).seen = heard'[b].ago
               /\ Aged(cand[b]).seen > Ttl => Aged(cand[b]).hits = 0
    <2>1. /\ cand[b] \in Candidates /\ heard[b] \in Reports
          /\ cand[b].hits = heard[b].count /\ cand[b].seen = heard[b].ago
      BY <1>1 DEF VoiceInv, Counted
    <2>2. heard'[b] = IF heard[b].ago >= Ttl THEN [count |-> 0, ago |-> Ttl + 1]
                      ELSE [heard[b] EXCEPT !.ago = @ + 1]
      BY DEF VoiceTick
    <2>3. CASE cand[b].seen >= Ttl
      <3>1. Aged(cand[b]) = Absent /\ heard'[b] = [count |-> 0, ago |-> Ttl + 1]
        BY <2>1, <2>2, <2>3 DEF Aged
      <3> QED BY <3>1, VoiceNumbers DEF Absent, Candidates, Reports
    <2>4. CASE ~(cand[b].seen >= Ttl)
      <3>1. /\ Aged(cand[b]) = [cand[b] EXCEPT !.seen = @ + 1, !.held = Older(@, Cooldown)]
            /\ heard'[b] = [heard[b] EXCEPT !.ago = @ + 1]
        BY <2>1, <2>2, <2>4 DEF Aged
      <3>2. Older(cand[b].held, Cooldown) \in Nat
        BY <2>1, VoiceNumbers, OlderIs DEF Candidates
      <3>3. /\ cand[b].seen \in Nat /\ cand[b].seen < Ttl
        BY <2>1, <2>4, VoiceNumbers DEF Candidates
      <3>6. cand[b].seen + 1 \in Nat
        BY <3>3
      <3>4. /\ Aged(cand[b]) \in Candidates /\ Aged(cand[b]).hits = cand[b].hits
            /\ Aged(cand[b]).seen = cand[b].seen + 1
        BY <2>1, <3>1, <3>2, <3>6 DEF Candidates
      <3>5. /\ heard'[b] \in Reports /\ heard'[b].count = heard[b].count
            /\ heard'[b].ago = heard[b].ago + 1
        BY <2>1, <3>1 DEF Reports
      <3> QED BY <2>1, <3>3, <3>4, <3>5, VoiceNumbers
    <2> QED BY <2>3, <2>4
  <1>3. /\ cand' = [b \in HoldBuckets |-> Aged(cand[b])]
        /\ valid' = [b \in HoldBuckets |-> Older(valid[b], ValidAge + 1)]
        /\ shown' = [b \in HoldBuckets |-> Older(shown[b], ValidAge + 1)]
        /\ claims' = [e \in Emitters |-> [k \in EmitKeys |-> Older(claims[e][k], EmitGap[e])]]
        /\ spoke' = [e \in Emitters |-> [k \in EmitKeys |-> Older(spoke[e][k], EmitGap[e])]]
        /\ voiceEvent' = NoVoiceEvent /\ voice' = voice /\ sweep' = sweep
    BY DEF VoiceTick
  <1>4. heard' \in [HoldBuckets -> Reports]
    <2>1. heard' = [b \in HoldBuckets |-> heard'[b]]
      BY DEF VoiceTick
    <2> QED BY <1>2, <2>1
  <1>5. \A b \in HoldBuckets : Older(valid[b], ValidAge + 1) \in Nat
    <2>1. \A b \in HoldBuckets : valid[b] \in Nat
      BY <1>1
    <2>2. ValidAge + 1 \in Nat
      BY VoiceNumbers
    <2> QED BY <2>1, <2>2, OlderIs
  <1>6. ASSUME NEW e \in Emitters, NEW k \in EmitKeys
        PROVE  /\ Older(claims[e][k], EmitGap[e]) \in Nat /\ Older(spoke[e][k], EmitGap[e]) \in Nat
               /\ Older(claims[e][k], EmitGap[e]) <= Older(spoke[e][k], EmitGap[e])
    <2>1. claims[e][k] \in Nat /\ spoke[e][k] \in Nat /\ EmitGap[e] \in Nat
      BY <1>1, VoiceNumbers
    <2>2. claims[e][k] <= spoke[e][k]
      BY DEF VoiceInv, ClaimsFirst
    <2> QED BY <2>1, <2>2, OlderIs
  <1>7. VoiceTyped'
    BY <1>2, <1>3, <1>4, <1>5, <1>6 DEF VoiceInv, VoiceTyped
  <1>8. Counted'
    BY <1>2, <1>3 DEF Counted
  <1>9. HeldForReports' /\ ClaimsFirst'
    BY <1>1, <1>3, <1>6 DEF HeldForReports, ClaimsFirst
  <1> QED BY <1>3, <1>7, <1>8, <1>9, SilenceIsSound DEF VoiceInv

LEMMA ResetKeeps ==
    ASSUME VoiceInv, VoiceStarts \/ VoiceRetunes PROVE VoiceInv'
  <1>1. FocusReset(TRUE) /\ Dropped /\ UNCHANGED <<chunk, claims, spoke>>
    BY DEF VoiceStarts, VoiceRetunes
  <1>2. /\ Absent \in Candidates /\ Absent.hits = 0 /\ Absent.seen = Ttl + 1
        /\ [count |-> 0, ago |-> Ttl + 1] \in Reports
    BY Nothing
  <1>3. voice' \in [on : BOOLEAN, mode : {"", "ssb", "cw", "ft8"}, focus : BOOLEAN]
    BY <1>1 DEF FocusReset, VoiceInv, VoiceTyped
  <1>4. sweep' \in [at : 1 .. Len(SweepCentres), holds : Nat, holding : BOOLEAN]
    BY <1>1, Nothing DEF FocusReset
  <1>5. cand' \in [HoldBuckets -> Candidates] /\ heard' \in [HoldBuckets -> Reports]
    BY <1>1, <1>2 DEF FocusReset, Dropped
  <1>6. valid' \in [HoldBuckets -> Nat] /\ shown' = valid'
    BY <1>1, VoiceNumbers DEF FocusReset, Dropped
  <1>7. VoiceTyped'
    BY <1>1, <1>3, <1>4, <1>5, <1>6 DEF VoiceInv, VoiceTyped
  <1>8. Counted'
    BY <1>1, <1>2 DEF Counted, FocusReset, Dropped
  <1>9. ClaimsFirst' /\ HeldForReports'
    BY <1>1, <1>6 DEF VoiceInv, ClaimsFirst, HeldForReports
  <1> QED BY <1>1, <1>7, <1>8, <1>9, SilenceIsSound DEF VoiceInv, Dropped

LEMMA AdvancedTyped ==
    ASSUME NEW s \in [at : 1 .. Len(SweepCentres), holds : Nat, holding : BOOLEAN]
    PROVE  Advanced(s) \in [at : 1 .. Len(SweepCentres), holds : Nat, holding : BOOLEAN]
  <1>1. CASE s.at < Len(SweepCentres)
    <2>1. s.at + 1 \in 1 .. Len(SweepCentres)
      BY <1>1, VoiceNumbers
    <2>2. Advanced(s) = [s EXCEPT !.at = @ + 1, !.holding = FALSE]
      BY <1>1 DEF Advanced
    <2> QED BY <2>1, <2>2
  <1>2. CASE ~(s.at < Len(SweepCentres))
    BY <1>2, Nothing DEF Advanced
  <1> QED BY <1>1, <1>2

LEMMA QuietKeeps ==
    ASSUME VoiceInv, ModeSet \/ VoiceStops \/ SweepHeld \/ SsbTakes \/ SsbHearsNothing
    PROVE  VoiceInv'
  <1>1. /\ UNCHANGED <<cand, valid, heard, shown, claims, spoke>>
        /\ voiceEvent' = NoVoiceEvent
    BY DEF ModeSet, VoiceStops, SweepHeld, SsbTakes, SsbHearsNothing, Silent
  <1>2. /\ voice \in [on : BOOLEAN, mode : {"", "ssb", "cw", "ft8"}, focus : BOOLEAN]
        /\ sweep \in [at : 1 .. Len(SweepCentres), holds : Nat, holding : BOOLEAN]
    BY DEF VoiceInv, VoiceTyped
  <1>3. voice' \in [on : BOOLEAN, mode : {"", "ssb", "cw", "ft8"}, focus : BOOLEAN]
    BY <1>2 DEF ModeSet, VoiceStops, SweepHeld, SsbTakes, SsbHearsNothing
  <1>4. sweep' = sweep \/ sweep' = Advanced(sweep)
    BY DEF ModeSet, VoiceStops, SweepHeld, SsbTakes, SsbHearsNothing
  <1>5. VoiceTyped'
    BY <1>1, <1>2, <1>3, <1>4, AdvancedTyped DEF VoiceInv, VoiceTyped
  <1> QED BY <1>1, <1>5, SilenceIsSound
          DEF VoiceInv, Counted, HeldForReports, ClaimsFirst

\* The sweep has dwelt on a frequency, and holds there if it was reported enough.
LEMMA DwellKeeps ==
    ASSUME VoiceInv, SweepDwelt PROVE VoiceInv'
  <1> DEFINE b == HoldBucket(SweepCentres[sweep.at])
  <1>1. /\ voice' = voice /\ claims' = claims /\ spoke' = spoke /\ voiceEvent' = NoVoiceEvent
        /\ \/ /\ HoldsOn(b)
              /\ sweep' = [sweep EXCEPT !.holding = TRUE, !.holds = @ + 1]
              /\ cand' = [cand EXCEPT ![b].hits = 0, ![b].held = 0]
              /\ valid' = [valid EXCEPT ![b] = 0]
              /\ shown' = IF heard[b].count >= Hits /\ heard[b].ago <= Ttl
                          THEN [shown EXCEPT ![b] = 0] ELSE shown
              /\ heard' = [heard EXCEPT ![b].count = 0]
           \/ /\ sweep' = Advanced(sweep)
              /\ UNCHANGED <<cand, valid, shown, heard>>
    BY DEF SweepDwelt
  <1>2. /\ sweep \in [at : 1 .. Len(SweepCentres), holds : Nat, holding : BOOLEAN]
        /\ cand \in [HoldBuckets -> Candidates] /\ heard \in [HoldBuckets -> Reports]
        /\ valid \in [HoldBuckets -> Nat] /\ shown = valid
    BY DEF VoiceInv, VoiceTyped, HeldForReports
  <1>3. b \in HoldBuckets
    BY <1>2, BucketsKnown
  <1> HIDE DEF b
  <1>4. CASE sweep' = Advanced(sweep) /\ UNCHANGED <<cand, valid, shown, heard>>
    BY <1>1, <1>2, <1>4, AdvancedTyped, SilenceIsSound
       DEF VoiceInv, VoiceTyped, Counted, HeldForReports, ClaimsFirst
  <1>5. CASE /\ HoldsOn(b)
             /\ sweep' = [sweep EXCEPT !.holding = TRUE, !.holds = @ + 1]
             /\ cand' = [cand EXCEPT ![b].hits = 0, ![b].held = 0]
             /\ valid' = [valid EXCEPT ![b] = 0]
             /\ shown' = IF heard[b].count >= Hits /\ heard[b].ago <= Ttl
                         THEN [shown EXCEPT ![b] = 0] ELSE shown
             /\ heard' = [heard EXCEPT ![b].count = 0]
    <2>1. /\ cand[b].hits = heard[b].count /\ cand[b].seen = heard[b].ago
          /\ cand[b] \in Candidates /\ heard[b] \in Reports
      BY <1>2, <1>3 DEF VoiceInv, Counted
    <2>2. shown' = valid'
      BY <1>2, <1>5, <2>1 DEF HoldsOn
    <2>3. /\ cand'[b] = [cand[b] EXCEPT !.hits = 0, !.held = 0]
          /\ heard'[b] = [heard[b] EXCEPT !.count = 0]
          /\ \A c \in HoldBuckets \ {b} : cand'[c] = cand[c] /\ heard'[c] = heard[c]
      BY <1>2, <1>3, <1>5
    <2>10. cand'[b] \in Candidates /\ cand'[b].hits = 0 /\ cand'[b].seen = cand[b].seen
      BY <2>1, <2>3, CandidateHeld
    <2>11. heard'[b] \in Reports /\ heard'[b].count = 0 /\ heard'[b].ago = heard[b].ago
      BY <2>1, <2>3 DEF Reports
    <2>4. /\ cand'[b] \in Candidates /\ cand'[b].hits = 0 /\ cand'[b].seen = cand[b].seen
          /\ heard'[b] \in Reports /\ heard'[b].count = 0 /\ heard'[b].ago = heard[b].ago
      BY <2>10, <2>11
    <2>5. cand' \in [HoldBuckets -> Candidates] /\ heard' \in [HoldBuckets -> Reports]
      <3>1. /\ cand' = [c \in HoldBuckets |-> cand'[c]]
            /\ heard' = [c \in HoldBuckets |-> heard'[c]]
        BY <1>2, <1>5
      <3>2. \A c \in HoldBuckets : cand'[c] \in Candidates /\ heard'[c] \in Reports
        BY <1>2, <2>3, <2>4
      <3>3. cand' \in [HoldBuckets -> Candidates]
        BY <3>1, <3>2
      <3>4. heard' \in [HoldBuckets -> Reports]
        BY <3>1, <3>2
      <3> QED BY <3>3, <3>4
    <2>6. sweep' \in [at : 1 .. Len(SweepCentres), holds : Nat, holding : BOOLEAN]
      <3>1. sweep' = [sweep EXCEPT !.holding = TRUE, !.holds = @ + 1] /\ sweep.holds \in Nat
        BY <1>2, <1>5
      <3>2. sweep.holds + 1 \in Nat
        BY <3>1
      <3>3. sweep \in [at : 1 .. Len(SweepCentres), holds : Nat, holding : BOOLEAN]
        BY <1>2
      <3> QED BY <3>1, <3>2, <3>3
    <2>7. valid' \in [HoldBuckets -> Nat]
      BY <1>2, <1>5
    <2>8. VoiceTyped'
      BY <1>1, <2>5, <2>6, <2>7 DEF VoiceInv, VoiceTyped
    <2>9. Counted'
      BY <2>1, <2>3, <2>4 DEF VoiceInv, Counted
    <2> QED BY <1>1, <2>2, <2>8, <2>9, SilenceIsSound DEF VoiceInv, HeldForReports, ClaimsFirst
  <1> QED BY <1>1, <1>4, <1>5

\* A report counts for the candidate as it does for the history.
LEMMA ReportKeeps ==
    ASSUME VoiceInv, NEW b \in HoldBuckets, Report(b)
    PROVE  /\ cand' \in [HoldBuckets -> Candidates] /\ heard' \in [HoldBuckets -> Reports]
           /\ Counted'
  <1>1. cand \in [HoldBuckets -> Candidates] /\ heard \in [HoldBuckets -> Reports]
    BY DEF VoiceInv, VoiceTyped
  <1>2. CASE ~voice.focus
    BY <1>1, <1>2 DEF Report, VoiceInv, Counted
  <1>3. CASE voice.focus
    <2>1. /\ cand[b].hits = heard[b].count /\ cand[b].seen = heard[b].ago
          /\ cand[b].seen > Ttl => cand[b].hits = 0
          /\ cand[b] \in Candidates /\ heard[b] \in Reports
      BY <1>1 DEF VoiceInv, Counted
    <2>2. heard' = [heard EXCEPT ![b] = [count |-> Older(@.count, Hits), ago |-> 0]]
      BY <1>3 DEF Report
    <2>3. cand' = IF cand[b].seen > Ttl
                  THEN [cand EXCEPT ![b] = [hits |-> 1, seen |-> 0, held |-> Cooldown]]
                  ELSE [cand EXCEPT ![b].hits = Older(@, Hits), ![b].seen = 0]
      BY <1>3 DEF Report
    <2>4. heard'[b] = [count |-> Older(heard[b].count, Hits), ago |-> 0]
      BY <1>1, <2>2
    <2>5. Older(heard[b].count, Hits) \in Nat /\ heard[b].count \in Nat
      BY <2>1, VoiceNumbers, OlderIs DEF Reports
    <2>6. /\ cand'[b] \in Candidates /\ cand'[b].seen = 0
          /\ cand'[b].hits = Older(heard[b].count, Hits)
      <3>1. CASE cand[b].seen > Ttl
        <4>1. cand'[b] = [hits |-> 1, seen |-> 0, held |-> Cooldown]
          BY <1>1, <2>3, <3>1
        <4>2. Older(heard[b].count, Hits) = 1
          BY <2>1, <3>1, VoiceNumbers DEF Older
        <4> QED BY <4>1, <4>2, VoiceNumbers DEF Candidates
      <3>2. CASE ~(cand[b].seen > Ttl)
        <4>1. cand'[b] = [cand[b] EXCEPT !.hits = Older(@, Hits), !.seen = 0]
          BY <1>1, <2>3, <3>2
        <4>2. cand'[b] = Seen(cand[b], Older(heard[b].count, Hits))
          BY <2>1, <4>1 DEF Seen
        <4> QED BY <2>1, <2>5, <4>2, CandidateSeen
      <3> QED BY <3>1, <3>2
    <2>7. /\ heard'[b] \in Reports /\ heard'[b].ago = 0
          /\ heard'[b].count = Older(heard[b].count, Hits)
      BY <2>4, <2>5 DEF Reports
    <2>8. /\ \A c \in HoldBuckets \ {b} : cand'[c] = cand[c] /\ heard'[c] = heard[c]
          /\ cand' = [c \in HoldBuckets |-> cand'[c]]
          /\ heard' = [c \in HoldBuckets |-> heard'[c]]
      <3>1. CASE cand[b].seen > Ttl
        BY <1>1, <2>2, <2>3, <3>1
      <3>2. CASE ~(cand[b].seen > Ttl)
        BY <1>1, <2>2, <2>3, <3>2
      <3> QED BY <3>1, <3>2
    <2>9. \A c \in HoldBuckets : cand'[c] \in Candidates /\ heard'[c] \in Reports
      BY <1>1, <2>6, <2>7, <2>8
    <2>10. cand' \in [HoldBuckets -> Candidates] /\ heard' \in [HoldBuckets -> Reports]
      BY <2>8, <2>9
    <2>11. 0 <= Ttl
      BY VoiceNumbers
    <2>12. Counted'
      BY <2>6, <2>7, <2>8, <2>11, VoiceNumbers DEF VoiceInv, Counted
    <2> QED BY <2>10, <2>12
  <1> QED BY <1>2, <1>3

\* An event takes the claim of its emitter and bucket.
LEMMA SpeakingKeeps ==
    ASSUME VoiceInv, NEW e \in Emitters, NEW f \in VoiceFreqs, NEW wait \in Nat,
           Speaks(e, f, wait), ~Claimed(e, f, wait)
    PROVE  /\ claims' \in [Emitters -> [EmitKeys -> Nat]]
           /\ spoke' \in [Emitters -> [EmitKeys -> Nat]]
           /\ ClaimsFirst' /\ VoiceSpaced'
           /\ voiceEvent'.by = e /\ voiceEvent'.freq = f
  <1> DEFINE k == EmitKey(e, f)
  <1>1. k \in EmitKeys
    BY BucketsKnown
  <1> HIDE DEF k
  <1>2. /\ claims' = [claims EXCEPT ![e][k] = 0] /\ spoke' = [spoke EXCEPT ![e][k] = 0]
        /\ voiceEvent' = [by |-> e, freq |-> f, wait |-> wait, ago |-> spoke[e][k]]
        /\ ~(claims[e][k] < wait)
    BY DEF Speaks, Claimed, k
  <1>3. /\ claims \in [Emitters -> [EmitKeys -> Nat]] /\ spoke \in [Emitters -> [EmitKeys -> Nat]]
    BY DEF VoiceInv, VoiceTyped
  <1>4. claims[e][k] \in Nat /\ spoke[e][k] \in Nat /\ claims[e][k] <= spoke[e][k]
    BY <1>1, <1>3 DEF VoiceInv, ClaimsFirst
  <1>5. voiceEvent'.ago >= voiceEvent'.wait
    BY <1>2, <1>4
  <1>6. /\ claims' \in [Emitters -> [EmitKeys -> Nat]] /\ spoke' \in [Emitters -> [EmitKeys -> Nat]]
    BY <1>1, <1>2, <1>3
  <1>7. ClaimsFirst'
    BY <1>1, <1>2, <1>3 DEF VoiceInv, ClaimsFirst
  <1> QED BY <1>2, <1>5, <1>6, <1>7 DEF VoiceSpaced

\* A claim that is taken for nothing.
LEMMA ClaimingKeeps ==
    ASSUME VoiceInv, NEW e \in Emitters, NEW f \in VoiceFreqs,
           claims' = [claims EXCEPT ![e][EmitKey(e, f)] = 0], spoke' = spoke
    PROVE  claims' \in [Emitters -> [EmitKeys -> Nat]] /\ ClaimsFirst'
  <1>1. EmitKey(e, f) \in EmitKeys
    BY BucketsKnown
  <1>2. /\ claims \in [Emitters -> [EmitKeys -> Nat]] /\ spoke \in [Emitters -> [EmitKeys -> Nat]]
    BY DEF VoiceInv, VoiceTyped
  <1>3. claims' \in [Emitters -> [EmitKeys -> Nat]]
    BY <1>1, <1>2
  <1>4. \A d \in Emitters, k \in EmitKeys : spoke[d][k] \in Nat /\ claims[d][k] <= spoke[d][k]
    BY <1>2 DEF VoiceInv, ClaimsFirst
  <1>5. ClaimsFirst'
    BY <1>1, <1>2, <1>4 DEF ClaimsFirst
  <1> QED BY <1>3, <1>5

\* One of the two loops that store voices emits, or does not.
LEMMA EmitKeeps ==
    ASSUME VoiceInv, NEW e \in {"ws", "asr"}, NEW f \in VoiceFreqs, NEW enough \in BOOLEAN,
           VoiceEmit(e, f, enough), voice' = voice, shown' = shown, Validated(f),
           e = "ws" => voice.on /\ voice.mode = "ssb"
    PROVE  /\ claims' \in [Emitters -> [EmitKeys -> Nat]]
           /\ spoke' \in [Emitters -> [EmitKeys -> Nat]]
           /\ ClaimsFirst' /\ VoiceSound'
  <1>1. e \in Emitters /\ EmitGap[e] \in Nat
    BY VoiceNumbers DEF Emitters
  <1>2. /\ claims \in [Emitters -> [EmitKeys -> Nat]] /\ spoke \in [Emitters -> [EmitKeys -> Nat]]
        /\ ClaimsFirst
    BY DEF VoiceInv, VoiceTyped
  <1>3. CASE Silent
    BY <1>2, <1>3, SilenceIsSound DEF Silent, ClaimsFirst
  <1>4. CASE ~Claimed(e, f, EmitGap[e]) /\ Speaks(e, f, EmitGap[e])
    <2>1. /\ claims' \in [Emitters -> [EmitKeys -> Nat]]
          /\ spoke' \in [Emitters -> [EmitKeys -> Nat]]
          /\ ClaimsFirst' /\ VoiceSpaced'
          /\ voiceEvent'.by = e /\ voiceEvent'.freq = f
      BY <1>1, <1>4, SpeakingKeeps
    <2>2. voice.focus /\ shown[HoldBucket(f)] <= ValidAge
      BY DEF Validated, VoiceInv, HeldForReports
    <2>3. VoiceJustified'
      BY <2>1, <2>2 DEF VoiceJustified
    <2> QED BY <2>1, <2>3 DEF VoiceSound
  <1>5. CASE /\ claims' = [claims EXCEPT ![e][EmitKey(e, f)] = 0]
             /\ voiceEvent' = NoVoiceEvent /\ spoke' = spoke
    BY <1>1, <1>2, <1>5, ClaimingKeeps, SilenceIsSound
  <1> QED BY <1>3, <1>4, <1>5 DEF VoiceEmit

LEMMA HearsVoiceKeeps ==
    ASSUME VoiceInv, NEW f \in VoiceFreqs,
           \/ \E strength \in {"weak", "fair", "strong"} : OccupancyHearsVoice(f, strength)
           \/ \E enough \in BOOLEAN : SsbHears(f, enough)
    PROVE  VoiceInv'
  <1>1. UNCHANGED <<voice, sweep, valid, shown>> /\ Report(HoldBucket(f))
    BY DEF OccupancyHearsVoice, SsbHears
  <1>2. /\ cand' \in [HoldBuckets -> Candidates] /\ heard' \in [HoldBuckets -> Reports]
        /\ Counted'
    BY <1>1, BucketsKnown, ReportKeeps
  <1>3. /\ claims' \in [Emitters -> [EmitKeys -> Nat]]
        /\ spoke' \in [Emitters -> [EmitKeys -> Nat]]
        /\ ClaimsFirst' /\ VoiceSound'
    <2>1. CASE Silent
      BY <2>1, SilenceIsSound DEF Silent, VoiceInv, VoiceTyped, ClaimsFirst
    <2>2. ASSUME NEW strength \in {"weak", "fair", "strong"}, OccupancyHearsVoice(f, strength),
                 ~Silent
          PROVE  <1>3!:
      <3>1. /\ VoiceEmit("ws", f, strength = "strong") /\ Validated(f)
            /\ voice.on /\ voice.mode = "ssb"
        BY <2>2 DEF OccupancyHearsVoice
      <3>2. (strength = "strong") \in BOOLEAN
        OBVIOUS
      <3> QED BY <1>1, <3>1, <3>2, EmitKeeps
    <2>3. ASSUME NEW enough \in BOOLEAN, SsbHears(f, enough), ~Silent
          PROVE  <1>3!:
      <3>1. VoiceEmit("asr", f, enough) /\ Validated(f)
        BY <2>3 DEF SsbHears
      <3> QED BY <1>1, <3>1, EmitKeeps
    <2> QED BY <2>1, <2>2, <2>3
  <1>4. VoiceTyped'
    BY <1>1, <1>2, <1>3 DEF VoiceInv, VoiceTyped
  <1> QED BY <1>1, <1>2, <1>3, <1>4 DEF VoiceInv, HeldForReports

\* The other modes: no voice is stored.
LEMMA HearsRawKeeps ==
    ASSUME VoiceInv, NEW f \in VoiceFreqs, OccupancyHears(f) PROVE VoiceInv'
  <1> DEFINE wait == EmitGap[IF voice.mode = "ft8" THEN "digital" ELSE "raw"]
  <1>1. /\ UNCHANGED <<voice, sweep, cand, valid, heard, shown>>
        /\ \/ Silent
           \/ ~Claimed("raw", f, wait) /\ Speaks("raw", f, wait)
    BY DEF OccupancyHears
  <1>2. wait \in Nat /\ "raw" \in Emitters
    BY VoiceNumbers DEF Emitters
  <1> HIDE DEF wait
  <1>3. /\ claims' \in [Emitters -> [EmitKeys -> Nat]]
        /\ spoke' \in [Emitters -> [EmitKeys -> Nat]]
        /\ ClaimsFirst' /\ VoiceSound'
    <2>1. CASE Silent
      BY <2>1, SilenceIsSound DEF Silent, VoiceInv, VoiceTyped, ClaimsFirst
    <2>2. CASE ~Claimed("raw", f, wait) /\ Speaks("raw", f, wait)
      <3>1. /\ claims' \in [Emitters -> [EmitKeys -> Nat]]
            /\ spoke' \in [Emitters -> [EmitKeys -> Nat]]
            /\ ClaimsFirst' /\ VoiceSpaced' /\ voiceEvent'.by = "raw"
        BY <1>2, <2>2, SpeakingKeeps
      <3> QED BY <3>1 DEF VoiceSound, VoiceJustified
    <2> QED BY <1>1, <2>1, <2>2
  <1>4. VoiceTyped'
    BY <1>1, <1>3 DEF VoiceInv, VoiceTyped
  <1> QED BY <1>1, <1>3, <1>4 DEF VoiceInv, HeldForReports, Counted

LEMMA VoiceInvStep ==
    ASSUME VoiceInv, [VoiceNext]_voiceVars PROVE VoiceInv'
  <1>1. CASE VoiceTick
    BY <1>1, VoiceTickKeeps
  <1>2. CASE VoiceStarts \/ VoiceRetunes
    BY <1>2, ResetKeeps
  <1>3. CASE ModeSet \/ VoiceStops \/ SweepHeld \/ SsbTakes \/ SsbHearsNothing
    BY <1>3, QuietKeeps
  <1>4. CASE SweepDwelt
    BY <1>4, DwellKeeps
  <1>5. ASSUME NEW f \in VoiceFreqs,
               \/ \E strength \in {"weak", "fair", "strong"} : OccupancyHearsVoice(f, strength)
               \/ \E enough \in BOOLEAN : SsbHears(f, enough)
        PROVE  VoiceInv'
    BY <1>5, HearsVoiceKeeps
  <1>6. ASSUME NEW f \in VoiceFreqs, OccupancyHears(f) PROVE VoiceInv'
    BY <1>6, HearsRawKeeps
  <1>7. CASE UNCHANGED voiceVars
    BY <1>7 DEF voiceVars, VoiceInv, VoiceTyped, Counted, HeldForReports, ClaimsFirst,
                VoiceSound, VoiceJustified, VoiceSpaced
  <1> QED BY <1>1, <1>2, <1>3, <1>4, <1>5, <1>6, <1>7 DEF VoiceNext

\* A voice event is stored only of a frequency that the sweep held for enough reports,
\* and not sooner after the last than the settings allow (_scan_loop, _emit_ssb_traffic_event_from_occupancy).
THEOREM VoiceIsJustified == VoiceSpec => []VoiceSound
  <1>1. VoiceInv => VoiceSound
    BY DEF VoiceInv
  <1> QED BY VoiceInvInit, VoiceInvStep, <1>1, PTL DEF VoiceSpec

-----------------------------------------------------------------------------
(***************************************************************************)
(* The audio on its way to the speech model (VoiceTranscripts).            *)
(***************************************************************************)
\* Units in the order they were heard, none from the future.
InTime(audio, now) ==
    /\ \A i, j \in 1 .. Len(audio) : i < j => audio[i] < audio[j]
    /\ \A i \in 1 .. Len(audio) : audio[i] <= now

LastOf(audio) == audio[Len(audio)]
Before(audio, other) == LastOf(audio) < other[1]

AsrTyped ==
    /\ asrNow \in Nat
    /\ asrBuf \in [Buckets -> Seq(Nat)]
    /\ asrTaken \subseteq Buckets \X Seq(Nat)
    /\ asrText \in [Buckets -> Nat]

\* What waits in a buffer is newer than all that was ever taken of its bucket.
BufferNewest ==
    \A b \in Buckets :
        /\ InTime(asrBuf[b], asrNow) /\ Len(asrBuf[b]) <= MaxAudio /\ asrText[b] <= asrNow
        /\ asrBuf[b] # <<>> =>
             /\ asrText[b] < asrBuf[b][1]
             /\ \A job \in asrTaken : job[1] = b => Before(job[2], asrBuf[b])

\* What a thread holds is long enough, in order, and behind no text.
JobSound(job) ==
    /\ InTime(job[2], asrNow) /\ Len(job[2]) \in MinAudio .. MaxAudio
    /\ asrText[job[1]] < job[2][1] \/ asrText[job[1]] > LastOf(job[2])

\* Two jobs of a bucket hold audio of different times.
JobsApart ==
    \A job, other \in asrTaken :
        job # other /\ job[1] = other[1] => Before(job[2], other[2]) \/ Before(other[2], job[2])

AsrInv ==
    /\ AsrTyped /\ BufferNewest /\ JobsApart
    /\ \A job \in asrTaken : JobSound(job)

-----------------------------------------------------------------------------
LEMMA AsrInvInit == AsrInit => AsrInv
  <1> SUFFICES ASSUME AsrInit PROVE AsrInv
    OBVIOUS
  <1>1. <<>> \in Seq(Nat) /\ Len(<<>>) = 0
    OBVIOUS
  <1>2. AsrTyped
    BY <1>1 DEF AsrInit, AsrTyped
  <1>3. BufferNewest
    BY <1>1, AsrAssumption DEF AsrInit, BufferNewest, InTime
  <1> QED BY <1>2, <1>3 DEF AsrInit, AsrInv, JobsApart

LEMMA InTimeLater ==
    ASSUME NEW audio \in Seq(Nat), NEW now \in Nat, InTime(audio, now)
    PROVE  InTime(audio, now + 1)
  <1>1. \A i \in 1 .. Len(audio) : audio[i] \in Nat
    OBVIOUS
  <1> QED BY <1>1 DEF InTime

LEMMA InTimeAppend ==
    ASSUME NEW audio \in Seq(Nat), NEW now \in Nat, InTime(audio, now)
    PROVE  InTime(Append(audio, now + 1), now + 1)
  <1> DEFINE all == Append(audio, now + 1)
  <1>1. /\ Len(audio) \in Nat /\ Len(all) = Len(audio) + 1 /\ all[Len(audio) + 1] = now + 1
        /\ \A i \in 1 .. Len(audio) : all[i] = audio[i]
    BY AppendTo
  <1>2. \A i \in 1 .. Len(audio) : audio[i] \in Nat /\ audio[i] <= now
    BY DEF InTime
  <1> HIDE DEF all
  <1>3. ASSUME NEW i \in 1 .. Len(all) PROVE all[i] <= now + 1
    <2>1. CASE i \in 1 .. Len(audio)
      BY <1>1, <1>2, <2>1
    <2>2. CASE i = Len(audio) + 1
      BY <1>1, <2>2
    <2> QED BY <1>1, <2>1, <2>2
  <1>4. ASSUME NEW i \in 1 .. Len(all), NEW j \in 1 .. Len(all), i < j PROVE all[i] < all[j]
    <2>1. i \in 1 .. Len(audio) /\ all[i] = audio[i]
      BY <1>1, <1>4
    <2>2. CASE j \in 1 .. Len(audio)
      BY <1>1, <1>4, <2>1, <2>2 DEF InTime
    <2>3. CASE j = Len(audio) + 1
      BY <1>1, <1>2, <2>1, <2>3
    <2> QED BY <1>1, <2>2, <2>3
  <1> QED BY <1>3, <1>4 DEF InTime, all

LEMMA InTimeTail ==
    ASSUME NEW audio \in Seq(Nat), NEW now, InTime(audio, now), Len(audio) > 1
    PROVE  InTime(Tail(audio), now) /\ audio[1] < Tail(audio)[1]
  <1>1. /\ Len(audio) \in Nat /\ Len(Tail(audio)) = Len(audio) - 1
        /\ \A i \in 1 .. Len(Tail(audio)) : Tail(audio)[i] = audio[i + 1]
    BY TailOf
  <1>2. ASSUME NEW i \in 1 .. Len(Tail(audio)), NEW j \in 1 .. Len(Tail(audio)), i < j
        PROVE  Tail(audio)[i] < Tail(audio)[j]
    <2>1. i + 1 \in 1 .. Len(audio) /\ j + 1 \in 1 .. Len(audio) /\ i + 1 < j + 1
      BY <1>1, <1>2
    <2> QED BY <1>1, <2>1 DEF InTime
  <1>3. ASSUME NEW i \in 1 .. Len(Tail(audio)) PROVE Tail(audio)[i] <= now
    <2>1. i + 1 \in 1 .. Len(audio)
      BY <1>1
    <2> QED BY <1>1, <2>1 DEF InTime
  <1>4. Tail(audio)[1] = audio[2] /\ audio[1] < audio[2]
    <2>1. 1 \in 1 .. Len(Tail(audio)) /\ 1 \in 1 .. Len(audio) /\ 2 \in 1 .. Len(audio)
      BY <1>1
    <2> QED BY <1>1, <2>1 DEF InTime
  <1> QED BY <1>2, <1>3, <1>4 DEF InTime

\* Appending the unit heard now, and dropping the oldest.
LEMMA FedIs ==
    ASSUME AsrTyped, BufferNewest, NEW b \in Buckets
    PROVE  /\ Fed(b) \in Seq(Nat) /\ Len(Fed(b)) > 0 /\ Len(Fed(b)) <= MaxAudio
           /\ InTime(Fed(b), asrNow + 1)
           /\ Fed(b)[1] = asrNow + 1 \/ (asrBuf[b] # <<>> /\ asrBuf[b][1] <= Fed(b)[1])
  <1> DEFINE buf == asrBuf[b]
             all == Append(buf, asrNow + 1)
  <1>1. /\ buf \in Seq(Nat) /\ asrNow \in Nat /\ Len(buf) \in Nat /\ Len(buf) <= MaxAudio
        /\ MaxAudio \in Nat \ {0} /\ InTime(buf, asrNow)
    BY AsrAssumption DEF AsrTyped, BufferNewest
  <1>2. /\ all \in Seq(Nat) /\ Len(all) = Len(buf) + 1
        /\ \A i \in 1 .. Len(buf) : all[i] = buf[i]
        /\ all[Len(buf) + 1] = asrNow + 1
    BY <1>1, AppendTo
  <1>3. InTime(all, asrNow + 1)
    BY <1>1, InTimeAppend
  <1>4. Fed(b) = IF Len(all) > MaxAudio THEN Tail(all) ELSE all
    BY DEF Fed
  <1>5. ASSUME Len(buf) > 0 PROVE buf # <<>> /\ all[1] = buf[1] /\ buf[1] \in Nat
    <2>1. 1 \in 1 .. Len(buf)
      BY <1>1, <1>5
    <2> QED BY <1>1, <1>2, <2>1
  <1> HIDE DEF all, buf
  <1>6. CASE Len(all) <= MaxAudio
    <2>1. Fed(b) = all
      BY <1>1, <1>2, <1>4, <1>6
    <2>2. CASE Len(buf) = 0
      <3>1. Len(buf) + 1 = 1
        BY <2>2
      <3>2. Len(all) = 1 /\ all[1] = asrNow + 1
        BY <1>2, <3>1
      <3> QED BY <1>2, <1>3, <1>6, <2>1, <3>2
    <2>3. CASE Len(buf) > 0
      <3>1. buf # <<>> /\ buf[1] <= all[1] /\ Len(all) > 0
        BY <1>1, <1>2, <1>5, <2>3
      <3> QED BY <1>2, <1>3, <1>6, <2>1, <3>1 DEF buf
    <2> QED BY <1>1, <2>2, <2>3
  <1>7. CASE Len(all) > MaxAudio
    <2>1. /\ Len(buf) > 0 /\ Len(all) > 1 /\ Fed(b) = Tail(all) /\ Len(buf) <= MaxAudio
      BY <1>1, <1>2, <1>4, <1>7
    <2>2. Tail(all) \in Seq(Nat) /\ Len(Tail(all)) = Len(buf)
      <3>1. all # <<>>
        BY <2>1
      <3> QED BY <1>1, <1>2, <3>1, TailOf
    <2>3. InTime(Tail(all), asrNow + 1) /\ all[1] < Tail(all)[1]
      BY <1>2, <1>3, <2>1, InTimeTail
    <2>4. Tail(all)[1] \in Nat
      BY <1>1, <2>1, <2>2
    <2>5. buf[1] <= Tail(all)[1] /\ buf # <<>>
      BY <1>5, <2>1, <2>3, <2>4
    <2> QED BY <2>1, <2>2, <2>3, <2>5 DEF buf
  <1> QED BY <1>1, <1>2, <1>6, <1>7

\* The detector hears a bucket.
LEMMA HearingKeeps ==
    ASSUME AsrInv, NEW b \in Buckets, AsrHears(b) PROVE AsrInv'
  <1>1. /\ AsrTyped /\ BufferNewest /\ asrNow' = asrNow + 1 /\ asrNow \in Nat
        /\ asrTaken' = asrTaken /\ asrText' = asrText
        /\ asrBuf' = IF asrOn THEN [asrBuf EXCEPT ![b] = Fed(b)] ELSE asrBuf
    BY DEF AsrHears, AsrInv, AsrTyped
  <1>2. /\ Fed(b) \in Seq(Nat) /\ Len(Fed(b)) > 0 /\ Len(Fed(b)) <= MaxAudio
        /\ InTime(Fed(b), asrNow + 1)
        /\ Fed(b)[1] = asrNow + 1 \/ (asrBuf[b] # <<>> /\ asrBuf[b][1] <= Fed(b)[1])
    BY <1>1, FedIs
  <1>3. /\ asrBuf \in [Buckets -> Seq(Nat)] /\ asrText \in [Buckets -> Nat]
        /\ asrTaken \subseteq Buckets \X Seq(Nat)
    BY <1>1 DEF AsrTyped
  <1>4. AsrTyped'
    BY <1>1, <1>2, <1>3 DEF AsrTyped
  <1>5. ASSUME NEW job \in asrTaken
        PROVE  /\ JobSound(job)'
               /\ LastOf(job[2]) <= asrNow /\ LastOf(job[2]) \in Nat
    <2>1. job[2] \in Seq(Nat) /\ InTime(job[2], asrNow) /\ Len(job[2]) \in MinAudio .. MaxAudio
      BY <1>3 DEF AsrInv, JobSound
    <2>2. Len(job[2]) \in 1 .. Len(job[2])
      BY <2>1, AsrAssumption
    <2>3. InTime(job[2], asrNow + 1)
      BY <1>1, <2>1, InTimeLater
    <2>4. LastOf(job[2]) <= asrNow /\ LastOf(job[2]) \in Nat
      BY <2>1, <2>2 DEF InTime, LastOf
    <2>5. asrText[job[1]] < job[2][1] \/ asrText[job[1]] > LastOf(job[2])
      BY DEF AsrInv, JobSound
    <2> QED BY <1>1, <2>1, <2>3, <2>4, <2>5 DEF JobSound
  <1>6. ASSUME NEW c \in Buckets
        PROVE  /\ InTime(asrBuf[c], asrNow)' /\ Len(asrBuf'[c]) <= MaxAudio /\ asrText'[c] <= asrNow'
               /\ asrBuf'[c] # <<>> =>
                    /\ asrText'[c] < asrBuf'[c][1]
                    /\ \A job \in asrTaken' : job[1] = c => Before(job[2], asrBuf'[c])
    <2>1. /\ InTime(asrBuf[c], asrNow) /\ Len(asrBuf[c]) <= MaxAudio /\ asrText[c] <= asrNow
          /\ asrText[c] \in Nat /\ asrBuf[c] \in Seq(Nat)
          /\ asrBuf[c] # <<>> =>
               /\ asrText[c] < asrBuf[c][1]
               /\ \A job \in asrTaken : job[1] = c => Before(job[2], asrBuf[c])
      BY <1>1, <1>3 DEF BufferNewest
    <2>2. asrText'[c] <= asrNow'
      BY <1>1, <2>1
    <2>3. CASE ~(asrOn /\ c = b)
      <3>1. asrBuf'[c] = asrBuf[c]
        BY <1>1, <1>3, <2>3
      <3>2. InTime(asrBuf[c], asrNow)'
        <4>1. InTime(asrBuf[c], asrNow + 1)
          BY <1>1, <2>1, InTimeLater
        <4> QED BY <1>1, <3>1, <4>1
      <3> QED BY <1>1, <2>1, <2>2, <3>1, <3>2
    <2>4. CASE asrOn /\ c = b
      <3>1. asrBuf'[c] = Fed(b)
        BY <1>1, <1>3, <2>4
      <3>2. InTime(asrBuf[c], asrNow)'
        BY <1>1, <1>2, <3>1
      <3>3. Fed(b)[1] \in Nat
        BY <1>2
      <3>4. asrText[c] < Fed(b)[1]
        <4>1. CASE Fed(b)[1] = asrNow + 1
          BY <1>1, <2>1, <4>1
        <4>2. CASE asrBuf[b] # <<>> /\ asrBuf[b][1] <= Fed(b)[1]
          <5>1. asrBuf[c][1] \in Nat
            BY <2>1, <2>4, <4>2
          <5> QED BY <2>1, <2>4, <3>3, <4>2, <5>1
        <4> QED BY <1>2, <4>1, <4>2
      <3>5. ASSUME NEW job \in asrTaken, job[1] = c PROVE Before(job[2], Fed(b))
        <4>1. CASE Fed(b)[1] = asrNow + 1
          BY <1>1, <1>5, <4>1 DEF Before
        <4>2. CASE asrBuf[b] # <<>> /\ asrBuf[b][1] <= Fed(b)[1]
          <5>1. asrBuf[c][1] \in Nat
            BY <2>1, <2>4, <4>2
          <5> QED BY <1>5, <2>1, <2>4, <3>3, <3>5, <4>2, <5>1 DEF Before
        <4> QED BY <1>2, <4>1, <4>2
      <3> QED BY <1>1, <1>2, <2>2, <3>1, <3>2, <3>4, <3>5
    <2> QED BY <2>3, <2>4
  <1>7. BufferNewest'
    BY <1>6 DEF BufferNewest
  <1>8. JobsApart'
    BY <1>1 DEF AsrInv, JobsApart
  <1> QED BY <1>1, <1>4, <1>5, <1>7, <1>8 DEF AsrInv

\* A thread pops the buffer: what it takes is newer than what the others hold.
LEMMA PoppingKeeps ==
    ASSUME AsrInv, NEW b \in Buckets, AsrBegins(b) PROVE AsrInv'
  <1>1. /\ asrNow' = asrNow /\ asrText' = asrText
        /\ asrBuf' = IF asrOn THEN [asrBuf EXCEPT ![b] = <<>>] ELSE asrBuf
        /\ asrTaken' = IF asrOn /\ Len(asrBuf[b]) >= MinAudio
                       THEN asrTaken \cup {<<b, asrBuf[b]>>} ELSE asrTaken
    BY DEF AsrBegins, Popped
  <1>2. /\ asrNow \in Nat
        /\ asrBuf \in [Buckets -> Seq(Nat)] /\ asrText \in [Buckets -> Nat]
        /\ asrTaken \subseteq Buckets \X Seq(Nat)
    BY DEF AsrInv, AsrTyped
  <1>3. /\ InTime(asrBuf[b], asrNow) /\ Len(asrBuf[b]) <= MaxAudio
        /\ asrBuf[b] \in Seq(Nat) /\ Len(asrBuf[b]) \in Nat
        /\ asrBuf[b] # <<>> =>
             /\ asrText[b] < asrBuf[b][1]
             /\ \A job \in asrTaken : job[1] = b => Before(job[2], asrBuf[b])
    BY <1>2 DEF AsrInv, BufferNewest
  <1>4. AsrTyped'
    <2>1. asrBuf' \in [Buckets -> Seq(Nat)]
      <3>1. <<>> \in Seq(Nat)
        OBVIOUS
      <3> QED BY <1>1, <1>2, <3>1
    <2>2. asrTaken' \subseteq Buckets \X Seq(Nat)
      BY <1>1, <1>2, <1>3
    <2> QED BY <1>1, <1>2, <2>1, <2>2 DEF AsrTyped
  <1>5. ASSUME NEW job \in asrTaken', job \notin asrTaken
        PROVE  /\ job[1] = b /\ job[2] = asrBuf[b] /\ asrBuf[b] # <<>>
               /\ asrOn /\ Len(asrBuf[b]) \in MinAudio .. MaxAudio
    <2>1. asrOn /\ Len(asrBuf[b]) >= MinAudio /\ job = <<b, asrBuf[b]>>
      BY <1>1, <1>5
    <2> QED BY <1>3, <2>1, AsrAssumption
  <1>6. ASSUME NEW job \in asrTaken' PROVE JobSound(job)'
    <2>1. CASE job \in asrTaken
      BY <1>1, <2>1 DEF AsrInv, JobSound
    <2>2. CASE job \notin asrTaken
      BY <1>1, <1>3, <1>5, <2>2 DEF JobSound
    <2> QED BY <2>1, <2>2
  <1>7. JobsApart'
    <2> SUFFICES ASSUME NEW job \in asrTaken', NEW other \in asrTaken', job # other,
                        job[1] = other[1]
                 PROVE  Before(job[2], other[2]) \/ Before(other[2], job[2])
      BY DEF JobsApart
    <2>1. CASE job \in asrTaken /\ other \in asrTaken
      BY <2>1 DEF AsrInv, JobsApart
    <2>2. CASE job \notin asrTaken /\ other \in asrTaken
      BY <1>3, <1>5, <2>2
    <2>3. CASE job \in asrTaken /\ other \notin asrTaken
      BY <1>3, <1>5, <2>3
    <2>4. CASE job \notin asrTaken /\ other \notin asrTaken
      BY <1>1, <2>4
    <2> QED BY <2>1, <2>2, <2>3, <2>4
  <1>8. BufferNewest'
    <2> SUFFICES ASSUME NEW c \in Buckets
                 PROVE  /\ InTime(asrBuf'[c], asrNow') /\ Len(asrBuf'[c]) <= MaxAudio
                        /\ asrText'[c] <= asrNow'
                        /\ asrBuf'[c] # <<>> =>
                             /\ asrText'[c] < asrBuf'[c][1]
                             /\ \A job \in asrTaken' : job[1] = c => Before(job[2], asrBuf'[c])
      BY DEF BufferNewest
    <2>1. /\ InTime(asrBuf[c], asrNow) /\ Len(asrBuf[c]) <= MaxAudio /\ asrText[c] <= asrNow
          /\ asrBuf[c] # <<>> =>
               /\ asrText[c] < asrBuf[c][1]
               /\ \A job \in asrTaken : job[1] = c => Before(job[2], asrBuf[c])
      BY DEF AsrInv, BufferNewest
    <2>2. CASE asrOn /\ c = b
      <3>1. asrBuf'[c] = <<>> /\ Len(<<>>) = 0 /\ MaxAudio \in Nat
        BY <1>1, <1>2, <2>2, AsrAssumption
      <3> QED BY <1>1, <2>1, <3>1 DEF InTime
    <2>3. CASE ~asrOn
      BY <1>1, <2>1, <2>3
    <2>4. CASE asrOn /\ c # b
      <3>1. asrBuf'[c] = asrBuf[c]
        BY <1>1, <1>2, <2>4
      <3>2. \A job \in asrTaken' : job[1] = c => job \in asrTaken
        BY <1>5, <2>4
      <3> QED BY <1>1, <2>1, <3>1, <3>2
    <2> QED BY <2>2, <2>3, <2>4
  <1> QED BY <1>4, <1>6, <1>7, <1>8 DEF AsrInv

\* The model has run, in whatever order the threads got its lock.
LEMMA TextKeeps ==
    ASSUME AsrInv, AsrEnds PROVE AsrInv'
  <1>1. PICK job \in asrTaken :
          /\ asrTaken' = asrTaken \ {job}
          /\ \/ asrText' = [asrText EXCEPT ![job[1]] = job[2][Len(job[2])]]
             \/ UNCHANGED asrText
          /\ UNCHANGED <<asrNow, asrOn, asrBuf, asrWait, asrQueued>>
    BY DEF AsrEnds
  <1>2. /\ asrNow \in Nat
        /\ asrBuf \in [Buckets -> Seq(Nat)] /\ asrText \in [Buckets -> Nat]
        /\ asrTaken \subseteq Buckets \X Seq(Nat)
    BY DEF AsrInv, AsrTyped
  <1>3. /\ job[1] \in Buckets /\ job[2] \in Seq(Nat) /\ InTime(job[2], asrNow)
        /\ Len(job[2]) \in MinAudio .. MaxAudio
    BY <1>2 DEF AsrInv, JobSound
  <1>4. LastOf(job[2]) \in Nat /\ LastOf(job[2]) <= asrNow
    <2>1. Len(job[2]) \in 1 .. Len(job[2])
      BY <1>3, AsrAssumption
    <2> QED BY <1>3, <2>1 DEF LastOf, InTime
  <1>5. asrText' = [asrText EXCEPT ![job[1]] = LastOf(job[2])] \/ asrText' = asrText
    BY <1>1 DEF LastOf
  <1>6. AsrTyped'
    BY <1>1, <1>2, <1>4, <1>5 DEF AsrTyped
  <1>7. BufferNewest'
    <2> SUFFICES ASSUME NEW c \in Buckets
                 PROVE  /\ InTime(asrBuf[c], asrNow) /\ Len(asrBuf[c]) <= MaxAudio
                        /\ asrText'[c] <= asrNow
                        /\ asrBuf[c] # <<>> =>
                             /\ asrText'[c] < asrBuf[c][1]
                             /\ \A k \in asrTaken' : k[1] = c => Before(k[2], asrBuf[c])
      BY <1>1 DEF BufferNewest
    <2>1. /\ InTime(asrBuf[c], asrNow) /\ Len(asrBuf[c]) <= MaxAudio /\ asrText[c] <= asrNow
          /\ asrBuf[c] # <<>> =>
               /\ asrText[c] < asrBuf[c][1]
               /\ \A k \in asrTaken : k[1] = c => Before(k[2], asrBuf[c])
      BY DEF AsrInv, BufferNewest
    <2>2. CASE asrText'[c] = asrText[c]
      BY <1>1, <2>1, <2>2
    <2>3. CASE asrText'[c] # asrText[c]
      <3>1. c = job[1] /\ asrText'[c] = LastOf(job[2])
        BY <1>2, <1>3, <1>5, <2>3
      <3> QED BY <1>1, <1>4, <2>1, <3>1 DEF Before
    <2> QED BY <2>2, <2>3
  <1>8. ASSUME NEW k \in asrTaken' PROVE JobSound(k)'
    <2>1. JobSound(k) /\ k \in asrTaken /\ k # job /\ k[1] \in Buckets
      BY <1>1, <1>2 DEF AsrInv
    <2>2. CASE asrText'[k[1]] = asrText[k[1]]
      BY <1>1, <2>1, <2>2 DEF JobSound
    <2>3. CASE asrText'[k[1]] # asrText[k[1]]
      <3>1. k[1] = job[1] /\ asrText'[k[1]] = LastOf(job[2])
        BY <1>2, <1>3, <1>5, <2>1, <2>3
      <3>2. Before(k[2], job[2]) \/ Before(job[2], k[2])
        BY <2>1, <3>1 DEF AsrInv, JobsApart
      <3>3. LastOf(job[2]) < k[2][1] \/ LastOf(job[2]) > LastOf(k[2])
        <4>1. CASE Before(job[2], k[2])
          BY <4>1 DEF Before
        <4>2. CASE Before(k[2], job[2])
          <5>1. /\ job[2][1] \in Nat /\ job[2][1] <= LastOf(job[2])
                /\ k[2] \in Seq(Nat) /\ LastOf(k[2]) \in Nat
            <6>1. 1 \in 1 .. Len(job[2]) /\ Len(job[2]) \in 1 .. Len(job[2])
              BY <1>3, AsrAssumption
            <6>2. k[2] \in Seq(Nat) /\ Len(k[2]) \in 1 .. Len(k[2])
              BY <1>2, <2>1, AsrAssumption DEF JobSound
            <6>3. job[2][1] \in Nat /\ LastOf(job[2]) \in Nat /\ LastOf(k[2]) \in Nat
              BY <1>3, <6>1, <6>2 DEF LastOf
            <6>4. job[2][1] <= LastOf(job[2])
              <7>1. CASE Len(job[2]) = 1
                BY <6>3, <7>1 DEF LastOf
              <7>2. CASE Len(job[2]) # 1
                <8>1. 1 < Len(job[2])
                  <9>1. Len(job[2]) \in Nat /\ 1 \in 1 .. Len(job[2])
                    BY <1>3, <6>1
                  <9>2. \A n \in Nat : 1 \in 1 .. n => n = 1 \/ 1 < n
                    OBVIOUS
                  <9> QED BY <7>2, <9>1, <9>2
                <8>2. job[2][1] < job[2][Len(job[2])]
                  BY <1>3, <6>1, <8>1 DEF InTime
                <8> QED BY <6>3, <8>2 DEF LastOf
              <7> QED BY <7>1, <7>2
            <6> QED BY <6>2, <6>3, <6>4
          <5> QED BY <1>4, <4>2, <5>1 DEF Before
        <4> QED BY <3>2, <4>1, <4>2
      <3> QED BY <1>1, <2>1, <3>1, <3>3 DEF JobSound
    <2> QED BY <2>2, <2>3
  <1>9. JobsApart'
    BY <1>1 DEF AsrInv, JobsApart
  <1> QED BY <1>6, <1>7, <1>8, <1>9 DEF AsrInv

LEMMA AsrInvStep ==
    ASSUME AsrInv, [AsrNext]_asrVars PROVE AsrInv'
  <1>1. ASSUME NEW b \in Buckets, AsrHears(b) PROVE AsrInv'
    BY <1>1, HearingKeeps
  <1>2. ASSUME NEW b \in Buckets, AsrBegins(b) PROVE AsrInv'
    BY <1>2, PoppingKeeps
  <1>3. CASE AsrEnds
    BY <1>3, TextKeeps
  <1>4. CASE AsrSwitched \/ UNCHANGED asrVars
    BY <1>4 DEF AsrSwitched, asrVars, AsrInv, AsrTyped, BufferNewest, JobsApart, JobSound
  <1> QED BY <1>1, <1>2, <1>3, <1>4 DEF AsrNext

LEMMA OnceOfInv == AsrInv => AudioOnce
  <1> SUFFICES ASSUME AsrInv PROVE AudioOnce
    OBVIOUS
  <1>1. \A b \in Buckets : asrBuf[b] # <<>> => asrText[b] < asrBuf[b][1]
    BY DEF AsrInv, BufferNewest
  <1>2. ASSUME NEW job \in asrTaken
        PROVE  LET b == job[1]
                   audio == job[2]
                   last == audio[Len(audio)] IN
               /\ Len(audio) \in MinAudio .. MaxAudio
               /\ \A i \in 2 .. Len(audio) : audio[i - 1] < audio[i]
               /\ asrBuf[b] # <<>> => last < asrBuf[b][1]
               /\ asrText[b] < audio[1] \/ asrText[b] > last
               /\ \A other \in asrTaken \ {job} : other[1] = b =>
                    last < other[2][1] \/ other[2][Len(other[2])] < audio[1]
    <2>1. JobSound(job) /\ job[1] \in Buckets /\ job[2] \in Seq(Nat)
      BY DEF AsrInv, AsrTyped
    <2>2. \A i \in 2 .. Len(job[2]) : job[2][i - 1] < job[2][i]
      <3>1. Len(job[2]) \in Nat
        BY <2>1
      <3>2. ASSUME NEW i \in 2 .. Len(job[2])
            PROVE  i - 1 \in 1 .. Len(job[2]) /\ i \in 1 .. Len(job[2]) /\ i - 1 < i
        BY <3>1
      <3> QED BY <2>1, <3>2 DEF JobSound, InTime
    <2>3. asrBuf[job[1]] # <<>> => Before(job[2], asrBuf[job[1]])
      BY <2>1 DEF AsrInv, BufferNewest
    <2>4. \A other \in asrTaken \ {job} : other[1] = job[1] =>
             Before(job[2], other[2]) \/ Before(other[2], job[2])
      BY DEF AsrInv, JobsApart
    <2> QED BY <2>1, <2>2, <2>3, <2>4 DEF JobSound, LastOf, Before
  <1> QED BY <1>1, <1>2 DEF AudioOnce

\* However many threads transcribe: the model is given enough audio, in the order it
\* was heard, and none of it twice (feed_iq, transcribe_bucket).
THEOREM AudioIsGivenOnce == AsrSpec => []AudioOnce
  BY AsrInvInit, AsrInvStep, OnceOfInv, PTL DEF AsrSpec

-----------------------------------------------------------------------------
(***************************************************************************)
(* The windows of FT (FtWindows).                                          *)
(***************************************************************************)
Captured == [at : Nat, band : WinBands]
WinScans == [run : BOOLEAN, band : WinBands, mode : WinModes]
WinPcs == {"top", "wait", "settle", "collect", "process", "decode"}
WinLoops == [pc : WinPcs, modes : WinModeLists, mode : WinModes, turn : {0, 1}, skips : Nat,
             band : WinBands, boundary : Nat, audio : Seq(Captured), abort : BOOLEAN,
             moved : BOOLEAN, missed : BOOLEAN]

WinTyped ==
    /\ winNow \in Nat
    /\ winScan \in WinScans
    /\ winQueue \in Seq(Captured)
    /\ winLoop \in WinLoops
    /\ winSaved \subseteq [from : Nat, to : Nat]

Ordered(q) == \A i, j \in 1 .. Len(q) : i < j => q[i].at < q[j].at

\* The queue holds what was recorded, in its order.
QueueOrdered == Ordered(winQueue) /\ \A j \in 1 .. Len(winQueue) : winQueue[j].at < winNow

\* A window is waited for that begins after all that was saved.
WindowAhead ==
    /\ winLoop.pc \in {"settle", "collect", "process", "decode"} => winNow >= winLoop.boundary
    /\ \A w \in winSaved :
        /\ w.from <= w.to /\ w.to < winNow
        /\ winLoop.pc # "top" => w.to < winLoop.boundary

\* Of the window: recorded in it, on its band unless the radio was moved meanwhile.
OfWindow(block, loop) ==
    block.at >= loop.boundary /\ (~loop.moved => block.band = loop.band)

\* While a window is captured, what was taken and what waits lie in its order and,
\* unless a block was lost, touch each other and the clock.
CaptureInOrder ==
    /\ winLoop.pc \in {"settle", "collect"} /\ ~winLoop.moved => winScan.band = winLoop.band
    /\ winLoop.pc \in {"top", "wait", "settle"} => winLoop.audio = <<>>
    /\ winLoop.pc = "collect" =>
         /\ \A j \in 1 .. Len(winQueue) : OfWindow(winQueue[j], winLoop)
         /\ \A i \in 1 .. Len(winLoop.audio), j \in 1 .. Len(winQueue) :
              winLoop.audio[i].at < winQueue[j].at
         /\ ~winLoop.missed =>
              /\ \A j \in 1 .. Len(winQueue) :
                   winQueue[j].at = winNow - Len(winQueue) + j - 1
              /\ \A i \in 1 .. Len(winLoop.audio) :
                   winLoop.audio[i].at = winNow - Len(winQueue) - Len(winLoop.audio) + i - 1
    /\ winLoop.pc \in {"collect", "process", "decode"} =>
         /\ Ordered(winLoop.audio)
         /\ \A i \in 1 .. Len(winLoop.audio) :
              OfWindow(winLoop.audio[i], winLoop) /\ winLoop.audio[i].at < winNow

WinInv ==
    WinTyped /\ QueueOrdered /\ WindowAhead /\ CaptureInOrder /\ FtWindowsExact

-----------------------------------------------------------------------------
LEMMA NextBoundary ==
    ASSUME NEW n \in Nat, NEW p \in Nat \ {0}
    PROVE  (n \div p + 1) * p > n /\ (n \div p + 1) * p \in Nat
  OBVIOUS

LEMMA WinNumbers ==
    ASSUME WinTyped
    PROVE  /\ winNow \in Nat /\ winLoop.boundary \in Nat
           /\ winLoop.mode \in WinModes /\ WinPeriod[winLoop.mode] \in Nat \ {0}
           /\ winLoop.audio \in Seq(Captured) /\ Len(winLoop.audio) \in Nat
           /\ winQueue \in Seq(Captured) /\ Len(winQueue) \in Nat
           /\ \A i \in 1 .. Len(winLoop.audio) : winLoop.audio[i].at \in Nat
           /\ \A j \in 1 .. Len(winQueue) : winQueue[j].at \in Nat
           /\ \A w \in winSaved : w.from \in Nat /\ w.to \in Nat
  <1>1. /\ winNow \in Nat /\ winLoop \in WinLoops /\ winQueue \in Seq(Captured)
        /\ winSaved \subseteq [from : Nat, to : Nat]
    BY DEF WinTyped
  <1>2. /\ winLoop.boundary \in Nat /\ winLoop.mode \in WinModes
        /\ winLoop.audio \in Seq(Captured)
    BY <1>1 DEF WinLoops
  <1>3. WinPeriod[winLoop.mode] \in Nat \ {0}
    BY <1>2, WinAssumption
  <1>4. \A b \in Captured : b.at \in Nat
    BY DEF Captured
  <1>5. /\ \A i \in 1 .. Len(winLoop.audio) : winLoop.audio[i] \in Captured
        /\ \A j \in 1 .. Len(winQueue) : winQueue[j] \in Captured
        /\ Len(winLoop.audio) \in Nat /\ Len(winQueue) \in Nat
    BY <1>1, <1>2
  <1>6. \A w \in winSaved : w.from \in Nat /\ w.to \in Nat
    BY <1>1
  <1> QED BY <1>1, <1>2, <1>3, <1>4, <1>5, <1>6

LEMMA ListModes ==
    ASSUME NEW l \in WinModeLists
    PROVE  /\ l \in Seq(WinModes) /\ Len(l) \in {1, 2} /\ l[1] \in WinModes /\ l[1] \in Range(l)
           /\ \A t \in {0, 1} : /\ l[(t % Len(l)) + 1] \in WinModes
                                /\ l[(t % Len(l)) + 1] \in Range(l)
  <1>1. l \in Seq(WinModes) /\ Len(l) \in {1, 2}
    BY WinAssumption
  <1>2. \A i \in 1 .. Len(l) : l[i] \in WinModes /\ l[i] \in Range(l)
    <2>1. DOMAIN l = 1 .. Len(l) /\ \A i \in 1 .. Len(l) : l[i] \in WinModes
      BY <1>1
    <2> QED BY <2>1 DEF Range
  <1>3. \A t \in {0, 1} : (t % Len(l)) + 1 \in 1 .. Len(l)
    <2>1. \A n \in {1, 2}, t \in {0, 1} : (t % n) + 1 \in 1 .. n
      OBVIOUS
    <2> QED BY <1>1, <2>1
  <1>4. 1 \in 1 .. Len(l)
    BY <1>1
  <1> QED BY <1>1, <1>2, <1>3, <1>4

LEMMA WinInvInit == WinInit => WinInv
  <1> SUFFICES ASSUME WinInit PROVE WinInv
    OBVIOUS
  <1>1. PICK l \in WinModeLists :
          winLoop = [pc |-> "top", modes |-> l, mode |-> l[1], turn |-> 0, skips |-> 0,
                     band |-> winScan.band, boundary |-> 0, audio |-> <<>>,
                     abort |-> FALSE, moved |-> FALSE, missed |-> FALSE]
    BY DEF WinInit
  <1>2. /\ winNow = 0 /\ winQueue = <<>> /\ winSaved = {}
        /\ winScan \in [run : {TRUE}, band : WinBands, mode : WinFamily]
    BY DEF WinInit
  <1>3. l[1] \in WinModes
    BY ListModes
  <1>4. winScan \in WinScans /\ winScan.band \in WinBands
    BY <1>2, WinAssumption DEF WinScans
  <1>5. winLoop \in WinLoops /\ winLoop.pc = "top" /\ winLoop.audio = <<>>
    <2>1. <<>> \in Seq(Captured)
      OBVIOUS
    <2> QED BY <1>1, <1>3, <1>4, <2>1 DEF WinLoops, WinPcs
  <1>6. Len(winQueue) = 0 /\ winQueue \in Seq(Captured)
    BY <1>2
  <1>7. WinTyped
    BY <1>2, <1>4, <1>5, <1>6 DEF WinTyped
  <1>8. QueueOrdered /\ WindowAhead /\ CaptureInOrder
    BY <1>2, <1>5, <1>6 DEF QueueOrdered, WindowAhead, CaptureInOrder, Ordered
  <1>9. FtWindowsExact
    BY <1>2, <1>5 DEF FtWindowsExact, WholeWindow, OldModesAbort, WindowsApart
  <1> QED BY <1>7, <1>8, <1>9 DEF WinInv

\* Back to the top: the loop keeps its modes, its turn and its band.
LEMMA WinOverIs ==
    ASSUME WinTyped
    PROVE  WinOver \in WinLoops /\ WinOver.pc = "top" /\ WinOver.audio = <<>>
  <1>1. <<>> \in Seq(Captured) /\ winLoop \in WinLoops
    BY DEF WinTyped
  <1> QED BY <1>1 DEF WinOver, WinLoops, WinPcs

LEMMA BackAtTop ==
    ASSUME WinInv, winLoop' = WinOver, UNCHANGED <<winNow, winScan, winQueue>>,
           winSaved' \subseteq [from : Nat, to : Nat], WindowsApart',
           \A w \in winSaved' : w.from <= w.to /\ w.to < winNow
    PROVE  WinInv'
  <1>1. WinTyped /\ winLoop' \in WinLoops /\ winLoop'.pc = "top" /\ winLoop'.audio = <<>>
    BY WinOverIs DEF WinInv
  <1>2. WinTyped'
    BY <1>1 DEF WinTyped
  <1>3. QueueOrdered' /\ WindowAhead' /\ CaptureInOrder'
    BY <1>1 DEF WinInv, QueueOrdered, WindowAhead, CaptureInOrder
  <1>4. FtWindowsExact'
    BY <1>1 DEF FtWindowsExact, WholeWindow, OldModesAbort
  <1> QED BY <1>2, <1>3, <1>4 DEF WinInv

LEMMA BackUnsaved ==
    ASSUME WinInv, winLoop' = WinOver, UNCHANGED <<winNow, winScan, winQueue, winSaved>>
    PROVE  WinInv'
  <1>1. /\ winSaved' \subseteq [from : Nat, to : Nat] /\ WindowsApart'
        /\ \A w \in winSaved' : w.from <= w.to /\ w.to < winNow
    BY DEF WinInv, WinTyped, FtWindowsExact, WindowsApart, WindowAhead
  <1> QED BY <1>1, BackAtTop

\* The pump: a block of now, or one that is lost.
LEMMA WinTickKeeps ==
    ASSUME WinInv, WinTick PROVE WinInv'
  <1>1. /\ winNow' = winNow + 1 /\ UNCHANGED <<winScan, winSaved>>
        /\ \/ /\ winQueue' = Append(winQueue, [at |-> winNow, band |-> winScan.band])
              /\ winLoop' = winLoop
           \/ /\ winLoop' = [winLoop EXCEPT !.missed = @ \/ winLoop.pc = "collect"]
              /\ winQueue' = winQueue
    BY DEF WinTick
  <1> DEFINE lost == winLoop.missed \/ winLoop.pc = "collect"
             block == [at |-> winNow, band |-> winScan.band]
             audio == winLoop.audio
  <1>n. WinTyped /\ winNow \in Nat /\ winLoop \in WinLoops /\ winQueue \in Seq(Captured)
    BY DEF WinInv, WinTyped
  <1>m. /\ Len(audio) \in Nat /\ Len(winQueue) \in Nat /\ winLoop.boundary \in Nat
        /\ \A i \in 1 .. Len(audio) : audio[i].at \in Nat
        /\ \A j \in 1 .. Len(winQueue) : winQueue[j].at \in Nat
        /\ \A w \in winSaved : w.from \in Nat /\ w.to \in Nat
    BY <1>n, WinNumbers
  <1>2. /\ block \in Captured /\ block.at = winNow /\ block.band = winScan.band
    <2>1. winScan.band \in WinBands
      BY DEF WinInv, WinTyped, WinScans
    <2> QED BY <1>n, <2>1 DEF Captured
  <1>3. lost \in BOOLEAN
    OBVIOUS
  <1> HIDE DEF block
  <1>4. /\ winLoop' \in WinLoops /\ winLoop'.pc = winLoop.pc /\ winLoop'.audio = audio
        /\ winLoop'.modes = winLoop.modes /\ winLoop'.mode = winLoop.mode
        /\ winLoop'.band = winLoop.band /\ winLoop'.boundary = winLoop.boundary
        /\ winLoop'.abort = winLoop.abort /\ winLoop'.moved = winLoop.moved
        /\ \/ winQueue' = Append(winQueue, block) /\ winLoop'.missed = winLoop.missed
           \/ winQueue' = winQueue /\ winLoop'.missed = lost
    <2>1. CASE winQueue' = Append(winQueue, block) /\ winLoop' = winLoop
      BY <1>n, <2>1
    <2>2. CASE winLoop' = [winLoop EXCEPT !.missed = lost] /\ winQueue' = winQueue
      <3> HIDE DEF lost
      <3> QED BY <1>n, <1>3, <2>2 DEF WinLoops
    <2> QED BY <1>1, <2>1, <2>2 DEF block
  <1>5. /\ winQueue' \in Seq(Captured)
        /\ \A j \in 1 .. Len(winQueue') :
             \/ j \in 1 .. Len(winQueue) /\ winQueue'[j] = winQueue[j]
             \/ /\ winQueue' = Append(winQueue, block)
                /\ j = Len(winQueue) + 1 /\ winQueue'[j] = block
        /\ winQueue' = Append(winQueue, block) => Len(winQueue') = Len(winQueue) + 1
    <2>1. CASE winQueue' = winQueue
      <3>1. Len(Append(winQueue, block)) = Len(winQueue) + 1
        BY <1>n, <1>2, AppendTo
      <3> QED BY <1>n, <1>m, <2>1, <3>1
    <2>2. CASE winQueue' = Append(winQueue, block)
      <3>1. /\ Append(winQueue, block) \in Seq(Captured)
            /\ Len(Append(winQueue, block)) = Len(winQueue) + 1
            /\ \A i \in 1 .. Len(winQueue) : Append(winQueue, block)[i] = winQueue[i]
            /\ Append(winQueue, block)[Len(winQueue) + 1] = block
        BY <1>n, <1>2, AppendTo
      <3> QED BY <1>m, <2>2, <3>1
    <2> QED BY <1>4, <2>1, <2>2
  <1> HIDE DEF audio
  <1>6. WinTyped'
    BY <1>1, <1>4, <1>5, <1>n DEF WinTyped
  <1>7. QueueOrdered'
    <2>1. ASSUME NEW i \in 1 .. Len(winQueue'), NEW j \in 1 .. Len(winQueue'), i < j
          PROVE  winQueue'[i].at < winQueue'[j].at
      <3>1. i \in 1 .. Len(winQueue) /\ winQueue'[i] = winQueue[i]
        BY <1>5, <1>m, <2>1
      <3>2. CASE j \in 1 .. Len(winQueue) /\ winQueue'[j] = winQueue[j]
        BY <2>1, <3>1, <3>2 DEF WinInv, QueueOrdered, Ordered
      <3>3. CASE winQueue'[j] = block
        BY <1>2, <3>1, <3>3 DEF WinInv, QueueOrdered
      <3> QED BY <1>5, <3>2, <3>3
    <2>2. ASSUME NEW j \in 1 .. Len(winQueue') PROVE winQueue'[j].at < winNow'
      <3>1. CASE j \in 1 .. Len(winQueue) /\ winQueue'[j] = winQueue[j]
        <4>1. winQueue[j].at < winNow /\ winQueue[j].at \in Nat
          BY <1>m, <3>1 DEF WinInv, QueueOrdered
        <4> QED BY <1>1, <1>n, <3>1, <4>1
      <3>2. CASE winQueue'[j] = block
        BY <1>1, <1>2, <1>n, <3>2
      <3> QED BY <1>5, <3>1, <3>2
    <2> QED BY <2>1, <2>2 DEF QueueOrdered, Ordered
  <1>8. WindowAhead'
    <2>1. ASSUME NEW w \in winSaved PROVE w.to < winNow + 1
      BY <1>m, <1>n DEF WinInv, WindowAhead
    <2>2. winLoop.pc \in {"settle", "collect", "process", "decode"} =>
            winNow + 1 >= winLoop.boundary
      BY <1>m, <1>n DEF WinInv, WindowAhead
    <2> QED BY <1>1, <1>4, <2>1, <2>2 DEF WinInv, WindowAhead
  <1>9. CaptureInOrder'
    <2>1. /\ winLoop'.pc \in {"settle", "collect"} /\ ~winLoop'.moved =>
                winScan'.band = winLoop'.band
          /\ winLoop'.pc \in {"top", "wait", "settle"} => winLoop'.audio = <<>>
      BY <1>1, <1>4 DEF WinInv, CaptureInOrder, audio
    <2>2. ASSUME winLoop'.pc \in {"collect", "process", "decode"}
          PROVE  /\ Ordered(winLoop'.audio)
                 /\ \A i \in 1 .. Len(winLoop'.audio) :
                      OfWindow(winLoop'.audio[i], winLoop') /\ winLoop'.audio[i].at < winNow'
      <3>1. /\ Ordered(audio)
            /\ \A i \in 1 .. Len(audio) : OfWindow(audio[i], winLoop) /\ audio[i].at < winNow
        BY <1>4, <2>2 DEF WinInv, CaptureInOrder, audio
      <3> QED BY <1>1, <1>4, <1>m, <1>n, <3>1 DEF OfWindow
    <2>3. ASSUME winLoop'.pc = "collect"
          PROVE  /\ \A j \in 1 .. Len(winQueue') : OfWindow(winQueue'[j], winLoop')
                 /\ \A i \in 1 .. Len(audio), j \in 1 .. Len(winQueue') :
                      audio[i].at < winQueue'[j].at
      <3>1. /\ winLoop.pc = "collect" /\ winNow >= winLoop.boundary
            /\ ~winLoop.moved => winScan.band = winLoop.band
            /\ \A j \in 1 .. Len(winQueue) : OfWindow(winQueue[j], winLoop)
            /\ \A i \in 1 .. Len(audio), j \in 1 .. Len(winQueue) : audio[i].at < winQueue[j].at
            /\ \A i \in 1 .. Len(audio) : audio[i].at < winNow
        BY <1>4, <2>3 DEF WinInv, CaptureInOrder, WindowAhead, audio
      <3>2. ASSUME NEW j \in 1 .. Len(winQueue') PROVE OfWindow(winQueue'[j], winLoop')
        BY <1>2, <1>4, <1>5, <3>1 DEF OfWindow
      <3>3. ASSUME NEW i \in 1 .. Len(audio), NEW j \in 1 .. Len(winQueue')
            PROVE  audio[i].at < winQueue'[j].at
        <4>1. CASE j \in 1 .. Len(winQueue) /\ winQueue'[j] = winQueue[j]
          BY <3>1, <4>1
        <4>2. CASE winQueue'[j] = block
          BY <1>2, <3>1, <4>2
        <4> QED BY <1>5, <4>1, <4>2
      <3> QED BY <3>2, <3>3
    <2>4. ASSUME winLoop'.pc = "collect", ~winLoop'.missed
          PROVE  /\ \A j \in 1 .. Len(winQueue') :
                      winQueue'[j].at = winNow' - Len(winQueue') + j - 1
                 /\ \A i \in 1 .. Len(audio) :
                      audio[i].at = winNow' - Len(winQueue') - Len(audio) + i - 1
      <3>1. winLoop.pc = "collect" /\ ~winLoop.missed /\ winQueue' = Append(winQueue, block)
        BY <1>4, <2>4
      <3>2. /\ \A j \in 1 .. Len(winQueue) : winQueue[j].at = winNow - Len(winQueue) + j - 1
            /\ \A i \in 1 .. Len(audio) :
                 audio[i].at = winNow - Len(winQueue) - Len(audio) + i - 1
        BY <3>1 DEF WinInv, CaptureInOrder, audio
      <3>3. Len(winQueue') = Len(winQueue) + 1
        BY <1>5, <3>1
      <3>4. winNow' - Len(winQueue') = winNow - Len(winQueue)
        BY <1>1, <1>m, <1>n, <3>3
      <3>5. ASSUME NEW j \in 1 .. Len(winQueue')
            PROVE  winQueue'[j].at = winNow' - Len(winQueue') + j - 1
        <4>1. CASE j \in 1 .. Len(winQueue) /\ winQueue'[j] = winQueue[j]
          BY <3>2, <3>4, <4>1
        <4>2. CASE j = Len(winQueue) + 1 /\ winQueue'[j] = block
          BY <1>2, <1>m, <1>n, <3>4, <4>2
        <4> QED BY <1>5, <4>1, <4>2
      <3>6. ASSUME NEW i \in 1 .. Len(audio)
            PROVE  audio[i].at = winNow' - Len(winQueue') - Len(audio) + i - 1
        BY <3>2, <3>4
      <3> QED BY <3>5, <3>6
    <2>5. winLoop'.audio = audio
      BY <1>4
    <2> QED BY <2>1, <2>2, <2>3, <2>4, <2>5 DEF CaptureInOrder
  <1>10. FtWindowsExact'
    <2>1. WindowsApart'
      BY <1>1 DEF WinInv, FtWindowsExact, WindowsApart
    <2>2. OldModesAbort'
      BY <1>4 DEF WinInv, FtWindowsExact, OldModesAbort
    <2>3. WholeWindow'
      <3> SUFFICES ASSUME winLoop'.pc \in {"process", "decode"} PROVE WholeWindow'
        BY DEF WholeWindow
      <3>1. winLoop'.missed = winLoop.missed
        <4>1. winLoop.pc # "collect" /\ winLoop.missed \in BOOLEAN
          BY <1>4, <1>n DEF WinLoops
        <4> QED BY <1>4, <4>1
      <3> QED BY <1>4, <3>1 DEF WinInv, FtWindowsExact, WholeWindow, WinFull, audio
    <2> QED BY <2>1, <2>2, <2>3 DEF FtWindowsExact
  <1> QED BY <1>6, <1>7, <1>8, <1>9, <1>10 DEF WinInv

\* Before a capture, all there is to show is when the window begins, and on which band.
LEMMA BeforeCapture ==
    ASSUME WinInv, UNCHANGED <<winNow, winScan, winQueue, winSaved>>,
           winLoop' \in WinLoops, winLoop'.pc \in {"top", "wait", "settle"},
           winLoop'.audio = <<>>, OldModesAbort',
           winLoop'.pc = "settle" =>
             winNow >= winLoop'.boundary /\ (~winLoop'.moved => winScan.band = winLoop'.band),
           winLoop'.pc # "top" => \A w \in winSaved : w.to < winLoop'.boundary
    PROVE  WinInv'
  <1>1. WinTyped'
    BY DEF WinInv, WinTyped
  <1>2. QueueOrdered'
    BY DEF WinInv, QueueOrdered, Ordered
  <1>3. WindowAhead'
    BY DEF WinInv, WindowAhead
  <1>4. CaptureInOrder'
    BY DEF CaptureInOrder
  <1>5. FtWindowsExact'
    BY DEF WinInv, FtWindowsExact, WholeWindow, WindowsApart
  <1> QED BY <1>1, <1>2, <1>3, <1>4, <1>5 DEF WinInv

\* A mode that is on the list need not be given up.
LEMMA ListedIsKept ==
    ASSUME winLoop'.mode \in Range(winLoop'.modes) PROVE OldModesAbort'
  BY DEF OldModesAbort

LEMMA WinPicksKeeps ==
    ASSUME WinInv, WinPicks PROVE WinInv'
  <1> DEFINE mode == winLoop.modes[(winLoop.turn % Len(winLoop.modes)) + 1]
             counted == mode = "WSPR" /\ Len(winLoop.modes) > 1
             skips == IF counted THEN (winLoop.skips + 1) % WsprEvery ELSE winLoop.skips
             next == [winLoop EXCEPT !.mode = mode, !.abort = FALSE, !.turn = 1 - @,
                                     !.skips = skips]
             slot == (winNow \div WinPeriod[mode] + 1) * WinPeriod[mode]
  <1>1. /\ winLoop.pc = "top" /\ UNCHANGED <<winNow, winScan, winQueue, winSaved>>
        /\ \/ winLoop' = next
           \/ winLoop' = [next EXCEPT !.pc = "wait", !.band = winScan.band, !.boundary = slot]
    BY DEF WinPicks, WinOnly
  <1>2. /\ winLoop \in WinLoops /\ winNow \in Nat /\ winScan.band \in WinBands
        /\ winLoop.modes \in WinModeLists /\ winLoop.turn \in {0, 1} /\ winLoop.skips \in Nat
    BY DEF WinInv, WinTyped, WinLoops, WinScans
  <1>3. mode \in WinModes /\ mode \in Range(winLoop.modes)
    BY <1>2, ListModes
  <1>4. skips \in Nat /\ 1 - winLoop.turn \in {0, 1}
    <2>1. \A n \in Nat, e \in Nat \ {0} : (n + 1) % e \in Nat
      OBVIOUS
    <2> QED BY <1>2, <2>1, WinAssumption
  <1>5. slot \in Nat /\ slot > winNow
    BY <1>2, <1>3, NextBoundary, WinAssumption
  <1>6. winLoop.audio = <<>>
    BY <1>1 DEF WinInv, CaptureInOrder
  <1> HIDE DEF mode, skips, slot
  <1>7. /\ next \in WinLoops /\ next.pc = winLoop.pc /\ next.audio = winLoop.audio
        /\ next.mode = mode /\ next.modes = winLoop.modes
    BY <1>2, <1>3, <1>4 DEF WinLoops
  <1> HIDE DEF next
  <1>8. /\ winLoop' \in WinLoops /\ winLoop'.audio = <<>>
        /\ winLoop'.mode = mode /\ winLoop'.modes = winLoop.modes
        /\ winLoop'.pc = "top" \/ (winLoop'.pc = "wait" /\ winLoop'.boundary = slot)
    <2>1. CASE winLoop' = next
      BY <1>1, <1>6, <1>7, <2>1
    <2>2. CASE winLoop' = [next EXCEPT !.pc = "wait", !.band = winScan.band, !.boundary = slot]
      BY <1>2, <1>5, <1>6, <1>7, <2>2 DEF WinLoops, WinPcs
    <2> QED BY <1>1, <2>1, <2>2
  <1>9. OldModesAbort'
    <2>1. winLoop'.mode \in Range(winLoop'.modes)
      BY <1>3, <1>8
    <2> QED BY <2>1, ListedIsKept
  <1>10. ASSUME NEW w \in winSaved PROVE w.to < slot
    <2>1. w.to < winNow /\ w.to \in Nat
      BY WinNumbers DEF WinInv, WindowAhead
    <2> QED BY <1>2, <1>5, <2>1
  <1> QED BY <1>1, <1>8, <1>9, <1>10, BeforeCapture

LEMMA WinAlignedKeeps ==
    ASSUME WinInv, WinAligned PROVE WinInv'
  <1>1. /\ winLoop.pc = "wait" /\ winNow >= winLoop.boundary
        /\ UNCHANGED <<winNow, winScan, winQueue, winSaved>>
        /\ \/ winLoop' = WinOver
           \/ /\ winScan.band = winLoop.band
              /\ winLoop' = [winLoop EXCEPT !.pc = "settle", !.moved = FALSE]
    BY DEF WinAligned, WinOnly
  <1>2. CASE winLoop' = WinOver
    BY <1>1, <1>2, BackUnsaved
  <1>3. CASE /\ winScan.band = winLoop.band
             /\ winLoop' = [winLoop EXCEPT !.pc = "settle", !.moved = FALSE]
    <2>1. winLoop \in WinLoops
      BY DEF WinInv, WinTyped
    <2>2. /\ winLoop' \in WinLoops /\ winLoop'.pc = "settle" /\ winLoop'.audio = winLoop.audio
          /\ winLoop'.boundary = winLoop.boundary /\ winLoop'.band = winLoop.band
          /\ winLoop'.mode = winLoop.mode /\ winLoop'.modes = winLoop.modes
          /\ winLoop'.abort = winLoop.abort
      BY <1>3, <2>1 DEF WinLoops, WinPcs
    <2>3. winLoop.audio = <<>> /\ \A w \in winSaved : w.to < winLoop.boundary
      BY <1>1 DEF WinInv, CaptureInOrder, WindowAhead
    <2>4. OldModesAbort'
      BY <1>1, <2>2 DEF WinInv, FtWindowsExact, OldModesAbort
    <2> QED BY <1>1, <1>3, <2>2, <2>3, <2>4, BeforeCapture
  <1> QED BY <1>1, <1>2, <1>3

LEMMA WinOpensKeeps ==
    ASSUME WinInv, WinOpens PROVE WinInv'
  <1>1. /\ winLoop.pc = "settle" /\ UNCHANGED <<winNow, winScan, winSaved>>
        /\ winQueue' = <<>> /\ winLoop' = [winLoop EXCEPT !.pc = "collect", !.missed = FALSE]
    BY DEF WinOpens, WinOnly, WinFlushed
  <1>2. winLoop \in WinLoops
    BY DEF WinInv, WinTyped
  <1>3. /\ winLoop' \in WinLoops /\ winLoop'.pc = "collect" /\ winLoop'.audio = winLoop.audio
        /\ winLoop'.boundary = winLoop.boundary /\ winLoop'.band = winLoop.band
        /\ winLoop'.mode = winLoop.mode /\ winLoop'.modes = winLoop.modes
        /\ winLoop'.abort = winLoop.abort /\ winLoop'.moved = winLoop.moved
    BY <1>1, <1>2 DEF WinLoops, WinPcs
  <1>4. winLoop'.audio = <<>> /\ Len(winLoop'.audio) = 0 /\ Len(winQueue') = 0
        /\ winQueue' \in Seq(Captured)
    BY <1>1, <1>3 DEF WinInv, CaptureInOrder
  <1>5. WinTyped'
    BY <1>1, <1>3, <1>4 DEF WinInv, WinTyped
  <1>6. QueueOrdered'
    BY <1>4 DEF QueueOrdered, Ordered
  <1>7. WindowAhead'
    BY <1>1, <1>3 DEF WinInv, WindowAhead
  <1>8. CaptureInOrder'
    <2>1. ~winLoop'.moved => winScan'.band = winLoop'.band
      BY <1>1, <1>3 DEF WinInv, CaptureInOrder
    <2>2. Ordered(winLoop'.audio)
      BY <1>4 DEF Ordered
    <2> QED BY <1>3, <1>4, <2>1, <2>2 DEF CaptureInOrder
  <1>9. FtWindowsExact'
    BY <1>1, <1>3 DEF WinInv, FtWindowsExact, WholeWindow, OldModesAbort, WindowsApart
  <1> QED BY <1>5, <1>6, <1>7, <1>8, <1>9 DEF WinInv

LEMMA WinReadsKeeps ==
    ASSUME WinInv, WinReads PROVE WinInv'
  <1> DEFINE audio == winLoop.audio
  <1>1. /\ winLoop.pc = "collect" /\ winQueue # <<>> /\ UNCHANGED <<winNow, winScan, winSaved>>
        /\ winLoop' = [winLoop EXCEPT !.audio = Append(audio, Head(winQueue))]
        /\ winQueue' = Tail(winQueue)
    BY DEF WinReads, WinOnly
  <1>2. /\ WinTyped /\ winNow \in Nat /\ winLoop \in WinLoops /\ winQueue \in Seq(Captured)
        /\ audio \in Seq(Captured) /\ Len(audio) \in Nat
        /\ \A i \in 1 .. Len(audio) : audio[i].at \in Nat
        /\ \A j \in 1 .. Len(winQueue) : winQueue[j].at \in Nat
    BY WinNumbers DEF WinInv, WinTyped
  <1>3. /\ Head(winQueue) \in Captured /\ Head(winQueue) = winQueue[1]
        /\ Len(winQueue) \in Nat \ {0}
        /\ Tail(winQueue) \in Seq(Captured) /\ Len(Tail(winQueue)) = Len(winQueue) - 1
        /\ \A j \in 1 .. Len(Tail(winQueue)) : Tail(winQueue)[j] = winQueue[j + 1]
    BY <1>1, <1>2, TailOf
  <1> DEFINE longer == Append(audio, Head(winQueue))
  <1>4. /\ longer \in Seq(Captured) /\ Len(longer) = Len(audio) + 1
        /\ \A i \in 1 .. Len(audio) : longer[i] = audio[i]
        /\ longer[Len(audio) + 1] = winQueue[1]
    BY <1>2, <1>3, AppendTo
  <1>5. /\ winQueue' \in Seq(Captured) /\ Len(winQueue') = Len(winQueue) - 1
        /\ \A j \in 1 .. Len(winQueue') : /\ j \in Nat \ {0} /\ j + 1 \in 1 .. Len(winQueue)
                                         /\ winQueue'[j] = winQueue[j + 1]
    BY <1>1, <1>3
  <1>6. 1 \in 1 .. Len(winQueue)
    BY <1>3
  <1>7. \A i \in 1 .. Len(longer) :
          \/ i \in 1 .. Len(audio) /\ longer[i] = audio[i]
          \/ i = Len(audio) + 1 /\ longer[i] = winQueue[1]
    BY <1>2, <1>4
  <1> HIDE DEF longer
  <1>8. /\ winLoop' \in WinLoops /\ winLoop'.pc = "collect" /\ winLoop'.audio = longer
        /\ winLoop'.boundary = winLoop.boundary /\ winLoop'.band = winLoop.band
        /\ winLoop'.mode = winLoop.mode /\ winLoop'.modes = winLoop.modes
        /\ winLoop'.abort = winLoop.abort /\ winLoop'.moved = winLoop.moved
        /\ winLoop'.missed = winLoop.missed
    BY <1>1, <1>2, <1>4 DEF WinLoops, longer
  <1> HIDE DEF audio
  <1>9. /\ Ordered(winQueue) /\ Ordered(audio)
        /\ \A j \in 1 .. Len(winQueue) : winQueue[j].at < winNow /\ OfWindow(winQueue[j], winLoop)
        /\ \A i \in 1 .. Len(audio) : audio[i].at < winNow /\ OfWindow(audio[i], winLoop)
        /\ \A i \in 1 .. Len(audio), j \in 1 .. Len(winQueue) : audio[i].at < winQueue[j].at
    BY <1>1 DEF WinInv, QueueOrdered, CaptureInOrder, audio
  <1>10. WinTyped'
    BY <1>1, <1>2, <1>5, <1>8 DEF WinTyped
  <1>11. QueueOrdered'
    <2>1. ASSUME NEW i \in 1 .. Len(winQueue'), NEW j \in 1 .. Len(winQueue'), i < j
          PROVE  winQueue'[i].at < winQueue'[j].at
      <3>1. i + 1 < j + 1
        BY <1>5, <2>1
      <3> QED BY <1>5, <1>9, <3>1 DEF Ordered
    <2>2. \A j \in 1 .. Len(winQueue') : winQueue'[j].at < winNow
      BY <1>5, <1>9
    <2> QED BY <1>1, <2>1, <2>2 DEF QueueOrdered, Ordered
  <1>12. WindowAhead'
    BY <1>1, <1>8 DEF WinInv, WindowAhead
  <1>13. CaptureInOrder'
    <2>1. ~winLoop'.moved => winScan'.band = winLoop'.band
      BY <1>1, <1>8 DEF WinInv, CaptureInOrder
    <2>2. \A j \in 1 .. Len(winQueue') : OfWindow(winQueue'[j], winLoop')
      BY <1>5, <1>8, <1>9 DEF OfWindow
    <2>3. ASSUME NEW i \in 1 .. Len(longer), NEW j \in 1 .. Len(winQueue')
          PROVE  longer[i].at < winQueue'[j].at
      <3>1. CASE i \in 1 .. Len(audio) /\ longer[i] = audio[i]
        BY <1>5, <1>9, <3>1
      <3>2. CASE longer[i] = winQueue[1]
        <4>1. 1 < j + 1
          BY <1>5
        <4> QED BY <1>5, <1>6, <1>9, <3>2, <4>1 DEF Ordered
      <3> QED BY <1>7, <3>1, <3>2
    <2>4. ASSUME ~winLoop'.missed
          PROVE  /\ \A j \in 1 .. Len(winQueue') :
                      winQueue'[j].at = winNow' - Len(winQueue') + j - 1
                 /\ \A i \in 1 .. Len(longer) :
                      longer[i].at = winNow' - Len(winQueue') - Len(longer) + i - 1
      <3>1. /\ \A j \in 1 .. Len(winQueue) : winQueue[j].at = winNow - Len(winQueue) + j - 1
            /\ \A i \in 1 .. Len(audio) :
                 audio[i].at = winNow - Len(winQueue) - Len(audio) + i - 1
        BY <1>1, <1>8, <2>4 DEF WinInv, CaptureInOrder, audio
      <3>2. winNow' - Len(winQueue') = winNow - Len(winQueue) + 1
        BY <1>1, <1>2, <1>3, <1>5
      <3>3. ASSUME NEW j \in 1 .. Len(winQueue')
            PROVE  winQueue'[j].at = winNow' - Len(winQueue') + j - 1
        <4>1. winQueue'[j].at = winNow - Len(winQueue) + (j + 1) - 1
          BY <1>5, <3>1
        <4> QED BY <1>2, <1>3, <3>2, <4>1
      <3>4. ASSUME NEW i \in 1 .. Len(longer)
            PROVE  longer[i].at = winNow' - Len(winQueue') - Len(longer) + i - 1
        <4>1. CASE i \in 1 .. Len(audio) /\ longer[i] = audio[i]
          BY <1>2, <1>3, <1>4, <3>1, <3>2, <4>1 DEF longer
        <4>2. CASE i = Len(audio) + 1 /\ longer[i] = winQueue[1]
          <5>1. longer[i].at = winNow - Len(winQueue) + 1 - 1
            BY <1>6, <3>1, <4>2
          <5> QED BY <1>2, <1>3, <1>4, <3>2, <4>2, <5>1
        <4> QED BY <1>7, <4>1, <4>2
      <3> QED BY <3>3, <3>4
    <2>5. Ordered(longer)
      <3>1. ASSUME NEW i \in 1 .. Len(longer), NEW j \in 1 .. Len(longer), i < j
            PROVE  longer[i].at < longer[j].at
        <4>1. i \in 1 .. Len(audio) /\ longer[i] = audio[i]
          BY <1>2, <1>4, <1>7, <3>1
        <4>2. CASE j \in 1 .. Len(audio) /\ longer[j] = audio[j]
          BY <1>9, <3>1, <4>1, <4>2 DEF Ordered
        <4>3. CASE longer[j] = winQueue[1]
          BY <1>6, <1>9, <4>1, <4>3
        <4> QED BY <1>7, <4>2, <4>3
      <3> QED BY <3>1 DEF Ordered
    <2>6. ASSUME NEW i \in 1 .. Len(longer)
          PROVE  OfWindow(longer[i], winLoop') /\ longer[i].at < winNow
      <3>1. CASE i \in 1 .. Len(audio) /\ longer[i] = audio[i]
        BY <1>8, <1>9, <3>1 DEF OfWindow
      <3>2. CASE longer[i] = winQueue[1]
        BY <1>6, <1>8, <1>9, <3>2 DEF OfWindow
      <3> QED BY <1>7, <3>1, <3>2
    <2> QED BY <1>1, <1>8, <2>1, <2>2, <2>3, <2>4, <2>5, <2>6 DEF CaptureInOrder
  <1>14. FtWindowsExact'
    BY <1>1, <1>8 DEF WinInv, FtWindowsExact, WholeWindow, OldModesAbort, WindowsApart
  <1> QED BY <1>10, <1>11, <1>12, <1>13, <1>14 DEF WinInv

\* A capture that is full and in order is one whole window.
LEMMA FullIsWhole ==
    ASSUME WinInv, winLoop.pc = "collect", WinFull,
           UNCHANGED <<winNow, winScan, winQueue, winSaved>>,
           winLoop' = [winLoop EXCEPT !.pc = "process"]
    PROVE  WinInv'
  <1> DEFINE audio == winLoop.audio
  <1>1. /\ WinTyped /\ winNow \in Nat /\ winLoop \in WinLoops
        /\ Len(audio) \in Nat /\ Len(winQueue) \in Nat
        /\ \A i \in 1 .. Len(audio) : audio[i].at \in Nat
    BY WinNumbers DEF WinInv, WinTyped
  <1>2. /\ winLoop' \in WinLoops /\ winLoop'.pc = "process" /\ winLoop'.audio = audio
        /\ winLoop'.boundary = winLoop.boundary /\ winLoop'.band = winLoop.band
        /\ winLoop'.mode = winLoop.mode /\ winLoop'.modes = winLoop.modes
        /\ winLoop'.abort = winLoop.abort /\ winLoop'.moved = winLoop.moved
        /\ winLoop'.missed = winLoop.missed
    BY <1>1 DEF WinLoops, WinPcs
  <1>d. DOMAIN audio = 1 .. Len(audio)
    BY <1>1 DEF WinLoops
  <1> HIDE DEF audio
  <1>3. /\ Ordered(audio)
        /\ \A i \in 1 .. Len(audio) : OfWindow(audio[i], winLoop) /\ audio[i].at < winNow
        /\ ~winLoop.missed => \A i \in 1 .. Len(audio) :
             audio[i].at = winNow - Len(winQueue) - Len(audio) + i - 1
    BY DEF WinInv, CaptureInOrder, audio
  <1>4. WinTyped' /\ QueueOrdered'
    BY <1>1, <1>2 DEF WinInv, WinTyped, QueueOrdered
  <1>5. WindowAhead'
    BY <1>2 DEF WinInv, WindowAhead
  <1>6. CaptureInOrder'
    <2>1. \A i \in 1 .. Len(audio) : OfWindow(audio[i], winLoop')
      BY <1>2, <1>3 DEF OfWindow
    <2> QED BY <1>2, <1>3, <2>1 DEF CaptureInOrder
  <1>7. WholeWindow'
    <2>1. Len(audio) = WinPeriod[winLoop'.mode]
      BY <1>2 DEF WinFull, audio
    <2>2. ASSUME NEW i \in 1 .. Len(audio)
          PROVE  /\ audio[i].at >= winLoop'.boundary
                 /\ i > 1 => audio[i - 1].at < audio[i].at
                 /\ (i > 1 /\ ~winLoop'.missed) => audio[i].at = audio[i - 1].at + 1
                 /\ ~winLoop'.moved => audio[i].band = winLoop'.band
      <3>1. audio[i].at >= winLoop'.boundary /\ (~winLoop'.moved => audio[i].band = winLoop'.band)
        BY <1>2, <1>3 DEF OfWindow
      <3>2. i > 1 => i - 1 \in 1 .. Len(audio) /\ i - 1 < i
        BY <1>1
      <3>3. i > 1 => audio[i - 1].at < audio[i].at
        BY <1>3, <3>2 DEF Ordered
      <3>4. ASSUME i > 1, ~winLoop'.missed PROVE audio[i].at = audio[i - 1].at + 1
        <4>1. /\ audio[i].at = winNow - Len(winQueue) - Len(audio) + i - 1
              /\ audio[i - 1].at = winNow - Len(winQueue) - Len(audio) + (i - 1) - 1
          BY <1>2, <1>3, <3>2, <3>4
        <4> QED BY <1>1, <4>1
      <3> QED BY <3>1, <3>3, <3>4
    <2> QED BY <1>2, <1>d, <2>1, <2>2 DEF WholeWindow, WinFull
  <1>8. FtWindowsExact'
    BY <1>2, <1>7 DEF WinInv, FtWindowsExact, OldModesAbort, WindowsApart
  <1> QED BY <1>4, <1>5, <1>6, <1>8 DEF WinInv

LEMMA WinProcessedKeeps ==
    ASSUME WinInv, WinProcessed PROVE WinInv'
  <1>1. /\ winLoop.pc = "process" /\ UNCHANGED <<winNow, winScan, winQueue, winSaved>>
        /\ \/ winLoop' = WinOver
           \/ winLoop' = [winLoop EXCEPT !.pc = "decode"]
    BY DEF WinProcessed, WinOnly
  <1>2. CASE winLoop' = WinOver
    BY <1>1, <1>2, BackUnsaved
  <1>3. CASE winLoop' = [winLoop EXCEPT !.pc = "decode"]
    <2>1. winLoop \in WinLoops
      BY DEF WinInv, WinTyped
    <2>2. /\ winLoop' \in WinLoops /\ winLoop'.pc = "decode" /\ winLoop'.audio = winLoop.audio
          /\ winLoop'.boundary = winLoop.boundary /\ winLoop'.band = winLoop.band
          /\ winLoop'.mode = winLoop.mode /\ winLoop'.modes = winLoop.modes
          /\ winLoop'.abort = winLoop.abort /\ winLoop'.moved = winLoop.moved
          /\ winLoop'.missed = winLoop.missed
      BY <1>3, <2>1 DEF WinLoops, WinPcs
    <2>3. WinTyped' /\ QueueOrdered'
      BY <1>1, <2>2 DEF WinInv, WinTyped, QueueOrdered
    <2>4. WindowAhead'
      BY <1>1, <2>2 DEF WinInv, WindowAhead
    <2>5. CaptureInOrder'
      BY <1>1, <2>2 DEF WinInv, CaptureInOrder, OfWindow
    <2>6. FtWindowsExact'
      BY <1>1, <2>2
      DEF WinInv, FtWindowsExact, WholeWindow, WinFull, OldModesAbort, WindowsApart
    <2> QED BY <2>3, <2>4, <2>5, <2>6 DEF WinInv
  <1> QED BY <1>1, <1>2, <1>3

\* The window that is saved begins where it was waited for, after all that was saved.
LEMMA WinDecodedKeeps ==
    ASSUME WinInv, WinDecoded PROVE WinInv'
  <1> DEFINE audio == winLoop.audio
             window == [from |-> audio[1].at, to |-> audio[Len(audio)].at]
  <1>1. /\ winLoop.pc = "decode" /\ winLoop' = WinOver
        /\ UNCHANGED <<winNow, winScan, winQueue>>
        /\ winSaved' \in {winSaved, winSaved \cup {window}}
    BY DEF WinDecoded, WinOnly, Ingested
  <1>2. /\ winLoop.mode \in WinModes /\ WinPeriod[winLoop.mode] \in Nat \ {0}
        /\ Len(audio) \in Nat /\ winNow \in Nat /\ winLoop.boundary \in Nat
        /\ \A i \in 1 .. Len(audio) : audio[i].at \in Nat
        /\ \A w \in winSaved : w.from \in Nat /\ w.to \in Nat
        /\ winSaved \subseteq [from : Nat, to : Nat]
    BY WinNumbers DEF WinInv, WinTyped
  <1>3. Len(audio) = WinPeriod[winLoop.mode]
    BY <1>1 DEF WinInv, FtWindowsExact, WholeWindow, WinFull
  <1>4. 1 \in 1 .. Len(audio) /\ Len(audio) \in 1 .. Len(audio)
    BY <1>2, <1>3
  <1>5. /\ audio[1].at \in Nat /\ audio[Len(audio)].at \in Nat
        /\ audio[1].at >= winLoop.boundary /\ audio[Len(audio)].at < winNow
    BY <1>1, <1>2, <1>4 DEF WinInv, CaptureInOrder, OfWindow
  <1>6. audio[1].at <= audio[Len(audio)].at
    <2>1. CASE Len(audio) = 1
      BY <1>5, <2>1
    <2>2. CASE 1 < Len(audio)
      <3>1. audio[1].at < audio[Len(audio)].at
        BY <1>1, <1>4, <2>2 DEF WinInv, CaptureInOrder, Ordered
      <3> QED BY <1>5, <3>1
    <2> QED BY <1>2, <1>4, <2>1, <2>2
  <1>7. /\ window \in [from : Nat, to : Nat] /\ window.from = audio[1].at
        /\ window.to = audio[Len(audio)].at
    BY <1>5
  <1> HIDE DEF window, audio
  <1>8. \A w \in winSaved : /\ w.from <= w.to /\ w.to < winNow
                           /\ w.to < winLoop.boundary
    BY <1>1 DEF WinInv, WindowAhead
  <1>9. winSaved' \subseteq [from : Nat, to : Nat]
    BY <1>1, <1>2, <1>7
  <1>10. \A w \in winSaved' : w.from <= w.to /\ w.to < winNow
    BY <1>1, <1>5, <1>6, <1>7, <1>8
  <1>11. \A w \in winSaved : w.to < window.from
    <2> SUFFICES ASSUME NEW w \in winSaved PROVE w.to < window.from
      OBVIOUS
    <2>1. w.to \in Nat /\ w.to < winLoop.boundary
      BY <1>2, <1>8
    <2> QED BY <1>2, <1>5, <1>7, <2>1
  <1>12. WindowsApart'
    <2>1. WindowsApart
      BY DEF WinInv, FtWindowsExact
    <2> QED BY <1>1, <1>11, <2>1 DEF WindowsApart
  <1> QED BY <1>1, <1>9, <1>10, <1>12, BackAtTop

\* The user leaves the capture alone: he changes the modes, or moves the radio, and
\* then the window knows.
LEMMA UserKeeps ==
    ASSUME WinInv, UNCHANGED <<winNow, winQueue, winSaved>>,
           winScan' \in WinScans, winLoop' \in WinLoops,
           winLoop'.pc = winLoop.pc, winLoop'.audio = winLoop.audio,
           winLoop'.mode = winLoop.mode, winLoop'.band = winLoop.band,
           winLoop'.boundary = winLoop.boundary, winLoop'.missed = winLoop.missed,
           winLoop.moved => winLoop'.moved,
           winLoop.pc \in {"settle", "collect"} /\ ~winLoop'.moved =>
             winScan'.band = winScan.band,
           OldModesAbort'
    PROVE  WinInv'
  <1>1. WinTyped' /\ QueueOrdered'
    BY DEF WinInv, WinTyped, QueueOrdered
  <1>2. WindowAhead'
    BY DEF WinInv, WindowAhead
  <1>3. CaptureInOrder'
    BY DEF WinInv, CaptureInOrder, OfWindow
  <1>4. FtWindowsExact'
    BY DEF WinInv, FtWindowsExact, WholeWindow, WinFull, WindowsApart
  <1> QED BY <1>1, <1>2, <1>3, <1>4 DEF WinInv

LEMMA NewModesKeep ==
    ASSUME WinInv, UNCHANGED <<winNow, winQueue, winSaved>>, NEW l \in WinModeLists,
           winLoop' = [winLoop EXCEPT !.modes = l, !.abort = @ \/ Changed(winLoop.modes, l)],
           winScan' \in WinScans, winScan'.band = winScan.band
    PROVE  WinInv'
  <1> DEFINE aborted == winLoop.abort \/ Changed(winLoop.modes, l)
  <1>1. winLoop \in WinLoops /\ aborted \in BOOLEAN
    BY DEF WinInv, WinTyped
  <1>2. aborted <=> winLoop.abort \/ Range(winLoop.modes) # Range(l)
    BY DEF Changed
  <1> HIDE DEF aborted
  <1>3. winLoop' = [winLoop EXCEPT !.modes = l, !.abort = aborted]
    BY DEF aborted
  <1>4. /\ winLoop' \in WinLoops /\ winLoop'.pc = winLoop.pc /\ winLoop'.audio = winLoop.audio
        /\ winLoop'.mode = winLoop.mode /\ winLoop'.band = winLoop.band
        /\ winLoop'.boundary = winLoop.boundary /\ winLoop'.missed = winLoop.missed
        /\ winLoop'.moved = winLoop.moved
        /\ winLoop'.modes = l /\ winLoop'.abort = aborted
    BY <1>1, <1>3 DEF WinLoops
  <1>5. OldModesAbort'
    BY <1>2, <1>4 DEF WinInv, FtWindowsExact, OldModesAbort
  <1> QED BY <1>4, <1>5, UserKeeps

LEMMA WinScanMovesKeeps ==
    ASSUME WinInv, WinScanMoves PROVE WinInv'
  <1> DEFINE moved == winLoop.moved \/ winLoop.pc \in {"settle", "collect"}
  <1>1. /\ winLoop' = [winLoop EXCEPT !.moved = moved]
        /\ UNCHANGED <<winNow, winQueue, winSaved>>
        /\ \/ winScan' = [winScan EXCEPT !.run = ~@]
           \/ \E b \in WinBands : winScan' = [winScan EXCEPT !.run = TRUE, !.band = b]
    BY DEF WinScanMoves, WinAsk
  <1>2. winLoop \in WinLoops /\ winScan \in WinScans /\ moved \in BOOLEAN
    BY DEF WinInv, WinTyped
  <1>3. winScan' \in WinScans
    <2> DEFINE turned == ~winScan.run
    <2>1. turned \in BOOLEAN
      BY <1>2 DEF WinScans
    <2>2. winScan' = [winScan EXCEPT !.run = turned]
          \/ \E b \in WinBands : winScan' = [winScan EXCEPT !.run = TRUE, !.band = b]
      BY <1>1
    <2> HIDE DEF turned
    <2> QED BY <1>2, <2>1, <2>2 DEF WinScans
  <1>4. moved <=> winLoop.moved \/ winLoop.pc \in {"settle", "collect"}
    OBVIOUS
  <1> HIDE DEF moved
  <1>5. /\ winLoop' \in WinLoops /\ winLoop'.pc = winLoop.pc /\ winLoop'.audio = winLoop.audio
        /\ winLoop'.mode = winLoop.mode /\ winLoop'.band = winLoop.band
        /\ winLoop'.boundary = winLoop.boundary /\ winLoop'.missed = winLoop.missed
        /\ winLoop'.moved = moved
        /\ winLoop'.modes = winLoop.modes /\ winLoop'.abort = winLoop.abort
    BY <1>1, <1>2 DEF WinLoops
  <1>6. OldModesAbort'
    BY <1>5 DEF WinInv, FtWindowsExact, OldModesAbort
  <1> QED BY <1>1, <1>3, <1>4, <1>5, <1>6, UserKeeps

LEMMA WinInvStep == WinInv /\ [WinNext]_winVars => WinInv'
  <1> SUFFICES ASSUME WinInv, [WinNext]_winVars PROVE WinInv'
    OBVIOUS
  <1>1. CASE WinTick
    BY <1>1, WinTickKeeps
  <1>2. CASE WinPicks
    BY <1>2, WinPicksKeeps
  <1>3. CASE WinGivesUp
    BY <1>3, BackUnsaved DEF WinGivesUp, WinOnly
  <1>4. CASE WinAligned
    BY <1>4, WinAlignedKeeps
  <1>5. CASE WinOpens
    BY <1>5, WinOpensKeeps
  <1>6. CASE WinReads
    BY <1>6, WinReadsKeeps
  <1>7. CASE WinCaptured
    <2>1. /\ winLoop.pc = "collect" /\ UNCHANGED <<winNow, winScan, winQueue, winSaved>>
          /\ \/ winLoop' = WinOver
             \/ WinFull /\ winLoop' = [winLoop EXCEPT !.pc = "process"]
      BY <1>7 DEF WinCaptured, WinOnly
    <2> QED BY <2>1, BackUnsaved, FullIsWhole
  <1>8. CASE WinProcessed
    BY <1>8, WinProcessedKeeps
  <1>9. CASE WinDecoded
    BY <1>9, WinDecodedKeeps
  <1>10. CASE WinModesSet
    <2>1. PICK l \in WinModeLists :
            winLoop' = [winLoop EXCEPT !.modes = l, !.abort = @ \/ Changed(winLoop.modes, l)]
      BY <1>10 DEF WinModesSet
    <2>2. UNCHANGED <<winNow, winQueue, winSaved, winScan>> /\ winScan \in WinScans
      BY <1>10 DEF WinModesSet, WinAsk, WinInv, WinTyped
    <2> QED BY <2>1, <2>2, NewModesKeep
  <1>11. CASE WinSelects
    <2>1. PICK m \in WinModes :
            /\ <<m>> \in WinModeLists
            /\ winScan' = [winScan EXCEPT !.mode = m]
            /\ winLoop' = [winLoop EXCEPT !.modes = <<m>>,
                             !.abort = @ \/ Changed(winLoop.modes, <<m>>)]
      BY <1>11 DEF WinSelects
    <2>2. UNCHANGED <<winNow, winQueue, winSaved>> /\ winScan \in WinScans
      BY <1>11 DEF WinSelects, WinAsk, WinInv, WinTyped
    <2>3. winScan' \in WinScans /\ winScan'.band = winScan.band
      BY <2>1, <2>2 DEF WinScans
    <2> QED BY <2>1, <2>2, <2>3, NewModesKeep
  <1>12. CASE WinScanMoves
    BY <1>12, WinScanMovesKeeps
  <1>13. CASE UNCHANGED winVars
    BY <1>13
    DEF winVars, WinInv, WinTyped, QueueOrdered, WindowAhead, CaptureInOrder, FtWindowsExact,
        WholeWindow, WinFull, OldModesAbort, WindowsApart
  <1> QED BY <1>1, <1>2, <1>3, <1>4, <1>5, <1>6, <1>7, <1>8, <1>9, <1>10, <1>11, <1>12, <1>13
          DEF WinNext, WinStep

\* The FT program is given whole windows of a mode that is still wanted, each of one
\* band and without a gap, and no two events are of the same samples (ExternalFtDecoder._run).
THEOREM WindowsAreWhole == WinSpec => []FtWindowsExact
  <1>1. WinInv => FtWindowsExact
    BY DEF WinInv
  <1> QED BY WinInvInit, WinInvStep, <1>1, PTL DEF WinSpec

-----------------------------------------------------------------------------
(***************************************************************************)
(* The bounds the types state: how often the sweep holds, how old an entry *)
(* may be said to be, how much audio waits.                                *)
(***************************************************************************)
KnownCands == [hits : 0 .. Hits, seen : 0 .. Ttl + 1, held : 0 .. Cooldown]
KnownReports == [count : 0 .. Hits, ago : 0 .. Ttl + 1]
VoiceStored == [by : Emitters, freq : VoiceFreqs, ago : Nat, wait : Nat] \cup {NoVoiceEvent}

LEMMA VoiceTypeOf ==
    ASSUME voice' \in [on : BOOLEAN, mode : {"", "ssb", "cw", "ft8"}, focus : BOOLEAN],
           sweep' \in [at : 1 .. Len(SweepCentres), holds : 0 .. MaxHolds, holding : BOOLEAN],
           cand' \in [HoldBuckets -> KnownCands], heard' \in [HoldBuckets -> KnownReports],
           valid' \in [HoldBuckets -> 0 .. ValidAge + 1],
           shown' \in [HoldBuckets -> 0 .. ValidAge + 1], chunk' \in BOOLEAN,
           claims' \in [Emitters -> [EmitKeys -> Nat]],
           spoke' \in [Emitters -> [EmitKeys -> Nat]], voiceEvent' \in VoiceStored
    PROVE  VoiceTypeOK'
  BY DEF VoiceTypeOK, KnownCands, KnownReports, VoiceStored

LEMMA VoiceTypeGives ==
    ASSUME VoiceTypeOK
    PROVE  /\ voice \in [on : BOOLEAN, mode : {"", "ssb", "cw", "ft8"}, focus : BOOLEAN]
           /\ sweep \in [at : 1 .. Len(SweepCentres), holds : 0 .. MaxHolds, holding : BOOLEAN]
           /\ cand \in [HoldBuckets -> KnownCands] /\ heard \in [HoldBuckets -> KnownReports]
           /\ valid \in [HoldBuckets -> 0 .. ValidAge + 1]
           /\ shown \in [HoldBuckets -> 0 .. ValidAge + 1] /\ chunk \in BOOLEAN
           /\ claims \in [Emitters -> [EmitKeys -> Nat]]
           /\ spoke \in [Emitters -> [EmitKeys -> Nat]] /\ voiceEvent \in VoiceStored
  BY DEF VoiceTypeOK, KnownCands, KnownReports, VoiceStored

LEMMA OlderUpTo ==
    ASSUME NEW limit \in Nat, NEW age \in 0 .. limit
    PROVE  Older(age, limit) \in 0 .. limit
  BY DEF Older

LEMMA ElementOf ==
    ASSUME NEW S, NEW q \in Seq(S), NEW i \in 1 .. Len(q)
    PROVE  q[i] \in S
  OBVIOUS

LEMMA FreshIsKnown ==
    /\ Absent \in KnownCands /\ [count |-> 0, ago |-> Ttl + 1] \in KnownReports
    /\ [hits |-> 1, seen |-> 0, held |-> Cooldown] \in KnownCands
    /\ ValidAge + 1 \in 0 .. ValidAge + 1 /\ 0 \in 0 .. ValidAge + 1
    /\ 0 \in 0 .. MaxHolds /\ 1 \in 1 .. Len(SweepCentres)
    /\ NoVoiceEvent \in VoiceStored
  BY VoiceNumbers DEF Absent, KnownCands, KnownReports, VoiceStored

LEMMA VoiceTickTypes == VoiceTypeOK /\ VoiceTick => VoiceTypeOK'
  <1> SUFFICES ASSUME VoiceTypeOK, VoiceTick PROVE VoiceTypeOK'
    OBVIOUS
  <1>1. /\ voice' = voice /\ sweep' = sweep /\ chunk' = chunk /\ voiceEvent' = NoVoiceEvent
        /\ cand' = [b \in HoldBuckets |-> Aged(cand[b])]
        /\ valid' = [b \in HoldBuckets |-> Older(valid[b], ValidAge + 1)]
        /\ shown' = [b \in HoldBuckets |-> Older(shown[b], ValidAge + 1)]
        /\ claims' = [e \in Emitters |-> [k \in EmitKeys |-> Older(claims[e][k], EmitGap[e])]]
        /\ spoke' = [e \in Emitters |-> [k \in EmitKeys |-> Older(spoke[e][k], EmitGap[e])]]
        /\ heard' = [b \in HoldBuckets |->
                       IF heard[b].ago >= Ttl THEN [count |-> 0, ago |-> Ttl + 1]
                       ELSE [heard[b] EXCEPT !.ago = @ + 1]]
    BY DEF VoiceTick
  <1>2. ASSUME NEW b \in HoldBuckets PROVE Aged(cand[b]) \in KnownCands
    <2>0. cand \in [HoldBuckets -> KnownCands]
      BY VoiceTypeGives
    <2>1. cand[b] \in KnownCands
      BY <2>0
    <2>2. CASE cand[b].seen >= Ttl
      BY <2>2, FreshIsKnown DEF Aged
    <2>3. CASE ~(cand[b].seen >= Ttl)
      <3>0. /\ cand[b].seen \in 0 .. Ttl + 1 /\ cand[b].held \in 0 .. Cooldown
            /\ Ttl \in Nat /\ Cooldown \in Nat
        BY <2>1, VoiceAssumption DEF KnownCands
      <3>1. cand[b].seen + 1 \in 0 .. Ttl + 1 /\ Older(cand[b].held, Cooldown) \in 0 .. Cooldown
        <4>1. cand[b].seen + 1 \in 0 .. Ttl + 1
          BY <2>3, <3>0
        <4>2. Older(cand[b].held, Cooldown) \in 0 .. Cooldown
          BY <3>0, OlderUpTo
        <4> QED BY <4>1, <4>2
      <3>2. Aged(cand[b]) = [cand[b] EXCEPT !.seen = @ + 1, !.held = Older(@, Cooldown)]
        BY <2>3 DEF Aged
      <3> QED BY <2>1, <3>1, <3>2 DEF KnownCands
    <2> QED BY <2>2, <2>3
  <1>3. ASSUME NEW b \in HoldBuckets
        PROVE  (IF heard[b].ago >= Ttl THEN [count |-> 0, ago |-> Ttl + 1]
                ELSE [heard[b] EXCEPT !.ago = @ + 1]) \in KnownReports
    <2>0. heard \in [HoldBuckets -> KnownReports]
      BY VoiceTypeGives
    <2>1. heard[b] \in KnownReports
      BY <2>0
    <2>2. CASE ~(heard[b].ago >= Ttl)
      <3>1. heard[b].ago + 1 \in 0 .. Ttl + 1
        BY <2>1, <2>2, VoiceNumbers DEF KnownReports
      <3> QED BY <2>1, <2>2, <3>1 DEF KnownReports
    <2> QED BY <2>2, FreshIsKnown
  <1>4. ASSUME NEW b \in HoldBuckets
        PROVE  /\ Older(valid[b], ValidAge + 1) \in 0 .. ValidAge + 1
               /\ Older(shown[b], ValidAge + 1) \in 0 .. ValidAge + 1
    <2>0. /\ valid \in [HoldBuckets -> 0 .. ValidAge + 1]
          /\ shown \in [HoldBuckets -> 0 .. ValidAge + 1]
      BY VoiceTypeGives
    <2>1. valid[b] \in 0 .. ValidAge + 1 /\ shown[b] \in 0 .. ValidAge + 1 /\ ValidAge + 1 \in Nat
      BY <2>0, VoiceNumbers
    <2> QED BY <2>1, OlderUpTo
  <1>5. ASSUME NEW e \in Emitters, NEW k \in EmitKeys
        PROVE  Older(claims[e][k], EmitGap[e]) \in Nat /\ Older(spoke[e][k], EmitGap[e]) \in Nat
    <2>0. /\ claims \in [Emitters -> [EmitKeys -> Nat]] /\ spoke \in [Emitters -> [EmitKeys -> Nat]]
      BY VoiceTypeGives
    <2>1. claims[e][k] \in Nat /\ spoke[e][k] \in Nat /\ EmitGap[e] \in Nat
      BY <2>0, VoiceNumbers
    <2> QED BY <2>1, OlderIs
  <1>6. cand' \in [HoldBuckets -> KnownCands] /\ heard' \in [HoldBuckets -> KnownReports]
    BY <1>1, <1>2, <1>3
  <1>7. /\ valid' \in [HoldBuckets -> 0 .. ValidAge + 1]
        /\ shown' \in [HoldBuckets -> 0 .. ValidAge + 1]
    BY <1>1, <1>4
  <1>8. claims' \in [Emitters -> [EmitKeys -> Nat]] /\ spoke' \in [Emitters -> [EmitKeys -> Nat]]
    BY <1>1, <1>5
  <1> QED BY <1>1, <1>6, <1>7, <1>8, VoiceTypeGives, FreshIsKnown, VoiceTypeOf

LEMMA AdvancedKnown ==
    ASSUME NEW s \in [at : 1 .. Len(SweepCentres), holds : 0 .. MaxHolds, holding : BOOLEAN]
    PROVE  Advanced(s) \in [at : 1 .. Len(SweepCentres), holds : 0 .. MaxHolds, holding : BOOLEAN]
  <1>1. CASE s.at < Len(SweepCentres)
    <2>1. s.at + 1 \in 1 .. Len(SweepCentres)
      BY <1>1, VoiceNumbers
    <2> QED BY <1>1, <2>1 DEF Advanced
  <1>2. CASE ~(s.at < Len(SweepCentres))
    BY <1>2, FreshIsKnown DEF Advanced
  <1> QED BY <1>1, <1>2

LEMMA SweepDweltTypes == VoiceTypeOK /\ SweepDwelt => VoiceTypeOK'
  <1> SUFFICES ASSUME VoiceTypeOK, SweepDwelt PROVE VoiceTypeOK'
    OBVIOUS
  <1> DEFINE b == HoldBucket(SweepCentres[sweep.at])
  <1>1. /\ voiceEvent' = NoVoiceEvent /\ UNCHANGED <<voice, chunk, claims, spoke>>
        /\ \/ /\ HoldsOn(b)
              /\ sweep' = [sweep EXCEPT !.holding = TRUE, !.holds = @ + 1]
              /\ cand' = [cand EXCEPT ![b].hits = 0, ![b].held = 0]
              /\ valid' = [valid EXCEPT ![b] = 0]
              /\ shown' \in {[shown EXCEPT ![b] = 0], shown}
              /\ heard' = [heard EXCEPT ![b].count = 0]
           \/ sweep' = Advanced(sweep) /\ UNCHANGED <<cand, valid, shown, heard>>
    BY DEF SweepDwelt
  <1>b. b \in HoldBuckets
    BY VoiceTypeGives, BucketsKnown
  <1> HIDE DEF b
  <1>2. CASE UNCHANGED <<cand, valid, shown, heard>> /\ sweep' = Advanced(sweep)
    BY <1>1, <1>2, VoiceTypeGives, FreshIsKnown, AdvancedKnown, VoiceTypeOf
  <1>3. CASE /\ HoldsOn(b)
             /\ sweep' = [sweep EXCEPT !.holding = TRUE, !.holds = @ + 1]
             /\ cand' = [cand EXCEPT ![b].hits = 0, ![b].held = 0]
             /\ valid' = [valid EXCEPT ![b] = 0]
             /\ shown' \in {[shown EXCEPT ![b] = 0], shown}
             /\ heard' = [heard EXCEPT ![b].count = 0]
    <2>1. sweep' \in [at : 1 .. Len(SweepCentres), holds : 0 .. MaxHolds, holding : BOOLEAN]
      <3>0. sweep \in [at : 1 .. Len(SweepCentres), holds : 0 .. MaxHolds, holding : BOOLEAN]
        BY VoiceTypeGives
      <3>1. sweep.holds \in 0 .. MaxHolds /\ sweep.holds < MaxHolds /\ MaxHolds \in Nat
        BY <1>3, <3>0, VoiceNumbers DEF HoldsOn
      <3>2. sweep.holds + 1 \in 0 .. MaxHolds
        BY <3>1
      <3>3. sweep' = [sweep EXCEPT !.holding = TRUE, !.holds = @ + 1]
        BY <1>3
      <3> QED BY <3>0, <3>2, <3>3
    <2>2. cand' \in [HoldBuckets -> KnownCands]
      <3>0. cand \in [HoldBuckets -> KnownCands]
        BY VoiceTypeGives
      <3>1. cand[b] \in KnownCands /\ 0 \in 0 .. Hits /\ 0 \in 0 .. Cooldown
        BY <1>b, <3>0, VoiceNumbers
      <3>2. [cand[b] EXCEPT !.hits = 0, !.held = 0] \in KnownCands
        BY <3>1 DEF KnownCands
      <3>3. cand' = [cand EXCEPT ![b] = [cand[b] EXCEPT !.hits = 0, !.held = 0]]
        BY <1>3, <1>b, <3>0
      <3> QED BY <1>b, <3>0, <3>2, <3>3
    <2>3. heard' \in [HoldBuckets -> KnownReports]
      <3>0. heard \in [HoldBuckets -> KnownReports]
        BY VoiceTypeGives
      <3>1. heard[b] \in KnownReports /\ 0 \in 0 .. Hits
        BY <1>b, <3>0, VoiceNumbers
      <3>2. [heard[b] EXCEPT !.count = 0] \in KnownReports
        BY <3>1 DEF KnownReports
      <3> QED BY <1>3, <1>b, <3>0, <3>2
    <2>4. /\ valid' \in [HoldBuckets -> 0 .. ValidAge + 1]
          /\ shown' \in [HoldBuckets -> 0 .. ValidAge + 1]
      BY <1>3, VoiceTypeGives, FreshIsKnown
    <2> QED BY <1>1, <2>1, <2>2, <2>3, <2>4, VoiceTypeGives, FreshIsKnown, VoiceTypeOf
  <1> QED BY <1>1, <1>2, <1>3

LEMMA ReportTypes ==
    ASSUME VoiceTypeOK, NEW f \in VoiceFreqs, Report(HoldBucket(f))
    PROVE  cand' \in [HoldBuckets -> KnownCands] /\ heard' \in [HoldBuckets -> KnownReports]
  <1> DEFINE b == HoldBucket(f)
  <1>1. b \in HoldBuckets
    BY BucketsKnown
  <1>0. cand \in [HoldBuckets -> KnownCands] /\ heard \in [HoldBuckets -> KnownReports]
    BY VoiceTypeGives
  <1>2. cand[b] \in KnownCands /\ heard[b] \in KnownReports
    BY <1>0, <1>1
  <1> HIDE DEF b
  <1>3. Older(cand[b].hits, Hits) \in 0 .. Hits /\ Older(heard[b].count, Hits) \in 0 .. Hits
    BY <1>2, OlderUpTo, VoiceNumbers DEF KnownCands, KnownReports
  <1>4. 0 \in 0 .. Ttl + 1
    BY VoiceNumbers
  <1>5. /\ [cand[b] EXCEPT !.hits = Older(@, Hits), !.seen = 0] \in KnownCands
        /\ [count |-> Older(heard[b].count, Hits), ago |-> 0] \in KnownReports
    BY <1>2, <1>3, <1>4 DEF KnownCands, KnownReports
  <1>6. /\ cand' \in {cand, [cand EXCEPT ![b] = [hits |-> 1, seen |-> 0, held |-> Cooldown]],
                      [cand EXCEPT ![b] = [cand[b] EXCEPT !.hits = Older(@, Hits), !.seen = 0]]}
        /\ heard' \in {heard, [heard EXCEPT ![b] = [count |-> Older(heard[b].count, Hits), ago |-> 0]]}
    BY <1>0, <1>1 DEF Report, b
  <1> QED BY <1>0, <1>1, <1>5, <1>6, FreshIsKnown

\* what an emitter does to the claims and the event
SpeechTyped ==
    /\ claims' \in [Emitters -> [EmitKeys -> Nat]] /\ spoke' \in [Emitters -> [EmitKeys -> Nat]]
    /\ voiceEvent' \in VoiceStored

LEMMA SpeakingTypes ==
    ASSUME VoiceTypeOK, NEW e \in Emitters, NEW f \in VoiceFreqs, NEW wait \in Nat,
           \/ Silent \/ Speaks(e, f, wait)
           \/ /\ claims' = [claims EXCEPT ![e][EmitKey(e, f)] = 0]
              /\ voiceEvent' = NoVoiceEvent /\ spoke' = spoke
    PROVE  SpeechTyped
  <1> DEFINE k == EmitKey(e, f)
  <1>1. k \in EmitKeys
    BY DEF EmitKeys
  <1>0. /\ claims \in [Emitters -> [EmitKeys -> Nat]] /\ spoke \in [Emitters -> [EmitKeys -> Nat]]
    BY VoiceTypeGives
  <1>2. /\ claims[e] \in [EmitKeys -> Nat] /\ spoke[e] \in [EmitKeys -> Nat] /\ spoke[e][k] \in Nat
    BY <1>0, <1>1
  <1>3. /\ [claims[e] EXCEPT ![k] = 0] \in [EmitKeys -> Nat]
        /\ [spoke[e] EXCEPT ![k] = 0] \in [EmitKeys -> Nat]
    BY <1>2
  <1>4. [by |-> e, freq |-> f, wait |-> wait, ago |-> spoke[e][k]] \in VoiceStored
    BY <1>2 DEF VoiceStored
  <1>5. /\ claims' \in {claims, [claims EXCEPT ![e] = [claims[e] EXCEPT ![k] = 0]]}
        /\ spoke' \in {spoke, [spoke EXCEPT ![e] = [spoke[e] EXCEPT ![k] = 0]]}
        /\ voiceEvent' \in {NoVoiceEvent, [by |-> e, freq |-> f, wait |-> wait, ago |-> spoke[e][k]]}
    BY <1>0, <1>1 DEF Silent, Speaks
  <1> HIDE DEF k
  <1>6. /\ claims' \in [Emitters -> [EmitKeys -> Nat]]
        /\ spoke' \in [Emitters -> [EmitKeys -> Nat]]
    BY <1>0, <1>3, <1>5
  <1> QED BY <1>4, <1>5, <1>6, FreshIsKnown DEF SpeechTyped

LEMMA HearingTypes ==
    ASSUME VoiceTypeOK, NEW f \in VoiceFreqs,
           \/ \E strength \in {"weak", "fair", "strong"} : OccupancyHearsVoice(f, strength)
           \/ OccupancyHears(f)
           \/ \E enough \in BOOLEAN : SsbHears(f, enough)
    PROVE  VoiceTypeOK'
  <1>w. \A e \in Emitters \cup {"digital"} : EmitGap[e] \in Nat
    BY VoiceNumbers
  <1>e. {"ws", "asr", "raw"} \subseteq Emitters
    BY DEF Emitters
  <1>1. ASSUME NEW strength \in {"weak", "fair", "strong"}, OccupancyHearsVoice(f, strength)
        PROVE  VoiceTypeOK'
    <2>1. Report(HoldBucket(f)) /\ UNCHANGED <<voice, sweep, valid, chunk, shown>>
      BY <1>1 DEF OccupancyHearsVoice
    <2>2. SpeechTyped
      BY <1>1, <1>w, <1>e, SpeakingTypes DEF OccupancyHearsVoice, VoiceEmit
    <2> QED BY <2>1, <2>2, ReportTypes, VoiceTypeGives, VoiceTypeOf DEF SpeechTyped
  <1>2. ASSUME OccupancyHears(f) PROVE VoiceTypeOK'
    <2>1. UNCHANGED <<voice, sweep, cand, valid, chunk, heard, shown>>
      BY <1>2 DEF OccupancyHears
    <2>2. PICK wait \in Nat : Silent \/ Speaks("raw", f, wait)
      BY <1>2, <1>w, <1>e DEF OccupancyHears
    <2>3. SpeechTyped
      BY <1>e, <2>2, SpeakingTypes
    <2> QED BY <2>1, <2>3, VoiceTypeGives, VoiceTypeOf DEF SpeechTyped
  <1>3. ASSUME NEW enough \in BOOLEAN, SsbHears(f, enough) PROVE VoiceTypeOK'
    <2>1. Report(HoldBucket(f)) /\ chunk' = FALSE /\ UNCHANGED <<voice, sweep, valid, shown>>
      BY <1>3 DEF SsbHears
    <2>2. SpeechTyped
      BY <1>3, <1>w, <1>e, SpeakingTypes DEF SsbHears, VoiceEmit
    <2> QED BY <2>1, <2>2, ReportTypes, VoiceTypeGives, VoiceTypeOf DEF SpeechTyped
  <1> QED BY <1>1, <1>2, <1>3

LEMMA VoiceTypeStep == VoiceTypeOK /\ [VoiceNext]_voiceVars => VoiceTypeOK'
  <1> SUFFICES ASSUME VoiceTypeOK, [VoiceNext]_voiceVars PROVE VoiceTypeOK'
    OBVIOUS
  <1>1. CASE VoiceStarts \/ VoiceRetunes
    <2>1. /\ voiceEvent' = NoVoiceEvent /\ UNCHANGED <<chunk, claims, spoke>>
          /\ \E focus \in BOOLEAN : voice' = [voice EXCEPT !.on = TRUE, !.focus = focus]
          /\ sweep' = [at |-> 1, holds |-> 0, holding |-> FALSE]
          /\ cand' = [b \in HoldBuckets |-> Absent]
          /\ valid' = [b \in HoldBuckets |-> ValidAge + 1]
          /\ heard' = [b \in HoldBuckets |-> [count |-> 0, ago |-> Ttl + 1]]
          /\ shown' = [b \in HoldBuckets |-> ValidAge + 1]
      BY <1>1 DEF VoiceStarts, VoiceRetunes, FocusReset, Dropped
    <2> QED BY <2>1, VoiceTypeGives, FreshIsKnown, VoiceTypeOf
  <1>2. CASE ModeSet \/ VoiceStops \/ SsbTakes \/ SsbHearsNothing
    <2>1. /\ UNCHANGED <<sweep, cand, valid, claims, heard, shown, spoke>>
          /\ voiceEvent' = NoVoiceEvent /\ chunk' \in BOOLEAN
          /\ voice' \in [on : BOOLEAN, mode : {"", "ssb", "cw", "ft8"}, focus : BOOLEAN]
      BY <1>2, VoiceTypeGives DEF ModeSet, VoiceStops, SsbTakes, SsbHearsNothing, Silent
    <2> QED BY <2>1, VoiceTypeGives, FreshIsKnown, VoiceTypeOf
  <1>3. CASE SweepHeld
    BY <1>3, VoiceTypeGives, FreshIsKnown, AdvancedKnown, VoiceTypeOf DEF SweepHeld
  <1>4. CASE UNCHANGED voiceVars
    BY <1>4, VoiceTypeGives, VoiceTypeOf DEF voiceVars
  <1> QED BY <1>1, <1>2, <1>3, <1>4, VoiceTickTypes, SweepDweltTypes, HearingTypes DEF VoiceNext

LEMMA VoiceTypes == VoiceSpec => []VoiceTypeOK
  <1>1. VoiceInit => VoiceTypeOK
    <2> SUFFICES ASSUME VoiceInit PROVE VoiceTypeOK
      OBVIOUS
    <2>1. \A e \in Emitters : EmitGap[e] \in Nat
      BY VoiceNumbers
    <2> QED BY <2>1, FreshIsKnown DEF VoiceInit, VoiceTypeOK, KnownCands, KnownReports, VoiceStored
  <1> QED BY <1>1, VoiceTypeStep, PTL DEF VoiceSpec

-----------------------------------------------------------------------------
LEMMA AsrTypeStep == AsrInv /\ AsrTypeOK /\ [AsrNext]_asrVars => AsrTypeOK'
  <1> SUFFICES ASSUME AsrInv, AsrTypeOK, [AsrNext]_asrVars PROVE AsrTypeOK'
    OBVIOUS
  <1>n. /\ MinAudio \in Nat \ {0} /\ MaxAudio \in Nat /\ AsrInterval \in Nat \ {0}
        /\ LastAudio \in Nat /\ MaxThreads \in Nat
    BY AsrAssumption
  <1>t. /\ asrNow \in 0 .. LastAudio /\ asrOn \in BOOLEAN
        /\ asrBuf \in [Buckets -> Seq(1 .. LastAudio)]
        /\ asrWait \in [Buckets -> 0 .. AsrInterval]
        /\ asrQueued \in [Buckets -> 0 .. MaxThreads]
        /\ asrTaken \subseteq Buckets \X Seq(1 .. LastAudio)
        /\ asrText \in [Buckets -> 0 .. LastAudio]
        /\ \A b \in Buckets : Len(asrBuf[b]) <= MaxAudio
    BY DEF AsrTypeOK
  <1>1. ASSUME NEW b \in Buckets, AsrHears(b) PROVE AsrTypeOK'
    <2> DEFINE asks == asrOn /\ Ripe(b, Fed(b))
    <2>1. /\ asrNow < LastAudio /\ asrNow' = asrNow + 1 /\ UNCHANGED <<asrOn, asrTaken, asrText>>
          /\ asks => asrQueued[b] < MaxThreads
          /\ asrBuf' = IF asrOn THEN [asrBuf EXCEPT ![b] = Fed(b)] ELSE asrBuf
          /\ asrQueued' = IF asks THEN [asrQueued EXCEPT ![b] = @ + 1] ELSE asrQueued
          /\ asrWait' = [c \in Buckets |->
                           IF asks /\ c = b THEN AsrInterval - 1
                           ELSE IF asrWait[c] > 0 THEN asrWait[c] - 1 ELSE 0]
      BY <1>1 DEF AsrHears
    <2> HIDE DEF asks
    <2>2. asrNow' \in 0 .. LastAudio /\ asrNow + 1 \in 1 .. LastAudio
      BY <1>n, <1>t, <2>1
    <2>3. Fed(b) \in Seq(1 .. LastAudio) /\ Len(Fed(b)) <= MaxAudio
      <3> DEFINE all == Append(asrBuf[b], asrNow + 1)
      <3>1. asrBuf[b] \in Seq(1 .. LastAudio) /\ Len(asrBuf[b]) <= MaxAudio
        BY <1>t
      <3>2. /\ all \in Seq(1 .. LastAudio) /\ Len(all) = Len(asrBuf[b]) + 1 /\ Len(asrBuf[b]) \in Nat
        BY <2>2, <3>1, AppendTo
      <3>3. Fed(b) = IF Len(all) > MaxAudio THEN Tail(all) ELSE all
        BY DEF Fed
      <3> HIDE DEF all
      <3>4. CASE Len(all) > MaxAudio
        <4>1. all # <<>>
          BY <3>2
        <4>2. Tail(all) \in Seq(1 .. LastAudio) /\ Len(Tail(all)) = Len(all) - 1
          BY <3>2, <4>1, TailOf
        <4>3. Fed(b) = Tail(all)
          BY <3>3, <3>4
        <4>4. Len(Tail(all)) <= MaxAudio
          BY <1>n, <3>1, <3>2, <4>2
        <4> QED BY <4>2, <4>3, <4>4
      <3>5. CASE ~(Len(all) > MaxAudio)
        <4>1. Fed(b) = all /\ Len(all) <= MaxAudio
          BY <1>n, <3>2, <3>3, <3>5
        <4> QED BY <3>2, <4>1
      <3> QED BY <3>4, <3>5
    <2>4. asrBuf' \in [Buckets -> Seq(1 .. LastAudio)] /\ \A c \in Buckets : Len(asrBuf'[c]) <= MaxAudio
      BY <1>t, <2>1, <2>3
    <2>5. asrQueued' \in [Buckets -> 0 .. MaxThreads]
      <3>1. asks => asrQueued[b] + 1 \in 0 .. MaxThreads
        BY <1>n, <1>t, <2>1
      <3> QED BY <1>t, <2>1, <3>1
    <2>6. asrWait' \in [Buckets -> 0 .. AsrInterval]
      <3>1. \A c \in Buckets : /\ asrWait[c] \in 0 .. AsrInterval
                               /\ asrWait[c] > 0 => asrWait[c] - 1 \in 0 .. AsrInterval
        BY <1>n, <1>t
      <3>2. AsrInterval - 1 \in 0 .. AsrInterval /\ 0 \in 0 .. AsrInterval
        BY <1>n
      <3> QED BY <2>1, <3>1, <3>2
    <2> QED BY <1>t, <2>1, <2>2, <2>4, <2>5, <2>6 DEF AsrTypeOK
  <1>2. ASSUME NEW b \in Buckets, AsrBegins(b) PROVE AsrTypeOK'
    <2>1. /\ asrQueued[b] > 0 /\ asrQueued' = [asrQueued EXCEPT ![b] = @ - 1]
          /\ asrBuf' \in {[asrBuf EXCEPT ![b] = <<>>], asrBuf}
          /\ asrTaken' \in {asrTaken \cup {<<b, asrBuf[b]>>}, asrTaken}
          /\ UNCHANGED <<asrNow, asrOn, asrWait, asrText>>
      BY <1>2 DEF AsrBegins, Popped
    <2>2. asrQueued[b] - 1 \in 0 .. MaxThreads
      BY <1>n, <1>t, <2>1
    <2>3. <<>> \in Seq(1 .. LastAudio) /\ Len(<<>>) = 0
      OBVIOUS
    <2>4. asrBuf' \in [Buckets -> Seq(1 .. LastAudio)] /\ \A c \in Buckets : Len(asrBuf'[c]) <= MaxAudio
      <3> DEFINE none == <<>>
      <3>1. none \in Seq(1 .. LastAudio) /\ Len(none) <= MaxAudio
        BY <1>n, <2>3
      <3> HIDE DEF none
      <3>2. asrBuf' \in {[asrBuf EXCEPT ![b] = none], asrBuf}
        BY <2>1 DEF none
      <3> QED BY <1>t, <3>1, <3>2
    <2>5. asrTaken' \subseteq Buckets \X Seq(1 .. LastAudio)
      BY <1>t, <2>1
    <2> QED BY <1>t, <2>1, <2>2, <2>4, <2>5 DEF AsrTypeOK
  <1>3. CASE AsrEnds
    <2>1. PICK job \in asrTaken :
            /\ asrTaken' = asrTaken \ {job}
            /\ asrText' \in {[asrText EXCEPT ![job[1]] = job[2][Len(job[2])]], asrText}
            /\ UNCHANGED <<asrNow, asrOn, asrBuf, asrWait, asrQueued>>
      BY <1>3 DEF AsrEnds
    <2>2. job[2] \in Seq(1 .. LastAudio) /\ Len(job[2]) \in MinAudio .. MaxAudio
      BY <1>t DEF AsrInv, JobSound
    <2>3. job[2][Len(job[2])] \in 0 .. LastAudio
      <3> DEFINE text == job[2]
      <3>1. text \in Seq(1 .. LastAudio) /\ Len(text) \in MinAudio .. MaxAudio
        BY <2>2
      <3> HIDE DEF text
      <3>2. Len(text) \in 1 .. Len(text)
        BY <1>n, <3>1
      <3>3. text[Len(text)] \in 1 .. LastAudio
        BY <3>1, <3>2, ElementOf
      <3>4. text[Len(text)] \in 0 .. LastAudio
        BY <1>n, <3>3
      <3> QED BY <3>4 DEF text
    <2> QED BY <1>t, <2>1, <2>3 DEF AsrTypeOK
  <1>4. CASE AsrSwitched
    BY <1>4, <1>t DEF AsrSwitched, AsrTypeOK
  <1>5. CASE UNCHANGED asrVars
    BY <1>5, <1>t DEF asrVars, AsrTypeOK
  <1> QED BY <1>1, <1>2, <1>3, <1>4, <1>5 DEF AsrNext

LEMMA AsrTypes == AsrSpec => []AsrTypeOK
  <1>1. AsrInit => AsrTypeOK
    <2> SUFFICES ASSUME AsrInit PROVE AsrTypeOK
      OBVIOUS
    <2>1. <<>> \in Seq(1 .. LastAudio) /\ Len(<<>>) = 0
      OBVIOUS
    <2> QED BY <2>1, AsrAssumption DEF AsrInit, AsrTypeOK
  <1> QED BY <1>1, AsrInvInit, AsrInvStep, AsrTypeStep, PTL DEF AsrSpec

-----------------------------------------------------------------------------
(***************************************************************************)
(* The bounds of the windows: how much waits, how much a window takes.     *)
(***************************************************************************)
LoopBounds ==
    /\ winLoop.skips \in 0 .. WsprEvery - 1 /\ winLoop.audio \in Seq(WinBlocks)
    /\ Len(winLoop.audio) <= WinPeriod[winLoop.mode]

QueueBounds == winQueue \in Seq(WinBlocks) /\ Len(winQueue) <= WinCap
SavedBounds == winSaved \subseteq [from : 0 .. WinLast, to : 0 .. WinLast]
WinBounds ==
    /\ winNow \in 0 .. WinLast /\ winAsked \in 0 .. WinAsks
    /\ LoopBounds /\ QueueBounds /\ SavedBounds

LEMMA WinTypeOfBounds == WinInv /\ WinBounds => WinTypeOK
  <1> SUFFICES ASSUME WinInv, WinBounds PROVE WinTypeOK
    OBVIOUS
  <1>1. winScan \in WinScans /\ winLoop \in WinLoops
    BY DEF WinInv, WinTyped
  <1>2. /\ winLoop.pc \in WinPcs /\ winLoop.modes \in WinModeLists /\ winLoop.mode \in WinModes
        /\ winLoop.turn \in {0, 1} /\ winLoop.band \in WinBands /\ winLoop.boundary \in Nat
        /\ {winLoop.abort, winLoop.moved, winLoop.missed} \subseteq BOOLEAN
    BY <1>1 DEF WinLoops
  <1> QED BY <1>1, <1>2
          DEF WinTypeOK, WinBounds, LoopBounds, QueueBounds, SavedBounds, WinScans, WinPcs

\* No audio, or the same in the same mode, is within its bounds.
LEMMA LoopBoundsKept ==
    ASSUME WinInv', LoopBounds, winLoop'.skips \in 0 .. WsprEvery - 1,
           \/ winLoop'.audio = <<>>
           \/ winLoop'.audio = winLoop.audio /\ winLoop'.mode = winLoop.mode
    PROVE  LoopBounds'
  <1>1. WinPeriod[winLoop'.mode] \in Nat
    BY WinAssumption DEF WinInv, WinTyped, WinLoops
  <1>2. CASE winLoop'.audio = <<>>
    <2>1. <<>> \in Seq(WinBlocks) /\ Len(<<>>) = 0
      OBVIOUS
    <2> QED BY <1>1, <1>2, <2>1 DEF LoopBounds
  <1>3. CASE winLoop'.audio = winLoop.audio /\ winLoop'.mode = winLoop.mode
    BY <1>3 DEF LoopBounds
  <1> QED BY <1>2, <1>3

LEMMA WinTickBounds ==
    ASSUME WinInv, WinInv', WinBounds, WinTick PROVE WinBounds'
  <1>1. /\ winNow < WinLast /\ winNow' = winNow + 1 /\ UNCHANGED <<winSaved, winAsked>>
        /\ \/ /\ Len(winQueue) < WinCap /\ UNCHANGED winLoop
              /\ winQueue' = Append(winQueue, [at |-> winNow, band |-> winScan.band])
           \/ /\ \E b \in BOOLEAN : winLoop' = [winLoop EXCEPT !.missed = b]
              /\ UNCHANGED winQueue
    <2>1. (winLoop.missed \/ winLoop.pc = "collect") \in BOOLEAN
      BY DEF WinInv, WinTyped, WinLoops
    <2> QED BY <2>1 DEF WinTick
  <1>2. winLoop \in WinLoops /\ winScan \in WinScans /\ WinLast \in Nat /\ WinCap \in Nat
    BY WinAssumption DEF WinInv, WinTyped
  <1>3. winNow' \in 0 .. WinLast /\ winNow \in 0 .. WinLast
    BY <1>1, <1>2 DEF WinBounds
  <1>4. /\ winLoop'.skips = winLoop.skips /\ winLoop'.audio = winLoop.audio
        /\ winLoop'.mode = winLoop.mode
    BY <1>1, <1>2 DEF WinLoops
  <1>5. LoopBounds'
    BY <1>4, LoopBoundsKept DEF WinBounds, LoopBounds
  <1>6. QueueBounds'
    <2>1. [at |-> winNow, band |-> winScan.band] \in WinBlocks
      BY <1>2, <1>3 DEF WinBlocks, WinScans
    <2>2. winQueue \in Seq(WinBlocks) /\ Len(winQueue) <= WinCap
      BY DEF WinBounds, QueueBounds
    <2>3. CASE UNCHANGED winQueue
      BY <2>2, <2>3 DEF QueueBounds
    <2>4. CASE /\ winQueue' = Append(winQueue, [at |-> winNow, band |-> winScan.band])
               /\ Len(winQueue) < WinCap
      <3>1. /\ winQueue' \in Seq(WinBlocks) /\ Len(winQueue') = Len(winQueue) + 1
            /\ Len(winQueue) \in Nat
        BY <2>1, <2>2, <2>4, AppendTo
      <3>2. Len(winQueue') <= WinCap
        BY <1>2, <2>4, <3>1
      <3> QED BY <3>1, <3>2 DEF QueueBounds
    <2> QED BY <1>1, <2>3, <2>4
  <1> QED BY <1>1, <1>3, <1>5, <1>6 DEF WinBounds, SavedBounds

LEMMA WinPicksBounds ==
    ASSUME WinInv, WinInv', WinBounds, WinPicks PROVE WinBounds'
  <1>1. winLoop \in WinLoops /\ winLoop.audio = <<>>
    BY DEF WinPicks, WinInv, WinTyped, CaptureInOrder
  <1>2. UNCHANGED <<winNow, winScan, winAsked, winQueue, winSaved>>
    BY DEF WinPicks, WinOnly
  <1>3. PICK mode, counted, next, boundary :
          /\ next = [winLoop EXCEPT !.mode = mode, !.abort = FALSE, !.turn = 1 - @,
                       !.skips = IF counted THEN (@ + 1) % WsprEvery ELSE @]
          /\ \/ winLoop' = next
             \/ winLoop' = [next EXCEPT !.pc = "wait", !.band = winScan.band,
                              !.boundary = boundary]
    BY DEF WinPicks
  <1>4. /\ winLoop'.audio = <<>>
        /\ winLoop'.skips \in {winLoop.skips, (winLoop.skips + 1) % WsprEvery}
    BY <1>1, <1>3 DEF WinLoops
  <1>5. winLoop'.skips \in 0 .. WsprEvery - 1
    <2>1. winLoop.skips \in Nat /\ WsprEvery \in Nat \ {0}
      BY <1>1, WinAssumption DEF WinLoops
    <2>2. (winLoop.skips + 1) % WsprEvery \in 0 .. WsprEvery - 1
      BY <2>1
    <2> QED BY <1>4, <2>2 DEF WinBounds, LoopBounds
  <1> QED BY <1>2, <1>4, <1>5, LoopBoundsKept DEF WinBounds, QueueBounds, SavedBounds

LEMMA WinReadsBounds ==
    ASSUME WinInv, WinInv', WinBounds, WinReads PROVE WinBounds'
  <1>1. /\ Len(winLoop.audio) # WinPeriod[winLoop.mode] /\ winQueue # <<>>
        /\ winLoop' = [winLoop EXCEPT !.audio = Append(@, Head(winQueue))]
        /\ winQueue' = Tail(winQueue) /\ UNCHANGED <<winNow, winAsked, winSaved>>
    BY DEF WinReads, WinOnly, WinFull
  <1>2. winLoop \in WinLoops
    BY DEF WinInv, WinTyped
  <1>3. /\ winLoop.audio \in Seq(WinBlocks) /\ Len(winLoop.audio) <= WinPeriod[winLoop.mode]
        /\ winQueue \in Seq(WinBlocks) /\ Len(winQueue) <= WinCap
    BY DEF WinBounds, LoopBounds, QueueBounds
  <1>4. WinPeriod[winLoop.mode] \in Nat /\ WinCap \in Nat
    BY <1>2, WinAssumption DEF WinLoops
  <1>5. /\ Head(winQueue) \in WinBlocks /\ Tail(winQueue) \in Seq(WinBlocks)
        /\ Len(Tail(winQueue)) = Len(winQueue) - 1 /\ Len(winQueue) \in Nat
    BY <1>1, <1>3, TailOf
  <1>6. QueueBounds'
    <2>1. Len(Tail(winQueue)) <= WinCap
      BY <1>3, <1>4, <1>5
    <2> QED BY <1>1, <1>5, <2>1 DEF QueueBounds
  <1>7. /\ winLoop'.audio = Append(winLoop.audio, Head(winQueue))
        /\ winLoop'.skips = winLoop.skips /\ winLoop'.mode = winLoop.mode
    BY <1>1, <1>2 DEF WinLoops
  <1>8. LoopBounds'
    <2>1. /\ Append(winLoop.audio, Head(winQueue)) \in Seq(WinBlocks)
          /\ Len(Append(winLoop.audio, Head(winQueue))) = Len(winLoop.audio) + 1
          /\ Len(winLoop.audio) \in Nat
      BY <1>3, <1>5, AppendTo
    <2>2. Len(winLoop.audio) + 1 <= WinPeriod[winLoop.mode]
      BY <1>1, <1>3, <1>4, <2>1
    <2> QED BY <1>7, <2>1, <2>2 DEF WinBounds, LoopBounds
  <1> QED BY <1>1, <1>6, <1>8 DEF WinBounds, SavedBounds

LEMMA WinOverBounds ==
    ASSUME WinInv, WinInv', WinBounds, winLoop' = WinOver PROVE LoopBounds'
  <1>1. winLoop \in WinLoops
    BY DEF WinInv, WinTyped
  <1>2. winLoop'.audio = <<>> /\ winLoop'.skips = winLoop.skips
    BY <1>1 DEF WinOver, WinLoops
  <1> QED BY <1>2, LoopBoundsKept DEF WinBounds, LoopBounds

LEMMA WinDecodedBounds ==
    ASSUME WinInv, WinInv', WinBounds, WinDecoded PROVE WinBounds'
  <1> DEFINE audio == winLoop.audio
             window == [from |-> audio[1].at, to |-> audio[Len(audio)].at]
  <1>1. /\ winLoop.pc = "decode" /\ winLoop' = WinOver
        /\ UNCHANGED <<winNow, winScan, winQueue, winAsked>>
        /\ winSaved' \in {winSaved, winSaved \cup {window}}
    BY DEF WinDecoded, WinOnly, Ingested
  <1>2. Len(audio) = WinPeriod[winLoop.mode]
    BY <1>1 DEF WinInv, FtWindowsExact, WholeWindow, WinFull
  <1>3. winLoop.mode \in WinModes
    BY DEF WinInv, WinTyped, WinLoops
  <1>4. WinPeriod[winLoop.mode] \in Nat \ {0} /\ audio \in Seq(WinBlocks)
    BY <1>3, WinAssumption DEF WinBounds, LoopBounds
  <1> HIDE DEF audio
  <1>5. audio[1] \in WinBlocks /\ audio[Len(audio)] \in WinBlocks
    <2>1. 1 \in 1 .. Len(audio) /\ Len(audio) \in 1 .. Len(audio)
      BY <1>2, <1>4
    <2> QED BY <1>4, <2>1
  <1>6. window \in [from : 0 .. WinLast, to : 0 .. WinLast]
    BY <1>5 DEF WinBlocks
  <1> HIDE DEF window
  <1>7. SavedBounds'
    BY <1>1, <1>6 DEF WinBounds, SavedBounds
  <1> QED BY <1>1, <1>7, WinOverBounds DEF WinBounds, QueueBounds

\* The user, and the steps that leave audio and turn alone.
LEMMA WinQuietBounds ==
    ASSUME WinInv, WinInv', WinBounds, UNCHANGED <<winNow, winSaved>>,
           winAsked' \in 0 .. WinAsks, winQueue' = winQueue \/ winQueue' = <<>>,
           \/ winLoop' = WinOver
           \/ /\ winLoop'.audio = winLoop.audio /\ winLoop'.mode = winLoop.mode
              /\ winLoop'.skips = winLoop.skips
    PROVE  WinBounds'
  <1>1. LoopBounds'
    BY WinOverBounds, LoopBoundsKept DEF WinBounds, LoopBounds
  <1>2. QueueBounds'
    <2>1. <<>> \in Seq(WinBlocks) /\ Len(<<>>) = 0 /\ WinCap \in Nat
      BY WinAssumption
    <2>2. CASE winQueue' = <<>>
      BY <2>1, <2>2 DEF QueueBounds
    <2>3. CASE winQueue' = winQueue
      BY <2>3 DEF WinBounds, QueueBounds
    <2> QED BY <2>2, <2>3
  <1> QED BY <1>1, <1>2 DEF WinBounds, SavedBounds

LEMMA WinAskBounds == WinBounds /\ WinAsk => winAsked' \in 0 .. WinAsks
  BY WinAssumption DEF WinBounds, WinAsk

LEMMA WinBoundsStep == WinInv /\ WinInv' /\ WinBounds /\ [WinNext]_winVars => WinBounds'
  <1> SUFFICES ASSUME WinInv, WinInv', WinBounds, [WinNext]_winVars PROVE WinBounds'
    OBVIOUS
  <1>l. winLoop \in WinLoops /\ winAsked \in 0 .. WinAsks
    BY DEF WinInv, WinTyped, WinBounds
  <1>1. CASE WinGivesUp \/ WinAligned \/ WinCaptured \/ WinProcessed
    <2>1. /\ UNCHANGED <<winNow, winSaved, winAsked, winQueue>>
          /\ winLoop' = WinOver
             \/ \E pc \in {"settle", "process", "decode"} :
                  winLoop' = [winLoop EXCEPT !.pc = pc]
                  \/ winLoop' = [winLoop EXCEPT !.pc = pc, !.moved = FALSE]
      BY <1>1 DEF WinGivesUp, WinAligned, WinCaptured, WinProcessed, WinOnly
    <2>2. winLoop' = WinOver \/ /\ winLoop'.audio = winLoop.audio /\ winLoop'.mode = winLoop.mode
                                /\ winLoop'.skips = winLoop.skips
      BY <1>l, <2>1 DEF WinLoops
    <2> QED BY <1>l, <2>1, <2>2, WinQuietBounds
  <1>2. CASE WinOpens
    <2>1. /\ UNCHANGED <<winNow, winSaved, winAsked>> /\ winQueue' = <<>>
          /\ winLoop' = [winLoop EXCEPT !.pc = "collect", !.missed = FALSE]
      BY <1>2 DEF WinOpens, WinOnly, WinFlushed
    <2>2. /\ winLoop'.audio = winLoop.audio /\ winLoop'.mode = winLoop.mode
          /\ winLoop'.skips = winLoop.skips
      BY <1>l, <2>1 DEF WinLoops
    <2> QED BY <1>l, <2>1, <2>2, WinQuietBounds
  <1>3. CASE WinModesSet \/ WinSelects \/ WinScanMoves
    <2>1. WinAsk
      BY <1>3 DEF WinModesSet, WinSelects, WinScanMoves
    <2>2. /\ winLoop'.audio = winLoop.audio /\ winLoop'.mode = winLoop.mode
          /\ winLoop'.skips = winLoop.skips
      BY <1>l, <1>3 DEF WinModesSet, WinSelects, WinScanMoves, WinLoops
    <2>3. UNCHANGED <<winNow, winQueue, winSaved>>
      BY <2>1 DEF WinAsk
    <2> QED BY <2>1, <2>2, <2>3, WinAskBounds, WinQuietBounds
  <1>4. CASE UNCHANGED winVars
    BY <1>4 DEF winVars, WinBounds, LoopBounds, QueueBounds, SavedBounds
  <1> QED BY <1>1, <1>2, <1>3, <1>4, WinTickBounds, WinPicksBounds, WinReadsBounds,
             WinDecodedBounds DEF WinNext, WinStep

LEMMA WinTypes == WinSpec => []WinTypeOK
  <1>1. WinInit => WinBounds
    <2> SUFFICES ASSUME WinInit PROVE WinBounds
      OBVIOUS
    <2>1. PICK l \in WinModeLists :
            winLoop = [pc |-> "top", modes |-> l, mode |-> l[1], turn |-> 0, skips |-> 0,
                       band |-> winScan.band, boundary |-> 0, audio |-> <<>>,
                       abort |-> FALSE, moved |-> FALSE, missed |-> FALSE]
      BY DEF WinInit
    <2>2. <<>> \in Seq(WinBlocks) /\ Len(<<>>) = 0
      OBVIOUS
    <2>3. l[1] \in WinModes
      BY ListModes
    <2>4. /\ WinPeriod[l[1]] \in Nat /\ WsprEvery \in Nat \ {0} /\ WinCap \in Nat
          /\ WinLast \in Nat /\ WinAsks \in Nat
      BY <2>3, WinAssumption
    <2>5. LoopBounds
      BY <2>1, <2>2, <2>4 DEF LoopBounds
    <2> QED BY <2>2, <2>4, <2>5 DEF WinInit, WinBounds, QueueBounds, SavedBounds
  <1> QED BY <1>1, WinInvInit, WinInvStep, WinBoundsStep, WinTypeOfBounds, PTL DEF WinSpec
=============================================================================
