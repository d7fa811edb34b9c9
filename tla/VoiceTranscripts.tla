------------------------- MODULE VoiceTranscripts -------------------------
(***************************************************************************)
(* The audio of decoders/ssb_asr.py on its way to the speech model: the    *)
(* detector appends to a buffer per frequency bucket and asks for a        *)
(* transcription; threads of the pool pop the buffer, wait for the one     *)
(* lock of the model and cache the text.  Nothing bounds how many threads  *)
(* of a bucket wait, nor in which order they get the lock.  A unit of      *)
(* audio is numbered by the tick it was heard in.                          *)
(***************************************************************************)
EXTENDS Naturals, Sequences

CONSTANTS
    Buckets,        \* int(frequency_hz / 2000)
    MinAudio, MaxAudio, \* _MIN_BUF_SAMPLES, _MAX_BUF_SAMPLES, in units
    AsrInterval,    \* _TRANSCRIBE_MIN_INTERVAL_S, in ticks
    LastAudio,      \* bound on the clock
    MaxThreads      \* bound on the threads of a bucket that have not begun

ASSUME AsrAssumption ==
    /\ MinAudio \in Nat \ {0} /\ MaxAudio \in Nat /\ MinAudio <= MaxAudio
    /\ AsrInterval \in Nat \ {0} /\ LastAudio \in Nat /\ MaxThreads \in Nat

VARIABLES
    asrNow,     \* the clock
    asrOn,      \* _asr_enabled
    asrBuf,     \* _buffers
    asrWait,    \* ticks until _last_transcribed_at lets the bucket again
    asrQueued,  \* threads submitted that have not begun
    asrTaken,   \* what threads have popped and the model has not finished
    asrText     \* _transcripts, as the last unit of the audio behind the text

asrVars == <<asrNow, asrOn, asrBuf, asrWait, asrQueued, asrTaken, asrText>>

AsrTypeOK ==
    /\ asrNow \in 0 .. LastAudio /\ asrOn \in BOOLEAN
    /\ asrBuf \in [Buckets -> Seq(1 .. LastAudio)]
    /\ asrWait \in [Buckets -> 0 .. AsrInterval]
    /\ asrQueued \in [Buckets -> 0 .. MaxThreads]
    /\ asrTaken \subseteq Buckets \X Seq(1 .. LastAudio)
    /\ asrText \in [Buckets -> 0 .. LastAudio]
    /\ \A b \in Buckets : Len(asrBuf[b]) <= MaxAudio

AsrInit ==
    /\ asrNow = 0 /\ asrOn \in BOOLEAN
    /\ asrBuf = [b \in Buckets |-> <<>>]
    /\ asrWait = [b \in Buckets |-> 0]
    /\ asrQueued = [b \in Buckets |-> 0]
    /\ asrTaken = {}
    /\ asrText = [b \in Buckets |-> 0]

-----------------------------------------------------------------------------
\* feed_iq keeps the newest MaxAudio units
Fed(b) ==
    LET all == Append(asrBuf[b], asrNow + 1) IN
    IF Len(all) > MaxAudio THEN Tail(all) ELSE all

\* maybe_transcribe_ssb: not before the interval is over, not with too little
Ripe(b, buf) == asrWait[b] = 0 /\ Len(buf) >= MinAudio

\* the detector hears a bucket, feeds its audio and asks for the text; both do
\* nothing while the transcription is switched off
AsrHears(b) ==
    /\ asrNow < LastAudio
    /\ asrNow' = asrNow + 1
    /\ LET asks == asrOn /\ Ripe(b, Fed(b)) IN
       /\ asks => asrQueued[b] < MaxThreads
       /\ asrBuf' = IF asrOn THEN [asrBuf EXCEPT ![b] = Fed(b)] ELSE asrBuf
       /\ asrQueued' = IF asks THEN [asrQueued EXCEPT ![b] = @ + 1] ELSE asrQueued
       /\ asrWait' = [c \in Buckets |->
                        IF asks /\ c = b THEN AsrInterval - 1
                        ELSE IF asrWait[c] > 0 THEN asrWait[c] - 1 ELSE 0]
    /\ UNCHANGED <<asrOn, asrTaken, asrText>>

\* mutant: the buffer is copied and stays
MutPopped(b) == asrBuf

\* under the lock of the buffers
Popped(b) == [asrBuf EXCEPT ![b] = <<>>]

\* transcribe_bucket begins: too little is thrown away; switched off, the
\* buffer is not touched
AsrBegins(b) ==
    /\ asrQueued[b] > 0
    /\ asrQueued' = [asrQueued EXCEPT ![b] = @ - 1]
    /\ asrBuf' = IF asrOn THEN Popped(b) ELSE asrBuf
    /\ asrTaken' = IF asrOn /\ Len(asrBuf[b]) >= MinAudio
                   THEN asrTaken \cup {<<b, asrBuf[b]>>} ELSE asrTaken
    /\ UNCHANGED <<asrNow, asrOn, asrWait, asrText>>

\* the model has run: a text, or silence, noise or a known hallucination,
\* which leave the text of before
AsrEnds ==
    \E job \in asrTaken :
        /\ asrTaken' = asrTaken \ {job}
        /\ \/ asrText' = [asrText EXCEPT ![job[1]] = job[2][Len(job[2])]]
           \/ UNCHANGED asrText
        /\ UNCHANGED <<asrNow, asrOn, asrBuf, asrWait, asrQueued>>

\* set_asr_enabled
AsrSwitched == asrOn' = ~asrOn
               /\ UNCHANGED <<asrNow, asrBuf, asrWait, asrQueued, asrTaken, asrText>>

AsrNext == (\E b \in Buckets : AsrHears(b) \/ AsrBegins(b)) \/ AsrEnds \/ AsrSwitched

AsrSpec == AsrInit /\ [][AsrNext]_asrVars

-----------------------------------------------------------------------------
\* However many threads are at work: what the model is given is long enough and
\* in the order it was heard, and no audio is given to it twice, not by two
\* threads, nor again after its text is there.
AudioOnce ==
    /\ \A b \in Buckets : asrBuf[b] # <<>> => asrText[b] < asrBuf[b][1]
    /\ \A job \in asrTaken :
         LET b == job[1]
             audio == job[2]
             last == audio[Len(audio)] IN
         /\ Len(audio) \in MinAudio .. MaxAudio
         /\ \A i \in 2 .. Len(audio) : audio[i - 1] < audio[i]
         /\ asrBuf[b] # <<>> => last < asrBuf[b][1]
         /\ asrText[b] < audio[1] \/ asrText[b] > last
         /\ \A other \in asrTaken \ {job} : other[1] = b =>
              last < other[2][1] \/ other[2][Len(other[2])] < audio[1]
===========================================================================
