---------------------------- MODULE KissFraming ----------------------------
(***************************************************************************)
(* KissBuffer of decoders/direwolf_kiss.py: the bytes of a TCP stream,     *)
(* cut anywhere by the reads of kiss_loop, become frames.                  *)
(***************************************************************************)
EXTENDS Naturals, Sequences, FiniteSets

CONSTANTS KissBytes,    \* the bytes that occur, some of the four below included
          FrameEnd, FrameEsc, TransFend, TransFesc,
          KissChunk,    \* the longest read
          KissLimit     \* bound: the bytes of the stream

ASSUME KissAssumption ==
    /\ {FrameEnd, FrameEsc} \subseteq KissBytes /\ FrameEnd # FrameEsc
    /\ KissChunk \in Nat /\ KissLimit \in Nat

VARIABLES
    kissSeen,   \* history: the bytes of the stream
    kissOut,    \* the frames returned
    kissBuffer  \* KissBuffer: buffer, in_frame, escape

kissVars == <<kissSeen, kissOut, kissBuffer>>

KissTypeOK ==
    /\ kissSeen \in Seq(KissBytes) /\ Len(kissSeen) <= KissLimit
    /\ \A i \in 1 .. Len(kissOut) : kissOut[i] \in Seq(KissBytes) \ {<<>>}
    /\ kissBuffer.buffer \in Seq(KissBytes)
    /\ kissBuffer.in_frame \in BOOLEAN /\ kissBuffer.escape \in BOOLEAN

KissInit ==
    /\ kissSeen = <<>> /\ kissOut = <<>>
    /\ kissBuffer = [buffer |-> <<>>, in_frame |-> FALSE, escape |-> FALSE]

\* the byte an escaped byte stands for
Unescaped(b) ==
    CASE b = TransFend -> FrameEnd [] b = TransFesc -> FrameEsc [] OTHER -> b

\* mutant: a frame boundary does not end an escape
MutTake(k, b) ==
    CASE b = FrameEnd -> [buffer |-> <<>>, in_frame |-> TRUE, escape |-> k.escape]
      [] b # FrameEnd /\ ~k.in_frame -> k
      [] b # FrameEnd /\ k.in_frame /\ k.escape ->
           [k EXCEPT !.buffer = Append(@, Unescaped(b)), !.escape = FALSE]
      [] b = FrameEsc /\ k.in_frame /\ ~k.escape -> [k EXCEPT !.escape = TRUE]
      [] OTHER -> [k EXCEPT !.buffer = Append(@, b)]

Take(k, b) ==
    CASE b = FrameEnd -> [buffer |-> <<>>, in_frame |-> TRUE, escape |-> FALSE]
      [] b # FrameEnd /\ ~k.in_frame -> k
      [] b # FrameEnd /\ k.in_frame /\ k.escape ->
           [k EXCEPT !.buffer = Append(@, Unescaped(b)), !.escape = FALSE]
      [] b = FrameEsc /\ k.in_frame /\ ~k.escape -> [k EXCEPT !.escape = TRUE]
      [] OTHER -> [k EXCEPT !.buffer = Append(@, b)]

\* an empty buffer is no frame
Emitted(k, b) ==
    IF b = FrameEnd /\ k.in_frame /\ k.buffer # <<>> THEN <<k.buffer>> ELSE <<>>

\* the buffer and the frames after each byte of a read
KissRead(k, data) ==
    LET after[i \in 0 .. Len(data)] ==
            IF i = 0 THEN [k |-> k, out |-> <<>>]
            ELSE [k |-> Take(after[i - 1].k, data[i]),
                  out |-> after[i - 1].out \o Emitted(after[i - 1].k, data[i])]
    IN after

\* feed, on one read
KissFeed ==
    \E n \in 1 .. KissChunk : \E data \in [1 .. n -> KissBytes] :
        /\ Len(kissSeen) + n <= KissLimit
        /\ kissSeen' = kissSeen \o data
        /\ kissOut' = kissOut \o KissRead(kissBuffer, data)[n].out
        /\ kissBuffer' = KissRead(kissBuffer, data)[n].k

KissSpec == KissInit /\ [][KissFeed]_kissVars

-----------------------------------------------------------------------------
(***************************************************************************)
(* The frames of a stream, said without a state.                           *)
(***************************************************************************)
\* the numbers of S in ascending order
Place(S, k) == Cardinality({j \in S : j <= k})
Ascending(S) == [i \in 1 .. Cardinality(S) |-> CHOOSE k \in {j \in S : Place(S, j) = i} : TRUE]

\* position k holds an escape that is not itself escaped
EscapesBefore(s, k) == {i \in 1 .. k - 1 : \A j \in i .. k - 1 : s[j] = FrameEsc}
ActiveEsc(s, k) == s[k] = FrameEsc /\ Cardinality(EscapesBefore(s, k)) % 2 = 0

\* the positions between the last frame end before k, if there is one, and k
Inside(s, k) ==
    {j \in 1 .. k - 1 : /\ \E e \in 1 .. j - 1 : s[e] = FrameEnd
                       /\ \A i \in j .. k - 1 : s[i] # FrameEnd}

\* what they say
Spoken(s, k) == {j \in Inside(s, k) : ~ActiveEsc(s, j)}
Said(s, j) == IF ActiveEsc(s, j - 1) THEN Unescaped(s[j]) ELSE s[j]
Content(s, k) == [i \in 1 .. Cardinality(Spoken(s, k)) |-> Said(s, Ascending(Spoken(s, k))[i])]

\* what lies between two consecutive frame ends of the first n bytes, if anything
Closed(s, n) == {k \in 1 .. n : s[k] = FrameEnd /\ Content(s, k) # <<>>}
FramesOf(s, n) == [i \in 1 .. Cardinality(Closed(s, n)) |-> Content(s, Ascending(Closed(s, n))[i])]

\* However a stream is cut into reads, the frames are those of the stream.
KissFrames == kissOut = FramesOf(kissSeen, Len(kissSeen))
===========================================================================
