------------------------ MODULE MirrorReplication_proofs ------------------------
(***************************************************************************)
(* Theorems about MirrorReplication, for every batch size, every number of *)
(* retries, nonces and rows, and every combination of faults.              *)
(***************************************************************************)
EXTENDS MirrorReplication, TLAPS

\* TypeOK in two halves: the row of the mirror, with its Boolean, and the rest.
StateTyped ==
    /\ rows \in [Tables -> SUBSET Nat] /\ last \in [Tables -> Nat]
    /\ pc \in Phase
    /\ since \in Nat
    /\ page \in [Tables -> SUBSET Nat] /\ target \in Nat
    /\ nonce \in Nonces /\ attempt \in 1 .. MaxRetries + 1
    /\ answer \in Answer
    /\ inflight \subseteq Request
    /\ seen \subseteq Nonces /\ received \in [Tables -> SUBSET Nat]
    /\ stops \in Nat

MirrorTyped == mirror \in [watermark : Nat, enabled : BOOLEAN, failures : Nat]

LEMMA TypeSplit == TypeOK <=> StateTyped /\ MirrorTyped
  BY DEF TypeOK, StateTyped, MirrorTyped

\* What a page leaves out is beyond its frontier, and the frontier is a row
\* that exists, whatever the page (build_payload, _table_frontier).
LEMMA FetchCovers ==
    ASSUME StateTyped, NEW t \in Tables, NEW P \in SUBSET Above(t), NEW n \in Nat,
           IsPage(P, t), IsMaxId(n, SafeRows(P, t)),
           \A i \in rows[t] : i <= last[t]
    PROVE  /\ n <= last[t]
           /\ \A i \in rows[t] : since < i /\ i <= n => i \in P
  <1> USE DEF StateTyped
  <1>1. rows[t] \in SUBSET Nat /\ last[t] \in Nat /\ P \subseteq rows[t]
    BY DEF Above
  <1>2. n <= last[t]
    BY <1>1 DEF IsMaxId, SafeRows
  <1>3. ASSUME NEW i \in rows[t], since < i, i <= n PROVE i \in P
    <2>1. i \in Above(t) /\ i # 0 /\ i \in Nat
      BY <1>1, <1>3 DEF Above
    <2>2. CASE P = Above(t)
      BY <2>1, <2>2
    <2>3. CASE P # Above(t)
      <3>1. SafeRows(P, t) = P
        BY <2>3, MirrorAssumption DEF IsPage, SafeRows
      <3>2. n \in P
        BY <3>1, <2>1, <1>3 DEF IsMaxId
      <3> QED
        BY <3>2, <2>1, <1>1, <1>3 DEF IsPage
    <2> QED
      BY <2>2, <2>3
  <1> QED
    BY <1>2, <1>3

-----------------------------------------------------------------------------
(***************************************************************************)
(* The inductive invariant.                                                *)
(***************************************************************************)
\* a page and a number above since: no row between them is left out
Covers(t, P, n) == \A i \in rows[t] : since < i /\ i <= n => i \in P

\* ids are given out in order, the watermark was one of them
Ids ==
    /\ \A t \in Tables : \A i \in rows[t] : i <= last[t]
    /\ \A t \in Scopes : mirror.watermark <= last[t]

\* the watermark read by the tick is still the stored one when it is used
SinceFresh == pc # "idle" => since = mirror.watermark

\* between the two pages, the target is the frontier of the first table
HalfBuilt ==
    pc = "occupancy" /\ "callsign" \in Scopes =>
        target <= last["callsign"] /\ Covers("callsign", page["callsign"], target)

\* the payload covers every active table up to its new watermark
Built ==
    pc \in {"send", "wait", "record"} =>
        /\ target >= since
        /\ \A t \in Scopes : target <= last[t] /\ Covers(t, page[t], target)

\* every request of the push under way carries its payload
SamePage == pc = "wait" => \A r \in inflight : r.nonce = nonce => r.page = page

\* an accepted push is stored
OkStored ==
    pc \in {"wait", "record"} /\ answer = "ok" =>
        \A t \in Scopes : page[t] \subseteq received[t]

PushInv == Ids /\ SinceFresh /\ HalfBuilt /\ Built /\ SamePage /\ OkStored

IInv == StateTyped /\ MirrorTyped /\ PushInv /\ NoGap

LEMMA InitInv == Init => IInv
  <1> SUFFICES ASSUME Init PROVE IInv
    OBVIOUS
  <1> USE MirrorAssumption DEF Init, NoRows
  <1>1. StateTyped
    BY DEF StateTyped, Phase, Answer
  <1>2. PushInv
    BY DEF PushInv, Ids, SinceFresh, HalfBuilt, Built, SamePage, OkStored, Tables
  <1>3. MirrorTyped
    BY DEF MirrorTyped
  <1>4. NoGap
    BY DEF NoGap
  <1> QED
    BY <1>1, <1>2, <1>3, <1>4 DEF IInv

-----------------------------------------------------------------------------
\* Type correctness of a step, by component.
LEMMA StateNext == StateTyped /\ MirrorTyped /\ [Next]_vars => StateTyped'
  <1> SUFFICES ASSUME StateTyped, MirrorTyped, [Next]_vars PROVE StateTyped'
    OBVIOUS
  <1>0. mirror.watermark \in Nat
    BY DEF MirrorTyped
  <1> USE MirrorAssumption DEF StateTyped, Phase, Answer, store, build, client, receiver
  <1>1. ASSUME NEW t \in Tables, Insert(t) PROVE StateTyped'
    BY <1>1 DEF Insert
  <1>2. CASE Purge
    BY <1>2 DEF Purge
  <1>3. CASE Tick
    BY <1>0, <1>3 DEF Tick
  <1>4. ASSUME NEW t \in Tables, NEW n \in Frontiers, Fetch(t, n)
        PROVE page' \in [Tables -> SUBSET Nat] /\ n \in Nat
    BY <1>4 DEF Fetch, Above, Frontiers
  <1>5. CASE FetchCallsign
    BY <1>5, <1>4 DEF FetchCallsign, Tables
  <1>6. CASE FetchOccupancy
    BY <1>6, <1>4 DEF FetchOccupancy, NewWatermark, Candidate, Tables
  <1>7. ASSUME NEW n \in Nonces, NEW a \in 1 .. MaxRetries + 1, Post(n, a)
        PROVE /\ nonce' \in Nonces /\ attempt' \in 1 .. MaxRetries + 1
              /\ answer' \in Answer /\ inflight' \subseteq Request
    <2>1. [nonce |-> n, attempt |-> a, page |-> page] \in Request
      BY DEF Request
    <2> QED
      BY <1>7, <2>1 DEF Post
  <1>8. CASE Send
    BY <1>8, <1>7 DEF Send
  <1>9. CASE Retry
    BY <1>9, <1>7 DEF Retry
  <1>10. CASE PostReturns
    BY <1>10 DEF PostReturns
  <1>11. CASE RecordSuccess
    BY <1>11 DEF RecordSuccess, Leave, NoRows
  <1>12. CASE RecordFailure
    BY <1>12 DEF RecordFailure, Leave, NoRows
  <1>13. CASE Stop
    <2>1. PICK more \in SUBSET {[nonce |-> nonce, attempt |-> a, page |-> page] :
                                   a \in attempt + 1 .. MaxRetries + 1} :
             inflight' = inflight \cup more
      BY <1>13 DEF Stop
    <2>2. \A a \in attempt + 1 .. MaxRetries + 1 :
             [nonce |-> nonce, attempt |-> a, page |-> page] \in Request
      BY DEF Request
    <2> QED
      BY <1>13, <2>1, <2>2 DEF Stop, Leave, NoRows
  <1>14. CASE Enable \/ Disable
    BY <1>14 DEF Enable, Disable
  <1>15. ASSUME NEW r \in inflight, Serve(r) PROVE StateTyped'
    <2>1. r.nonce \in Nonces /\ r.page \in [Tables -> SUBSET Nat]
      BY DEF Request
    <2> QED
      BY <1>15, <2>1 DEF Serve, Replay, Store, RollBack, Unavailable, Reject, Lose, Answers
  <1>16. CASE UNCHANGED vars
    BY <1>16 DEF vars
  <1> QED
    BY <1>1, <1>2, <1>3, <1>5, <1>6, <1>8, <1>9, <1>10, <1>11, <1>12, <1>13, <1>14,
       <1>15, <1>16 DEF Next, Push

\* The row of the mirror keeps its type: four actions write it.
LEMMA MirrorNext == StateTyped /\ MirrorTyped /\ [Next]_vars => MirrorTyped'
  <1> SUFFICES ASSUME StateTyped, MirrorTyped, [Next]_vars PROVE MirrorTyped'
    OBVIOUS
  <1>1. CASE mirror' = mirror
    BY <1>1 DEF MirrorTyped
  <1>2. CASE RecordSuccess
    BY <1>2 DEF RecordSuccess, StateTyped, MirrorTyped
  <1>3. CASE RecordFailure
    <2>1. \E e \in BOOLEAN, f \in Nat :
             mirror' = [mirror EXCEPT !.failures = f, !.enabled = e]
      <3>1. mirror.failures + 1 \in Nat
        BY DEF MirrorTyped
      <3> QED
        BY <1>3, <3>1, Zenon DEF RecordFailure
    <2>2. PICK e \in BOOLEAN, f \in Nat :
             mirror' = [mirror EXCEPT !.failures = f, !.enabled = e]
      BY <2>1
    <2> QED
      BY <2>2 DEF MirrorTyped
  <1>4. CASE Enable
    <2>1. mirror' = [mirror EXCEPT !.enabled = TRUE, !.failures = 0]
      BY <1>4 DEF Enable
    <2> QED
      BY <2>1 DEF MirrorTyped
  <1>5. CASE Disable
    <2>1. mirror' = [mirror EXCEPT !.enabled = FALSE]
      BY <1>5 DEF Disable
    <2> QED
      BY <2>1 DEF MirrorTyped
  <1> QED
    BY <1>1, <1>2, <1>3, <1>4, <1>5
       DEF Next, Push, Insert, Purge, Tick, FetchCallsign, FetchOccupancy, Send, Retry,
           PostReturns, Stop, Serve, Replay, Store, RollBack, Unavailable, Reject, Lose,
           Answers, vars

-----------------------------------------------------------------------------
\* The invariant of a push, one step per action.
LEMMA PushNext == IInv /\ [Next]_vars => PushInv' /\ NoGap'
  <1> SUFFICES ASSUME IInv, [Next]_vars PROVE PushInv' /\ NoGap'
    OBVIOUS
  <1>0. StateTyped /\ StateTyped' /\ MirrorTyped
    BY StateNext DEF IInv
  <1> USE MirrorAssumption DEF IInv, store, build, client, receiver
  <1>1. ASSUME NEW t \in Tables, Insert(t) PROVE PushInv' /\ NoGap'
    <2>1. /\ \A u \in Tables : last'[u] >= last[u]
          /\ \A u \in Tables : \A i \in rows'[u] : i \in rows[u] \/ i > last[u]
          /\ \A u \in Tables : \A i \in rows'[u] : i <= last'[u]
          /\ \A u \in Tables : last[u] \in Nat /\ last'[u] \in Nat
                               /\ rows'[u] \in SUBSET Nat
      BY <1>0, <1>1 DEF Insert, StateTyped, PushInv, Ids
    <2>2. Scopes \subseteq Tables /\ target \in Nat /\ mirror.watermark \in Nat
      BY <1>0 DEF StateTyped, MirrorTyped
    <2>3. UNCHANGED <<mirror, pc, build, client, inflight, receiver>>
      BY <1>1 DEF Insert
    <2>4. Ids' /\ NoGap'
      BY <2>1, <2>2, <2>3 DEF PushInv, Ids, NoGap
    <2>5. HalfBuilt' /\ Built'
      BY <2>1, <2>2, <2>3 DEF PushInv, HalfBuilt, Built, Covers
    <2> QED
      BY <2>3, <2>4, <2>5 DEF PushInv, SinceFresh, SamePage, OkStored
  <1>2. CASE Purge
    <2>1. /\ \A u \in Tables : rows'[u] \subseteq rows[u]
          /\ UNCHANGED <<last, mirror, pc, build, client, inflight, receiver>>
      BY <1>2 DEF Purge
    <2> QED
      BY <2>1 DEF PushInv, Ids, SinceFresh, HalfBuilt, Built, Covers, SamePage, OkStored,
                  NoGap
  <1>3. CASE Tick
    BY <1>3 DEF Tick, PushInv, Ids, SinceFresh, HalfBuilt, Built, SamePage, OkStored, NoGap
  <1>4. ASSUME NEW t \in Tables, NEW n \in Frontiers, Fetch(t, n)
        PROVE /\ n \in Nat /\ n <= last[t]
              /\ Covers(t, page'[t], n)
              /\ \A u \in Tables \ {t} : page'[u] = page[u]
    <2>1. PICK P \in SUBSET Above(t) :
             /\ IsPage(P, t) /\ IsMaxId(n, SafeRows(P, t))
             /\ page' = [page EXCEPT ![t] = P]
      BY <1>4 DEF Fetch
    <2>2. page'[t] = P /\ \A u \in Tables \ {t} : page'[u] = page[u]
      BY <1>0, <2>1 DEF StateTyped
    <2>3. n \in Nat
      BY DEF Frontiers
    <2>4. \A i \in rows[t] : i <= last[t]
      BY DEF PushInv, Ids
    <2> QED
      BY <1>0, <2>1, <2>2, <2>3, <2>4, FetchCovers DEF Covers
  <1>5. CASE FetchCallsign
    <2>1. UNCHANGED <<store, mirror, since, client, inflight, receiver>>
          /\ pc = "callsign" /\ pc' = "occupancy"
      BY <1>5 DEF FetchCallsign
    <2>2. HalfBuilt'
      BY <2>1, <1>4, <1>5 DEF FetchCallsign, HalfBuilt, Covers, Tables
    <2> QED
      BY <2>1, <2>2 DEF PushInv, Ids, SinceFresh, Built, SamePage, OkStored, NoGap
  <1>6. CASE FetchOccupancy
    <2>1. UNCHANGED <<store, mirror, since, client, inflight, receiver>>
          /\ pc = "occupancy" /\ pc' = "send"
      BY <1>6 DEF FetchOccupancy
    <2>2. /\ since \in Nat /\ target \in Nat /\ since = mirror.watermark
          /\ \A t \in Tables : last[t] \in Nat /\ rows[t] \in SUBSET Nat
          /\ \A t \in Scopes : since <= last[t]
      BY <1>0, <2>1 DEF StateTyped, PushInv, Ids, SinceFresh
    <2>3. CASE "occupancy" \in Scopes
      <3>1. PICK n \in Frontiers : /\ Fetch("occupancy", n)
                                   /\ target' = NewWatermark(Candidate(n))
        BY <1>6, <2>3 DEF FetchOccupancy
      <3>2. /\ n \in Nat /\ n <= last["occupancy"]
            /\ Covers("occupancy", page'["occupancy"], n)
            /\ page'["callsign"] = page["callsign"]
        BY <1>4, <3>1 DEF Tables
      <3>3. /\ target' >= since
            /\ target' <= last["occupancy"]
            /\ target' > since => target' <= n
            /\ target' \in Nat
        BY <2>2, <2>3, <3>1, <3>2 DEF NewWatermark, Candidate, Tables
      <3>4. "callsign" \in Scopes =>
                /\ target' <= last["callsign"]
                /\ target' > since => target' <= target
        BY <2>1, <2>2, <2>3, <3>1, <3>2
           DEF PushInv, HalfBuilt, NewWatermark, Candidate, Tables
      <3>5. Covers("occupancy", page'["occupancy"], target')
        BY <2>2, <3>2, <3>3 DEF Covers, Tables
      <3>6. "callsign" \in Scopes => Covers("callsign", page'["callsign"], target')
        BY <2>1, <2>2, <3>2, <3>3, <3>4 DEF PushInv, HalfBuilt, Covers, Tables
      <3>7. Built'
        BY <2>1, <3>3, <3>4, <3>5, <3>6 DEF Built, Covers, Tables
      <3> QED
        BY <2>1, <3>7 DEF PushInv, Ids, SinceFresh, HalfBuilt, SamePage, OkStored, NoGap
    <2>4. CASE "occupancy" \notin Scopes
      <3>1. Scopes = {"callsign"}
        BY <2>4 DEF Tables
      <3>2. page' = page /\ target' = NewWatermark(target)
        BY <1>6, <2>4 DEF FetchOccupancy
      <3>3. /\ target' >= since /\ target' \in Nat /\ target' <= last["callsign"]
            /\ target' > since => target' = target
        BY <2>1, <2>2, <3>1, <3>2 DEF NewWatermark, PushInv, HalfBuilt, Tables
      <3>4. Built'
        BY <2>1, <2>2, <3>1, <3>2, <3>3 DEF Built, PushInv, HalfBuilt, Covers, Tables
      <3> QED
        BY <2>1, <3>4 DEF PushInv, Ids, SinceFresh, HalfBuilt, SamePage, OkStored, NoGap
    <2> QED
      BY <2>3, <2>4
  <1>7. CASE Send
    BY <1>7 DEF Send, Post, PushInv, Ids, SinceFresh, HalfBuilt, Built, Covers, SamePage,
                OkStored, NoGap
  <1>8. CASE Retry
    BY <1>8 DEF Retry, Post, PushInv, Ids, SinceFresh, HalfBuilt, Built, Covers, SamePage,
                OkStored, NoGap
  <1>9. CASE PostReturns
    BY <1>9 DEF PostReturns, PushInv, Ids, SinceFresh, HalfBuilt, Built, Covers, SamePage,
                OkStored, NoGap
  <1>10. CASE RecordSuccess
    <2>1. /\ mirror.watermark' = target
          /\ pc = "record" /\ answer = "ok" /\ pc' = "idle"
          /\ UNCHANGED <<store, receiver>>
      <3>1. mirror.watermark' = target
        BY <1>0, <1>10 DEF RecordSuccess, MirrorTyped
      <3> QED
        BY <1>10, <3>1 DEF RecordSuccess, Leave
    <2>2. Ids'
      BY <2>1 DEF PushInv, Ids, Built
    <2>3. ASSUME NEW t \in Scopes, NEW i \in rows[t], i <= target PROVE i \in received[t]
      <3>1. i \in Nat /\ since \in Nat
        BY <1>0 DEF StateTyped
      <3>2. CASE i <= since
        BY <2>1, <3>2 DEF PushInv, SinceFresh, NoGap
      <3>3. CASE since < i
        BY <2>1, <2>3, <3>3 DEF PushInv, Built, Covers, OkStored
      <3> QED
        BY <3>1, <3>2, <3>3
    <2> QED
      BY <2>1, <2>2, <2>3 DEF PushInv, SinceFresh, HalfBuilt, Built, SamePage, OkStored,
                              NoGap
  <1>11. CASE RecordFailure \/ Stop
    <2>1. pc' = "idle" /\ UNCHANGED <<store, receiver>>
      BY <1>11 DEF RecordFailure, Stop, Leave
    <2>2. mirror.watermark' = mirror.watermark
      BY <1>0, <1>11 DEF RecordFailure, Stop, MirrorTyped
    <2> QED
      BY <2>1, <2>2 DEF PushInv, Ids, SinceFresh, HalfBuilt, Built, SamePage, OkStored, NoGap
  <1>12. CASE Enable \/ Disable
    <2>1. mirror.watermark' = mirror.watermark
          /\ UNCHANGED <<store, pc, build, client, inflight, receiver>>
      BY <1>0, <1>12 DEF Enable, Disable, MirrorTyped
    <2> QED
      BY <2>1 DEF PushInv, Ids, SinceFresh, HalfBuilt, Built, Covers, SamePage, OkStored,
                  NoGap
  <1>13. ASSUME NEW r \in inflight, Serve(r) PROVE PushInv' /\ NoGap'
    <2>1. /\ UNCHANGED <<store, mirror, pc, build, nonce>>
          /\ inflight' \subseteq inflight
          /\ \A t \in Tables : received[t] \subseteq received'[t]
      BY <1>0, <1>13 DEF Serve, Replay, Store, RollBack, Unavailable, Reject, Lose, Answers,
                         StateTyped
    <2>2. OkStored'
      <3>1. CASE answer' = answer
        BY <2>1, <3>1 DEF PushInv, OkStored
      <3>2. CASE answer' # answer
        <4>1. /\ pc = "wait" /\ r.nonce = nonce
              /\ answer' = "ok" => received' = [t \in Tables |-> received[t] \cup r.page[t]]
          BY <1>13, <3>2 DEF Serve, Replay, Store, RollBack, Unavailable, Reject, Lose,
                             Answers
        <4>2. r.page = page
          BY <4>1 DEF PushInv, SamePage
        <4> QED
          BY <2>1, <4>1, <4>2 DEF OkStored
      <3> QED
        BY <3>1, <3>2
    <2>3. Ids' /\ NoGap'
      BY <2>1 DEF PushInv, Ids, NoGap
    <2> QED
      BY <2>1, <2>2, <2>3 DEF PushInv, SinceFresh, HalfBuilt, Built, Covers, SamePage
  <1>14. CASE UNCHANGED vars
    BY <1>14 DEF vars, PushInv, Ids, SinceFresh, HalfBuilt, Built, Covers, SamePage,
                 OkStored, NoGap
  <1> QED
    BY <1>1, <1>2, <1>3, <1>5, <1>6, <1>7, <1>8, <1>9, <1>10, <1>11, <1>12, <1>13, <1>14
       DEF Next, Push

LEMMA Invariance == Spec => []IInv
  <1>1. IInv /\ [Next]_vars => IInv'
    BY StateNext, MirrorNext, PushNext DEF IInv
  <1> QED
    BY InitInv, <1>1, PTL DEF Spec

-----------------------------------------------------------------------------
(***************************************************************************)
(* Theorems.                                                               *)
(***************************************************************************)
\* The state keeps its type: attempts stay within max_retries + 1, every
\* request is one that post() built.
THEOREM MirrorTypeCorrect == Spec => []TypeOK
  <1>1. Init => StateTyped /\ MirrorTyped
    BY InitInv DEF IInv
  <1>2. StateTyped /\ MirrorTyped /\ [Next]_vars => StateTyped' /\ MirrorTyped'
    BY StateNext, MirrorNext
  <1> QED
    BY <1>1, <1>2, TypeSplit, PTL DEF Spec

\* No row of an active table is skipped by the shared cursor, whatever is
\* lost, repeated, late, rolled back or purged (build_payload, post,
\* update_after_push).
THEOREM NothingSkipped == Spec => []NoGap
  <1>1. IInv => NoGap
    BY DEF IInv
  <1> QED
    BY Invariance, <1>1, PTL

\* The unconditional store of update_after_push never moves the watermark
\* back: the value it was computed from is still the stored one.
THEOREM WatermarkNeverBack == Spec => WatermarkGrows
  <1>1. IInv /\ [Next]_vars => [mirror'.watermark >= mirror.watermark]_vars
    <2> SUFFICES ASSUME IInv, [Next]_vars PROVE mirror'.watermark >= mirror.watermark
      OBVIOUS
    <2>1. MirrorTyped /\ mirror.watermark \in Nat
      BY DEF IInv, MirrorTyped
    <2>2. CASE RecordSuccess
      <3>1. pc = "record" /\ mirror'.watermark = target
        BY <2>1, <2>2 DEF RecordSuccess, MirrorTyped
      <3> QED
        BY <3>1 DEF IInv, PushInv, Built, SinceFresh
    <2>3. CASE mirror'.watermark = mirror.watermark
      BY <2>1, <2>3
    <2>4. CASE RecordFailure \/ Enable \/ Disable
      BY <2>1, <2>3, <2>4 DEF RecordFailure, Enable, Disable, MirrorTyped
    <2> QED
      BY <2>2, <2>3, <2>4
         DEF Next, Push, Insert, Purge, Tick, FetchCallsign, FetchOccupancy, Send, Retry,
             PostReturns, Stop, Serve, Replay, Store, RollBack, Unavailable, Reject, Lose,
             Answers, vars
  <1> QED
    BY Invariance, <1>1, PTL DEF Spec, WatermarkGrows
=============================================================================
