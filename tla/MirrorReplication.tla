------------------------- MODULE MirrorReplication -------------------------
(***************************************************************************)
(* external_mirrors/: the pusher copies the rows of two SQLite tables to a *)
(* PHP receiver, one signed POST at a time.  A single integer, the         *)
(* watermark, is the cursor of both tables: a push ships the next page of  *)
(* each table above it, and an acknowledged push moves it.                 *)
(*                                                                         *)
(* This is one mirror.  A push crosses threads and machines: the row of    *)
(* the mirror is read at the start of a tick and used at its end, the two  *)
(* pages are two transactions, the POST is retried with the same nonce,    *)
(* and a request may reach the receiver after its sender gave it up.       *)
(* Event writers, retention, the admin and a stop of the process           *)
(* interleave with all of it.                                              *)
(***************************************************************************)
EXTENDS Naturals, FiniteSets

CONSTANTS
    Scopes,      \* data_scopes of the mirror
    BatchSize,   \* MAX_BATCH_SIZE
    MaxRetries,  \* of MirrorHttpClient
    Threshold,   \* AUTO_DISABLE_THRESHOLD
    Nonces,      \* identities of pushes, reused once no request carries them
    Faults,      \* which of AllFaults may happen
    MaxId,       \* bound: rows ever inserted in a table
    MaxStops     \* bound: stops and crashes of the process

Tables == {"callsign", "occupancy"}

\* network: a request is lost, or its sender gives up waiting for the answer;
\* server: db_unavailable or db_error; reject: signature or clock refused;
\* stop: the process stops, or crashes, during a push
AllFaults == {"network", "server", "reject", "stop"}

ASSUME MirrorAssumption ==
    /\ Scopes \subseteq Tables /\ Scopes # {}
    /\ BatchSize \in Nat \ {0}
    /\ MaxRetries \in Nat /\ Threshold \in Nat \ {0}
    /\ MaxId \in Nat /\ MaxStops \in Nat
    /\ Faults \subseteq AllFaults

VARIABLES
    rows, last,        \* per table: the ids present, the last id given out
    mirror,            \* the row of external_mirrors
    pc,                \* where _push_one is
    since,             \* last_push_watermark as the tick read it
    page, target,      \* the payload: rows per table, new_watermark
    nonce, attempt,    \* of the POST under way
    answer,            \* what came back for this attempt
    inflight,          \* requests on the wire
    seen, received,    \* receiver: recorded nonces, stored rows per table
    stops

store    == <<rows, last>>
build    == <<since, page, target>>
client   == <<nonce, attempt, answer>>
receiver == <<seen, received>>
vars     == <<store, mirror, pc, build, client, inflight, receiver, stops>>

Phase  == {"idle", "callsign", "occupancy", "send", "wait", "record"}
Answer == {"none", "ok", "client_error", "server_error"}
Request == [nonce : Nonces, attempt : 1 .. MaxRetries + 1,
            page : [Tables -> SUBSET Nat]]

TypeOK ==
    /\ rows \in [Tables -> SUBSET Nat] /\ last \in [Tables -> Nat]
    /\ mirror \in [watermark : Nat, enabled : BOOLEAN, failures : Nat]
    /\ pc \in Phase
    /\ since \in Nat
    /\ page \in [Tables -> SUBSET Nat] /\ target \in Nat
    /\ nonce \in Nonces /\ attempt \in 1 .. MaxRetries + 1
    /\ answer \in Answer
    /\ inflight \subseteq Request
    /\ seen \subseteq Nonces /\ received \in [Tables -> SUBSET Nat]
    /\ stops \in Nat

NoRows == [t \in Tables |-> {}]

Init ==
    /\ rows = NoRows /\ last = [t \in Tables |-> 0]
    /\ mirror = [watermark |-> 0, enabled |-> TRUE, failures |-> 0]
    /\ pc = "idle" /\ since = 0
    /\ page = NoRows /\ target = 0
    /\ nonce \in Nonces /\ attempt = 1 /\ answer = "none"
    /\ inflight = {} /\ seen = {} /\ received = NoRows
    /\ stops = 0

-----------------------------------------------------------------------------
(***************************************************************************)
(* The event tables.  Their ids are AUTOINCREMENT: never given out twice.  *)
(***************************************************************************)
Insert(t) ==
    /\ last[t] < MaxId
    /\ last' = [last EXCEPT ![t] = @ + 1]
    /\ rows' = [rows EXCEPT ![t] = @ \cup {last[t] + 1}]
    /\ UNCHANGED <<mirror, pc, build, client, inflight, receiver, stops>>

\* run_retention and purge_invalid_events: one commit for both tables
Purge ==
    /\ \E kept \in [Tables -> SUBSET UNION {rows[t] : t \in Tables}] :
          /\ \A t \in Tables : kept[t] \subseteq rows[t]
          /\ kept # rows
          /\ rows' = kept
    /\ UNCHANGED <<last, mirror, pc, build, client, inflight, receiver, stops>>

-----------------------------------------------------------------------------
(***************************************************************************)
(* build_payload.                                                          *)
(***************************************************************************)
IsMaxId(m, S) ==
    IF S = {} THEN m = 0 ELSE m \in S /\ \A i \in S : i <= m

Above(t) == {i \in rows[t] : i > since}

\* ORDER BY id ASC LIMIT batch_size
IsPage(P, t) ==
    /\ P \subseteq Above(t)
    /\ \A j \in P, i \in Above(t) : i < j => i \in P
    /\ Cardinality(P) <= BatchSize
    /\ P = Above(t) \/ Cardinality(P) = BatchSize

\* mutant: a full page counts as drained
MutSafeRows(P, t) == rows[t]

\* _table_frontier: all of the table when the page drained it
SafeRows(P, t) == IF Cardinality(P) < BatchSize THEN rows[t] ELSE P

\* one transaction reads a page and MAX(id): n is the frontier it gives
Fetch(t, n) ==
    \E P \in SUBSET Above(t) :
        /\ IsPage(P, t)
        /\ page' = [page EXCEPT ![t] = P]
        /\ IsMaxId(n, SafeRows(P, t))

Frontiers == 0 .. MaxId

FetchCallsign ==
    /\ pc = "callsign"
    /\ IF "callsign" \in Scopes THEN \E n \in Frontiers : Fetch("callsign", n) /\ target' = n
                               ELSE UNCHANGED <<page, target>>
    /\ pc' = "occupancy"
    /\ UNCHANGED <<store, mirror, since, client, inflight, receiver, stops>>

\* the frontier that every active table has reached
Candidate(n) == IF "callsign" \in Scopes /\ target < n THEN target ELSE n

\* mutant: the candidate is taken as it is
MutNewWatermark(n) == n

NewWatermark(n) == IF n > since THEN n ELSE since

FetchOccupancy ==
    /\ pc = "occupancy"
    /\ IF "occupancy" \in Scopes
       THEN \E n \in Frontiers :
               /\ Fetch("occupancy", n)
               /\ target' = NewWatermark(Candidate(n))
       ELSE UNCHANGED page /\ target' = NewWatermark(target)
    /\ pc' = "send"
    /\ UNCHANGED <<store, mirror, since, client, inflight, receiver, stops>>

-----------------------------------------------------------------------------
(***************************************************************************)
(* _tick_once, _push_one and MirrorHttpClient.post.                        *)
(***************************************************************************)
\* the mirror is enabled and due
Tick ==
    /\ pc = "idle" /\ mirror.enabled
    /\ since' = mirror.watermark
    /\ pc' = "callsign"
    /\ UNCHANGED <<store, mirror, page, target, client, inflight, receiver, stops>>

\* _push_one is left: its locals are gone
Leave ==
    /\ pc' = "idle"
    /\ since' = 0 /\ page' = NoRows /\ target' = 0
    /\ attempt' = 1 /\ answer' = "none"
    /\ UNCHANGED nonce

Post(n, a) ==
    /\ nonce' = n /\ attempt' = a /\ answer' = "none"
    /\ inflight' = inflight \cup {[nonce |-> n, attempt |-> a, page |-> page]}

\* a fresh nonce: one that no request carries and no receiver remembers
Send ==
    /\ pc = "send"
    /\ \E n \in Nonces :
          /\ \A r \in inflight : r.nonce # n
          /\ Post(n, 1)
          /\ seen' = seen \ {n}
    /\ pc' = "wait"
    /\ UNCHANGED <<store, mirror, build, received, stops>>

\* 5xx, a timeout or a transport error: the same body and nonce once more
Failed == answer = "server_error" \/ (answer = "none" /\ "network" \in Faults)

\* mutants: the attempts are not limited, or not counted
MutRetryMore ==
    /\ pc = "wait" /\ Failed
    /\ Post(nonce, attempt + 1)
    /\ UNCHANGED <<store, mirror, pc, build, receiver, stops>>
MutRetry ==
    /\ pc = "wait" /\ Failed
    /\ Post(nonce, attempt)
    /\ UNCHANGED <<store, mirror, pc, build, receiver, stops>>

Retry ==
    /\ pc = "wait" /\ Failed /\ attempt <= MaxRetries
    /\ Post(nonce, attempt + 1)
    /\ UNCHANGED <<store, mirror, pc, build, receiver, stops>>

\* 2xx, 4xx, or the last attempt failed; the answer is kept for the record
PostReturns ==
    /\ pc = "wait"
    /\ \/ answer \in {"ok", "client_error"}
       \/ Failed /\ attempt > MaxRetries
    /\ pc' = "record"
    /\ UNCHANGED <<store, mirror, build, client, inflight, receiver, stops>>

\* mutant: the watermark is not stored
MutRecordSuccess ==
    /\ pc = "record" /\ answer = "ok"
    /\ mirror' = [mirror EXCEPT !.failures = 0]
    /\ Leave
    /\ UNCHANGED <<store, inflight, receiver, stops>>

\* update_after_push
RecordSuccess ==
    /\ pc = "record" /\ answer = "ok"
    /\ mirror' = [mirror EXCEPT !.watermark = target, !.failures = 0]
    /\ Leave
    /\ UNCHANGED <<store, inflight, receiver, stops>>

RecordFailure ==
    /\ pc = "record" /\ answer # "ok"
    /\ mirror' = [mirror EXCEPT !.failures = @ + 1,
                                !.enabled = @ /\ mirror.failures + 1 < Threshold]
    /\ Leave
    /\ UNCHANGED <<store, inflight, receiver, stops>>

\* stop cancels _run, but the thread of the POST goes on with its retries;
\* a crash ends both, and the last row written is what a restart reads
Stop ==
    /\ "stop" \in Faults /\ stops < MaxStops
    /\ pc # "idle"
    /\ stops' = stops + 1
    /\ Leave
    /\ \E more \in SUBSET {[nonce |-> nonce, attempt |-> a, page |-> page] :
                              a \in attempt + 1 .. MaxRetries + 1} :
          /\ pc # "wait" => more = {}
          /\ inflight' = inflight \cup more
    /\ UNCHANGED <<store, mirror, receiver>>

-----------------------------------------------------------------------------
(***************************************************************************)
(* repository.set_enabled.                                                 *)
(***************************************************************************)
Enable ==
    /\ ~mirror.enabled
    /\ mirror' = [mirror EXCEPT !.enabled = TRUE, !.failures = 0]
    /\ UNCHANGED <<store, pc, build, client, inflight, receiver, stops>>

Disable ==
    /\ mirror.enabled
    /\ mirror' = [mirror EXCEPT !.enabled = FALSE]
    /\ UNCHANGED <<store, pc, build, client, inflight, receiver, stops>>

-----------------------------------------------------------------------------
(***************************************************************************)
(* ingest.php.  An answer is heard only by an attempt that still waits.    *)
(***************************************************************************)
Answers(r, s) ==
    /\ inflight' = inflight \ {r}
    /\ answer' = IF pc = "wait" /\ r.nonce = nonce /\ r.attempt = attempt
                 THEN s ELSE answer
    /\ UNCHANGED <<store, mirror, pc, build, nonce, attempt, stops>>

\* 409: the nonce is there, whether or not its rows are
Replay(r) ==
    /\ r.nonce \in seen
    /\ Answers(r, "client_error")
    /\ UNCHANGED receiver

\* the nonce and the rows are two transactions
Store(r) ==
    /\ r.nonce \notin seen
    /\ seen' = seen \cup {r.nonce}
    /\ received' = [t \in Tables |-> received[t] \cup r.page[t]]
    /\ Answers(r, "ok")

\* 500 db_error: the rows are rolled back, the nonce stays
RollBack(r) ==
    /\ "server" \in Faults
    /\ r.nonce \notin seen
    /\ seen' = seen \cup {r.nonce}
    /\ Answers(r, "server_error")
    /\ UNCHANGED received

\* 500 db_unavailable
Unavailable(r) ==
    /\ "server" \in Faults
    /\ Answers(r, "server_error")
    /\ UNCHANGED receiver

\* 401
Reject(r) ==
    /\ "reject" \in Faults
    /\ Answers(r, "client_error")
    /\ UNCHANGED receiver

Lose(r) ==
    /\ "network" \in Faults
    /\ inflight' = inflight \ {r}
    /\ UNCHANGED <<store, mirror, pc, build, client, receiver, stops>>

-----------------------------------------------------------------------------
Push ==
    \/ Tick
    \/ FetchCallsign \/ FetchOccupancy
    \/ Send \/ Retry \/ PostReturns
    \/ RecordSuccess \/ RecordFailure

Serve(r) ==
    Replay(r) \/ Store(r) \/ RollBack(r) \/ Unavailable(r) \/ Reject(r) \/ Lose(r)

Next ==
    \/ \E t \in Tables : Insert(t)
    \/ Purge
    \/ Push
    \/ Stop
    \/ Enable \/ Disable
    \/ \E r \in inflight : Serve(r)

Spec == Init /\ [][Next]_vars

\* the pusher task and its thread take their steps, and a request does not
\* stay on the wire for ever; nothing is assumed of the answer
FairSpec ==
    /\ Spec
    /\ WF_vars(Push)
    /\ WF_vars(\E r \in inflight : Serve(r))

-----------------------------------------------------------------------------
(***************************************************************************)
(* Properties.                                                             *)
(***************************************************************************)
\* "a fast-moving table cannot cause a slow-moving one to be skipped over"
\* (build_payload): every row of an active table up to the watermark is at
\* the receiver, whatever was lost, repeated, late, rolled back or purged.
NoGap ==
    \A t \in Scopes : \A i \in rows[t] :
        i <= mirror.watermark => i \in received[t]

\* The watermark that a push records was computed from one read at the start
\* of the tick; still it never goes back, also when retention has shrunk the
\* tables (update_after_push stores the value unconditionally).
WatermarkGrows == [][mirror'.watermark >= mirror.watermark]_vars

\* A push ends, by its answer or by its last attempt (http_client.post).
PushEnds == pc = "wait" ~> pc = "idle"

\* When the writers pause, every row gets to the receiver, unless the mirror
\* is disabled or another active table ends below the row: the shared cursor
\* cannot pass the end of the shorter table (_table_frontier).
Blocked(t, i) == \E u \in Scopes \ {t} : \A j \in rows[u] : j < i
Pending(t) == IF mirror.enabled THEN rows[t] \ received[t] ELSE {}
Replicates ==
    []<>(\A t \in Scopes : \A i \in Pending(t) : Blocked(t, i))

\* "clears a 200 k backlog in well under an hour" (DEFAULT_BATCH_SIZE): with
\* a receiver that accepts every push, the backlog is shipped.
BacklogClears == []<>(\A t \in Scopes : Pending(t) = {})
=============================================================================
