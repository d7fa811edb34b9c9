----------------------------- MODULE PolledFeed -----------------------------
(***************************************************************************)
(* backend/app/websocket/logs.py and status.py: two feeds that poll once a *)
(* second.  A reader of the log remembers an index into state.logs, a      *)
(* deque with a limit; the notice of a retention run is taken off the      *)
(* shared state by the first reader of the status that sees it.            *)
(***************************************************************************)
EXTENDS Naturals, Sequences

CONSTANTS
    Readers,      \* connections, each with a handler for one of the two feeds
    LogMax,       \* deque(maxlen=500)
    LastLog,      \* bound: entries logged
    LastNotice    \* bound: retention runs that purged

ASSUME PolledAssumption ==
    LogMax \in Nat \ {0} /\ LastLog \in Nat /\ LastNotice \in Nat

VARIABLES
    logged,      \* entries logged so far; state.logs holds the last LogMax
    noticed,     \* retention runs so far
    notice,      \* state.retention_notification; 0: None
    reader,      \* each handler: the feed it serves, its last_idx, the notice
                 \* in the payload it is sending
    read,        \* history: the entries a connection was sent, in order
    told         \* history: to how many connections a notice went out

polledVars == <<logged, noticed, notice, reader, read, told>>

Away == [feed |-> "none", last |-> 0, sending |-> 0]

PolledTypeOK ==
    /\ logged \in 0 .. LastLog /\ noticed \in 0 .. LastNotice /\ notice \in 0 .. LastNotice
    /\ reader \in [Readers -> [feed : {"none", "log", "status", "sending"},
                               last : 0 .. LogMax, sending : 0 .. LastNotice]]
    /\ read \in [Readers -> Seq(1 .. LastLog)]
    /\ told \in [1 .. LastNotice -> 0 .. 2]

PolledInit ==
    /\ logged = 0 /\ noticed = 0 /\ notice = 0
    /\ reader = [r \in Readers |-> Away]
    /\ read = [r \in Readers |-> <<>>]
    /\ told = [k \in 1 .. LastNotice |-> 0]

-----------------------------------------------------------------------------
Arrives(r, feed) ==
    /\ reader[r] = Away
    /\ reader' = [reader EXCEPT ![r].feed = feed]
    /\ read' = [read EXCEPT ![r] = <<>>]
    /\ UNCHANGED <<logged, noticed, notice, told>>

Departs(r) ==
    /\ reader[r] # Away /\ reader' = [reader EXCEPT ![r] = Away]
    /\ UNCHANGED <<logged, noticed, notice, read, told>>

\* helpers.log: the deque drops its oldest entry at the limit
Logs ==
    /\ logged < LastLog /\ logged' = logged + 1
    /\ UNCHANGED <<noticed, notice, reader, read, told>>

\* list(state.logs)
LogsSnap ==
    LET kept == IF logged < LogMax THEN logged ELSE LogMax
    IN [i \in 1 .. kept |-> logged - kept + i]

\* logs_snap[last_idx:]
BatchAfter(last) == SubSeq(LogsSnap, last + 1, Len(LogsSnap))

LogPolls(r) ==
    /\ reader[r].feed = "log" /\ reader[r].last < Len(LogsSnap)
    /\ read' = [read EXCEPT ![r] = @ \o BatchAfter(reader[r].last)]
    /\ reader' = [reader EXCEPT ![r].last = Len(LogsSnap)]
    /\ UNCHANGED <<logged, noticed, notice, told>>

\* run_retention deleted something; a notice nobody took is replaced
Purged ==
    /\ noticed < LastNotice /\ noticed' = noticed + 1
    /\ notice' = noticed + 1
    /\ UNCHANGED <<logged, reader, read, told>>

\* mutant: the notice is cleared after the payload was sent
MutNoticeTaken(r) == notice' = notice

\* "Attach and consume the retention notification": no await in between
NoticeTaken(r) == notice' = 0

StatusPolls(r) ==
    /\ reader[r].feed = "status"
    /\ reader' = [reader EXCEPT ![r] = [@ EXCEPT !.feed = "sending", !.sending = notice]]
    /\ NoticeTaken(r)
    /\ UNCHANGED <<logged, noticed, read, told>>

\* send_json went through; if it raises the handler closes, and the notice is lost
StatusSent(r) ==
    /\ reader[r].feed = "sending"
    /\ told' = [k \in DOMAIN told |-> told[k] + (IF reader[r].sending = k THEN 1 ELSE 0)]
    /\ reader' = [reader EXCEPT ![r] = [@ EXCEPT !.feed = "status", !.sending = 0]]
    /\ UNCHANGED <<logged, noticed, notice, read>>

PolledNext ==
    \/ Logs \/ Purged
    \/ \E r \in Readers :
         \/ \E feed \in {"log", "status"} : Arrives(r, feed)
         \/ Departs(r) \/ LogPolls(r) \/ StatusPolls(r) \/ StatusSent(r)

PolledSpec == PolledInit /\ [][PolledNext]_polledVars

-----------------------------------------------------------------------------
\* "fires once per event" (ws_status) and "batches of new log entries"
\* (ws_logs): however many connections poll, a notice goes to one of them at
\* most; a connection is sent the entries of the log in order and none twice,
\* and until the deque has reached its limit it misses none.
PollsExact ==
    /\ \A k \in DOMAIN told : told[k] <= 1
    /\ \A r \in Readers :
         /\ \A i, j \in DOMAIN read[r] : i < j => read[r][i] < read[r][j]
         /\ logged <= LogMax /\ reader[r].feed = "log" =>
              read[r] = [i \in 1 .. reader[r].last |-> i]
=============================================================================
