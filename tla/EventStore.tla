---------------------------- MODULE EventStore ----------------------------
(***************************************************************************)
(* The stored events and what removes them: the retention cycle of         *)
(* core/retention.py, which exports before it deletes, and the purge of    *)
(* invalid events.  A cycle runs on the event loop without an await, so    *)
(* two cycles never overlap; but each of its calls takes the lock of the   *)
(* database anew, and the decoders' threads, the purge and an export asked *)
(* for by a user run between them.  The files of storage/exporter.py are   *)
(* rotated by whoever has just made one.                                   *)
(***************************************************************************)
EXTENDS Integers, FiniteSets

CONSTANTS
    Retentions,     \* settings: days, max, keep, export; days 0 and max 0 are
                    \* off; one is chosen for the whole behaviour
    MaxFiles, ExportDays,   \* EXPORT_MAX_FILES, EXPORT_MAX_AGE_DAYS
    LastRow,        \* bound: rows stored in each table, and in both
    LastRows,
    LastTime,       \* bound: the clock, in days
    LastExport,     \* bound: exports in one behaviour
    UserExports     \* bound: exports asked for by a user in one behaviour

ASSUME StoreAssumption ==
    /\ Retentions \subseteq [days : Nat, max : Nat, keep : Nat, export : BOOLEAN]
    /\ MaxFiles \in Nat \ {0} /\ ExportDays \in Nat
    /\ {LastRow, LastRows, LastTime, LastExport, UserExports} \subseteq Nat
    \* fewer exports come between the making of one and its rotation than
    \* files are kept, or the rotation takes the one just made
    /\ UserExports < MaxFiles

VARIABLES
    limits,     \* the retention settings
    clock,
    rows,       \* occupancy_events and callsign_events
    nextId,     \* sqlite_sequence of each table
    cycle,      \* run_retention: where it is and what it picked
    exporter,   \* create_export, per caller: where it is, its file, what it removes
    files,      \* the exports: table and directory
    made,       \* exports made so far; a user's among them
    spared      \* history: the rows the cycle under way has to leave

storeVars == <<limits, clock, rows, nextId, cycle, exporter, files, made, spared>>

Tables == {"occupancy", "callsign"}
Row == [tbl : Tables, id : 1 .. LastRow, stamp : 0 .. LastTime, nameless : BOOLEAN]
File == [n : 0 .. LastExport, at : 0 .. LastTime]
Idle == [pc |-> "idle", picked |-> {}, ids |-> {}, failed |-> FALSE,
         file |-> [n |-> 0, at |-> 0]]
NoExport == [pc |-> "none", file |-> [n |-> 0, at |-> 0], doomed |-> {}]

StoreTypeOK ==
    /\ limits \in Retentions /\ clock \in 0 .. LastTime
    /\ rows \in SUBSET Row
    /\ nextId \in [Tables -> 1 .. LastRow + 1]
    /\ cycle \in [pc : {"idle", "all", "old", "export", "exporting", "delete"},
                  picked : SUBSET Row, ids : SUBSET (Tables \X (1 .. LastRow)),
                  failed : BOOLEAN, file : File]
    /\ exporter \in [{"cycle", "user"} -> [pc : {"none", "add", "list", "remove"},
                                          file : File, doomed : SUBSET File]]
    /\ files \in SUBSET File
    /\ made \in [all : 0 .. LastExport, user : 0 .. UserExports]
    /\ spared \in SUBSET Row

StoreInit ==
    /\ limits \in Retentions /\ clock = 0
    /\ rows = {} /\ nextId = [t \in Tables |-> 1]
    /\ cycle = Idle /\ exporter = [x \in {"cycle", "user"} |-> NoExport]
    /\ files = {} /\ made = [all |-> 0, user |-> 0]
    /\ spared = {}

Key(r) == <<r.tbl, r.id>>

-----------------------------------------------------------------------------
(***************************************************************************)
(* The tables.                                                             *)
(***************************************************************************)
\* AUTOINCREMENT
NewId(t) == nextId[t]

\* insert_occupancy, insert_callsign: the stamp is the decoder's, which may be
\* late; a voice or a CW event may have no callsign
RowInserted ==
    /\ \E t \in Tables, stamp \in {clock, IF clock = 0 THEN 0 ELSE clock - 1},
          nameless \in BOOLEAN :
        LET r == [tbl |-> t, id |-> NewId(t), stamp |-> stamp, nameless |-> nameless] IN
        /\ nextId[t] <= LastRow /\ nextId["occupancy"] + nextId["callsign"] < LastRows + 2
        /\ (nameless => t = "callsign")
        /\ rows' = rows \cup {r}
        /\ nextId' = [nextId EXCEPT ![t] = @ + 1]
        /\ spared' = IF cycle.pc \in {"export", "exporting", "delete"}
                     THEN spared \cup {r} ELSE spared
    /\ UNCHANGED <<limits, clock, cycle, exporter, files, made>>

\* purge_invalid_events: a row without a callsign counts as invalid, the voice
\* and CW events that never have one included
InvalidPurged ==
    /\ \E r \in rows : r.nameless
    /\ rows' = {r \in rows : ~r.nameless}
    /\ UNCHANGED <<limits, clock, nextId, cycle, exporter, files, made, spared>>

\* neither a cycle nor an export takes a day
DayPasses ==
    /\ cycle.pc = "idle" /\ exporter["user"].pc = "none"
    /\ clock < LastTime /\ clock' = clock + 1
    /\ UNCHANGED <<limits, rows, nextId, cycle, exporter, files, made, spared>>

-----------------------------------------------------------------------------
(***************************************************************************)
(* run_retention, by the loop of main.py once a day or by an administrator *)
(* at any time.                                                            *)
(***************************************************************************)
\* the count has priority over the age
CycleBegins ==
    /\ cycle.pc = "idle" /\ exporter["cycle"].pc = "none"
    /\ \/ /\ limits.max > 0 /\ Cardinality(rows) >= limits.max
          /\ cycle' = [Idle EXCEPT !.pc = "all"]
       \/ /\ limits.max = 0 \/ Cardinality(rows) < limits.max
          /\ limits.days > 0
          /\ cycle' = [Idle EXCEPT !.pc = "old"]
    /\ spared' = {}
    /\ UNCHANGED <<limits, clock, rows, nextId, exporter, files, made>>

\* what is exported, and what is deleted after it
Picked(events, gone) ==
    /\ cycle' = [cycle EXCEPT !.picked = events, !.ids = {Key(r) : r \in gone},
                    !.pc = IF limits.export /\ events # {} THEN "export" ELSE "delete"]
    /\ spared' = rows \ gone

Newest(kept) == \A r \in kept, s \in rows \ kept : r.stamp >= s.stamp

\* get_all_events_and_keep_newest: all are exported, even if none is deleted
CyclePicksAll ==
    /\ cycle.pc = "all"
    /\ \/ Cardinality(rows) <= limits.keep /\ Picked(rows, {})
       \/ /\ Cardinality(rows) > limits.keep
          /\ \E kept \in SUBSET rows :
              /\ Cardinality(kept) = limits.keep /\ Newest(kept)
              /\ Picked(rows, rows \ kept)
    /\ UNCHANGED <<limits, clock, rows, nextId, exporter, files, made>>

Old == {r \in rows : r.stamp < clock - limits.days}

\* get_purgeable_events, by age
CyclePicksOld ==
    /\ cycle.pc = "old"
    /\ \/ Old # {} /\ Picked(Old, Old)
       \/ Old = {} /\ cycle' = Idle /\ UNCHANGED spared
    /\ UNCHANGED <<limits, clock, rows, nextId, exporter, files, made>>

\* mutant: the cycle deletes before its export is in the table
MutCycleDeletes ==
    /\ \/ cycle.pc = "delete" /\ UNCHANGED exporter
       \/ cycle.pc = "exporting" /\ exporter' = [exporter EXCEPT !["cycle"] = NoExport]
    /\ rows' = {r \in rows : Key(r) \notin cycle.ids}
    /\ cycle' = Idle /\ spared' = {}
    /\ UNCHANGED <<limits, clock, nextId, files, made>>

\* delete_events_by_ids, after an export that succeeded, failed or is off
CycleDeletes ==
    /\ cycle.pc = "delete"
    /\ rows' = {r \in rows : Key(r) \notin cycle.ids}
    /\ cycle' = Idle /\ spared' = {}
    /\ UNCHANGED <<limits, clock, nextId, exporter, files, made>>

-----------------------------------------------------------------------------
(***************************************************************************)
(* create_export and apply_rotation.                                       *)
(***************************************************************************)
\* the file gets its date when its writing begins
NewFile == [n |-> made.all + 1, at |-> clock]
Writing == [pc |-> "add", file |-> NewFile, doomed |-> {}]

CycleExports ==
    /\ cycle.pc = "export" /\ made.all < LastExport
    /\ exporter' = [exporter EXCEPT !["cycle"] = Writing]
    /\ cycle' = [cycle EXCEPT !.pc = "exporting", !.file = NewFile]
    /\ made' = [made EXCEPT !.all = @ + 1]
    /\ UNCHANGED <<limits, clock, rows, nextId, files, spared>>

\* a user exports rows of its choice
UserAsks ==
    /\ exporter["user"].pc = "none" /\ made.user < UserExports /\ made.all < LastExport
    /\ exporter' = [exporter EXCEPT !["user"] = Writing]
    /\ made' = [all |-> made.all + 1, user |-> made.user + 1]
    /\ UNCHANGED <<limits, clock, rows, nextId, cycle, files, spared>>

\* the cycle goes on to delete when its export is done, or has failed
CycleGoesOn(x, failed) ==
    cycle' = IF x = "cycle" THEN [cycle EXCEPT !.pc = "delete", !.failed = failed]
             ELSE cycle

\* the file cannot be written, or not be entered: run_retention logs it
ExportFails(x) ==
    /\ exporter[x].pc = "add"
    /\ exporter' = [exporter EXCEPT ![x] = NoExport]
    /\ CycleGoesOn(x, TRUE)
    /\ UNCHANGED <<limits, clock, rows, nextId, files, made, spared>>

ExportAdded(x) ==
    /\ exporter[x].pc = "add"
    /\ files' = files \cup {exporter[x].file}
    /\ exporter' = [exporter EXCEPT ![x].pc = "list"]
    /\ UNCHANGED <<limits, clock, rows, nextId, cycle, made, spared>>

\* the files that MaxFiles newer ones precede
Overflow == {x \in files : Cardinality({y \in files : y.n > x.n}) >= MaxFiles}

RotationListed(x) ==
    /\ exporter[x].pc = "list"
    /\ exporter' = [exporter EXCEPT ![x].pc = "remove",
          ![x].doomed = {f \in files : f.at < clock - ExportDays} \cup Overflow]
    /\ UNCHANGED <<limits, clock, rows, nextId, cycle, files, made, spared>>

RotationRemoves(x) ==
    /\ exporter[x].pc = "remove"
    /\ \/ /\ exporter[x].doomed # {}
          /\ \E f \in exporter[x].doomed :
              /\ files' = files \ {f}
              /\ exporter' = [exporter EXCEPT ![x].doomed = @ \ {f}]
          /\ UNCHANGED cycle
       \/ /\ exporter[x].doomed = {}
          /\ exporter' = [exporter EXCEPT ![x] = NoExport]
          /\ CycleGoesOn(x, FALSE)
          /\ UNCHANGED files
    /\ UNCHANGED <<limits, clock, rows, nextId, made, spared>>

\* what is in the tables and on disk stays
StoreCrashes ==
    /\ cycle.pc # "idle" \/ exporter["user"].pc # "none"
    /\ cycle' = Idle /\ exporter' = [x \in {"cycle", "user"} |-> NoExport]
    /\ spared' = {}
    /\ UNCHANGED <<limits, clock, rows, nextId, files, made>>

StoreNext ==
    \/ RowInserted \/ InvalidPurged \/ DayPasses
    \/ CycleBegins \/ CyclePicksAll \/ CyclePicksOld \/ CycleExports \/ CycleDeletes
    \/ UserAsks \/ StoreCrashes
    \/ \E x \in {"cycle", "user"} : \/ ExportFails(x) \/ ExportAdded(x)
                                    \/ RotationListed(x) \/ RotationRemoves(x)

StoreSpec == StoreInit /\ [][StoreNext]_storeVars

-----------------------------------------------------------------------------
\* Whatever the decoders, the purge and other exports do between its calls, a
\* cycle deletes none of the newest rows, none that is young enough, none that
\* came after it had picked; and what it deletes is in a file that is still
\* there, unless its export is off or has failed.
PurgeKeeps == [][
    \A r \in rows \ rows' :
        \/ r.nameless /\ UNCHANGED cycle
        \/ /\ r \notin spared
           /\ limits.export /\ ~cycle.failed => r \in cycle.picked /\ cycle.file \in files]_storeVars
=============================================================================
