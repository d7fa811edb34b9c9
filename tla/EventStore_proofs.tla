------------------------- MODULE EventStore_proofs -------------------------
(***************************************************************************)
(* Proofs about EventStore, for any settings of the retention, any number  *)
(* of rows, days and exports, and every interleaving with the decoders,    *)
(* the purge, a user's exports and a crash.                                *)
(***************************************************************************)
EXTENDS EventStore, FiniteSetTheorems, TLAPS

Exporters == {"cycle", "user"}

\* A key names one row for ever.
RowsNumbered ==
    /\ \A r \in rows : r.id < nextId[r.tbl]
    /\ \A r, s \in rows : Key(r) = Key(s) => r = s

\* What a cycle will delete was picked, and none of it is to be spared.
PickedApart ==
    /\ \A k \in cycle.ids : k[2] < nextId[k[1]]
    /\ \A r \in rows : Key(r) \in cycle.ids => r \in cycle.picked
    /\ \A r \in spared : Key(r) \notin cycle.ids

\* A number names one file, the files being written included.
FilesNumbered ==
    /\ \A f \in files : f.n <= made.all
    /\ \A f, g \in files : f.n = g.n => f = g
    /\ \A x \in Exporters :
        /\ \A d \in exporter[x].doomed : d.n <= made.all
        /\ exporter[x].pc = "add" =>
             /\ exporter[x].file.n <= made.all
             /\ \A f \in files : f.n # exporter[x].file.n
    /\ exporter["cycle"].pc = "add" /\ exporter["user"].pc = "add"
         => exporter["cycle"].file.n # exporter["user"].file.n

\* the cycle has a file, or is making one
Filed ==
    \/ cycle.pc = "exporting"
    \/ cycle.pc = "delete" /\ limits.export /\ ~cycle.failed /\ cycle.picked # {}

\* The cycle's file is of today, only exports of a user have come after it, and
\* nobody is about to remove it.
FileKept ==
    /\ exporter["cycle"].pc # "none" <=> cycle.pc = "exporting"
    /\ cycle.pc = "exporting" =>
         exporter["cycle"].file = cycle.file /\ cycle.file \notin exporter["cycle"].doomed
    /\ Filed =>
         /\ cycle.file.at = clock
         /\ cycle.file.n <= made.all /\ made.all <= cycle.file.n + made.user
         /\ cycle.file \notin exporter["user"].doomed
         /\ exporter["cycle"].pc # "add" => cycle.file \in files

StoreInv ==
    StoreTypeOK /\ RowsNumbered /\ PickedApart /\ FilesNumbered /\ FileKept

-----------------------------------------------------------------------------
\* what the type invariant says of cycle
Cycles == [pc : {"idle", "all", "old", "export", "exporting", "delete"},
           picked : SUBSET Row, ids : SUBSET (Tables \X (1 .. LastRow)),
           failed : BOOLEAN, file : File]

LEMMA IdleTyped ==
  ASSUME NEW pc \in {"idle", "all", "old"}
  PROVE  [Idle EXCEPT !.pc = pc] \in Cycles /\ Idle \in Cycles
  <1>1. [n |-> 0, at |-> 0] \in File
    BY StoreAssumption DEF File
  <1> HIDE DEF File, Row
  <1> QED  BY <1>1 DEF Idle, Cycles

\* what it says of an exporter
Exports == [pc : {"none", "add", "list", "remove"}, file : File, doomed : SUBSET File]

LEMMA ExportTyped ==
  /\ NoExport \in Exports
  /\ NewFile \in File => Writing \in Exports
  <1>1. [n |-> 0, at |-> 0] \in File
    BY StoreAssumption DEF File
  <1> QED  BY <1>1 DEF NoExport, Writing, Exports

LEMMA StoreInitial == StoreInit => StoreInv
  BY StoreAssumption DEF StoreInit, StoreInv, StoreTypeOK, RowsNumbered, PickedApart, FilesNumbered,
     FileKept, Filed, Exporters, Tables, Row, File, Idle, NoExport

-----------------------------------------------------------------------------
(***************************************************************************)
(* The tables.                                                             *)
(***************************************************************************)
LEMMA RowInsertedKeeps ==
  ASSUME StoreInv, RowInserted
  PROVE  StoreInv'
  <1> USE DEF StoreInv
  <1>1. PICK t \in Tables, stamp \in {clock, IF clock = 0 THEN 0 ELSE clock - 1}, nameless \in BOOLEAN :
          LET r == [tbl |-> t, id |-> nextId[t], stamp |-> stamp, nameless |-> nameless] IN
          /\ nextId[t] <= LastRow
          /\ rows' = rows \cup {r}
          /\ nextId' = [nextId EXCEPT ![t] = @ + 1]
          /\ spared' = spared \cup {r} \/ spared' = spared
    BY DEF RowInserted, NewId
  <1> DEFINE r == [tbl |-> t, id |-> nextId[t], stamp |-> stamp, nameless |-> nameless]
  <1>2. /\ UNCHANGED <<limits, clock, cycle, exporter, files, made>>
        /\ nextId[t] \in 1 .. LastRow /\ stamp \in 0 .. LastTime
    BY <1>1, StoreAssumption DEF RowInserted, StoreTypeOK
  <1>3. r \in Row /\ r.id = nextId[t] /\ r.tbl = t
    BY <1>1, <1>2 DEF Row
  <1>4. \A u \in Tables : nextId'[u] = (IF u = t THEN nextId[t] + 1 ELSE nextId[u])
    BY <1>1 DEF StoreTypeOK
  <1>5. StoreTypeOK'
    BY <1>1, <1>2, <1>3, StoreAssumption DEF StoreTypeOK
  <1>6. RowsNumbered'
    BY <1>1, <1>2, <1>3, <1>4 DEF StoreTypeOK, RowsNumbered, Key, Row
  <1>7. Key(r) \notin cycle.ids
    BY <1>1, <1>2, <1>3 DEF StoreTypeOK, PickedApart, Key
  <1>8. PickedApart'
    BY <1>1, <1>2, <1>3, <1>4, <1>7 DEF StoreTypeOK, PickedApart, Key, Row
  <1>9. FilesNumbered' /\ FileKept'
    BY <1>2 DEF FilesNumbered, FileKept, Filed
  <1> QED  BY <1>5, <1>6, <1>8, <1>9

LEMMA InvalidPurgedKeeps ==
  ASSUME StoreInv, InvalidPurged
  PROVE  StoreInv'
  BY DEF StoreInv, InvalidPurged, StoreTypeOK, RowsNumbered, PickedApart, FilesNumbered, FileKept,
     Filed, Key

LEMMA DayPassesKeeps ==
  ASSUME StoreInv, DayPasses
  PROVE  StoreInv'
  <1>1. StoreTypeOK'
    BY StoreAssumption DEF StoreInv, DayPasses, StoreTypeOK
  <1>2. ~Filed /\ ~Filed'
    BY DEF DayPasses, Filed
  <1> QED  BY <1>1, <1>2 DEF StoreInv, DayPasses, RowsNumbered, PickedApart, FilesNumbered, FileKept, Key

-----------------------------------------------------------------------------
(***************************************************************************)
(* The cycle.                                                              *)
(***************************************************************************)
LEMMA CycleBeginsKeeps ==
  ASSUME StoreInv, CycleBegins
  PROVE  StoreInv'
  <1>1. /\ cycle' \in {[Idle EXCEPT !.pc = "all"], [Idle EXCEPT !.pc = "old"]}
        /\ cycle.pc = "idle" /\ spared' = {}
        /\ UNCHANGED <<limits, clock, rows, nextId, exporter, files, made>>
    BY DEF CycleBegins
  <1>2. StoreTypeOK'
    BY <1>1, IdleTyped DEF StoreInv, StoreTypeOK, Cycles
  <1>3. PickedApart'
    BY <1>1 DEF PickedApart, Idle
  <1>4. FileKept'
    BY <1>1 DEF StoreInv, FileKept, Filed, Idle
  <1> QED  BY <1>1, <1>2, <1>3, <1>4 DEF StoreInv, RowsNumbered, FilesNumbered, Key

\* Whatever rows are picked and deleted: the deleted ones are among the picked
\* and the others are spared.
LEMMA PickedKeeps ==
  ASSUME StoreInv, cycle.pc \in {"all", "old"}, NEW events \in SUBSET rows, NEW gone \in SUBSET events,
         Picked(events, gone), UNCHANGED <<limits, clock, rows, nextId, exporter, files, made>>
  PROVE  StoreInv'
  <1> USE DEF StoreInv
  <1> DEFINE ids == {Key(r) : r \in gone}
  <1>1. ids \subseteq Tables \X (1 .. LastRow)
    BY DEF StoreTypeOK, Row, Key
  <1>2. /\ cycle'.picked = events /\ cycle'.ids = ids /\ spared' = rows \ gone
        /\ cycle'.pc = (IF limits.export /\ events # {} THEN "export" ELSE "delete")
        /\ cycle'.failed = cycle.failed /\ cycle'.file = cycle.file
    BY DEF Picked, StoreTypeOK
  <1>3. StoreTypeOK'
    BY <1>1 DEF StoreTypeOK, Picked
  <1>4. PickedApart'
    BY <1>2 DEF PickedApart, RowsNumbered, StoreTypeOK, Row, Key
  <1>5. FileKept'
    BY <1>2 DEF FileKept, Filed
  <1> QED  BY <1>3, <1>4, <1>5 DEF RowsNumbered, FilesNumbered, Key

LEMMA CyclePicksAllKeeps ==
  ASSUME StoreInv, CyclePicksAll
  PROVE  StoreInv'
  <1>1. PICK gone \in SUBSET rows : Picked(rows, gone)
    BY DEF CyclePicksAll
  <1> QED  BY <1>1, PickedKeeps DEF CyclePicksAll

LEMMA CyclePicksOldKeeps ==
  ASSUME StoreInv, CyclePicksOld
  PROVE  StoreInv'
  <1>1. CASE Picked(Old, Old)
    BY <1>1, PickedKeeps DEF CyclePicksOld, Old
  <1>2. CASE cycle' = Idle /\ UNCHANGED spared
    <2>1. StoreTypeOK'
      BY <1>2, IdleTyped DEF StoreInv, CyclePicksOld, StoreTypeOK, Cycles
    <2>2. PickedApart'
      BY <1>2 DEF PickedApart, Idle
    <2>3. FileKept'
      BY <1>2 DEF StoreInv, CyclePicksOld, FileKept, Filed, Idle
    <2> QED  BY <2>1, <2>2, <2>3 DEF StoreInv, CyclePicksOld, RowsNumbered, FilesNumbered, Key
  <1> QED  BY <1>1, <1>2 DEF CyclePicksOld

LEMMA CycleDeletesKeeps ==
  ASSUME StoreInv, CycleDeletes
  PROVE  StoreInv'
  <1>1. /\ cycle.pc = "delete" /\ rows' \subseteq rows /\ cycle' = Idle /\ spared' = {}
        /\ UNCHANGED <<limits, clock, nextId, exporter, files, made>>
    BY DEF CycleDeletes
  <1>2. StoreTypeOK'
    BY <1>1, IdleTyped DEF StoreInv, StoreTypeOK, Cycles
  <1>3. PickedApart'
    BY <1>1 DEF PickedApart, Idle
  <1>4. FileKept'
    BY <1>1 DEF StoreInv, FileKept, Filed, Idle
  <1> QED  BY <1>1, <1>2, <1>3, <1>4 DEF StoreInv, RowsNumbered, FilesNumbered, Key

LEMMA StoreCrashesKeeps ==
  ASSUME StoreInv, StoreCrashes
  PROVE  StoreInv'
  <1>1. /\ cycle' = Idle /\ spared' = {} /\ exporter' = [x \in Exporters |-> NoExport]
        /\ UNCHANGED <<limits, clock, rows, nextId, files, made>>
    BY DEF StoreCrashes, Exporters
  <1>2. StoreTypeOK'
    BY <1>1, IdleTyped, StoreAssumption DEF StoreInv, StoreTypeOK, Cycles, NoExport, File, Exporters
  <1>3. PickedApart'
    BY <1>1 DEF PickedApart, Idle
  <1>4. FileKept' /\ FilesNumbered'
    BY <1>1 DEF StoreInv, FileKept, Filed, FilesNumbered, Idle, NoExport, Exporters
  <1> QED  BY <1>1, <1>2, <1>3, <1>4 DEF StoreInv, RowsNumbered, Key

-----------------------------------------------------------------------------
(***************************************************************************)
(* The exports.                                                            *)
(***************************************************************************)
LEMMA CycleExportsKeeps ==
  ASSUME StoreInv, CycleExports
  PROVE  StoreInv'
  <1> USE DEF StoreInv
  <1>1. /\ cycle.pc = "export" /\ exporter["cycle"].pc = "none"
        /\ cycle' = [cycle EXCEPT !.pc = "exporting", !.file = NewFile]
        /\ exporter' = [exporter EXCEPT !["cycle"] = Writing]
        /\ made' = [made EXCEPT !.all = @ + 1]
        /\ UNCHANGED <<limits, clock, rows, nextId, files, spared>>
    BY DEF CycleExports, FileKept
  <1>2. NewFile \in File /\ NewFile.n = made.all + 1 /\ NewFile.at = clock
    BY StoreAssumption DEF CycleExports, StoreTypeOK, NewFile, File
  <1>3. StoreTypeOK'
    <2>1. cycle' \in Cycles
      BY <1>1, <1>2 DEF StoreTypeOK, Cycles
    <2>2. exporter' \in [Exporters -> Exports]
      BY <1>1, <1>2, ExportTyped DEF StoreTypeOK, Exports, Exporters
    <2>3. made' \in [all : 0 .. LastExport, user : 0 .. UserExports]
      BY <1>1, StoreAssumption DEF CycleExports, StoreTypeOK
    <2> QED  BY <1>1, <2>1, <2>2, <2>3 DEF StoreTypeOK, Cycles, Exports, Exporters
  <1>4. PickedApart' /\ RowsNumbered'
    BY <1>1 DEF StoreTypeOK, PickedApart, RowsNumbered, Key
  <1>5. made'.all = made.all + 1 /\ made'.user = made.user /\ made.all \in Nat /\ made.user \in Nat
    BY <1>1 DEF StoreTypeOK
  <1>6. /\ exporter'["cycle"] = Writing /\ exporter'["user"] = exporter["user"]
        /\ cycle'.file = NewFile /\ cycle'.pc = "exporting"
    BY <1>1 DEF StoreTypeOK
  <1>7. FilesNumbered'
    BY <1>1, <1>2, <1>5, <1>6 DEF FilesNumbered, Writing, Exporters, StoreTypeOK, File
  <1>8. NewFile \notin exporter["user"].doomed
    BY <1>2, <1>5 DEF FilesNumbered, Exporters
  <1>9. FileKept'
    BY <1>1, <1>2, <1>5, <1>6, <1>8 DEF FileKept, Filed, Writing
  <1> QED  BY <1>3, <1>4, <1>7, <1>9

LEMMA UserAsksKeeps ==
  ASSUME StoreInv, UserAsks
  PROVE  StoreInv'
  <1> USE DEF StoreInv
  <1>1. /\ exporter' = [exporter EXCEPT !["user"] = Writing]
        /\ made' = [all |-> made.all + 1, user |-> made.user + 1]
        /\ UNCHANGED <<limits, clock, rows, nextId, cycle, files, spared>>
    BY DEF UserAsks
  <1>2. NewFile \in File /\ NewFile.n = made.all + 1 /\ NewFile.at = clock
    BY StoreAssumption DEF UserAsks, StoreTypeOK, NewFile, File
  <1>3. StoreTypeOK'
    BY <1>1, <1>2, StoreAssumption DEF UserAsks, StoreTypeOK, Writing
  <1>4. PickedApart' /\ RowsNumbered'
    BY <1>1 DEF PickedApart, RowsNumbered, Key
  <1>5. /\ made'.all = made.all + 1 /\ made'.user = made.user + 1
        /\ made.all \in Nat /\ made.user \in Nat /\ cycle.file.n \in Nat
    BY <1>1 DEF StoreTypeOK, File
  <1>6. exporter'["user"] = Writing /\ exporter'["cycle"] = exporter["cycle"]
    BY <1>1 DEF StoreTypeOK
  <1>7. FilesNumbered'
    BY <1>1, <1>2, <1>5, <1>6 DEF FilesNumbered, Writing, Exporters, StoreTypeOK, File
  <1>9. FileKept'
    BY <1>1, <1>5, <1>6 DEF FileKept, Filed, Writing
  <1> QED  BY <1>3, <1>4, <1>7, <1>9

LEMMA ExportFailsKeeps ==
  ASSUME StoreInv, NEW x \in Exporters, ExportFails(x)
  PROVE  StoreInv'
  <1> USE DEF StoreInv
  <1>1. /\ exporter[x].pc = "add" /\ exporter' = [exporter EXCEPT ![x] = NoExport]
        /\ cycle' = (IF x = "cycle" THEN [cycle EXCEPT !.pc = "delete", !.failed = TRUE] ELSE cycle)
        /\ UNCHANGED <<limits, clock, rows, nextId, files, made, spared>>
    BY DEF ExportFails, CycleGoesOn
  <1>2. StoreTypeOK'
    BY <1>1, ExportTyped DEF StoreTypeOK, Exports, Exporters
  <1>3. PickedApart' /\ RowsNumbered'
    BY <1>1 DEF StoreTypeOK, PickedApart, RowsNumbered, Key
  <1>4. /\ exporter'[x] = NoExport
        /\ \A y \in Exporters \ {x} : exporter'[y] = exporter[y]
    BY <1>1 DEF StoreTypeOK, Exporters
  <1>5. FilesNumbered'
    BY <1>1, <1>4 DEF FilesNumbered, StoreTypeOK, NoExport, Exporters
  <1>6. FileKept'
    BY <1>1, <1>4 DEF FileKept, Filed, StoreTypeOK, NoExport, Exporters
  <1> QED  BY <1>2, <1>3, <1>5, <1>6

LEMMA ExportAddedKeeps ==
  ASSUME StoreInv, NEW x \in Exporters, ExportAdded(x)
  PROVE  StoreInv'
  <1> USE DEF StoreInv
  <1>1. /\ exporter[x].pc = "add" /\ exporter' = [exporter EXCEPT ![x].pc = "list"]
        /\ files' = files \cup {exporter[x].file}
        /\ UNCHANGED <<limits, clock, rows, nextId, cycle, made, spared>>
    BY DEF ExportAdded
  <1>2. StoreTypeOK'
    BY <1>1 DEF StoreTypeOK, Exporters
  <1>3. PickedApart' /\ RowsNumbered'
    BY <1>1 DEF PickedApart, RowsNumbered, Key
  <1>4. /\ exporter'[x].pc = "list" /\ exporter'[x].file = exporter[x].file
        /\ exporter'[x].doomed = exporter[x].doomed
        /\ \A y \in Exporters \ {x} : exporter'[y] = exporter[y]
    BY <1>1 DEF StoreTypeOK, Exporters
  <1>5. FilesNumbered'
    BY <1>1, <1>4 DEF FilesNumbered, Exporters
  <1>6. FileKept'
    BY <1>1, <1>4 DEF FileKept, Filed, Exporters
  <1> QED  BY <1>2, <1>3, <1>5, <1>6

\* The rotation keeps the file of the cycle: it is of today, and fewer files than
\* MaxFiles are newer.
LEMMA FileOutlastsRotation ==
  ASSUME StoreInv, Filed
  PROVE  ~(cycle.file.at < clock - ExportDays) /\ cycle.file \notin Overflow
  <1> USE DEF StoreInv
  <1>1. cycle.file.at = clock /\ clock \in Nat /\ ExportDays \in Nat
    BY StoreAssumption DEF FileKept, StoreTypeOK
  <1> DEFINE f == cycle.file
             newer == {y \in files : y.n > f.n}
             later == (f.n + 1) .. made.all
             number == [y \in newer |-> y.n]
  <1>2. /\ f.n \in Nat /\ made.all \in Nat /\ made.user \in 0 .. UserExports
        /\ \A y \in files : y.n \in Nat
    BY StoreAssumption DEF StoreTypeOK, File
  <1>3. number \in Injection(newer, later)
    BY <1>2 DEF Injection, IsInjective, FilesNumbered
  <1>4. IsFiniteSet(later) /\ Cardinality(later) <= made.user
    <2>1. /\ IsFiniteSet(later)
          /\ Cardinality(later) = IF f.n + 1 > made.all THEN 0 ELSE made.all - (f.n + 1) + 1
      BY <1>2, f.n + 1 \in Int, made.all \in Int, FS_Interval
    <2>2. made.all <= f.n + made.user
      BY DEF FileKept
    <2> QED  BY <1>2, <2>1, <2>2
  <1>5. IsFiniteSet(newer) /\ Cardinality(newer) <= Cardinality(later)
    BY <1>3, <1>4, FS_Injection
  <1>6. Cardinality(newer) \in Nat /\ Cardinality(later) \in Nat
    BY <1>4, <1>5, FS_CardinalityType
  <1>7. Cardinality(newer) < MaxFiles
    BY <1>2, <1>4, <1>5, <1>6, StoreAssumption
  <1>8. cycle.file \notin Overflow
    <2>1. ~(Cardinality(newer) >= MaxFiles)
      BY <1>6, <1>7, StoreAssumption
    <2> QED  BY <2>1, Zenon DEF Overflow
  <1> QED  BY <1>1, <1>8

LEMMA RotationListedKeeps ==
  ASSUME StoreInv, NEW x \in Exporters, RotationListed(x)
  PROVE  StoreInv'
  <1> USE DEF StoreInv
  <1> DEFINE doomed == {f \in files : f.at < clock - ExportDays} \cup Overflow
  <1>1. /\ exporter[x].pc = "list"
        /\ exporter' = [exporter EXCEPT ![x].pc = "remove", ![x].doomed = doomed]
        /\ UNCHANGED <<limits, clock, rows, nextId, cycle, files, made, spared>>
    BY DEF RotationListed
  <1>2. doomed \subseteq files
    BY DEF Overflow
  <1>3. Filed => cycle.file \notin doomed
    BY FileOutlastsRotation
  <1> HIDE DEF doomed
  <1>4. StoreTypeOK'
    BY <1>1, <1>2 DEF StoreTypeOK, Exporters
  <1>5. PickedApart' /\ RowsNumbered'
    BY <1>1 DEF PickedApart, RowsNumbered, Key
  <1>6. /\ exporter'[x].pc = "remove" /\ exporter'[x].file = exporter[x].file
        /\ exporter'[x].doomed = doomed
        /\ \A y \in Exporters \ {x} : exporter'[y] = exporter[y]
    BY <1>1 DEF StoreTypeOK, Exporters
  <1>7. FilesNumbered'
    BY <1>1, <1>2, <1>6 DEF FilesNumbered, Exporters, StoreTypeOK, File
  <1>8. FileKept'
    BY <1>1, <1>3, <1>6 DEF FileKept, Filed, Exporters
  <1> QED  BY <1>4, <1>5, <1>7, <1>8

LEMMA RotationRemovesKeeps ==
  ASSUME StoreInv, NEW x \in Exporters, RotationRemoves(x)
  PROVE  StoreInv'
  <1> USE DEF StoreInv
  <1>1. exporter[x].pc = "remove" /\ UNCHANGED <<limits, clock, rows, nextId, made, spared>>
    BY DEF RotationRemoves
  <1>2. CASE exporter[x].doomed # {}
    <2>1. PICK f \in exporter[x].doomed :
            /\ files' = files \ {f} /\ UNCHANGED cycle
            /\ exporter' = [exporter EXCEPT ![x].doomed = @ \ {f}]
      BY <1>2 DEF RotationRemoves
    <2>2. StoreTypeOK'
      BY <1>1, <2>1 DEF StoreTypeOK, Exporters
    <2>3. PickedApart' /\ RowsNumbered'
      BY <1>1, <2>1 DEF PickedApart, RowsNumbered, Key
    <2>4. /\ exporter'[x].pc = exporter[x].pc /\ exporter'[x].file = exporter[x].file
          /\ exporter'[x].doomed \subseteq exporter[x].doomed
          /\ \A y \in Exporters \ {x} : exporter'[y] = exporter[y]
      BY <2>1 DEF StoreTypeOK, Exporters
    <2>5. FilesNumbered'
      BY <1>1, <2>1, <2>4 DEF FilesNumbered, Exporters
    <2>6. Filed => f # cycle.file
      BY <1>1 DEF FileKept, Filed, Exporters
    <2>7. FileKept'
      BY <1>1, <2>1, <2>4, <2>6 DEF FileKept, Filed, Exporters
    <2> QED  BY <2>2, <2>3, <2>5, <2>7
  <1>3. CASE exporter[x].doomed = {}
    <2>1. /\ exporter' = [exporter EXCEPT ![x] = NoExport] /\ UNCHANGED files
          /\ cycle' = (IF x = "cycle" THEN [cycle EXCEPT !.pc = "delete", !.failed = FALSE] ELSE cycle)
      BY <1>3 DEF RotationRemoves, CycleGoesOn
    <2>2. StoreTypeOK'
      BY <1>1, <2>1, ExportTyped DEF StoreTypeOK, Exports, Exporters
    <2>3. PickedApart' /\ RowsNumbered'
      BY <1>1, <2>1 DEF StoreTypeOK, PickedApart, RowsNumbered, Key
    <2>4. /\ exporter'[x] = NoExport
          /\ \A y \in Exporters \ {x} : exporter'[y] = exporter[y]
      BY <2>1 DEF StoreTypeOK, Exporters
    <2>5. FilesNumbered'
      BY <1>1, <2>1, <2>4 DEF FilesNumbered, NoExport, Exporters
    <2>6. FileKept'
      BY <1>1, <2>1, <2>4 DEF FileKept, Filed, StoreTypeOK, NoExport, Exporters
    <2> QED  BY <2>2, <2>3, <2>5, <2>6
  <1> QED  BY <1>2, <1>3

-----------------------------------------------------------------------------
LEMMA StoreStep == StoreInv /\ [StoreNext]_storeVars => StoreInv'
  <1> SUFFICES ASSUME StoreInv, [StoreNext]_storeVars PROVE StoreInv'
    OBVIOUS
  <1>1. CASE RowInserted \/ InvalidPurged \/ DayPasses
    BY <1>1, RowInsertedKeeps, InvalidPurgedKeeps, DayPassesKeeps
  <1>2. CASE CycleBegins \/ CyclePicksAll \/ CyclePicksOld \/ CycleDeletes \/ StoreCrashes
    BY <1>2, CycleBeginsKeeps, CyclePicksAllKeeps, CyclePicksOldKeeps, CycleDeletesKeeps,
       StoreCrashesKeeps
  <1>3. CASE CycleExports \/ UserAsks
    BY <1>3, CycleExportsKeeps, UserAsksKeeps
  <1>4. CASE \E x \in Exporters : \/ ExportFails(x) \/ ExportAdded(x)
                                  \/ RotationListed(x) \/ RotationRemoves(x)
    BY <1>4, ExportFailsKeeps, ExportAddedKeeps, RotationListedKeeps, RotationRemovesKeeps
  <1>5. CASE UNCHANGED storeVars
    BY <1>5 DEF storeVars, StoreInv, StoreTypeOK, RowsNumbered, PickedApart, FilesNumbered, FileKept,
       Filed, Key
  <1> QED  BY <1>1, <1>2, <1>3, <1>4, <1>5 DEF StoreNext, Exporters

\* What run_retention and apply_rotation rely on between two calls of the store:
\* keys and file numbers are never used again, and the file of a cycle is kept.
THEOREM StoreInvariant == StoreSpec => []StoreInv
  BY StoreInitial, StoreStep, PTL DEF StoreSpec

-----------------------------------------------------------------------------
\* Whatever runs between the calls of a cycle (run_retention): it deletes only
\* what it picked, none of the rows it has to spare, and no row whose export
\* should be there and is not.
THEOREM NothingDeletedEarly == StoreSpec => PurgeKeeps
  <1> DEFINE Excused(r) ==
        \/ r.nameless /\ UNCHANGED cycle
        \/ /\ r \notin spared
           /\ limits.export /\ ~cycle.failed => r \in cycle.picked /\ cycle.file \in files
  <1>1. StoreInv /\ [StoreNext]_storeVars => [\A r \in rows \ rows' : Excused(r)]_storeVars
    <2> SUFFICES ASSUME StoreInv, StoreNext, NEW r \in rows, r \notin rows' PROVE Excused(r)
      BY DEF storeVars
    <2>1. CASE InvalidPurged
      BY <2>1 DEF InvalidPurged
    <2>2. CASE CycleDeletes
      <3>1. Key(r) \in cycle.ids /\ cycle.pc = "delete"
        BY <2>2 DEF CycleDeletes
      <3>2. r \notin spared /\ r \in cycle.picked
        BY <3>1 DEF StoreInv, PickedApart
      <3>3. limits.export /\ ~cycle.failed => Filed
        BY <3>1, <3>2 DEF Filed
      <3>4. exporter["cycle"].pc = "none"
        BY <3>1 DEF StoreInv, FileKept
      <3> QED  BY <3>2, <3>3, <3>4 DEF StoreInv, FileKept
    <2>3. CASE ~InvalidPurged /\ ~CycleDeletes
      <3>1. rows \subseteq rows'
        BY <2>3 DEF StoreNext, RowInserted, DayPasses, CycleBegins, CyclePicksAll, CyclePicksOld,
           CycleExports, UserAsks, StoreCrashes, ExportFails, ExportAdded, RotationListed,
           RotationRemoves
      <3> QED  BY <3>1
    <2> QED  BY <2>1, <2>2, <2>3
  <1> QED  BY <1>1, StoreInvariant, PTL DEF StoreSpec, PurgeKeeps
=============================================================================
