--------------------------- MODULE Services_proofs --------------------------
(***************************************************************************)
(* Proofs about the services around the samples: the satellite module,     *)
(* the registry of the mirrors with their tokens, the windows of the       *)
(* presets and the registry of the status broadcasts; and that the parts   *)
(* of MCServices, side by side, hear before they store.                    *)
(***************************************************************************)
EXTENDS MCServices, Heard_proofs, EventStore_proofs, FiniteSetTheorems, TLAPS

(***************************************************************************)
(* The satellite module, with requests that come one by one and one pass   *)
(* computed at a time.                                                     *)
(***************************************************************************)
TaskStates == {"gone", "sleeps", "computes", "cancelled"}
Predictions == [by : SatTasks \cup {NoSched}, todo : SUBSET Sats, deleted : BOOLEAN]
Rows == [source : Sources, enabled : BOOLEAN, tle : BOOLEAN]

SatTyped ==
    /\ kv \in [state : {"idle", "installing", "installed", "uninstalling", "error"},
               installed : BOOLEAN]
    /\ tables \in BOOLEAN
    /\ installing \in Nat
    /\ sched \in [task : SatTasks \cup {NoSched}, pc : [SatTasks -> TaskStates]]
    /\ leaving \in [task : SatTasks \cup {NoSched}, purge : BOOLEAN]
    /\ computing \in SUBSET Predictions
    /\ catalog \in [Sats -> Rows]
    /\ passes \in [Sats -> 0 .. 1]
    /\ fetching \in SUBSET {"tles", "catalog"}
    /\ switchedOff \in SUBSET Sats

\* One prediction at a time: what it still has to save is not stored.
PredictsOnce ==
    /\ computing = {} \/ \E c : computing = {c}
    /\ \A c \in computing : c.deleted => \A s \in c.todo : passes[s] = 0

\* The task the module knows is the only one alive, an uninstall waits for it, and
\* a task is cancelled by an uninstall only.
OneLoop ==
    /\ \A t \in SatTasks : sched.pc[t] # "gone" => t = sched.task
    /\ \A t \in SatTasks : sched.pc[t] = "cancelled" => t = leaving.task
    /\ leaving.task # NoSched =>
         /\ installing = 0 /\ sched.task = leaving.task /\ kv.installed
         /\ sched.pc[leaving.task] \in {"cancelled", "gone"}
    /\ leaving.task = NoSched => (kv.installed <=> Live(sched.task))
    /\ kv.installed => tables

\* A satellite that was switched off is in the catalog.
OffKept ==
    \A s \in switchedOff : catalog[s].source # "none" /\ catalog[s].enabled = FALSE

SatInv == SatTyped /\ PredictsOnce /\ OneLoop /\ OffKept

-----------------------------------------------------------------------------
(***************************************************************************)
(* The catalog.                                                            *)
(***************************************************************************)
OffIn(cat) == \A s \in switchedOff : cat[s].source # "none" /\ cat[s].enabled = FALSE

\* An upsert keeps the flag of a row that exists.
LEMMA MergedKeeps ==
    ASSUME NEW cat \in [Sats -> Rows], NEW found \in SUBSET Sats, NEW source \in {"feed", "manual"},
           NEW tle \in BOOLEAN, switchedOff \in SUBSET Sats, OffIn(cat)
    PROVE  /\ Merged(cat, found, source, tle) \in [Sats -> Rows]
           /\ OffIn(Merged(cat, found, source, tle))
  <1>s. source \in Sources /\ source # "none"
    BY DEF Sources
  <1> DEFINE new == Merged(cat, found, source, tle)
  <1>1. ASSUME NEW s \in Sats
        PROVE  /\ new[s] \in Rows
               /\ s \in switchedOff => new[s].source # "none" /\ new[s].enabled = FALSE
    <2>1. cat[s] \in Rows
      OBVIOUS
    <2>2. CASE s \notin found
      BY <2>1, <2>2 DEF Merged, OffIn
    <2>3. CASE s \in found
      <3> DEFINE elements == cat[s].tle \/ tle
                 on == cat[s].source = "none" \/ cat[s].enabled
      <3>1. new[s] = [source |-> source, tle |-> elements, enabled |-> on]
        BY <2>3 DEF Merged
      <3>2. elements \in BOOLEAN /\ on \in BOOLEAN
        <4>1. cat[s].tle \in BOOLEAN /\ cat[s].enabled \in BOOLEAN
          BY <2>1 DEF Rows
        <4> QED BY <4>1
      <3>4. ASSUME s \in switchedOff PROVE new[s].source # "none" /\ new[s].enabled = FALSE
        <4>1. cat[s].source # "none" /\ cat[s].enabled = FALSE
          BY <3>4 DEF OffIn
        <4>2. on = FALSE
          BY <4>1
        <4> HIDE DEF elements, on
        <4> QED BY <3>1, <4>2, <1>s
      <3> HIDE DEF elements, on
      <3>3. new[s] \in Rows
        BY <3>1, <3>2, <1>s DEF Rows
      <3> QED BY <3>3, <3>4
    <2> QED BY <2>2, <2>3
  <1>2. new = [s \in Sats |-> new[s]]
    BY DEF Merged
  <1> QED BY <1>1, <1>2 DEF OffIn

LEMMA DisabledKeeps ==
    ASSUME NEW cat \in [Sats -> Rows], NEW alive \in SUBSET Sats,
           switchedOff \in SUBSET Sats, OffIn(cat)
    PROVE  Disabled(cat, alive) \in [Sats -> Rows] /\ OffIn(Disabled(cat, alive))
  BY DEF Disabled, Rows, OffIn

-----------------------------------------------------------------------------
(***************************************************************************)
(* What each step keeps.                                                   *)
(***************************************************************************)
LEMMA SatInvInit == SatInit => SatInv
  <1> SUFFICES ASSUME SatInit PROVE SatInv
    OBVIOUS
  <1>1. catalog \in [Sats -> Rows]
    BY DEF SatInit, Empty, NoSat, Rows, Sources
  <1>4. sched \in [task : SatTasks \cup {NoSched}, pc : [SatTasks -> TaskStates]]
    BY DEF SatInit, TaskStates
  <1>5. passes \in [Sats -> 0 .. 1]
    BY DEF SatInit, NoPasses
  <1>6. computing \in SUBSET Predictions
    BY DEF SatInit
  <1>2. SatTyped
    BY <1>1, <1>4, <1>5, <1>6 DEF SatInit, SatTyped
  <1>3. PredictsOnce /\ OneLoop /\ OffKept
    BY DEF SatInit, PredictsOnce, OneLoop, OffKept, Live
  <1> QED BY <1>2, <1>3 DEF SatInv

\* What the catalog's requests leave alone.
LEMMA CatalogStepKeeps ==
    ASSUME SatInv, CatalogOnly, computing' = computing, fetching' \in SUBSET {"tles", "catalog"},
           catalog' \in [Sats -> Rows], switchedOff' \in SUBSET Sats,
           \A s \in switchedOff' : catalog'[s].source # "none" /\ catalog'[s].enabled = FALSE
    PROVE  SatInv'
  <1>1. SatTyped'
    BY DEF SatInv, SatTyped, CatalogOnly
  <1>2. PredictsOnce' /\ OneLoop'
    BY DEF SatInv, PredictsOnce, OneLoop, CatalogOnly, Live
  <1> QED BY <1>1, <1>2 DEF SatInv, OffKept

LEMMA CatalogKeeps ==
    ASSUME SatInv,
           RefreshAsked \/ RefreshFails \/ CatalogArrives \/ Imported
    PROVE  SatInv'
  <1>1. /\ catalog \in [Sats -> Rows] /\ switchedOff \in SUBSET Sats
        /\ fetching \in SUBSET {"tles", "catalog"} /\ OffIn(catalog)
    BY DEF SatInv, SatTyped, OffKept, OffIn
  <1>2. /\ CatalogOnly /\ computing' = computing /\ switchedOff' = switchedOff
        /\ fetching' \in SUBSET {"tles", "catalog"}
    BY <1>1 DEF RefreshAsked, RefreshFails, CatalogArrives, Imported
  <1>3. catalog' \in [Sats -> Rows] /\ OffIn(catalog')
    <2>1. CASE RefreshAsked \/ RefreshFails
      BY <1>1, <2>1 DEF RefreshAsked, RefreshFails
    <2>2. CASE CatalogArrives
      <3>1. PICK alive \in SUBSET Sats :
              catalog' = Disabled(Merged(catalog, alive, "feed", FALSE), alive)
        BY <2>2 DEF CatalogArrives
      <3>2. /\ Merged(catalog, alive, "feed", FALSE) \in [Sats -> Rows]
            /\ OffIn(Merged(catalog, alive, "feed", FALSE))
        BY <1>1, MergedKeeps
      <3> QED BY <1>1, <3>1, <3>2, DisabledKeeps
    <2>3. CASE Imported
      <3>1. PICK found \in SUBSET Sats, tle \in BOOLEAN :
              catalog' = Merged(catalog, found, "manual", tle)
        BY <2>3 DEF Imported
      <3> QED BY <1>1, <3>1, MergedKeeps
    <2> QED BY <2>1, <2>2, <2>3
  <1>4. \A s \in switchedOff' : catalog'[s].source # "none" /\ catalog'[s].enabled = FALSE
    BY <1>2, <1>3 DEF OffIn
  <1> QED BY <1>1, <1>2, <1>3, <1>4, CatalogStepKeeps

LEMMA SwitchKeeps ==
    ASSUME SatInv, EnabledSet \/ SatDeleted PROVE SatInv'
  <1>1. /\ catalog \in [Sats -> Rows] /\ switchedOff \in SUBSET Sats
        /\ fetching \in SUBSET {"tles", "catalog"} /\ OffIn(catalog)
    BY DEF SatInv, SatTyped, OffKept, OffIn
  <1>2. /\ CatalogOnly /\ computing' = computing /\ fetching' = fetching
    BY DEF EnabledSet, SatDeleted
  <1>3. /\ catalog' \in [Sats -> Rows] /\ switchedOff' \in SUBSET Sats
        /\ \A s \in switchedOff' : catalog'[s].source # "none" /\ catalog'[s].enabled = FALSE
    <2>1. CASE EnabledSet
      <3>1. PICK s \in Sats, on \in BOOLEAN :
              /\ There(s) /\ catalog' = [catalog EXCEPT ![s].enabled = on]
              /\ switchedOff' = IF on THEN switchedOff \ {s} ELSE switchedOff \cup {s}
        BY <2>1 DEF EnabledSet
      <3>2. catalog[s] \in Rows
        BY <1>1
      <3>3. [catalog[s] EXCEPT !.enabled = on] \in Rows
        BY <3>2 DEF Rows
      <3>4. catalog' \in [Sats -> Rows]
        BY <1>1, <3>1, <3>3
      <3>5. CASE on = TRUE
        BY <1>1, <3>1, <3>4, <3>5 DEF OffIn
      <3>6. CASE on = FALSE
        <4>1. catalog'[s].source # "none" /\ catalog'[s].enabled = FALSE
          BY <1>1, <3>1, <3>2, <3>6 DEF There, Rows
        <4> QED BY <1>1, <3>1, <3>4, <3>6, <4>1 DEF OffIn
      <3> QED BY <3>5, <3>6
    <2>2. CASE SatDeleted
      BY <1>1, <2>2 DEF SatDeleted, There, NoSat, Rows, Sources, OffIn
    <2> QED BY <2>1, <2>2
  <1> QED BY <1>1, <1>2, <1>3, CatalogStepKeeps

\* One more prediction, when there may be one at most.
LEMMA NoneComputing ==
    ASSUME SatInv, MaxComputing = 1, Cardinality(computing) < MaxComputing
    PROVE  computing = {}
  <1>1. ASSUME NEW c, computing = {c} PROVE FALSE
    <2>1. Cardinality({c}) = 1
      BY FS_Singleton
    <2> QED BY <1>1, <2>1
  <1> QED BY <1>1 DEF SatInv, PredictsOnce

LEMMA BegunIs ==
    ASSUME NEW by \in SatTasks \cup {NoSched}
    PROVE  Begun(by) \in Predictions /\ Begun(by).deleted = FALSE
  BY DEF Begun, Predictions

LEMMA PredictionStarts ==
    ASSUME SatInv, NEW c \in Predictions, c.deleted = FALSE, computing = {},
           computing' = computing \cup {c}, passes' = passes
    PROVE  PredictsOnce' /\ computing' \in SUBSET Predictions
  BY DEF PredictsOnce

LEMMA TlesKeep ==
    ASSUME SatInv, MaxComputing = 1, TlesArrive PROVE SatInv'
  <1>1. /\ catalog \in [Sats -> Rows] /\ switchedOff \in SUBSET Sats
        /\ fetching \in SUBSET {"tles", "catalog"} /\ OffIn(catalog)
    BY DEF SatInv, SatTyped, OffKept, OffIn
  <1> DEFINE c == [Begun(NoSched) EXCEPT
                     !.todo = {s \in Sats : catalog'[s].enabled /\ catalog'[s].tle}]
  <1>2. /\ CatalogOnly /\ computing' = computing \cup {c} /\ switchedOff' = switchedOff
        /\ fetching' \in SUBSET {"tles", "catalog"} /\ computing = {}
    BY <1>1, NoneComputing DEF TlesArrive
  <1>3. PICK found \in SUBSET Sats : catalog' = Merged(catalog, found, "feed", TRUE)
    BY DEF TlesArrive
  <1>4. catalog' \in [Sats -> Rows] /\ OffIn(catalog')
    BY <1>1, <1>3, MergedKeeps
  <1>5. Begun(NoSched) \in Predictions /\ Begun(NoSched).deleted = FALSE
    BY BegunIs
  <1>6. c \in Predictions /\ c.deleted = FALSE
    BY <1>5 DEF Predictions
  <1> HIDE DEF c
  <1>7. PredictsOnce' /\ computing' \in SUBSET Predictions
    BY <1>2, <1>6, PredictionStarts DEF CatalogOnly
  <1>8. SatTyped'
    BY <1>1, <1>2, <1>4, <1>7 DEF SatInv, SatTyped, CatalogOnly
  <1>9. OneLoop' /\ OffKept'
    BY <1>2, <1>4 DEF SatInv, OneLoop, CatalogOnly, Live, OffKept, OffIn
  <1> QED BY <1>7, <1>8, <1>9 DEF SatInv

LEMMA RecomputeKeeps ==
    ASSUME SatInv, MaxComputing = 1, RecomputeAsked PROVE SatInv'
  <1>2. /\ CatalogOnly /\ computing' = computing \cup {Begun(NoSched)} /\ computing = {}
        /\ UNCHANGED <<catalog, fetching, switchedOff>>
    BY NoneComputing DEF RecomputeAsked
  <1>7. PredictsOnce' /\ computing' \in SUBSET Predictions
    BY <1>2, BegunIs, PredictionStarts DEF CatalogOnly
  <1>8. SatTyped'
    BY <1>2, <1>7 DEF SatInv, SatTyped, CatalogOnly
  <1>9. OneLoop' /\ OffKept'
    BY <1>2 DEF SatInv, OneLoop, CatalogOnly, Live, OffKept
  <1> QED BY <1>7, <1>8, <1>9 DEF SatInv

\* _scheduler_loop wakes
LEMMA CycleKeeps ==
    ASSUME SatInv, MaxComputing = 1, CycleStarts PROVE SatInv'
  <1>1. PICK t \in SatTasks : /\ sched.pc[t] = "sleeps"
                              /\ sched' = [sched EXCEPT !.pc[t] = "computes"]
                              /\ computing' = computing \cup {Begun(t)}
    BY DEF CycleStarts
  <1>2. /\ UNCHANGED <<kv, tables, installing, leaving, catalog, passes, fetching, switchedOff>>
        /\ computing = {}
    BY NoneComputing DEF CycleStarts
  <1>3. PredictsOnce' /\ computing' \in SUBSET Predictions
    BY <1>1, <1>2, BegunIs, PredictionStarts
  <1>4. sched \in [task : SatTasks \cup {NoSched}, pc : [SatTasks -> TaskStates]]
    BY DEF SatInv, SatTyped
  <1>5. /\ sched' \in [task : SatTasks \cup {NoSched}, pc : [SatTasks -> TaskStates]]
        /\ sched'.task = sched.task /\ sched'.pc[t] = "computes"
        /\ \A u \in SatTasks \ {t} : sched'.pc[u] = sched.pc[u]
    BY <1>1, <1>4 DEF TaskStates
  <1>6. SatTyped'
    BY <1>2, <1>3, <1>5 DEF SatInv, SatTyped
  <1>7. OneLoop'
    BY <1>1, <1>2, <1>4, <1>5, SatAssumption DEF SatInv, SatTyped, OneLoop, Live
  <1> QED BY <1>2, <1>3, <1>6, <1>7 DEF SatInv, OffKept

\* A prediction that goes on: what it has still to save is not stored.
LEMMA PredictionGoesOn ==
    ASSUME SatInv, NEW c \in computing, NEW d \in Predictions,
           computing' = (computing \ {c}) \cup {d},
           d.deleted => \A s \in d.todo : passes'[s] = 0
    PROVE  PredictsOnce' /\ computing' \in SUBSET Predictions
  <1>1. computing' = {d}
    BY DEF SatInv, PredictsOnce
  <1> QED BY <1>1 DEF PredictsOnce

LEMMA PredictionKeeps ==
    ASSUME SatInv, PassesDeleted \/ PassesSaved PROVE SatInv'
  <1>1. UNCHANGED <<kv, tables, installing, sched, leaving, catalog, fetching, switchedOff>>
    BY DEF PassesDeleted, PassesSaved
  <1>2. passes \in [Sats -> 0 .. 1] /\ computing \in SUBSET Predictions /\ tables \in BOOLEAN
    BY DEF SatInv, SatTyped
  <1>3. PredictsOnce' /\ computing' \in SUBSET Predictions /\ passes' \in [Sats -> 0 .. 1]
    <2>1. CASE PassesDeleted
      <3>1. PICK c \in computing :
              /\ ~c.deleted
              /\ computing' = (computing \ {c}) \cup
                    {[c EXCEPT !.deleted = TRUE, !.todo = IF tables THEN @ ELSE {}]}
        BY <2>1 DEF PassesDeleted
      <3> DEFINE d == [c EXCEPT !.deleted = TRUE, !.todo = IF tables THEN @ ELSE {}]
      <3>2. c \in Predictions
        BY <1>2
      <3>3. d \in Predictions /\ d.todo = (IF tables THEN c.todo ELSE {})
        BY <3>2 DEF Predictions
      <3>4. passes' = IF tables THEN NoPasses ELSE passes
        BY <2>1 DEF PassesDeleted, Cleared
      <3>5. passes' \in [Sats -> 0 .. 1]
        BY <1>2, <3>4 DEF NoPasses
      <3>6. \A s \in d.todo : passes'[s] = 0
        <4>1. CASE tables
          <5>1. d.todo \in SUBSET Sats
            BY <3>3 DEF Predictions
          <5> QED BY <3>4, <4>1, <5>1 DEF NoPasses
        <4>2. CASE ~tables
          BY <3>3, <4>2
        <4> QED BY <4>1, <4>2
      <3>7. computing' = (computing \ {c}) \cup {d}
        BY <3>1
      <3> HIDE DEF d
      <3> QED BY <3>3, <3>5, <3>6, <3>7, PredictionGoesOn
    <2>2. CASE PassesSaved
      <3>0. PICK c \in computing : \E s \in c.todo :
              /\ c.deleted
              /\ computing' = (computing \ {c}) \cup {[c EXCEPT !.todo = @ \ {s}]}
              /\ passes' \in {passes} \cup
                    (IF tables THEN {[passes EXCEPT ![s] = @ + 1]} ELSE {})
        BY <2>2 DEF PassesSaved
      <3>1. PICK s \in c.todo :
              /\ c.deleted
              /\ computing' = (computing \ {c}) \cup {[c EXCEPT !.todo = @ \ {s}]}
              /\ passes' \in {passes} \cup
                    (IF tables THEN {[passes EXCEPT ![s] = @ + 1]} ELSE {})
        BY <3>0
      <3> DEFINE d == [c EXCEPT !.todo = @ \ {s}]
      <3>2. c \in Predictions
        BY <1>2
      <3>3. d \in Predictions /\ d.todo = c.todo \ {s} /\ s \in Sats /\ c.todo \in SUBSET Sats
        BY <3>1, <3>2 DEF Predictions
      <3>4. \A u \in c.todo : passes[u] = 0
        BY <3>1 DEF SatInv, PredictsOnce
      <3>5. passes' = passes \/ passes' = [passes EXCEPT ![s] = @ + 1]
        BY <3>1
      <3>6. passes[s] = 0
        BY <3>4
      <3>7. passes' \in [Sats -> 0 .. 1] /\ \A u \in Sats \ {s} : passes'[u] = passes[u]
        BY <1>2, <3>3, <3>5, <3>6
      <3>8. \A u \in d.todo : passes'[u] = 0
        BY <3>3, <3>4, <3>7
      <3>9. computing' = (computing \ {c}) \cup {d}
        BY <3>1
      <3> HIDE DEF d
      <3> QED BY <3>3, <3>7, <3>8, <3>9, PredictionGoesOn
    <2> QED BY <2>1, <2>2
  <1>4. SatTyped'
    BY <1>1, <1>3 DEF SatInv, SatTyped
  <1> QED BY <1>1, <1>3, <1>4 DEF SatInv, OneLoop, OffKept, Live

LEMMA EndKeeps ==
    ASSUME SatInv, ComputeEnds PROVE SatInv'
  <1>1. PICK c \in computing :
          /\ computing' = computing \ {c}
          /\ sched' = IF c.by # NoSched /\ sched.pc[c.by] = "computes"
                      THEN [sched EXCEPT !.pc[c.by] = "sleeps"] ELSE sched
    BY DEF ComputeEnds
  <1>2. UNCHANGED <<kv, tables, installing, leaving, catalog, passes, fetching, switchedOff>>
    BY DEF ComputeEnds
  <1>3. /\ sched \in [task : SatTasks \cup {NoSched}, pc : [SatTasks -> TaskStates]]
        /\ computing \in SUBSET Predictions
    BY DEF SatInv, SatTyped
  <1>4. PredictsOnce' /\ computing' \in SUBSET Predictions
    BY <1>1, <1>2, <1>3 DEF SatInv, PredictsOnce
  <1>5. c.by \in SatTasks \cup {NoSched}
    BY <1>3 DEF Predictions
  <1>6. CASE sched' = sched
    BY <1>2, <1>4, <1>6 DEF SatInv, SatTyped, OneLoop, OffKept, Live
  <1>7. CASE /\ c.by # NoSched /\ sched.pc[c.by] = "computes"
             /\ sched' = [sched EXCEPT !.pc[c.by] = "sleeps"]
    <2>1. PICK t \in SatTasks : c.by = t
      BY <1>5, <1>7
    <2>2. /\ sched' \in [task : SatTasks \cup {NoSched}, pc : [SatTasks -> TaskStates]]
          /\ sched'.task = sched.task /\ sched'.pc[t] = "sleeps" /\ sched.pc[t] = "computes"
          /\ \A u \in SatTasks \ {t} : sched'.pc[u] = sched.pc[u]
      BY <1>3, <1>7, <2>1 DEF TaskStates
    <2>3. SatTyped'
      BY <1>2, <1>4, <2>2 DEF SatInv, SatTyped
    <2>4. OneLoop'
      BY <1>2, <1>3, <2>2, SatAssumption DEF SatInv, SatTyped, OneLoop, Live
    <2> QED BY <1>2, <1>4, <2>3, <2>4 DEF SatInv, OffKept
  <1> QED BY <1>1, <1>6, <1>7

-----------------------------------------------------------------------------
(***************************************************************************)
(* Installing and uninstalling.                                            *)
(***************************************************************************)
Sched == [task : SatTasks \cup {NoSched}, pc : [SatTasks -> TaskStates]]

\* start_scheduler leaves one task alive, the one the module knows.
LEMMA StartedIs ==
    ASSUME NEW s \in Sched, SchedStarted(s), \A t \in SatTasks : s.pc[t] # "gone" => t = s.task,
           \A t \in SatTasks : s.pc[t] # "cancelled"
    PROVE  /\ sched' \in Sched /\ sched'.task # NoSched /\ sched'.pc[sched'.task] # "gone"
           /\ \A t \in SatTasks : sched'.pc[t] # "gone" => t = sched'.task
           /\ \A t \in SatTasks : sched'.pc[t] # "cancelled"
  <1>1. CASE s.task # NoSched /\ s.pc[s.task] # "gone"
    BY <1>1 DEF SchedStarted
  <1>2. CASE ~(s.task # NoSched /\ s.pc[s.task] # "gone")
    <2>1. PICK t \in SatTasks : /\ s.pc[t] = "gone"
                                /\ sched' = [task |-> t, pc |-> [s.pc EXCEPT ![t] = "sleeps"]]
      BY <1>2 DEF SchedStarted
    <2>2. s.task \in SatTasks \cup {NoSched} /\ s.pc \in [SatTasks -> TaskStates]
      BY DEF Sched
    <2>3. \A u \in SatTasks : s.pc[u] = "gone"
      BY <1>2, SatAssumption
    <2>4. [s.pc EXCEPT ![t] = "sleeps"] \in [SatTasks -> TaskStates]
      BY <2>2 DEF TaskStates
    <2>5. sched'.task = t /\ sched'.pc = [s.pc EXCEPT ![t] = "sleeps"]
      BY <2>1
    <2>6. sched'.pc[t] = "sleeps" /\ \A u \in SatTasks \ {t} : sched'.pc[u] = "gone"
      BY <2>2, <2>3, <2>5
    <2>7. sched' \in Sched
      BY <2>1, <2>4 DEF Sched
    <2> QED BY <2>5, <2>6, <2>7, SatAssumption
  <1> QED BY <1>1, <1>2

LEMMA InstallKeeps ==
    ASSUME SatInv, AdminOverlaps = FALSE, Install \/ InstallFails PROVE SatInv'
  <1>1. UNCHANGED <<tables, sched, leaving, computing, catalog, passes, fetching, switchedOff>>
    BY DEF Install, InstallFails
  <1>2. /\ kv \in [state : {"idle", "installing", "installed", "uninstalling", "error"},
                   installed : BOOLEAN]
        /\ installing \in Nat
    BY DEF SatInv, SatTyped
  <1>3. /\ kv' \in [state : {"idle", "installing", "installed", "uninstalling", "error"},
                    installed : BOOLEAN]
        /\ kv'.installed = kv.installed
    BY <1>2 DEF Install, InstallFails
  <1>4. /\ installing' \in Nat
        /\ leaving.task # NoSched => installing' = 0
    <2>1. CASE Install
      BY <1>2, <2>1 DEF Install
    <2>2. CASE InstallFails
      BY <1>2, <2>2 DEF InstallFails, SatInv, OneLoop
    <2> QED BY <2>1, <2>2
  <1>5. SatTyped'
    BY <1>1, <1>3, <1>4 DEF SatInv, SatTyped
  <1>6. OneLoop'
    BY <1>1, <1>3, <1>4 DEF SatInv, OneLoop, Live
  <1> QED BY <1>1, <1>5, <1>6 DEF SatInv, PredictsOnce, OffKept

LEMMA InstalledKeeps ==
    ASSUME SatInv, InstallEnds PROVE SatInv'
  <1>1. UNCHANGED <<leaving, computing, passes, fetching, switchedOff>>
    BY DEF InstallEnds
  <1>2. /\ catalog \in [Sats -> Rows] /\ switchedOff \in SUBSET Sats /\ OffIn(catalog)
        /\ installing \in Nat /\ sched \in Sched
    BY DEF SatInv, SatTyped, OffKept, OffIn, Sched
  <1> DEFINE first == Merged(catalog, Snapshot, "feed", TRUE)
  <1>3. first \in [Sats -> Rows] /\ OffIn(first)
    BY <1>2, MergedKeeps, SatAssumption
  <1>4. catalog' = Merged(first, Snapshot, "feed", FALSE)
    BY DEF InstallEnds
  <1> HIDE DEF first
  <1>5. catalog' \in [Sats -> Rows] /\ OffIn(catalog')
    BY <1>2, <1>3, <1>4, MergedKeeps, SatAssumption
  <1>6. leaving.task = NoSched /\ installing' \in Nat
    BY <1>2 DEF SatInv, OneLoop, InstallEnds
  <1>7. /\ \A t \in SatTasks : sched.pc[t] # "gone" => t = sched.task
        /\ \A t \in SatTasks : sched.pc[t] # "cancelled"
    BY <1>6, SatAssumption DEF SatInv, OneLoop
  <1>8. /\ sched' \in Sched /\ sched'.task # NoSched /\ sched'.pc[sched'.task] # "gone"
        /\ \A t \in SatTasks : sched'.pc[t] # "gone" => t = sched'.task
        /\ \A t \in SatTasks : sched'.pc[t] # "cancelled"
    BY <1>2, <1>7, StartedIs DEF InstallEnds
  <1>9. /\ kv' \in [state : {"idle", "installing", "installed", "uninstalling", "error"},
                    installed : BOOLEAN]
        /\ kv'.installed = TRUE /\ tables' = TRUE
    BY DEF InstallEnds
  <1>10. SatTyped'
    BY <1>1, <1>5, <1>6, <1>8, <1>9 DEF SatInv, SatTyped, Sched
  <1>11. OneLoop'
    BY <1>1, <1>6, <1>8, <1>9 DEF OneLoop, Live
  <1> QED BY <1>1, <1>5, <1>10, <1>11 DEF SatInv, PredictsOnce, OffKept, OffIn

\* What follows stop_scheduler, when no task is alive any more.
LEMMA LeftKeeps ==
    ASSUME SatInv, NEW purge \in BOOLEAN, Left(purge), installing' = installing,
           computing' = computing, fetching' = fetching, leaving' \in
             [task : SatTasks \cup {NoSched}, purge : BOOLEAN], leaving'.task = NoSched,
           sched' \in Sched, \A t \in SatTasks : sched'.pc[t] = "gone"
    PROVE  SatInv'
  <1>1. /\ kv' \in [state : {"idle", "installing", "installed", "uninstalling", "error"},
                    installed : BOOLEAN]
        /\ kv'.installed = FALSE
    BY DEF Left
  <1>2. /\ catalog' \in [Sats -> Rows] /\ switchedOff' \in SUBSET Sats
        /\ \A s \in switchedOff' : catalog'[s].source # "none" /\ catalog'[s].enabled = FALSE
    <2>1. CASE purge
      BY <2>1 DEF Left, Empty, NoSat, Rows, Sources
    <2>2. CASE ~purge
      BY <2>2 DEF Left, SatInv, SatTyped, OffKept
    <2> QED BY <2>1, <2>2
  <1>3. tables' \in BOOLEAN /\ passes' \in [Sats -> 0 .. 1]
    <2>1. CASE purge
      BY <2>1 DEF Left, NoPasses
    <2>2. CASE ~purge
      BY <2>2 DEF Left, SatInv, SatTyped
    <2> QED BY <2>1, <2>2
  <1>4. PredictsOnce'
    <2>1. CASE purge
      <3>1. \A c \in computing : c.todo \in SUBSET Sats
        BY DEF SatInv, SatTyped, Predictions
      <3> QED BY <2>1, <3>1 DEF Left, SatInv, PredictsOnce, NoPasses
    <2>2. CASE ~purge
      BY <2>2 DEF Left, SatInv, PredictsOnce
    <2> QED BY <2>1, <2>2
  <1>5. SatTyped'
    BY <1>1, <1>2, <1>3 DEF SatInv, SatTyped, Sched
  <1>6. OneLoop'
    <2>1. sched'.task \in SatTasks \cup {NoSched}
      BY DEF Sched
    <2> QED BY <1>1, <2>1, SatAssumption DEF OneLoop, Live
  <1> QED BY <1>2, <1>4, <1>5, <1>6 DEF SatInv, OffKept

LEMMA UninstallKeeps ==
    ASSUME SatInv, AdminOverlaps = FALSE, NEW purge \in BOOLEAN, Uninstall(purge)
    PROVE  SatInv'
  <1>1. UNCHANGED <<installing, computing, fetching>> /\ leaving.task = NoSched /\ installing = 0
    BY DEF Uninstall
  <1>2. sched \in Sched /\ leaving \in [task : SatTasks \cup {NoSched}, purge : BOOLEAN]
    BY DEF SatInv, SatTyped, Sched
  <1>3. CASE ~Live(sched.task)
    <2>1. \A t \in SatTasks : sched.pc[t] = "gone"
      BY <1>3, SatAssumption DEF SatInv, OneLoop, Live
    <2>2. Left(purge) /\ leaving' = leaving /\ sched' = sched
      BY <1>3 DEF Uninstall
    <2> QED BY <1>1, <1>2, <2>1, <2>2, LeftKeeps
  <1>4. CASE Live(sched.task)
    <2>1. PICK t \in SatTasks : sched.task = t
      BY <1>2, <1>4 DEF Live, Sched
    <2>2. /\ sched' = [sched EXCEPT !.pc[t] = "cancelled"]
          /\ leaving' = [task |-> t, purge |-> purge]
          /\ kv' = [kv EXCEPT !.state = "uninstalling"]
          /\ UNCHANGED <<tables, catalog, passes, switchedOff>>
      BY <1>4, <2>1 DEF Uninstall
    <2>3. /\ sched' \in Sched /\ sched'.task = t /\ sched'.pc[t] = "cancelled"
          /\ \A u \in SatTasks \ {t} : sched'.pc[u] = sched.pc[u]
      BY <1>2, <2>1, <2>2 DEF Sched, TaskStates
    <2>4. /\ kv' \in [state : {"idle", "installing", "installed", "uninstalling", "error"},
                      installed : BOOLEAN]
          /\ kv'.installed = kv.installed
      BY <2>2 DEF SatInv, SatTyped
    <2>5. kv.installed /\ (kv.installed => tables)
      BY <1>1, <1>4 DEF SatInv, OneLoop
    <2>6. /\ leaving'.task = t
          /\ leaving' \in [task : SatTasks \cup {NoSched}, purge : BOOLEAN]
      BY <2>2
    <2>7. SatTyped'
      BY <1>1, <2>2, <2>3, <2>4, <2>6 DEF SatInv, SatTyped, Sched
    <2>8. \A u \in SatTasks \ {t} : sched.pc[u] = "gone"
      BY <2>1 DEF SatInv, OneLoop
    <2>9. OneLoop'
      BY <1>1, <2>2, <2>3, <2>4, <2>5, <2>6, <2>8, SatAssumption DEF OneLoop, Live
    <2> QED BY <1>1, <2>2, <2>7, <2>9 DEF SatInv, PredictsOnce, OffKept
  <1> QED BY <1>3, <1>4

LEMMA LoopEndKeeps ==
    ASSUME SatInv, LoopEnds PROVE SatInv'
  <1>1. PICK t \in SatTasks : /\ sched.pc[t] = "cancelled"
                              /\ sched' = [sched EXCEPT !.pc[t] = "gone"]
                              /\ computing' = {[c EXCEPT !.by = IF @ = t THEN NoSched ELSE @]
                                               : c \in computing}
    BY DEF LoopEnds
  <1>2. UNCHANGED <<kv, tables, installing, leaving, catalog, passes, fetching, switchedOff>>
    BY DEF LoopEnds
  <1>3. sched \in Sched /\ computing \in SUBSET Predictions
    BY DEF SatInv, SatTyped, Sched
  <1>4. /\ sched' \in Sched /\ sched'.task = sched.task /\ sched'.pc[t] = "gone"
        /\ \A u \in SatTasks \ {t} : sched'.pc[u] = sched.pc[u]
    BY <1>1, <1>3 DEF Sched, TaskStates
  <1>5. /\ leaving.task = t /\ sched.task = t /\ t # NoSched
        /\ \A u \in SatTasks \ {t} : sched.pc[u] = "gone"
    BY <1>1, SatAssumption DEF SatInv, OneLoop
  <1>6. PredictsOnce' /\ computing' \in SUBSET Predictions
    <2>1. CASE computing = {}
      BY <1>1, <2>1 DEF PredictsOnce
    <2>2. CASE computing # {}
      <3>1. PICK c : computing = {c}
        BY <2>2 DEF SatInv, PredictsOnce
      <3> DEFINE d == [c EXCEPT !.by = IF @ = t THEN NoSched ELSE @]
      <3>2. computing' = {d}
        BY <1>1, <3>1
      <3>3. c \in Predictions
        BY <1>3, <3>1
      <3>4. d \in Predictions /\ d.todo = c.todo /\ d.deleted = c.deleted
        BY <3>3 DEF Predictions
      <3>5. c.deleted => \A s \in c.todo : passes[s] = 0
        BY <3>1 DEF SatInv, PredictsOnce
      <3> HIDE DEF d
      <3> QED BY <1>2, <3>2, <3>4, <3>5 DEF PredictsOnce
    <2> QED BY <2>1, <2>2
  <1>7. SatTyped'
    BY <1>2, <1>4, <1>6 DEF SatInv, SatTyped, Sched
  <1>8. OneLoop'
    BY <1>2, <1>4, <1>5 DEF SatInv, OneLoop, Live
  <1> QED BY <1>2, <1>6, <1>7, <1>8 DEF SatInv, OffKept

LEMMA UninstalledKeeps ==
    ASSUME SatInv, UninstallEnds PROVE SatInv'
  <1>1. sched \in Sched /\ leaving \in [task : SatTasks \cup {NoSched}, purge : BOOLEAN]
    BY DEF SatInv, SatTyped, Sched
  <1>2. \A t \in SatTasks : sched.pc[t] = "gone"
    BY <1>1 DEF SatInv, OneLoop, UninstallEnds, Live
  <1>3. /\ sched' = [sched EXCEPT !.task = NoSched]
        /\ leaving' = [task |-> NoSched, purge |-> FALSE]
    BY DEF UninstallEnds
  <1>4. /\ sched' \in Sched /\ sched'.pc = sched.pc
        /\ leaving' \in [task : SatTasks \cup {NoSched}, purge : BOOLEAN]
        /\ leaving'.task = NoSched
    BY <1>1, <1>3 DEF Sched
  <1>5. Left(leaving.purge) /\ UNCHANGED <<installing, computing, fetching>>
    BY DEF UninstallEnds
  <1>6. leaving.purge \in BOOLEAN
    BY <1>1
  <1> QED BY <1>2, <1>4, <1>5, <1>6, LeftKeeps

LEMMA RestartKeeps ==
    ASSUME SatInv, Restart PROVE SatInv'
  <1> DEFINE none == [task |-> NoSched, pc |-> [t \in SatTasks |-> "gone"]]
  <1>1. /\ UNCHANGED <<kv, tables, catalog, passes, switchedOff>>
        /\ installing' = 0 /\ leaving' = [task |-> NoSched, purge |-> FALSE]
        /\ computing' = {} /\ fetching' = {}
        /\ IF kv.installed THEN SchedStarted(none) ELSE sched' = none
    BY DEF Restart
  <1>2. /\ none \in Sched /\ none.task = NoSched
        /\ \A t \in SatTasks : none.pc[t] = "gone"
    BY DEF Sched, TaskStates
  <1> HIDE DEF none
  <1>3. /\ sched' \in Sched
        /\ \A t \in SatTasks : sched'.pc[t] # "gone" => t = sched'.task
        /\ \A t \in SatTasks : sched'.pc[t] # "cancelled"
        /\ kv.installed <=> (sched'.task # NoSched /\ sched'.pc[sched'.task] # "gone")
    <2>1. CASE kv.installed
      BY <1>1, <1>2, <2>1, StartedIs
    <2>2. CASE ~kv.installed
      BY <1>1, <1>2, <2>2
    <2> QED BY <2>1, <2>2
  <1>4. leaving'.task = NoSched /\ leaving' \in [task : SatTasks \cup {NoSched}, purge : BOOLEAN]
    BY <1>1
  <1>5. SatTyped'
    BY <1>1, <1>3, <1>4 DEF SatInv, SatTyped, Sched
  <1>6. OneLoop'
    BY <1>1, <1>3, <1>4 DEF SatInv, OneLoop, Live
  <1> QED BY <1>1, <1>5, <1>6 DEF SatInv, PredictsOnce, OffKept

-----------------------------------------------------------------------------
LEMMA SatInvStep ==
    ASSUME AdminOverlaps = FALSE, MaxComputing = 1, SatInv, [SatNext]_satVars
    PROVE  SatInv'
  <1>1. CASE RefreshAsked \/ RefreshFails \/ CatalogArrives \/ Imported
    BY <1>1, CatalogKeeps
  <1>2. CASE EnabledSet \/ SatDeleted
    BY <1>2, SwitchKeeps
  <1>3. CASE TlesArrive
    BY <1>3, TlesKeep
  <1>4. CASE CycleStarts
    BY <1>4, CycleKeeps
  <1>5. CASE RecomputeAsked
    BY <1>5, RecomputeKeeps
  <1>6. CASE PassesDeleted \/ PassesSaved
    BY <1>6, PredictionKeeps
  <1>7. CASE ComputeEnds
    BY <1>7, EndKeeps
  <1>8. CASE Install \/ InstallFails
    BY <1>8, InstallKeeps
  <1>9. CASE InstallEnds
    BY <1>9, InstalledKeeps
  <1>10. ASSUME NEW purge \in BOOLEAN, Uninstall(purge) PROVE SatInv'
    BY <1>10, UninstallKeeps
  <1>11. CASE LoopEnds
    BY <1>11, LoopEndKeeps
  <1>12. CASE UninstallEnds
    BY <1>12, UninstalledKeeps
  <1>13. CASE Restart
    BY <1>13, RestartKeeps
  <1>14. CASE UNCHANGED satVars
    BY <1>14 DEF satVars, SatInv, SatTyped, PredictsOnce, OneLoop, OffKept, Live
  <1> QED BY <1>1, <1>2, <1>3, <1>4, <1>5, <1>6, <1>7, <1>8, <1>9, <1>10, <1>11, <1>12,
             <1>13, <1>14 DEF SatNext

LEMMA HoldsOfInv == SatInv => SatelliteHolds
  <1> SUFFICES ASSUME SatInv PROVE SatelliteHolds
    OBVIOUS
  <1>1. SchedulerMatches
    BY DEF SatInv, OneLoop, SchedulerMatches, Live
  <1>2. ASSUME NEW s \in Sats PROVE passes[s] <= 1
    <2>1. passes[s] \in 0 .. 1
      BY DEF SatInv, SatTyped
    <2> QED BY <2>1
  <1>3. CatalogKept
    BY <1>2 DEF SatInv, OffKept, CatalogKept
  <1> QED BY <1>1, <1>3 DEF SatelliteHolds

\* While uninstalls and installs do not overlap and one prediction runs at a
\* time, for any number of satellites, tasks, restarts and failures: the loop
\* runs exactly when the module is installed and has its tables, no refresh,
\* import or reinstallation turns on what an operator has switched off, and
\* each pass is stored once (installer, lifecycle, catalog_manager, propagator).
THEOREM SatelliteStaysInStep ==
    ASSUME AdminOverlaps = FALSE, MaxComputing = 1
    PROVE  SatSpec => []SatelliteHolds
  <1>1. SatInit => SatInv
    BY SatInvInit
  <1>2. SatInv /\ [SatNext]_satVars => SatInv'
    BY SatInvStep
  <1>3. SatInv => SatelliteHolds
    BY HoldsOfInv
  <1> QED BY <1>1, <1>2, <1>3, PTL DEF SatSpec

-----------------------------------------------------------------------------
(***************************************************************************)
(* The mirrors: for any number of mirrors, tokens, threads of the API and  *)
(* restarts, with and without a vault.                                     *)
(***************************************************************************)
\* One thread at most is at work for a mirror, one that is registered unless it
\* is being deleted, and it carries the token the table has.
CallsKnown ==
    /\ \A c \in AdminCallers :
        /\ call[c].does = "nothing" <=> call[c].id = 0
        /\ call[c].does = "nothing" => call[c] = NoCall
        /\ call[c].id <= issued.mirrors
        /\ call[c].does \in {"caches", "seals"} =>
             Known(call[c].id) /\ registered[call[c].id].token = call[c].token
        /\ call[c].does = "seals" => vault /\ cached[call[c].id] = call[c].token
        /\ call[c].does = "drops" => ~Known(call[c].id)
    /\ \A c, d \in AdminCallers : call[c].id = call[d].id /\ call[c].id # 0 => c = d

\* What table, cache and vault say of a mirror nobody is at work for.
TokenInStep(m) ==
    IF ~Known(m) THEN cached[m] = 0
    ELSE m \notin torn =>
            /\ cached[m] \in {0, registered[m].token}
            /\ vault => /\ cached[m] = registered[m].token
                        /\ registered[m].sealed = registered[m].token

AdminInv ==
    /\ AdminTypeOK
    /\ CallsKnown
    /\ \A m \in MirrorIds : m > issued.mirrors => ~Known(m) /\ cached[m] = 0
    /\ \A m \in MirrorIds : Settled(m) => TokenInStep(m)

\* what the type invariant says of a row and of a call
MirrorRows == [there : BOOLEAN, enabled : BOOLEAN, failures : 0 .. DisableAfter, pushed : BOOLEAN,
               token : Tokens, sealed : Tokens]
Calls == [does : {"nothing", "caches", "seals", "drops"}, id : 0 .. LastMirror, token : Tokens]

LEMMA NothingTyped ==
  /\ NoMirror \in MirrorRows /\ NoCall \in Calls
  /\ NoPush \in [listed : SUBSET MirrorIds, id : 0 .. LastMirror, token : Tokens]
  BY AdminAssumption DEF NoMirror, NoCall, NoPush, MirrorRows, Calls, Tokens, MirrorIds

-----------------------------------------------------------------------------
LEMMA AdminInitial == AdminInit => AdminInv
  <1> SUFFICES ASSUME AdminInit PROVE AdminInv
    OBVIOUS
  <1>1. AdminTypeOK
    BY NothingTyped, AdminAssumption DEF AdminInit, AdminTypeOK, MirrorRows, Calls, Tokens, MirrorIds
  <1>2. CallsKnown
    BY DEF AdminInit, CallsKnown, NoCall
  <1>3. \A m \in MirrorIds : ~Known(m) /\ cached[m] = 0
    BY DEF AdminInit, Known, NoMirror
  <1> QED  BY <1>1, <1>2, <1>3 DEF AdminInv, TokenInStep

\* A step that leaves the tokens and the calls alone keeps the invariant.
LEMMA SameTokensKeep ==
  ASSUME AdminInv, registered' \in [MirrorIds -> MirrorRows],
         pushing' \in [listed : SUBSET MirrorIds, id : 0 .. LastMirror, token : Tokens],
         \A n \in MirrorIds : /\ registered'[n].there = registered[n].there
                            /\ registered'[n].token = registered[n].token
                            /\ registered'[n].sealed = registered[n].sealed,
         UNCHANGED <<issued, vault, cached, call, torn>>
  PROVE  AdminInv'
  <1> USE DEF AdminInv
  <1>1. AdminTypeOK'
    BY DEF AdminTypeOK, MirrorRows
  <1>2. CallsKnown'
    BY DEF CallsKnown, Known, AdminTypeOK, MirrorIds
  <1>3. \A n \in MirrorIds : n > issued'.mirrors => ~Known(n)' /\ cached'[n] = 0
    BY DEF Known
  <1>4. \A n \in MirrorIds : Settled(n)' => TokenInStep(n)'
    BY DEF Settled, TokenInStep, Known
  <1> QED  BY <1>1, <1>2, <1>3, <1>4

-----------------------------------------------------------------------------
(***************************************************************************)
(* The calls of the API.                                                   *)
(***************************************************************************)
LEMMA MirrorCreatedKeeps ==
  ASSUME AdminInv, NEW c \in AdminCallers, MirrorCreated(c)
  PROVE  AdminInv'
  <1> USE DEF AdminInv
  <1> DEFINE m == issued.mirrors + 1
  <1>1. PICK on \in BOOLEAN : registered' = [registered EXCEPT ![m] =
              [NoMirror EXCEPT !.there = TRUE, !.enabled = on, !.token = FreshToken]]
    BY DEF MirrorCreated
  <1>2. /\ m \in MirrorIds /\ FreshToken \in Tokens
        /\ issued' = [mirrors |-> m, tokens |-> FreshToken]
        /\ call[c] = NoCall
        /\ call' = [call EXCEPT ![c] = [does |-> "caches", id |-> m, token |-> FreshToken]]
        /\ UNCHANGED <<vault, cached, pushing, torn>>
    BY AdminAssumption DEF MirrorCreated, Begins, AdminTypeOK, MirrorIds, Tokens, FreshToken
  <1>3. /\ registered'[m].there /\ registered'[m].token = FreshToken
        /\ \A n \in MirrorIds \ {m} : registered'[n] = registered[n]
    BY <1>1, <1>2 DEF AdminTypeOK, NoMirror
  <1>4. /\ call'[c] = [does |-> "caches", id |-> m, token |-> FreshToken]
        /\ \A d \in AdminCallers \ {c} : call'[d] = call[d]
    BY <1>2 DEF AdminTypeOK
  <1>5. AdminTypeOK'
    <2>1. [NoMirror EXCEPT !.there = TRUE, !.enabled = on, !.token = FreshToken] \in MirrorRows
      BY <1>2, NothingTyped DEF MirrorRows
    <2>2. registered' \in [MirrorIds -> MirrorRows]
      BY <1>1, <1>2, <2>1 DEF AdminTypeOK, MirrorRows
    <2>3. call' \in [AdminCallers -> Calls]
      BY <1>2 DEF AdminTypeOK, Calls, MirrorIds
    <2>4. issued' \in [mirrors : 0 .. LastMirror, tokens : Tokens]
      BY <1>2 DEF MirrorIds
    <2> QED  BY <1>2, <2>2, <2>3, <2>4 DEF AdminTypeOK, MirrorRows, Calls
  <1>6. /\ issued.mirrors \in Nat /\ issued'.mirrors = issued.mirrors + 1
        /\ \A d \in AdminCallers : call[d].id \in Nat /\ call[d].id # m
    BY <1>2 DEF AdminTypeOK, CallsKnown, MirrorIds
  <1>7. CallsKnown'
    BY <1>2, <1>3, <1>4, <1>6 DEF CallsKnown, Known, NoCall, AdminTypeOK, MirrorIds
  <1>8. \A n \in MirrorIds : n > issued'.mirrors => ~Known(n)' /\ cached'[n] = 0
    BY <1>2, <1>3, <1>6 DEF Known, MirrorIds
  <1>9. ASSUME NEW n \in MirrorIds, Settled(n)' PROVE TokenInStep(n)'
    <2>1. n # m /\ Settled(n)
      BY <1>2, <1>4, <1>9 DEF Settled, NoCall, MirrorIds
    <2> QED  BY <1>2, <1>3, <2>1 DEF TokenInStep, Known
  <1> QED  BY <1>5, <1>7, <1>8, <1>9

LEMMA TokenRotatedKeeps ==
  ASSUME AdminInv, NEW c \in AdminCallers, NEW m \in MirrorIds, TokenRotated(c, m)
  PROVE  AdminInv'
  <1> USE DEF AdminInv
  <1>1. /\ Known(m) /\ Settled(m) /\ call[c] = NoCall /\ FreshToken \in Tokens
        /\ registered' = [registered EXCEPT ![m].token = FreshToken]
        /\ issued' = [issued EXCEPT !.tokens = FreshToken]
        /\ call' = [call EXCEPT ![c] = [does |-> "caches", id |-> m, token |-> FreshToken]]
        /\ UNCHANGED <<vault, cached, pushing, torn>>
    BY AdminAssumption DEF TokenRotated, Begins, AdminTypeOK, Tokens, FreshToken
  <1>2. /\ registered'[m].token = FreshToken
        /\ \A n \in MirrorIds : registered'[n].there = registered[n].there
        /\ \A n \in MirrorIds \ {m} : registered'[n] = registered[n]
    BY <1>1 DEF AdminTypeOK
  <1>3. /\ call'[c] = [does |-> "caches", id |-> m, token |-> FreshToken]
        /\ \A d \in AdminCallers \ {c} : call'[d] = call[d]
        /\ issued'.mirrors = issued.mirrors /\ issued.mirrors \in Nat
    BY <1>1 DEF AdminTypeOK
  <1>4. AdminTypeOK'
    <2>1. registered' \in [MirrorIds -> MirrorRows]
      BY <1>1 DEF AdminTypeOK, MirrorRows
    <2>2. call' \in [AdminCallers -> Calls]
      BY <1>1 DEF AdminTypeOK, Calls, MirrorIds
    <2>3. issued' \in [mirrors : 0 .. LastMirror, tokens : Tokens]
      BY <1>1 DEF AdminTypeOK
    <2> QED  BY <1>1, <2>1, <2>2, <2>3 DEF AdminTypeOK, MirrorRows, Calls
  <1>5. m <= issued.mirrors
    BY <1>1 DEF AdminTypeOK, MirrorIds
  <1>6. CallsKnown'
    BY <1>1, <1>2, <1>3, <1>5 DEF CallsKnown, Known, Settled, NoCall, AdminTypeOK, MirrorIds
  <1>7. ASSUME NEW n \in MirrorIds, Settled(n)' PROVE TokenInStep(n)'
    <2>1. n # m /\ Settled(n)
      BY <1>1, <1>3, <1>7 DEF Settled, NoCall, MirrorIds
    <2> QED  BY <1>1, <1>2, <2>1 DEF TokenInStep, Known
  <1> QED  BY <1>1, <1>2, <1>3, <1>4, <1>6, <1>7 DEF Known

LEMMA MirrorDeletedKeeps ==
  ASSUME AdminInv, NEW c \in AdminCallers, NEW m \in MirrorIds, MirrorDeleted(c, m)
  PROVE  AdminInv'
  <1> USE DEF AdminInv
  <1>1. /\ Known(m) /\ Settled(m) /\ call[c] = NoCall
        /\ registered' = [registered EXCEPT ![m] = NoMirror]
        /\ call' = [call EXCEPT ![c] = [does |-> "drops", id |-> m, token |-> 0]]
        /\ UNCHANGED <<issued, vault, cached, pushing, torn>>
    BY DEF MirrorDeleted, Begins
  <1>2. /\ ~registered'[m].there
        /\ \A n \in MirrorIds \ {m} : registered'[n] = registered[n]
    BY <1>1 DEF AdminTypeOK, NoMirror
  <1>3. /\ call'[c] = [does |-> "drops", id |-> m, token |-> 0]
        /\ \A d \in AdminCallers \ {c} : call'[d] = call[d]
    BY <1>1 DEF AdminTypeOK
  <1>4. AdminTypeOK'
    <2>1. registered' \in [MirrorIds -> MirrorRows]
      BY <1>1, NothingTyped DEF AdminTypeOK, MirrorRows
    <2>2. call' \in [AdminCallers -> Calls]
      BY <1>1, AdminAssumption DEF AdminTypeOK, Calls, MirrorIds, Tokens
    <2> QED  BY <1>1, <2>1, <2>2 DEF AdminTypeOK, MirrorRows, Calls
  <1>5. m <= issued.mirrors
    BY <1>1 DEF AdminTypeOK, MirrorIds
  <1>6. CallsKnown'
    BY <1>1, <1>2, <1>3, <1>5 DEF CallsKnown, Known, Settled, NoCall, AdminTypeOK, MirrorIds
  <1>7. ASSUME NEW n \in MirrorIds, Settled(n)' PROVE TokenInStep(n)'
    <2>1. n # m /\ Settled(n)
      BY <1>1, <1>3, <1>7 DEF Settled, NoCall, MirrorIds
    <2> QED  BY <1>1, <1>2, <2>1 DEF TokenInStep, Known
  <1>8. \A n \in MirrorIds : n > issued'.mirrors => ~Known(n)' /\ cached'[n] = 0
    BY <1>1, <1>2 DEF Known
  <1> QED  BY <1>4, <1>6, <1>7, <1>8

LEMMA TokenCachedKeeps ==
  ASSUME AdminInv, NEW c \in AdminCallers, TokenCached(c)
  PROVE  AdminInv'
  <1> USE DEF AdminInv
  <1> DEFINE m == call[c].id
  <1>1. /\ call[c].does = "caches" /\ m \in MirrorIds /\ Known(m)
        /\ registered[m].token = call[c].token
        /\ cached' = [cached EXCEPT ![m] = call[c].token]
        /\ UNCHANGED <<registered, issued, vault, pushing>>
    BY DEF TokenCached, CallsKnown, AdminTypeOK, MirrorIds
  <1>2. /\ cached'[m] = call[c].token
        /\ \A n \in MirrorIds \ {m} : cached'[n] = cached[n]
    BY <1>1 DEF AdminTypeOK
  <1>3. /\ \A d \in AdminCallers \ {c} : call'[d] = call[d] /\ call[d].id # m
        /\ torn' \subseteq torn /\ torn \subseteq torn' \cup {m}
    BY <1>1 DEF TokenCached, AdminTypeOK, CallsKnown, MirrorIds
  <1>4. m <= issued.mirrors
    BY DEF CallsKnown
  <1>5. \A n \in MirrorIds : n > issued'.mirrors => ~Known(n)' /\ cached'[n] = 0
    BY <1>1, <1>2 DEF Known
  <1>6. cached' \in [MirrorIds -> Tokens]
    BY <1>1 DEF AdminTypeOK
  <1>7. \A d \in AdminCallers \ {c} :
          call[d].does = "seals" => cached'[call[d].id] = cached[call[d].id]
    BY <1>2, <1>3 DEF CallsKnown, AdminTypeOK, MirrorIds
  <1>8. CASE vault
    <2>1. call' = [call EXCEPT ![c].does = "seals"] /\ UNCHANGED torn
      BY <1>8 DEF TokenCached
    <2>2. call'[c].does = "seals" /\ call'[c].id = m /\ call'[c].token = call[c].token
      BY <2>1 DEF AdminTypeOK
    <2>3. AdminTypeOK'
      <3>1. call' \in [AdminCallers -> Calls]
        BY <2>1 DEF AdminTypeOK, Calls
      <3> QED  BY <1>1, <1>6, <2>1, <3>1 DEF AdminTypeOK, Calls
    <2>4. CallsKnown'
      <3>1. \A d \in AdminCallers : call'[d].id = call[d].id /\ call'[d].token = call[d].token
        BY <1>3, <2>2
      <3>2. \A d \in AdminCallers \ {c} : call'[d] = call[d]
        BY <1>3
      <3> QED  BY <1>1, <1>2, <1>8, <1>7, <2>2, <3>1, <3>2 DEF CallsKnown, Known
    <2>5. ASSUME NEW n \in MirrorIds, Settled(n)' PROVE TokenInStep(n)'
      <3>1. n # m /\ Settled(n)
        BY <1>3, <2>2, <2>5 DEF Settled
      <3> QED  BY <1>1, <1>2, <2>1, <3>1 DEF TokenInStep, Known
    <2> QED  BY <1>5, <2>3, <2>4, <2>5
  <1>9. CASE ~vault
    <2>1. call' = [call EXCEPT ![c] = NoCall] /\ torn' = torn \ {m}
      BY <1>9 DEF TokenCached
    <2>2. call'[c] = NoCall
      BY <2>1 DEF AdminTypeOK
    <2>3. AdminTypeOK'
      <3>1. call' \in [AdminCallers -> Calls]
        BY <2>1, NothingTyped DEF AdminTypeOK, Calls
      <3> QED  BY <1>1, <1>6, <2>1, <3>1 DEF AdminTypeOK, Calls
    <2>4. CallsKnown'
      <3>1. ASSUME NEW d \in AdminCallers
            PROVE  /\ call'[d].does = "nothing" <=> call'[d].id = 0
                   /\ call'[d].does = "nothing" => call'[d] = NoCall
                   /\ call'[d].id <= issued'.mirrors
                   /\ call'[d].does \in {"caches", "seals"} =>
                        Known(call[d].id)' /\ registered'[call'[d].id].token = call'[d].token
                   /\ call'[d].does = "seals" => vault' /\ cached'[call'[d].id] = call'[d].token
                   /\ call'[d].does = "drops" => ~Known(call[d].id)'
        <4>1. CASE d = c
          <5>1. 0 <= issued.mirrors
            BY DEF AdminTypeOK
          <5> QED  BY <1>1, <2>2, <4>1, <5>1 DEF NoCall
        <4>2. CASE d # c
          <5>1. call'[d] = call[d]
            BY <1>3, <4>2
          <5>2. /\ call[d].does = "nothing" <=> call[d].id = 0
                /\ call[d].does = "nothing" => call[d] = NoCall
                /\ call[d].id <= issued.mirrors
                /\ call[d].does \in {"caches", "seals"} =>
                     Known(call[d].id) /\ registered[call[d].id].token = call[d].token
                /\ call[d].does = "seals" => vault /\ cached[call[d].id] = call[d].token
                /\ call[d].does = "drops" => ~Known(call[d].id)
            BY DEF CallsKnown
          <5>3. call[d].does = "seals" => cached'[call[d].id] = cached[call[d].id]
            BY <1>7, <4>2
          <5> QED  BY <1>1, <5>1, <5>2, <5>3 DEF Known
        <4> QED  BY <4>1, <4>2
      <3>2. \A d, e \in AdminCallers : call'[d].id = call'[e].id /\ call'[d].id # 0 => d = e
        BY <1>3, <2>2 DEF CallsKnown, NoCall
      <3> QED  BY <3>1, <3>2 DEF CallsKnown
    <2>5. ASSUME NEW n \in MirrorIds, Settled(n)' PROVE TokenInStep(n)'
      <3>1. CASE n = m
        BY <1>1, <1>2, <1>9, <3>1 DEF TokenInStep, Known
      <3>2. CASE n # m
        <4>1. Settled(n)
          BY <1>3, <2>5, <3>2 DEF Settled
        <4> QED  BY <1>1, <1>2, <2>1, <3>2, <4>1 DEF TokenInStep, Known
      <3> QED  BY <3>1, <3>2
    <2> QED  BY <1>5, <2>3, <2>4, <2>5
  <1> QED  BY <1>8, <1>9

LEMMA TokenSealedKeeps ==
  ASSUME AdminInv, NEW c \in AdminCallers, TokenSealed(c)
  PROVE  AdminInv'
  <1> USE DEF AdminInv
  <1> DEFINE m == call[c].id
  <1>1. /\ call[c].does = "seals" /\ m \in MirrorIds /\ Known(m) /\ vault
        /\ registered[m].token = call[c].token /\ cached[m] = call[c].token
        /\ call' = [call EXCEPT ![c] = NoCall]
        /\ UNCHANGED <<issued, vault, cached, pushing>>
    BY DEF TokenSealed, CallsKnown, AdminTypeOK, MirrorIds
  <1>2. /\ call'[c] = NoCall
        /\ \A d \in AdminCallers \ {c} : call'[d] = call[d] /\ call[d].id # m
    BY <1>1 DEF AdminTypeOK, CallsKnown, MirrorIds
  <1>3. \/ /\ registered' = [registered EXCEPT ![m].sealed = call[c].token] /\ torn' = torn \ {m}
        \/ registered' = registered /\ torn' = torn \cup {m}
    BY DEF TokenSealed
  <1>4. /\ \A n \in MirrorIds \ {m} : registered'[n] = registered[n]
        /\ registered'[m].there = registered[m].there
        /\ registered'[m].token = registered[m].token
        /\ m \in torn' \/ registered'[m].sealed = call[c].token
    BY <1>1, <1>3 DEF AdminTypeOK
  <1>5. AdminTypeOK'
    <2>1. registered' \in [MirrorIds -> MirrorRows]
      BY <1>1, <1>3 DEF AdminTypeOK, MirrorRows
    <2>2. call' \in [AdminCallers -> Calls]
      BY <1>1, NothingTyped DEF AdminTypeOK, Calls
    <2> QED  BY <1>1, <1>3, <2>1, <2>2 DEF AdminTypeOK, MirrorRows, Calls
  <1>6. \A n \in MirrorIds : Known(n)' <=> Known(n)
    BY <1>4 DEF Known
  <1>7. CallsKnown'
    <2>1. \A d \in AdminCallers \ {c} : call[d].id # 0 => registered'[call[d].id] = registered[call[d].id]
      BY <1>2, <1>4 DEF AdminTypeOK, MirrorIds
    <2> QED  BY <1>1, <1>2, <2>1 DEF CallsKnown, Known, NoCall, AdminTypeOK, MirrorIds
  <1>8. ASSUME NEW n \in MirrorIds, Settled(n)' PROVE TokenInStep(n)'
    <2>1. CASE n = m
      BY <1>1, <1>4, <2>1 DEF TokenInStep, Known
    <2>2. CASE n # m
      <3>1. Settled(n)
        BY <1>2, <1>8, <2>2 DEF Settled
      <3> QED  BY <1>1, <1>3, <1>4, <2>2, <3>1 DEF TokenInStep, Known
    <2> QED  BY <2>1, <2>2
  <1>9. \A n \in MirrorIds : n > issued'.mirrors => ~Known(n)' /\ cached'[n] = 0
    BY <1>1, <1>6
  <1> QED  BY <1>5, <1>7, <1>8, <1>9

LEMMA TokenDroppedKeeps ==
  ASSUME AdminInv, NEW c \in AdminCallers, TokenDropped(c)
  PROVE  AdminInv'
  <1> USE DEF AdminInv
  <1> DEFINE m == call[c].id
  <1>1. /\ m \in MirrorIds /\ ~Known(m)
        /\ cached' = [cached EXCEPT ![m] = 0] /\ call' = [call EXCEPT ![c] = NoCall]
        /\ UNCHANGED <<registered, issued, vault, pushing, torn>>
    BY DEF TokenDropped, CallsKnown, AdminTypeOK, MirrorIds
  <1>2. /\ call'[c] = NoCall
        /\ \A d \in AdminCallers \ {c} : call'[d] = call[d] /\ call[d].id # m
    BY <1>1 DEF AdminTypeOK, CallsKnown, MirrorIds
  <1>3. cached'[m] = 0 /\ \A n \in MirrorIds \ {m} : cached'[n] = cached[n]
    BY <1>1 DEF AdminTypeOK
  <1>4. AdminTypeOK'
    <2>1. cached' \in [MirrorIds -> Tokens]
      BY <1>1, AdminAssumption DEF AdminTypeOK, Tokens
    <2> QED  BY <1>1, <2>1, NothingTyped DEF AdminTypeOK, Calls
  <1>5. CallsKnown'
    BY <1>1, <1>2, <1>3 DEF CallsKnown, Known, NoCall, AdminTypeOK, MirrorIds
  <1>6. ASSUME NEW n \in MirrorIds, Settled(n)' PROVE TokenInStep(n)'
    <2>1. CASE n = m
      BY <1>1, <1>3, <2>1 DEF TokenInStep, Known
    <2>2. CASE n # m
      <3>1. Settled(n)
        BY <1>2, <1>6, <2>2 DEF Settled
      <3> QED  BY <1>1, <1>3, <2>2, <3>1 DEF TokenInStep, Known
    <2> QED  BY <2>1, <2>2
  <1>7. \A n \in MirrorIds : n > issued'.mirrors => ~Known(n)' /\ cached'[n] = 0
    BY <1>1, <1>3 DEF Known
  <1> QED  BY <1>4, <1>5, <1>6, <1>7

LEMMA EnabledSwitchedKeeps ==
  ASSUME AdminInv, NEW m \in MirrorIds, EnabledSwitched(m)
  PROVE  AdminInv'
  <1> USE DEF AdminInv
  <1>1. PICK on \in BOOLEAN, failures \in {0, registered[m].failures} :
          registered' = [registered EXCEPT ![m].enabled = on, ![m].failures = failures]
    BY DEF EnabledSwitched
  <1>2. UNCHANGED <<issued, vault, cached, call, pushing, torn>>
    BY DEF EnabledSwitched
  <1>3. registered' \in [MirrorIds -> MirrorRows]
    <2>1. failures \in 0 .. DisableAfter
      BY AdminAssumption DEF AdminTypeOK
    <2>2. \A row \in MirrorRows :
            [row EXCEPT !.enabled = on, !.failures = failures] \in MirrorRows
      BY <2>1 DEF MirrorRows
    <2>3. registered \in [MirrorIds -> MirrorRows]
      BY DEF AdminTypeOK, MirrorRows
    <2>4. registered' = [registered EXCEPT ![m] = [registered[m] EXCEPT !.enabled = on, !.failures = failures]]
      BY <1>1, <2>3
    <2> QED  BY <2>2, <2>3, <2>4
  <1>4. \A n \in MirrorIds : /\ registered'[n].there = registered[n].there
                           /\ registered'[n].token = registered[n].token
                           /\ registered'[n].sealed = registered[n].sealed
    BY <1>1 DEF AdminTypeOK
  <1>5. pushing' \in [listed : SUBSET MirrorIds, id : 0 .. LastMirror, token : Tokens]
    BY <1>2 DEF AdminTypeOK
  <1> QED  BY <1>2, <1>3, <1>4, <1>5, SameTokensKeep

-----------------------------------------------------------------------------
(***************************************************************************)
(* The pusher and a restart.                                               *)
(***************************************************************************)
LEMMA TickKeeps ==
  ASSUME AdminInv, TickLists \/ PushBegins
  PROVE  AdminInv'
  <1>1. UNCHANGED <<registered, issued, vault, cached, call, torn>>
    BY DEF TickLists, PushBegins
  <1>2. pushing' \in [listed : SUBSET MirrorIds, id : 0 .. LastMirror, token : Tokens]
    <2>1. CASE TickLists
      BY <2>1, NothingTyped DEF TickLists, NoPush
    <2>2. CASE PushBegins
      BY <2>2 DEF PushBegins, AdminInv, AdminTypeOK, MirrorIds
    <2> QED  BY <2>1, <2>2
  <1> QED  BY <1>1, <1>2 DEF AdminInv, AdminTypeOK, CallsKnown, TokenInStep, Known, Settled

LEMMA PushEndsKeeps ==
  ASSUME AdminInv, PushEnds
  PROVE  AdminInv'
  <1> USE DEF AdminInv
  <1>1. UNCHANGED <<issued, vault, cached, call, torn>>
    BY DEF PushEnds
  <1>2. pushing' \in [listed : SUBSET MirrorIds, id : 0 .. LastMirror, token : Tokens]
    BY NothingTyped DEF PushEnds, AdminTypeOK, NoPush
  <1>3. CASE UNCHANGED registered
    BY <1>1, <1>2, <1>3 DEF AdminTypeOK, CallsKnown, TokenInStep, Known, Settled
  <1>4. CASE \E success \in BOOLEAN :
               registered' = [registered EXCEPT ![pushing.id] = Recorded(@, success)]
    <2>1. PICK success \in BOOLEAN :
            registered' = [registered EXCEPT ![pushing.id] = Recorded(@, success)]
      BY <1>4
    <2>2. pushing.id \in MirrorIds
      BY DEF PushEnds, AdminTypeOK, MirrorIds
    <2>3. ASSUME NEW row \in MirrorRows
          PROVE  /\ Recorded(row, success) \in MirrorRows
                 /\ Recorded(row, success).there = row.there
                 /\ Recorded(row, success).token = row.token
                 /\ Recorded(row, success).sealed = row.sealed
      <3> DEFINE failures == IF row.failures < DisableAfter THEN row.failures + 1 ELSE DisableAfter
                 failed(on) == [row EXCEPT !.failures = failures, !.pushed = TRUE, !.enabled = on]
                 cleared == [row EXCEPT !.failures = 0, !.pushed = TRUE]
      <3>1. failures \in 0 .. DisableAfter
        BY AdminAssumption DEF MirrorRows
      <3>2. PICK on \in BOOLEAN : on = (row.enabled /\ failures < DisableAfter)
        OBVIOUS
      <3> HIDE DEF failures
      <3>3. /\ failed(on) \in MirrorRows /\ failed(on).there = row.there
            /\ failed(on).token = row.token /\ failed(on).sealed = row.sealed
        BY <3>1 DEF MirrorRows
      <3>4. 0 \in 0 .. DisableAfter
        BY AdminAssumption
      <3>5. /\ cleared \in MirrorRows /\ cleared.there = row.there
            /\ cleared.token = row.token /\ cleared.sealed = row.sealed
        BY <3>4 DEF MirrorRows
      <3>6. failed(row.enabled /\ failures < DisableAfter) = failed(on)
        BY <3>2, Zenon
      <3>7. Recorded(row, success) = IF success THEN cleared ELSE failed(row.enabled /\ failures < DisableAfter)
        BY Zenon DEF Recorded, failures
      <3> HIDE DEF failed, cleared
      <3> QED  BY <3>3, <3>5, <3>6, <3>7
    <2>4. registered \in [MirrorIds -> MirrorRows]
      BY DEF AdminTypeOK, MirrorRows
    <2>5. registered' \in [MirrorIds -> MirrorRows]
      BY <2>1, <2>2, <2>3, <2>4
    <2>6. \A n \in MirrorIds : /\ registered'[n].there = registered[n].there
                             /\ registered'[n].token = registered[n].token
                             /\ registered'[n].sealed = registered[n].sealed
      BY <2>1, <2>2, <2>3, <2>4
    <2> QED  BY <1>1, <1>2, <2>5, <2>6, SameTokensKeep
  <1> QED  BY <1>3, <1>4 DEF PushEnds

LEMMA AppRestartsKeeps ==
  ASSUME AdminInv, AppRestarts
  PROVE  AdminInv'
  <1> USE DEF AdminInv
  <1> DEFINE cut == {call[c].id : c \in {d \in AdminCallers : call[d].does \in {"caches", "seals"}}}
  <1>1. /\ torn' = torn \cup cut
        /\ cached' = [m \in MirrorIds |-> Loaded(m)]
        /\ call' = [c \in AdminCallers |-> NoCall] /\ pushing' = NoPush
        /\ UNCHANGED <<registered, issued, vault>>
    BY DEF AppRestarts
  <1>2. cut \subseteq MirrorIds
    BY DEF CallsKnown, AdminTypeOK, MirrorIds
  <1>3. \A m \in MirrorIds : Loaded(m) \in Tokens
    BY AdminAssumption DEF Loaded, AdminTypeOK, Tokens
  <1>4. AdminTypeOK'
    BY <1>1, <1>2, <1>3, NothingTyped DEF AdminTypeOK, Calls
  <1>5. CallsKnown'
    BY <1>1 DEF CallsKnown, NoCall, AdminTypeOK
  <1>6. ASSUME NEW m \in MirrorIds PROVE TokenInStep(m)'
    <2>1. CASE ~Known(m)
      BY <1>1, <2>1 DEF TokenInStep, Known, Loaded
    <2>2. CASE Known(m) /\ m \notin torn'
      <3>1. Settled(m)
        <4> SUFFICES ASSUME NEW c \in AdminCallers, call[c].id = m PROVE FALSE
          BY DEF Settled
        <4>1. call[c].does \notin {"caches", "seals"}
          BY <1>1, <2>2
        <4> QED  BY <2>2, <4>1 DEF CallsKnown, AdminTypeOK, MirrorIds
      <3> QED  BY <1>1, <2>2, <3>1 DEF TokenInStep, Known, Loaded
    <2>3. CASE Known(m) /\ m \in torn'
      BY <1>1, <2>3 DEF TokenInStep, Known
    <2> QED  BY <2>1, <2>2, <2>3
  <1>7. \A m \in MirrorIds : m > issued'.mirrors => ~Known(m)' /\ cached'[m] = 0
    BY <1>1 DEF Known, Loaded
  <1> QED  BY <1>4, <1>5, <1>6, <1>7

-----------------------------------------------------------------------------
LEMMA AdminStep == AdminInv /\ [AdminNext]_adminVars => AdminInv'
  <1> SUFFICES ASSUME AdminInv, [AdminNext]_adminVars PROVE AdminInv'
    OBVIOUS
  <1>1. CASE \E c \in AdminCallers :
               MirrorCreated(c) \/ TokenCached(c) \/ TokenSealed(c) \/ TokenDropped(c)
    BY <1>1, MirrorCreatedKeeps, TokenCachedKeeps, TokenSealedKeeps, TokenDroppedKeeps
  <1>2. CASE \E c \in AdminCallers, m \in MirrorIds : TokenRotated(c, m) \/ MirrorDeleted(c, m)
    BY <1>2, TokenRotatedKeeps, MirrorDeletedKeeps
  <1>3. CASE \E m \in MirrorIds : EnabledSwitched(m)
    BY <1>3, EnabledSwitchedKeeps
  <1>4. CASE TickLists \/ PushBegins \/ PushEnds \/ AppRestarts
    BY <1>4, TickKeeps, PushEndsKeeps, AppRestartsKeeps
  <1>5. CASE UNCHANGED adminVars
    BY <1>5 DEF adminVars, AdminInv, AdminTypeOK, CallsKnown, TokenInStep, Known, Settled
  <1> QED  BY <1>1, <1>2, <1>3, <1>4, <1>5 DEF AdminNext

\* Rotations, deletions, ticks and restarts, in any order and for any number of
\* mirrors: the pusher signs with the token the table has, or not at all.
THEOREM TokensMatch == AdminSpec => []TokenMatches
  <1>1. AdminInv => TokenMatches
    BY DEF AdminInv, TokenMatches, TokenInStep
  <1> QED  BY <1>1, AdminInitial, AdminStep, PTL DEF AdminSpec

-----------------------------------------------------------------------------
(***************************************************************************)
(* The presets: for every length of the day, every set of minutes, any     *)
(* number of presets, schedules and requests.                              *)
(***************************************************************************)
(***************************************************************************)
(* The arithmetic of the circular clock.                                   *)
(***************************************************************************)
DayMinutes == 0 .. Day - 1

\* a window is open in the minutes of its ranges
LEMMA OpenInRange ==
  ASSUME NEW w \in Windows, NEW now \in DayMinutes
  PROVE  Open(now, w) <=> \E a \in Ranges(w) : a.from <= now /\ now < a.to
  <1>1. w.start \in Nat /\ w.end \in Nat /\ w.start # w.end /\ now \in Nat /\ now < Day
    BY PresetAssumption DEF DayMinutes, Windows
  <1>2. CASE w.start < w.end
    <2>1. Ranges(w) = {[from |-> w.start, to |-> w.end]}
      BY <1>2 DEF Ranges
    <2> QED  BY <1>1, <1>2, <2>1 DEF Open
  <1>3. CASE ~(w.start < w.end)
    <2>1. Ranges(w) = {[from |-> w.start, to |-> Day], [from |-> 0, to |-> w.end]}
      BY <1>3 DEF Ranges
    <2>2. Open(now, w) <=> now >= w.start \/ now < w.end
      BY <1>1, <1>3 DEF Open
    <2> QED  BY <1>1, <2>1, <2>2
  <1> QED  BY <1>2, <1>3

LEMMA RangesInDay ==
  ASSUME NEW w \in Windows, NEW a \in Ranges(w)
  PROVE  a.from \in Nat /\ a.to \in Nat /\ a.to <= Day
  BY PresetAssumption DEF DayMinutes, Windows, Ranges

\* _windows_overlap and _time_in_window agree: the check at creation rejects a
\* window exactly when some minute of the day would find both open.
THEOREM OverlapIsSharedMinute ==
  ASSUME NEW v \in Windows, NEW w \in Windows
  PROVE  Overlap(v, w) <=> SharedMinute(v, w)
  <1>1. ASSUME Overlap(v, w) PROVE SharedMinute(v, w)
    <2>1. PICK a \in Ranges(v), b \in Ranges(w) : a.from < b.to /\ b.from < a.to
      BY <1>1 DEF Overlap
    <2>2. a.from \in Nat /\ a.to \in Nat /\ a.to <= Day
      BY RangesInDay
    <2>3. b.from \in Nat /\ b.to \in Nat /\ b.to <= Day
      BY RangesInDay
    <2> DEFINE now == IF a.from <= b.from THEN b.from ELSE a.from
    \* a range is empty only when its window ends at midnight
    <2>4. a.from < a.to \/ a.to = 0
      BY PresetAssumption DEF DayMinutes, Windows, Ranges
    <2>5. b.from < b.to \/ b.to = 0
      BY PresetAssumption DEF DayMinutes, Windows, Ranges
    <2>6. now \in DayMinutes /\ a.from <= now /\ now < a.to /\ b.from <= now /\ now < b.to
      BY <2>1, <2>2, <2>3, <2>4, <2>5, PresetAssumption DEF DayMinutes
    <2>7. Open(now, v) /\ Open(now, w)
      BY <2>6, OpenInRange
    <2> QED  BY <2>6, <2>7 DEF SharedMinute, DayMinutes
  <1>2. ASSUME SharedMinute(v, w) PROVE Overlap(v, w)
    <2>1. PICK now \in DayMinutes : Open(now, v) /\ Open(now, w)
      BY <1>2 DEF SharedMinute, DayMinutes
    <2>2. PICK a \in Ranges(v) : a.from <= now /\ now < a.to
      BY <2>1, OpenInRange
    <2>3. PICK b \in Ranges(w) : b.from <= now /\ now < b.to
      BY <2>1, OpenInRange
    <2>4. now \in Nat
      BY PresetAssumption DEF DayMinutes
    <2> QED  BY <2>2, <2>3, <2>4, RangesInDay DEF Overlap
  <1> QED  BY <1>1, <1>2

-----------------------------------------------------------------------------
(***************************************************************************)
(* The inductive invariant.                                                *)
(***************************************************************************)
\* Ids only grow: what a request has seen is older than what it will save.
IdsGrow ==
    /\ \A i \in DOMAIN schedules : i <= given.schedule /\ schedules[i].seen < i
    /\ \A c \in PresetCallers : create[c].seen <= given.schedule

\* The check of a request holds until its save, but for the windows that were
\* switched on or saved meanwhile.
StillChecked ==
    \A c \in PresetCallers : create[c].at = "save" =>
      \A i \in Enabled :
        i <= create[c].seen /\ Overlap(schedules[i].window, create[c].window)
          => schedules[i].switched

\* OverlapExplained, as the handler computes it, and also while the newer of
\* the two is switched off.
RejectedUnless ==
    \A i \in Enabled, j \in DOMAIN schedules :
        i < j /\ Overlap(schedules[i].window, schedules[j].window)
          => schedules[i].switched \/ schedules[j].seen < i

\* A request knows whether it has lost its preset.
StillNamed ==
    \A c \in PresetCallers :
        create[c] # NoRequest => create[c].preset \in saved \/ create[c].lost

PresetInv ==
    PresetTypeOK /\ IdsGrow /\ StillChecked /\ RejectedUnless /\ StillNamed /\ ScheduleNamed

LEMMA OverlapSymmetric ==
  ASSUME NEW v, NEW w PROVE Overlap(v, w) <=> Overlap(w, v)
  BY DEF Overlap

-----------------------------------------------------------------------------
LEMMA PresetInitInv == PresetInit => PresetInv
  BY PresetAssumption DEF PresetInit, PresetInv, PresetTypeOK, IdsGrow, StillChecked,
     RejectedUnless, StillNamed, ScheduleNamed, NoRequest, Asking, NoPreset, Enabled

LEMMA SavePresetInv == PresetInv /\ SavePreset => PresetInv'
  <1> SUFFICES ASSUME PresetInv, SavePreset PROVE PresetInv'
    OBVIOUS
  <1>1. /\ given'.schedule = given.schedule /\ given' \in [preset : 0 .. LastPreset, schedule : 0 .. LastSchedule]
        /\ saved' = saved \cup {given.preset + 1} /\ given.preset + 1 \in 1 .. LastPreset
        /\ UNCHANGED <<schedules, create, tick>>
    BY PresetAssumption DEF PresetInv, PresetTypeOK, SavePreset
  <1>2. PresetTypeOK'
    BY <1>1 DEF PresetInv, PresetTypeOK
  <1>3. IdsGrow' /\ StillChecked' /\ RejectedUnless'
    BY <1>1 DEF PresetInv, IdsGrow, StillChecked, RejectedUnless, Enabled
  <1>4. StillNamed' /\ ScheduleNamed'
    BY <1>1 DEF PresetInv, StillNamed, ScheduleNamed
  <1> QED  BY <1>2, <1>3, <1>4 DEF PresetInv

LEMMA DeletePresetInv ==
  ASSUME NEW p \in 1 .. LastPreset, PresetInv, DeletePreset(p)
  PROVE  PresetInv'
  <1>1. /\ saved' = saved \ {p} /\ UNCHANGED <<given, tick>>
        /\ DOMAIN schedules' = {i \in DOMAIN schedules : schedules[i].preset # p}
        /\ \A i \in DOMAIN schedules' : i \in DOMAIN schedules /\ schedules'[i] = schedules[i]
    BY DEF DeletePreset, Without
  <1>2. \A c \in PresetCallers :
           /\ create[c] = NoRequest => create'[c] = NoRequest
           /\ create[c] # NoRequest =>
                 /\ create'[c] # NoRequest
                 /\ create'[c].at = create[c].at /\ create'[c].preset = create[c].preset
                 /\ create'[c].window = create[c].window /\ create'[c].seen = create[c].seen
                 /\ create'[c].lost = (create[c].lost \/ create[c].preset = p)
                 /\ create'[c] \in Request
    <2> TAKE c \in PresetCallers
    <2>1. create'[c] = IF create[c].preset = p THEN [create[c] EXCEPT !.lost = TRUE] ELSE create[c]
      BY DEF DeletePreset, Loses
    <2>2. CASE create[c] = NoRequest
      BY <2>1, <2>2, PresetAssumption DEF NoRequest, Asking, NoPreset
    <2>3. CASE create[c] # NoRequest
      <3>1. create[c] \in Request
        BY <2>3 DEF PresetInv, PresetTypeOK
      <3>2. CASE create[c].preset = p
        <4>1. create'[c] = [create[c] EXCEPT !.lost = TRUE]
          BY <2>1, <3>2
        <4>2. create'[c] \in Request /\ create'[c].lost = TRUE /\ create'[c].at # "idle"
          BY <3>1, <4>1 DEF Request
        <4>3. /\ create'[c].at = create[c].at /\ create'[c].preset = create[c].preset
              /\ create'[c].window = create[c].window /\ create'[c].seen = create[c].seen
          BY <3>1, <4>1 DEF Request
        <4>4. create'[c] # NoRequest
          BY <4>2 DEF NoRequest, Asking
        <4>5. create'[c].lost = (create[c].lost \/ create[c].preset = p)
          BY <3>2, <4>2
        <4> QED  BY <2>3, <4>2, <4>3, <4>4, <4>5
      <3>3. CASE create[c].preset # p
        <4>1. create'[c] = create[c]
          BY <2>1, <3>3
        <4>2. create[c].lost \in BOOLEAN
          BY <3>1 DEF Request
        <4> QED  BY <2>3, <3>1, <3>3, <4>1, <4>2
      <3> QED  BY <3>2, <3>3
    <2> QED  BY <2>2, <2>3
  <1>3. PresetTypeOK'
    <2>1. create' \in [PresetCallers -> {NoRequest} \cup Request]
      <3>1. DOMAIN create' = PresetCallers /\ create' = [c \in PresetCallers |-> create'[c]]
        BY DEF DeletePreset, Loses
      <3>2. \A c \in PresetCallers : create'[c] \in {NoRequest} \cup Request
        BY <1>2
      <3> QED  BY <3>1, <3>2
    <2> QED  BY <1>1, <2>1 DEF PresetInv, PresetTypeOK
  <1>4. \A c \in PresetCallers : create'[c].at = create[c].at /\ create'[c].seen = create[c].seen
                                 /\ create'[c].window = create[c].window
    BY <1>2
  <1>5. IdsGrow' /\ RejectedUnless'
    BY <1>1, <1>4 DEF PresetInv, IdsGrow, RejectedUnless, Enabled
  <1>6. StillChecked'
    BY <1>1, <1>4 DEF PresetInv, StillChecked, Enabled
  <1>7. StillNamed'
    BY <1>1, <1>2 DEF PresetInv, StillNamed
  <1>8. ScheduleNamed'
    BY <1>1 DEF PresetInv, ScheduleNamed
  <1> QED  BY <1>3, <1>5, <1>6, <1>7, <1>8 DEF PresetInv

LEMMA CreateScheduleInv ==
  ASSUME NEW c \in PresetCallers, PresetInv, CreateSchedule(c)
  PROVE  PresetInv'
  <1>1. PICK p \in saved, w \in AskedWindows :
           create' = [create EXCEPT ![c] = Asking("windows", p, w, 0, FALSE)]
    BY DEF CreateSchedule
  <1> DEFINE new == [at |-> "windows", preset |-> p, window |-> w, seen |-> 0, lost |-> FALSE]
  <1>2. new = Asking("windows", p, w, 0, FALSE)
    BY DEF Asking
  <1>3. create \in [PresetCallers -> {NoRequest} \cup Request] /\ new \in Request
    BY PresetAssumption DEF PresetInv, PresetTypeOK, Request
  <1>4. /\ UNCHANGED <<saved, schedules, given, tick>>
        /\ create' = [create EXCEPT ![c] = new]
    BY <1>1, <1>2 DEF CreateSchedule
  <1>5. \A d \in PresetCallers : create'[d] = new \/ create'[d] = create[d]
    BY <1>3, <1>4
  <1>6. PresetTypeOK'
    BY <1>3, <1>4 DEF PresetInv, PresetTypeOK
  <1>7. IdsGrow' /\ StillChecked'
    BY <1>4, <1>5, PresetAssumption
    DEF PresetInv, PresetTypeOK, IdsGrow, StillChecked, Enabled
  <1>8. RejectedUnless' /\ ScheduleNamed'
    BY <1>4 DEF PresetInv, RejectedUnless, ScheduleNamed, Enabled
  <1>9. StillNamed'
    BY <1>4, <1>5 DEF PresetInv, StillNamed
  <1> QED  BY <1>6, <1>7, <1>8, <1>9 DEF PresetInv

LEMMA CheckWindowsInv ==
  ASSUME NEW c \in PresetCallers, PresetInv, CheckWindows(c)
  PROVE  PresetInv'
  <1>1. create[c].at = "windows" /\ UNCHANGED <<saved, schedules, given, tick>>
    BY DEF CheckWindows
  <1>2. create[c] \in Request
    BY <1>1 DEF PresetInv, PresetTypeOK, NoRequest, Asking, Request
  <1> DEFINE new == [at |-> "save", preset |-> create[c].preset, window |-> create[c].window,
                     seen |-> given.schedule, lost |-> create[c].lost]
  <1> DEFINE clash == \E i \in Enabled : Overlap(create[c].window, schedules[i].window)
  <1>3. create \in [PresetCallers -> {NoRequest} \cup Request] /\ new \in Request
    BY <1>2, PresetAssumption DEF PresetInv, PresetTypeOK, Request
  <1>4. new = Asking("save", create[c].preset, create[c].window, given.schedule, create[c].lost)
    BY DEF Asking
  <1>5. create' = [create EXCEPT ![c] = IF clash THEN NoRequest ELSE new]
    BY <1>4 DEF CheckWindows
  <1>6. /\ \A d \in PresetCallers : d # c => create'[d] = create[d]
        /\ clash => create'[c] = NoRequest
        /\ ~clash => create'[c] = new
    BY <1>3, <1>5
  <1> HIDE DEF clash
  <1>7. PresetTypeOK'
    BY <1>1, <1>3, <1>5 DEF PresetInv, PresetTypeOK
  <1>8. new.seen <= given.schedule /\ NoRequest.seen <= given.schedule
    BY PresetAssumption DEF PresetInv, PresetTypeOK, NoRequest, Asking
  <1>9. IdsGrow' /\ RejectedUnless' /\ ScheduleNamed'
    BY <1>1, <1>6, <1>8 DEF PresetInv, IdsGrow, RejectedUnless, ScheduleNamed, Enabled
  <1>10. ~clash => \A i \in Enabled : ~Overlap(schedules[i].window, create[c].window)
    BY OverlapSymmetric DEF clash
  <1>11. StillChecked'
    <2> SUFFICES ASSUME NEW d \in PresetCallers, create'[d].at = "save", NEW i \in Enabled',
                        i <= create'[d].seen, Overlap(schedules'[i].window, create'[d].window)
                 PROVE  schedules'[i].switched
      BY DEF StillChecked
    <2>1. i \in Enabled /\ schedules' = schedules
      BY <1>1 DEF Enabled
    <2>2. CASE d # c
      BY <1>6, <2>1, <2>2 DEF PresetInv, StillChecked
    <2>3. CASE d = c
      <3>1. create'[c] # NoRequest
        BY <2>3 DEF NoRequest, Asking
      <3>2. ~clash /\ create'[c] = new
        BY <1>6, <3>1
      <3> QED  BY <1>10, <2>1, <2>3, <3>2
    <2> QED  BY <2>2, <2>3
  <1>12. StillNamed'
    <2>1. create[c] # NoRequest
      BY <1>1 DEF NoRequest, Asking
    <2>2. create[c].preset \in saved \/ create[c].lost
      BY <2>1 DEF PresetInv, StillNamed
    <2> QED  BY <1>1, <1>6, <2>2 DEF PresetInv, StillNamed
  <1> QED  BY <1>7, <1>9, <1>11, <1>12 DEF PresetInv

LEMMA SaveScheduleInv ==
  ASSUME NEW c \in PresetCallers, PresetInv, SaveSchedule(c)
  PROVE  PresetInv'
  <1> DEFINE id  == given.schedule + 1
             row == [preset |-> create[c].preset, window |-> create[c].window,
                     enabled |-> TRUE, seen |-> create[c].seen, lost |-> create[c].lost,
                     switched |-> FALSE]
  <1>1. /\ create[c].at = "save" /\ given.schedule < LastSchedule
        /\ given' = [given EXCEPT !.schedule = id]
        /\ schedules' = [i \in DOMAIN schedules \cup {id} |->
                            IF i = id THEN row ELSE schedules[i]]
        /\ create' = [create EXCEPT ![c] = NoRequest]
        /\ UNCHANGED <<saved, tick>>
    BY DEF SaveSchedule
  <1>2. create[c] \in Request
        /\ create[c] # NoRequest
    BY <1>1 DEF PresetInv, PresetTypeOK, NoRequest, Asking, Request
  <1>3. row \in ScheduleRow /\ id \in 1 .. LastSchedule /\ given.schedule \in Nat
    BY <1>1, <1>2, PresetAssumption DEF PresetInv, PresetTypeOK, ScheduleRow, Request
  <1>4. given'.schedule = id /\ given' \in [preset : 0 .. LastPreset, schedule : 0 .. LastSchedule]
    BY <1>1, <1>3, PresetAssumption DEF PresetInv, PresetTypeOK
  <1>5. \A d \in PresetCallers : create'[d] = create[d] \/ create'[d] = NoRequest
    BY <1>1
  <1>6. /\ DOMAIN schedules' = DOMAIN schedules \cup {id} /\ schedules'[id] = row
        /\ \A i \in DOMAIN schedules : i \in 1 .. LastSchedule /\ i < id /\ schedules'[i] = schedules[i]
    BY <1>1, <1>3 DEF PresetInv, PresetTypeOK, IdsGrow
  <1>7. PresetTypeOK'
    BY <1>1, <1>3, <1>4, <1>5, <1>6 DEF PresetInv, PresetTypeOK
  <1>8. IdsGrow'
    BY <1>2, <1>3, <1>4, <1>5, <1>6, PresetAssumption
    DEF PresetInv, PresetTypeOK, IdsGrow, NoRequest, Asking, Request
  <1>9. Enabled' = Enabled \cup {id}
    BY <1>6 DEF Enabled
  \* the requests under way have not seen the new row
  <1>10. StillChecked'
    <2> SUFFICES ASSUME NEW d \in PresetCallers, create'[d].at = "save", NEW i \in Enabled',
                        i <= create'[d].seen, Overlap(schedules'[i].window, create'[d].window)
                 PROVE  schedules'[i].switched
      BY DEF StillChecked
    <2>1. create'[d] = create[d]
      BY <1>5 DEF NoRequest, Asking
    <2>2. create[d].seen <= given.schedule /\ create[d].seen \in Nat
      BY <2>1, PresetAssumption DEF PresetInv, PresetTypeOK, IdsGrow, NoRequest, Asking, Request
    <2>3. i # id
      BY <1>3, <2>1, <2>2
    <2>4. i \in Enabled
      BY <1>9, <2>3
    <2> QED  BY <1>6, <2>1, <2>4 DEF PresetInv, StillChecked, Enabled
  <1>11. RejectedUnless'
    <2> SUFFICES ASSUME NEW i \in Enabled', NEW j \in DOMAIN schedules', i < j,
                        Overlap(schedules'[i].window, schedules'[j].window)
                 PROVE  schedules'[i].switched \/ schedules'[j].seen < i
      BY DEF RejectedUnless
    <2>1. CASE j # id
      <3>1. i # id
        BY <1>3, <1>6, <1>9, <2>1 DEF Enabled
      <3> QED  BY <1>6, <1>9, <2>1, <3>1 DEF PresetInv, RejectedUnless, Enabled
    <2>2. CASE j = id
      <3>1. i # id /\ i \in Enabled /\ i \in Nat
        BY <1>3, <1>6, <1>9, <2>2 DEF Enabled
      <3>2. schedules'[i] = schedules[i]
        BY <1>6, <3>1 DEF Enabled
      <3>3. schedules'[j] = row
        BY <1>6, <2>2
      <3>4. schedules'[j].window = create[c].window /\ schedules'[j].seen = create[c].seen
        BY <3>3
      <3>5. i <= create[c].seen => schedules[i].switched
        BY <1>1, <3>1, <3>2, <3>4 DEF PresetInv, StillChecked
      <3> QED  BY <1>2, <3>1, <3>2, <3>4, <3>5, PresetAssumption DEF Request
    <2> QED  BY <2>1, <2>2
  <1>12. StillNamed'
    BY <1>1, <1>5 DEF PresetInv, StillNamed
  <1>13. ScheduleNamed'
    BY <1>1, <1>2, <1>6 DEF PresetInv, StillNamed, ScheduleNamed
  <1> QED  BY <1>7, <1>8, <1>10, <1>11, <1>12, <1>13 DEF PresetInv

LEMMA ToggleScheduleInv ==
  ASSUME NEW k, NEW on \in BOOLEAN, PresetInv, ToggleSchedule(k, on)
  PROVE  PresetInv'
  <1>1. /\ k \in DOMAIN schedules /\ UNCHANGED <<saved, given, create, tick>>
        /\ schedules' = [schedules EXCEPT ![k].enabled = on, ![k].switched = @ \/ on]
    BY DEF ToggleSchedule
  <1>2. /\ DOMAIN schedules' = DOMAIN schedules
        /\ \A i \in DOMAIN schedules : i # k => schedules'[i] = schedules[i]
    BY <1>1
  <1>3. schedules[k] \in ScheduleRow
    BY <1>1 DEF PresetInv, PresetTypeOK
  <1>4. schedules'[k] = [schedules[k] EXCEPT !.enabled = on, !.switched = @ \/ on]
    BY <1>1
  <1>5. /\ schedules'[k].window = schedules[k].window /\ schedules'[k].seen = schedules[k].seen
        /\ schedules'[k].preset = schedules[k].preset /\ schedules'[k].lost = schedules[k].lost
        /\ schedules'[k].enabled = on /\ schedules'[k].switched = (schedules[k].switched \/ on)
        /\ schedules'[k] \in ScheduleRow
    BY <1>3, <1>4 DEF ScheduleRow
  <1>6. \A i \in DOMAIN schedules :
           /\ schedules'[i].window = schedules[i].window /\ schedules'[i].seen = schedules[i].seen
           /\ schedules'[i].preset = schedules[i].preset /\ schedules'[i].lost = schedules[i].lost
           /\ schedules[i].switched => schedules'[i].switched
           /\ schedules'[i].enabled => schedules[i].enabled \/ schedules'[i].switched
    BY <1>2, <1>5
  <1>7. PresetTypeOK'
    BY <1>1, <1>2, <1>5 DEF PresetInv, PresetTypeOK
  <1>8. IdsGrow' /\ StillNamed' /\ ScheduleNamed'
    BY <1>1, <1>2, <1>6 DEF PresetInv, IdsGrow, StillNamed, ScheduleNamed
  <1>9. StillChecked'
    BY <1>1, <1>2, <1>6 DEF PresetInv, StillChecked, Enabled
  <1>10. RejectedUnless'
    <2> SUFFICES ASSUME NEW i \in Enabled', NEW j \in DOMAIN schedules', i < j,
                        Overlap(schedules'[i].window, schedules'[j].window)
                 PROVE  schedules'[i].switched \/ schedules'[j].seen < i
      BY DEF RejectedUnless
    <2> QED  BY <1>1, <1>2, <1>6 DEF PresetInv, RejectedUnless, Enabled
  <1> QED  BY <1>7, <1>8, <1>9, <1>10 DEF PresetInv

LEMMA DeleteScheduleInv ==
  ASSUME NEW k, PresetInv, DeleteSchedule(k)
  PROVE  PresetInv'
  <1>1. /\ UNCHANGED <<saved, given, create, tick>>
        /\ DOMAIN schedules' \subseteq DOMAIN schedules
        /\ \A i \in DOMAIN schedules' : schedules'[i] = schedules[i]
    BY DEF DeleteSchedule, Without
  <1>2. Enabled' \subseteq Enabled
    BY <1>1 DEF Enabled
  <1>3. PresetTypeOK' /\ IdsGrow' /\ StillNamed' /\ ScheduleNamed'
    BY <1>1 DEF PresetInv, PresetTypeOK, IdsGrow, StillNamed, ScheduleNamed
  <1>4. StillChecked' /\ RejectedUnless'
    BY <1>1, <1>2 DEF PresetInv, StillChecked, RejectedUnless, Enabled
  <1> QED  BY <1>3, <1>4 DEF PresetInv

LEMMA TickInv == PresetInv /\ (TickChooses \/ TickApplies) => PresetInv'
  <1> SUFFICES ASSUME PresetInv, TickChooses \/ TickApplies PROVE PresetInv'
    OBVIOUS
  <1>1. UNCHANGED <<saved, schedules, given, create>>
    BY DEF TickChooses, TickApplies
  <1>2. tick' \in 0 .. LastPreset
    <2>1. \A i \in Enabled : schedules[i].preset \in 1 .. LastPreset
      BY DEF PresetInv, PresetTypeOK, Enabled, ScheduleRow
    <2>2. CASE TickChooses
      BY <2>1, <2>2, PresetAssumption DEF TickChooses, First, Matching
    <2>3. CASE TickApplies
      BY <2>3, PresetAssumption DEF TickApplies, NoPreset
    <2> QED  BY <2>2, <2>3
  <1>3. PresetTypeOK'
    BY <1>1, <1>2 DEF PresetInv, PresetTypeOK
  <1> QED  BY <1>1, <1>3 DEF PresetInv, IdsGrow, StillChecked, RejectedUnless, StillNamed,
              ScheduleNamed, Enabled

LEMMA PresetNextInv == PresetInv /\ [PresetNext]_presetVars => PresetInv'
  <1> SUFFICES ASSUME PresetInv, [PresetNext]_presetVars PROVE PresetInv'
    OBVIOUS
  <1>1. CASE SavePreset
    BY <1>1, SavePresetInv
  <1>2. CASE TickChooses \/ TickApplies
    BY <1>2, TickInv
  <1>3. ASSUME NEW p \in 1 .. LastPreset, DeletePreset(p) PROVE PresetInv'
    BY <1>3, DeletePresetInv
  <1>4. ASSUME NEW c \in PresetCallers, CreateSchedule(c) \/ CheckWindows(c) \/ SaveSchedule(c)
        PROVE  PresetInv'
    BY <1>4, CreateScheduleInv, CheckWindowsInv, SaveScheduleInv
  <1>5. ASSUME NEW i \in 1 .. LastSchedule, DeleteSchedule(i) PROVE PresetInv'
    BY <1>5, DeleteScheduleInv
  <1>6. ASSUME NEW i \in 1 .. LastSchedule, NEW on \in BOOLEAN, ToggleSchedule(i, on)
        PROVE  PresetInv'
    BY <1>6, ToggleScheduleInv
  <1>7. CASE UNCHANGED presetVars
    BY <1>7 DEF presetVars, PresetInv, PresetTypeOK, IdsGrow, StillChecked, RejectedUnless,
       StillNamed, ScheduleNamed, Enabled
  <1> QED  BY <1>1, <1>2, <1>3, <1>4, <1>5, <1>6, <1>7 DEF PresetNext

THEOREM PresetInvariant == PresetSpec => []PresetInv
  BY PresetInitInv, PresetNextInv, PTL DEF PresetSpec

\* What _tick reads: two windows share a minute only where a PATCH or a second
\* request had its part in it, and every schedule has its preset, unless the
\* preset was deleted under the request.
THEOREM SchedulesAreSound == PresetSpec => []SchedulesSound
  <1>1. PresetInv => SchedulesSound
    <2> SUFFICES ASSUME PresetInv PROVE OverlapExplained
      BY DEF PresetInv, SchedulesSound
    <2> SUFFICES ASSUME NEW i \in Enabled, NEW j \in Enabled, i < j,
                        SharedMinute(schedules[i].window, schedules[j].window)
                 PROVE  schedules[i].switched \/ schedules[j].seen < i
      BY DEF OverlapExplained
    <2>1. i \in DOMAIN schedules /\ j \in DOMAIN schedules
      BY DEF Enabled
    <2>2. schedules[i].window \in Windows /\ schedules[j].window \in Windows
      BY <2>1, WindowsAssumption DEF PresetInv, PresetTypeOK, ScheduleRow
    <2>3. Overlap(schedules[i].window, schedules[j].window)
      <3> DEFINE v == schedules[i].window
                 w == schedules[j].window
      <3>1. v \in Windows /\ w \in Windows /\ SharedMinute(v, w)
        BY <2>2
      <3> HIDE DEF v, w
      <3>2. Overlap(v, w)
        BY <3>1, OverlapIsSharedMinute
      <3> QED  BY <3>2 DEF v, w
    <2> QED  BY <2>1, <2>3 DEF PresetInv, RejectedUnless
  <1> QED  BY <1>1, PresetInvariant, PTL

-----------------------------------------------------------------------------
(***************************************************************************)
(* The registry of the status broadcasts: for any number of connections    *)
(* and tasks.                                                              *)
(***************************************************************************)
\* a connection has the message of a task when the task has passed it: before,
\* and when it came later than the task, it has nothing of it
Passed(s, t) == s \in casting[t].audience /\ s \notin casting[t].todo

Walks == [state : {"new", "sending", "done"}, todo : SUBSET Sockets,
          dead : SUBSET Sockets, audience : SUBSET Sockets]

\* What BroadcastsReach needs to be inductive: where every task stands.
RegistryInv ==
  /\ registry \subseteq Sockets
  /\ socket \in [Sockets -> {"new", "up", "down"}]
  /\ casting \in [CastTasks -> Walks]
  /\ received \in [Sockets -> [CastTasks -> Nat]]
  /\ \A s \in Sockets : socket[s] = "up" => s \in registry
  /\ \A s \in registry : socket[s] # "new"
  /\ \A t \in CastTasks :
       /\ casting[t].todo \subseteq casting[t].audience
       /\ casting[t].state = "new" => casting[t].audience = {}
       /\ casting[t].state = "done" => casting[t].todo = {}
       /\ \A s \in casting[t].dead : socket[s] = "down"
       /\ \A s \in casting[t].audience : socket[s] # "new"
  /\ \A s \in Sockets, t \in CastTasks :
       /\ ~Passed(s, t) => received[s][t] = 0
       /\ Passed(s, t) => received[s][t] <= 1
       /\ Passed(s, t) /\ socket[s] = "up" => received[s][t] = 1

-----------------------------------------------------------------------------
LEMMA RegistryInitial == RegistryInit => RegistryInv
  BY DEF RegistryInit, RegistryInv, Uncast, Passed, Walks

LEMMA ConnectsKeeps ==
  ASSUME RegistryInv, NEW s \in Sockets, Connects(s)
  PROVE  RegistryInv'
  BY DEF RegistryInv, Connects, Passed, Walks

LEMMA BreaksKeeps ==
  ASSUME RegistryInv, NEW s \in Sockets, Breaks(s)
  PROVE  RegistryInv'
  BY DEF RegistryInv, Breaks, Passed, Walks

LEMMA HandlerEndsKeeps ==
  ASSUME RegistryInv, NEW s \in Sockets, HandlerEnds(s)
  PROVE  RegistryInv'
  BY DEF RegistryInv, HandlerEnds, Passed, Walks

LEMMA BroadcastBeginsKeeps ==
  ASSUME RegistryInv, NEW t \in CastTasks, BroadcastBegins(t)
  PROVE  RegistryInv'
  BY DEF RegistryInv, BroadcastBegins, Passed, Walks

\* what the conjuncts about one task and about a socket and a task say
TaskSound(t) ==
  /\ casting[t].todo \subseteq casting[t].audience
  /\ casting[t].state = "new" => casting[t].audience = {}
  /\ casting[t].state = "done" => casting[t].todo = {}
  /\ \A s \in casting[t].dead : socket[s] = "down"
  /\ \A s \in casting[t].audience : socket[s] # "new"

CountSound(s, t) ==
  /\ ~Passed(s, t) => received[s][t] = 0
  /\ Passed(s, t) => received[s][t] <= 1
  /\ Passed(s, t) /\ socket[s] = "up" => received[s][t] = 1

LEMMA SendsKeeps ==
  ASSUME RegistryInv, NEW t \in CastTasks, NEW s \in Sockets, Sends(t, s)
  PROVE  RegistryInv'
  <1> DEFINE now == casting'[t]
  <1>1. casting \in [CastTasks -> Walks] /\ received \in [Sockets -> [CastTasks -> Nat]]
    BY DEF RegistryInv
  <1>2. /\ UNCHANGED <<registry, socket>>
        /\ casting[t].state = "sending" /\ s \in casting[t].todo
    BY DEF Sends
  <1>3. /\ casting' \in [CastTasks -> Walks]
        /\ now.state = "sending" /\ now.todo = casting[t].todo \ {s}
        /\ now.audience = casting[t].audience
        /\ now.dead = IF socket[s] = "up" THEN casting[t].dead ELSE casting[t].dead \cup {s}
        /\ \A u \in CastTasks \ {t} : casting'[u] = casting[u]
    <2>1. CASE socket[s] = "up"
      <3>1. casting' = [casting EXCEPT ![t] = [casting[t] EXCEPT !.todo = casting[t].todo \ {s}]]
        BY <2>1 DEF Sends
      <3> QED  BY <1>1, <1>2, <2>1, <3>1 DEF Walks
    <2>2. CASE socket[s] # "up"
      <3>1. casting' = [casting EXCEPT ![t] = Unsent(t, s)]
        BY <2>2 DEF Sends
      <3> QED  BY <1>1, <1>2, <2>2, <3>1 DEF Unsent, Walks
    <2> QED  BY <2>1, <2>2
  <1>4. /\ received' \in [Sockets -> [CastTasks -> Nat]]
        /\ received'[s][t] = IF socket[s] = "up" THEN received[s][t] + 1 ELSE received[s][t]
        /\ \A r \in Sockets, u \in CastTasks :
             r # s \/ u # t => received'[r][u] = received[r][u]
    <2>1. CASE socket[s] = "up"
      <3>1. received' = [received EXCEPT ![s] = [received[s] EXCEPT ![t] = received[s][t] + 1]]
        BY <2>1 DEF Sends
      <3>2. received[s] \in [CastTasks -> Nat] /\ received[s][t] + 1 \in Nat
        BY <1>1
      <3> QED  BY <1>1, <2>1, <3>1, <3>2
    <2>2. CASE socket[s] # "up"
      BY <1>1, <2>2 DEF Sends
    <2> QED  BY <2>1, <2>2
  <1>5. socket[s] = "up" \/ socket[s] = "down"
    BY <1>2 DEF RegistryInv
  <1>6. ~Passed(s, t) /\ received[s][t] = 0 /\ s \in casting[t].audience
    BY <1>2 DEF RegistryInv, Passed
  <1>7. \A u \in CastTasks : TaskSound(u)'
    BY <1>2, <1>3, <1>5 DEF RegistryInv, TaskSound
  <1>8. ASSUME NEW r \in Sockets, NEW u \in CastTasks PROVE CountSound(r, u)'
    <2>1. CASE r = s /\ u = t
      BY <2>1, <1>2, <1>3, <1>4, <1>6 DEF CountSound, Passed
    <2>2. CASE u = t /\ r # s
      <3>1. Passed(r, u)' <=> Passed(r, u)
        BY <2>2, <1>3 DEF Passed
      <3>2. received'[r][u] = received[r][u]
        BY <2>2, <1>4
      <3> QED  BY <3>1, <3>2, <1>2 DEF CountSound, RegistryInv
    <2>3. CASE u # t
      <3>1. Passed(r, u)' <=> Passed(r, u)
        BY <2>3, <1>3 DEF Passed
      <3>2. received'[r][u] = received[r][u]
        BY <2>3, <1>4
      <3> QED  BY <3>1, <3>2, <1>2 DEF CountSound, RegistryInv
    <2> QED  BY <2>1, <2>2, <2>3
  <1> QED
    BY <1>2, <1>3, <1>4, <1>7, <1>8 DEF RegistryInv, TaskSound, CountSound, Walks

LEMMA BroadcastEndsKeeps ==
  ASSUME RegistryInv, NEW t \in CastTasks, BroadcastEnds(t)
  PROVE  RegistryInv'
  <1>1. casting \in [CastTasks -> Walks]
    BY DEF RegistryInv
  <1>2. /\ casting[t].state = "sending" /\ casting[t].todo = {}
        /\ registry' = registry \ casting[t].dead /\ UNCHANGED <<socket, received>>
    BY DEF BroadcastEnds
  <1>3. /\ casting' \in [CastTasks -> Walks]
        /\ casting'[t].state = "done" /\ casting'[t].todo = casting[t].todo
        /\ casting'[t].dead = casting[t].dead /\ casting'[t].audience = casting[t].audience
        /\ \A u \in CastTasks \ {t} : casting'[u] = casting[u]
    BY <1>1 DEF BroadcastEnds, Walks
  <1>4. \A s \in Sockets, u \in CastTasks : Passed(s, u)' <=> Passed(s, u)
    BY <1>3 DEF Passed
  <1>5. \A u \in CastTasks : TaskSound(u)'
    BY <1>2, <1>3 DEF RegistryInv, TaskSound
  <1>6. \A s \in Sockets : socket'[s] = "up" => s \in registry'
    BY <1>2 DEF RegistryInv
  <1> QED
    BY <1>2, <1>3, <1>4, <1>5, <1>6 DEF RegistryInv, TaskSound, Walks

LEMMA RegistryStep ==
  ASSUME RegistryInv, [RegistryNext]_registryVars
  PROVE  RegistryInv'
  <1>1. CASE \E s \in Sockets : Connects(s) \/ Breaks(s) \/ HandlerEnds(s)
    BY <1>1, ConnectsKeeps, BreaksKeeps, HandlerEndsKeeps
  <1>2. CASE \E t \in CastTasks : BroadcastBegins(t) \/ BroadcastEnds(t)
    BY <1>2, BroadcastBeginsKeeps, BroadcastEndsKeeps
  <1>3. CASE \E t \in CastTasks, s \in Sockets : Sends(t, s)
    BY <1>3, SendsKeeps
  <1>4. CASE UNCHANGED registryVars
    BY <1>4 DEF RegistryInv, Passed, Walks, registryVars
  <1> QED  BY <1>1, <1>2, <1>3, <1>4 DEF RegistryNext

LEMMA RegistryInvariant == RegistrySpec => []RegistryInv
  BY RegistryInitial, RegistryStep, PTL DEF RegistrySpec

-----------------------------------------------------------------------------
\* However many connections come, break and are dropped while any number of
\* tasks broadcast: each that stays has every message once, none has one twice,
\* and none that is up leaves the registry.
THEOREM EveryBroadcastReaches == RegistrySpec => []BroadcastsReach
  <1>1. RegistryInv => BroadcastsReach
    <2> SUFFICES ASSUME RegistryInv PROVE BroadcastsReach
      OBVIOUS
    <2>1. ASSUME NEW t \in CastTasks, casting[t].state = "done",
                 NEW s \in casting[t].audience, socket[s] = "up"
          PROVE  received[s][t] = 1
      <3>1. casting[t] \in Walks /\ casting[t].todo = {}
        BY <2>1 DEF RegistryInv
      <3>2. s \in Sockets /\ Passed(s, t)
        BY <2>1, <3>1 DEF Passed, Walks
      <3> QED  BY <2>1, <3>2 DEF RegistryInv
    <2>2. ASSUME NEW s \in Sockets, NEW t \in CastTasks
          PROVE  received[s][t] <= 1
      BY <2>2 DEF RegistryInv
    <2>3. \A s \in Sockets : socket[s] = "up" => s \in registry
      BY DEF RegistryInv
    <2> QED  BY <2>1, <2>2, <2>3 DEF BroadcastsReach
  <1> QED  BY <1>1, RegistryInvariant, PTL

-----------------------------------------------------------------------------
(***************************************************************************)
(* The bus of the events: for any number of connections, messages and      *)
(* departures, whatever the bound of the queues.                           *)
(***************************************************************************)
\* What a connection was given of the bus: sent by its handler, or in its queue.
Has(c) == delivered[c] \cup Range(inbox[c])

CastSets == [stayed : SUBSET FeedClients, full : SUBSET FeedClients, left : 0 .. MostLeft]

FeedTyped ==
    /\ subscribers \in Seq(FeedClients)
    /\ inbox \in [FeedClients -> Seq(Events)]
    /\ delivered \in [FeedClients -> SUBSET Events]
    /\ walk \in [event : 0 .. LastEvent, at : Nat \ {0}]
    /\ published \in 0 .. LastEvent
    /\ casts \in [Events -> CastSets]

\* Who is not on the list has nothing, and has not stayed.
Listed ==
    /\ IsInjective(subscribers)
    /\ \A c \in FeedClients : c \notin Range(subscribers) => inbox[c] = <<>> /\ delivered[c] = {}
    /\ \A m \in Events : casts[m].stayed \subseteq Range(subscribers)

\* Nothing comes twice: those the thread has still to visit have not its message.
OnceEach ==
    /\ walk.event <= published
    /\ \A c \in FeedClients :
         /\ IsInjective(inbox[c]) /\ delivered[c] \cap Range(inbox[c]) = {}
         /\ \A m \in Has(c) : m <= published
    /\ walk.event # 0 =>
         \A i \in 1 .. Len(subscribers) : i >= walk.at => walk.event \notin Has(subscribers[i])

\* Those the thread has passed by.
Behind ==
    {c \in Missed(walk.event) : \E i \in 1 .. Len(subscribers) : i < walk.at /\ subscribers[i] = c}

Accounted ==
    /\ \A m \in Events :
         m <= published /\ m # walk.event => Cardinality(Missed(m)) <= casts[m].left
    /\ walk.event # 0 => Cardinality(Behind) <= casts[walk.event].left

FeedInv == FeedTyped /\ Listed /\ OnceEach /\ Accounted

-----------------------------------------------------------------------------
\* Sequences and what is in them.
LEMMA RangeOf ==
    ASSUME NEW S, NEW q \in Seq(S)
    PROVE  /\ DOMAIN q = 1 .. Len(q) /\ Len(q) \in Nat /\ Range(q) \subseteq S
           /\ \A i \in 1 .. Len(q) : q[i] \in S /\ q[i] \in Range(q)
           /\ \A c \in Range(q) : \E i \in 1 .. Len(q) : q[i] = c
  <1>1. DOMAIN q = 1 .. Len(q) /\ Len(q) \in Nat /\ \A i \in 1 .. Len(q) : q[i] \in S
    OBVIOUS
  <1> QED BY <1>1 DEF Range

LEMMA InjectiveMeans ==
    ASSUME NEW S, NEW q \in Seq(S)
    PROVE  IsInjective(q) <=> \A i, j \in 1 .. Len(q) : q[i] = q[j] => i = j
  BY RangeOf DEF IsInjective

LEMMA AppendIs ==
    ASSUME NEW S, NEW q \in Seq(S), NEW e \in S
    PROVE  /\ Range(Append(q, e)) = Range(q) \cup {e}
           /\ IsInjective(q) /\ e \notin Range(q) => IsInjective(Append(q, e))
  <1> DEFINE r == Append(q, e)
  <1>1. /\ r \in Seq(S) /\ Len(r) = Len(q) + 1 /\ Len(q) \in Nat
        /\ \A i \in 1 .. Len(q) : r[i] = q[i]
        /\ r[Len(q) + 1] = e
    BY AppendTo
  <1> HIDE DEF r
  <1>2. \A i \in 1 .. Len(r) : (i \in 1 .. Len(q) /\ r[i] = q[i]) \/ (i = Len(q) + 1 /\ r[i] = e)
    BY <1>1
  <1>3. Range(r) = Range(q) \cup {e}
    <2>1. Range(r) \subseteq Range(q) \cup {e}
      BY <1>1, <1>2, RangeOf
    <2>2. Range(q) \subseteq Range(r)
      <3>1. \A i \in 1 .. Len(q) : i \in 1 .. Len(r)
        BY <1>1
      <3> QED BY <1>1, <3>1, RangeOf
    <2>3. e \in Range(r)
      <3>1. Len(q) + 1 \in 1 .. Len(r)
        BY <1>1
      <3> QED BY <1>1, <3>1, RangeOf
    <2> QED BY <2>1, <2>2, <2>3
  <1>4. ASSUME IsInjective(q), e \notin Range(q) PROVE IsInjective(r)
    <2>1. \A i, j \in 1 .. Len(q) : q[i] = q[j] => i = j
      BY <1>4, InjectiveMeans
    <2>2. \A i \in 1 .. Len(q) : q[i] # e
      BY <1>4, RangeOf
    <2>3. ASSUME NEW i \in 1 .. Len(r), NEW j \in 1 .. Len(r), r[i] = r[j] PROVE i = j
      BY <1>2, <2>1, <2>2, <2>3
    <2> QED BY <1>1, <2>3, InjectiveMeans
  <1> QED BY <1>3, <1>4 DEF r

LEMMA TailIs ==
    ASSUME NEW S, NEW q \in Seq(S), q # <<>>, IsInjective(q)
    PROVE  /\ Range(Tail(q)) = Range(q) \ {Head(q)} /\ Head(q) \in Range(q)
           /\ IsInjective(Tail(q))
  <1> DEFINE r == Tail(q)
  <1>1. /\ Head(q) = q[1] /\ Len(q) \in Nat \ {0} /\ r \in Seq(S) /\ Len(r) = Len(q) - 1
        /\ \A i \in 1 .. Len(r) : r[i] = q[i + 1]
    BY TailOf
  <1> HIDE DEF r
  <1>2. \A i, j \in 1 .. Len(q) : q[i] = q[j] => i = j
    BY InjectiveMeans
  <1>3. /\ 1 \in 1 .. Len(q)
        /\ \A i \in 1 .. Len(r) : i \in Nat /\ i + 1 \in 1 .. Len(q) /\ i + 1 # 1
        /\ \A i \in 1 .. Len(q) : i # 1 => i - 1 \in 1 .. Len(r) /\ (i - 1) + 1 = i
    BY <1>1
  <1>4. Range(r) \subseteq Range(q) \ {Head(q)}
    <2>1. ASSUME NEW i \in 1 .. Len(r) PROVE r[i] \in Range(q) /\ r[i] # Head(q)
      <3>1. r[i] = q[i + 1] /\ i + 1 \in 1 .. Len(q) /\ i + 1 # 1
        BY <1>1, <1>3
      <3>2. q[i + 1] # q[1]
        BY <1>2, <1>3, <3>1
      <3> QED BY <1>1, <3>1, <3>2, RangeOf
    <2> QED BY <1>1, <2>1, RangeOf
  <1>5. Range(q) \ {Head(q)} \subseteq Range(r)
    <2> SUFFICES ASSUME NEW c \in Range(q), c # Head(q) PROVE c \in Range(r)
      OBVIOUS
    <2>1. PICK i \in 1 .. Len(q) : q[i] = c
      BY RangeOf
    <2>2. i # 1
      BY <1>1, <2>1
    <2>3. r[i - 1] = c /\ i - 1 \in 1 .. Len(r)
      BY <1>1, <1>3, <2>1, <2>2
    <2> QED BY <1>1, <2>3, RangeOf
  <1>6. Head(q) \in Range(q)
    BY <1>1, <1>3, RangeOf
  <1>7. IsInjective(r)
    <2>1. ASSUME NEW i \in 1 .. Len(r), NEW j \in 1 .. Len(r), r[i] = r[j] PROVE i = j
      <3>1. q[i + 1] = q[j + 1] /\ i + 1 \in 1 .. Len(q) /\ j + 1 \in 1 .. Len(q)
        BY <1>1, <1>3, <2>1
      <3>2. i + 1 = j + 1
        BY <1>2, <3>1
      <3> QED BY <3>2
    <2> QED BY <1>1, <2>1, InjectiveMeans
  <1> QED BY <1>4, <1>5, <1>6, <1>7 DEF r

LEMMA ListWithoutIs ==
    ASSUME NEW S, NEW q \in Seq(S), NEW k \in 1 .. Len(q), IsInjective(q)
    PROVE  /\ ListWithout(q, k) \in Seq(S) /\ Len(ListWithout(q, k)) = Len(q) - 1
           /\ Range(ListWithout(q, k)) = Range(q) \ {q[k]}
           /\ IsInjective(ListWithout(q, k))
           /\ \A i \in 1 .. Len(q) - 1 :
                ListWithout(q, k)[i] = IF i < k THEN q[i] ELSE q[i + 1]
  <1> DEFINE r == ListWithout(q, k)
  <1>1. Len(q) \in Nat \ {0} /\ Len(q) - 1 \in Nat /\ \A i \in 1 .. Len(q) : q[i] \in S
    OBVIOUS
  <1>2. \A i \in 1 .. Len(q) - 1 : /\ i \in Nat \ {0} /\ i \in 1 .. Len(q)
                                  /\ i + 1 \in 1 .. Len(q) /\ (i < k => i # k)
                                  /\ (~(i < k) => i + 1 # k)
    BY <1>1
  <1>3. r = [i \in 1 .. Len(q) - 1 |-> q[IF i < k THEN i ELSE i + 1]]
    BY DEF ListWithout
  <1>4. \A i \in 1 .. Len(q) - 1 : r[i] = IF i < k THEN q[i] ELSE q[i + 1]
    BY <1>3
  <1>5. r \in Seq(S) /\ Len(r) = Len(q) - 1
    <2>1. r \in [1 .. Len(q) - 1 -> S]
      BY <1>1, <1>2, <1>3
    <2>2. \A n \in Nat : \A s \in [1 .. n -> S] : s \in Seq(S) /\ Len(s) = n
      OBVIOUS
    <2> QED BY <1>1, <2>1, <2>2
  <1> HIDE DEF r
  <1>6. \A i, j \in 1 .. Len(q) : q[i] = q[j] => i = j
    BY InjectiveMeans
  <1>7. \A i \in 1 .. Len(r) : \E j \in 1 .. Len(q) : j # k /\ r[i] = q[j]
    <2> SUFFICES ASSUME NEW i \in 1 .. Len(q) - 1 PROVE \E j \in 1 .. Len(q) : j # k /\ r[i] = q[j]
      BY <1>5
    <2>1. CASE i < k
      BY <1>2, <1>4, <2>1
    <2>2. CASE ~(i < k)
      BY <1>2, <1>4, <2>2
    <2> QED BY <2>1, <2>2
  <1>8. Range(r) \subseteq Range(q) \ {q[k]}
    <2>1. ASSUME NEW i \in 1 .. Len(r) PROVE r[i] \in Range(q) /\ r[i] # q[k]
      <3>1. PICK j \in 1 .. Len(q) : j # k /\ r[i] = q[j]
        BY <1>7
      <3> QED BY <1>6, <3>1, RangeOf
    <2> QED BY <1>5, <2>1, RangeOf
  <1>9. ASSUME NEW c \in Range(q), c # q[k] PROVE c \in Range(r)
    <2>1. PICK j \in 1 .. Len(q) : q[j] = c
      BY RangeOf
    <2>2. CASE j < k
      <3>1. j \in 1 .. Len(q) - 1
        BY <1>1, <2>2
      <3>2. r[j] = c
        BY <1>4, <2>1, <2>2, <3>1
      <3> QED BY <1>5, <3>1, <3>2, RangeOf
    <2>3. CASE j > k
      <3>1. j - 1 \in 1 .. Len(q) - 1 /\ ~(j - 1 < k) /\ (j - 1) + 1 = j
        BY <1>1, <2>3
      <3>2. r[j - 1] = c
        BY <1>4, <2>1, <3>1
      <3> QED BY <1>5, <3>1, <3>2, RangeOf
    <2> QED BY <1>9, <2>1, <2>2, <2>3
  <1>10. IsInjective(r)
    <2>1. ASSUME NEW i \in 1 .. Len(q) - 1, NEW j \in 1 .. Len(q) - 1, r[i] = r[j], i < j
          PROVE  FALSE
      <3>1. CASE j < k
        <4>1. i < k
          BY <1>2, <2>1, <3>1
        <4> QED BY <1>2, <1>4, <1>6, <2>1, <3>1, <4>1
      <3>2. CASE ~(j < k) /\ i < k
        <4>1. i # j + 1
          BY <1>2, <2>1
        <4> QED BY <1>2, <1>4, <1>6, <2>1, <3>2, <4>1
      <3>3. CASE ~(j < k) /\ ~(i < k)
        <4>1. i + 1 # j + 1
          BY <1>2, <2>1
        <4> QED BY <1>2, <1>4, <1>6, <2>1, <3>3, <4>1
      <3> QED BY <3>1, <3>2, <3>3
    <2>2. ASSUME NEW i \in 1 .. Len(r), NEW j \in 1 .. Len(r), r[i] = r[j] PROVE i = j
      <3>1. i \in 1 .. Len(q) - 1 /\ j \in 1 .. Len(q) - 1 /\ i \in Nat /\ j \in Nat
        BY <1>2, <1>5
      <3>2. ~(i < j) /\ ~(j < i)
        BY <2>1, <2>2, <3>1
      <3> QED BY <3>1, <3>2
    <2> QED BY <1>5, <2>2, InjectiveMeans
  <1> QED BY <1>4, <1>5, <1>8, <1>9, <1>10 DEF r

-----------------------------------------------------------------------------
\* The clients are finitely many, and so are those of them that miss something.
LEMMA ClientsCounted ==
    ASSUME NEW A \in SUBSET FeedClients
    PROVE  IsFiniteSet(A) /\ Cardinality(A) \in Nat /\ Cardinality(A) <= MostLeft /\ MostLeft \in Nat
  <1>1. IsFiniteSet(FeedClients)
    BY FeedAssumption
  <1>2. IsFiniteSet(A) /\ Cardinality(A) <= Cardinality(FeedClients)
    BY <1>1, FS_Subset
  <1>3. Cardinality(A) \in Nat /\ Cardinality(FeedClients) \in Nat
    BY <1>1, <1>2, FS_CardinalityType
  <1> QED BY <1>2, <1>3 DEF MostLeft

LEMMA FewerMiss ==
    ASSUME NEW A, NEW B \in SUBSET FeedClients, A \subseteq B
    PROVE  Cardinality(A) <= Cardinality(B) /\ Cardinality(A) \in Nat /\ Cardinality(B) \in Nat
  <1>1. IsFiniteSet(B) /\ A \in SUBSET FeedClients
    BY ClientsCounted
  <1>2. Cardinality(A) <= Cardinality(B)
    BY <1>1, FS_Subset
  <1> QED BY <1>1, <1>2, ClientsCounted

LEMMA OneMoreMisses ==
    ASSUME NEW A \in SUBSET FeedClients, NEW B \in SUBSET FeedClients, NEW x, A \subseteq B \cup {x}
    PROVE  Cardinality(A) <= Cardinality(B) + 1
  <1>1. IsFiniteSet(B)
    BY ClientsCounted
  <1>2. /\ IsFiniteSet(B \cup {x})
        /\ Cardinality(B \cup {x}) = IF x \in B THEN Cardinality(B) ELSE Cardinality(B) + 1
    BY <1>1, FS_AddElement
  <1>3. Cardinality(A) <= Cardinality(B \cup {x})
    BY <1>2, FS_Subset
  <1>4. Cardinality(A) \in Nat /\ Cardinality(B) \in Nat
    BY ClientsCounted
  <1> QED BY <1>2, <1>3, <1>4

LEMMA MissedAre ==
    ASSUME FeedTyped, NEW m \in Events
    PROVE  /\ Missed(m) \in SUBSET FeedClients
           /\ \A c : c \in Missed(m) <=>
                /\ c \in casts[m].stayed /\ c \notin casts[m].full /\ m \notin Has(c)
           /\ casts[m].left \in 0 .. MostLeft
  <1>1. casts[m].stayed \in SUBSET FeedClients /\ casts[m].left \in 0 .. MostLeft
    BY DEF FeedTyped, CastSets
  <1> QED BY <1>1 DEF Missed, Has

LEMMA FeedInvInit == FeedInit => FeedInv
  <1> SUFFICES ASSUME FeedInit PROVE FeedInv
    OBVIOUS
  <1>1. /\ subscribers = <<>> /\ walk = Resting /\ published = 0
        /\ inbox = [c \in FeedClients |-> <<>>] /\ delivered = [c \in FeedClients |-> {}]
        /\ casts = [m \in Events |-> NoCast]
    BY DEF FeedInit
  <1>2. NoCast \in CastSets
    <2>1. MostLeft \in Nat
      BY ClientsCounted
    <2> QED BY <2>1 DEF NoCast, CastSets
  <1>3. /\ <<>> \in Seq(FeedClients) /\ <<>> \in Seq(Events) /\ Len(<<>>) = 0
        /\ Range(<<>>) = {} /\ IsInjective(<<>>)
    BY DEF Range, IsInjective
  <1>4. Resting \in [event : 0 .. LastEvent, at : Nat \ {0}] /\ Resting.event = 0
    BY FeedAssumption DEF Resting
  <1>5. 0 \in 0 .. LastEvent
    BY FeedAssumption
  <1>6. FeedTyped
    BY <1>1, <1>2, <1>3, <1>4, <1>5 DEF FeedTyped
  <1>7. Listed
    BY <1>1, <1>3 DEF Listed, NoCast
  <1>8. OnceEach
    BY <1>1, <1>3, <1>4 DEF OnceEach, Has
  <1>9. Accounted
    <2>1. \A m \in Events : ~(m <= published)
      BY <1>1, FeedAssumption DEF Events
    <2> QED BY <1>1, <1>4, <2>1 DEF Accounted
  <1> QED BY <1>6, <1>7, <1>8, <1>9 DEF FeedInv

-----------------------------------------------------------------------------
\* What all the steps read of the invariant.
LEMMA FeedFacts ==
    ASSUME FeedInv
    PROVE  /\ FeedTyped /\ Listed /\ OnceEach /\ Accounted
           /\ subscribers \in Seq(FeedClients) /\ Len(subscribers) \in Nat
           /\ inbox \in [FeedClients -> Seq(Events)]
           /\ delivered \in [FeedClients -> SUBSET Events]
           /\ walk \in [event : 0 .. LastEvent, at : Nat \ {0}]
           /\ walk.event \in 0 .. LastEvent /\ walk.at \in Nat \ {0}
           /\ published \in 0 .. LastEvent /\ published \in Nat /\ casts \in [Events -> CastSets]
           /\ LastEvent \in Nat /\ (walk.event # 0 => walk.event \in Events)
           /\ Range(subscribers) \subseteq FeedClients
           /\ \A i \in 1 .. Len(subscribers) : subscribers[i] \in Range(subscribers)
  <1>1. FeedTyped
    BY DEF FeedInv
  <1>2. subscribers \in Seq(FeedClients) /\ walk \in [event : 0 .. LastEvent, at : Nat \ {0}]
    BY <1>1 DEF FeedTyped
  <1>3. LastEvent \in Nat
    BY FeedAssumption
  <1>4. walk.event \in 0 .. LastEvent /\ walk.at \in Nat \ {0}
    BY <1>2
  <1>5. (walk.event # 0 => walk.event \in Events) /\ (published \in 0 .. LastEvent => published \in Nat)
    BY <1>3, <1>4 DEF Events
  <1>6. /\ Range(subscribers) \subseteq FeedClients /\ Len(subscribers) \in Nat
        /\ \A i \in 1 .. Len(subscribers) : subscribers[i] \in Range(subscribers)
    BY <1>2, RangeOf
  <1> QED BY <1>1, <1>2, <1>3, <1>4, <1>5, <1>6 DEF FeedInv, FeedTyped

\* Where no count grows and nobody more misses anything, the accounts still hold.
LEMMA NoneMoreMisses ==
    ASSUME FeedInv, FeedTyped', published' = published, walk'.event = walk.event,
           \A m \in Events : casts'[m].left = casts[m].left,
           \A m \in Events : m # walk.event => Missed(m)' \subseteq Missed(m),
           walk.event # 0 => Behind' \subseteq Behind
    PROVE  Accounted'
  <1>1. ASSUME NEW m \in Events, m <= published, m # walk.event
        PROVE  Cardinality(Missed(m)') <= casts'[m].left
    <2>1. /\ Cardinality(Missed(m)') <= Cardinality(Missed(m))
          /\ Cardinality(Missed(m)') \in Nat /\ Cardinality(Missed(m)) \in Nat
      BY <1>1, FeedFacts, MissedAre, FewerMiss
    <2>2. Cardinality(Missed(m)) <= casts[m].left /\ casts[m].left \in 0 .. MostLeft
      BY <1>1, FeedFacts, MissedAre DEF Accounted
    <2>3. MostLeft \in Nat
      BY ClientsCounted
    <2> QED BY <2>1, <2>2, <2>3
  <1>2. ASSUME walk.event # 0 PROVE Cardinality(Behind') <= casts'[walk.event].left
    <2>1. walk.event \in Events
      BY <1>2, FeedFacts
    <2>2. Behind \in SUBSET FeedClients
      BY <2>1, FeedFacts, MissedAre DEF Behind
    <2>3. /\ Cardinality(Behind') <= Cardinality(Behind)
          /\ Cardinality(Behind') \in Nat /\ Cardinality(Behind) \in Nat
      BY <1>2, <2>2, FewerMiss
    <2>4. Cardinality(Behind) <= casts[walk.event].left /\ casts[walk.event].left \in 0 .. MostLeft
      BY <1>2, <2>1, FeedFacts, MissedAre DEF Accounted
    <2>5. MostLeft \in Nat
      BY ClientsCounted
    <2> QED BY <2>1, <2>3, <2>4, <2>5
  <1> QED BY <1>1, <1>2 DEF Accounted

LEMMA SubscribeKeeps ==
    ASSUME FeedInv, NEW c \in FeedClients, Subscribe(c) PROVE FeedInv'
  <1>1. /\ c \notin Range(subscribers) /\ subscribers' = Append(subscribers, c)
        /\ inbox' = inbox /\ walk' = walk /\ published' = published
        /\ delivered' = delivered /\ casts' = casts
    BY DEF Subscribe
  <1>2. /\ subscribers' \in Seq(FeedClients) /\ Len(subscribers') = Len(subscribers) + 1
        /\ \A i \in 1 .. Len(subscribers) : subscribers'[i] = subscribers[i]
        /\ subscribers'[Len(subscribers) + 1] = c
        /\ Range(subscribers') = Range(subscribers) \cup {c} /\ IsInjective(subscribers')
    BY <1>1, FeedFacts, AppendTo, AppendIs DEF Listed
  <1>3. \A i \in 1 .. Len(subscribers') :
          \/ i \in 1 .. Len(subscribers) /\ subscribers'[i] = subscribers[i]
          \/ subscribers'[i] = c
    BY <1>2, FeedFacts
  <1>4. FeedTyped'
    BY <1>1, <1>2, FeedFacts DEF FeedTyped
  <1>5. Listed'
    BY <1>1, <1>2, FeedFacts DEF Listed
  <1>6. \A d : Has(d)' = Has(d)
    BY <1>1 DEF Has
  <1>7. Has(c) = {}
    BY <1>1, FeedFacts DEF Listed, Has, Range
  <1>8. OnceEach'
    <2>1. ASSUME walk'.event # 0, NEW i \in 1 .. Len(subscribers'), i >= walk'.at
          PROVE  walk'.event \notin Has(subscribers'[i])
      BY <1>1, <1>3, <1>7, <2>1, FeedFacts DEF OnceEach
    <2>2. /\ walk'.event <= published'
          /\ \A d \in FeedClients :
               /\ IsInjective(inbox'[d]) /\ delivered'[d] \cap Range(inbox'[d]) = {}
               /\ \A m \in Has(d)' : m <= published'
      BY <1>1, <1>6, FeedFacts DEF OnceEach
    <2>3. ASSUME walk'.event # 0, NEW i \in 1 .. Len(subscribers'), i >= walk'.at
          PROVE  walk'.event \notin delivered'[subscribers'[i]] \cup Range(inbox'[subscribers'[i]])
      BY <1>1, <2>1, <2>3 DEF Has
    <2> QED BY <2>2, <2>3 DEF OnceEach, Has
  <1>9. \A m \in Events : Missed(m)' = Missed(m)
    BY <1>1 DEF Missed
  <1>10. walk.event # 0 => Behind' \subseteq Behind
    <2> SUFFICES ASSUME walk.event # 0, NEW d \in Behind' PROVE d \in Behind
      OBVIOUS
    <2>1. Missed(walk.event)' = Missed(walk.event)
      BY <1>1 DEF Missed
    <2>2. PICK i \in 1 .. Len(subscribers') : i < walk.at /\ subscribers'[i] = d
      BY <1>1 DEF Behind
    <2>3. d \in Missed(walk.event)
      BY <1>1, <2>1 DEF Behind
    <2>4. d # c
      <3>1. d \in casts[walk.event].stayed
        BY <2>3 DEF Missed
      <3>2. walk.event \in Events
        BY FeedFacts
      <3> QED BY <1>1, <3>1, <3>2, FeedFacts DEF Listed
    <2> QED BY <1>3, <2>2, <2>3, <2>4 DEF Behind
  <1>11. Accounted'
    BY <1>1, <1>4, <1>9, <1>10, NoneMoreMisses
  <1> QED BY <1>4, <1>5, <1>8, <1>11 DEF FeedInv

\* A broadcast is new to everybody, and changes no other's account.
LEMMA CastBegunIs ==
    ASSUME FeedInv, NEW full \in SUBSET FeedClients, CastBegun(full)
    PROVE  /\ published' = published + 1 /\ published + 1 \in Events /\ published' \in 0 .. LastEvent
           /\ casts' \in [Events -> CastSets]
           /\ casts'[published + 1].stayed = Range(subscribers)
           /\ casts'[published + 1].full = full /\ casts'[published + 1].left = 0
           /\ \A m \in Events : m # published + 1 => casts'[m] = casts[m]
           /\ \A c \in FeedClients : published + 1 \notin Has(c)
           /\ \A m \in Events : m <= published' <=> m <= published \/ m = published + 1
  <1> DEFINE cast == [stayed |-> Range(subscribers), full |-> full, left |-> 0]
  <1>1. published < LastEvent /\ published' = published + 1
        /\ casts' = [casts EXCEPT ![published + 1] = cast]
    BY DEF CastBegun
  <1>2. cast \in CastSets
    <2>1. MostLeft \in Nat
      BY ClientsCounted
    <2> QED BY <2>1, FeedFacts DEF CastSets
  <1>3. published + 1 \in Events /\ published' \in 0 .. LastEvent
    BY <1>1, FeedFacts DEF Events
  <1>4. /\ cast.stayed = Range(subscribers) /\ cast.full = full /\ cast.left = 0
    OBVIOUS
  <1> HIDE DEF cast
  <1>5. /\ casts' \in [Events -> CastSets] /\ casts'[published + 1] = cast
        /\ \A m \in Events : m # published + 1 => casts'[m] = casts[m]
    BY <1>1, <1>2, <1>3, FeedFacts
  <1>6. ASSUME NEW c \in FeedClients PROVE published + 1 \notin Has(c)
    <2>1. ~(published + 1 <= published)
      BY FeedFacts
    <2> QED BY <2>1, FeedFacts DEF OnceEach
  <1>7. \A m \in Events : m <= published' <=> m <= published \/ m = published + 1
    BY <1>1, FeedFacts DEF Events
  <1> QED BY <1>1, <1>3, <1>4, <1>5, <1>6, <1>7

LEMMA CastByLoopKeeps ==
    ASSUME FeedInv, CastByLoop PROVE FeedInv'
  <1> DEFINE n == published + 1
             full == {c \in Range(subscribers) : Full(c)}
  <1>1. /\ CastBegun(full) /\ inbox' = Offered(n)
        /\ subscribers' = subscribers /\ walk' = walk /\ delivered' = delivered
    BY DEF CastByLoop
  <1>2. full \in SUBSET FeedClients
    BY FeedFacts
  <1>3. /\ published' = n /\ n \in Events /\ published' \in 0 .. LastEvent
        /\ casts' \in [Events -> CastSets]
        /\ casts'[n].stayed = Range(subscribers) /\ casts'[n].full = full /\ casts'[n].left = 0
        /\ \A m \in Events : m # n => casts'[m] = casts[m]
        /\ \A c \in FeedClients : n \notin Has(c)
        /\ \A m \in Events : m <= published' <=> m <= published \/ m = n
    BY <1>1, <1>2, CastBegunIs
  <1>n. published \in Nat /\ walk.event \in Nat /\ walk.event <= published /\ walk.event # n
    BY FeedFacts DEF OnceEach
  <1>f. \A c \in Range(subscribers) : Full(c) <=> c \in full
    OBVIOUS
  <1> HIDE DEF n, full
  <1>4. \A c \in FeedClients :
          \/ c \in Range(subscribers) /\ c \notin full /\ inbox'[c] = Append(inbox[c], n)
          \/ (c \notin Range(subscribers) \/ c \in full) /\ inbox'[c] = inbox[c]
    BY <1>1, <1>f DEF Offered
  <1>5. ASSUME NEW c \in FeedClients
        PROVE  /\ inbox'[c] \in Seq(Events) /\ IsInjective(inbox'[c])
               /\ delivered'[c] \cap Range(inbox'[c]) = {}
               /\ \A m : m \in delivered'[c] \cup Range(inbox'[c]) <=>
                    \/ m \in Has(c)
                    \/ m = n /\ c \in Range(subscribers) /\ c \notin full
    <2>1. /\ inbox[c] \in Seq(Events) /\ IsInjective(inbox[c]) /\ n \notin Has(c)
          /\ delivered[c] \cap Range(inbox[c]) = {}
      BY <1>3, FeedFacts DEF OnceEach
    <2>2. CASE c \in Range(subscribers) /\ c \notin full /\ inbox'[c] = Append(inbox[c], n)
      <3>1. /\ Append(inbox[c], n) \in Seq(Events) /\ IsInjective(Append(inbox[c], n))
            /\ Range(Append(inbox[c], n)) = Range(inbox[c]) \cup {n}
        BY <1>3, <2>1, AppendTo, AppendIs DEF Has
      <3> QED BY <1>1, <2>1, <2>2, <3>1 DEF Has
    <2>3. CASE (c \notin Range(subscribers) \/ c \in full) /\ inbox'[c] = inbox[c]
      BY <1>1, <2>1, <2>3 DEF Has
    <2> QED BY <1>4, <2>2, <2>3
  <1>6. FeedTyped'
    <2>1. DOMAIN inbox' = FeedClients /\ inbox' = [c \in FeedClients |-> inbox'[c]]
      BY <1>1 DEF Offered
    <2>2. inbox' \in [FeedClients -> Seq(Events)]
      BY <1>5, <2>1
    <2> QED BY <1>1, <1>3, <2>2, FeedFacts DEF FeedTyped
  <1>7. Listed'
    <2>1. \A c \in FeedClients : c \notin Range(subscribers) => inbox'[c] = inbox[c]
      BY <1>4
    <2>2. \A m \in Events : casts'[m].stayed \subseteq Range(subscribers)
      BY <1>3, FeedFacts DEF Listed
    <2> QED BY <1>1, <2>1, <2>2, FeedFacts DEF Listed
  <1>8. OnceEach'
    <2>1. walk'.event <= published'
      BY <1>1, <1>3, <1>n DEF n
    <2>2. ASSUME NEW c \in FeedClients, NEW m \in delivered'[c] \cup Range(inbox'[c])
          PROVE  m <= published'
      <3>1. CASE m = n
        <4>1. n <= n
          BY <1>n DEF n
        <4> QED BY <1>3, <3>1, <4>1
      <3>2. CASE m \in Has(c)
        <4>1. m <= published /\ m \in Events
          <5>1. Range(inbox[c]) \subseteq Events /\ delivered[c] \subseteq Events
            BY FeedFacts, RangeOf
          <5> QED BY <3>2, <5>1, FeedFacts DEF OnceEach, Has
        <4> QED BY <1>3, <4>1
      <3> QED BY <1>5, <3>1, <3>2
    <2>3. ASSUME walk.event # 0, NEW i \in 1 .. Len(subscribers), i >= walk.at
          PROVE  walk.event \notin delivered'[subscribers[i]] \cup Range(inbox'[subscribers[i]])
      <3>1. walk.event \notin Has(subscribers[i]) /\ subscribers[i] \in FeedClients
        BY <2>3, FeedFacts DEF OnceEach
      <3> QED BY <1>5, <1>n, <3>1
    <2> QED BY <1>1, <1>5, <2>1, <2>2, <2>3 DEF OnceEach, Has
  <1>9. \A m \in Events : m # n => Missed(m)' = Missed(m)
    <2> SUFFICES ASSUME NEW m \in Events, m # n, NEW c PROVE c \in Missed(m)' <=> c \in Missed(m)
      OBVIOUS
    <2>1. casts[m].stayed \in SUBSET FeedClients /\ casts'[m] = casts[m]
      BY <1>3, FeedFacts DEF CastSets
    <2>2. c \in Missed(m) <=> /\ c \in casts[m].stayed /\ c \notin casts[m].full /\ m \notin Has(c)
      BY MissedAre, FeedFacts
    <2>3. c \in Missed(m)' <=> /\ c \in casts'[m].stayed /\ c \notin casts'[m].full
                               /\ m \notin delivered'[c] \cup Range(inbox'[c])
      BY DEF Missed
    <2> QED BY <1>5, <2>1, <2>2, <2>3
  <1>10. \A m \in Events : m = n => Missed(m)' = {}
    <2> SUFFICES ASSUME NEW m \in Events, m = n, NEW c \in Missed(m)' PROVE FALSE
      OBVIOUS
    <2>1. /\ c \in casts'[m].stayed /\ c \notin casts'[m].full
          /\ m \notin delivered'[c] \cup Range(inbox'[c])
      BY DEF Missed
    <2>2. c \in Range(subscribers) /\ c \notin full
      BY <1>3, <2>1
    <2> QED BY <1>5, <2>1, <2>2, FeedFacts
  <1>11. Accounted'
    <2>1. ASSUME NEW m \in Events, m <= published', m # walk'.event
          PROVE  Cardinality(Missed(m)') <= casts'[m].left
      <3>1. CASE m = n
        <4>1. Cardinality({}) = 0
          BY FS_EmptySet
        <4> QED BY <1>3, <1>10, <3>1, <4>1
      <3>2. CASE m # n
        <4>1. m <= published /\ m # walk.event
          BY <1>1, <1>3, <2>1, <3>2
        <4> QED BY <1>3, <1>9, <3>2, <4>1, FeedFacts DEF Accounted
      <3> QED BY <3>1, <3>2
    <2>2. ASSUME walk.event # 0 PROVE Cardinality(Behind') <= casts'[walk.event].left
      <3>1. walk.event \in Events
        BY <2>2, FeedFacts
      <3>2. Missed(walk.event)' = Missed(walk.event)
        <4>1. Missed(walk.event)' = {c \in casts'[walk.event].stayed \ casts'[walk.event].full :
                                       walk.event \notin delivered'[c] \cup Range(inbox'[c])}
          BY <1>1 DEF Missed
        <4>2. ASSUME NEW m \in Events
              PROVE  Missed(m)' = {c \in casts'[m].stayed \ casts'[m].full :
                                     m \notin delivered'[c] \cup Range(inbox'[c])}
          BY DEF Missed
        <4> QED BY <1>9, <1>n, <3>1, <4>1, <4>2
      <3>3. Behind' = Behind
        BY <1>1, <3>2 DEF Behind
      <3> QED BY <1>3, <1>n, <2>2, <3>1, <3>3, FeedFacts DEF Accounted
    <2> QED BY <1>1, <2>1, <2>2 DEF Accounted
  <1> QED BY <1>6, <1>7, <1>8, <1>11 DEF FeedInv

LEMMA WalkBeginsKeeps ==
    ASSUME FeedInv, WalkBegins PROVE FeedInv'
  <1> DEFINE n == published + 1
  <1>1. /\ walk = Resting /\ CastBegun({}) /\ walk' = [event |-> n, at |-> 1]
        /\ subscribers' = subscribers /\ inbox' = inbox /\ delivered' = delivered
    BY DEF WalkBegins
  <1>2. /\ published' = n /\ n \in Events /\ published' \in 0 .. LastEvent
        /\ casts' \in [Events -> CastSets]
        /\ casts'[n].stayed = Range(subscribers) /\ casts'[n].left = 0
        /\ \A m \in Events : m # n => casts'[m] = casts[m]
        /\ \A c \in FeedClients : n \notin Has(c)
        /\ \A m \in Events : m <= published' <=> m <= published \/ m = n
    BY <1>1, CastBegunIs
  <1>n. published \in Nat /\ n \in 0 .. LastEvent /\ n <= n
    BY <1>2, FeedFacts DEF Events
  <1> HIDE DEF n
  <1>3. walk' \in [event : 0 .. LastEvent, at : Nat \ {0}] /\ walk'.event = n /\ walk'.at = 1
    BY <1>1, <1>n
  <1>4. FeedTyped'
    BY <1>1, <1>2, <1>3, FeedFacts DEF FeedTyped
  <1>5. Listed'
    <2>1. \A m \in Events : casts'[m].stayed \subseteq Range(subscribers)
      BY <1>2, FeedFacts DEF Listed
    <2> QED BY <1>1, <2>1, FeedFacts DEF Listed
  <1>6. OnceEach'
    <2>1. ASSUME NEW c \in FeedClients, NEW m \in Has(c) PROVE m <= published'
      <3>1. m \in Events /\ m <= published
        <4>1. Range(inbox[c]) \subseteq Events /\ delivered[c] \subseteq Events
          BY FeedFacts, RangeOf
        <4> QED BY <2>1, <4>1, FeedFacts DEF OnceEach, Has
      <3> QED BY <1>2, <3>1
    <2>2. \A i \in 1 .. Len(subscribers) : n \notin Has(subscribers[i])
      BY <1>2, FeedFacts
    <2> QED BY <1>1, <1>2, <1>3, <1>n, <2>1, <2>2, FeedFacts DEF OnceEach, Has
  <1>7. Accounted'
    <2>1. ASSUME NEW m \in Events, m <= published', m # walk'.event
          PROVE  Cardinality(Missed(m)') <= casts'[m].left
      <3>1. m # n /\ m <= published /\ casts'[m] = casts[m]
        BY <1>2, <1>3, <2>1
      <3>2. m # walk.event
        <4>1. walk.event = 0 /\ 0 \notin Events
          BY <1>1 DEF Resting, Events
        <4> QED BY <4>1
      <3>3. Missed(m)' = Missed(m)
        BY <1>1, <3>1 DEF Missed
      <3> QED BY <3>1, <3>2, <3>3, FeedFacts DEF Accounted
    <2>2. Behind' = {}
      <3>1. \A i \in 1 .. Len(subscribers) : ~(i < 1)
        BY FeedFacts
      <3> QED BY <1>1, <1>3, <3>1 DEF Behind
    <2>3. Cardinality({}) = 0
      BY FS_EmptySet
    <2>4. Cardinality(Behind') <= casts'[walk'.event].left
      BY <1>2, <1>3, <2>2, <2>3
    <2> QED BY <2>1, <2>4 DEF Accounted
  <1> QED BY <1>4, <1>5, <1>6, <1>7 DEF FeedInv

LEMMA WalkEndsKeeps ==
    ASSUME FeedInv, WalkEnds PROVE FeedInv'
  <1>1. /\ walk.event # 0 /\ walk.at > Len(subscribers) /\ walk' = Resting
        /\ subscribers' = subscribers /\ inbox' = inbox /\ published' = published
        /\ delivered' = delivered /\ casts' = casts
    BY DEF WalkEnds
  <1>2. walk' \in [event : 0 .. LastEvent, at : Nat \ {0}] /\ walk'.event = 0
    BY <1>1, FeedFacts DEF Resting
  <1>3. FeedTyped'
    BY <1>1, <1>2, FeedFacts DEF FeedTyped
  <1>4. Listed'
    BY <1>1, FeedFacts DEF Listed
  <1>5. OnceEach'
    BY <1>1, <1>2, FeedFacts DEF OnceEach, Has
  <1>6. Missed(walk.event) \subseteq Behind
    <2> SUFFICES ASSUME NEW c \in Missed(walk.event) PROVE c \in Behind
      OBVIOUS
    <2>1. c \in Range(subscribers)
      <3>1. c \in casts[walk.event].stayed
        BY DEF Missed
      <3> QED BY <1>1, <3>1, FeedFacts DEF Listed
    <2>2. PICK i \in 1 .. Len(subscribers) : subscribers[i] = c
      BY <2>1, FeedFacts, RangeOf
    <2>3. i < walk.at
      BY <1>1, FeedFacts
    <2> QED BY <2>2, <2>3 DEF Behind
  <1>7. Accounted'
    <2>1. ASSUME NEW m \in Events, m <= published
          PROVE  Cardinality(Missed(m)') <= casts[m].left
      <3>1. Missed(m)' = Missed(m)
        BY <1>1 DEF Missed
      <3>2. CASE m # walk.event
        BY <2>1, <3>1, <3>2, FeedFacts DEF Accounted
      <3>3. CASE m = walk.event
        <4>1. Behind \in SUBSET FeedClients
          BY <1>1, FeedFacts, MissedAre DEF Behind
        <4>2. /\ Cardinality(Missed(m)) <= Cardinality(Behind)
              /\ Cardinality(Missed(m)) \in Nat /\ Cardinality(Behind) \in Nat
          BY <1>6, <3>3, <4>1, FewerMiss
        <4>3. Cardinality(Behind) <= casts[m].left /\ casts[m].left \in 0 .. MostLeft
          BY <1>1, <3>3, FeedFacts, MissedAre DEF Accounted
        <4>4. MostLeft \in Nat
          BY ClientsCounted
        <4> QED BY <3>1, <4>2, <4>3, <4>4
      <3> QED BY <3>2, <3>3
    <2> QED BY <1>1, <1>2, <2>1 DEF Accounted
  <1> QED BY <1>3, <1>4, <1>5, <1>7 DEF FeedInv

\* A handler takes what its connection has already.
LEMMA RelaysKeeps ==
    ASSUME FeedInv, NEW c \in FeedClients, Relays(c) PROVE FeedInv'
  <1>1. /\ inbox[c] # <<>> /\ inbox' = [inbox EXCEPT ![c] = Tail(inbox[c])]
        /\ delivered' = [delivered EXCEPT ![c] = delivered[c] \cup {Head(inbox[c])}]
        /\ subscribers' = subscribers /\ walk' = walk /\ published' = published /\ casts' = casts
    BY DEF Relays
  <1>2. /\ inbox[c] \in Seq(Events) /\ IsInjective(inbox[c]) /\ delivered[c] \in SUBSET Events
        /\ delivered[c] \cap Range(inbox[c]) = {}
    BY FeedFacts DEF OnceEach
  <1>3. /\ Tail(inbox[c]) \in Seq(Events) /\ IsInjective(Tail(inbox[c])) /\ Head(inbox[c]) \in Events
        /\ Range(Tail(inbox[c])) = Range(inbox[c]) \ {Head(inbox[c])}
        /\ Head(inbox[c]) \in Range(inbox[c])
    BY <1>1, <1>2, TailOf, TailIs
  <1> DEFINE head == Head(inbox[c])
             tail == Tail(inbox[c])
  <1> HIDE DEF head, tail
  <1>4. /\ inbox' \in [FeedClients -> Seq(Events)] /\ delivered' \in [FeedClients -> SUBSET Events]
        /\ inbox'[c] = tail /\ delivered'[c] = delivered[c] \cup {head}
        /\ \A d \in FeedClients : d # c => inbox'[d] = inbox[d] /\ delivered'[d] = delivered[d]
    BY <1>1, <1>2, <1>3, FeedFacts DEF head, tail
  <1>5. ASSUME NEW d \in FeedClients
        PROVE  /\ IsInjective(inbox'[d]) /\ delivered'[d] \cap Range(inbox'[d]) = {}
               /\ delivered'[d] \cup Range(inbox'[d]) = Has(d)
    <2>1. CASE d = c
      BY <1>2, <1>3, <1>4, <2>1 DEF Has, head, tail
    <2>2. CASE d # c
      BY <1>4, <2>2, FeedFacts DEF OnceEach, Has
    <2> QED BY <2>1, <2>2
  <1>6. FeedTyped'
    BY <1>1, <1>4, FeedFacts DEF FeedTyped
  <1>7. Listed'
    <2>1. c \in Range(subscribers)
      BY <1>1, FeedFacts DEF Listed
    <2> QED BY <1>1, <1>4, <2>1, FeedFacts DEF Listed
  <1>8. OnceEach'
    BY <1>1, <1>5, FeedFacts DEF OnceEach, Has
  <1>9. ASSUME NEW m \in Events PROVE Missed(m)' = Missed(m)
    <2>1. ASSUME NEW d PROVE d \in Missed(m)' <=> d \in Missed(m)
      <3>1. casts[m].stayed \in SUBSET FeedClients
        BY FeedFacts DEF CastSets
      <3>2. d \in Missed(m) <=> d \in casts[m].stayed /\ d \notin casts[m].full /\ m \notin Has(d)
        BY MissedAre, FeedFacts
      <3>3. d \in Missed(m)' <=> /\ d \in casts[m].stayed /\ d \notin casts[m].full
                                 /\ m \notin delivered'[d] \cup Range(inbox'[d])
        BY <1>1 DEF Missed
      <3> QED BY <1>5, <3>1, <3>2, <3>3
    <2> QED BY <2>1
  <1>10. walk.event # 0 => Behind' = Behind
    <2> SUFFICES ASSUME walk.event # 0 PROVE Behind' = Behind
      OBVIOUS
    <2>1. PICK m \in Events : m = walk.event
      BY FeedFacts
    <2>2. Behind' = {d \in Missed(m)' : \E i \in 1 .. Len(subscribers) :
                       i < walk.at /\ subscribers[i] = d}
      BY <1>1, <2>1 DEF Behind, Missed
    <2>3. Behind = {d \in Missed(m) : \E i \in 1 .. Len(subscribers) :
                       i < walk.at /\ subscribers[i] = d}
      BY <2>1 DEF Behind
    <2> QED BY <1>9, <2>2, <2>3
  <1>11. Accounted'
    BY <1>1, <1>6, <1>9, <1>10, NoneMoreMisses
  <1> QED BY <1>6, <1>7, <1>8, <1>11 DEF FeedInv

\* The thread visits the next on the list: who is full is noted, the others have it.
LEMMA WalkPutsKeeps ==
    ASSUME FeedInv, WalkPuts PROVE FeedInv'
  <1> DEFINE e == walk.event
             k == walk.at
             c == subscribers[k]
  <1>1. /\ e # 0 /\ k <= Len(subscribers) /\ walk' = [walk EXCEPT !.at = k + 1]
        /\ subscribers' = subscribers /\ published' = published /\ delivered' = delivered
        /\ \/ /\ casts' = [casts EXCEPT ![e].full = @ \cup {c}]
              /\ inbox' = inbox
           \/ /\ inbox' = [inbox EXCEPT ![c] = Append(inbox[c], e)]
              /\ casts' = casts
    BY DEF WalkPuts
  <1>2. e \in Events /\ k \in 1 .. Len(subscribers) /\ k \in Nat \ {0}
    BY <1>1, FeedFacts
  <1>3. /\ c \in FeedClients /\ c \in Range(subscribers) /\ e \notin Has(c)
        /\ inbox[c] \in Seq(Events) /\ IsInjective(inbox[c])
        /\ delivered[c] \cap Range(inbox[c]) = {}
    <2>1. c \in FeedClients /\ c \in Range(subscribers)
      BY <1>2, FeedFacts
    <2>2. k >= walk.at
      BY <1>2
    <2> QED BY <1>1, <1>2, <2>1, <2>2, FeedFacts DEF OnceEach
  <1>4. /\ walk' \in [event : 0 .. LastEvent, at : Nat \ {0}] /\ walk'.event = e /\ walk'.at = k + 1
    <2>1. walk \in [event : 0 .. LastEvent, at : Nat \ {0}] /\ k + 1 \in Nat \ {0}
      BY FeedFacts
    <2>2. walk' = [walk EXCEPT !.at = k + 1]
      BY <1>1
    <2> QED BY <2>1, <2>2
  <1>5. \A i \in 1 .. Len(subscribers) :
          /\ i < k + 1 => i < k \/ i = k
          /\ i >= k + 1 => i >= k /\ subscribers[i] # c
    <2>1. \A i \in 1 .. Len(subscribers) : i >= k + 1 => i # k
      BY <1>2
    <2>2. \A i, j \in 1 .. Len(subscribers) : subscribers[i] = subscribers[j] => i = j
      BY FeedFacts, InjectiveMeans DEF Listed
    <2> QED BY <1>2, <2>1, <2>2
  <1> HIDE DEF c
  \* what the step does to the queues and to the account
  <1>6. CASE casts' = [casts EXCEPT ![e].full = @ \cup {c}] /\ inbox' = inbox
    <2> DEFINE noted == [casts[e] EXCEPT !.full = @ \cup {c}]
    <2>1. casts[e] \in CastSets /\ casts' = [casts EXCEPT ![e] = noted]
      BY <1>2, <1>6, FeedFacts
    <2>2. /\ noted \in CastSets /\ noted.stayed = casts[e].stayed /\ noted.left = casts[e].left
          /\ noted.full = casts[e].full \cup {c}
      BY <1>3, <2>1 DEF CastSets
    <2> HIDE DEF noted
    <2>3. /\ casts' \in [Events -> CastSets] /\ casts'[e] = noted
          /\ \A m \in Events : m # e => casts'[m] = casts[m]
      BY <1>2, <2>1, <2>2, FeedFacts
    <2>4. FeedTyped'
      BY <1>1, <1>4, <1>6, <2>3, FeedFacts DEF FeedTyped
    <2>5. Listed'
      <3>1. \A m \in Events : casts'[m].stayed \subseteq Range(subscribers)
        BY <2>2, <2>3, FeedFacts DEF Listed
      <3> QED BY <1>1, <1>6, <3>1, FeedFacts DEF Listed
    <2>6. OnceEach'
      BY <1>1, <1>4, <1>5, <1>6, FeedFacts DEF OnceEach, Has
    <2>7. \A m \in Events : casts'[m].left = casts[m].left
      BY <2>2, <2>3
    <2>8. \A m \in Events : m # walk.event => Missed(m)' \subseteq Missed(m)
      BY <1>1, <1>6, <2>3 DEF Missed
    <2>9. Behind' \subseteq Behind
      <3> SUFFICES ASSUME NEW d \in Behind' PROVE d \in Behind
        OBVIOUS
      <3>1. PICK m \in Events : m = e
        BY <1>2
      <3>2. d \in Missed(m)' /\ \E i \in 1 .. Len(subscribers) : i < k + 1 /\ subscribers[i] = d
        BY <1>1, <1>4, <3>1 DEF Behind, Missed
      <3>3. d \in Missed(m) /\ d # c
        BY <1>6, <1>1, <2>2, <2>3, <3>1, <3>2 DEF Missed
      <3>4. \E i \in 1 .. Len(subscribers) : i < k /\ subscribers[i] = d
        BY <1>5, <3>2, <3>3 DEF c
      <3> QED BY <3>1, <3>3, <3>4 DEF Behind
    <2>10. Accounted'
      BY <1>1, <1>4, <2>4, <2>7, <2>8, <2>9, NoneMoreMisses
    <2> QED BY <2>4, <2>5, <2>6, <2>10 DEF FeedInv
  <1>7. CASE inbox' = [inbox EXCEPT ![c] = Append(inbox[c], e)] /\ casts' = casts
    <2>1. /\ Append(inbox[c], e) \in Seq(Events) /\ IsInjective(Append(inbox[c], e))
          /\ Range(Append(inbox[c], e)) = Range(inbox[c]) \cup {e}
      BY <1>2, <1>3, AppendTo, AppendIs DEF Has
    <2>2. /\ inbox' \in [FeedClients -> Seq(Events)] /\ inbox'[c] = Append(inbox[c], e)
          /\ \A d \in FeedClients : d # c => inbox'[d] = inbox[d]
      BY <1>3, <1>7, <2>1, FeedFacts
    <2>3. ASSUME NEW d \in FeedClients
          PROVE  /\ IsInjective(inbox'[d]) /\ delivered'[d] \cap Range(inbox'[d]) = {}
                 /\ \A m : m \in delivered'[d] \cup Range(inbox'[d]) <=>
                      m \in Has(d) \/ (m = e /\ d = c)
      <3>1. CASE d = c
        BY <1>1, <1>3, <2>1, <2>2, <3>1 DEF Has
      <3>2. CASE d # c
        BY <1>1, <2>2, <3>2, FeedFacts DEF OnceEach, Has
      <3> QED BY <3>1, <3>2
    <2>4. FeedTyped'
      BY <1>1, <1>4, <1>7, <2>2, FeedFacts DEF FeedTyped
    <2>5. Listed'
      BY <1>1, <1>3, <1>7, <2>2, FeedFacts DEF Listed
    <2>6. OnceEach'
      <3>1. e <= published
        BY FeedFacts DEF OnceEach
      <3>2. ASSUME NEW d \in FeedClients, NEW m \in delivered'[d] \cup Range(inbox'[d])
            PROVE  m <= published
        BY <2>3, <3>1, <3>2, FeedFacts DEF OnceEach
      <3>3. ASSUME NEW i \in 1 .. Len(subscribers), i >= k + 1
            PROVE  e \notin delivered'[subscribers[i]] \cup Range(inbox'[subscribers[i]])
        <4>1. /\ subscribers[i] # c /\ e \notin Has(subscribers[i])
              /\ subscribers[i] \in FeedClients
          BY <1>1, <1>5, <3>3, FeedFacts DEF OnceEach, c
        <4> QED BY <2>3, <4>1
      <3> QED BY <1>1, <1>4, <2>3, <3>1, <3>2, <3>3 DEF OnceEach, Has
    <2>7. ASSUME NEW m \in Events
          PROVE  /\ m # e => Missed(m)' = Missed(m)
                 /\ m = e => Missed(m)' = Missed(m) \ {c}
      <3>1. ASSUME NEW d
            PROVE  d \in Missed(m)' <=> d \in Missed(m) /\ ~(m = e /\ d = c)
        <4>1. casts[m].stayed \in SUBSET FeedClients
          BY FeedFacts DEF CastSets
        <4>2. d \in Missed(m) <=> d \in casts[m].stayed /\ d \notin casts[m].full /\ m \notin Has(d)
          BY MissedAre, FeedFacts
        <4>3. d \in Missed(m)' <=> /\ d \in casts[m].stayed /\ d \notin casts[m].full
                                   /\ m \notin delivered'[d] \cup Range(inbox'[d])
          BY <1>7 DEF Missed
        <4> QED BY <2>3, <4>1, <4>2, <4>3
      <3> QED BY <3>1
    <2>8. Behind' \subseteq Behind
      <3> SUFFICES ASSUME NEW d \in Behind' PROVE d \in Behind
        OBVIOUS
      <3>1. PICK m \in Events : m = e
        BY <1>2
      <3>2. d \in Missed(m)' /\ \E i \in 1 .. Len(subscribers) : i < k + 1 /\ subscribers[i] = d
        BY <1>1, <1>4, <3>1 DEF Behind, Missed
      <3>3. d \in Missed(m) /\ d # c
        BY <2>7, <3>1, <3>2
      <3>4. \E i \in 1 .. Len(subscribers) : i < k /\ subscribers[i] = d
        BY <1>5, <3>2, <3>3 DEF c
      <3> QED BY <3>1, <3>3, <3>4 DEF Behind
    <2>9. \A m \in Events : casts'[m].left = casts[m].left
      BY <1>7
    <2>10. \A m \in Events : m # walk.event => Missed(m)' \subseteq Missed(m)
      BY <2>7
    <2>11. Accounted'
      BY <1>1, <1>4, <2>4, <2>8, <2>9, <2>10, NoneMoreMisses
    <2> QED BY <2>4, <2>5, <2>6, <2>11 DEF FeedInv
  <1> QED BY <1>1, <1>6, <1>7 DEF c

\* Somebody leaves: the list moves up under the thread, which may pass over the one
\* that moved into its past.
LEMMA LeaveKeeps ==
    ASSUME FeedInv, NEW c \in FeedClients, Leave(c) PROVE FeedInv'
  <1>1. PICK k \in 1 .. Len(subscribers) :
          subscribers[k] = c /\ subscribers' = ListWithout(subscribers, k)
    BY FeedFacts, RangeOf DEF Leave
  <1>2. /\ inbox' = [inbox EXCEPT ![c] = <<>>] /\ delivered' = [delivered EXCEPT ![c] = {}]
        /\ walk' = walk /\ published' = published
        /\ casts' = [m \in Events |->
                       [casts[m] EXCEPT !.stayed = @ \ {c}, !.full = @ \ {c},
                                        !.left = IF m = walk.event /\ @ < MostLeft
                                                 THEN @ + 1 ELSE @]]
    BY DEF Leave
  <1>3. /\ subscribers' \in Seq(FeedClients) /\ Len(subscribers') = Len(subscribers) - 1
        /\ Range(subscribers') = Range(subscribers) \ {c} /\ IsInjective(subscribers')
        /\ \A i \in 1 .. Len(subscribers) - 1 :
             subscribers'[i] = IF i < k THEN subscribers[i] ELSE subscribers[i + 1]
    <2>1. subscribers \in Seq(FeedClients) /\ IsInjective(subscribers)
      BY FeedFacts DEF Listed
    <2>2. LET r == ListWithout(subscribers, k) IN
          /\ r \in Seq(FeedClients) /\ Len(r) = Len(subscribers) - 1
          /\ Range(r) = Range(subscribers) \ {subscribers[k]} /\ IsInjective(r)
          /\ \A i \in 1 .. Len(subscribers) - 1 :
               r[i] = IF i < k THEN subscribers[i] ELSE subscribers[i + 1]
      BY <2>1, ListWithoutIs
    <2> QED BY <1>1, <2>2
  <1>4. \A i \in 1 .. Len(subscribers') :
          /\ i \in Nat /\ i \in 1 .. Len(subscribers) /\ i + 1 \in 1 .. Len(subscribers)
          /\ subscribers'[i] = subscribers[i] \/ subscribers'[i] = subscribers[i + 1]
    BY <1>3, FeedFacts
  <1>5. MostLeft \in Nat
    BY ClientsCounted
  <1>6. ASSUME NEW m \in Events
        PROVE  /\ casts'[m] \in CastSets
               /\ casts'[m].stayed = casts[m].stayed \ {c} /\ casts'[m].full = casts[m].full \ {c}
               /\ casts'[m].left = IF m = walk.event /\ casts[m].left < MostLeft
                                   THEN casts[m].left + 1 ELSE casts[m].left
    <2> DEFINE now == IF m = walk.event /\ casts[m].left < MostLeft
                      THEN casts[m].left + 1 ELSE casts[m].left
    <2>1. casts[m] \in CastSets
      BY FeedFacts
    <2>2. casts'[m] = [casts[m] EXCEPT !.stayed = @ \ {c}, !.full = @ \ {c}, !.left = now]
      BY <1>2
    <2>3. now \in 0 .. MostLeft
      <3>1. casts[m].left \in 0 .. MostLeft
        BY <2>1 DEF CastSets
      <3> QED BY <1>5, <3>1
    <2> HIDE DEF now
    <2>4. /\ casts'[m] \in CastSets
          /\ casts'[m].stayed = casts[m].stayed \ {c} /\ casts'[m].full = casts[m].full \ {c}
          /\ casts'[m].left = now
      BY <2>1, <2>2, <2>3 DEF CastSets
    <2> QED BY <2>4 DEF now
  <1>7. casts' \in [Events -> CastSets]
    BY <1>2, <1>6
  <1>8. /\ <<>> \in Seq(Events) /\ Range(<<>>) = {} /\ IsInjective(<<>>)
    BY DEF Range, IsInjective
  <1>9. /\ inbox' \in [FeedClients -> Seq(Events)] /\ delivered' \in [FeedClients -> SUBSET Events]
        /\ inbox'[c] = <<>> /\ delivered'[c] = {}
        /\ \A d \in FeedClients : d # c => inbox'[d] = inbox[d] /\ delivered'[d] = delivered[d]
    BY <1>2, <1>8, FeedFacts
  <1>10. ASSUME NEW d \in FeedClients
         PROVE  /\ IsInjective(inbox'[d]) /\ delivered'[d] \cap Range(inbox'[d]) = {}
                /\ d = c => delivered'[d] \cup Range(inbox'[d]) = {}
                /\ d # c => delivered'[d] \cup Range(inbox'[d]) = Has(d)
    <2>1. CASE d = c
      BY <1>8, <1>9, <2>1
    <2>2. CASE d # c
      BY <1>9, <2>2, FeedFacts DEF OnceEach, Has
    <2> QED BY <2>1, <2>2
  <1>11. FeedTyped'
    BY <1>2, <1>3, <1>7, <1>9, FeedFacts DEF FeedTyped
  <1>12. Listed'
    <2>1. \A d \in FeedClients : d \notin Range(subscribers') => inbox'[d] = <<>> /\ delivered'[d] = {}
      BY <1>3, <1>9, FeedFacts DEF Listed
    <2>2. \A m \in Events : casts'[m].stayed \subseteq Range(subscribers')
      BY <1>3, <1>6, FeedFacts DEF Listed
    <2> QED BY <1>3, <2>1, <2>2 DEF Listed
  <1>13. OnceEach'
    <2>1. ASSUME walk.event # 0, NEW i \in 1 .. Len(subscribers'), i >= walk.at
          PROVE  walk.event \notin delivered'[subscribers'[i]] \cup Range(inbox'[subscribers'[i]])
      <3>1. i + 1 >= walk.at
        BY <1>4, <2>1, FeedFacts
      <3>2. walk.event \notin Has(subscribers'[i]) /\ subscribers'[i] \in FeedClients
        BY <1>4, <2>1, <3>1, FeedFacts DEF OnceEach
      <3> QED BY <1>10, <3>2
    <2>2. ASSUME NEW d \in FeedClients, NEW m \in delivered'[d] \cup Range(inbox'[d])
          PROVE  m <= published
      BY <1>10, <2>2, FeedFacts DEF OnceEach
    <2>3. walk.event <= published
      BY FeedFacts DEF OnceEach
    <2> QED BY <1>2, <1>10, <2>1, <2>2, <2>3 DEF OnceEach, Has
  <1>14. ASSUME NEW m \in Events PROVE Missed(m)' \subseteq Missed(m)
    <2> SUFFICES ASSUME NEW d \in Missed(m)' PROVE d \in Missed(m)
      OBVIOUS
    <2>1. /\ d \in casts'[m].stayed /\ d \notin casts'[m].full
          /\ m \notin delivered'[d] \cup Range(inbox'[d])
      BY DEF Missed
    <2>2. d \in casts[m].stayed /\ d # c /\ d \notin casts[m].full
      BY <1>6, <2>1
    <2>3. d \in FeedClients
      BY <2>2, FeedFacts DEF CastSets
    <2>4. m \notin Has(d)
      BY <1>10, <2>1, <2>2, <2>3
    <2> QED BY <2>2, <2>4, FeedFacts, MissedAre
  <1>15. ASSUME NEW m \in Events, m <= published, m # walk.event
         PROVE  Cardinality(Missed(m)') <= casts'[m].left
    <2>1. /\ Cardinality(Missed(m)') <= Cardinality(Missed(m))
          /\ Cardinality(Missed(m)') \in Nat /\ Cardinality(Missed(m)) \in Nat
      BY <1>14, FeedFacts, MissedAre, FewerMiss
    <2>2. Cardinality(Missed(m)) <= casts[m].left /\ casts[m].left \in 0 .. MostLeft
      BY <1>15, FeedFacts, MissedAre DEF Accounted
    <2>3. casts'[m].left = casts[m].left
      BY <1>6, <1>15
    <2> QED BY <1>5, <2>1, <2>2, <2>3
  <1>16. ASSUME walk.event # 0 PROVE Cardinality(Behind') <= casts'[walk.event].left
    <2>1. PICK m \in Events : m = walk.event
      BY <1>16, FeedFacts
    <2>2. Behind = {d \in Missed(m) : \E i \in 1 .. Len(subscribers) :
                       i < walk.at /\ subscribers[i] = d}
      BY <2>1 DEF Behind
    <2>3. Behind' = {d \in Missed(m)' : \E i \in 1 .. Len(subscribers') :
                       i < walk.at /\ subscribers'[i] = d}
      BY <1>2, <2>1 DEF Behind, Missed
    <2>4. Behind' \subseteq Behind \cup {subscribers[walk.at]}
      <3> SUFFICES ASSUME NEW d \in Behind' PROVE d \in Behind \/ d = subscribers[walk.at]
        OBVIOUS
      <3>1. PICK i \in 1 .. Len(subscribers') : i < walk.at /\ subscribers'[i] = d
        BY <2>3
      <3>2. d \in Missed(m)
        BY <1>14, <2>3
      <3>3. CASE subscribers'[i] = subscribers[i]
        BY <1>4, <2>2, <3>1, <3>2, <3>3
      <3>4. CASE subscribers'[i] = subscribers[i + 1]
        <4>1. i + 1 < walk.at \/ i + 1 = walk.at
          BY <1>4, <3>1, FeedFacts
        <4> QED BY <1>4, <2>2, <3>1, <3>2, <3>4, <4>1
      <3> QED BY <1>4, <3>3, <3>4
    <2>5. Missed(m) \in SUBSET FeedClients /\ casts[m].left \in 0 .. MostLeft
      BY FeedFacts, MissedAre
    <2>6. Behind \in SUBSET FeedClients /\ Behind' \in SUBSET FeedClients
      BY <1>14, <2>2, <2>3, <2>5
    <2>7. /\ Cardinality(Behind') <= Cardinality(Behind) + 1
          /\ Cardinality(Behind') <= MostLeft
          /\ Cardinality(Behind') \in Nat /\ Cardinality(Behind) \in Nat
      BY <2>4, <2>6, OneMoreMisses, ClientsCounted
    <2>8. Cardinality(Behind) <= casts[m].left
      BY <1>16, <2>1, FeedFacts DEF Accounted
    <2>9. casts'[m].left = IF casts[m].left < MostLeft THEN casts[m].left + 1 ELSE casts[m].left
      BY <1>6, <2>1
    <2>10. Cardinality(Behind') <= casts'[m].left
      BY <1>5, <2>5, <2>7, <2>8, <2>9
    <2> QED BY <2>1, <2>10
  <1>17. Accounted'
    BY <1>2, <1>15, <1>16 DEF Accounted
  <1> QED BY <1>11, <1>12, <1>13, <1>17 DEF FeedInv

LEMMA FeedInvStep == FeedInv /\ [FeedNext]_feedVars => FeedInv'
  <1> SUFFICES ASSUME FeedInv, [FeedNext]_feedVars PROVE FeedInv'
    OBVIOUS
  <1>1. CASE UNCHANGED feedVars
    BY <1>1
    DEF feedVars, FeedInv, FeedTyped, Listed, OnceEach, Has, Accounted, Missed, Behind
  <1> QED BY <1>1, CastByLoopKeeps, WalkBeginsKeeps, WalkPutsKeeps, WalkEndsKeeps,
             SubscribeKeeps, RelaysKeeps, LeaveKeeps DEF FeedNext

\* The thread of an FT decode walks over the list while connections come and go: no
\* event comes twice to one of them, and one that stayed and had room misses an event
\* only for one that left meanwhile (_broadcast, _unsubscribe_events).
THEOREM EveryEventReaches == FeedSpec => []EventsReach
  <1>1. FeedInv => EventsReach
    <2> SUFFICES ASSUME FeedInv PROVE EventsReach
      OBVIOUS
    <2>1. ASSUME NEW m \in 1 .. published, walk.event # m
          PROVE  Cardinality(Missed(m)) <= casts[m].left
      <3>1. m \in Events /\ m <= published
        BY FeedFacts DEF Events
      <3> QED BY <2>1, <3>1, FeedFacts DEF Accounted
    <2> QED BY <2>1, FeedFacts DEF EventsReach, OnceEach
  <1> QED BY FeedInvInit, FeedInvStep, <1>1, PTL DEF FeedSpec

-----------------------------------------------------------------------------
(***************************************************************************)
(* The types of the satellite module, whatever overlaps: any number of     *)
(* predictions, and uninstalls during installs.                            *)
(***************************************************************************)
KeyValues == [state : {"idle", "installing", "installed", "uninstalling", "error"},
              installed : BOOLEAN]
Leavings == [task : SatTasks \cup {NoSched}, purge : BOOLEAN]

\* what an action of the module that leaves the tasks alone may do
RowsTyped == catalog \in [Sats -> Rows] /\ passes \in [Sats -> Nat] /\ switchedOff \in SUBSET Sats
FewPredictions ==
    /\ computing \in SUBSET Predictions /\ IsFiniteSet(computing)
    /\ Cardinality(computing) <= MaxComputing
TasksTyped ==
    /\ kv \in KeyValues /\ tables \in BOOLEAN /\ installing \in Nat
    /\ sched \in Sched /\ leaving \in Leavings
SatTypes ==
    RowsTyped /\ FewPredictions /\ TasksTyped /\ fetching \in SUBSET {"tles", "catalog"}

LEMMA SatTypesMean == SatTypes => SatTypeOK
  BY DEF SatTypes, SatTypeOK, RowsTyped, FewPredictions, TasksTyped, KeyValues, Leavings, Sched,
         TaskStates, Predictions, Rows

LEMMA MergedTyped ==
    ASSUME NEW cat \in [Sats -> Rows], NEW found \in SUBSET Sats, NEW source \in {"feed", "manual"},
           NEW tle \in BOOLEAN
    PROVE  Merged(cat, found, source, tle) \in [Sats -> Rows]
  <1>s. source \in Sources
    BY DEF Sources
  <1> DEFINE new == Merged(cat, found, source, tle)
  <1>1. ASSUME NEW s \in Sats PROVE new[s] \in Rows
    <2>1. cat[s] \in Rows
      OBVIOUS
    <2>2. CASE s \notin found
      BY <2>1, <2>2 DEF Merged
    <2>3. CASE s \in found
      <3> DEFINE elements == cat[s].tle \/ tle
                 on == cat[s].source = "none" \/ cat[s].enabled
      <3>1. new[s] = [source |-> source, tle |-> elements, enabled |-> on]
        BY <2>3 DEF Merged
      <3>2. elements \in BOOLEAN /\ on \in BOOLEAN
        <4>1. cat[s].tle \in BOOLEAN /\ cat[s].enabled \in BOOLEAN
          BY <2>1 DEF Rows
        <4> QED BY <4>1
      <3> HIDE DEF elements, on
      <3> QED BY <3>1, <3>2, <1>s DEF Rows
    <2> QED BY <2>2, <2>3
  <1>2. new = [s \in Sats |-> new[s]]
    BY DEF Merged
  <1> QED BY <1>1, <1>2

LEMMA DisabledTyped ==
    ASSUME NEW cat \in [Sats -> Rows], NEW alive
    PROVE  Disabled(cat, alive) \in [Sats -> Rows]
  <1>1. ASSUME NEW s \in Sats PROVE [cat[s] EXCEPT !.enabled = FALSE] \in Rows
    <2>1. cat[s] \in Rows
      OBVIOUS
    <2> QED BY <2>1 DEF Rows
  <1> QED BY <1>1 DEF Disabled

\* One more prediction, where there is room.
LEMMA RoomForOne ==
    ASSUME FewPredictions, NEW c \in Predictions, Cardinality(computing) < MaxComputing,
           computing' = computing \cup {c}
    PROVE  FewPredictions'
  <1>1. /\ IsFiniteSet(computing \cup {c}) /\ Cardinality(computing) \in Nat
        /\ Cardinality(computing \cup {c}) \in {Cardinality(computing), Cardinality(computing) + 1}
    BY FS_AddElement, FS_CardinalityType DEF FewPredictions
  <1>2. Cardinality(computing \cup {c}) <= MaxComputing
    BY <1>1, SatAssumption
  <1> QED BY <1>1, <1>2 DEF FewPredictions

\* A prediction that goes on takes the place it had.
LEMMA SamePlace ==
    ASSUME FewPredictions, NEW c \in computing, NEW d \in Predictions,
           computing' = (computing \ {c}) \cup {d}
    PROVE  FewPredictions'
  <1> DEFINE rest == computing \ {c}
  <1>1. /\ IsFiniteSet(rest) /\ Cardinality(rest) = Cardinality(computing) - 1
        /\ Cardinality(computing) \in Nat
    BY FS_RemoveElement, FS_CardinalityType DEF FewPredictions
  <1> HIDE DEF rest
  <1>2. /\ IsFiniteSet(rest \cup {d})
        /\ Cardinality(rest \cup {d}) \in {Cardinality(rest), Cardinality(rest) + 1}
    BY <1>1, FS_AddElement
  <1>3. Cardinality(rest \cup {d}) <= MaxComputing
    BY <1>1, <1>2, SatAssumption DEF FewPredictions
  <1> QED BY <1>2, <1>3 DEF FewPredictions, rest

LEMMA FewerPredictions ==
    ASSUME FewPredictions, computing' \subseteq computing PROVE FewPredictions'
  <1>1. IsFiniteSet(computing') /\ Cardinality(computing') <= Cardinality(computing)
    BY FS_Subset DEF FewPredictions
  <1>2. Cardinality(computing') \in Nat /\ Cardinality(computing) \in Nat
    BY <1>1, FS_CardinalityType DEF FewPredictions
  <1> QED BY <1>1, <1>2, SatAssumption DEF FewPredictions

\* The loop's threads become nobody's.
LEMMA OrphanedPredictions ==
    ASSUME FewPredictions, NEW t,
           computing' = {[c EXCEPT !.by = IF @ = t THEN NoSched ELSE @] : c \in computing}
    PROVE  FewPredictions'
  <1> DEFINE left == [c \in computing |-> [c EXCEPT !.by = IF @ = t THEN NoSched ELSE @]]
  <1>1. ASSUME NEW c \in computing
        PROVE  [c EXCEPT !.by = IF @ = t THEN NoSched ELSE @] \in Predictions
    <2>1. c \in Predictions
      BY DEF FewPredictions
    <2> QED BY <2>1 DEF Predictions
  <1>2. left \in Surjection(computing, computing')
    BY DEF Surjection
  <1> HIDE DEF left
  <1>3. IsFiniteSet(computing') /\ Cardinality(computing') <= Cardinality(computing)
    BY <1>2, FS_Surjection DEF FewPredictions
  <1>4. Cardinality(computing') \in Nat /\ Cardinality(computing) \in Nat
    BY <1>3, FS_CardinalityType DEF FewPredictions
  <1>5. computing' \subseteq Predictions
    BY <1>1
  <1> QED BY <1>3, <1>4, <1>5, SatAssumption DEF FewPredictions

LEMMA BegunTyped ==
    ASSUME NEW by \in SatTasks \cup {NoSched}, NEW todo \in SUBSET Sats
    PROVE  Begun(by) \in Predictions /\ [Begun(by) EXCEPT !.todo = todo] \in Predictions
  BY DEF Begun, Predictions

LEMMA CatalogTypes ==
    ASSUME SatTypes,
           RefreshAsked \/ RefreshFails \/ CatalogArrives \/ Imported \/ EnabledSet \/ SatDeleted
           \/ TlesArrive \/ RecomputeAsked
    PROVE  SatTypes'
  <1>1. /\ UNCHANGED <<kv, tables, installing, sched, leaving, passes>>
        /\ fetching' \in SUBSET {"tles", "catalog"}
    BY DEF RefreshAsked, RefreshFails, CatalogArrives, Imported, EnabledSet, SatDeleted, TlesArrive,
           RecomputeAsked, CatalogOnly, SatTypes
  <1>2. /\ catalog \in [Sats -> Rows] /\ switchedOff \in SUBSET Sats /\ FewPredictions
        /\ passes \in [Sats -> Nat] /\ TasksTyped
    BY DEF SatTypes, RowsTyped
  <1>3. /\ catalog' \in [Sats -> Rows]
    <2>1. CASE RefreshAsked \/ RefreshFails \/ RecomputeAsked
      BY <1>2, <2>1 DEF RefreshAsked, RefreshFails, RecomputeAsked
    <2>2. CASE TlesArrive
      <3>1. PICK found \in SUBSET Sats : catalog' = Merged(catalog, found, "feed", TRUE)
        BY <2>2 DEF TlesArrive
      <3> QED BY <1>2, <3>1, MergedTyped
    <2>3. CASE CatalogArrives
      <3>1. PICK alive \in SUBSET Sats :
              catalog' = Disabled(Merged(catalog, alive, "feed", FALSE), alive)
        BY <2>3 DEF CatalogArrives
      <3>2. Merged(catalog, alive, "feed", FALSE) \in [Sats -> Rows]
        BY <1>2, MergedTyped
      <3> QED BY <3>1, <3>2, DisabledTyped
    <2>4. CASE Imported
      <3>1. PICK found \in SUBSET Sats, tle \in BOOLEAN :
              catalog' = Merged(catalog, found, "manual", tle)
        BY <2>4 DEF Imported
      <3> QED BY <1>2, <3>1, MergedTyped
    <2>5. CASE EnabledSet
      <3>1. PICK s \in Sats, on \in BOOLEAN : catalog' = [catalog EXCEPT ![s].enabled = on]
        BY <2>5 DEF EnabledSet
      <3>2. catalog[s] \in Rows
        BY <1>2
      <3>3. [catalog[s] EXCEPT !.enabled = on] \in Rows
        BY <3>2 DEF Rows
      <3> QED BY <1>2, <3>1, <3>3
    <2>6. CASE SatDeleted
      <3>1. NoSat \in Rows
        BY DEF NoSat, Rows, Sources
      <3> QED BY <1>2, <2>6, <3>1 DEF SatDeleted
    <2> QED BY <2>1, <2>2, <2>3, <2>4, <2>5, <2>6
  <1>4. switchedOff' \in SUBSET Sats
    BY <1>2 DEF RefreshAsked, RefreshFails, CatalogArrives, Imported, EnabledSet, SatDeleted,
                TlesArrive, RecomputeAsked
  <1>5. FewPredictions'
    <2>1. CASE TlesArrive
      <3> DEFINE c == [Begun(NoSched) EXCEPT
                         !.todo = {s \in Sats : catalog'[s].enabled /\ catalog'[s].tle}]
      <3>1. computing' = computing \cup {c} /\ Cardinality(computing) < MaxComputing
        BY <2>1 DEF TlesArrive
      <3>2. c \in Predictions
        BY BegunTyped
      <3> HIDE DEF c
      <3> QED BY <1>2, <3>1, <3>2, RoomForOne
    <2>2. CASE RecomputeAsked
      <3>1. computing' = computing \cup {Begun(NoSched)} /\ Cardinality(computing) < MaxComputing
        BY <2>2 DEF RecomputeAsked
      <3>2. Begun(NoSched) \in Predictions
        BY BegunTyped
      <3> QED BY <1>2, <3>1, <3>2, RoomForOne
    <2>3. CASE computing' = computing
      BY <1>2, <2>3 DEF FewPredictions
    <2> QED BY <2>1, <2>2, <2>3
            DEF RefreshAsked, RefreshFails, CatalogArrives, Imported, EnabledSet, SatDeleted
  <1> QED BY <1>1, <1>2, <1>3, <1>4, <1>5 DEF SatTypes, RowsTyped, TasksTyped

LEMMA PredictionTypes ==
    ASSUME SatTypes, CycleStarts \/ PassesDeleted \/ PassesSaved \/ ComputeEnds \/ LoopEnds
    PROVE  SatTypes'
  <1>1. /\ UNCHANGED <<kv, tables, installing, leaving, catalog, fetching, switchedOff>>
    BY DEF CycleStarts, PassesDeleted, PassesSaved, ComputeEnds, LoopEnds
  <1>2. /\ passes \in [Sats -> Nat] /\ computing \in SUBSET Predictions /\ sched \in Sched
        /\ FewPredictions /\ tables \in BOOLEAN
    BY DEF SatTypes, RowsTyped, FewPredictions, TasksTyped
  <1>3. sched' \in Sched
    <2>1. \E t : \E pc \in {"computes", "sleeps", "gone"} :
            sched' = sched \/ sched' = [sched EXCEPT !.pc[t] = pc]
      <3>1. CASE CycleStarts
        BY <3>1 DEF CycleStarts
      <3>2. CASE PassesDeleted \/ PassesSaved
        BY <3>2 DEF PassesDeleted, PassesSaved
      <3>3. CASE ComputeEnds
        BY <3>3 DEF ComputeEnds
      <3>4. CASE LoopEnds
        BY <3>4 DEF LoopEnds
      <3> QED BY <3>1, <3>2, <3>3, <3>4
    <2>0. PICK t : \E pc \in {"computes", "sleeps", "gone"} :
            sched' = sched \/ sched' = [sched EXCEPT !.pc[t] = pc]
      BY <2>1
    <2>4. PICK pc \in TaskStates : sched' = sched \/ sched' = [sched EXCEPT !.pc[t] = pc]
      BY <2>0 DEF TaskStates
    <2>2. sched.pc \in [SatTasks -> TaskStates]
      BY <1>2 DEF Sched
    <2>3. [sched.pc EXCEPT ![t] = pc] \in [SatTasks -> TaskStates]
      BY <2>2
    <2> QED BY <1>2, <2>4, <2>3 DEF Sched
  <1>4. passes' \in [Sats -> Nat]
    <2>1. CASE PassesDeleted
      BY <1>2, <2>1 DEF PassesDeleted, Cleared, NoPasses
    <2>2. CASE PassesSaved
      <3>0. PICK c \in computing : \E s \in c.todo :
              passes' \in {passes} \cup (IF tables THEN {[passes EXCEPT ![s] = @ + 1]} ELSE {})
        BY <2>2 DEF PassesSaved
      <3>1. PICK s \in c.todo :
              passes' \in {passes} \cup (IF tables THEN {[passes EXCEPT ![s] = @ + 1]} ELSE {})
        BY <3>0
      <3>2. s \in Sats
        BY <1>2 DEF Predictions
      <3>3. passes[s] + 1 \in Nat
        BY <1>2, <3>2
      <3> QED BY <1>2, <3>1, <3>3
    <2> QED BY <1>2, <2>1, <2>2 DEF CycleStarts, ComputeEnds, LoopEnds
  <1>5. FewPredictions'
    <2>1. CASE CycleStarts
      <3>1. PICK t \in SatTasks : computing' = computing \cup {Begun(t)}
        BY <2>1 DEF CycleStarts
      <3>2. Cardinality(computing) < MaxComputing /\ Begun(t) \in Predictions
        BY <2>1, BegunTyped DEF CycleStarts
      <3> QED BY <1>2, <3>1, <3>2, RoomForOne
    <2>2. CASE PassesDeleted
      <3>1. PICK c \in computing :
              computing' = (computing \ {c}) \cup
                    {[c EXCEPT !.deleted = TRUE, !.todo = IF tables THEN @ ELSE {}]}
        BY <2>2 DEF PassesDeleted
      <3>2. [c EXCEPT !.deleted = TRUE, !.todo = IF tables THEN @ ELSE {}] \in Predictions
        <4>1. c \in Predictions
          BY <1>2
        <4> QED BY <4>1 DEF Predictions
      <3> QED BY <1>2, <3>1, <3>2, SamePlace
    <2>3. CASE PassesSaved
      <3>0. PICK c \in computing : \E s \in c.todo :
              computing' = (computing \ {c}) \cup {[c EXCEPT !.todo = @ \ {s}]}
        BY <2>3 DEF PassesSaved
      <3>1. PICK s \in c.todo :
              computing' = (computing \ {c}) \cup {[c EXCEPT !.todo = @ \ {s}]}
        BY <3>0
      <3>2. [c EXCEPT !.todo = @ \ {s}] \in Predictions
        <4>1. c \in Predictions
          BY <1>2
        <4> QED BY <4>1 DEF Predictions
      <3> QED BY <1>2, <3>1, <3>2, SamePlace
    <2>4. CASE ComputeEnds
      <3>1. computing' \subseteq computing
        BY <2>4 DEF ComputeEnds
      <3> QED BY <1>2, <3>1, FewerPredictions
    <2>5. CASE LoopEnds
      <3>1. PICK t \in SatTasks :
              computing' = {[c EXCEPT !.by = IF @ = t THEN NoSched ELSE @] : c \in computing}
        BY <2>5 DEF LoopEnds
      <3> QED BY <1>2, <3>1, OrphanedPredictions
    <2> QED BY <2>1, <2>2, <2>3, <2>4, <2>5
  <1> QED BY <1>1, <1>3, <1>4, <1>5 DEF SatTypes, RowsTyped, TasksTyped

LEMMA StartedTyped ==
    ASSUME NEW s \in Sched, SchedStarted(s) PROVE sched' \in Sched
  <1>1. s.pc \in [SatTasks -> TaskStates] /\ "sleeps" \in TaskStates
    BY DEF Sched, TaskStates
  <1>2. CASE sched' = s
    BY <1>2
  <1>3. ASSUME NEW t \in SatTasks, sched' = [task |-> t, pc |-> [s.pc EXCEPT ![t] = "sleeps"]]
        PROVE  sched' \in Sched
    <2>1. [s.pc EXCEPT ![t] = "sleeps"] \in [SatTasks -> TaskStates]
      BY <1>1
    <2> QED BY <1>3, <2>1 DEF Sched
  <1> QED BY <1>2, <1>3 DEF SchedStarted

LEMMA NothingLeft ==
    /\ Empty \in [Sats -> Rows] /\ NoPasses \in [Sats -> Nat]
    /\ [task |-> NoSched, pc |-> [t \in SatTasks |-> "gone"]] \in Sched
    /\ [task |-> NoSched, purge |-> FALSE] \in Leavings
    /\ [state |-> "idle", installed |-> FALSE] \in KeyValues
  BY DEF Empty, NoPasses, Sched, Leavings, NoSat, Rows, Sources, TaskStates, KeyValues

LEMMA LeftTypes ==
    ASSUME SatTypes, NEW purge, Left(purge)
    PROVE  RowsTyped' /\ kv' \in KeyValues /\ tables' \in BOOLEAN
  BY NothingLeft DEF Left, SatTypes, RowsTyped, TasksTyped

LEMMA InstallTypes ==
    ASSUME SatTypes, Install \/ InstallEnds \/ InstallFails PROVE SatTypes'
  <1>1. UNCHANGED <<leaving, computing, passes, fetching, switchedOff>>
    BY DEF Install, InstallEnds, InstallFails
  <1>2. /\ kv \in KeyValues /\ installing \in Nat /\ sched \in Sched /\ tables \in BOOLEAN
        /\ catalog \in [Sats -> Rows]
    BY DEF SatTypes, TasksTyped, RowsTyped
  <1>3. kv' \in KeyValues
    <2>1. CASE InstallEnds
      BY <2>1 DEF InstallEnds, KeyValues
    <2>2. CASE Install \/ InstallFails
      <3>1. kv' = [kv EXCEPT !.state = "installing"] \/ kv' = [kv EXCEPT !.state = "error"]
        BY <2>2 DEF Install, InstallFails
      <3> QED BY <1>2, <3>1 DEF KeyValues
    <2> QED BY <2>1, <2>2
  <1>4. installing' \in Nat
    <2>1. installing' = installing + 1 \/ (installing > 0 /\ installing' = installing - 1)
      BY DEF Install, InstallEnds, InstallFails
    <2> QED BY <1>2, <2>1
  <1>5. sched' \in Sched
    BY <1>2, StartedTyped DEF Install, InstallEnds, InstallFails
  <1>6. catalog' \in [Sats -> Rows]
    <2>1. CASE InstallEnds
      <3>1. Snapshot \in SUBSET Sats
        BY SatAssumption
      <3>2. Merged(catalog, Snapshot, "feed", TRUE) \in [Sats -> Rows]
        BY <1>2, <3>1, MergedTyped
      <3>3. Merged(Merged(catalog, Snapshot, "feed", TRUE), Snapshot, "feed", FALSE) \in [Sats -> Rows]
        BY <3>1, <3>2, MergedTyped
      <3> QED BY <2>1, <3>3 DEF InstallEnds
    <2> QED BY <1>2, <2>1 DEF Install, InstallFails
  <1>7. tables' \in BOOLEAN
    BY <1>2 DEF Install, InstallEnds, InstallFails
  <1> QED BY <1>1, <1>3, <1>4, <1>5, <1>6, <1>7
          DEF SatTypes, RowsTyped, TasksTyped, FewPredictions

LEMMA UninstallTypes ==
    ASSUME SatTypes, (\E purge \in BOOLEAN : Uninstall(purge)) \/ UninstallEnds PROVE SatTypes'
  <1>1. UNCHANGED <<installing, computing, fetching>>
    BY DEF Uninstall, UninstallEnds
  <1>2. kv \in KeyValues /\ sched \in Sched /\ leaving \in Leavings
    BY DEF SatTypes, TasksTyped
  <1>3. ASSUME NEW purge \in BOOLEAN, Uninstall(purge) PROVE SatTypes'
    <2>1. CASE Left(purge) /\ UNCHANGED <<leaving, sched>>
      BY <1>1, <2>1, LeftTypes DEF SatTypes, TasksTyped, FewPredictions
    <2>2. CASE /\ Live(sched.task)
               /\ sched' = [sched EXCEPT !.pc[sched.task] = "cancelled"]
               /\ leaving' = [task |-> sched.task, purge |-> purge]
               /\ kv' = [kv EXCEPT !.state = "uninstalling"]
               /\ UNCHANGED <<tables, catalog, passes, switchedOff>>
      <3>1. sched.pc \in [SatTasks -> TaskStates] /\ sched.task \in SatTasks \cup {NoSched}
        BY <1>2 DEF Sched
      <3>2. [sched.pc EXCEPT ![sched.task] = "cancelled"] \in [SatTasks -> TaskStates]
        BY <3>1 DEF TaskStates
      <3>3. sched' \in Sched
        BY <1>2, <2>2, <3>2 DEF Sched
      <3>4. kv' \in KeyValues
        BY <1>2, <2>2 DEF KeyValues
      <3>5. leaving' \in Leavings
        BY <2>2, <3>1 DEF Leavings
      <3> QED BY <1>1, <2>2, <3>3, <3>4, <3>5 DEF SatTypes, RowsTyped, TasksTyped, FewPredictions
    <2> QED BY <1>3, <2>1, <2>2 DEF Uninstall
  <1>4. CASE UninstallEnds
    <2>1. /\ Left(leaving.purge) /\ sched' = [sched EXCEPT !.task = NoSched]
          /\ leaving' = [task |-> NoSched, purge |-> FALSE]
      BY <1>4 DEF UninstallEnds
    <2>2. sched' \in Sched /\ leaving' \in Leavings
      BY <1>2, <2>1, NothingLeft DEF Sched
    <2> QED BY <1>1, <2>1, <2>2, LeftTypes DEF SatTypes, TasksTyped, FewPredictions
  <1> QED BY <1>3, <1>4

LEMMA RestartTypes ==
    ASSUME SatTypes, Restart PROVE SatTypes'
  <1> DEFINE none == [task |-> NoSched, pc |-> [t \in SatTasks |-> "gone"]]
  <1>1. none \in Sched
    BY NothingLeft
  <1>2. /\ SchedStarted(none) \/ sched' = none
        /\ installing' = 0 /\ leaving' = [task |-> NoSched, purge |-> FALSE]
        /\ computing' = {} /\ fetching' = {}
        /\ UNCHANGED <<kv, tables, catalog, passes, switchedOff>>
    BY DEF Restart
  <1> HIDE DEF none
  <1>3. sched' \in Sched
    BY <1>1, <1>2, StartedTyped
  <1>4. FewPredictions'
    <2>1. computing' \subseteq computing
      BY <1>2
    <2> QED BY <2>1, FewerPredictions DEF SatTypes
  <1> QED BY <1>2, <1>3, <1>4, NothingLeft DEF SatTypes, RowsTyped, TasksTyped

LEMMA SatTypesKept == SatTypes /\ [SatNext]_satVars => SatTypes'
  <1> SUFFICES ASSUME SatTypes, [SatNext]_satVars PROVE SatTypes'
    OBVIOUS
  <1>1. CASE UNCHANGED satVars
    BY <1>1 DEF satVars, SatTypes, RowsTyped, FewPredictions, TasksTyped
  <1> QED BY <1>1, CatalogTypes, PredictionTypes, InstallTypes, UninstallTypes, RestartTypes
          DEF SatNext

LEMMA SatTypesInit == SatInit => SatTypes
  <1> SUFFICES ASSUME SatInit PROVE SatTypes
    OBVIOUS
  <1>1. IsFiniteSet({}) /\ Cardinality({}) = 0
    BY FS_EmptySet
  <1>2. FewPredictions
    BY <1>1, SatAssumption DEF SatInit, FewPredictions
  <1> QED BY <1>2, NothingLeft DEF SatInit, SatTypes, RowsTyped, TasksTyped

LEMMA SatelliteTypes == SatSpec => []SatTypeOK
  BY SatTypesInit, SatTypesKept, SatTypesMean, PTL DEF SatSpec

-----------------------------------------------------------------------------
(***************************************************************************)
(* The bounds of the bus: no queue holds more than it may, and the thread  *)
(* walks over no more entries than there are connections.                  *)
(***************************************************************************)
LEMMA ListIsShort ==
    ASSUME NEW q \in Seq(FeedClients), IsInjective(q)
    PROVE  Len(q) \in Nat /\ Len(q) <= Cardinality(FeedClients)
  <1>1. Len(q) \in Nat /\ \A i, j \in 1 .. Len(q) : q[i] = q[j] => i = j
    BY InjectiveMeans
  <1>2. q \in Injection(1 .. Len(q), FeedClients)
    <2>1. q \in [1 .. Len(q) -> FeedClients]
      OBVIOUS
    <2> QED BY <1>1, <2>1 DEF Injection, IsInjective
  <1>3. Cardinality(1 .. Len(q)) <= Cardinality(FeedClients)
    BY <1>2, FeedAssumption, FS_Injection
  <1>4. Cardinality(1 .. Len(q)) = Len(q)
    <2>1. Cardinality(1 .. Len(q)) = IF 1 > Len(q) THEN 0 ELSE Len(q) - 1 + 1
      BY <1>1, FS_Interval
    <2> QED BY <1>1, <2>1
  <1> QED BY <1>1, <1>3, <1>4

FeedBounds ==
    /\ \A c \in FeedClients : Len(inbox[c]) <= QueueMax
    /\ walk.at <= Cardinality(FeedClients) + 1

LEMMA FeedTypeOfBounds == FeedInv /\ FeedBounds => FeedTypeOK
  <1> SUFFICES ASSUME FeedInv, FeedBounds PROVE FeedTypeOK
    OBVIOUS
  <1>1. /\ subscribers \in Seq(FeedClients) /\ inbox \in [FeedClients -> Seq(Events)]
        /\ delivered \in [FeedClients -> SUBSET Events] /\ published \in 0 .. LastEvent
        /\ walk \in [event : 0 .. LastEvent, at : Nat \ {0}] /\ casts \in [Events -> CastSets]
    BY FeedFacts
  <1>2. Cardinality(FeedClients) \in Nat
    BY FeedAssumption, FS_CardinalityType
  <1>3. walk.at \in 1 .. Cardinality(FeedClients) + 1
    BY <1>1, <1>2 DEF FeedBounds
  <1>4. walk \in [event : 0 .. LastEvent, at : 1 .. Cardinality(FeedClients) + 1]
    BY <1>1, <1>3
  <1>5. IsInjective(subscribers)
    BY FeedFacts DEF Listed
  <1> QED BY <1>1, <1>4, <1>5 DEF FeedTypeOK, FeedBounds, CastSets

LEMMA FeedBoundsStep == FeedInv /\ FeedBounds /\ [FeedNext]_feedVars => FeedBounds'
  <1> SUFFICES ASSUME FeedInv, FeedBounds, [FeedNext]_feedVars PROVE FeedBounds'
    OBVIOUS
  <1>1. /\ inbox \in [FeedClients -> Seq(Events)] /\ walk.at \in Nat
        /\ walk \in [event : 0 .. LastEvent, at : Nat \ {0}]
        /\ QueueMax \in Nat /\ Cardinality(FeedClients) \in Nat
        /\ Range(subscribers) \subseteq FeedClients
    BY FeedFacts, FeedAssumption, FS_CardinalityType
  <1>2. /\ \A c \in FeedClients : Len(inbox[c]) <= QueueMax /\ Len(inbox[c]) \in Nat
        /\ walk.at <= Cardinality(FeedClients) + 1
    BY <1>1 DEF FeedBounds
  <1>r. Resting.at = 1 /\ 1 <= Cardinality(FeedClients) + 1
    BY <1>1 DEF Resting
  <1>p. ASSUME NEW c \in FeedClients, ~Full(c), NEW e \in Events
        PROVE  Len(Append(inbox[c], e)) <= QueueMax
    <2>1. inbox[c] \in Seq(Events) /\ Len(inbox[c]) # QueueMax
      BY <1>1, <1>p DEF Full
    <2>2. Len(Append(inbox[c], e)) = Len(inbox[c]) + 1
      BY <2>1, AppendTo
    <2> QED BY <1>1, <1>2, <2>1, <2>2
  <1>3. CASE CastByLoop
    <2>1. /\ inbox' = Offered(published + 1) /\ walk' = walk /\ published < LastEvent
      BY <1>3 DEF CastByLoop, CastBegun
    <2>2. published + 1 \in Events
      BY <2>1, FeedFacts DEF Events
    <2>3. ASSUME NEW c \in FeedClients PROVE Len(inbox'[c]) <= QueueMax
      BY <1>2, <1>p, <2>1, <2>2 DEF Offered
    <2> QED BY <1>2, <2>1, <2>3 DEF FeedBounds
  <1>4. CASE WalkBegins
    <2>1. inbox' = inbox /\ walk' = [event |-> published + 1, at |-> 1]
      BY <1>4 DEF WalkBegins
    <2> QED BY <1>2, <1>r, <2>1 DEF FeedBounds
  <1>5. CASE WalkPuts
    <2> DEFINE c == subscribers[walk.at]
    <2>1. /\ walk.event # 0 /\ walk.at <= Len(subscribers) /\ walk' = [walk EXCEPT !.at = @ + 1]
          /\ inbox' = inbox \/ (~Full(c) /\ inbox' = [inbox EXCEPT ![c] = Append(@, walk.event)])
      BY <1>5 DEF WalkPuts
    <2>2. walk.event \in Events /\ walk.at \in 1 .. Len(subscribers)
      BY <2>1, FeedFacts
    <2>3. c \in FeedClients
      BY <2>2, FeedFacts
    <2> HIDE DEF c
    <2>4. \A d \in FeedClients : Len(inbox'[d]) <= QueueMax
      BY <1>1, <1>2, <1>p, <2>1, <2>2, <2>3
    <2>5. Len(subscribers) \in Nat /\ Len(subscribers) <= Cardinality(FeedClients)
      BY ListIsShort, FeedFacts DEF Listed
    <2>6. walk'.at = walk.at + 1
      BY <1>1, <2>1
    <2> QED BY <1>1, <2>1, <2>4, <2>5, <2>6 DEF FeedBounds
  <1>6. CASE WalkEnds
    BY <1>2, <1>6, <1>r DEF WalkEnds, FeedBounds
  <1>7. ASSUME NEW c \in FeedClients, Relays(c) PROVE FeedBounds'
    <2>1. /\ inbox[c] # <<>> /\ inbox' = [inbox EXCEPT ![c] = Tail(inbox[c])] /\ walk' = walk
          /\ inbox[c] \in Seq(Events)
      BY <1>1, <1>7 DEF Relays
    <2>2. Len(Tail(inbox[c])) = Len(inbox[c]) - 1
      BY <2>1, TailOf
    <2>3. Len(Tail(inbox[c])) <= QueueMax
      BY <1>1, <1>2, <2>2
    <2> QED BY <1>1, <1>2, <2>1, <2>3 DEF FeedBounds
  <1>8. ASSUME NEW c \in FeedClients, Leave(c) PROVE FeedBounds'
    <2> DEFINE none == <<>>
    <2>1. inbox' = [inbox EXCEPT ![c] = none] /\ walk' = walk
      BY <1>8 DEF Leave
    <2>2. Len(none) <= QueueMax
      BY <1>1
    <2> HIDE DEF none
    <2> QED BY <1>1, <1>2, <2>1, <2>2 DEF FeedBounds
  <1>9. CASE UNCHANGED <<inbox, walk>>
    BY <1>2, <1>9 DEF FeedBounds
  <1> QED BY <1>3, <1>4, <1>5, <1>6, <1>7, <1>8, <1>9 DEF FeedNext, Subscribe, feedVars

LEMMA FeedTypes == FeedSpec => []FeedTypeOK
  <1>1. FeedInit => FeedBounds
    <2> SUFFICES ASSUME FeedInit PROVE FeedBounds
      OBVIOUS
    <2>1. /\ inbox = [c \in FeedClients |-> <<>>] /\ Len(<<>>) = 0 /\ walk = Resting
      BY DEF FeedInit
    <2>2. Cardinality(FeedClients) \in Nat /\ QueueMax \in Nat
      BY FeedAssumption, FS_CardinalityType
    <2> QED BY <2>1, <2>2 DEF FeedBounds, Resting
  <1> QED BY <1>1, FeedInvInit, FeedInvStep, FeedBoundsStep, FeedTypeOfBounds, PTL DEF FeedSpec

-----------------------------------------------------------------------------
LEMMA RegistryTypes == RegistryInv => RegistryTypeOK
  <1> SUFFICES ASSUME RegistryInv PROVE RegistryTypeOK
    OBVIOUS
  <1>1. /\ registry \subseteq Sockets /\ socket \in [Sockets -> {"new", "up", "down"}]
        /\ casting \in [CastTasks -> Walks] /\ received \in [Sockets -> [CastTasks -> Nat]]
        /\ \A s \in Sockets, t \in CastTasks :
             (~Passed(s, t) => received[s][t] = 0) /\ (Passed(s, t) => received[s][t] <= 1)
    BY DEF RegistryInv
  <1>2. \A s \in Sockets, t \in CastTasks : received[s][t] \in 0 .. 2
    <2>1. \A s \in Sockets, t \in CastTasks : received[s][t] \in Nat
      BY <1>1
    <2> QED BY <1>1, <2>1
  <1>3. received \in [Sockets -> [CastTasks -> 0 .. 2]]
    BY <1>1, <1>2
  <1> QED BY <1>1, <1>3 DEF RegistryTypeOK, Walks

LEMMA PresetTypes == PresetSpec => []PresetTypeOK
  <1>1. PresetInv => PresetTypeOK
    BY DEF PresetInv
  <1> QED BY <1>1, PresetInvariant, PTL

LEMMA AdminTypes == AdminSpec => []AdminTypeOK
  <1>1. AdminInv => AdminTypeOK
    BY DEF AdminInv
  <1> QED BY <1>1, AdminInitial, AdminStep, PTL DEF AdminSpec

LEMMA RegistryIsTyped == RegistrySpec => []RegistryTypeOK
  BY RegistryTypes, RegistryInvariant, PTL

-----------------------------------------------------------------------------
(***************************************************************************)
(* Side by side (MCServices).                                              *)
(***************************************************************************)

\* The parts do not touch each other: each moves as its own specification says.
LEMMA HeardMoves == MCSpec => VoiceSpec /\ AsrSpec /\ WinSpec
  <1>1. MCInit => VoiceInit /\ AsrInit /\ WinInit
    BY DEF MCInit
  <1>2. [MCNext]_servicesVars =>
          [VoiceNext]_voiceVars /\ [AsrNext]_asrVars /\ [WinNext]_winVars
    BY DEF MCNext, HeardNext, KeepNext, ShareNext, servicesVars, heardVars
  <1> QED BY <1>1, <1>2, PTL DEF MCSpec, VoiceSpec, AsrSpec, WinSpec

\* What is stored was heard: the voice events, the texts and the decodes of FT, with
\* all the services at work.
THEOREM StoredWasHeard == MCSpec => []HeardBeforeStored
  <1>1. VoiceSound /\ AudioOnce /\ FtWindowsExact => HeardBeforeStored
    BY DEF HeardBeforeStored
  <1> QED BY HeardMoves, VoiceIsJustified, AudioIsGivenOnce, WindowsAreWhole, <1>1, PTL

LEMMA PartsMove ==
    MCSpec => StoreSpec /\ SatSpec /\ AdminSpec /\ PresetSpec /\ FeedSpec /\ RegistrySpec
  <1>1. MCInit => StoreInit /\ SatInit /\ AdminInit /\ PresetInit /\ FeedInit /\ RegistryInit
    BY DEF MCInit
  <1>2. [MCNext]_servicesVars =>
          /\ [StoreNext]_storeVars /\ [SatNext]_satVars /\ [AdminNext]_adminVars
          /\ [PresetNext]_presetVars /\ [FeedNext]_feedVars /\ [RegistryNext]_registryVars
    BY DEF MCNext, HeardNext, KeepNext, ShareNext, servicesVars, keepVars, shareVars
  <1> QED BY <1>1, <1>2, PTL DEF MCSpec, StoreSpec, SatSpec, AdminSpec, PresetSpec, FeedSpec, RegistrySpec

\* Every service keeps its shape and its bounds, with all of them at work: what waits
\* in a queue of the bus or of the I/Q pump, what a window takes, how much audio a
\* bucket holds, how many predictions run, what a row of the mirrors may be.
THEOREM ServicesKeepTypes == MCSpec => []ServicesTypeOK
  <1>1. StoreInv => StoreTypeOK
    BY DEF StoreInv
  <1>2. VoiceTypeOK /\ AsrTypeOK /\ WinTypeOK /\ StoreTypeOK /\ SatTypeOK /\ AdminTypeOK
        /\ PresetTypeOK /\ FeedTypeOK /\ RegistryTypeOK => ServicesTypeOK
    BY DEF ServicesTypeOK
  <1> QED BY HeardMoves, PartsMove, VoiceTypes, AsrTypes, WinTypes, StoreInvariant, SatelliteTypes,
             AdminTypes, PresetTypes, FeedTypes, RegistryIsTyped, <1>1, <1>2, PTL
=============================================================================
