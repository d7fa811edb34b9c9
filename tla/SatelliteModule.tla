-------------------------- MODULE SatelliteModule --------------------------
(***************************************************************************)
(* The optional satellite module: its installation (satellite/installer),  *)
(* the loop that predicts passes every hour (lifecycle, propagator), and   *)
(* the catalog with its orbital elements (catalog_manager, tle_manager).   *)
(* The flags of the installation live in the database and survive a crash; *)
(* the loop does not.  Passes are predicted in a worker thread, which no   *)
(* cancellation reaches.                                                   *)
(***************************************************************************)
EXTENDS Naturals, FiniteSets

CONSTANTS
    Sats,           \* NORAD numbers
    Snapshot,       \* those the bundled snapshots hold
    SatTasks,       \* identities of the scheduler's task
    NoSched,        \* _scheduler_task = None
    AdminOverlaps,  \* bound: may an uninstall come during an install
    MaxComputing    \* bound: predictions under way at once

ASSUME SatAssumption ==
    /\ Snapshot \subseteq Sats /\ NoSched \notin SatTasks
    /\ AdminOverlaps \in BOOLEAN /\ MaxComputing \in Nat \ {0}

VARIABLES
    kv,         \* satellite_module_state, satellite_module_installed
    tables,     \* do the satellite tables exist
    installing, \* _run_install tasks that wait for pip
    sched,      \* _scheduler_task, and where each task is
    leaving,    \* uninstall: the task it waits for, and its argument
    computing,  \* _compute_passes_for_all_sync: one record per thread
    catalog,    \* satellite_catalog
    passes,     \* satellite_passes: how often a satellite's are predicted
    fetching,   \* refreshes that wait for the network
    switchedOff \* history: satellites an operator has disabled

satVars == <<kv, tables, installing, sched, leaving, computing, catalog, passes,
             fetching, switchedOff>>

\* what is not "manual" is treated alike: snapshot, celestrak, satnogs
Sources == {"none", "feed", "manual"}
NoSat == [source |-> "none", enabled |-> FALSE, tle |-> FALSE]
Empty == [s \in Sats |-> NoSat]
NoPasses == [s \in Sats |-> 0]

SatTypeOK ==
    /\ kv \in [state : {"idle", "installing", "installed", "uninstalling", "error"},
               installed : BOOLEAN]
    /\ tables \in BOOLEAN
    /\ installing \in Nat
    /\ sched \in [task : SatTasks \cup {NoSched},
                  pc : [SatTasks -> {"gone", "sleeps", "computes", "cancelled"}]]
    /\ leaving \in [task : SatTasks \cup {NoSched}, purge : BOOLEAN]
    /\ computing \in SUBSET [by : SatTasks \cup {NoSched}, todo : SUBSET Sats,
                             deleted : BOOLEAN]
    /\ Cardinality(computing) <= MaxComputing
    /\ catalog \in [Sats -> [source : Sources, enabled : BOOLEAN, tle : BOOLEAN]]
    /\ passes \in [Sats -> Nat]
    /\ fetching \in SUBSET {"tles", "catalog"}
    /\ switchedOff \in SUBSET Sats

SatInit ==
    /\ kv = [state |-> "idle", installed |-> FALSE]
    /\ tables = FALSE /\ installing = 0
    /\ sched = [task |-> NoSched, pc |-> [t \in SatTasks |-> "gone"]]
    /\ leaving = [task |-> NoSched, purge |-> FALSE]
    /\ computing = {} /\ catalog = Empty /\ passes = NoPasses
    /\ fetching = {} /\ switchedOff = {}

Live(t) == t # NoSched /\ sched.pc[t] # "gone"

\* start_scheduler: a task that is not done counts as running
SchedStarted(s) ==
    IF s.task # NoSched /\ s.pc[s.task] # "gone" THEN sched' = s
    ELSE \E t \in SatTasks \ {leaving.task} :
            s.pc[t] = "gone" /\ sched' = [task |-> t, pc |-> [s.pc EXCEPT ![t] = "sleeps"]]

-----------------------------------------------------------------------------
(***************************************************************************)
(* The catalog.                                                            *)
(***************************************************************************)
There(s) == catalog[s].source # "none"

\* mutant: what the source lists is enabled
MutMerged(cat, found, source, tle) ==
    [s \in Sats |-> IF s \notin found THEN cat[s]
                    ELSE [source |-> source, enabled |-> TRUE, tle |-> cat[s].tle \/ tle]]

\* _upsert_tles, _upsert_catalog: a row that exists keeps its enabled flag
Merged(cat, found, source, tle) ==
    [s \in Sats |->
        IF s \notin found THEN cat[s]
        ELSE [source |-> source, tle |-> cat[s].tle \/ tle,
              enabled |-> cat[s].source = "none" \/ cat[s].enabled]]

\* _soft_disable_missing: the last writer counts, whoever imported the row
Disabled(cat, alive) ==
    IF alive = {} THEN cat
    ELSE [s \in Sats |-> IF s \notin alive /\ cat[s].source # "manual"
                         THEN [cat[s] EXCEPT !.enabled = FALSE] ELSE cat[s]]

CatalogOnly == UNCHANGED <<kv, tables, installing, sched, leaving, passes>>

\* _require_installed
Asked == kv.installed /\ tables

\* the request waits for the network with nothing locked
RefreshAsked ==
    /\ Asked /\ \E k \in {"tles", "catalog"} \ fetching : fetching' = fetching \cup {k}
    /\ CatalogOnly /\ UNCHANGED <<computing, catalog, switchedOff>>

RefreshFails ==
    /\ \E k \in fetching : fetching' = fetching \ {k}
    /\ CatalogOnly /\ UNCHANGED <<computing, catalog, switchedOff>>

\* a prediction by a scheduler's task, or by nobody in particular
Begun(by) == [by |-> by, todo |-> {s \in Sats : catalog[s].enabled /\ catalog[s].tle},
              deleted |-> FALSE]

\* refresh_tles, then the prediction satellite.py starts in the background
TlesArrive ==
    /\ "tles" \in fetching /\ fetching' = fetching \ {"tles"} /\ tables
    /\ \E found \in SUBSET Sats : catalog' = Merged(catalog, found, "feed", TRUE)
    /\ Cardinality(computing) < MaxComputing
    /\ computing' = computing \cup {[Begun(NoSched) EXCEPT !.todo =
                        {s \in Sats : catalog'[s].enabled /\ catalog'[s].tle}]}
    /\ CatalogOnly /\ UNCHANGED switchedOff

\* refresh_catalog
CatalogArrives ==
    /\ "catalog" \in fetching /\ fetching' = fetching \ {"catalog"} /\ tables
    /\ \E alive \in SUBSET Sats :
        catalog' = Disabled(Merged(catalog, alive, "feed", FALSE), alive)
    /\ CatalogOnly /\ UNCHANGED <<computing, switchedOff>>

\* import_tles_from_bytes, import_catalog_from_bytes
Imported ==
    /\ Asked
    /\ \E found \in SUBSET Sats \ {{}}, tle \in BOOLEAN :
        catalog' = Merged(catalog, found, "manual", tle)
    /\ CatalogOnly /\ UNCHANGED <<computing, fetching, switchedOff>>

\* set_satellite_enabled
EnabledSet ==
    /\ Asked
    /\ \E s \in Sats, on \in BOOLEAN :
        /\ There(s)
        /\ catalog' = [catalog EXCEPT ![s].enabled = on]
        /\ switchedOff' = IF on THEN switchedOff \ {s} ELSE switchedOff \cup {s}
    /\ CatalogOnly /\ UNCHANGED <<computing, fetching>>

\* delete_satellite: its passes stay
SatDeleted ==
    /\ Asked
    /\ \E s \in Sats : /\ There(s)
                       /\ catalog' = [catalog EXCEPT ![s] = NoSat]
                       /\ switchedOff' = switchedOff \ {s}
    /\ CatalogOnly /\ UNCHANGED <<computing, fetching>>

-----------------------------------------------------------------------------
(***************************************************************************)
(* _compute_passes_for_all_sync, in its thread.                            *)
(***************************************************************************)
\* _scheduler_loop wakes
CycleStarts ==
    /\ Cardinality(computing) < MaxComputing
    /\ \E t \in SatTasks :
        /\ sched.pc[t] = "sleeps"
        /\ sched' = [sched EXCEPT !.pc[t] = "computes"]
        /\ computing' = computing \cup {Begun(t)}
    /\ UNCHANGED <<kv, tables, installing, leaving, catalog, passes, fetching, switchedOff>>

\* recompute_passes
RecomputeAsked ==
    /\ Asked /\ Cardinality(computing) < MaxComputing
    /\ computing' = computing \cup {Begun(NoSched)}
    /\ CatalogOnly /\ UNCHANGED <<catalog, fetching, switchedOff>>

\* the predicted passes are deleted, if there is a table
Cleared(there) == IF there THEN NoPasses ELSE passes

PassesDeleted ==
    /\ \E c \in computing :
        /\ ~c.deleted
        /\ computing' = (computing \ {c}) \cup
              {[c EXCEPT !.deleted = TRUE, !.todo = IF tables THEN @ ELSE {}]}
    /\ passes' = Cleared(tables)
    /\ UNCHANGED <<kv, tables, installing, sched, leaving, catalog, fetching, switchedOff>>

\* _save_passes for one satellite; its error is logged
PassesSaved ==
    /\ \E c \in computing : \E s \in c.todo :
        /\ c.deleted
        /\ computing' = (computing \ {c}) \cup {[c EXCEPT !.todo = @ \ {s}]}
        /\ passes' \in {passes} \cup
              (IF tables THEN {[passes EXCEPT ![s] = @ + 1]} ELSE {})
    /\ UNCHANGED <<kv, tables, installing, sched, leaving, catalog, fetching, switchedOff>>

\* the thread ends; its task goes back to sleep unless it was cancelled
ComputeEnds ==
    /\ \E c \in computing :
        /\ c.deleted /\ c.todo = {}
        /\ computing' = computing \ {c}
        /\ sched' = IF c.by # NoSched /\ sched.pc[c.by] = "computes"
                    THEN [sched EXCEPT !.pc[c.by] = "sleeps"] ELSE sched
    /\ UNCHANGED <<kv, tables, installing, leaving, catalog, passes, fetching, switchedOff>>

-----------------------------------------------------------------------------
(***************************************************************************)
(* install and uninstall.                                                  *)
(***************************************************************************)
\* refused while one is under way, or when there is nothing to do
Install ==
    /\ kv.state \notin {"installing", "installed"} /\ ~kv.installed
    /\ AdminOverlaps \/ (leaving.task = NoSched /\ installing = 0)
    /\ kv' = [kv EXCEPT !.state = "installing"]
    /\ installing' = installing + 1
    /\ UNCHANGED <<tables, sched, leaving, computing, catalog, passes, fetching, switchedOff>>

\* pip is done: from here to the end _run_install does not wait
InstallEnds ==
    /\ installing > 0 /\ installing' = installing - 1
    /\ tables' = TRUE
    /\ catalog' = Merged(Merged(catalog, Snapshot, "feed", TRUE),
                         Snapshot, "feed", FALSE)
    /\ kv' = [state |-> "installed", installed |-> TRUE]
    /\ SchedStarted(sched)
    /\ UNCHANGED <<leaving, computing, passes, fetching, switchedOff>>

InstallFails ==
    /\ installing > 0 /\ installing' = installing - 1
    /\ kv' = [kv EXCEPT !.state = "error"]
    /\ UNCHANGED <<tables, sched, leaving, computing, catalog, passes, fetching, switchedOff>>

\* what follows stop_scheduler in uninstall
Left(purge) ==
    /\ kv' = [state |-> "idle", installed |-> FALSE]
    /\ tables' = IF purge THEN FALSE ELSE tables
    /\ catalog' = IF purge THEN Empty ELSE catalog
    /\ passes' = IF purge THEN NoPasses ELSE passes
    /\ switchedOff' = IF purge THEN {} ELSE switchedOff

\* mutant: uninstall does not wait for the loop
MutUninstall(purge) ==
    /\ leaving.task = NoSched /\ (AdminOverlaps \/ installing = 0)
    /\ Left(purge)
    /\ sched' = [sched EXCEPT !.task = NoSched]
    /\ UNCHANGED <<installing, leaving, computing, fetching>>

\* stop_scheduler returns at once when nothing runs, else it cancels and waits
Uninstall(purge) ==
    /\ leaving.task = NoSched /\ (AdminOverlaps \/ installing = 0)
    /\ \/ /\ ~Live(sched.task)
          /\ Left(purge)
          /\ UNCHANGED <<leaving, sched>>
       \/ /\ Live(sched.task)
          /\ sched' = [sched EXCEPT !.pc[sched.task] = "cancelled"]
          /\ leaving' = [task |-> sched.task, purge |-> purge]
          /\ kv' = [kv EXCEPT !.state = "uninstalling"]
          /\ UNCHANGED <<tables, catalog, passes, switchedOff>>
    /\ UNCHANGED <<installing, computing, fetching>>

\* the cancellation reaches the loop, whatever its thread does
LoopEnds ==
    /\ \E t \in SatTasks : /\ sched.pc[t] = "cancelled"
                           /\ sched' = [sched EXCEPT !.pc[t] = "gone"]
                           /\ computing' = {[c EXCEPT !.by = IF @ = t THEN NoSched ELSE @]
                                             : c \in computing}
    /\ UNCHANGED <<kv, tables, installing, leaving, catalog, passes, fetching, switchedOff>>

UninstallEnds ==
    /\ leaving.task # NoSched /\ ~Live(leaving.task)
    /\ Left(leaving.purge)
    /\ sched' = [sched EXCEPT !.task = NoSched]
    /\ leaving' = [task |-> NoSched, purge |-> FALSE]
    /\ UNCHANGED <<installing, computing, fetching>>

\* the process ends and starts again: the scheduler of an installed module is
\* started, an installation that was under way is not taken up
Restart ==
    /\ installing' = 0 /\ leaving' = [task |-> NoSched, purge |-> FALSE]
    /\ computing' = {} /\ fetching' = {}
    /\ LET none == [task |-> NoSched, pc |-> [t \in SatTasks |-> "gone"]] IN
       IF kv.installed THEN SchedStarted(none) ELSE sched' = none
    /\ UNCHANGED <<kv, tables, catalog, passes, switchedOff>>

SatNext ==
    \/ RefreshAsked \/ RefreshFails \/ TlesArrive \/ CatalogArrives \/ Imported
    \/ EnabledSet \/ SatDeleted
    \/ CycleStarts \/ RecomputeAsked \/ PassesDeleted \/ PassesSaved \/ ComputeEnds
    \/ Install \/ InstallEnds \/ InstallFails
    \/ \E purge \in BOOLEAN : Uninstall(purge)
    \/ LoopEnds \/ UninstallEnds \/ Restart

SatSpec == SatInit /\ [][SatNext]_satVars

-----------------------------------------------------------------------------
\* Unless an uninstall is under way, the loop runs exactly when the module is
\* installed, only the loop the module knows of runs, and it has its tables:
\* across restarts, failed installs, and threads that outlive their loop.
SchedulerMatches ==
    leaving.task = NoSched =>
        /\ kv.installed <=> Live(sched.task)
        /\ \A t \in SatTasks : Live(t) => t = sched.task
        /\ kv.installed => tables

\* No refresh, import or reinstallation turns on a satellite an operator has
\* switched off, and one prediction after the other leaves each pass stored
\* once, a prediction cut short by a restart or an uninstall included.
CatalogKept ==
    /\ \A s \in switchedOff : ~catalog[s].enabled
    /\ \A s \in Sats : passes[s] <= 1

\* Installs, uninstalls, refreshes, predictions and restarts keep the three
\* stores the module spreads its state over (flags, tasks, rows) in step.
SatelliteHolds == SchedulerMatches /\ CatalogKept
=============================================================================
