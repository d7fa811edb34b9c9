--------------------------- MODULE PresetWindows ---------------------------
(***************************************************************************)
(* The rotation presets and their windows: the tables rotation_presets and *)
(* preset_schedules (backend/app/storage/db.py), their handlers in         *)
(* api/scan.py, and the choice PresetScheduler._tick makes among the       *)
(* windows.  The handlers are plain functions: each runs in a thread of    *)
(* its own, and only a call of the store is atomic.  What the scheduler    *)
(* does with the preset it has chosen is RotationSchedule.                 *)
(***************************************************************************)
EXTENDS Naturals, FiniteSets

CONSTANTS
    Day,           \* minutes of a day; the code: 1440
    AskedWindows,  \* the windows the requests ask for
    PresetCallers, \* create_preset_schedule requests under way at once
    LastPreset,    \* bounds: ids given to presets
    LastSchedule   \*         and to schedules

ASSUME PresetAssumption ==
    /\ Day \in Nat \ {0}
    /\ LastPreset \in Nat /\ LastSchedule \in Nat

VARIABLES
    saved,      \* rotation_presets: the ids in the table
    schedules,  \* preset_schedules: a row per id
    given,      \* the last id of each table (AUTOINCREMENT)
    create,     \* where each create_preset_schedule is
    tick        \* what PresetScheduler does: the preset it is about to load

presetVars == <<saved, schedules, given, create, tick>>

\* "start_hhmm and end_hhmm must be HH:MM", "start and end cannot be the same"
Windows == {w \in [start : 0 .. Day - 1, end : 0 .. Day - 1] : w.start # w.end}

ASSUME WindowsAssumption == AskedWindows \subseteq Windows

NoPreset == 0
Asking(at, preset, window, seen, lost) ==
    [at |-> at, preset |-> preset, window |-> window, seen |-> seen, lost |-> lost]
NoRequest == Asking("idle", NoPreset, [start |-> 0, end |-> 0], 0, FALSE)

\* seen, lost, switched: history.  seen: the last id when the create that saved
\* the row read the schedules; lost: its preset was deleted while it was under
\* way; switched: a PATCH has enabled the row since
ScheduleRow == [preset : 1 .. LastPreset, window : AskedWindows, enabled : BOOLEAN,
        seen : 0 .. LastSchedule, lost : BOOLEAN, switched : BOOLEAN]

Request == [at : {"windows", "save"}, preset : 1 .. LastPreset,
            window : AskedWindows, seen : 0 .. LastSchedule, lost : BOOLEAN]

PresetTypeOK ==
    /\ saved \subseteq 1 .. LastPreset
    /\ given \in [preset : 0 .. LastPreset, schedule : 0 .. LastSchedule]
    /\ DOMAIN schedules \subseteq 1 .. LastSchedule
    /\ \A i \in DOMAIN schedules : schedules[i] \in ScheduleRow
    /\ create \in [PresetCallers -> {NoRequest} \cup Request]
    /\ tick \in 0 .. LastPreset

PresetInit ==
    /\ saved = {} /\ schedules = [i \in {} |-> {}]
    /\ given = [preset |-> 0, schedule |-> 0]
    /\ create = [c \in PresetCallers |-> NoRequest]
    /\ tick = NoPreset

-----------------------------------------------------------------------------
(***************************************************************************)
(* Windows on the circular clock.                                          *)
(***************************************************************************)
\* _time_in_window
Open(now, w) ==
    IF w.start <= w.end THEN w.start <= now /\ now < w.end
                        ELSE now >= w.start \/ now < w.end

\* _ranges: a window across midnight is two ranges
Ranges(w) ==
    IF w.start < w.end THEN {[from |-> w.start, to |-> w.end]}
    ELSE {[from |-> w.start, to |-> Day], [from |-> 0, to |-> w.end]}

\* mutant: the ranges of a window that crosses midnight start at its start only
MutOverlap(v, w) ==
    /\ v.start < (IF w.start < w.end THEN w.end ELSE Day)
    /\ w.start < (IF v.start < v.end THEN v.end ELSE Day)

\* _windows_overlap
Overlap(v, w) ==
    \E a \in Ranges(v), b \in Ranges(w) : a.from < b.to /\ b.from < a.to

-----------------------------------------------------------------------------
(***************************************************************************)
(* The handlers of the presets.                                            *)
(***************************************************************************)
SavePreset ==
    /\ given.preset < LastPreset
    /\ given' = [given EXCEPT !.preset = @ + 1]
    /\ saved' = saved \cup {given'.preset}
    /\ UNCHANGED <<schedules, create, tick>>

Without(ids) == [i \in DOMAIN schedules \ ids |-> schedules[i]]

\* history: the requests under way lose the preset they have found
Loses(p) ==
    create' = [c \in PresetCallers |->
                 IF create[c].preset = p THEN [create[c] EXCEPT !.lost = TRUE]
                                         ELSE create[c]]

\* mutant: the cascade is left to the database, which does not enforce it
MutDeletePreset(p) ==
    /\ p \in saved
    /\ saved' = saved \ {p}
    /\ Loses(p)
    /\ UNCHANGED <<schedules, given, tick>>

\* delete_rotation_preset: both tables in one transaction; of an id that is
\* not there it deletes nothing but the schedules left behind, and answers 404
DeletePreset(p) ==
    /\ saved' = saved \ {p}
    /\ schedules' = Without({i \in DOMAIN schedules : schedules[i].preset = p})
    /\ Loses(p)
    /\ UNCHANGED <<given, tick>>

-----------------------------------------------------------------------------
(***************************************************************************)
(* The handlers of the schedules.                                          *)
(***************************************************************************)
\* 400 for a malformed body and 404 for an unknown preset change nothing
CreateSchedule(c) ==
    /\ create[c] = NoRequest
    /\ \E p \in saved, w \in AskedWindows :
          create' = [create EXCEPT ![c] = Asking("windows", p, w, 0, FALSE)]
    /\ UNCHANGED <<saved, schedules, given, tick>>

Enabled == {i \in DOMAIN schedules : schedules[i].enabled}

\* 409 for a window that overlaps an enabled one
CheckWindows(c) ==
    /\ create[c].at = "windows"
    /\ create' =
         [create EXCEPT ![c] =
            IF \E i \in Enabled : Overlap(create[c].window, schedules[i].window)
            THEN NoRequest
            ELSE Asking("save", @.preset, @.window, given.schedule, @.lost)]
    /\ UNCHANGED <<saved, schedules, given, tick>>

\* nothing is read again: the foreign key of the table is not enforced
SaveSchedule(c) ==
    LET id  == given.schedule + 1
        row == [preset |-> create[c].preset, window |-> create[c].window,
                enabled |-> TRUE, seen |-> create[c].seen, lost |-> create[c].lost,
                switched |-> FALSE]
    IN
    /\ create[c].at = "save" /\ given.schedule < LastSchedule
    /\ given' = [given EXCEPT !.schedule = id]
    /\ schedules' = [i \in DOMAIN schedules \cup {id} |->
                       IF i = id THEN row ELSE schedules[i]]
    /\ create' = [create EXCEPT ![c] = NoRequest]
    /\ UNCHANGED <<saved, tick>>

\* the other windows are not asked
ToggleSchedule(i, on) ==
    /\ i \in DOMAIN schedules
    /\ schedules' = [schedules EXCEPT ![i].enabled = on,
                                      ![i].switched = @ \/ on]
    /\ UNCHANGED <<saved, given, create, tick>>

DeleteSchedule(i) ==
    /\ i \in DOMAIN schedules
    /\ schedules' = Without({i})
    /\ UNCHANGED <<saved, given, create, tick>>

-----------------------------------------------------------------------------
(***************************************************************************)
(* PresetScheduler._tick: the choice.                                      *)
(***************************************************************************)
\* "first matching window wins", in the order of start_hhmm
Matching(now) == {i \in Enabled : Open(now, schedules[i].window)}
First(ids) ==
    {i \in ids : \A j \in ids : schedules[i].window.start <= schedules[j].window.start}

TickChooses ==
    /\ tick = NoPreset
    /\ \E now \in 0 .. Day - 1 : \E i \in First(Matching(now)) :
          tick' = schedules[i].preset
    /\ UNCHANGED <<saved, schedules, given, create>>

\* _apply_preset_by_id loads the presets again: the one chosen may be gone
TickApplies ==
    /\ tick # NoPreset
    /\ tick' = NoPreset
    /\ UNCHANGED <<saved, schedules, given, create>>

PresetNext ==
    \/ SavePreset \/ TickChooses \/ TickApplies
    \/ \E p \in 1 .. LastPreset : DeletePreset(p)
    \/ \E c \in PresetCallers : CreateSchedule(c) \/ CheckWindows(c) \/ SaveSchedule(c)
    \/ \E i \in 1 .. LastSchedule :
         DeleteSchedule(i) \/ \E on \in BOOLEAN : ToggleSchedule(i, on)

PresetSpec == PresetInit /\ [][PresetNext]_presetVars

-----------------------------------------------------------------------------
SharedMinute(v, w) == \E now \in 0 .. Day - 1 : Open(now, v) /\ Open(now, w)

\* "Overlapping windows are rejected" (docs/user_manual_en.md): two windows are
\* open in one minute only if the older has been switched on by hand, or was
\* saved after the request for the newer had read the windows.
OverlapExplained ==
    \A i, j \in Enabled :
        i < j /\ SharedMinute(schedules[i].window, schedules[j].window)
          => schedules[i].switched \/ schedules[j].seen < i

\* "CASCADE: remove schedules referencing this preset" (delete_rotation_preset):
\* a schedule names a preset that is there, unless the preset was deleted while
\* the schedule was being created.
ScheduleNamed ==
    \A i \in DOMAIN schedules : schedules[i].preset \in saved \/ schedules[i].lost

\* What the scheduler reads every 30 s names one preset that is there, but for a
\* PATCH that switches a window on unchecked and for requests that race.
SchedulesSound == OverlapExplained /\ ScheduleNamed
=============================================================================
