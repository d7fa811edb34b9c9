-------------------------- MODULE PacketDecoders --------------------------
(***************************************************************************)
(* The decoders api/decoders.py runs as bare asyncio tasks: the KISS       *)
(* client of Direwolf with its rtl_fm pipeline, the APRS-IS feed, the      *)
(* LoRa-APRS listener and the SSB detector.  Requests of api/scan.py and   *)
(* api/settings.py stop and start them in sequences of words; an action is *)
(* what runs between two awaits.  Every start is forced, as in all these   *)
(* requests.                                                               *)
(***************************************************************************)
EXTENDS Naturals, Sequences, FiniteSets

CONSTANTS
    PktCallers,     \* requests and background tasks under way at a time
    PktTasks,       \* identities of asyncio tasks, per decoder
    PktEnvs,        \* whether requests overlap, the decoders in use, the faults:
                    \* "net", connections fail; "spawn", a process does not
                    \* start; "slow", closing a connection may outlast a stop
    NoLoop          \* None

Feeds == {"kiss", "is", "lora", "ssb"}
Pipeline == {"rtl_fm", "direwolf"}

ASSUME PktAssumption ==
    /\ NoLoop \notin PktTasks
    /\ PktEnvs \subseteq [overlap : BOOLEAN, uses : SUBSET Feeds,
                           faults : SUBSET {"net", "spawn", "slow"}]

VARIABLES
    feedTask,   \* state.kiss_task, aprs_is_task, lora_aprs_task, _ssb_detector_task
    feedLoop,   \* where each task is
    feedStop,   \* state.kiss_stop, aprs_is_stop, lora_aprs_stop
    feedStatus, \* connected and enabled of state.decoder_status
    pipe,       \* state.rtl_fm_process and direwolf_process, and what runs
    feedPc,     \* what each request has still to do, and where it waits
    feedEnv     \* chosen once

pktVars == <<feedTask, feedLoop, feedStop, feedStatus, pipe, feedPc, feedEnv>>

LoopStates == {"gone", "new", "connecting", "reading", "closing", "sleeping",
               "cancelled", "leaving"}
Resting == [todo |-> <<>>, at |-> "idle", task |-> NoLoop, stale |-> FALSE]

PktTypeOK ==
    /\ feedTask \in [Feeds -> PktTasks \cup {NoLoop}]
    /\ feedLoop \in [Feeds -> [PktTasks -> LoopStates]]
    /\ feedStop \in [Feeds -> BOOLEAN]
    /\ feedStatus \in [Feeds -> [connected : BOOLEAN, enabled : BOOLEAN]]
    /\ pipe \in [handle : SUBSET Pipeline, runs : SUBSET Pipeline]
    /\ \A c \in PktCallers :
        /\ feedPc[c].todo \in Seq({"start", "stop"} \X Feeds)
        /\ feedPc[c].at \in {"idle", "next", "launch", "check", "join",
                             "rtl_fm", "direwolf"}
        /\ feedPc[c].task \in PktTasks \cup {NoLoop}
        /\ feedPc[c].stale \in BOOLEAN
    /\ feedEnv \in PktEnvs

\* nothing is enabled in the environment, so the lifespan starts nothing
PktInit ==
    /\ feedTask = [d \in Feeds |-> NoLoop]
    /\ feedLoop = [d \in Feeds |-> [t \in PktTasks |-> "gone"]]
    /\ feedStop = [d \in Feeds |-> FALSE]
    /\ feedStatus = [d \in Feeds |-> [connected |-> FALSE, enabled |-> FALSE]]
    /\ pipe = [handle |-> {}, runs |-> {}]
    /\ feedPc = [c \in PktCallers |-> Resting]
    /\ feedEnv \in PktEnvs

-----------------------------------------------------------------------------
(***************************************************************************)
(* The loops: kiss_loop, aprs_is_loop, lora_aprs_loop and                  *)
(* _run_ssb_detector_loop.                                                 *)
(***************************************************************************)
At(d, t, where) == feedLoop[d][t] = where
Goes(d, t, where) == feedLoop' = [feedLoop EXCEPT ![d][t] = where]

\* the status callbacks: "connected" against "disconnected" and "error"
Shows(d, on) == feedStatus' = [feedStatus EXCEPT ![d].connected = on]

LoopOnly == UNCHANGED <<feedTask, feedStop, pipe, feedPc, feedEnv>>
Silent == UNCHANGED feedStatus

\* while not stop_event.is_set(); the SSB loop has no event and no connection
LoopTop(d, t) ==
    /\ feedLoop[d][t] \in {"new", "sleeping"}
    /\ Goes(d, t, IF d = "ssb" THEN "reading"
                  ELSE IF feedStop[d] THEN "gone" ELSE "connecting")
    /\ Silent /\ LoopOnly

Connects(d, t) ==
    /\ At(d, t, "connecting")
    /\ Goes(d, t, IF feedStop[d] THEN "closing" ELSE "reading")
    /\ Shows(d, TRUE)
    /\ LoopOnly

ConnectFails(d, t) ==
    /\ "net" \in feedEnv.faults /\ At(d, t, "connecting")
    /\ Goes(d, t, "sleeping")
    /\ Shows(d, FALSE)
    /\ LoopOnly

\* APRS-IS: no "logresp" in the answer; the finally clause closes
LoginRefused(t) ==
    /\ "net" \in feedEnv.faults /\ At("is", t, "connecting")
    /\ Goes("is", t, "closing")
    /\ Shows("is", FALSE)
    /\ LoopOnly

\* after a packet or a poll, the event that a stop has set is seen
SeesStop(d, t) ==
    /\ d # "ssb" /\ At(d, t, "reading") /\ feedStop[d]
    /\ Goes(d, t, "closing")
    /\ Silent /\ LoopOnly

\* the peer closes: the LoRa listener has none
PeerCloses(d, t) ==
    /\ "net" \in feedEnv.faults /\ d \in {"kiss", "is"} /\ At(d, t, "reading")
    /\ Goes(d, t, "closing")
    /\ Silent /\ LoopOnly

\* mutant: an error is not shown
MutReadFails(d, t) ==
    /\ "net" \in feedEnv.faults /\ d # "ssb" /\ At(d, t, "reading")
    /\ Goes(d, t, IF d = "is" THEN "closing" ELSE "sleeping")
    /\ Silent /\ LoopOnly

\* an error is shown; only APRS-IS closes its connection after one
ReadFails(d, t) ==
    /\ "net" \in feedEnv.faults /\ d # "ssb" /\ At(d, t, "reading")
    /\ Goes(d, t, IF d = "is" THEN "closing" ELSE "sleeping")
    /\ Shows(d, FALSE)
    /\ LoopOnly

\* mutant: a loop that has lost its connection returns
MutCloses(d, t) ==
    /\ At(d, t, "closing")
    /\ Goes(d, t, "gone")
    /\ Shows(d, FALSE)
    /\ LoopOnly

Closes(d, t) ==
    /\ At(d, t, "closing")
    /\ Goes(d, t, IF feedStop[d] THEN "gone" ELSE "sleeping")
    /\ Shows(d, FALSE)
    /\ LoopOnly

\* a cancelled loop: KISS and SSB end without a word
Ends(d, t) ==
    /\ At(d, t, "cancelled")
    /\ Goes(d, t, "gone")
    /\ Silent /\ LoopOnly

\* APRS-IS and LoRa close first and say "disconnected", however late
Leaves(d, t) ==
    /\ At(d, t, "leaving")
    /\ Goes(d, t, "gone")
    /\ Shows(d, FALSE)
    /\ LoopOnly

\* where a cancellation takes a loop: APRS-IS catches it up to its finally
\* clause, and a second one cuts that clause short; LoRa catches it there
CancelledAt(d, where) ==
    CASE where = "gone" -> {"gone"}
      [] d = "is" /\ where \in {"connecting", "reading"} -> {"leaving"}
      [] d = "is" /\ where = "leaving" -> {"leaving", "cancelled"}
      [] d = "lora" /\ where \in {"reading", "closing", "leaving"} -> {"leaving"}
      [] OTHER -> {"cancelled"}

LoopSteps(d, t) == LoopTop(d, t) \/ SeesStop(d, t) \/ Closes(d, t) \/ Ends(d, t)
                   \/ Leaves(d, t)
LoopFails(d, t) == ConnectFails(d, t) \/ PeerCloses(d, t) \/ ReadFails(d, t)

-----------------------------------------------------------------------------
(***************************************************************************)
(* Words: the starts and stops a request performs, in order.               *)
(***************************************************************************)
\* mutant: a start does not look at the task there is
MutFeedAlive(d) == FALSE

FeedAlive(d) == feedTask[d] # NoLoop /\ feedLoop[d][feedTask[d]] # "gone"

Says(c, verb, d) == feedPc[c].at = "next" /\ Head(feedPc[c].todo) = <<verb, d>>

\* the word is over
WordDone(c) ==
    feedPc' = [feedPc EXCEPT ![c] =
                 IF Len(feedPc[c].todo) = 1 THEN Resting
                 ELSE [Resting EXCEPT !.todo = Tail(feedPc[c].todo), !.at = "next"]]

WaitsAt(c, where, t) ==
    feedPc' = [feedPc EXCEPT ![c].at = where, ![c].task = t, ![c].stale = FALSE]

\* an identity for a new task: the first that is free
FreeLoops(d) == {t \in PktTasks : /\ feedLoop[d][t] = "gone" /\ feedTask[d] # t
                                  /\ \A c \in PktCallers : feedPc[c].task # t}

\* the event is cleared and the task created, whatever is there by now
TaskCreated(d) ==
    \E t \in FreeLoops(d) :
        /\ t = CHOOSE s \in FreeLoops(d) : TRUE
        /\ feedStop' = [feedStop EXCEPT ![d] = FALSE]
        /\ feedTask' = [feedTask EXCEPT ![d] = t]
        /\ Goes(d, t, "new")
        /\ feedStatus' = [feedStatus EXCEPT ![d].enabled = TRUE]

Unmoved == UNCHANGED <<feedTask, feedLoop, feedStop, feedStatus>>

AlreadyRunning(c, d) ==
    /\ Says(c, "start", d) /\ FeedAlive(d)
    /\ WordDone(c)
    /\ Unmoved /\ UNCHANGED <<pipe, feedEnv>>

\* _start_lora_aprs_loop and _start_ssb_detector have no await
StartAtOnce(c, d) ==
    /\ d \in {"lora", "ssb"} /\ Says(c, "start", d) /\ ~FeedAlive(d)
    /\ TaskCreated(d)
    /\ WordDone(c)
    /\ UNCHANGED <<pipe, feedEnv>>

\* _start_kiss_loop: both processes, two seconds for the port to open, the
\* task.  If one does not start, rtl_fm is killed and the task starts anyway.
KissLaunches(c) ==
    /\ Says(c, "start", "kiss") /\ ~FeedAlive("kiss")
    /\ "direwolf" \notin pipe.handle
    /\ pipe' = [handle |-> Pipeline, runs |-> Pipeline]
    /\ feedPc' = [d \in PktCallers |->
                    IF d = c THEN [feedPc[c] EXCEPT !.at = "launch"]
                    ELSE IF feedPc[d].at \in Pipeline
                         THEN [feedPc[d] EXCEPT !.stale = TRUE] ELSE feedPc[d]]
    /\ Unmoved /\ UNCHANGED feedEnv

\* a handle is enough: whether its process still runs is not asked
KissStarts(c) ==
    /\ Says(c, "start", "kiss") /\ ~FeedAlive("kiss")
    /\ "direwolf" \in pipe.handle \/ "spawn" \in feedEnv.faults
    /\ pipe' = IF "direwolf" \in pipe.handle THEN pipe
               ELSE [pipe EXCEPT !.handle = @ \ {"rtl_fm"}]
    /\ TaskCreated("kiss")
    /\ WordDone(c)
    /\ UNCHANGED feedEnv

KissLaunched(c) ==
    /\ feedPc[c].at = "launch"
    /\ TaskCreated("kiss")
    /\ WordDone(c)
    /\ UNCHANGED <<pipe, feedEnv>>

\* rtl_fm loses the dongle, direwolf its input
ProcessDies ==
    /\ "spawn" \in feedEnv.faults
    /\ \E p \in pipe.runs : pipe' = [pipe EXCEPT !.runs = @ \ {p}]
    /\ Unmoved /\ UNCHANGED <<feedPc, feedEnv>>

\* _start_aprs_is_loop: the connectivity check runs in a thread
AprsIsChecks(c) ==
    /\ Says(c, "start", "is") /\ ~FeedAlive("is")
    /\ WaitsAt(c, "check", NoLoop)
    /\ Unmoved /\ UNCHANGED <<pipe, feedEnv>>

\* no internet, no station configured, or a task
AprsIsChecked(c) ==
    /\ feedPc[c].at = "check"
    /\ \/ "net" \in feedEnv.faults /\ Unmoved
       \/ TaskCreated("is")
    /\ WordDone(c)
    /\ UNCHANGED <<pipe, feedEnv>>

\* a stop without a task does nothing, whatever processes there are
NotRunning(c, d) ==
    /\ Says(c, "stop", d) /\ feedTask[d] = NoLoop
    /\ WordDone(c)
    /\ Unmoved /\ UNCHANGED <<pipe, feedEnv>>

StopAsked(c, d) ==
    /\ Says(c, "stop", d) /\ feedTask[d] # NoLoop
    /\ feedStop' = [feedStop EXCEPT ![d] = d # "ssb"]
    /\ \E where \in CancelledAt(d, feedLoop[d][feedTask[d]]) :
        Goes(d, feedTask[d], where)
    /\ WaitsAt(c, "join", feedTask[d])
    /\ UNCHANGED <<feedTask, feedStatus, pipe, feedEnv>>

\* the processes a stop has still to reap, rtl_fm before direwolf
ReapsNext(c, left) ==
    IF left = {} THEN WordDone(c)
    ELSE WaitsAt(c, IF "rtl_fm" \in left THEN "rtl_fm" ELSE "direwolf", NoLoop)

\* the task is over, or the stop gives up on it after three seconds; the
\* reference and the status are cleared, to whatever task they belong by now
StopJoined(c, d) ==
    /\ feedPc[c].at = "join" /\ Head(feedPc[c].todo) = <<"stop", d>>
    /\ \/ At(d, feedPc[c].task, "gone")
       \/ "slow" \in feedEnv.faults /\ d = "is" /\ At(d, feedPc[c].task, "leaving")
    /\ feedTask' = [feedTask EXCEPT ![d] = NoLoop]
    /\ feedStatus' = [feedStatus EXCEPT ![d] =
                        [connected |-> FALSE, enabled |-> d = "kiss" /\ @.enabled]]
    /\ ReapsNext(c, IF d = "kiss" THEN pipe.handle ELSE {})
    /\ UNCHANGED <<feedLoop, feedStop, pipe, feedEnv>>

\* terminate, wait, kill; then the reference goes, also to a newer process
Reap(c) ==
    [handle |-> pipe.handle \ {feedPc[c].at},
     runs |-> IF feedPc[c].stale THEN pipe.runs ELSE pipe.runs \ {feedPc[c].at}]

\* _stop_kiss_loop goes on to direwolf after rtl_fm
Reaped(c) ==
    /\ feedPc[c].at \in Pipeline
    /\ pipe' = Reap(c)
    /\ IF feedPc[c].at = "rtl_fm"
       THEN ReapsNext(c, pipe.handle \cap {"direwolf"}) ELSE WordDone(c)
    /\ Unmoved /\ UNCHANGED feedEnv

FeedGoesOn(c) ==
    \/ \E d \in Feeds : \/ AlreadyRunning(c, d) \/ StartAtOnce(c, d)
                        \/ NotRunning(c, d) \/ StopAsked(c, d) \/ StopJoined(c, d)
    \/ KissLaunches(c) \/ KissStarts(c) \/ KissLaunched(c)
    \/ AprsIsChecks(c) \/ AprsIsChecked(c) \/ Reaped(c)

-----------------------------------------------------------------------------
(***************************************************************************)
(* Requests.                                                               *)
(***************************************************************************)
stop(d)  == <<"stop", d>>
start(d) == <<"start", d>>

FeedAsks(c) ==
    /\ feedPc[c] = Resting
    /\ \/ feedEnv.overlap
       \/ /\ \A d \in PktCallers : feedPc[d] = Resting
          /\ c = CHOOSE d \in PktCallers : TRUE

\* the words about decoders that are configured
Configured(words) ==
    LET first[n \in 0 .. Len(words)] ==
            IF n = 0 THEN <<>>
            ELSE IF words[n][2] \in feedEnv.uses THEN Append(first[n - 1], words[n])
            ELSE first[n - 1]
    IN first[Len(words)]

Begins(c, words) ==
    LET todo == Configured(words) IN
    /\ todo # <<>>
    /\ feedPc' = [feedPc EXCEPT ![c] = [Resting EXCEPT !.todo = todo, !.at = "next"]]

Request(c, words) ==
    /\ FeedAsks(c)
    /\ Begins(c, words)
    /\ Unmoved /\ UNCHANGED <<pipe, feedEnv>>

\* scan_start by mode: an FT or CW scan leaves the APRS decoders alone
ScanStartOther(c) == Request(c, <<stop("ssb")>>)
ScanStartSsb(c)   == Request(c, <<stop("kiss"), stop("is"), start("ssb")>>)
ScanStartAprs(c)  == Request(c, <<stop("ssb"), stop("kiss"), stop("is"),
                                  start("kiss"), start("is")>>)
\* scan_stop, and change_decoder_mode to FT or CW
ScanStopFeeds(c)  == Request(c, <<stop("ssb"), stop("kiss"), stop("is")>>)
\* change_decoder_mode to APRS: a running KISS loop is kept
ModeAprs(c)       == Request(c, <<stop("ssb"), start("kiss"), start("is")>>)
\* _rotation_switch_slot to SSB
SlotSsb(c)        == Request(c, <<stop("ssb"), start("ssb")>>)

\* save_settings creates tasks of its own, by the enabled flags
SettingsOn(c) ==
    /\ \E d \in {"kiss", "lora"} : ~feedStatus[d].enabled /\ Begins(c, <<start(d)>>)
    /\ FeedAsks(c)
    /\ Unmoved /\ UNCHANGED <<pipe, feedEnv>>

SettingsOff(c) ==
    /\ FeedAsks(c)
    /\ \E d \in {"kiss", "lora"} :
        /\ feedStatus[d].enabled
        /\ feedStatus' = [feedStatus EXCEPT ![d].enabled = FALSE]
        /\ Begins(c, <<stop(d)>>)
    /\ UNCHANGED <<feedTask, feedLoop, feedStop, pipe, feedEnv>>

\* another APRS-IS server
SettingsBounce(c) ==
    /\ feedStatus["is"].enabled
    /\ Request(c, <<stop("is"), start("is")>>)

\* the lifespan stops KISS, and only a loop that is alive
Shutdown(c) ==
    /\ FeedAlive("kiss")
    /\ Request(c, <<stop("kiss")>>)

FeedRequests(c) ==
    \/ ScanStartOther(c) \/ ScanStartSsb(c) \/ ScanStartAprs(c) \/ ScanStopFeeds(c)
    \/ ModeAprs(c) \/ SlotSsb(c) \/ SettingsOn(c) \/ SettingsOff(c)
    \/ SettingsBounce(c) \/ Shutdown(c)

PktNext ==
    \/ \E d \in Feeds, t \in PktTasks :
        LoopSteps(d, t) \/ Connects(d, t) \/ LoopFails(d, t)
    \/ \E t \in PktTasks : LoginRefused(t)
    \/ \E c \in PktCallers : FeedRequests(c) \/ FeedGoesOn(c)
    \/ ProcessDies

PktSpec == PktInit /\ [][PktNext]_pktVars

\* every sleep and close of a loop ends, and every await of a request; a server
\* that is tried again and again answers
PktFair ==
    /\ WF_pktVars(\E d \in Feeds, t \in PktTasks : LoopSteps(d, t))
    /\ SF_pktVars(\E d \in Feeds, t \in PktTasks : Connects(d, t))
    /\ WF_pktVars(\E c \in PktCallers : FeedGoesOn(c))

-----------------------------------------------------------------------------
Waiting(d, where) == \E c \in PktCallers : /\ feedPc[c].at = where
                                           /\ Head(feedPc[c].todo)[2] = d

\* No loop outlives the reference that stops it: with requests that come one
\* by one, also when a stop has given up waiting, a loop nobody has cancelled
\* is the task the module holds.
NoStrayFeed ==
    ~feedEnv.overlap =>
      \A d \in Feeds, t \in PktTasks :
        feedLoop[d][t] \notin {"gone", "cancelled", "leaving"} => feedTask[d] = t

\* The dongle is given back: with requests that come one by one, also when
\* processes die or do not start, no rtl_fm or direwolf of ours runs without
\* the reference that stops it, and none is left once KISS is stopped.
PipelineFreed ==
    ~feedEnv.overlap =>
      /\ pipe.runs \subseteq pipe.handle
      /\ feedTask["kiss"] = NoLoop /\ pipe.runs # {}
           => \E c \in PktCallers : feedPc[c].at \in {"launch"} \cup Pipeline

\* A decoder is shown connected only while a loop of it holds a connection or
\* a stop is about to correct the status, however requests overlap; and a loop
\* that reads is shown, unless an older one has outlasted its stop.
ConnectedTruthfully ==
    \A d \in Feeds \ {"ssb"} :
        /\ feedStatus[d].connected =>
             \/ \E t \in PktTasks : feedLoop[d][t] \in {"reading", "closing", "leaving"}
             \/ Waiting(d, "join")
        /\ ~feedEnv.overlap /\ "slow" \notin feedEnv.faults =>
             \A t \in PktTasks : At(d, t, "reading") => feedStatus[d].connected

\* With requests that come one by one, the feeds that are on and have no
\* connection, because they have just been started or have lost it, get one or
\* are stopped.
FeedReconnects ==
    ~feedEnv.overlap /\ (\E d \in Feeds \ {"ssb"} : feedTask[d] # NoLoop)
      ~> \A d \in Feeds \ {"ssb"} :
            feedTask[d] = NoLoop \/ At(d, feedTask[d], "reading")
===========================================================================
