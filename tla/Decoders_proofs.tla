--------------------------- MODULE Decoders_proofs ---------------------------
(***************************************************************************)
(* Proofs about the packet decoders, the frames of a KISS stream, the      *)
(* windows of the I/Q listeners, the markers of the spectrum and the       *)
(* feeds the screen polls, for any number of requests, bytes, blocks,      *)
(* bands, readers and entries; and that the parts of MCDecoders, side by   *)
(* side, leave nothing stray.                                              *)
(***************************************************************************)
EXTENDS MCDecoders, ScanPark_proofs, SequenceTheorems, FiniteSetTheorems, WellFoundedInduction

(***************************************************************************)
(* Induction on the naturals, for a set in the place of a predicate.       *)
(***************************************************************************)
Less == {ss \in Nat \X Nat : ss[1] < ss[2]}

LEMMA NatBelow == IsWellFoundedOn(Less, Nat)
  BY NatLessThanWellFounded DEF OpToRel, Less

LEMMA Below == \A x, y : <<x, y>> \in Less <=> (x \in Nat /\ y \in Nat /\ x < y)
  BY DEF Less

LEMMA SetInduction ==
    ASSUME NEW S, 0 \in S, \A n \in Nat : n \in S => n + 1 \in S
    PROVE  Nat \subseteq S
  <1> DEFINE T == {n \in Nat : n \notin S}
  <1>1. ASSUME T # {} PROVE FALSE
    <2>1. PICK x \in T : \A y \in T : ~ (<<y, x>> \in Less)
      <3>1. T \subseteq Nat
         OBVIOUS
      <3> HIDE DEF T
      <3> QED BY <1>1, <3>1, NatBelow, WFMin
    <2>2. x # 0 /\ x \in Nat
      OBVIOUS
    <2>3. x - 1 \in Nat /\ x - 1 < x
      BY <2>2
    <2>4. x - 1 \notin T
      BY <2>1, <2>2, <2>3, Below
    <2> QED BY <2>2, <2>3, <2>4
  <1> QED BY <1>1

-----------------------------------------------------------------------------
(***************************************************************************)
(* The packet decoders.                                                    *)
(***************************************************************************)
\* the types of the variables, but for the words of a request
Positions == {"idle", "next", "launch", "check", "join", "rtl_fm", "direwolf"}
IsRequest(r) ==
    r \in [todo : {r.todo}, at : Positions, task : PktTasks \cup {NoLoop}, stale : BOOLEAN]
Loops == [Feeds -> [PktTasks -> LoopStates]]
Statuses == [Feeds -> [connected : BOOLEAN, enabled : BOOLEAN]]
PktTyped ==
    /\ feedTask \in [Feeds -> PktTasks \cup {NoLoop}]
    /\ feedLoop \in Loops
    /\ feedStop \in [Feeds -> BOOLEAN]
    /\ feedStatus \in Statuses
    /\ pipe \in [handle : SUBSET Pipeline, runs : SUBSET Pipeline]
    /\ DOMAIN feedPc = PktCallers /\ \A c \in PktCallers : IsRequest(feedPc[c])
    /\ feedEnv \in PktEnvs

-----------------------------------------------------------------------------
(***************************************************************************)
(* The inductive invariant.                                                *)
(***************************************************************************)
Stopped == {"gone", "cancelled", "leaving"}
Word(c) == Head(feedPc[c].todo)
Joining(c, d, t) == feedPc[c].at = "join" /\ feedPc[c].task = t /\ Word(c) = <<"stop", d>>

\* Requests that come one by one: one is under way at most.
OneRequest ==
    \A c, d \in PktCallers : feedPc[c] # Resting /\ feedPc[d] # Resting => c = d

LoopsHeld ==
    \A d \in Feeds, t \in PktTasks : feedLoop[d][t] \notin Stopped => feedTask[d] = t

\* A stop waits for the task it has cancelled; a start that waits has found none.
WaitsRight ==
    \A c \in PktCallers :
        /\ \A d \in Feeds : feedPc[c].at = "join" /\ Word(c) = <<"stop", d>> =>
             /\ feedPc[c].task = feedTask[d] /\ feedTask[d] # NoLoop
             /\ feedLoop[d][feedTask[d]] \in Stopped
        /\ feedPc[c].at = "launch" => ~FeedAlive("kiss")
        /\ feedPc[c].at = "check" => ~FeedAlive("is")

\* Both processes are held or neither, but while direwolf is reaped alone.
PipeHeld ==
    /\ pipe.runs \subseteq pipe.handle
    /\ pipe.handle \in {{}, Pipeline} \/ \E c \in PktCallers : feedPc[c].at = "direwolf"
    /\ \A c \in PktCallers :
        /\ feedPc[c].at = "rtl_fm" => pipe.handle = Pipeline /\ ~feedPc[c].stale
        /\ feedPc[c].at = "direwolf" => pipe.handle = {"direwolf"} /\ ~feedPc[c].stale
    /\ feedTask["kiss"] = NoLoop /\ pipe.handle # {}
         => \E c \in PktCallers : feedPc[c].at \in {"launch"} \cup Pipeline

\* Where no stop gives up, a loop on its way out is waited for, and a loop that
\* reads is shown.
LeaversJoined ==
    \A d \in Feeds, t \in PktTasks :
        feedLoop[d][t] \in {"cancelled", "leaving"} => \E c \in PktCallers : Joining(c, d, t)
ReadersShown ==
    \A d \in Feeds \ {"ssb"}, t \in PktTasks :
        At(d, t, "reading") => feedStatus[d].connected

ShownHold ==
    \A d \in Feeds \ {"ssb"} : feedStatus[d].connected =>
        \/ \E t \in PktTasks : feedLoop[d][t] \in {"reading", "closing", "leaving"}
        \/ Waiting(d, "join")

OneByOne == /\ OneRequest /\ LoopsHeld /\ WaitsRight /\ PipeHeld
            /\ "slow" \notin feedEnv.faults => LeaversJoined /\ ReadersShown

PktInv == PktTyped /\ ShownHold /\ (~feedEnv.overlap => OneByOne)

-----------------------------------------------------------------------------
(***************************************************************************)
(* What a step of a loop may do, whatever the step.                        *)
(***************************************************************************)
FeedMoved(d, t, where) ==
    /\ UNCHANGED <<feedTask, feedStop, pipe, feedPc, feedEnv>>
    /\ feedLoop' = [feedLoop EXCEPT ![d][t] = where]
    /\ where \in LoopStates \ {"new", "cancelled", "leaving"}
    /\ feedLoop[d][t] # "gone" /\ (feedLoop[d][t] \in {"cancelled", "leaving"} => where = "gone")
    /\ feedStatus' \in Statuses
    /\ \A e \in Feeds \ {d} : feedStatus'[e] = feedStatus[e]
    /\ d # "ssb" =>
         /\ where = "reading" => feedStatus'[d].connected
         /\ feedStatus'[d].connected =>
              \/ where \in {"reading", "closing"}
              \/ feedStatus[d].connected
                 /\ feedLoop[d][t] \notin {"reading", "closing", "leaving"}

LEMMA ShowsTyped ==
    ASSUME PktTyped, NEW d \in Feeds, NEW on \in BOOLEAN, Shows(d, on)
    PROVE  /\ feedStatus' \in Statuses /\ feedStatus'[d].connected = on
           /\ \A e \in Feeds \ {d} : feedStatus'[e] = feedStatus[e]
  BY DEF Shows, PktTyped, Statuses

LEMMA FeedLoopMoves ==
    ASSUME PktTyped, NEW d \in Feeds, NEW t \in PktTasks,
           LoopSteps(d, t) \/ Connects(d, t) \/ LoopFails(d, t) \/ (d = "is" /\ LoginRefused(t))
    PROVE  \E where \in LoopStates : FeedMoved(d, t, where)
  <1> USE DEF At, Goes, LoopOnly
  <1>s. ASSUME Silent
        PROVE  /\ feedStatus' \in Statuses /\ feedStatus' = feedStatus
    BY <1>s DEF Silent, PktTyped
  <1>1. CASE LoopTop(d, t)
    <2>1. PICK where \in {"reading", "gone", "connecting"} :
            /\ feedLoop' = [feedLoop EXCEPT ![d][t] = where]
            /\ where = "reading" => d = "ssb"
      BY <1>1 DEF LoopTop
    <2> QED BY <1>1, <1>s, <2>1 DEF LoopTop, FeedMoved, LoopStates
  <1>2. CASE SeesStop(d, t)
    BY <1>2, <1>s DEF SeesStop, FeedMoved, LoopStates
  <1>3. CASE Closes(d, t)
    <2>1. PICK where \in {"gone", "sleeping"} : feedLoop' = [feedLoop EXCEPT ![d][t] = where]
      BY <1>3 DEF Closes
    <2>2. Shows(d, FALSE) /\ LoopOnly /\ feedLoop[d][t] = "closing"
      BY <1>3 DEF Closes
    <2> QED BY <2>1, <2>2, ShowsTyped DEF FeedMoved, LoopStates
  <1>4. CASE Ends(d, t)
    BY <1>4, <1>s DEF Ends, FeedMoved, LoopStates
  <1>5. CASE Leaves(d, t)
    <2>1. Shows(d, FALSE) /\ LoopOnly /\ feedLoop[d][t] = "leaving"
          /\ feedLoop' = [feedLoop EXCEPT ![d][t] = "gone"]
      BY <1>5 DEF Leaves
    <2> QED BY <2>1, ShowsTyped DEF FeedMoved, LoopStates
  <1>6. CASE Connects(d, t)
    <2>1. PICK where \in {"closing", "reading"} : feedLoop' = [feedLoop EXCEPT ![d][t] = where]
      BY <1>6 DEF Connects
    <2>2. Shows(d, TRUE) /\ LoopOnly /\ feedLoop[d][t] = "connecting"
      BY <1>6 DEF Connects
    <2> QED BY <2>1, <2>2, ShowsTyped DEF FeedMoved, LoopStates
  <1>7. CASE ConnectFails(d, t)
    <2>1. Shows(d, FALSE) /\ LoopOnly /\ feedLoop[d][t] = "connecting"
          /\ feedLoop' = [feedLoop EXCEPT ![d][t] = "sleeping"]
      BY <1>7 DEF ConnectFails
    <2> QED BY <2>1, ShowsTyped DEF FeedMoved, LoopStates
  <1>8. CASE PeerCloses(d, t)
    BY <1>8, <1>s DEF PeerCloses, FeedMoved, LoopStates
  <1>9. CASE ReadFails(d, t)
    <2>1. PICK where \in {"closing", "sleeping"} : feedLoop' = [feedLoop EXCEPT ![d][t] = where]
      BY <1>9 DEF ReadFails
    <2>2. Shows(d, FALSE) /\ LoopOnly /\ feedLoop[d][t] = "reading"
      BY <1>9 DEF ReadFails
    <2> QED BY <2>1, <2>2, ShowsTyped DEF FeedMoved, LoopStates
  <1>10. CASE d = "is" /\ LoginRefused(t)
    <2>1. Shows(d, FALSE) /\ LoopOnly /\ feedLoop[d][t] = "connecting"
          /\ feedLoop' = [feedLoop EXCEPT ![d][t] = "closing"]
      BY <1>10 DEF LoginRefused
    <2> QED BY <2>1, ShowsTyped DEF FeedMoved, LoopStates
  <1> QED BY <1>1, <1>2, <1>3, <1>4, <1>5, <1>6, <1>7, <1>8, <1>9, <1>10 DEF LoopSteps, LoopFails

LEMMA FeedMovedTyped ==
    ASSUME PktTyped, NEW d \in Feeds, NEW t \in PktTasks, NEW where, FeedMoved(d, t, where)
    PROVE  /\ PktTyped' /\ feedLoop'[d][t] = where
           /\ \A e \in Feeds, s \in PktTasks :
                e # d \/ s # t => feedLoop'[e][s] = feedLoop[e][s]
  <1>1. feedLoop' \in Loops
    BY DEF PktTyped, FeedMoved, Loops
  <1>2. DOMAIN feedLoop = Feeds /\ DOMAIN feedLoop[d] = PktTasks
    BY DEF PktTyped, Loops
  <1> QED BY <1>1, <1>2 DEF PktTyped, FeedMoved, IsRequest

LEMMA FeedMovedShown ==
    ASSUME PktTyped, ShownHold, NEW d \in Feeds, NEW t \in PktTasks, NEW where,
           FeedMoved(d, t, where)
    PROVE  ShownHold'
  <1> SUFFICES ASSUME NEW e \in Feeds \ {"ssb"}, feedStatus'[e].connected
               PROVE  \/ \E s \in PktTasks :
                           feedLoop'[e][s] \in {"reading", "closing", "leaving"}
                      \/ Waiting(e, "join")'
    BY DEF ShownHold
  <1>1. Waiting(e, "join") => Waiting(e, "join")'
    BY DEF Waiting, FeedMoved
  <1>2. CASE feedStatus[e].connected
    <2>1. CASE \E s \in PktTasks : feedLoop[e][s] \in {"reading", "closing", "leaving"}
      <3>1. PICK s \in PktTasks : feedLoop[e][s] \in {"reading", "closing", "leaving"}
        BY <2>1
      <3> QED BY <3>1, FeedMovedTyped DEF FeedMoved
    <2> QED BY <1>1, <1>2, <2>1 DEF ShownHold
  <1>3. CASE ~feedStatus[e].connected
    <2>1. e = d
      BY <1>3 DEF FeedMoved
    <2>2. where \in {"reading", "closing"}
      BY <1>3, <2>1 DEF FeedMoved
    <2>3. feedLoop'[d][t] = where
      BY FeedMovedTyped
    <2> QED BY <2>1, <2>2, <2>3
  <1> QED BY <1>2, <1>3

LEMMA FeedMovedSerial ==
    ASSUME PktTyped, OneByOne, NEW d \in Feeds, NEW t \in PktTasks, NEW where,
           FeedMoved(d, t, where)
    PROVE  OneByOne'
  <1>f. /\ feedLoop'[d][t] = where
        /\ \A e \in Feeds, s \in PktTasks : e # d \/ s # t => feedLoop'[e][s] = feedLoop[e][s]
        /\ UNCHANGED <<feedTask, feedStop, pipe, feedPc, feedEnv>>
        /\ where \notin {"new", "cancelled", "leaving"}
        /\ feedLoop[d][t] # "gone"
        /\ feedLoop[d][t] \in {"cancelled", "leaving"} => where = "gone"
    <2>1. /\ feedLoop'[d][t] = where
          /\ \A e \in Feeds, s \in PktTasks : e # d \/ s # t => feedLoop'[e][s] = feedLoop[e][s]
      BY FeedMovedTyped
    <2> QED BY <2>1 DEF FeedMoved
  <1>1. OneRequest' /\ PipeHeld'
    BY <1>f DEF OneByOne, OneRequest, PipeHeld
  <1>2. LoopsHeld'
    BY <1>f DEF OneByOne, LoopsHeld, Stopped
  <1>3. WaitsRight'
    <2>1. ASSUME NEW e \in Feeds, feedTask[e] \in PktTasks, feedLoop[e][feedTask[e]] \in Stopped
          PROVE  feedLoop'[e][feedTask[e]] \in Stopped
      BY <2>1, <1>f DEF Stopped
    <2>2. ASSUME NEW e \in Feeds, ~FeedAlive(e) PROVE ~FeedAlive(e)'
      BY <2>2, <1>f DEF FeedAlive, PktTyped
    <2>3. \A e \in Feeds : feedTask[e] # NoLoop => feedTask[e] \in PktTasks
      BY DEF PktTyped
    <2>4. "kiss" \in Feeds /\ "is" \in Feeds
      BY DEF Feeds
    <2> QED BY <1>f, <2>1, <2>2, <2>3, <2>4 DEF OneByOne, WaitsRight, Word
  <1>4. ASSUME "slow" \notin feedEnv.faults PROVE LeaversJoined' /\ ReadersShown'
    <2>1. LeaversJoined'
      BY <1>4, <1>f DEF OneByOne, LeaversJoined, Joining, Word
    <2>2. ASSUME NEW e \in Feeds \ {"ssb"}, NEW s \in PktTasks, feedLoop'[e][s] = "reading"
          PROVE  feedStatus'[e].connected
      <3>1. CASE e = d /\ s = t
        BY <3>1, <2>2, <1>f DEF FeedMoved
      <3>2. CASE e = d /\ s # t
        <4>1. feedLoop[d][s] = "reading" /\ feedTask[d] = s
          BY <3>2, <2>2, <1>f DEF OneByOne, LoopsHeld, Stopped
        <4>2. feedLoop[d][t] \in {"cancelled", "leaving"}
          BY <3>2, <4>1, <1>f DEF OneByOne, LoopsHeld, Stopped
        <4>3. PICK c \in PktCallers : Joining(c, d, t)
          BY <4>2, <1>4 DEF OneByOne, LeaversJoined
        <4> QED BY <3>2, <4>1, <4>3 DEF OneByOne, WaitsRight, Joining
      <3>3. CASE e # d
        BY <3>3, <2>2, <1>4, <1>f DEF FeedMoved, OneByOne, ReadersShown, At
      <3> QED BY <3>1, <3>2, <3>3
    <2> QED BY <2>1, <2>2 DEF ReadersShown, At
  <1> QED BY <1>f, <1>1, <1>2, <1>3, <1>4 DEF OneByOne

-----------------------------------------------------------------------------
(***************************************************************************)
(* What a step of a request may do.                                        *)
(***************************************************************************)
\* the request c is at r now, and the others where they were
TookTurn(c, r) ==
    /\ IsRequest(r) /\ DOMAIN feedPc' = PktCallers /\ feedPc'[c] = r
    /\ \A e \in PktCallers \ {c} :
        /\ IsRequest(feedPc'[e]) /\ feedPc'[e].at = feedPc[e].at
        /\ feedPc'[e].todo = feedPc[e].todo /\ feedPc'[e].task = feedPc[e].task
        /\ feedPc[e] = Resting => feedPc'[e] = Resting

FreeAgain(r) == r.at \in {"idle", "next"} /\ ~r.stale /\ r.task = NoLoop

LEMMA RestingTyped ==
    /\ IsRequest(Resting) /\ FreeAgain(Resting) /\ Resting.at = "idle"
    /\ \A w : LET r == [Resting EXCEPT !.todo = w, !.at = "next"]
              IN IsRequest(r) /\ FreeAgain(r) /\ r.at = "next" /\ r.todo = w
  <1>1. IsRequest(Resting) /\ FreeAgain(Resting) /\ Resting.at = "idle"
    BY DEF Resting, IsRequest, Positions, FreeAgain
  <1>2. ASSUME NEW w, NEW r, r = [Resting EXCEPT !.todo = w, !.at = "next"]
        PROVE  IsRequest(r) /\ FreeAgain(r) /\ r.at = "next" /\ r.todo = w
    <2>1. r = [todo |-> w, at |-> "next", task |-> NoLoop, stale |-> FALSE]
      BY <1>2 DEF Resting
    <2> QED BY <2>1 DEF IsRequest, Positions, FreeAgain
  <1> QED BY <1>1, <1>2

LEMMA Turns ==
    ASSUME PktTyped, NEW c \in PktCallers, NEW r, IsRequest(r),
           feedPc' = [feedPc EXCEPT ![c] = r]
    PROVE  TookTurn(c, r)
  BY DEF PktTyped, TookTurn

LEMMA WordDoneTurn ==
    ASSUME PktTyped, NEW c \in PktCallers, WordDone(c)
    PROVE  \E r : TookTurn(c, r) /\ FreeAgain(r)
  <1>1. CASE Len(feedPc[c].todo) = 1
    BY <1>1, RestingTyped, Turns DEF WordDone
  <1>2. CASE Len(feedPc[c].todo) # 1
    <2> DEFINE r == [Resting EXCEPT !.todo = Tail(feedPc[c].todo), !.at = "next"]
    <2>1. IsRequest(r) /\ FreeAgain(r)
      BY RestingTyped
    <2>2. feedPc' = [feedPc EXCEPT ![c] = r]
      BY <1>2 DEF WordDone
    <2> HIDE DEF r
    <2> QED BY <2>1, <2>2, Turns
  <1> QED BY <1>1, <1>2

LEMMA BeginsTurn ==
    ASSUME PktTyped, NEW c \in PktCallers, NEW words, Begins(c, words)
    PROVE  \E r : TookTurn(c, r) /\ FreeAgain(r)
  <1>1. PICK w : feedPc' = [feedPc EXCEPT ![c] = [Resting EXCEPT !.todo = w, !.at = "next"]]
    BY Zenon DEF Begins
  <1> DEFINE r == [Resting EXCEPT !.todo = w, !.at = "next"]
  <1>2. IsRequest(r) /\ FreeAgain(r)
    BY RestingTyped
  <1> QED BY <1>1, <1>2, Turns

LEMMA WaitsTurn ==
    ASSUME PktTyped, NEW c \in PktCallers, NEW where \in Positions,
           NEW t \in PktTasks \cup {NoLoop}, WaitsAt(c, where, t)
    PROVE  \E r : /\ TookTurn(c, r) /\ r.at = where /\ r.task = t /\ ~r.stale
                  /\ r.todo = feedPc[c].todo
  <1> DEFINE r == [feedPc[c] EXCEPT !.at = where, !.task = t, !.stale = FALSE]
  <1>1. IsRequest(r) /\ r.at = where /\ r.task = t /\ ~r.stale /\ r.todo = feedPc[c].todo
    BY DEF PktTyped, IsRequest
  <1>2. feedPc' = [feedPc EXCEPT ![c] = r]
    BY DEF WaitsAt, PktTyped, IsRequest
  <1> HIDE DEF r
  <1> QED BY <1>1, <1>2, Turns

\* the task t of decoder d is new; nothing else changes but what is enabled
CreatedAt(d, t) ==
    /\ feedLoop[d][t] = "gone" /\ feedTask[d] # t
    /\ feedTask' = [feedTask EXCEPT ![d] = t]
    /\ feedLoop' = [feedLoop EXCEPT ![d][t] = "new"]
    /\ feedStop' \in [Feeds -> BOOLEAN]
    /\ feedStatus' \in Statuses
    /\ \A e \in Feeds : feedStatus'[e].connected = feedStatus[e].connected

LEMMA CreatedTask ==
    ASSUME PktTyped, NEW d \in Feeds, TaskCreated(d)
    PROVE  \E t \in PktTasks : CreatedAt(d, t)
  <1>1. PICK t \in FreeLoops(d) :
          /\ feedStop' = [feedStop EXCEPT ![d] = FALSE]
          /\ feedTask' = [feedTask EXCEPT ![d] = t]
          /\ feedLoop' = [feedLoop EXCEPT ![d][t] = "new"]
          /\ feedStatus' = [feedStatus EXCEPT ![d].enabled = TRUE]
    BY DEF TaskCreated, Goes
  <1>2. t \in PktTasks /\ feedLoop[d][t] = "gone" /\ feedTask[d] # t
    BY DEF FreeLoops
  <1>3. /\ feedStop' \in [Feeds -> BOOLEAN] /\ feedStatus' \in Statuses
        /\ \A e \in Feeds : feedStatus'[e].connected = feedStatus[e].connected
    BY <1>1 DEF PktTyped, Statuses
  <1> QED BY <1>1, <1>2, <1>3 DEF CreatedAt

LEMMA TurnTyped ==
    ASSUME PktTyped, NEW c \in PktCallers, NEW r, TookTurn(c, r),
           feedTask' \in [Feeds -> PktTasks \cup {NoLoop}], feedLoop' \in Loops,
           feedStop' \in [Feeds -> BOOLEAN], feedStatus' \in Statuses,
           pipe' \in [handle : SUBSET Pipeline, runs : SUBSET Pipeline], feedEnv' = feedEnv
    PROVE  PktTyped'
  BY DEF PktTyped, TookTurn

LEMMA TurnShown ==
    ASSUME PktTyped, ShownHold, NEW c \in PktCallers, NEW r, TookTurn(c, r),
           feedPc[c].at # "join",
           \A e \in Feeds : feedStatus'[e].connected = feedStatus[e].connected,
           \A e \in Feeds, s \in PktTasks : feedLoop[e][s] \in {"reading", "closing", "leaving"}
                                              => feedLoop'[e][s] = feedLoop[e][s]
    PROVE  ShownHold'
  <1>1. \A e \in Feeds : Waiting(e, "join") => Waiting(e, "join")'
    BY DEF TookTurn, Waiting
  <1>2. ASSUME NEW e \in Feeds \ {"ssb"}, feedStatus'[e].connected
        PROVE  \/ \E s \in PktTasks : feedLoop'[e][s] \in {"reading", "closing", "leaving"}
               \/ Waiting(e, "join")'
    <2>1. \/ \E s \in PktTasks : feedLoop[e][s] \in {"reading", "closing", "leaving"}
          \/ Waiting(e, "join")
      BY <1>2 DEF ShownHold
    <2> QED BY <1>1, <2>1
  <1> QED BY <1>2 DEF ShownHold

\* c is the only request under way
OnlyOne(c) == \A e \in PktCallers \ {c} : feedPc[e] = Resting

\* what the state after the turn must be for the request r that has moved
TurnRight(r) ==
    /\ \A d \in Feeds : r.at = "join" /\ Head(r.todo) = <<"stop", d>> =>
         /\ r.task = feedTask'[d] /\ feedTask'[d] # NoLoop
         /\ feedLoop'[d][feedTask'[d]] \in Stopped
    /\ r.at = "launch" => ~FeedAlive("kiss")'
    /\ r.at = "check" => ~FeedAlive("is")'
    /\ pipe'.runs \subseteq pipe'.handle
    /\ pipe'.handle \in {{}, Pipeline} \/ r.at = "direwolf"
    /\ r.at = "rtl_fm" => pipe'.handle = Pipeline /\ ~r.stale
    /\ r.at = "direwolf" => pipe'.handle = {"direwolf"} /\ ~r.stale
    /\ feedTask'["kiss"] = NoLoop /\ pipe'.handle # {} => r.at \in {"launch"} \cup Pipeline
    /\ "slow" \notin feedEnv.faults =>
         \A d \in Feeds, t \in PktTasks : feedLoop'[d][t] \in {"cancelled", "leaving"}
            => r.at = "join" /\ r.task = t /\ Head(r.todo) = <<"stop", d>>

LEMMA TurnSerial ==
    ASSUME OneByOne, NEW c \in PktCallers, OnlyOne(c), NEW r, TookTurn(c, r), TurnRight(r),
           LoopsHeld', feedEnv' = feedEnv, "slow" \notin feedEnv.faults => ReadersShown'
    PROVE  OneByOne'
  <1>1. feedPc'[c] = r /\ \A e \in PktCallers \ {c} : feedPc'[e] = Resting
    BY DEF TookTurn, OnlyOne
  <1>2. Resting.at = "idle"
    BY RestingTyped
  <1>3. OneRequest'
    BY <1>1 DEF OneRequest
  <1>4. WaitsRight'
    BY <1>1, <1>2 DEF WaitsRight, TurnRight, Word
  <1>5. PipeHeld'
    <2>1. \A e \in PktCallers : feedPc'[e].at \in {"rtl_fm", "direwolf"} => e = c
      BY <1>1, <1>2
    <2> QED BY <1>1, <2>1 DEF PipeHeld, TurnRight
  <1>6. "slow" \notin feedEnv.faults => LeaversJoined'
    BY <1>1 DEF TurnRight, LeaversJoined, Joining, Word
  <1> QED BY <1>3, <1>4, <1>5, <1>6 DEF OneByOne

\* What is known of the only request before it moves.
LEMMA TurnBefore ==
    ASSUME OneByOne, NEW c \in PktCallers, OnlyOne(c)
    PROVE  /\ pipe.runs \subseteq pipe.handle
           /\ pipe.handle \in {{}, Pipeline} \/ feedPc[c].at = "direwolf"
           /\ feedTask["kiss"] = NoLoop /\ pipe.handle # {}
                => feedPc[c].at \in {"launch"} \cup Pipeline
           /\ "slow" \notin feedEnv.faults =>
                \A d \in Feeds, t \in PktTasks : feedLoop[d][t] \in {"cancelled", "leaving"}
                   => Joining(c, d, t)
  <1>1. \A e \in PktCallers \ {c} : feedPc[e].at = "idle"
    BY RestingTyped DEF OnlyOne
  <1>2. \A e \in PktCallers : feedPc[e].at # "idle" => e = c
    BY <1>1
  <1> QED BY <1>2 DEF OneByOne, PipeHeld, LeaversJoined, Joining, Pipeline

-----------------------------------------------------------------------------
(***************************************************************************)
(* The kinds of steps.  Each keeps the types, what is shown, and, when     *)
(* requests come one by one, the rest of the invariant.                    *)
(***************************************************************************)
Keeps(c) == PktTyped' /\ ShownHold' /\ feedEnv' = feedEnv
            /\ (OneByOne /\ OnlyOne(c) => OneByOne')

\* a word that needs no wait and creates no task, or a new request
Spoke(c) ==
    /\ feedPc[c].at \in {"idle", "next", "check"}
    /\ \E r : TookTurn(c, r) /\ FreeAgain(r)
    /\ UNCHANGED <<feedTask, feedLoop, feedStop, pipe, feedEnv>>
    /\ feedStatus' \in Statuses
    /\ \A e \in Feeds : feedStatus'[e].connected = feedStatus[e].connected

LEMMA SpokeKeeps ==
    ASSUME PktTyped, ShownHold, NEW c \in PktCallers, Spoke(c)
    PROVE  Keeps(c)
  <1>1. PICK r : TookTurn(c, r) /\ FreeAgain(r)
    BY DEF Spoke
  <1>2. PktTyped'
    BY <1>1, TurnTyped DEF Spoke, PktTyped
  <1>3. ShownHold'
    BY <1>1, TurnShown DEF Spoke
  <1>4. ASSUME OneByOne, OnlyOne(c) PROVE OneByOne'
    <2>1. TurnRight(r)
      BY <1>1, <1>4, TurnBefore DEF Spoke, FreeAgain, TurnRight, Joining, Pipeline
    <2>2. LoopsHeld' /\ ("slow" \notin feedEnv.faults => ReadersShown')
      BY <1>4 DEF Spoke, OneByOne, LoopsHeld, ReadersShown, At
    <2> QED BY <1>1, <1>4, <2>1, <2>2, TurnSerial DEF Spoke
  <1> QED BY <1>2, <1>3, <1>4 DEF Keeps, Spoke

\* a word creates the task of decoder d, which has none alive
Launched(c, d) ==
    /\ \/ feedPc[c].at = "next" /\ ~FeedAlive(d)
       \/ feedPc[c].at = "launch" /\ d = "kiss"
       \/ feedPc[c].at = "check" /\ d = "is"
    /\ \E r : TookTurn(c, r) /\ FreeAgain(r)
    /\ \E t \in PktTasks : CreatedAt(d, t)
    /\ \/ pipe' = pipe /\ (feedPc[c].at = "launch" => d = "kiss")
       \/ /\ feedPc[c].at = "next" /\ d = "kiss" /\ "direwolf" \notin pipe.handle
          /\ pipe' = [pipe EXCEPT !.handle = @ \ {"rtl_fm"}]
    /\ feedEnv' = feedEnv

LEMMA LaunchedKeeps ==
    ASSUME PktTyped, ShownHold, NEW c \in PktCallers, NEW d \in Feeds, Launched(c, d)
    PROVE  Keeps(c)
  <1>1. PICK r : TookTurn(c, r) /\ FreeAgain(r)
    BY DEF Launched
  <1>2. PICK t \in PktTasks : CreatedAt(d, t)
    BY DEF Launched
  <1>3. /\ feedTask' \in [Feeds -> PktTasks \cup {NoLoop}] /\ feedLoop' \in Loops
        /\ feedTask'[d] = t /\ feedLoop'[d][t] = "new" /\ feedLoop[d][t] = "gone"
        /\ \A e \in Feeds \ {d} : feedTask'[e] = feedTask[e]
        /\ \A e \in Feeds, s \in PktTasks : e # d \/ s # t => feedLoop'[e][s] = feedLoop[e][s]
    BY <1>2 DEF CreatedAt, PktTyped, Loops, LoopStates
  <1>p. /\ pipe' \in [handle : SUBSET Pipeline, runs : SUBSET Pipeline]
        /\ pipe'.runs = pipe.runs
        /\ pipe'.handle = pipe.handle
           \/ /\ feedPc[c].at = "next" /\ d = "kiss" /\ "direwolf" \notin pipe.handle
              /\ pipe'.handle = pipe.handle \ {"rtl_fm"}
    BY DEF Launched, PktTyped
  <1>4. PktTyped'
    BY <1>1, <1>2, <1>3, <1>p, TurnTyped DEF Launched, CreatedAt
  <1>5. ShownHold'
    BY <1>1, <1>2, <1>3, TurnShown DEF Launched, CreatedAt
  <1>6. ASSUME OneByOne, OnlyOne(c) PROVE OneByOne'
    <2>1. ~FeedAlive(d)
      BY <1>6 DEF Launched, OneByOne, WaitsRight
    <2>2. \A s \in PktTasks : feedLoop[d][s] \in Stopped
      BY <1>6, <2>1, PktAssumption DEF OneByOne, LoopsHeld, FeedAlive, Stopped
    <2>3. LoopsHeld'
      BY <1>3, <1>6, <2>2 DEF OneByOne, LoopsHeld, Stopped
    <2>4. "slow" \notin feedEnv.faults => ReadersShown'
      BY <1>2, <1>3, <1>6 DEF OneByOne, ReadersShown, At, CreatedAt
    <2>5. /\ pipe'.runs \subseteq pipe'.handle
          /\ pipe'.handle \in {{}, Pipeline}
          /\ feedTask'["kiss"] = NoLoop => pipe'.handle = {}
      <3>1. /\ pipe.runs \subseteq pipe.handle /\ pipe.handle \in {{}, Pipeline}
            /\ feedTask["kiss"] = NoLoop /\ pipe.handle # {} => feedPc[c].at = "launch"
        BY <1>6, TurnBefore DEF Launched, Pipeline
      <3>2. feedTask'["kiss"] = NoLoop => d # "kiss" /\ feedTask["kiss"] = NoLoop
        BY <1>3, PktAssumption DEF Feeds
      <3>3. d # "kiss" => pipe' = pipe /\ feedPc[c].at # "launch"
        BY DEF Launched
      <3> QED BY <1>p, <3>1, <3>2, <3>3 DEF Pipeline
    <2>6. "slow" \notin feedEnv.faults => \A e \in Feeds, s \in PktTasks :
            feedLoop'[e][s] \notin {"cancelled", "leaving"}
      BY <1>3, <1>6, TurnBefore DEF Joining, Launched
    <2>7. TurnRight(r)
      BY <1>1, <2>5, <2>6 DEF TurnRight, FreeAgain
    <2> QED BY <1>1, <1>6, <2>3, <2>4, <2>7, TurnSerial DEF Launched
  <1> QED BY <1>4, <1>5, <1>6 DEF Keeps, Launched

LEMMA AprsIsChecksKeeps ==
    ASSUME PktTyped, ShownHold, NEW c \in PktCallers, AprsIsChecks(c)
    PROVE  Keeps(c)
  <1>0. /\ UNCHANGED <<feedTask, feedLoop, feedStop, feedStatus, pipe, feedEnv>>
        /\ feedPc[c].at = "next" /\ ~FeedAlive("is")
    BY DEF AprsIsChecks, Unmoved, Says
  <1>1. PICK r : TookTurn(c, r) /\ r.at = "check"
    BY WaitsTurn DEF AprsIsChecks, Positions
  <1>2. PktTyped'
    BY <1>0, <1>1, TurnTyped DEF PktTyped
  <1>3. ShownHold'
    BY <1>0, <1>1, TurnShown
  <1>4. ASSUME OneByOne, OnlyOne(c) PROVE OneByOne'
    <2>1. ~FeedAlive("is")'
      BY <1>0 DEF FeedAlive
    <2>2. TurnRight(r)
      BY <1>0, <1>1, <1>4, <2>1, TurnBefore DEF TurnRight, Joining, Pipeline
    <2>3. LoopsHeld' /\ ("slow" \notin feedEnv.faults => ReadersShown')
      BY <1>0, <1>4 DEF OneByOne, LoopsHeld, ReadersShown, At
    <2> QED BY <1>0, <1>1, <1>4, <2>2, <2>3, TurnSerial
  <1> QED BY <1>0, <1>2, <1>3, <1>4 DEF Keeps

LEMMA KissLaunchesKeeps ==
    ASSUME PktTyped, ShownHold, NEW c \in PktCallers, KissLaunches(c)
    PROVE  Keeps(c)
  <1>0. /\ UNCHANGED <<feedTask, feedLoop, feedStop, feedStatus, feedEnv>>
        /\ pipe' = [handle |-> Pipeline, runs |-> Pipeline]
        /\ feedPc[c].at = "next" /\ ~FeedAlive("kiss")
    BY DEF KissLaunches, Unmoved, Says
  <1>1. PICK r : TookTurn(c, r) /\ r.at = "launch"
    <2> DEFINE r == [feedPc[c] EXCEPT !.at = "launch"]
    <2>1. IsRequest(r) /\ r.at = "launch"
      BY DEF PktTyped, IsRequest, Positions
    <2>2. ASSUME NEW e \in PktCallers \ {c}
          PROVE  /\ IsRequest(feedPc'[e]) /\ feedPc'[e].at = feedPc[e].at
                 /\ feedPc'[e].todo = feedPc[e].todo /\ feedPc'[e].task = feedPc[e].task
                 /\ feedPc[e] = Resting => feedPc'[e] = Resting
      <3>1. CASE feedPc[e].at \in Pipeline
        <4>1. feedPc'[e] = [feedPc[e] EXCEPT !.stale = TRUE]
          BY <3>1 DEF KissLaunches
        <4>2. feedPc[e] # Resting
          BY <3>1, RestingTyped DEF Pipeline
        <4>3. IsRequest(feedPc[e])
          BY DEF PktTyped
        <4>4. /\ IsRequest(feedPc'[e]) /\ feedPc'[e].at = feedPc[e].at
              /\ feedPc'[e].todo = feedPc[e].todo /\ feedPc'[e].task = feedPc[e].task
          BY <4>1, <4>3 DEF IsRequest
        <4> QED BY <4>2, <4>4
      <3>2. CASE feedPc[e].at \notin Pipeline
        BY <3>2 DEF KissLaunches, PktTyped
      <3> QED BY <3>1, <3>2
    <2>3. DOMAIN feedPc' = PktCallers /\ feedPc'[c] = r
      BY DEF KissLaunches
    <2> HIDE DEF r
    <2> QED BY <2>1, <2>2, <2>3 DEF TookTurn
  <1>2. PktTyped'
    BY <1>0, <1>1, TurnTyped DEF PktTyped
  <1>3. ShownHold'
    BY <1>0, <1>1, TurnShown
  <1>4. ASSUME OneByOne, OnlyOne(c) PROVE OneByOne'
    <2>1. ~FeedAlive("kiss")'
      BY <1>0 DEF FeedAlive
    <2>2. TurnRight(r)
      BY <1>0, <1>1, <1>4, <2>1, TurnBefore DEF TurnRight, Joining
    <2>3. LoopsHeld' /\ ("slow" \notin feedEnv.faults => ReadersShown')
      BY <1>0, <1>4 DEF OneByOne, LoopsHeld, ReadersShown, At
    <2> QED BY <1>0, <1>1, <1>4, <2>2, <2>3, TurnSerial
  <1> QED BY <1>0, <1>2, <1>3, <1>4 DEF Keeps

\* A cancellation takes a loop out of the reach of the next ones.
LEMMA CancelledStops ==
    ASSUME NEW d, NEW was, NEW where \in CancelledAt(d, was)
    PROVE  /\ where \in Stopped
           /\ was = "gone" <=> where = "gone"
  BY DEF CancelledAt, Stopped

LEMMA StopAskedKeeps ==
    ASSUME PktTyped, ShownHold, NEW c \in PktCallers, NEW d \in Feeds, StopAsked(c, d)
    PROVE  Keeps(c)
  <1>0. /\ UNCHANGED <<feedTask, feedStatus, pipe, feedEnv>>
        /\ feedPc[c].at = "next" /\ Word(c) = <<"stop", d>>
        /\ feedTask[d] \in PktTasks
    BY DEF StopAsked, Says, Word, PktTyped
  <1> DEFINE t == feedTask[d]
  <1>1. PICK r : /\ TookTurn(c, r) /\ r.at = "join" /\ r.task = t
                 /\ r.todo = feedPc[c].todo
    BY <1>0, WaitsTurn DEF StopAsked, Positions
  <1>2. PICK where \in CancelledAt(d, feedLoop[d][t]) :
          feedLoop' = [feedLoop EXCEPT ![d][t] = where]
    BY DEF StopAsked, Goes
  <1> HIDE DEF t
  <1>3. where \in Stopped /\ (feedLoop[d][t] = "gone" <=> where = "gone")
    BY CancelledStops
  <1>4. /\ feedLoop' \in Loops /\ feedLoop'[d][t] = where
        /\ \A e \in Feeds, s \in PktTasks : e # d \/ s # t => feedLoop'[e][s] = feedLoop[e][s]
    BY <1>0, <1>2, <1>3 DEF PktTyped, Loops, LoopStates, Stopped, t
  <1>5. PktTyped'
    <2>1. feedStop' \in [Feeds -> BOOLEAN]
      <3>1. feedStop' = [feedStop EXCEPT ![d] = (d # "ssb")]
        BY DEF StopAsked
      <3>2. CASE d = "ssb"
        BY <3>1, <3>2 DEF PktTyped
      <3>3. CASE d # "ssb"
        BY <3>1, <3>3 DEF PktTyped
      <3> QED BY <3>2, <3>3
    <2> QED BY <2>1, <1>0, <1>1, <1>4, TurnTyped DEF PktTyped
  <1>6. ShownHold'
    <2>1. Head(r.todo) = <<"stop", d>> /\ Waiting(d, "join")'
      BY <1>0, <1>1 DEF Word, Waiting, TookTurn
    <2>2. ASSUME NEW e \in Feeds \ {"ssb"}, feedStatus'[e].connected, e # d
          PROVE  \/ \E s \in PktTasks : feedLoop'[e][s] \in {"reading", "closing", "leaving"}
                 \/ Waiting(e, "join")'
      <3>1. \/ \E s \in PktTasks : feedLoop[e][s] \in {"reading", "closing", "leaving"}
            \/ Waiting(e, "join")
        BY <1>0, <2>2 DEF ShownHold
      <3>2. Waiting(e, "join") => Waiting(e, "join")'
        BY <1>0, <1>1 DEF Waiting, TookTurn
      <3> QED BY <1>4, <2>2, <3>1, <3>2
    <2> QED BY <2>1, <2>2 DEF ShownHold
  <1>7. ASSUME OneByOne, OnlyOne(c) PROVE OneByOne'
    <2>1. LoopsHeld'
      BY <1>0, <1>3, <1>4, <1>7 DEF OneByOne, LoopsHeld
    <2>2. "slow" \notin feedEnv.faults => ReadersShown'
      BY <1>0, <1>3, <1>4, <1>7 DEF OneByOne, ReadersShown, At, Stopped
    <2>3. Head(r.todo) = <<"stop", d>> /\ \A e \in Feeds : Head(r.todo) = <<"stop", e>> => e = d
      BY <1>0, <1>1 DEF Word
    <2>4. "slow" \notin feedEnv.faults =>
            \A e \in Feeds, s \in PktTasks : feedLoop'[e][s] \in {"cancelled", "leaving"}
               => e = d /\ s = t
      BY <1>0, <1>4, <1>7, TurnBefore DEF Joining
    <2>5. feedTask'[d] = t /\ t # NoLoop
      BY <1>0, PktAssumption DEF t
    <2>6. TurnRight(r)
      <3>1. /\ pipe'.runs \subseteq pipe'.handle /\ pipe'.handle \in {{}, Pipeline}
            /\ feedTask'["kiss"] = NoLoop => pipe'.handle = {}
        BY <1>0, <1>7, TurnBefore DEF Pipeline
      <3>2. \A e \in Feeds : Head(r.todo) = <<"stop", e>> =>
              r.task = feedTask'[e] /\ feedTask'[e] # NoLoop
              /\ feedLoop'[e][feedTask'[e]] \in Stopped
        BY <1>1, <1>3, <1>4, <2>3, <2>5
      <3> QED BY <1>1, <2>3, <2>4, <3>1, <3>2 DEF TurnRight
    <2> QED BY <1>0, <1>1, <1>7, <2>1, <2>2, <2>6, TurnSerial
  <1> QED BY <1>0, <1>5, <1>6, <1>7 DEF Keeps

LEMMA ReapsNextTurn ==
    ASSUME PktTyped, NEW c \in PktCallers, NEW left, ReapsNext(c, left)
    PROVE  \E r : /\ TookTurn(c, r) /\ ~r.stale
                  /\ \/ left = {} /\ FreeAgain(r)
                     \/ left # {} /\ r.at = IF "rtl_fm" \in left THEN "rtl_fm" ELSE "direwolf"
  <1>1. CASE left = {}
    BY <1>1, WordDoneTurn DEF ReapsNext, FreeAgain
  <1>2. CASE left # {}
    <2> DEFINE at == IF "rtl_fm" \in left THEN "rtl_fm" ELSE "direwolf"
    <2>1. at \in Positions /\ WaitsAt(c, at, NoLoop)
      BY <1>2 DEF ReapsNext, Positions
    <2> QED BY <1>2, <2>1, WaitsTurn
  <1> QED BY <1>1, <1>2

LEMMA StopJoinedKeeps ==
    ASSUME PktTyped, ShownHold, NEW c \in PktCallers, NEW d \in Feeds, StopJoined(c, d)
    PROVE  Keeps(c)
  <1>0. /\ UNCHANGED <<feedLoop, feedStop, pipe, feedEnv>>
        /\ feedPc[c].at = "join" /\ Word(c) = <<"stop", d>>
        /\ feedTask' = [feedTask EXCEPT ![d] = NoLoop]
        /\ "slow" \in feedEnv.faults \/ feedLoop[d][feedPc[c].task] = "gone"
    BY DEF StopJoined, Word, At
  <1>1. /\ feedTask' \in [Feeds -> PktTasks \cup {NoLoop}] /\ feedTask'[d] = NoLoop
        /\ \A e \in Feeds \ {d} : feedTask'[e] = feedTask[e]
    BY <1>0 DEF PktTyped
  <1> DEFINE left == IF d = "kiss" THEN pipe.handle ELSE {}
  <1>2. PICK r : /\ TookTurn(c, r) /\ ~r.stale
                 /\ \/ left = {} /\ FreeAgain(r)
                    \/ left # {} /\ r.at = IF "rtl_fm" \in left THEN "rtl_fm" ELSE "direwolf"
    BY ReapsNextTurn DEF StopJoined
  <1>3. /\ feedStatus' \in Statuses /\ ~feedStatus'[d].connected
        /\ \A e \in Feeds \ {d} : feedStatus'[e] = feedStatus[e]
    <2>1. PICK on : feedStatus' = [feedStatus EXCEPT ![d] = on]
            /\ on = [connected |-> FALSE, enabled |-> d = "kiss" /\ feedStatus[d].enabled]
      BY DEF StopJoined
    <2>2. on \in [connected : BOOLEAN, enabled : BOOLEAN] /\ ~on.connected
      BY <2>1
    <2> QED BY <2>1, <2>2 DEF PktTyped, Statuses
  <1>4. PktTyped'
    BY <1>0, <1>1, <1>2, <1>3, TurnTyped DEF PktTyped
  <1>5. ShownHold'
    <2>1. ASSUME NEW e \in Feeds \ {"ssb"}, feedStatus'[e].connected
          PROVE  \/ \E s \in PktTasks : feedLoop'[e][s] \in {"reading", "closing", "leaving"}
                 \/ Waiting(e, "join")'
      <3>1. e # d /\ feedStatus[e].connected
        BY <1>3, <2>1
      <3>2. \/ \E s \in PktTasks : feedLoop[e][s] \in {"reading", "closing", "leaving"}
            \/ Waiting(e, "join")
        BY <3>1 DEF ShownHold
      <3>3. Waiting(e, "join") => Waiting(e, "join")'
        <4>1. Head(feedPc[c].todo)[2] = d
          BY <1>0 DEF Word
        <4> QED BY <1>2, <3>1, <4>1 DEF Waiting, TookTurn
      <3> QED BY <1>0, <3>2, <3>3
    <2> QED BY <2>1 DEF ShownHold
  <1>6. ASSUME OneByOne, OnlyOne(c) PROVE OneByOne'
    <2>0. /\ feedPc[c].task = feedTask[d] /\ feedTask[d] \in PktTasks
          /\ feedLoop[d][feedTask[d]] \in Stopped
      BY <1>0, <1>6 DEF OneByOne, WaitsRight, PktTyped
    <2>1. \A s \in PktTasks : feedLoop[d][s] \in Stopped
      BY <1>6, <2>0 DEF OneByOne, LoopsHeld
    <2>2. LoopsHeld'
      BY <1>0, <1>1, <1>6, <2>1 DEF OneByOne, LoopsHeld
    <2>3. "slow" \notin feedEnv.faults => ReadersShown'
      BY <1>0, <1>3, <1>6, <2>1 DEF OneByOne, ReadersShown, At, Stopped
    <2>4. "slow" \notin feedEnv.faults => \A e \in Feeds, s \in PktTasks :
            feedLoop'[e][s] \notin {"cancelled", "leaving"}
      <3> SUFFICES ASSUME "slow" \notin feedEnv.faults, NEW e \in Feeds, NEW s \in PktTasks,
                          feedLoop[e][s] \in {"cancelled", "leaving"}
                   PROVE  FALSE
        BY <1>0
      <3>1. Joining(c, e, s)
        BY <1>6, TurnBefore
      <3>2. e = d /\ s = feedPc[c].task
        BY <1>0, <3>1 DEF Joining
      <3> QED BY <1>0, <3>2
    <2>5. TurnRight(r)
      <3>1. /\ pipe.runs \subseteq pipe.handle /\ pipe.handle \in {{}, Pipeline}
            /\ feedTask["kiss"] = NoLoop => pipe.handle = {}
        BY <1>0, <1>6, TurnBefore DEF Pipeline
      <3>2. CASE left = {}
        <4>1. d = "kiss" => pipe.handle = {}
          BY <3>2
        <4>2. feedTask'["kiss"] = NoLoop => pipe.handle = {}
          BY <1>1, <3>1, <4>1 DEF Feeds
        <4> QED BY <1>0, <1>2, <2>4, <3>1, <3>2, <4>2 DEF TurnRight, FreeAgain
      <3>3. CASE left # {}
        <4>1. d = "kiss" /\ pipe.handle = Pipeline /\ r.at = "rtl_fm"
          BY <1>2, <3>1, <3>3 DEF Pipeline
        <4> QED BY <1>0, <1>2, <2>4, <3>1, <4>1 DEF TurnRight, Pipeline
      <3> QED BY <3>2, <3>3
    <2> QED BY <1>0, <1>2, <1>6, <2>2, <2>3, <2>5, TurnSerial
  <1> QED BY <1>0, <1>4, <1>5, <1>6 DEF Keeps

LEMMA ReapedKeeps ==
    ASSUME PktTyped, ShownHold, NEW c \in PktCallers, Reaped(c)
    PROVE  Keeps(c)
  <1>0. /\ UNCHANGED <<feedTask, feedLoop, feedStop, feedStatus, feedEnv>>
        /\ feedPc[c].at \in Pipeline /\ pipe' = Reap(c)
    BY DEF Reaped, Unmoved
  <1>1. /\ pipe' \in [handle : SUBSET Pipeline, runs : SUBSET Pipeline]
        /\ pipe'.handle = pipe.handle \ {feedPc[c].at}
        /\ ~feedPc[c].stale => pipe'.runs = pipe.runs \ {feedPc[c].at}
    BY <1>0 DEF Reap, PktTyped
  <1>2. PICK r : /\ TookTurn(c, r) /\ ~r.stale
                 /\ \/ FreeAgain(r) /\ (feedPc[c].at = "rtl_fm" => "direwolf" \notin pipe.handle)
                    \/ feedPc[c].at = "rtl_fm" /\ r.at = "direwolf"
    <2>1. CASE feedPc[c].at = "rtl_fm"
      BY <2>1, ReapsNextTurn DEF Reaped
    <2>2. CASE feedPc[c].at # "rtl_fm"
      BY <2>2, WordDoneTurn DEF Reaped, FreeAgain
    <2> QED BY <2>1, <2>2
  <1>3. PktTyped'
    BY <1>0, <1>1, <1>2, TurnTyped DEF PktTyped
  <1>4. ShownHold'
    <2>1. feedPc[c].at # "join"
      BY <1>0 DEF Pipeline
    <2> QED BY <1>0, <1>2, <2>1, TurnShown
  <1>5. ASSUME OneByOne, OnlyOne(c) PROVE OneByOne'
    <2>1. /\ feedPc[c].at = "rtl_fm" => pipe.handle = Pipeline
          /\ feedPc[c].at = "direwolf" => pipe.handle = {"direwolf"}
          /\ ~feedPc[c].stale /\ pipe.runs \subseteq pipe.handle
      BY <1>0, <1>5 DEF OneByOne, PipeHeld, Pipeline
    <2>2. "slow" \notin feedEnv.faults => \A e \in Feeds, s \in PktTasks :
            feedLoop'[e][s] \notin {"cancelled", "leaving"}
      BY <1>0, <1>5, TurnBefore DEF Joining, Pipeline
    <2>3. TurnRight(r)
      <3>1. CASE feedPc[c].at = "rtl_fm"
        <4>1. r.at = "direwolf" /\ pipe'.handle = {"direwolf"}
          BY <1>1, <1>2, <2>1, <3>1 DEF Pipeline
        <4> QED BY <1>0, <1>1, <1>2, <2>1, <2>2, <4>1 DEF TurnRight, Pipeline
      <3>2. CASE feedPc[c].at = "direwolf"
        <4>1. FreeAgain(r) /\ pipe'.handle = {} /\ pipe'.runs = {}
          BY <1>1, <1>2, <2>1, <3>2
        <4> QED BY <2>2, <4>1 DEF TurnRight, FreeAgain
      <3> QED BY <1>0, <3>1, <3>2 DEF Pipeline
    <2>4. LoopsHeld' /\ ("slow" \notin feedEnv.faults => ReadersShown')
      BY <1>0, <1>5 DEF OneByOne, LoopsHeld, ReadersShown, At
    <2> QED BY <1>0, <1>2, <1>5, <2>3, <2>4, TurnSerial
  <1> QED BY <1>0, <1>3, <1>4, <1>5 DEF Keeps

LEMMA GoesOnKeeps ==
    ASSUME PktTyped, ShownHold, NEW c \in PktCallers, FeedGoesOn(c)
    PROVE  Keeps(c) /\ feedPc[c].at # "idle"
  <1>s. /\ feedStatus \in Statuses /\ "kiss" \in Feeds /\ "is" \in Feeds
        /\ Pipeline = {"rtl_fm", "direwolf"}
    BY DEF PktTyped, Feeds, Pipeline
  <1>1. ASSUME NEW d \in Feeds, AlreadyRunning(c, d) \/ NotRunning(c, d)
        PROVE  Keeps(c) /\ feedPc[c].at # "idle"
    <2>1. Spoke(c) /\ feedPc[c].at # "idle"
      BY <1>1, <1>s, WordDoneTurn DEF AlreadyRunning, NotRunning, Says, Unmoved, Spoke
    <2> QED BY <2>1, SpokeKeeps
  <1>2. ASSUME NEW d \in Feeds, StartAtOnce(c, d)
        PROVE  Keeps(c) /\ feedPc[c].at # "idle"
    <2>1. Launched(c, d) /\ feedPc[c].at # "idle"
      BY <1>2, WordDoneTurn, CreatedTask DEF StartAtOnce, Says, Launched
    <2> QED BY <2>1, LaunchedKeeps
  <1>3. ASSUME NEW d \in Feeds, StopAsked(c, d) PROVE Keeps(c) /\ feedPc[c].at # "idle"
    BY <1>3, StopAskedKeeps DEF StopAsked, Says
  <1>4. ASSUME NEW d \in Feeds, StopJoined(c, d) PROVE Keeps(c) /\ feedPc[c].at # "idle"
    BY <1>4, StopJoinedKeeps DEF StopJoined
  <1>5. CASE KissLaunches(c)
    BY <1>5, KissLaunchesKeeps DEF KissLaunches, Says
  <1>6. CASE KissStarts(c) \/ KissLaunched(c)
    <2>1. Launched(c, "kiss") /\ feedPc[c].at # "idle"
      BY <1>6, <1>s, WordDoneTurn, CreatedTask DEF KissStarts, KissLaunched, Says, Launched
    <2> QED BY <1>s, <2>1, LaunchedKeeps
  <1>7. CASE AprsIsChecks(c)
    BY <1>7, AprsIsChecksKeeps DEF AprsIsChecks, Says
  <1>8. CASE AprsIsChecked(c)
    <2>1. CASE Unmoved
      <3>1. Spoke(c) /\ feedPc[c].at # "idle"
        BY <1>8, <1>s, <2>1, WordDoneTurn DEF AprsIsChecked, Unmoved, Spoke
      <3> QED BY <3>1, SpokeKeeps
    <2>2. CASE TaskCreated("is")
      <3>1. Launched(c, "is") /\ feedPc[c].at # "idle"
        BY <1>8, <1>s, <2>2, WordDoneTurn, CreatedTask DEF AprsIsChecked, Launched
      <3> QED BY <1>s, <3>1, LaunchedKeeps
    <2> QED BY <1>8, <2>1, <2>2 DEF AprsIsChecked
  <1>9. CASE Reaped(c)
    <2>1. feedPc[c].at # "idle"
      BY <1>9 DEF Reaped, Pipeline
    <2> QED BY <1>9, <2>1, ReapedKeeps
  <1> QED BY <1>1, <1>2, <1>3, <1>4, <1>5, <1>6, <1>7, <1>8, <1>9 DEF FeedGoesOn

LEMMA RequestsKeep ==
    ASSUME PktTyped, ShownHold, NEW c \in PktCallers, FeedRequests(c)
    PROVE  Keeps(c) /\ FeedAsks(c)
  <1>s. feedStatus \in Statuses
    BY DEF PktTyped
  <1>1. ASSUME NEW words, Begins(c, words), FeedAsks(c),
               UNCHANGED <<feedTask, feedLoop, feedStop, pipe, feedEnv>>,
               feedStatus' \in Statuses,
               \A e \in Feeds : feedStatus'[e].connected = feedStatus[e].connected
        PROVE  Keeps(c)
    <2>1. feedPc[c].at = "idle"
      BY <1>1, RestingTyped DEF FeedAsks
    <2>2. Spoke(c)
      BY <1>1, <2>1, BeginsTurn DEF Spoke
    <2> QED BY <2>2, SpokeKeeps
  <1>2. ASSUME NEW words, Request(c, words) PROVE Keeps(c) /\ FeedAsks(c)
    BY <1>1, <1>2, <1>s DEF Request, Unmoved
  <1>3. CASE SettingsOn(c)
    <2>1. PICK words : Begins(c, words)
      BY <1>3 DEF SettingsOn
    <2> QED BY <1>1, <1>3, <1>s, <2>1 DEF SettingsOn, Unmoved
  <1>4. CASE SettingsOff(c)
    <2>1. PICK d \in {"kiss", "lora"} :
            /\ feedStatus' = [feedStatus EXCEPT ![d].enabled = FALSE]
            /\ Begins(c, <<stop(d)>>)
      BY <1>4 DEF SettingsOff
    <2>2. /\ feedStatus' \in Statuses
          /\ \A e \in Feeds : feedStatus'[e].connected = feedStatus[e].connected
      BY <1>s, <2>1 DEF Statuses
    <2> QED BY <1>1, <1>4, <2>1, <2>2 DEF SettingsOff
  <1> QED BY <1>2, <1>3, <1>4 DEF FeedRequests, ScanStartOther, ScanStartSsb, ScanStartAprs,
             ScanStopFeeds, ModeAprs, SlotSsb, SettingsBounce, Shutdown

LEMMA ProcessDiesKeeps ==
    ASSUME PktInv, ProcessDies
    PROVE  PktInv'
  <1>1. /\ UNCHANGED <<feedTask, feedLoop, feedStop, feedStatus, feedPc, feedEnv>>
        /\ \E p : pipe' = [pipe EXCEPT !.runs = @ \ {p}]
    BY DEF ProcessDies, Unmoved
  <1>2. /\ pipe' \in [handle : SUBSET Pipeline, runs : SUBSET Pipeline]
        /\ pipe'.handle = pipe.handle /\ pipe'.runs \subseteq pipe.runs
    BY <1>1 DEF PktInv, PktTyped
  <1>3. PktTyped' /\ ShownHold'
    BY <1>1, <1>2 DEF PktInv, PktTyped, ShownHold, Waiting
  <1>4. OneByOne => OneByOne'
    <2>1. PipeHeld => PipeHeld'
      BY <1>1, <1>2 DEF PipeHeld
    <2>2. (OneRequest => OneRequest') /\ (LoopsHeld => LoopsHeld')
          /\ (ReadersShown => ReadersShown')
      BY <1>1 DEF OneRequest, LoopsHeld, ReadersShown, At
    <2>3. (WaitsRight => WaitsRight') /\ (LeaversJoined => LeaversJoined')
      BY <1>1 DEF WaitsRight, LeaversJoined, Word, Joining, FeedAlive
    <2> QED BY <1>1, <2>1, <2>2, <2>3 DEF OneByOne
  <1> QED BY <1>1, <1>3, <1>4 DEF PktInv

-----------------------------------------------------------------------------
LEMMA PktInvInit == PktInit => PktInv
  <1> SUFFICES ASSUME PktInit PROVE PktInv
    OBVIOUS
  <1>1. PktTyped
    BY RestingTyped DEF PktInit, PktTyped, Loops, LoopStates, Statuses
  <1>2. ShownHold
    BY DEF PktInit, ShownHold
  <1>3. OneByOne
    BY RestingTyped DEF PktInit, OneByOne, OneRequest, LoopsHeld, WaitsRight, PipeHeld,
       LeaversJoined, ReadersShown, At, Stopped, FeedAlive
  <1> QED BY <1>1, <1>2, <1>3 DEF PktInv

LEMMA PktInvStep == PktInv /\ [PktNext]_pktVars => PktInv'
  <1> SUFFICES ASSUME PktInv, [PktNext]_pktVars PROVE PktInv'
    OBVIOUS
  <1>0. PktTyped /\ ShownHold
    BY DEF PktInv
  <1>1. CASE UNCHANGED pktVars
    <2>1. (PktTyped => PktTyped') /\ (ShownHold => ShownHold')
      BY <1>1 DEF pktVars, PktTyped, ShownHold, Waiting
    <2>2. (OneRequest => OneRequest') /\ (LoopsHeld => LoopsHeld')
          /\ (ReadersShown => ReadersShown') /\ (PipeHeld => PipeHeld')
      BY <1>1 DEF pktVars, OneRequest, LoopsHeld, ReadersShown, PipeHeld, At
    <2>3. (WaitsRight => WaitsRight') /\ (LeaversJoined => LeaversJoined')
      BY <1>1 DEF pktVars, WaitsRight, LeaversJoined, Word, Joining, FeedAlive
    <2> QED BY <1>1, <2>1, <2>2, <2>3 DEF pktVars, PktInv, OneByOne
  <1>2. ASSUME NEW d \in Feeds, NEW t \in PktTasks,
               LoopSteps(d, t) \/ Connects(d, t) \/ LoopFails(d, t)
               \/ (d = "is" /\ LoginRefused(t))
        PROVE  PktInv'
    <2>1. PICK where \in LoopStates : FeedMoved(d, t, where)
      BY <1>0, <1>2, FeedLoopMoves
    <2>2. PktTyped' /\ ShownHold' /\ (OneByOne => OneByOne') /\ feedEnv' = feedEnv
      BY <1>0, <2>1, FeedMovedTyped, FeedMovedShown, FeedMovedSerial DEF FeedMoved
    <2> QED BY <2>2 DEF PktInv
  <1>3. ASSUME NEW c \in PktCallers, FeedGoesOn(c) PROVE PktInv'
    <2>1. Keeps(c) /\ feedPc[c] # Resting
      BY <1>0, <1>3, GoesOnKeeps, RestingTyped
    <2>2. OneByOne => OnlyOne(c)
      BY <2>1 DEF OneByOne, OneRequest, OnlyOne
    <2> QED BY <2>1, <2>2 DEF Keeps, PktInv
  <1>4. ASSUME NEW c \in PktCallers, FeedRequests(c) PROVE PktInv'
    <2>1. Keeps(c) /\ FeedAsks(c)
      BY <1>0, <1>4, RequestsKeep
    <2>2. ~feedEnv.overlap => OnlyOne(c)
      BY <2>1 DEF FeedAsks, OnlyOne
    <2> QED BY <2>1, <2>2 DEF Keeps, PktInv
  <1>5. CASE ProcessDies
    BY <1>5, ProcessDiesKeeps
  <1>6. "is" \in Feeds
    BY DEF Feeds
  <1> QED BY <1>1, <1>2, <1>3, <1>4, <1>5, <1>6 DEF PktNext

LEMMA PktInvHolds == PktSpec => []PktInv
  BY PktInvInit, PktInvStep, PTL DEF PktSpec

\* With requests that come one by one, also when a stop has given up waiting, a
\* loop of a packet decoder that nobody has cancelled is the task the module holds.
THEOREM NoFeedStrays == PktSpec => []NoStrayFeed
  <1>1. PktInv => NoStrayFeed
    BY DEF PktInv, OneByOne, LoopsHeld, Stopped, NoStrayFeed
  <1> QED BY <1>1, PktInvHolds, PTL

\* With requests that come one by one, also when processes die or do not start,
\* no rtl_fm or direwolf of ours runs without the reference that stops it, and
\* none is left once KISS is stopped.
THEOREM PipelineIsFreed == PktSpec => []PipelineFreed
  <1>1. PktInv => PipelineFreed
    <2>1. OneByOne /\ feedTask["kiss"] = NoLoop /\ pipe.runs # {} => pipe.handle # {}
      BY DEF OneByOne, PipeHeld
    <2> QED BY <2>1 DEF PktInv, OneByOne, PipeHeld, PipelineFreed
  <1> QED BY <1>1, PktInvHolds, PTL

\* A decoder is shown connected only while a loop of it holds a connection or a
\* stop is about to correct the status, however requests overlap; and a loop
\* that reads is shown, unless an older one has outlasted its stop.
THEOREM ConnectionsShownTruthfully == PktSpec => []ConnectedTruthfully
  <1>1. PktInv => ConnectedTruthfully
    BY DEF PktInv, ShownHold, OneByOne, ReadersShown, ConnectedTruthfully
  <1> QED BY <1>1, PktInvHolds, PTL

Vocabulary == {"start", "stop"} \X Feeds

\* A request says what the code knows, and is over when nothing is left to say.
WordsTyped ==
    \A c \in PktCallers : /\ feedPc[c].todo \in Seq(Vocabulary)
                          /\ feedPc[c].at # "idle" => feedPc[c].todo # <<>>

LEMMA ConfiguredTyped ==
    ASSUME NEW words \in Seq(Vocabulary)
    PROVE  Configured(words) \in Seq(Vocabulary)
  <1> DEFINE G(r, n) == IF words[n][2] \in feedEnv.uses THEN Append(r, words[n]) ELSE r
             Is(f, m) == f = [n \in 0 .. m |-> IF n = 0 THEN <<>> ELSE G(f[n - 1], n)]
             T == {m \in Nat : \E f : Is(f, m)}
             L == Len(words)
  <1>1. L \in Nat /\ \A n \in 1 .. L : words[n] \in Vocabulary
    OBVIOUS
  <1> HIDE DEF L
  <1>2. \A r \in Seq(Vocabulary) : \A n \in 1 .. L : G(r, n) \in Seq(Vocabulary)
    BY <1>1
  <1> HIDE DEF G
  <1>3. 0 \in T
    <2>1. Is([n \in 0 .. 0 |-> <<>>], 0)
      OBVIOUS
    <2> QED BY <2>1
  <1>4. ASSUME NEW m \in Nat, m \in T PROVE m + 1 \in T
    <2>1. PICK f : f = [n \in 0 .. m |-> IF n = 0 THEN <<>> ELSE G(f[n - 1], n)]
      BY <1>4
    <2> DEFINE g == [n \in 0 .. m + 1 |-> IF n = m + 1 THEN G(f[m], m + 1) ELSE f[n]]
    <2>2. \A n \in 0 .. m + 1 : g[n] = IF n = 0 THEN <<>> ELSE G(g[n - 1], n)
      <3> SUFFICES ASSUME NEW n \in 0 .. m + 1
                   PROVE  g[n] = IF n = 0 THEN <<>> ELSE G(g[n - 1], n)
        OBVIOUS
      <3>1. CASE n = m + 1
        BY <3>1
      <3>2. CASE n # m + 1
        <4>1. n \in 0 .. m
          BY <3>2
        <4>2. f[n] = IF n = 0 THEN <<>> ELSE G(f[n - 1], n)
          BY <2>1, <4>1
        <4>3. n # 0 => g[n - 1] = f[n - 1]
          BY <4>1
        <4> QED BY <3>2, <4>2, <4>3
      <3> QED BY <3>1, <3>2
    <2>3. Is(g, m + 1)
      <3>1. g = [n \in 0 .. m + 1 |-> g[n]]
        OBVIOUS
      <3> HIDE DEF g
      <3> QED BY <2>2, <3>1
    <2> HIDE DEF Is, g
    <2> QED BY <2>3
  <1>5. L \in T
    <2> HIDE DEF T
    <2> QED BY <1>1, <1>3, <1>4, SetInduction
  <1> DEFINE first == CHOOSE f : Is(f, L)
  <1>6. Is(first, L)
    <2> HIDE DEF Is
    <2> QED BY <1>5
  <1>7. Configured(words) = first[L]
    <2>1. Configured(words) = (CHOOSE f : Is(f, L))[L]
      BY DEF Configured, G, L
    <2> HIDE DEF Is
    <2> QED BY <2>1
  <1>8. first = [n \in 0 .. L |-> IF n = 0 THEN <<>> ELSE G(first[n - 1], n)]
    BY <1>6
  <1> HIDE DEF Is, T, first
  <1>9. first[0] = <<>> /\ \A n \in 1 .. L : first[n] = G(first[n - 1], n)
    BY <1>1, <1>8
  <1> DEFINE R == {n \in Nat : n <= L => first[n] \in Seq(Vocabulary)}
  <1>10. 0 \in R
    <2>1. <<>> \in Seq(Vocabulary)
      OBVIOUS
    <2> QED BY <1>9, <2>1
  <1>11. ASSUME NEW n \in Nat, n \in R PROVE n + 1 \in R
    <2> SUFFICES ASSUME n + 1 <= L PROVE first[n + 1] \in Seq(Vocabulary)
      OBVIOUS
    <2>1. n + 1 \in 1 .. L /\ (n + 1) - 1 = n /\ n <= L
      BY <1>1
    <2>2. first[n + 1] = G(first[n], n + 1) /\ first[n] \in Seq(Vocabulary)
      BY <1>9, <1>11, <2>1
    <2> QED BY <1>2, <2>1, <2>2
  <1>12. L \in R
    <2> HIDE DEF R
    <2> QED BY <1>1, <1>10, <1>11, SetInduction
  <1> QED BY <1>1, <1>7, <1>12

LEMMA WordDoneWords ==
    ASSUME PktTyped, WordsTyped, NEW c \in PktCallers, feedPc[c].at # "idle", WordDone(c)
    PROVE  WordsTyped'
  <1>1. feedPc[c].todo \in Seq(Vocabulary) /\ feedPc[c].todo # <<>>
    BY DEF WordsTyped
  <1>2. CASE Len(feedPc[c].todo) = 1
    BY <1>2 DEF WordDone, WordsTyped, PktTyped, Resting
  <1>3. CASE Len(feedPc[c].todo) # 1
    <2>1. Tail(feedPc[c].todo) \in Seq(Vocabulary) /\ Tail(feedPc[c].todo) # <<>>
      <3> DEFINE s == feedPc[c].todo
      <3>1. Len(s) \in Nat \ {0} /\ Len(s) # 1
        BY <1>1, <1>3, EmptySeq
      <3>2. Tail(s) \in Seq(Vocabulary) /\ Len(Tail(s)) = Len(s) - 1
        BY <1>1, HeadTailProperties
      <3>3. Len(<<>>) = 0
        OBVIOUS
      <3> HIDE DEF s
      <3>4. Tail(s) # <<>>
        <4>1. Len(Tail(s)) # 0
          BY <3>1, <3>2
        <4> QED BY <3>3, <4>1, Zenon
      <3> QED BY <3>2, <3>4 DEF s
    <2> DEFINE r == [Resting EXCEPT !.todo = Tail(feedPc[c].todo), !.at = "next"]
    <2>2. r.todo = Tail(feedPc[c].todo)
      BY DEF Resting
    <2>3. feedPc' = [feedPc EXCEPT ![c] = r]
      BY <1>3 DEF WordDone
    <2> HIDE DEF r
    <2> QED BY <2>1, <2>2, <2>3 DEF WordsTyped, PktTyped
  <1> QED BY <1>2, <1>3

LEMMA WaitsWords ==
    ASSUME PktTyped, WordsTyped, NEW c \in PktCallers, feedPc[c].at # "idle", NEW where, NEW t,
           WaitsAt(c, where, t)
    PROVE  WordsTyped'
  BY DEF WaitsAt, WordsTyped, PktTyped, IsRequest

LEMMA BeginsWords ==
    ASSUME PktTyped, WordsTyped, NEW c \in PktCallers, NEW words \in Seq(Vocabulary), Begins(c, words)
    PROVE  WordsTyped'
  <1>1. Configured(words) \in Seq(Vocabulary) /\ Configured(words) # <<>>
    BY ConfiguredTyped DEF Begins
  <1> QED BY <1>1 DEF Begins, WordsTyped, PktTyped, Resting

LEMMA GoesOnWords ==
    ASSUME PktTyped, WordsTyped, NEW c \in PktCallers, FeedGoesOn(c)
    PROVE  WordsTyped'
  <1>1. ASSUME NEW d \in Feeds, AlreadyRunning(c, d) \/ StartAtOnce(c, d) \/ NotRunning(c, d)
        PROVE  WordsTyped'
    BY <1>1, WordDoneWords DEF AlreadyRunning, StartAtOnce, NotRunning, Says
  <1>2. ASSUME NEW left, ReapsNext(c, left), feedPc[c].at # "idle" PROVE WordsTyped'
    BY <1>2, WordDoneWords, WaitsWords DEF ReapsNext
  <1>3. ASSUME NEW d \in Feeds, StopAsked(c, d) \/ StopJoined(c, d)
        PROVE  WordsTyped'
    BY <1>2, <1>3, WaitsWords DEF StopAsked, StopJoined, Says
  <1>4. CASE KissLaunches(c)
    BY <1>4 DEF KissLaunches, Says, WordsTyped, PktTyped, IsRequest
  <1>5. CASE KissStarts(c) \/ KissLaunched(c) \/ AprsIsChecked(c)
    BY <1>5, WordDoneWords DEF KissStarts, KissLaunched, AprsIsChecked, Says
  <1>6. CASE AprsIsChecks(c)
    BY <1>6, WaitsWords DEF AprsIsChecks, Says
  <1>7. CASE Reaped(c)
    BY <1>2, <1>7, WordDoneWords DEF Reaped, Pipeline
  <1> QED BY <1>1, <1>3, <1>4, <1>5, <1>6, <1>7 DEF FeedGoesOn

LEMMA RequestsWords ==
    ASSUME PktTyped, WordsTyped, NEW c \in PktCallers, FeedRequests(c)
    PROVE  WordsTyped'
  <1>1. \A d \in Feeds : stop(d) \in Vocabulary /\ start(d) \in Vocabulary
    BY DEF stop, start, Vocabulary
  <1>2. {"kiss", "is", "lora", "ssb"} \subseteq Feeds
    BY DEF Feeds
  <1> HIDE DEF Vocabulary
  <1>3. ASSUME NEW words \in Seq(Vocabulary), Request(c, words) PROVE WordsTyped'
    BY <1>3, BeginsWords DEF Request
  <1>4. CASE SettingsOn(c)
    <2>1. PICK d \in {"kiss", "lora"} : Begins(c, <<start(d)>>)
      BY <1>4 DEF SettingsOn
    <2>2. <<start(d)>> \in Seq(Vocabulary)
      BY <1>1, <1>2
    <2> QED BY <2>1, <2>2, BeginsWords
  <1>5. CASE SettingsOff(c)
    <2>1. PICK d \in {"kiss", "lora"} : Begins(c, <<stop(d)>>)
      BY <1>5 DEF SettingsOff
    <2>2. <<stop(d)>> \in Seq(Vocabulary)
      BY <1>1, <1>2
    <2> QED BY <2>1, <2>2, BeginsWords
  <1>6. CASE ScanStartOther(c) \/ SlotSsb(c) \/ SettingsBounce(c) \/ Shutdown(c)
    <2>1. /\ <<stop("ssb")>> \in Seq(Vocabulary) /\ <<stop("ssb"), start("ssb")>> \in Seq(Vocabulary)
          /\ <<stop("is"), start("is")>> \in Seq(Vocabulary) /\ <<stop("kiss")>> \in Seq(Vocabulary)
      BY <1>1, <1>2
    <2> QED BY <1>3, <1>6, <2>1 DEF ScanStartOther, SlotSsb, SettingsBounce, Shutdown
  <1>7. CASE ScanStartSsb(c) \/ ScanStopFeeds(c) \/ ModeAprs(c)
    <2>1. /\ <<stop("kiss"), stop("is"), start("ssb")>> \in Seq(Vocabulary)
          /\ <<stop("ssb"), stop("kiss"), stop("is")>> \in Seq(Vocabulary)
          /\ <<stop("ssb"), start("kiss"), start("is")>> \in Seq(Vocabulary)
      BY <1>1, <1>2
    <2> QED BY <1>3, <1>7, <2>1 DEF ScanStartSsb, ScanStopFeeds, ModeAprs
  <1>8. CASE ScanStartAprs(c)
    <2>1. <<stop("ssb"), stop("kiss"), stop("is"), start("kiss"), start("is")>> \in Seq(Vocabulary)
      BY <1>1, <1>2
    <2> QED BY <1>3, <1>8, <2>1 DEF ScanStartAprs
  <1> QED BY <1>4, <1>5, <1>6, <1>7, <1>8 DEF FeedRequests

LEMMA WordsKept == PktSpec => [](PktInv /\ WordsTyped)
  <1>1. PktInit => WordsTyped
    <2> SUFFICES ASSUME PktInit, NEW c \in PktCallers
                 PROVE  feedPc[c].todo \in Seq(Vocabulary) /\ feedPc[c].at = "idle"
      BY DEF WordsTyped
    <2>1. feedPc[c] = Resting
      BY DEF PktInit
    <2>2. Resting.todo = <<>> /\ Resting.at = "idle"
      BY DEF Resting
    <2> QED BY <2>1, <2>2
  <1>2. PktInv /\ WordsTyped /\ [PktNext]_pktVars => WordsTyped'
    <2> SUFFICES ASSUME PktTyped, WordsTyped, [PktNext]_pktVars PROVE WordsTyped'
      BY DEF PktInv
    <2>1. ASSUME UNCHANGED feedPc PROVE WordsTyped'
      BY <2>1 DEF WordsTyped
    <2>2. ASSUME NEW d \in Feeds, NEW t \in PktTasks,
                 LoopSteps(d, t) \/ Connects(d, t) \/ LoopFails(d, t) \/ LoginRefused(t)
          PROVE  UNCHANGED feedPc
      BY <2>2 DEF LoopSteps, LoopFails, LoopTop, SeesStop, Closes, Ends, Leaves, Connects, ConnectFails,
         PeerCloses, ReadFails, LoginRefused, LoopOnly
    <2>3. CASE ProcessDies
      BY <2>1, <2>3 DEF ProcessDies
    <2>4. CASE UNCHANGED pktVars
      BY <2>1, <2>4 DEF pktVars
    <2>5. "is" \in Feeds
      BY DEF Feeds
    <2> QED BY <2>1, <2>2, <2>3, <2>4, <2>5, GoesOnWords, RequestsWords DEF PktNext
  <1> QED BY PktInvHolds, <1>1, <1>2, PTL DEF PktSpec

LEMMA PktKeepsTypes == PktSpec => []PktTypeOK
  <1>1. PktInv /\ WordsTyped => PktTypeOK
    BY DEF PktInv, PktTyped, WordsTyped, PktTypeOK, IsRequest, Positions, Vocabulary, Loops, Statuses
  <1> QED BY <1>1, WordsKept, PTL

-----------------------------------------------------------------------------
(***************************************************************************)
(* The queue and the slots of IqWindows.                                   *)
(***************************************************************************)
InOrder(q) == \A i, j \in 1 .. Len(q) : i < j => q[i].at < q[j].at
Recorded(q) == \A i \in 1 .. Len(q) : q[i].at < iqNow

\* recorded in the slot, on its band, and not while the front end settled
OfSlot(block) ==
    /\ slotLoop.start <= block.at /\ block.hz = slotLoop.band
    /\ block.at >= tuned.since + SettleTicks

SlotPcs == {"off", "wait", "settle", "collect", "detect"}
SlotLoops == [pc : SlotPcs, start : Nat, band : 1 .. SlotBands, count : 0 .. BandSlots - 1,
              parked : 0 .. SlotBands, audio : Seq(Blocks)]
CwAudios == [lo : 0 .. CwLast, hi : 0 .. CwLast, last : 0 .. CwLast, next : 0 .. CwLast,
             overlap : CwOverlaps]

IqTyped ==
    /\ iqNow \in 0 .. LastTick
    /\ tuned \in [hz : 0 .. SlotBands, since : 0 .. LastTick] /\ tuned.since <= iqNow
    /\ iqQueue \in Seq(Blocks) /\ Len(iqQueue) <= ListenerCap
    /\ slotLoop \in SlotLoops /\ Len(slotLoop.audio) <= CollectTicks
    /\ cwAudio \in CwAudios /\ cwAudio.lo <= cwAudio.hi

\* A band that is parked is tuned, and has settled unless the loop waits for that.
BandTuned ==
    /\ slotLoop.parked # 0 =>
         /\ slotLoop.pc # "off" /\ tuned.hz = slotLoop.parked
         /\ slotLoop.pc # "settle" => iqNow >= tuned.since + SettleTicks
    /\ slotLoop.pc \in {"settle", "collect", "detect"} =>
         slotLoop.parked = slotLoop.band /\ iqNow >= slotLoop.start

\* While a slot is collected, what has been taken and what waits belong to it.
QueueOfSlot ==
    /\ InOrder(iqQueue) /\ Recorded(iqQueue)
    /\ slotLoop.pc = "collect" => \A i \in 1 .. Len(iqQueue) : OfSlot(iqQueue[i])

AudioOfSlot ==
    /\ slotLoop.pc \in {"off", "wait", "settle"} => slotLoop.audio = <<>>
    /\ slotLoop.pc \in {"collect", "detect"} =>
         /\ InOrder(slotLoop.audio)
         /\ \A i \in 1 .. Len(slotLoop.audio) :
              /\ OfSlot(slotLoop.audio[i]) /\ slotLoop.audio[i].at < Deadline
              /\ slotLoop.audio[i].at < iqNow
    /\ slotLoop.pc = "collect" =>
         \A i \in 1 .. Len(slotLoop.audio), j \in 1 .. Len(iqQueue) :
           slotLoop.audio[i].at < iqQueue[j].at

IqInv == IqTyped /\ BandTuned /\ QueueOfSlot /\ AudioOfSlot /\ NoSampleSkipped

-----------------------------------------------------------------------------
LEMMA AppendTo ==
    ASSUME NEW S, NEW q \in Seq(S), NEW e \in S
    PROVE  /\ Append(q, e) \in Seq(S) /\ Len(Append(q, e)) = Len(q) + 1
           /\ \A i \in 1 .. Len(q) : Append(q, e)[i] = q[i]
           /\ Append(q, e)[Len(q) + 1] = e
  OBVIOUS

LEMMA TailOf ==
    ASSUME NEW S, NEW q \in Seq(S), q # <<>>
    PROVE  /\ Head(q) \in S /\ Head(q) = q[1] /\ Len(q) \in Nat \ {0}
           /\ Tail(q) \in Seq(S) /\ Len(Tail(q)) = Len(q) - 1
           /\ \A i \in 1 .. Len(Tail(q)) : Tail(q)[i] = q[i + 1]
  OBVIOUS

LEMMA BlockNumbers == \A b \in Blocks : b.at \in Nat
  BY IqAssumption DEF Blocks

LEMMA InOrderAppend ==
    ASSUME NEW q \in Seq(Blocks), NEW b \in Blocks, InOrder(q),
           \A i \in 1 .. Len(q) : q[i].at < b.at
    PROVE  InOrder(Append(q, b))
  <1> DEFINE r == Append(q, b)
  <1>1. /\ Len(q) \in Nat /\ Len(r) = Len(q) + 1 /\ r[Len(q) + 1] = b
        /\ \A i \in 1 .. Len(q) : r[i] = q[i]
    BY AppendTo
  <1> SUFFICES ASSUME NEW i \in 1 .. Len(r), NEW j \in 1 .. Len(r), i < j
               PROVE  r[i].at < r[j].at
    BY DEF InOrder
  <1> HIDE DEF r
  <1>2. i \in 1 .. Len(q) /\ r[i] = q[i]
    BY <1>1
  <1>3. CASE j \in 1 .. Len(q)
    BY <1>1, <1>2, <1>3 DEF InOrder
  <1>4. CASE j = Len(q) + 1
    BY <1>1, <1>2, <1>4
  <1> QED BY <1>1, <1>3, <1>4

LEMMA InOrderTail ==
    ASSUME NEW q \in Seq(Blocks), q # <<>>, InOrder(q)
    PROVE  InOrder(Tail(q)) /\ \A i \in 1 .. Len(Tail(q)) : Head(q).at < Tail(q)[i].at
  <1>1. /\ Len(q) \in Nat \ {0} /\ Len(Tail(q)) = Len(q) - 1 /\ Head(q) = q[1]
        /\ \A i \in 1 .. Len(Tail(q)) : Tail(q)[i] = q[i + 1]
    BY TailOf
  <1>2. ASSUME NEW i \in 1 .. Len(Tail(q)), NEW j \in 1 .. Len(Tail(q)), i < j
        PROVE  Tail(q)[i].at < Tail(q)[j].at
    <2>1. i + 1 \in 1 .. Len(q) /\ j + 1 \in 1 .. Len(q) /\ i + 1 < j + 1
      BY <1>1, <1>2
    <2> QED BY <1>1, <2>1 DEF InOrder
  <1>3. ASSUME NEW i \in 1 .. Len(Tail(q)) PROVE Head(q).at < Tail(q)[i].at
    <2>1. 1 \in 1 .. Len(q) /\ i + 1 \in 1 .. Len(q) /\ 1 < i + 1
      BY <1>1
    <2> QED BY <1>1, <2>1 DEF InOrder
  <1> QED BY <1>2, <1>3 DEF InOrder

LEMMA IqInvInit == IqInit => IqInv
  <1> SUFFICES ASSUME IqInit PROVE IqInv
    OBVIOUS
  <1> USE IqAssumption
  <1>1. PICK n \in CwOverlaps :
            cwAudio = [lo |-> 0, hi |-> 0, last |-> 0, next |-> 0, overlap |-> n]
    BY DEF IqInit
  <1>2. cwAudio \in CwAudios /\ cwAudio.lo <= cwAudio.hi /\ NoSampleSkipped
    BY <1>1 DEF CwAudios, NoSampleSkipped
  <1>3. CollectTicks \in Nat
    BY DEF CollectTicks
  <1>4. slotLoop \in SlotLoops /\ slotLoop.audio = <<>>
    BY DEF IqInit, SlotLoops, SlotPcs
  <1>5. IqTyped
    BY <1>2, <1>3, <1>4 DEF IqInit, IqTyped
  <1> QED BY <1>2, <1>5 DEF IqInit, IqInv, BandTuned, QueueOfSlot, AudioOfSlot, InOrder, Recorded

\* The numbers of a state.
IqNumbered ==
    /\ iqNow \in Nat /\ LastTick \in Nat /\ tuned.since \in Nat /\ tuned.hz \in Nat
    /\ SlotTicks \in Nat /\ SettleTicks \in Nat /\ GuardTicks \in Nat /\ SlotTicks > 0
    /\ ListenerCap \in Nat /\ ListenerCap > 0 /\ CollectTicks \in Nat /\ CollectTicks > 0
    /\ SlotBands \in Nat /\ SlotBands > 0
    /\ slotLoop.start \in Nat /\ slotLoop.band \in Nat /\ slotLoop.band > 0
    /\ slotLoop.parked \in Nat
    /\ Deadline \in Nat /\ Deadline = slotLoop.start + SlotTicks - GuardTicks
    /\ Len(slotLoop.audio) \in Nat /\ Len(iqQueue) \in Nat
IqListed ==
    /\ slotLoop.audio \in Seq(Blocks)
    /\ \A i \in 1 .. Len(iqQueue) : iqQueue[i] \in Blocks /\ iqQueue[i].at \in Nat
    /\ \A i \in 1 .. Len(slotLoop.audio) :
         slotLoop.audio[i] \in Blocks /\ slotLoop.audio[i].at \in Nat

LEMMA IqNumbers == IqTyped => IqNumbered /\ IqListed
  <1> SUFFICES ASSUME IqTyped PROVE IqNumbered /\ IqListed
    OBVIOUS
  <1>1. \A b \in Blocks : b.at \in Nat
    BY IqAssumption DEF Blocks
  <1>2. slotLoop.audio \in Seq(Blocks) /\ iqQueue \in Seq(Blocks)
    BY DEF IqTyped, SlotLoops
  <1>3. /\ Len(iqQueue) \in Nat /\ Len(slotLoop.audio) \in Nat
        /\ \A i \in 1 .. Len(iqQueue) : iqQueue[i] \in Blocks
        /\ \A i \in 1 .. Len(slotLoop.audio) : slotLoop.audio[i] \in Blocks
    BY <1>2
  <1>4. /\ iqNow \in Nat /\ LastTick \in Nat /\ tuned.since \in Nat /\ tuned.hz \in Nat
        /\ SlotTicks \in Nat /\ SettleTicks \in Nat /\ GuardTicks \in Nat /\ SlotTicks > 0
        /\ ListenerCap \in Nat /\ ListenerCap > 0 /\ CollectTicks \in Nat /\ CollectTicks > 0
        /\ SlotBands \in Nat /\ SlotBands > 0
    BY IqAssumption DEF IqTyped, CollectTicks
  <1>5. /\ slotLoop.start \in Nat /\ slotLoop.band \in Nat /\ slotLoop.band > 0
        /\ slotLoop.parked \in Nat
    BY <1>4 DEF IqTyped, SlotLoops
  <1>6. Deadline \in Nat
    BY <1>5, IqAssumption DEF Deadline
  <1> QED BY <1>1, <1>2, <1>3, <1>4, <1>5, <1>6 DEF Deadline, IqNumbered, IqListed

\* A block that arrives is the newest, and of the band that is tuned.
LEMMA IqTickKeeps ==
    ASSUME IqInv, IqTick
    PROVE  IqInv'
  <1>n. IqTyped /\ IqNumbered /\ IqListed
    BY IqNumbers DEF IqInv
  <1>1. IqTyped /\ iqNow < LastTick /\ iqNow' = iqNow + 1
        /\ UNCHANGED <<tuned, slotLoop, cwAudio>>
    BY DEF IqInv, IqTick
  <1>2. PICK block \in Blocks : block = [at |-> iqNow, hz |-> tuned.hz]
    BY <1>1 DEF IqTyped, Blocks
  <1>3. block.at = iqNow /\ block.hz = tuned.hz
    BY <1>2
  <1>4. BandTuned' /\ NoSampleSkipped'
    BY <1>1, <1>n DEF IqNumbered, IqInv, BandTuned, NoSampleSkipped
  <1>l. IqListed /\ \A k \in Nat : k < iqNow => k < iqNow'
    BY <1>1, <1>n DEF IqNumbered
  <1>5. CASE iqQueue' = iqQueue
    <2>1. IqTyped'
      BY <1>1, <1>5, <1>n DEF IqNumbered, IqTyped
    <2>2. QueueOfSlot'
      BY <1>1, <1>5, <1>l DEF IqInv, QueueOfSlot, IqListed, InOrder, Recorded, OfSlot
    <2>3. AudioOfSlot'
      BY <1>1, <1>5, <1>l DEF IqInv, AudioOfSlot, IqListed, InOrder, OfSlot, Deadline
    <2> QED BY <1>4, <2>1, <2>2, <2>3 DEF IqInv
  <1>6. CASE iqQueue' = Append(iqQueue, block) /\ Len(iqQueue) < ListenerCap
             /\ slotLoop.pc # "off"
    <2>1. /\ iqQueue' \in Seq(Blocks) /\ Len(iqQueue') = Len(iqQueue) + 1
          /\ \A i \in 1 .. Len(iqQueue) : iqQueue'[i] = iqQueue[i]
          /\ iqQueue'[Len(iqQueue) + 1] = block
      BY <1>1, <1>6, AppendTo DEF IqTyped
    <2>2. IqTyped'
      <3>1. iqNow' \in 0 .. LastTick /\ tuned.since <= iqNow' /\ Len(iqQueue') <= ListenerCap
        BY <1>1, <1>6, <2>1, <1>n DEF IqNumbered, IqTyped
      <3> QED BY <1>1, <2>1, <3>1 DEF IqTyped
    <2>3. \A i \in 1 .. Len(iqQueue') :
            i \in 1 .. Len(iqQueue) \/ (i = Len(iqQueue) + 1 /\ iqQueue'[i] = block)
      BY <1>1, <2>1, <1>n DEF IqNumbered
    <2>4. InOrder(iqQueue') /\ Recorded(iqQueue)'
      <3>1. InOrder(iqQueue) /\ \A i \in 1 .. Len(iqQueue) : iqQueue[i].at < block.at
        BY <1>3 DEF IqInv, QueueOfSlot, Recorded
      <3>2. InOrder(iqQueue')
        BY <1>6, <1>n, <3>1, InOrderAppend DEF IqTyped
      <3>3. ASSUME NEW i \in 1 .. Len(iqQueue') PROVE iqQueue'[i].at < iqNow'
        <4>1. CASE i \in 1 .. Len(iqQueue)
          <5>1. iqQueue[i].at \in Nat /\ iqQueue[i].at < iqNow
            BY <3>1, <4>1, <1>3, <1>n DEF IqListed
          <5> QED BY <1>1, <2>1, <4>1, <5>1, <1>n DEF IqNumbered
        <4>2. CASE iqQueue'[i] = block
          BY <1>1, <1>3, <4>2, <1>n DEF IqNumbered
        <4> QED BY <2>3, <4>1, <4>2
      <3> QED BY <3>2, <3>3 DEF Recorded
    <2>5. ASSUME slotLoop.pc = "collect" PROVE OfSlot(block)
      BY <1>1, <1>3, <2>5, <1>n DEF IqNumbered, IqInv, BandTuned, OfSlot
    <2>6. QueueOfSlot'
      <3>1. ASSUME slotLoop.pc = "collect", NEW i \in 1 .. Len(iqQueue')
            PROVE  OfSlot(iqQueue'[i])
        BY <2>1, <2>3, <2>5, <3>1 DEF IqInv, QueueOfSlot
      <3>2. slotLoop' = slotLoop /\ tuned' = tuned
        BY <1>1
      <3> QED BY <2>4, <3>1, <3>2 DEF QueueOfSlot, OfSlot
    <2>7. AudioOfSlot'
      <3>1. ASSUME NEW i \in 1 .. Len(slotLoop.audio), slotLoop.audio[i].at < iqNow
            PROVE  slotLoop.audio[i].at < iqNow'
        BY <1>l, <3>1 DEF IqListed
      <3>2. ASSUME slotLoop.pc = "collect", NEW i \in 1 .. Len(slotLoop.audio),
                   NEW j \in 1 .. Len(iqQueue')
            PROVE  slotLoop.audio[i].at < iqQueue'[j].at
        BY <1>3, <2>1, <2>3, <3>2 DEF IqInv, AudioOfSlot
      <3>3. slotLoop' = slotLoop /\ tuned' = tuned
        BY <1>1
      <3> QED BY <3>1, <3>2, <3>3 DEF IqInv, AudioOfSlot, OfSlot, Deadline
    <2> QED BY <1>4, <2>2, <2>6, <2>7 DEF IqInv
  <1> QED BY <1>2, <1>5, <1>6 DEF IqTick, Offered

-----------------------------------------------------------------------------
\* A step of the slots that leaves the clock and the sessions alone keeps the
\* invariant if it keeps the types and what each conjunct says of the slot.
SlotMoved ==
    /\ iqNow' = iqNow /\ cwAudio' = cwAudio
    /\ tuned' \in [hz : 0 .. SlotBands, since : 0 .. LastTick] /\ tuned'.since <= iqNow
    /\ iqQueue' \in Seq(Blocks) /\ Len(iqQueue') <= ListenerCap
    /\ slotLoop' \in SlotLoops /\ Len(slotLoop'.audio) <= CollectTicks

LEMMA SlotMovedTyped ==
    ASSUME IqInv, SlotMoved
    PROVE  IqTyped' /\ NoSampleSkipped'
  BY DEF IqInv, SlotMoved, IqTyped, NoSampleSkipped

LEMMA SlotsOnKeeps ==
    ASSUME IqInv, SlotsOn
    PROVE  IqInv'
  <1>n. IqTyped /\ IqNumbered /\ IqListed
    BY IqNumbers DEF IqInv
  <1>1. slotLoop.pc = "off" /\ UNCHANGED <<iqNow, tuned, iqQueue, cwAudio>>
    BY DEF SlotsOn
  <1>2. iqNow \div SlotTicks \in Nat
    BY <1>n DEF IqNumbered
  <1>3. NextBoundary \in Nat
    <2>1. \A k, m \in Nat : (k + 1) * m \in Nat
      OBVIOUS
    <2> QED BY <1>2, <1>n, <2>1 DEF NextBoundary, IqNumbered
  <1>4. PICK from \in {NextBoundary, NextBoundary + SlotTicks} :
          slotLoop' = [slotLoop EXCEPT !.pc = "wait", !.start = from, !.band = 1, !.count = 0]
    BY DEF SlotsOn
  <1>5. /\ slotLoop' \in SlotLoops /\ slotLoop'.pc = "wait" /\ slotLoop'.parked = slotLoop.parked
        /\ slotLoop'.audio = slotLoop.audio
    <2>1. slotLoop \in SlotLoops /\ 1 \in 1 .. SlotBands /\ 0 \in 0 .. BandSlots - 1
      BY <1>n, IqAssumption DEF IqTyped
    <2>2. from \in Nat
      BY <1>3, <1>4, IqAssumption
    <2> QED BY <1>4, <2>1, <2>2 DEF SlotLoops, SlotPcs
  <1>6. IqTyped' /\ NoSampleSkipped'
    BY <1>1, <1>5, <1>n, SlotMovedTyped DEF SlotMoved, IqTyped
  <1>7. BandTuned' /\ QueueOfSlot' /\ AudioOfSlot'
    BY <1>1, <1>5 DEF IqInv, BandTuned, QueueOfSlot, AudioOfSlot, Recorded
  <1> QED BY <1>6, <1>7 DEF IqInv

LEMMA SlotsOffKeeps ==
    ASSUME IqInv, SlotsOff
    PROVE  IqInv'
  <1>n. IqTyped /\ IqNumbered /\ IqListed
    BY IqNumbers DEF IqInv
  <1>1. slotLoop.pc # "off" /\ UNCHANGED <<iqNow, iqQueue, cwAudio>>
        /\ tuned' = [hz |-> 0, since |-> iqNow]
    BY DEF SlotsOff
  <1>2. /\ slotLoop' \in SlotLoops /\ slotLoop'.pc = "off" /\ slotLoop'.parked = 0
        /\ slotLoop'.audio = <<>>
    <2>1. slotLoop \in SlotLoops /\ 0 \in 0 .. SlotBands /\ <<>> \in Seq(Blocks)
      BY <1>n DEF IqTyped, IqNumbered
    <2> QED BY <2>1 DEF SlotsOff, SlotLoops, SlotPcs
  <1>3. tuned' \in [hz : 0 .. SlotBands, since : 0 .. LastTick] /\ tuned'.since = iqNow
    BY <1>1, <1>n DEF IqNumbered, IqTyped
  <1>4. IqTyped' /\ NoSampleSkipped'
    BY <1>1, <1>2, <1>3, <1>n, SlotMovedTyped DEF SlotMoved, IqTyped, IqNumbered
  <1>5. BandTuned' /\ QueueOfSlot' /\ AudioOfSlot'
    BY <1>1, <1>2 DEF IqInv, BandTuned, QueueOfSlot, AudioOfSlot, Recorded
  <1> QED BY <1>4, <1>5 DEF IqInv

\* The flush leaves nothing of before the slot.
LEMMA SlotBeginsKeeps ==
    ASSUME IqInv, SlotBegins
    PROVE  IqInv'
  <1>n. IqTyped /\ IqNumbered /\ IqListed
    BY IqNumbers DEF IqInv
  <1>1. /\ slotLoop.pc = "wait" /\ iqNow >= slotLoop.start
        /\ iqQueue' = <<>> /\ UNCHANGED <<iqNow, cwAudio>>
    BY DEF SlotBegins, Flushed
  <1>2. PICK pc \in {"settle", "collect"} :
          /\ slotLoop' = [slotLoop EXCEPT !.parked = slotLoop.band, !.audio = <<>>, !.pc = pc]
          /\ \/ /\ slotLoop.parked # slotLoop.band /\ pc = "settle"
                /\ tuned' = [hz |-> slotLoop.band, since |-> iqNow]
             \/ /\ slotLoop.parked = slotLoop.band /\ pc = "collect" /\ tuned' = tuned
    BY DEF SlotBegins
  <1>3. /\ slotLoop' \in SlotLoops /\ slotLoop'.pc = pc /\ slotLoop'.audio = <<>>
        /\ slotLoop'.parked = slotLoop.band /\ slotLoop'.band = slotLoop.band
        /\ slotLoop'.start = slotLoop.start
    <2>1. slotLoop \in SlotLoops /\ slotLoop.band \in 0 .. SlotBands /\ <<>> \in Seq(Blocks)
      BY <1>n DEF IqTyped, IqNumbered, SlotLoops
    <2> QED BY <1>2, <2>1 DEF SlotLoops, SlotPcs
  <1>4. slotLoop.band \in 0 .. SlotBands
    BY <1>n DEF IqTyped, SlotLoops, IqNumbered
  <1>5. tuned' \in [hz : 0 .. SlotBands, since : 0 .. LastTick] /\ tuned'.since <= iqNow
    BY <1>2, <1>4, <1>n DEF IqNumbered, IqTyped
  <1>6. IqTyped' /\ NoSampleSkipped'
    BY <1>1, <1>3, <1>5, <1>n, SlotMovedTyped DEF SlotMoved, IqTyped, IqNumbered
  <1>7. tuned'.hz = slotLoop.band /\ (pc = "collect" => iqNow >= tuned'.since + SettleTicks)
    <2>1. slotLoop.band # 0
      BY <1>n DEF IqNumbered
    <2> QED BY <1>1, <1>2, <2>1 DEF IqInv, BandTuned
  <1>8. BandTuned'
    BY <1>1, <1>3, <1>7 DEF BandTuned
  <1>9. QueueOfSlot' /\ AudioOfSlot'
    BY <1>1, <1>3 DEF QueueOfSlot, AudioOfSlot, Recorded, InOrder
  <1> QED BY <1>6, <1>8, <1>9 DEF IqInv

LEMMA SlotSettledKeeps ==
    ASSUME IqInv, SlotSettled
    PROVE  IqInv'
  <1>n. IqTyped /\ IqNumbered /\ IqListed
    BY IqNumbers DEF IqInv
  <1>1. /\ slotLoop.pc = "settle" /\ iqNow >= tuned.since + SettleTicks
        /\ iqQueue' = <<>> /\ UNCHANGED <<iqNow, tuned, cwAudio>>
    BY DEF SlotSettled
  <1>2. /\ slotLoop' \in SlotLoops /\ slotLoop'.pc = "collect"
        /\ slotLoop'.audio = slotLoop.audio /\ slotLoop'.band = slotLoop.band
        /\ slotLoop'.parked = slotLoop.parked /\ slotLoop'.start = slotLoop.start
    BY <1>n DEF SlotSettled, IqTyped, SlotLoops, SlotPcs
  <1>3. IqTyped' /\ NoSampleSkipped'
    BY <1>1, <1>2, <1>n, SlotMovedTyped DEF SlotMoved, IqTyped, IqNumbered
  <1>4. BandTuned'
    BY <1>1, <1>2, <1>n DEF IqInv, BandTuned, IqNumbered
  <1>5. slotLoop.audio = <<>>
    BY <1>1 DEF IqInv, AudioOfSlot
  <1>6. QueueOfSlot' /\ AudioOfSlot'
    BY <1>1, <1>2, <1>5 DEF QueueOfSlot, AudioOfSlot, Recorded, InOrder
  <1> QED BY <1>3, <1>4, <1>6 DEF IqInv

\* The block taken is newer than those before it and older than those that wait.
LEMMA SlotCollectsKeeps ==
    ASSUME IqInv, SlotCollects
    PROVE  IqInv'
  <1> DEFINE block == Head(iqQueue)
  <1>n. IqTyped /\ IqNumbered /\ IqListed
    BY IqNumbers DEF IqInv
  <1>1. /\ slotLoop.pc = "collect" /\ iqNow < Deadline /\ Len(slotLoop.audio) < CollectTicks
        /\ iqQueue # <<>> /\ iqQueue' = Tail(iqQueue)
        /\ slotLoop' = [slotLoop EXCEPT !.audio = Append(@, block)]
        /\ UNCHANGED <<iqNow, tuned, cwAudio>>
    BY DEF SlotCollects
  <1>2. /\ block \in Blocks /\ block = iqQueue[1] /\ Len(iqQueue) \in Nat \ {0}
        /\ Tail(iqQueue) \in Seq(Blocks) /\ Len(Tail(iqQueue)) = Len(iqQueue) - 1
        /\ \A i \in 1 .. Len(Tail(iqQueue)) : Tail(iqQueue)[i] = iqQueue[i + 1]
    BY <1>1, <1>n, TailOf DEF IqTyped
  <1>3. /\ Append(slotLoop.audio, block) \in Seq(Blocks)
        /\ Len(Append(slotLoop.audio, block)) = Len(slotLoop.audio) + 1
        /\ \A i \in 1 .. Len(slotLoop.audio) :
             Append(slotLoop.audio, block)[i] = slotLoop.audio[i]
        /\ Append(slotLoop.audio, block)[Len(slotLoop.audio) + 1] = block
    BY <1>2, <1>n, AppendTo DEF IqListed
  <1>4. /\ slotLoop' \in SlotLoops /\ slotLoop'.audio = Append(slotLoop.audio, block)
        /\ slotLoop'.pc = slotLoop.pc /\ slotLoop'.start = slotLoop.start
        /\ slotLoop'.band = slotLoop.band /\ slotLoop'.parked = slotLoop.parked
    <2>1. slotLoop \in SlotLoops
      BY <1>n DEF IqTyped
    <2> HIDE DEF block
    <2> QED BY <1>1, <1>3, <2>1 DEF SlotLoops
  <1> HIDE DEF block
  <1>5. IqTyped' /\ NoSampleSkipped'
    <2>1. Len(iqQueue') <= ListenerCap
      BY <1>1, <1>2, <1>n DEF IqTyped, IqNumbered
    <2>2. Len(slotLoop'.audio) <= CollectTicks
      BY <1>1, <1>3, <1>4, <1>n DEF IqNumbered
    <2> QED BY <1>1, <1>2, <1>4, <2>1, <2>2, <1>n, SlotMovedTyped DEF SlotMoved, IqTyped
  <1>6. BandTuned'
    BY <1>1, <1>4 DEF IqInv, BandTuned
  <1>7. 1 \in 1 .. Len(iqQueue) /\ \A i \in 1 .. Len(iqQueue') : i + 1 \in 1 .. Len(iqQueue)
    BY <1>1, <1>2
  <1>8. InOrder(iqQueue') /\ \A i \in 1 .. Len(iqQueue') : block.at < iqQueue'[i].at
    BY <1>1, <1>n, InOrderTail DEF IqInv, QueueOfSlot, IqTyped, block
  <1>9. QueueOfSlot'
    BY <1>1, <1>2, <1>4, <1>7, <1>8 DEF IqInv, QueueOfSlot, Recorded, OfSlot
  <1>10. /\ OfSlot(block) /\ block.at < iqNow
         /\ \A i \in 1 .. Len(slotLoop.audio) : slotLoop.audio[i].at < block.at
    BY <1>1, <1>2, <1>7 DEF IqInv, QueueOfSlot, AudioOfSlot, Recorded
  <1>11. block.at < Deadline
    <2>1. block.at \in Nat /\ iqNow \in Nat /\ Deadline \in Nat
      BY <1>2, <1>n, BlockNumbers DEF IqNumbered
    <2> QED BY <1>1, <1>10, <2>1
  <1>12. \A i \in 1 .. Len(slotLoop'.audio) :
           i \in 1 .. Len(slotLoop.audio) \/ slotLoop'.audio[i] = block
    BY <1>3, <1>4, <1>n DEF IqNumbered
  <1>13. InOrder(slotLoop'.audio)
    BY <1>1, <1>2, <1>4, <1>10, <1>n, InOrderAppend DEF IqInv, AudioOfSlot, IqListed
  <1>14. ASSUME NEW i \in 1 .. Len(slotLoop'.audio)
         PROVE  /\ OfSlot(slotLoop'.audio[i]) /\ slotLoop'.audio[i].at < Deadline
                /\ slotLoop'.audio[i].at < iqNow
                /\ \A j \in 1 .. Len(iqQueue') : slotLoop'.audio[i].at < iqQueue'[j].at
    <2>1. CASE slotLoop'.audio[i] = block
      BY <1>8, <1>10, <1>11, <2>1
    <2>2. CASE i \in 1 .. Len(slotLoop.audio)
      <3>1. slotLoop'.audio[i] = slotLoop.audio[i]
        BY <1>3, <1>4, <2>2
      <3>2. \A j \in 1 .. Len(iqQueue') : slotLoop.audio[i].at < iqQueue'[j].at
        BY <1>1, <1>2, <1>7, <2>2 DEF IqInv, AudioOfSlot
      <3> QED BY <1>1, <2>2, <3>1, <3>2 DEF IqInv, AudioOfSlot
    <2> QED BY <1>12, <2>1, <2>2
  <1>15. AudioOfSlot'
    BY <1>1, <1>4, <1>13, <1>14 DEF AudioOfSlot, OfSlot, Deadline
  <1> QED BY <1>5, <1>6, <1>9, <1>15 DEF IqInv

LEMMA NextSlotWaits ==
    ASSUME IqTyped
    PROVE  /\ NextSlot \in SlotLoops /\ NextSlot.pc = "wait" /\ NextSlot.audio = <<>>
           /\ NextSlot.parked = slotLoop.parked
  <1>1. /\ slotLoop \in SlotLoops /\ <<>> \in Seq(Blocks) /\ slotLoop.start + SlotTicks \in Nat
        /\ (slotLoop.band % SlotBands) + 1 \in 1 .. SlotBands /\ 0 \in 0 .. BandSlots - 1
    BY IqAssumption DEF IqTyped, SlotLoops
  <1>2. slotLoop.count + 1 < BandSlots => slotLoop.count + 1 \in 0 .. BandSlots - 1
    BY IqAssumption DEF IqTyped, SlotLoops
  <1> QED BY <1>1, <1>2 DEF NextSlot, SlotLoops, SlotPcs

\* The slot is over, or what was collected goes to the detector as it is.
LEMMA SlotOverKeeps ==
    ASSUME IqInv, SlotCollected \/ SlotDetected
    PROVE  IqInv'
  <1>n. IqTyped /\ IqNumbered /\ IqListed
    BY IqNumbers DEF IqInv
  <1>1. slotLoop.pc \in {"collect", "detect"} /\ UNCHANGED <<iqNow, tuned, iqQueue, cwAudio>>
    BY DEF SlotCollected, SlotDetected
  <1>2. CASE slotLoop' = NextSlot
    <2>1. /\ slotLoop' \in SlotLoops /\ slotLoop'.pc = "wait" /\ slotLoop'.audio = <<>>
          /\ slotLoop'.parked = slotLoop.parked
      BY <1>2, <1>n, NextSlotWaits
    <2>2. IqTyped' /\ NoSampleSkipped'
      BY <1>1, <2>1, <1>n, SlotMovedTyped DEF SlotMoved, IqTyped, IqNumbered
    <2>3. BandTuned' /\ QueueOfSlot' /\ AudioOfSlot'
      BY <1>1, <2>1 DEF IqInv, BandTuned, QueueOfSlot, AudioOfSlot, Recorded
    <2> QED BY <2>2, <2>3 DEF IqInv
  <1>3. CASE slotLoop.pc = "collect" /\ slotLoop' = [slotLoop EXCEPT !.pc = "detect"]
    <2>1. /\ slotLoop' \in SlotLoops /\ slotLoop'.pc = "detect"
          /\ slotLoop'.audio = slotLoop.audio /\ slotLoop'.band = slotLoop.band
          /\ slotLoop'.parked = slotLoop.parked /\ slotLoop'.start = slotLoop.start
      BY <1>3, <1>n DEF IqTyped, SlotLoops, SlotPcs
    <2>2. IqTyped' /\ NoSampleSkipped'
      BY <1>1, <2>1, <1>n, SlotMovedTyped DEF SlotMoved, IqTyped
    <2>3. BandTuned'
      BY <1>1, <1>3, <2>1 DEF IqInv, BandTuned
    <2>4. QueueOfSlot' /\ AudioOfSlot'
      BY <1>1, <1>3, <2>1
         DEF IqInv, QueueOfSlot, AudioOfSlot, Recorded, InOrder, OfSlot, Deadline
    <2> QED BY <2>2, <2>3, <2>4 DEF IqInv
  <1> QED BY <1>2, <1>3 DEF SlotCollected, SlotDetected

\* The buffer of a CW session slides by a window but for the overlap.
LEMMA CwStepsKeep ==
    ASSUME IqInv, CwBuffers \/ CwDecodes
    PROVE  IqInv'
  <1>1. /\ IqTyped /\ UNCHANGED <<iqNow, tuned, iqQueue, slotLoop>>
        /\ cwAudio \in CwAudios /\ cwAudio.lo <= cwAudio.hi
    BY DEF CwBuffers, CwDecodes, IqInv, IqTyped
  <1>2. /\ cwAudio.lo \in Nat /\ cwAudio.hi \in Nat /\ cwAudio.overlap \in Nat
        /\ cwAudio.overlap < CwWindow /\ CwWindow \in Nat /\ CwLast \in Nat
        /\ cwAudio.hi <= CwLast
    <2>1. CwLast \in Nat /\ CwWindow \in Nat /\ CwOverlaps \subseteq 0 .. CwWindow - 1
      BY IqAssumption
    <2>2. /\ cwAudio.lo \in 0 .. CwLast /\ cwAudio.hi \in 0 .. CwLast
          /\ cwAudio.overlap \in CwOverlaps
      BY <1>1 DEF CwAudios
    <2>3. cwAudio.overlap \in 0 .. CwWindow - 1
      BY <2>1, <2>2
    <2> QED BY <2>1, <2>2, <2>3
  <1>3. cwAudio' \in CwAudios /\ cwAudio'.lo <= cwAudio'.hi /\ NoSampleSkipped'
    <2>1. CASE CwBuffers
      <3>1. PICK n \in CwChunks :
              cwAudio.hi + n <= CwLast /\ cwAudio' = [cwAudio EXCEPT !.hi = @ + n]
        BY <2>1 DEF CwBuffers
      <3>2. n \in Nat /\ cwAudio.hi + n \in 0 .. CwLast
        BY <1>2, <3>1, IqAssumption
      <3> QED BY <1>1, <1>2, <3>1, <3>2 DEF IqInv, CwAudios, NoSampleSkipped
    <2>2. CASE CwDecodes
      <3> DEFINE end == cwAudio.lo + CwWindow
                 lo == IF cwAudio.overlap > 0 /\ cwAudio.hi > end
                       THEN end - Kept(cwAudio.hi - end) ELSE cwAudio.hi
      <3>1. cwAudio.hi - cwAudio.lo >= CwWindow
            /\ cwAudio' = [cwAudio EXCEPT !.lo = lo, !.next = lo, !.last = end]
        BY <2>2 DEF CwDecodes
      <3>2. end \in 0 .. CwLast /\ end <= cwAudio.hi
        BY <1>2, <3>1
      <3>3. /\ lo \in 0 .. CwLast /\ lo <= cwAudio.hi
            /\ cwAudio.overlap > 0 => lo <= end /\ lo + cwAudio.overlap >= end
        BY <1>2, <3>2 DEF Kept
      <3> HIDE DEF end, lo
      <3> QED BY <1>1, <3>1, <3>2, <3>3 DEF CwAudios, NoSampleSkipped
    <2> QED BY <2>1, <2>2
  <1>4. IqTyped'
    BY <1>1, <1>3 DEF IqTyped
  <1>5. BandTuned' /\ QueueOfSlot' /\ AudioOfSlot'
    BY <1>1 DEF IqInv, BandTuned, QueueOfSlot, AudioOfSlot, InOrder, Recorded, OfSlot, Deadline
  <1> QED BY <1>3, <1>4, <1>5 DEF IqInv

LEMMA IqInvStep == IqInv /\ [IqNext]_iqVars => IqInv'
  <1> SUFFICES ASSUME IqInv, [IqNext]_iqVars PROVE IqInv'
    OBVIOUS
  <1>1. CASE UNCHANGED iqVars
    BY <1>1 DEF iqVars, IqInv, IqTyped, BandTuned, QueueOfSlot, AudioOfSlot, InOrder, Recorded,
       OfSlot, Deadline, NoSampleSkipped
  <1> QED BY <1>1, IqTickKeeps, SlotsOnKeeps, SlotsOffKeeps, SlotBeginsKeeps, SlotSettledKeeps,
             SlotCollectsKeeps, SlotOverKeeps, CwStepsKeep DEF IqNext, SlotNext

LEMMA WindowsFollow == IqInv => WindowsExact
  <1> SUFFICES ASSUME IqInv PROVE WindowsExact
    OBVIOUS
  <1>1. ASSUME slotLoop.pc = "detect", NEW i \in 1 .. Len(slotLoop.audio), i > 1
        PROVE  slotLoop.audio[i - 1].at < slotLoop.audio[i].at
    <2>1. i - 1 \in 1 .. Len(slotLoop.audio) /\ i - 1 < i
      BY <1>1
    <2> QED BY <1>1, <2>1 DEF IqInv, AudioOfSlot, InOrder
  <1> QED BY <1>1 DEF IqInv, AudioOfSlot, OfSlot, WindowsExact, SlotAudio

\* The beacon detector is given nothing from outside its slot, and the CW decoder every
\* sample, once but for the overlap (_collect_audio, CWDecoderSession._run).
THEOREM WindowsAreExact == IqSpec => []WindowsExact
  BY IqInvInit, IqInvStep, WindowsFollow, PTL DEF IqSpec

-----------------------------------------------------------------------------
(***************************************************************************)
(* The frames of a KISS stream (KissFraming).                              *)
(***************************************************************************)
(***************************************************************************)
(* Sets of numbers in order.                                               *)
(***************************************************************************)
\* A number above all of a set comes last.
LEMMA AscendingAppend ==
    ASSUME NEW n \in Nat, NEW S \in SUBSET (1 .. n - 1)
    PROVE  /\ IsFiniteSet(S) /\ Cardinality(S) \in Nat
           /\ Cardinality(S \cup {n}) = Cardinality(S) + 1
           /\ Ascending(S \cup {n}) = [i \in 1 .. Cardinality(S) + 1 |->
                                       IF i = Cardinality(S) + 1 THEN n ELSE Ascending(S)[i]]
  <1> DEFINE U == S \cup {n}
             c == Cardinality(S)
             Placed(R, i) == {j \in R : Place(R, j) = i}
  <1>1. IsFiniteSet(S) /\ c \in Nat
    <2>1. IsFiniteSet(1 .. n - 1)
      BY FS_Interval
    <2> QED BY <2>1, FS_Subset, FS_CardinalityType
  <1>2. n \notin S
    OBVIOUS
  <1>3. Cardinality(U) = c + 1
    BY <1>1, <1>2, FS_AddElement
  <1>4. \A k \in S : Place(U, k) = Place(S, k) /\ Place(S, k) \in Nat /\ Place(S, k) <= c
    <2> SUFFICES ASSUME NEW k \in S
                 PROVE  Place(U, k) = Place(S, k) /\ Place(S, k) \in Nat /\ Place(S, k) <= c
      OBVIOUS
    <2>1. {j \in U : j <= k} = {j \in S : j <= k}
      OBVIOUS
    <2>2. {j \in S : j <= k} \subseteq S
      OBVIOUS
    <2>3. /\ IsFiniteSet({j \in S : j <= k}) /\ Cardinality({j \in S : j <= k}) <= c
          /\ Cardinality({j \in S : j <= k}) \in Nat
      BY <1>1, <2>2, FS_Subset, FS_CardinalityType
    <2>4. Place(U, k) = Cardinality({j \in S : j <= k}) /\ Place(S, k) = Cardinality({j \in S : j <= k})
      BY <2>1 DEF Place
    <2> QED BY <2>3, <2>4
  <1>5. Place(U, n) = c + 1
    <2>1. \A j \in U : j <= n
      OBVIOUS
    <2>2. {j \in U : j <= n} = U
      BY <2>1
    <2> QED BY <1>3, <2>2 DEF Place
  <1>6. \A i \in 1 .. c : Placed(U, i) = Placed(S, i)
    <2> SUFFICES ASSUME NEW i \in 1 .. c, NEW j \in U
                 PROVE  Place(U, j) = i <=> (j \in S /\ Place(S, j) = i)
      OBVIOUS
    <2> QED BY <1>1, <1>4, <1>5
  <1>7. Placed(U, c + 1) = {n}
    <2> SUFFICES ASSUME NEW j \in U
                 PROVE  Place(U, j) = c + 1 <=> j = n
      OBVIOUS
    <2> QED BY <1>1, <1>2, <1>4, <1>5
  <1>8. (CHOOSE k \in Placed(U, c + 1) : TRUE) = n
    BY <1>7
  <1>9. \A i \in 1 .. c : (CHOOSE k \in Placed(U, i) : TRUE) = (CHOOSE k \in Placed(S, i) : TRUE)
    BY <1>6
  <1>10. Ascending(U) = [i \in 1 .. c + 1 |-> CHOOSE k \in Placed(U, i) : TRUE]
    BY <1>3 DEF Ascending
  <1>11. \A i \in 1 .. c : Ascending(S)[i] = CHOOSE k \in Placed(S, i) : TRUE
    BY DEF Ascending
  <1>12. \A i \in 1 .. c + 1 : (CHOOSE k \in Placed(U, i) : TRUE) = IF i = c + 1 THEN n ELSE Ascending(S)[i]
    <2> HIDE DEF Placed, U
    <2> SUFFICES ASSUME NEW i \in 1 .. c + 1, i # c + 1
                 PROVE  (CHOOSE k \in Placed(U, i) : TRUE) = Ascending(S)[i]
      BY <1>8
    <2>1. i \in 1 .. c
      BY <1>1
    <2> QED BY <1>9, <1>11, <2>1
  <1> QED BY <1>1, <1>3, <1>10, <1>12

LEMMA AscendingTyped ==
    ASSUME NEW n \in Nat, NEW S \in SUBSET (1 .. n)
    PROVE  /\ IsFiniteSet(S) /\ Cardinality(S) \in Nat
           /\ Ascending(S) \in [1 .. Cardinality(S) -> S]
  <1> DEFINE T == {m \in Nat : \A R \in SUBSET (1 .. m) : Ascending(R) \in [1 .. Cardinality(R) -> R]}
  <1>1. IsFiniteSet(S) /\ Cardinality(S) \in Nat
    <2>1. IsFiniteSet(1 .. n)
      BY FS_Interval
    <2> QED BY <2>1, FS_Subset, FS_CardinalityType
  <1>2. 0 \in T
    <2> SUFFICES ASSUME NEW R \in SUBSET (1 .. 0)
                 PROVE  Ascending(R) \in [1 .. Cardinality(R) -> R]
      OBVIOUS
    <2>1. Cardinality(R) = 0
      <3>1. R = {}
        OBVIOUS
      <3> QED BY <3>1, FS_EmptySet
    <2> QED BY <2>1 DEF Ascending
  <1>3. ASSUME NEW m \in Nat, m \in T PROVE m + 1 \in T
    <2> SUFFICES ASSUME NEW R \in SUBSET (1 .. m + 1)
                 PROVE  Ascending(R) \in [1 .. Cardinality(R) -> R]
      OBVIOUS
    <2>1. CASE m + 1 \notin R
      <3>1. R \in SUBSET (1 .. m)
        BY <2>1
      <3> QED BY <1>3, <3>1
    <2>2. CASE m + 1 \in R
      <3> DEFINE Q == R \ {m + 1}
      <3>1. Q \in SUBSET (1 .. m) /\ R = Q \cup {m + 1}
        BY <2>2
      <3>2. /\ Cardinality(Q) \in Nat /\ Cardinality(Q \cup {m + 1}) = Cardinality(Q) + 1
            /\ Ascending(Q \cup {m + 1}) = [i \in 1 .. Cardinality(Q) + 1 |->
                                           IF i = Cardinality(Q) + 1 THEN m + 1 ELSE Ascending(Q)[i]]
        <4> HIDE DEF Q
        <4>1. \A l \in Nat : \A P \in SUBSET (1 .. l - 1) :
                 /\ Cardinality(P) \in Nat /\ Cardinality(P \cup {l}) = Cardinality(P) + 1
                 /\ Ascending(P \cup {l}) = [i \in 1 .. Cardinality(P) + 1 |->
                                            IF i = Cardinality(P) + 1 THEN l ELSE Ascending(P)[i]]
          BY AscendingAppend
        <4>2. m + 1 \in Nat /\ (m + 1) - 1 = m
          OBVIOUS
        <4>3. Q \in SUBSET (1 .. (m + 1) - 1)
          BY <3>1, <4>2
        <4> QED BY <4>1, <4>2, <4>3
      <3>3. Ascending(Q) \in [1 .. Cardinality(Q) -> Q]
        BY <1>3, <3>1
      <3> HIDE DEF Q
      <3>4. \A i \in 1 .. Cardinality(Q) + 1 : i = Cardinality(Q) + 1 \/ i \in 1 .. Cardinality(Q)
        BY <3>2
      <3>5. \A i \in 1 .. Cardinality(Q) + 1 :
               (IF i = Cardinality(Q) + 1 THEN m + 1 ELSE Ascending(Q)[i]) \in R
        BY <3>1, <3>3, <3>4
      <3>6. Ascending(R) = [i \in 1 .. Cardinality(R) |-> IF i = Cardinality(Q) + 1 THEN m + 1 ELSE Ascending(Q)[i]]
        BY <3>1, <3>2
      <3> QED BY <3>1, <3>2, <3>5, <3>6
    <2> QED BY <2>1, <2>2
  <1>4. Nat \subseteq T
    <2> HIDE DEF T
    <2> QED BY <1>2, <1>3, SetInduction
  <1> QED BY <1>1, <1>4

(***************************************************************************)
(* Escapes.                                                                *)
(***************************************************************************)
\* An escape is active unless an active one precedes it.
LEMMA EscapesAlternate ==
    ASSUME NEW s, NEW k \in Nat, k > 1
    PROVE  ActiveEsc(s, k) <=> (s[k] = FrameEsc /\ ~ActiveEsc(s, k - 1))
  <1>1. /\ IsFiniteSet(EscapesBefore(s, k)) /\ Cardinality(EscapesBefore(s, k)) \in Nat
        /\ IsFiniteSet(EscapesBefore(s, k - 1)) /\ Cardinality(EscapesBefore(s, k - 1)) \in Nat
    <2>1. EscapesBefore(s, k) \subseteq 1 .. k /\ EscapesBefore(s, k - 1) \subseteq 1 .. k
      BY DEF EscapesBefore
    <2>2. IsFiniteSet(1 .. k)
      BY FS_Interval
    <2> QED BY <2>1, <2>2, FS_Subset, FS_CardinalityType
  <1>2. CASE s[k - 1] = FrameEsc
    <2>1. EscapesBefore(s, k) = EscapesBefore(s, k - 1) \cup {k - 1}
      <3>1. ASSUME NEW i \in EscapesBefore(s, k), i # k - 1 PROVE i \in EscapesBefore(s, k - 1)
        BY <3>1 DEF EscapesBefore
      <3>2. ASSUME NEW i \in EscapesBefore(s, k - 1) PROVE i \in EscapesBefore(s, k)
        <4>1. i \in 1 .. (k - 1) - 1 /\ \A j \in i .. (k - 1) - 1 : s[j] = FrameEsc
          BY DEF EscapesBefore
        <4>2. \A j \in i .. k - 1 : j = k - 1 \/ j \in i .. (k - 1) - 1
          BY <4>1
        <4> QED BY <1>2, <4>1, <4>2 DEF EscapesBefore
      <3>3. k - 1 \in EscapesBefore(s, k)
        BY <1>2 DEF EscapesBefore
      <3> QED BY <3>1, <3>2, <3>3
    <2>2. k - 1 \notin EscapesBefore(s, k - 1)
      BY DEF EscapesBefore
    <2>3. Cardinality(EscapesBefore(s, k)) = Cardinality(EscapesBefore(s, k - 1)) + 1
      BY <1>1, <2>1, <2>2, FS_AddElement
    <2>4. \A c \in Nat : (c + 1) % 2 = 0 <=> ~(c % 2 = 0)
      OBVIOUS
    <2> QED BY <1>1, <1>2, <2>3, <2>4 DEF ActiveEsc
  <1>3. CASE s[k - 1] # FrameEsc
    <2>1. EscapesBefore(s, k) = {}
      BY <1>3 DEF EscapesBefore
    <2>2. Cardinality(EscapesBefore(s, k)) = 0
      BY <2>1, FS_EmptySet
    <2> QED BY <1>3, <2>2 DEF ActiveEsc
  <1> QED BY <1>2, <1>3

(***************************************************************************)
(* What is said of a position does not depend on the bytes that follow.    *)
(***************************************************************************)
Agree(s, t, n) == \A i \in 1 .. n : s[i] = t[i]

LEMMA ActiveOfPrefix ==
    ASSUME NEW n \in Nat, NEW s, NEW t, Agree(s, t, n), NEW k \in 1 .. n
    PROVE  ActiveEsc(s, k) <=> ActiveEsc(t, k)
  <1>1. EscapesBefore(s, k) = EscapesBefore(t, k)
    BY DEF EscapesBefore, Agree
  <1> QED BY <1>1 DEF ActiveEsc, Agree

LEMMA ContentOfPrefix ==
    ASSUME NEW n \in Nat, NEW s, NEW t, Agree(s, t, n), NEW k \in 1 .. n + 1
    PROVE  Content(s, k) = Content(t, k)
  <1>1. Inside(s, k) = Inside(t, k)
    BY DEF Inside, Agree
  <1>2. Inside(s, k) \subseteq 2 .. n
    BY DEF Inside
  <1>3. Spoken(s, k) = Spoken(t, k) /\ Spoken(s, k) \subseteq 2 .. n
    BY <1>1, <1>2, ActiveOfPrefix DEF Spoken
  <1>4. Cardinality(Spoken(s, k)) \in Nat /\ Ascending(Spoken(s, k)) \in [1 .. Cardinality(Spoken(s, k)) -> Spoken(s, k)]
    <2>1. Spoken(s, k) \in SUBSET (1 .. n)
      BY <1>3
    <2> QED BY <2>1, AscendingTyped
  <1>5. \A j \in 2 .. n : Said(s, j) = Said(t, j)
    <2> SUFFICES ASSUME NEW j \in 2 .. n PROVE Said(s, j) = Said(t, j)
      OBVIOUS
    <2>1. j - 1 \in 1 .. n /\ j \in 1 .. n
      OBVIOUS
    <2>2. (ActiveEsc(s, j - 1) <=> ActiveEsc(t, j - 1)) /\ s[j] = t[j]
      BY <2>1, ActiveOfPrefix DEF Agree
    <2> QED BY <2>2 DEF Said
  <1>6. \A i \in 1 .. Cardinality(Spoken(s, k)) :
           Said(s, Ascending(Spoken(s, k))[i]) = Said(t, Ascending(Spoken(t, k))[i])
    BY <1>3, <1>4, <1>5
  <1> QED BY <1>3, <1>6 DEF Content

(***************************************************************************)
(* A byte.                                                                 *)
(***************************************************************************)
Stream == Seq(KissBytes)
Frames == Stream \ {<<>>}
Buffers == [buffer : Stream, in_frame : BOOLEAN, escape : BOOLEAN]

\* what the buffer holds after the first n bytes of s, and the frames returned
Reads(s, n, k, out) ==
    /\ k \in Buffers /\ out \in Seq(Frames)
    /\ k.in_frame <=> \E e \in 1 .. n : s[e] = FrameEnd
    /\ k.escape <=> (k.in_frame /\ n > 0 /\ ActiveEsc(s, n))
    /\ k.buffer = Content(s, n + 1)
    /\ out = FramesOf(s, n)

\* A byte that is no frame end is inside the frame if there is one.
LEMMA InsideNext ==
    ASSUME NEW n \in Nat, NEW s
    PROVE  /\ s[n + 1] = FrameEnd => Inside(s, n + 2) = {}
           /\ (s[n + 1] # FrameEnd /\ \E e \in 1 .. n : s[e] = FrameEnd)
                => Inside(s, n + 2) = Inside(s, n + 1) \cup {n + 1}
           /\ (s[n + 1] # FrameEnd /\ ~\E e \in 1 .. n : s[e] = FrameEnd)
                => Inside(s, n + 2) = {} /\ Inside(s, n + 1) = {}
  <1>1. ASSUME s[n + 1] = FrameEnd PROVE Inside(s, n + 2) = {}
    BY <1>1 DEF Inside
  <1>2. ASSUME s[n + 1] # FrameEnd, \E e \in 1 .. n : s[e] = FrameEnd
        PROVE  Inside(s, n + 2) = Inside(s, n + 1) \cup {n + 1}
    <2>1. n + 1 \in Inside(s, n + 2)
      BY <1>2 DEF Inside
    <2>2. \A j \in Inside(s, n + 2) : j = n + 1 \/ j \in Inside(s, n + 1)
      BY DEF Inside
    <2>3. ASSUME NEW j \in Inside(s, n + 1) PROVE j \in Inside(s, n + 2)
      <3>1. /\ j \in 1 .. n /\ \E e \in 1 .. j - 1 : s[e] = FrameEnd
            /\ \A i \in j .. n : s[i] # FrameEnd
        BY DEF Inside
      <3>2. \A i \in j .. n + 1 : i = n + 1 \/ i \in j .. n
        BY <3>1
      <3> QED BY <1>2, <3>1, <3>2 DEF Inside
    <2> QED BY <2>1, <2>2, <2>3
  <1>3. ASSUME s[n + 1] # FrameEnd, ~\E e \in 1 .. n : s[e] = FrameEnd
        PROVE  Inside(s, n + 2) = {} /\ Inside(s, n + 1) = {}
    BY <1>3 DEF Inside
  <1> QED BY <1>1, <1>2, <1>3

\* The content grows by the byte, unless it is an escape.
LEMMA ContentNext ==
    ASSUME NEW n \in Nat, NEW s, s[n + 1] # FrameEnd, \E e \in 1 .. n : s[e] = FrameEnd
    PROVE  /\ ActiveEsc(s, n + 1) => Content(s, n + 2) = Content(s, n + 1)
           /\ ~ActiveEsc(s, n + 1) => Content(s, n + 2) = Append(Content(s, n + 1), Said(s, n + 1))
  <1> DEFINE K == Spoken(s, n + 1)
             c == Cardinality(K)
  <1>1. Inside(s, n + 2) = Inside(s, n + 1) \cup {n + 1} /\ K \subseteq 1 .. n
    <2>1. Inside(s, n + 2) = Inside(s, n + 1) \cup {n + 1}
      BY InsideNext
    <2>2. K \subseteq 1 .. n
      BY DEF Inside, Spoken
    <2> QED BY <2>1, <2>2
  <1>2. c \in Nat /\ Ascending(K) \in [1 .. c -> K]
    <2> HIDE DEF K
    <2> QED BY <1>1, AscendingTyped
  <1>3. CASE ActiveEsc(s, n + 1)
    <2>1. Spoken(s, n + 2) = K
      BY <1>1, <1>3 DEF Spoken
    <2> QED BY <1>3, <2>1 DEF Content
  <1>4. CASE ~ActiveEsc(s, n + 1)
    <2>1. Spoken(s, n + 2) = K \cup {n + 1}
      BY <1>1, <1>4 DEF Spoken
    <2>2. /\ Cardinality(K \cup {n + 1}) = c + 1
          /\ Ascending(K \cup {n + 1}) = [i \in 1 .. c + 1 |-> IF i = c + 1 THEN n + 1 ELSE Ascending(K)[i]]
      <3> HIDE DEF K
      <3>1. K \in SUBSET (1 .. (n + 1) - 1)
        BY <1>1
      <3> QED BY <3>1, AscendingAppend
    <2>3. Content(s, n + 2) = [i \in 1 .. c + 1 |-> Said(s, IF i = c + 1 THEN n + 1 ELSE Ascending(K)[i])]
      BY <2>1, <2>2 DEF Content
    <2>4. Content(s, n + 1) = [i \in 1 .. c |-> Said(s, Ascending(K)[i])]
      BY DEF Content
    <2> HIDE DEF c, K
    <2>5. Append(Content(s, n + 1), Said(s, n + 1))
             = [i \in 1 .. c + 1 |-> IF i = c + 1 THEN Said(s, n + 1) ELSE Said(s, Ascending(K)[i])]
      <3>1. Len(Content(s, n + 1)) = c
        BY <1>2, <2>4
      <3> QED BY <1>2, <2>4, <3>1
    <2>6. \A i \in 1 .. c + 1 : Said(s, IF i = c + 1 THEN n + 1 ELSE Ascending(K)[i])
                                = IF i = c + 1 THEN Said(s, n + 1) ELSE Said(s, Ascending(K)[i])
      OBVIOUS
    <2> QED BY <1>4, <2>3, <2>5, <2>6
  <1> QED BY <1>3, <1>4

\* Outside a frame, and where one begins, there is no content.
LEMMA NoContent ==
    ASSUME NEW s, NEW k, Inside(s, k) = {}
    PROVE  Content(s, k) = <<>>
  <1>1. Spoken(s, k) = {}
    BY DEF Spoken
  <1>2. Cardinality(Spoken(s, k)) = 0
    BY <1>1, FS_EmptySet
  <1> QED BY <1>2 DEF Content

\* A frame end adds the frame it closes.
LEMMA FramesNext ==
    ASSUME NEW n \in Nat, NEW s
    PROVE  FramesOf(s, n + 1) = IF s[n + 1] = FrameEnd /\ Content(s, n + 1) # <<>>
                                THEN Append(FramesOf(s, n), Content(s, n + 1)) ELSE FramesOf(s, n)
  <1> DEFINE K == Closed(s, n)
             c == Cardinality(K)
  <1>1. K \in SUBSET (1 .. n)
    BY DEF Closed
  <1>2. c \in Nat /\ Ascending(K) \in [1 .. c -> K]
    <2> HIDE DEF K
    <2> QED BY <1>1, AscendingTyped
  <1>3. CASE s[n + 1] = FrameEnd /\ Content(s, n + 1) # <<>>
    <2>1. Closed(s, n + 1) = K \cup {n + 1}
      BY <1>3 DEF Closed
    <2>2. /\ Cardinality(K \cup {n + 1}) = c + 1
          /\ Ascending(K \cup {n + 1}) = [i \in 1 .. c + 1 |-> IF i = c + 1 THEN n + 1 ELSE Ascending(K)[i]]
      <3> HIDE DEF K
      <3>1. K \in SUBSET (1 .. (n + 1) - 1)
        BY <1>1
      <3> QED BY <3>1, AscendingAppend
    <2>3. FramesOf(s, n + 1)
             = [i \in 1 .. c + 1 |-> Content(s, IF i = c + 1 THEN n + 1 ELSE Ascending(K)[i])]
      BY <2>1, <2>2 DEF FramesOf
    <2>4. FramesOf(s, n) = [i \in 1 .. c |-> Content(s, Ascending(K)[i])]
      BY DEF FramesOf
    <2> HIDE DEF c, K
    <2>5. Append(FramesOf(s, n), Content(s, n + 1))
             = [i \in 1 .. c + 1 |-> IF i = c + 1 THEN Content(s, n + 1) ELSE Content(s, Ascending(K)[i])]
      <3>1. Len(FramesOf(s, n)) = c
        BY <1>2, <2>4
      <3> QED BY <1>2, <2>4, <3>1
    <2>6. \A i \in 1 .. c + 1 : Content(s, IF i = c + 1 THEN n + 1 ELSE Ascending(K)[i])
                                = IF i = c + 1 THEN Content(s, n + 1) ELSE Content(s, Ascending(K)[i])
      OBVIOUS
    <2> QED BY <1>3, <2>3, <2>5, <2>6
  <1>4. CASE ~(s[n + 1] = FrameEnd /\ Content(s, n + 1) # <<>>)
    <2>1. Closed(s, n + 1) = K
      BY <1>4 DEF Closed
    <2> QED BY <1>4, <2>1 DEF FramesOf
  <1> QED BY <1>3, <1>4

LEMMA FramesOfPrefix ==
    ASSUME NEW n \in Nat, NEW s, NEW t, Agree(s, t, n)
    PROVE  FramesOf(s, n) = FramesOf(t, n)
  <1>1. \A k \in 1 .. n : Content(s, k) = Content(t, k) /\ s[k] = t[k]
    BY ContentOfPrefix DEF Agree
  <1>2. Closed(s, n) = Closed(t, n) /\ Closed(s, n) \in SUBSET (1 .. n)
    BY <1>1 DEF Closed
  <1>3. Ascending(Closed(s, n)) \in [1 .. Cardinality(Closed(s, n)) -> Closed(s, n)]
    BY <1>2, AscendingTyped
  <1>4. \A i \in 1 .. Cardinality(Closed(s, n)) :
           Content(s, Ascending(Closed(s, n))[i]) = Content(t, Ascending(Closed(t, n))[i])
    BY <1>1, <1>2, <1>3
  <1> QED BY <1>2, <1>4 DEF FramesOf

\* What a byte does to the buffer is what it adds to the stream.
LEMMA ByteStep ==
    ASSUME NEW n \in Nat, NEW s, NEW k, NEW out, NEW b \in KissBytes, s[n + 1] = b,
           Reads(s, n, k, out)
    PROVE  Emitted(k, b) \in Seq(Frames) /\ Reads(s, n + 1, Take(k, b), out \o Emitted(k, b))
  <1>1. /\ k \in Buffers /\ out \in Seq(Frames)
        /\ k.in_frame <=> \E e \in 1 .. n : s[e] = FrameEnd
        /\ k.escape <=> (k.in_frame /\ n > 0 /\ ActiveEsc(s, n))
        /\ k.buffer = Content(s, n + 1)
        /\ out = FramesOf(s, n)
    BY DEF Reads
  <1>2. /\ FrameEnd \in KissBytes /\ FrameEsc \in KissBytes /\ FrameEnd # FrameEsc
        /\ Unescaped(b) \in KissBytes
    BY KissAssumption DEF Unescaped
  <1>3. /\ k.buffer \in Stream /\ k.in_frame \in BOOLEAN /\ k.escape \in BOOLEAN
        /\ k = [buffer |-> k.buffer, in_frame |-> k.in_frame, escape |-> k.escape]
    BY <1>1 DEF Buffers
  <1>4. (n + 1) + 1 = n + 2 /\ (n + 1) - 1 = n
    OBVIOUS
  <1>5. (\E e \in 1 .. n + 1 : s[e] = FrameEnd) <=> (b = FrameEnd \/ \E e \in 1 .. n : s[e] = FrameEnd)
    <2>1. \A e \in 1 .. n + 1 : e = n + 1 \/ e \in 1 .. n
      OBVIOUS
    <2>2. n + 1 \in 1 .. n + 1 /\ \A e \in 1 .. n : e \in 1 .. n + 1
      OBVIOUS
    <2> QED BY <2>1, <2>2
  <1>6. CASE b = FrameEnd
    <2>1. Take(k, b) = [buffer |-> <<>>, in_frame |-> TRUE, escape |-> FALSE]
      BY <1>2, <1>6 DEF Take
    <2>2. ~ActiveEsc(s, n + 1)
      BY <1>2, <1>6 DEF ActiveEsc
    <2>3. Content(s, n + 2) = <<>>
      BY <1>6, InsideNext, NoContent
    <2>4. ~k.in_frame => Content(s, n + 1) = <<>>
      <3>1. ASSUME ~k.in_frame PROVE Inside(s, n + 1) = {}
        BY <1>1, <3>1 DEF Inside
      <3> QED BY <3>1, NoContent
    <2>5. Emitted(k, b) = IF k.buffer # <<>> THEN <<k.buffer>> ELSE <<>>
      BY <1>1, <1>6, <2>4 DEF Emitted
    <2>6. Emitted(k, b) \in Seq(Frames)
      <3>1. k.buffer # <<>> => k.buffer \in Frames
        BY <1>3 DEF Frames
      <3> QED BY <2>5, <3>1
    <2>7. out \o Emitted(k, b) = FramesOf(s, n + 1)
      <3>1. CASE k.buffer = <<>>
        BY <1>1, <1>6, <2>5, <3>1, FramesNext, ConcatEmptySeq
      <3>2. CASE k.buffer # <<>>
        <4>1. out \o <<k.buffer>> = Append(out, k.buffer)
          BY <1>1
        <4> QED BY <1>1, <1>6, <2>5, <3>2, <4>1, FramesNext
      <3> QED BY <3>1, <3>2
    <2>8. Take(k, b) \in Buffers /\ out \o Emitted(k, b) \in Seq(Frames)
      BY <1>1, <2>1, <2>6 DEF Buffers, Stream
    <2> QED BY <1>4, <1>5, <1>6, <2>1, <2>2, <2>3, <2>6, <2>7, <2>8 DEF Reads
  <1>7. ASSUME b # FrameEnd
        PROVE  /\ Emitted(k, b) = <<>> /\ Emitted(k, b) \in Seq(Frames)
               /\ out \o Emitted(k, b) = out /\ out = FramesOf(s, n + 1)
    <2>1. Emitted(k, b) = <<>>
      BY <1>7 DEF Emitted
    <2>2. <<>> \in Seq(Frames) /\ out \o <<>> = out
      BY <1>1, ConcatEmptySeq
    <2>3. FramesOf(s, n + 1) = FramesOf(s, n)
      BY <1>7, FramesNext
    <2> QED BY <1>1, <2>1, <2>2, <2>3
  <1>8. CASE b # FrameEnd /\ ~k.in_frame
    <2>1. Take(k, b) = k
      BY <1>8 DEF Take
    <2>2. Content(s, n + 2) = <<>> /\ Content(s, n + 1) = <<>>
      BY <1>1, <1>8, InsideNext, NoContent
    <2> QED BY <1>1, <1>4, <1>5, <1>7, <1>8, <2>1, <2>2 DEF Reads
  <1>9. ASSUME b # FrameEnd, k.in_frame
        PROVE  /\ n > 0 /\ (ActiveEsc(s, n + 1) <=> (b = FrameEsc /\ ~k.escape))
               /\ k.escape <=> ActiveEsc(s, n)
               /\ Content(s, n + 2) = IF ActiveEsc(s, n + 1) THEN k.buffer
                                      ELSE Append(k.buffer, IF k.escape THEN Unescaped(b) ELSE b)
    <2>1. PICK e \in 1 .. n : s[e] = FrameEnd
      BY <1>1, <1>9
    <2>2. n > 0 /\ n + 1 > 1 /\ n + 1 \in Nat
      BY <2>1
    <2>3. k.escape <=> ActiveEsc(s, n)
      BY <1>1, <1>9, <2>2
    <2>4. ActiveEsc(s, n + 1) <=> (b = FrameEsc /\ ~ActiveEsc(s, n))
      BY <1>4, <2>2, EscapesAlternate
    <2>5. Said(s, n + 1) = IF k.escape THEN Unescaped(b) ELSE b
      BY <1>4, <2>3 DEF Said
    <2>6. /\ ActiveEsc(s, n + 1) => Content(s, n + 2) = Content(s, n + 1)
          /\ ~ActiveEsc(s, n + 1) => Content(s, n + 2) = Append(Content(s, n + 1), Said(s, n + 1))
      BY <1>9, <2>1, ContentNext
    <2> QED BY <1>1, <2>2, <2>3, <2>4, <2>5, <2>6
  <1>10. CASE b # FrameEnd /\ k.in_frame /\ k.escape
    <2>1. Take(k, b) = [buffer |-> Append(k.buffer, Unescaped(b)), in_frame |-> TRUE, escape |-> FALSE]
      BY <1>3, <1>10 DEF Take
    <2>2. Take(k, b) \in Buffers
      BY <1>2, <1>3, <2>1 DEF Buffers, Stream
    <2>3. Content(s, n + 2) = Append(k.buffer, Unescaped(b)) /\ ~ActiveEsc(s, n + 1)
      BY <1>9, <1>10
    <2> QED BY <1>1, <1>4, <1>5, <1>7, <1>10, <2>1, <2>2, <2>3 DEF Reads
  <1>11. CASE b = FrameEsc /\ k.in_frame /\ ~k.escape
    <2>1. Take(k, b) = [buffer |-> k.buffer, in_frame |-> TRUE, escape |-> TRUE]
      BY <1>2, <1>3, <1>11 DEF Take
    <2>2. Take(k, b) \in Buffers
      BY <1>3, <2>1 DEF Buffers
    <2>3. Content(s, n + 2) = k.buffer /\ ActiveEsc(s, n + 1)
      BY <1>2, <1>9, <1>11
    <2> QED BY <1>1, <1>2, <1>4, <1>5, <1>7, <1>11, <2>1, <2>2, <2>3 DEF Reads
  <1>12. CASE b # FrameEnd /\ b # FrameEsc /\ k.in_frame /\ ~k.escape
    <2>1. Take(k, b) = [buffer |-> Append(k.buffer, b), in_frame |-> TRUE, escape |-> FALSE]
      BY <1>3, <1>12 DEF Take
    <2>2. Take(k, b) \in Buffers
      BY <1>3, <2>1 DEF Buffers, Stream
    <2>3. Content(s, n + 2) = Append(k.buffer, b) /\ ~ActiveEsc(s, n + 1)
      BY <1>9, <1>12
    <2> QED BY <1>1, <1>4, <1>5, <1>7, <1>12, <2>1, <2>2, <2>3 DEF Reads
  <1> QED BY <1>2, <1>3, <1>6, <1>8, <1>10, <1>11, <1>12

(***************************************************************************)
(* A read.                                                                 *)
(***************************************************************************)
LEMMA ReadByByte ==
    ASSUME NEW k, NEW n \in Nat, NEW data \in [1 .. n -> KissBytes]
    PROVE  /\ KissRead(k, data)[0] = [k |-> k, out |-> <<>>]
           /\ \A i \in 1 .. n : KissRead(k, data)[i] =
                  [k |-> Take(KissRead(k, data)[i - 1].k, data[i]),
                   out |-> KissRead(k, data)[i - 1].out \o Emitted(KissRead(k, data)[i - 1].k, data[i])]
  <1> DEFINE A == [k |-> k, out |-> <<>>]
             G(r, i) == [k |-> Take(r.k, data[i]), out |-> r.out \o Emitted(r.k, data[i])]
             Is(f, m) == f = [i \in 0 .. m |-> IF i = 0 THEN A ELSE G(f[i - 1], i)]
             T == {m \in Nat : \E f : Is(f, m)}
  <1>1. Len(data) = n
    OBVIOUS
  <1> HIDE DEF A, G
  <1>2. 0 \in T
    <2>1. Is([i \in 0 .. 0 |-> A], 0)
      OBVIOUS
    <2> QED BY <2>1
  <1>3. ASSUME NEW m \in Nat, m \in T PROVE m + 1 \in T
    <2>1. PICK f : f = [i \in 0 .. m |-> IF i = 0 THEN A ELSE G(f[i - 1], i)]
      BY <1>3
    <2> DEFINE g == [i \in 0 .. m + 1 |-> IF i = m + 1 THEN G(f[m], m + 1) ELSE f[i]]
    <2>2. \A i \in 0 .. m + 1 : g[i] = IF i = 0 THEN A ELSE G(g[i - 1], i)
      <3> SUFFICES ASSUME NEW i \in 0 .. m + 1
                   PROVE  g[i] = IF i = 0 THEN A ELSE G(g[i - 1], i)
        OBVIOUS
      <3>1. CASE i = m + 1
        BY <3>1
      <3>2. CASE i # m + 1
        <4>1. i \in 0 .. m
          BY <3>2
        <4>2. f[i] = IF i = 0 THEN A ELSE G(f[i - 1], i)
          BY <2>1, <4>1
        <4>3. i # 0 => g[i - 1] = f[i - 1]
          BY <4>1
        <4> QED BY <3>2, <4>2, <4>3
      <3> QED BY <3>1, <3>2
    <2>3. Is(g, m + 1)
      <3>1. g = [i \in 0 .. m + 1 |-> g[i]]
        OBVIOUS
      <3> HIDE DEF g
      <3> QED BY <2>2, <3>1
    <2> HIDE DEF Is, g
    <2> QED BY <2>3
  <1>4. n \in T
    <2> HIDE DEF T
    <2> QED BY <1>2, <1>3, SetInduction
  <1>5. KissRead(k, data) = CHOOSE f : Is(f, n)
    BY <1>1 DEF KissRead, A, G
  <1>6. Is(KissRead(k, data), n)
    <2> HIDE DEF Is
    <2> QED BY <1>4, <1>5
  <1> DEFINE steps == KissRead(k, data)
  <1>7. steps = [i \in 0 .. n |-> IF i = 0 THEN A ELSE G(steps[i - 1], i)]
    BY <1>6
  <1> HIDE DEF Is, T, steps
  <1>8. steps[0] = A /\ \A i \in 1 .. n : steps[i] = G(steps[i - 1], i)
    BY <1>7
  <1> QED BY <1>8 DEF A, G, steps

\* Wherever the reads cut the stream, a read takes the buffer on to its end.
LEMMA ReadTakesOn ==
    ASSUME NEW s \in Stream, NEW n \in Nat, NEW data \in [1 .. n -> KissBytes], NEW k, NEW out,
           Reads(s, Len(s), k, out)
    PROVE  Reads(s \o data, Len(s \o data), KissRead(k, data)[n].k, out \o KissRead(k, data)[n].out)
  <1> DEFINE steps == KissRead(k, data)
             t == s \o data
             L == Len(s)
             T == {i \in Nat : i <= n =>
                     steps[i].out \in Seq(Frames) /\ Reads(t, L + i, steps[i].k, out \o steps[i].out)}
  <1>1. L \in Nat /\ Len(t) = L + n /\ Agree(s, t, L) /\ \A i \in 1 .. n : t[L + i] = data[i]
    BY DEF Stream, Agree
  <1>2. /\ steps[0] = [k |-> k, out |-> <<>>]
        /\ \A i \in 1 .. n : steps[i] = [k |-> Take(steps[i - 1].k, data[i]),
                                        out |-> steps[i - 1].out \o Emitted(steps[i - 1].k, data[i])]
    BY ReadByByte
  <1> HIDE DEF steps, t, L
  <1>3. out \in Seq(Frames)
    BY DEF Reads
  <1>4. 0 \in T
    <2>1. /\ Content(s, L + 1) = Content(t, L + 1) /\ FramesOf(s, L) = FramesOf(t, L)
          /\ L > 0 => (ActiveEsc(s, L) <=> ActiveEsc(t, L))
          /\ \A e \in 1 .. L : s[e] = t[e]
      <3>1. L + 1 \in 1 .. L + 1 /\ (L > 0 => L \in 1 .. L)
        BY <1>1
      <3>2. \A e \in 1 .. L : s[e] = t[e]
        BY <1>1 DEF Agree
      <3> QED BY <1>1, <3>1, <3>2, ContentOfPrefix, FramesOfPrefix, ActiveOfPrefix
    <2>2. Reads(t, L, k, out)
      BY <1>1, <2>1 DEF Reads, L
    <2>3. out \o <<>> = out /\ <<>> \in Seq(Frames) /\ L + 0 = L
      BY <1>1, <1>3, ConcatEmptySeq
    <2>4. steps[0].k = k /\ steps[0].out = <<>>
      BY <1>2
    <2> QED BY <2>2, <2>3, <2>4
  <1>5. ASSUME NEW i \in Nat, i \in T PROVE i + 1 \in T
    <2> SUFFICES ASSUME i + 1 <= n
                 PROVE  /\ steps[i + 1].out \in Seq(Frames)
                        /\ Reads(t, L + (i + 1), steps[i + 1].k, out \o steps[i + 1].out)
      OBVIOUS
    <2>1. i <= n /\ i + 1 \in 1 .. n /\ (i + 1) - 1 = i /\ (L + i) + 1 = L + (i + 1) /\ L + i \in Nat
      BY <1>1
    <2>2. steps[i].out \in Seq(Frames) /\ Reads(t, L + i, steps[i].k, out \o steps[i].out)
      BY <1>5, <2>1
    <2> DEFINE b == data[i + 1]
               e == Emitted(steps[i].k, b)
    <2>3. steps[i + 1].k = Take(steps[i].k, b) /\ steps[i + 1].out = steps[i].out \o e
      <3>1. steps[i + 1] = [k |-> Take(steps[(i + 1) - 1].k, data[i + 1]),
                           out |-> steps[(i + 1) - 1].out \o Emitted(steps[(i + 1) - 1].k, data[i + 1])]
        BY <1>2, <2>1
      <3>2. steps[(i + 1) - 1] = steps[i]
        BY <2>1
      <3>3. steps[i + 1] = [k |-> Take(steps[i].k, b), out |-> steps[i].out \o e]
        BY <3>1, <3>2
      <3> HIDE DEF b, e
      <3> QED BY <3>3
    <2>4. t[(L + i) + 1] = b /\ b \in KissBytes
      BY <1>1, <2>1
    <2> HIDE DEF b, e
    <2>5. e \in Seq(Frames) /\ Reads(t, (L + i) + 1, Take(steps[i].k, b), (out \o steps[i].out) \o e)
      BY <2>1, <2>2, <2>4, ByteStep DEF e
    <2>6. (out \o steps[i].out) \o e = out \o (steps[i].out \o e) /\ steps[i].out \o e \in Seq(Frames)
      <3>1. \A u, v, w \in Seq(Frames) : (u \o v) \o w = u \o (v \o w) /\ v \o w \in Seq(Frames)
        BY ConcatAssociative, ConcatProperties
      <3>2. out \in Seq(Frames) /\ steps[i].out \in Seq(Frames) /\ e \in Seq(Frames)
        BY <1>3, <2>2, <2>5
      <3> QED BY <3>1, <3>2
    <2> QED BY <2>1, <2>3, <2>5, <2>6
  <1>6. n \in T
    <2> HIDE DEF T
    <2> QED BY <1>4, <1>5, SetInduction
  <1> QED BY <1>1, <1>6 DEF steps, t

(***************************************************************************)
(* The stream.                                                             *)
(***************************************************************************)
KissInv ==
    /\ kissSeen \in Stream /\ Len(kissSeen) <= KissLimit
    /\ Reads(kissSeen, Len(kissSeen), kissBuffer, kissOut)

LEMMA KissInvInit == KissInit => KissInv
  <1> SUFFICES ASSUME KissInit PROVE KissInv
    OBVIOUS
  <1>1. kissSeen \in Stream /\ Len(kissSeen) = 0 /\ 0 <= KissLimit
    BY KissAssumption DEF KissInit, Stream
  <1>2. Content(kissSeen, 1) = <<>>
    <2>1. Inside(kissSeen, 1) = {}
      BY DEF Inside
    <2> QED BY <2>1, NoContent
  <1>3. FramesOf(kissSeen, 0) = <<>>
    <2>1. Closed(kissSeen, 0) = {}
      BY DEF Closed
    <2>2. Cardinality(Closed(kissSeen, 0)) = 0
      BY <2>1, FS_EmptySet
    <2> QED BY <2>2 DEF FramesOf
  <1>4. kissBuffer \in Buffers /\ kissOut \in Seq(Frames)
    BY DEF KissInit, Buffers, Stream
  <1> QED BY <1>1, <1>2, <1>3, <1>4 DEF KissInit, KissInv, Reads

LEMMA KissInvStep == KissInv /\ [KissFeed]_kissVars => KissInv'
  <1> SUFFICES ASSUME KissInv, [KissFeed]_kissVars PROVE KissInv'
    OBVIOUS
  <1>1. CASE KissFeed
    <2>1. PICK n \in 1 .. KissChunk : \E data \in [1 .. n -> KissBytes] :
             /\ Len(kissSeen) + n <= KissLimit
             /\ kissSeen' = kissSeen \o data
             /\ kissOut' = kissOut \o KissRead(kissBuffer, data)[n].out
             /\ kissBuffer' = KissRead(kissBuffer, data)[n].k
      BY <1>1 DEF KissFeed
    <2>2. PICK data \in [1 .. n -> KissBytes] :
             /\ Len(kissSeen) + n <= KissLimit
             /\ kissSeen' = kissSeen \o data
             /\ kissOut' = kissOut \o KissRead(kissBuffer, data)[n].out
             /\ kissBuffer' = KissRead(kissBuffer, data)[n].k
      BY <2>1
    <2>3. n \in Nat /\ data \in Seq(KissBytes) /\ Len(data) = n
      BY <2>1, KissAssumption
    <2>4. kissSeen' \in Stream /\ Len(kissSeen') <= KissLimit
      <3>1. /\ kissSeen \o data \in Seq(KissBytes)
            /\ Len(kissSeen \o data) = Len(kissSeen) + Len(data)
        BY <2>3, ConcatProperties DEF KissInv, Stream
      <3> QED BY <2>2, <2>3, <3>1 DEF Stream
    <2> QED BY <2>2, <2>3, <2>4, ReadTakesOn DEF KissInv
  <1>2. CASE UNCHANGED kissVars
    BY <1>2 DEF kissVars, KissInv
  <1> QED BY <1>1, <1>2

LEMMA KissFollows == KissInv => KissFrames /\ KissTypeOK
  BY DEF KissInv, Reads, KissFrames, KissTypeOK, Buffers, Stream, Frames

\* Wherever the reads cut the stream, between an escape and the byte it escapes included,
\* and whatever bytes come before the first frame end: the frames returned are those of
\* the stream, no more and no less, in order (KissBuffer.feed).
THEOREM FramesAreOfStream == KissSpec => []KissFrames
  BY KissInvInit, KissInvStep, KissFollows, PTL DEF KissSpec

-----------------------------------------------------------------------------
(***************************************************************************)
(* The markers of a frame of the spectrum (SpectrumMarkers).               *)
(***************************************************************************)
Tables == [MarkerKeys -> [hits : 0 .. MinHits, age : 0 .. Gone]]

\* The table is that of the sightings, but for what has been dropped as stale.
TrackedAsSeen ==
    \A k \in MarkerKeys :
        candidates[k] = sightings[k] \/ (candidates[k] = None /\ sightings[k].age = Gone)

MarkersInv == MarkersTypeOK /\ TrackedAsSeen

LEMMA MarkerNumbers ==
    /\ MinHits \in Nat /\ MaxAge \in Nat /\ Gone \in Nat /\ Gone = MaxAge + 1
    /\ CwTtl \in Nat /\ SweepTtl \in Nat /\ VoiceTtl \in Nat /\ MaxSegments \in Nat
    /\ CwGone \in Nat /\ VoiceGone \in Nat
    /\ None \in [hits : 0 .. MinHits, age : 0 .. Gone]
  BY MarkersAssumption DEF Gone, CwGone, VoiceGone, None

LEMMA MarkersInvInit == MarkersInit => MarkersInv
  <1> SUFFICES ASSUME MarkersInit PROVE MarkersInv
    OBVIOUS
  <1>1. (CHOOSE b \in MarkerBands : TRUE) \in MarkerBands
    BY MarkersAssumption
  <1>2. MarkersTypeOK
    BY <1>1, MarkerNumbers DEF MarkersInit, MarkersTypeOK
  <1> QED BY <1>2 DEF MarkersInit, MarkersInv, TrackedAsSeen

LEMMA SeesFinite ==
    ASSUME NEW n \in Nat, NEW segments \in [1 .. n -> Segment], NEW k
    PROVE  Cardinality(Sees(segments, k)) \in Nat
  <1>1. IsFiniteSet(1 .. n)
    BY FS_Interval
  <1>2. Sees(segments, k) \subseteq 1 .. n
    BY DEF Sees
  <1> QED BY <1>1, <1>2, FS_Subset, FS_CardinalityType

LEMMA ScannedTyped ==
    ASSUME NEW n \in Nat, NEW segments \in [1 .. n -> Segment], NEW table \in Tables
    PROVE  Scanned(table, segments) \in Tables
  <1>1. \A k \in MarkerKeys : Cardinality(Sees(segments, k)) \in Nat
    BY SeesFinite
  <1> SUFFICES ASSUME NEW k \in MarkerKeys
               PROVE  Scanned(table, segments)[k] \in [hits : 0 .. MinHits, age : 0 .. Gone]
    BY DEF Scanned, Tables
  <1>2. table[k] \in [hits : 0 .. MinHits, age : 0 .. Gone]
    BY DEF Tables
  <1> QED BY <1>1, <1>2, MarkerNumbers DEF Scanned, Hit

LEMMA UnexpiredTyped ==
    ASSUME NEW table \in Tables
    PROVE  Unexpired(table) \in Tables
  BY MarkerNumbers DEF Tables, Unexpired

\* A frame: the markers of the table it leaves, and the sightings with it.
LEMMA FrameKeeps ==
    ASSUME MarkersInv, BuildFrame
    PROVE  MarkersInv' /\ \A m \in onFrame' :
              CASE m.of = "dsp" ->
                     /\ sightings'[m.at].hits >= MinHits /\ sightings'[m.at].age = 0
                     /\ \E f \in listening.band : MarkerKey(f) = m.at
                [] m.of = "cw" ->
                     cwCache[m.at] <= CwTtl \/ (listening.sweep /\ cwCache[m.at] <= SweepTtl)
                [] m.of = "voice" -> voiceCache[m.at] <= VoiceTtl
  <1>1. PICK n \in 0 .. MaxSegments : \E segments \in [1 .. n -> Segment] :
             LET table == Scanned(Unexpired(candidates), segments)
                 all == [of : {"dsp"}, at : Shown(table, segments)]
                          \cup [of : {"cw"}, at : CwKept] \cup [of : {"voice"}, at : VoiceKept]
             IN candidates' = table /\ sightings' = Sighted(segments) /\ onFrame' \in SUBSET all
    BY DEF BuildFrame
  <1>2. PICK segments \in [1 .. n -> Segment] :
             /\ candidates' = Scanned(Unexpired(candidates), segments)
             /\ sightings' = Sighted(segments)
             /\ onFrame' \subseteq [of : {"dsp"}, at : Shown(candidates', segments)]
                          \cup [of : {"cw"}, at : CwKept] \cup [of : {"voice"}, at : VoiceKept]
    BY <1>1
  <1>n. n \in Nat
    BY MarkerNumbers
  <1>t. /\ candidates \in Tables /\ sightings \in Tables
        /\ cwCache \in [CwSpots -> 0 .. CwGone] /\ voiceCache \in [VoiceSpots -> 0 .. VoiceGone]
        /\ listening \in [band : MarkerBands, ssb : BOOLEAN, sweep : BOOLEAN]
    BY DEF MarkersInv, MarkersTypeOK, Tables
  <1>3. /\ Unexpired(candidates) \in Tables /\ Unexpired(sightings) \in Tables
        /\ candidates' \in Tables
        /\ Scanned(Unexpired(sightings), segments) \in Tables
    BY <1>n, <1>t, <1>2, UnexpiredTyped, ScannedTyped
  <1>s. Sighted(segments) = [k \in MarkerKeys |->
            IF Sees(segments, k) = {} THEN sightings[k]
            ELSE Scanned(Unexpired(sightings), segments)[k]]
    BY DEF Sighted, Scanned, Unexpired
  <1>4. sightings' \in Tables
    BY <1>2, <1>3, <1>t, <1>s DEF Tables
  <1>5. \A k \in MarkerKeys : Sees(segments, k) # {} => sightings'[k] = candidates'[k]
    <2> SUFFICES ASSUME NEW k \in MarkerKeys, Sees(segments, k) # {}
                 PROVE  sightings'[k] = candidates'[k]
      OBVIOUS
    <2>1. Unexpired(sightings)[k] = Unexpired(candidates)[k]
      BY MarkerNumbers DEF MarkersInv, TrackedAsSeen, Unexpired, None
    <2> QED BY <1>2, <1>s, <2>1 DEF Scanned
  <1>6. TrackedAsSeen'
    <2> SUFFICES ASSUME NEW k \in MarkerKeys, Sees(segments, k) = {}
                 PROVE  candidates'[k] = sightings'[k]
                          \/ (candidates'[k] = None /\ sightings'[k].age = Gone)
      BY <1>5 DEF TrackedAsSeen
    <2>1. sightings'[k] = sightings[k] /\ candidates'[k] = Unexpired(candidates)[k]
      BY <1>2, <1>s DEF Scanned
    <2>2. sightings[k].age \in 0 .. Gone
      BY <1>t DEF Tables
    <2> QED BY <2>1, <2>2, MarkerNumbers DEF MarkersInv, TrackedAsSeen, Unexpired
  <1>7. \A k \in Shown(candidates', segments) :
           /\ k \in MarkerKeys /\ sightings'[k].hits >= MinHits /\ sightings'[k].age = 0
           /\ \E f \in listening.band : MarkerKey(f) = k
    <2> SUFFICES ASSUME NEW k \in Shown(candidates', segments)
                 PROVE  /\ k \in MarkerKeys
                        /\ sightings'[k].hits >= MinHits /\ sightings'[k].age = 0
                        /\ \E f \in listening.band : MarkerKey(f) = k
      OBVIOUS
    <2>1. k \in MarkerKeys /\ Sees(segments, k) # {} /\ candidates'[k].hits >= MinHits
      BY DEF Shown
    <2>2. candidates'[k].age = 0
      BY <1>2, <2>1 DEF Scanned, Hit
    <2>3. PICK i \in DOMAIN segments : Passes(segments[i]) /\ MarkerKey(segments[i].signal) = k
      BY <2>1 DEF Sees
    <2> QED BY <1>5, <2>1, <2>2, <2>3 DEF Passes
  <1>8. /\ \A c \in CwKept : /\ c \in CwSpots
                             /\ cwCache[c] <= CwTtl \/ (listening.sweep /\ cwCache[c] <= SweepTtl)
        /\ \A c \in VoiceKept : c \in VoiceSpots /\ voiceCache[c] <= VoiceTtl
    BY DEF CwKept, VoiceKept
  <1>9. \A m \in onFrame' :
           \/ m.of = "dsp" /\ m.at \in Shown(candidates', segments)
           \/ m.of = "cw" /\ m.at \in CwKept
           \/ m.of = "voice" /\ m.at \in VoiceKept
    BY <1>2
  <1>10. onFrame' \subseteq Markers
    BY <1>2, <1>7, <1>8 DEF Markers
  <1>11. /\ cwCache' \in [CwSpots -> 0 .. CwGone] /\ voiceCache' \in [VoiceSpots -> 0 .. VoiceGone]
         /\ listening' = listening
    BY <1>t, MarkerNumbers DEF BuildFrame
  <1>12. MarkersTypeOK'
    BY <1>3, <1>4, <1>10, <1>11, <1>t DEF MarkersTypeOK, Tables
  <1>13. \A m \in onFrame' :
              CASE m.of = "dsp" ->
                     /\ sightings'[m.at].hits >= MinHits /\ sightings'[m.at].age = 0
                     /\ \E f \in listening.band : MarkerKey(f) = m.at
                [] m.of = "cw" ->
                     cwCache[m.at] <= CwTtl \/ (listening.sweep /\ cwCache[m.at] <= SweepTtl)
                [] m.of = "voice" -> voiceCache[m.at] <= VoiceTtl
    BY <1>7, <1>8, <1>9
  <1> QED BY <1>6, <1>12, <1>13 DEF MarkersInv

LEMMA TickKeepsMarkers ==
    ASSUME MarkersInv, MarkersTick
    PROVE  MarkersInv'
  <1>t. /\ candidates \in Tables /\ sightings \in Tables
        /\ cwCache \in [CwSpots -> 0 .. CwGone] /\ voiceCache \in [VoiceSpots -> 0 .. VoiceGone]
    BY DEF MarkersInv, MarkersTypeOK, Tables
  <1>1. \A limit \in Nat : \A age \in 0 .. limit :
           AgedBy1(age, limit) \in 0 .. limit /\ (age = limit => AgedBy1(age, limit) = limit)
    BY DEF AgedBy1
  <1>2. \A k \in MarkerKeys :
           /\ candidates'[k] = [candidates[k] EXCEPT !.age = AgedBy1(candidates[k].age, Gone)]
           /\ sightings'[k] = [sightings[k] EXCEPT !.age = AgedBy1(sightings[k].age, Gone)]
    BY DEF MarkersTick
  <1>a. ASSUME NEW c \in [hits : 0 .. MinHits, age : 0 .. Gone]
        PROVE  /\ [c EXCEPT !.age = AgedBy1(c.age, Gone)] \in [hits : 0 .. MinHits, age : 0 .. Gone]
               /\ c.age = Gone => [c EXCEPT !.age = AgedBy1(c.age, Gone)] = c
    <2>1. AgedBy1(c.age, Gone) \in 0 .. Gone /\ (c.age = Gone => AgedBy1(c.age, Gone) = Gone)
      BY <1>1, MarkerNumbers
    <2> QED BY <2>1
  <1>b. \A k \in MarkerKeys : /\ candidates[k] \in [hits : 0 .. MinHits, age : 0 .. Gone]
                              /\ sightings[k] \in [hits : 0 .. MinHits, age : 0 .. Gone]
    BY <1>t DEF Tables
  <1>3. candidates' \in Tables /\ sightings' \in Tables
    BY <1>a, <1>b DEF MarkersTick, Tables
  <1>4. /\ cwCache' \in [CwSpots -> 0 .. CwGone] /\ voiceCache' \in [VoiceSpots -> 0 .. VoiceGone]
    BY <1>t, <1>1, MarkerNumbers DEF MarkersTick
  <1>5. TrackedAsSeen'
    <2> SUFFICES ASSUME NEW k \in MarkerKeys
                 PROVE  candidates'[k] = sightings'[k]
                          \/ (candidates'[k] = None /\ sightings'[k].age = Gone)
      BY DEF TrackedAsSeen
    <2>1. CASE candidates[k] = sightings[k]
      BY <1>2, <2>1
    <2>2. CASE candidates[k] = None /\ sightings[k].age = Gone
      <3>1. candidates[k].age = Gone
        BY <2>2 DEF None
      <3>2. candidates'[k] = candidates[k] /\ sightings'[k] = sightings[k]
        BY <1>a, <1>b, <1>2, <2>2, <3>1
      <3> QED BY <2>2, <3>2
    <2> QED BY <2>1, <2>2 DEF MarkersInv, TrackedAsSeen
  <1> QED BY <1>3, <1>4, <1>5 DEF MarkersTick, MarkersInv, MarkersTypeOK, Tables

LEMMA MarkersInvStep == MarkersInv /\ [MarkersNext]_markerVars => MarkersInv'
  <1> SUFFICES ASSUME MarkersInv, [MarkersNext]_markerVars PROVE MarkersInv'
    OBVIOUS
  <1>1. ASSUME NEW l \in [band : MarkerBands, ssb : BOOLEAN, sweep : BOOLEAN], ListensTo(l)
        PROVE  MarkersInv'
    BY <1>1 DEF ListensTo, MarkersInv, MarkersTypeOK, TrackedAsSeen
  <1>2. ASSUME NEW c \in CwSpots, CwMarked(c) PROVE MarkersInv'
    BY <1>2, MarkerNumbers DEF CwMarked, MarkersInv, MarkersTypeOK, TrackedAsSeen
  <1>3. ASSUME NEW c \in VoiceSpots, VoiceMarked(c) PROVE MarkersInv'
    BY <1>3, MarkerNumbers DEF VoiceMarked, MarkersInv, MarkersTypeOK, TrackedAsSeen
  <1>4. CASE VoiceCleared
    BY <1>4, MarkerNumbers DEF VoiceCleared, MarkersInv, MarkersTypeOK, TrackedAsSeen
  <1>5. CASE UNCHANGED markerVars
    BY <1>5 DEF markerVars, MarkersInv, MarkersTypeOK, TrackedAsSeen
  <1> QED BY <1>1, <1>2, <1>3, <1>4, <1>5, FrameKeeps, TickKeepsMarkers DEF MarkersNext

LEMMA MarkersInvHolds == MarkersSpec => []MarkersInv
  BY MarkersInvInit, MarkersInvStep, PTL DEF MarkersSpec

\* However many viewers build frames and however long none does: a marker has enough
\* sightings with no pause longer than the time-out, the last in this frame and on the band
\* of the scan, and a CW or voice marker is younger than its time to live (ws_spectrum).
THEOREM MarkersAreEarned == MarkersSpec => MarkersEarned
  <1>1. MarkersInv /\ [MarkersNext]_markerVars =>
          [\A m \in onFrame' :
              CASE m.of = "dsp" ->
                     /\ sightings'[m.at].hits >= MinHits /\ sightings'[m.at].age = 0
                     /\ \E f \in listening.band : MarkerKey(f) = m.at
                [] m.of = "cw" ->
                     cwCache[m.at] <= CwTtl \/ (listening.sweep /\ cwCache[m.at] <= SweepTtl)
                [] m.of = "voice" -> voiceCache[m.at] <= VoiceTtl]_markerVars
    <2> SUFFICES ASSUME MarkersInv, MarkersNext
                 PROVE  BuildFrame \/ onFrame' = {}
      BY FrameKeeps
    <2> QED BY DEF MarkersNext, MarkersTick, VoiceCleared, ListensTo, CwMarked, VoiceMarked
  <1> QED BY <1>1, MarkersInvHolds, PTL DEF MarkersSpec, MarkersEarned

-----------------------------------------------------------------------------
(***************************************************************************)
(* What the screen polls (PolledFeed).                                     *)
(***************************************************************************)
Handlers == [feed : {"none", "log", "status", "sending"},
             last : 0 .. LogMax, sending : 0 .. LastNotice]
KeptLogs == IF logged < LogMax THEN logged ELSE LogMax

PolledTyped ==
    /\ logged \in 0 .. LastLog /\ noticed \in 0 .. LastNotice /\ notice \in 0 .. LastNotice
    /\ reader \in [Readers -> Handlers]
    /\ read \in [Readers -> Seq(1 .. LastLog)]
    /\ told \in [1 .. LastNotice -> 0 .. 1]

(***************************************************************************)
(* A notice is in one place: waiting on the shared state, in the payload   *)
(* of one handler, or told.                                                *)
(***************************************************************************)
NoticeOnce ==
    /\ notice <= noticed
    /\ \A r \in Readers :
        /\ reader[r].feed # "sending" => reader[r].sending = 0
        /\ reader[r].sending # 0 =>
             /\ reader[r].sending <= noticed /\ reader[r].sending # notice
             /\ told[reader[r].sending] = 0
             /\ \A q \in Readers \ {r} : reader[q].sending # reader[r].sending
    /\ \A k \in 1 .. LastNotice : told[k] # 0 => k <= noticed /\ k # notice

\* What a connection was sent lies below the entry its index stands for.
ReadBelow ==
    \A r \in Readers :
        /\ \A i, j \in 1 .. Len(read[r]) : i < j => read[r][i] < read[r][j]
        /\ reader[r].feed # "log" => reader[r].last = 0
        /\ reader[r].feed = "log" =>
             /\ reader[r].last <= KeptLogs
             /\ \A i \in 1 .. Len(read[r]) :
                  read[r][i] <= (logged - KeptLogs) + reader[r].last
             /\ logged <= LogMax => read[r] = [i \in 1 .. reader[r].last |-> i]

PolledInv == PolledTyped /\ NoticeOnce /\ ReadBelow

-----------------------------------------------------------------------------
LEMMA PolledNumbers ==
    ASSUME PolledTyped
    PROVE  /\ logged \in Nat /\ LogMax \in Nat /\ LogMax > 0 /\ LastLog \in Nat
           /\ noticed \in Nat /\ notice \in Nat /\ LastNotice \in Nat
           /\ KeptLogs \in 0 .. LogMax /\ KeptLogs <= logged
           /\ KeptLogs = LogMax \/ KeptLogs = logged
           /\ \A r \in Readers : reader[r] \in Handlers /\ reader[r].last \in Nat
                                 /\ reader[r].sending \in Nat
  <1>1. LogMax \in Nat /\ LogMax > 0 /\ LastLog \in Nat /\ LastNotice \in Nat
    BY PolledAssumption
  <1>2. /\ logged \in Nat /\ noticed \in Nat /\ notice \in Nat
    BY <1>1 DEF PolledTyped
  <1>3. \A r \in Readers : reader[r] \in Handlers /\ reader[r].last \in Nat
                          /\ reader[r].sending \in Nat
    BY <1>1 DEF PolledTyped, Handlers
  <1>4. KeptLogs \in 0 .. LogMax /\ KeptLogs <= logged
        /\ (KeptLogs = LogMax \/ KeptLogs = logged)
    BY <1>1, <1>2 DEF KeptLogs
  <1> QED BY <1>1, <1>2, <1>3, <1>4

LEMMA PolledInvInit == PolledInit => PolledInv
  <1> SUFFICES ASSUME PolledInit PROVE PolledInv
    OBVIOUS
  <1>1. LogMax \in Nat /\ LastLog \in Nat /\ LastNotice \in Nat
    BY PolledAssumption
  <1>2. Away \in Handlers /\ Away.feed = "none" /\ Away.last = 0 /\ Away.sending = 0
    BY <1>1 DEF Away, Handlers
  <1>3. PolledTyped
    BY <1>1, <1>2 DEF PolledInit, PolledTyped
  <1>4. NoticeOnce
    BY <1>1, <1>2 DEF PolledInit, NoticeOnce
  <1>5. ReadBelow
    <2>1. \A r \in Readers : read[r] = <<>> /\ reader[r].feed = "none" /\ reader[r].last = 0
      BY <1>2 DEF PolledInit
    <2>2. \A i, j \in 1 .. Len(<<>>) : i < j => FALSE
      OBVIOUS
    <2> QED BY <2>1, <2>2 DEF ReadBelow
  <1> QED BY <1>3, <1>4, <1>5 DEF PolledInv

LEMMA ArrivesKeeps ==
    ASSUME PolledInv, NEW r \in Readers, NEW feed \in {"log", "status"}, Arrives(r, feed)
    PROVE  PolledInv'
  <1>1. /\ PolledTyped /\ reader[r] = Away /\ reader' = [reader EXCEPT ![r].feed = feed]
        /\ read' = [read EXCEPT ![r] = <<>>] /\ UNCHANGED <<logged, noticed, notice, told>>
    BY DEF PolledInv, Arrives
  <1>2. /\ reader' \in [Readers -> Handlers] /\ reader'[r].feed = feed
        /\ reader'[r].last = 0 /\ reader'[r].sending = 0
        /\ \A q \in Readers \ {r} : reader'[q] = reader[q]
    <2>1. reader \in [Readers -> Handlers]
      BY <1>1 DEF PolledTyped
    <2>2. reader[r].last = 0 /\ reader[r].sending = 0
      BY <1>1 DEF Away
    <2> QED BY <1>1, <2>1, <2>2 DEF Handlers
  <1>3. /\ read' \in [Readers -> Seq(1 .. LastLog)] /\ read'[r] = <<>>
        /\ \A q \in Readers \ {r} : read'[q] = read[q]
    BY <1>1 DEF PolledTyped
  <1>4. PolledTyped'
    BY <1>1, <1>2, <1>3 DEF PolledTyped
  <1>5. NoticeOnce'
    BY <1>1, <1>2 DEF PolledInv, NoticeOnce
  <1>6. ReadBelow'
    <2>1. KeptLogs' = KeptLogs /\ 0 <= KeptLogs
      BY <1>1, PolledNumbers DEF KeptLogs
    <2>2. ASSUME NEW q \in Readers
          PROVE  /\ \A i, j \in 1 .. Len(read'[q]) : i < j => read'[q][i] < read'[q][j]
                 /\ reader'[q].feed # "log" => reader'[q].last = 0
                 /\ reader'[q].feed = "log" =>
                      /\ reader'[q].last <= KeptLogs
                      /\ \A i \in 1 .. Len(read'[q]) :
                           read'[q][i] <= (logged - KeptLogs) + reader'[q].last
                      /\ logged <= LogMax => read'[q] = [i \in 1 .. reader'[q].last |-> i]
      <3>1. CASE q = r
        <4>1. <<>> = [i \in 1 .. 0 |-> i]
          OBVIOUS
        <4> QED BY <3>1, <1>2, <1>3, <2>1, <4>1
      <3>2. CASE q # r
        BY <3>2, <1>2, <1>3 DEF PolledInv, ReadBelow
      <3> QED BY <3>1, <3>2
    <2> QED BY <1>1, <2>1, <2>2 DEF ReadBelow
  <1> QED BY <1>4, <1>5, <1>6 DEF PolledInv

LEMMA DepartsKeeps ==
    ASSUME PolledInv, NEW r \in Readers, Departs(r)
    PROVE  PolledInv'
  <1>1. /\ PolledTyped /\ reader' = [reader EXCEPT ![r] = Away]
        /\ UNCHANGED <<logged, noticed, notice, read, told>>
    BY DEF PolledInv, Departs
  <1>2. /\ reader' \in [Readers -> Handlers] /\ reader'[r].feed = "none"
        /\ reader'[r].last = 0 /\ reader'[r].sending = 0
        /\ \A q \in Readers \ {r} : reader'[q] = reader[q]
    BY <1>1, PolledAssumption DEF PolledTyped, Handlers, Away
  <1>3. PolledTyped'
    BY <1>1, <1>2 DEF PolledTyped
  <1>4. NoticeOnce'
    BY <1>1, <1>2 DEF PolledInv, NoticeOnce
  <1>5. ReadBelow'
    BY <1>1, <1>2 DEF PolledInv, ReadBelow, KeptLogs
  <1> QED BY <1>3, <1>4, <1>5 DEF PolledInv

\* What an index stands for never falls back.
LEMMA LogsKeeps ==
    ASSUME PolledInv, Logs
    PROVE  PolledInv'
  <1>1. /\ PolledTyped /\ logged < LastLog /\ logged' = logged + 1
        /\ UNCHANGED <<noticed, notice, reader, read, told>>
    BY DEF PolledInv, Logs
  <1>2. PolledTyped' /\ NoticeOnce'
    BY <1>1, PolledAssumption DEF PolledInv, PolledTyped, NoticeOnce
  <1>3. /\ KeptLogs <= KeptLogs' /\ logged - KeptLogs <= logged' - KeptLogs'
        /\ KeptLogs \in Nat /\ KeptLogs' \in Nat
        /\ logged - KeptLogs \in Nat /\ logged' - KeptLogs' \in Nat
        /\ logged' <= LogMax => logged <= LogMax
    <2>1. logged \in Nat /\ LogMax \in Nat
      BY <1>1, PolledAssumption DEF PolledTyped
    <2> QED BY <1>1, <2>1 DEF KeptLogs
  <1>4. ASSUME NEW r \in Readers, reader[r].feed = "log"
        PROVE  /\ reader[r].last <= KeptLogs'
               /\ \A i \in 1 .. Len(read[r]) :
                    read[r][i] <= (logged' - KeptLogs') + reader[r].last
    <2>1. reader[r].last \in Nat /\ \A i \in 1 .. Len(read[r]) : read[r][i] \in Nat
      <3>1. read[r] \in Seq(1 .. LastLog) /\ LastLog \in Nat
        BY <1>1, PolledAssumption DEF PolledTyped
      <3> QED BY <1>1, <3>1, PolledNumbers
    <2>2. /\ reader[r].last <= KeptLogs
          /\ \A i \in 1 .. Len(read[r]) : read[r][i] <= (logged - KeptLogs) + reader[r].last
      BY <1>4 DEF PolledInv, ReadBelow
    <2> HIDE DEF KeptLogs
    <2>3. \A m, a, b, n \in Nat : a <= b /\ m <= a + n => m <= b + n
      OBVIOUS
    <2> QED BY <1>3, <2>1, <2>2, <2>3
  <1>5. ReadBelow'
    BY <1>1, <1>3, <1>4 DEF PolledInv, ReadBelow
  <1> QED BY <1>2, <1>5 DEF PolledInv

LEMMA PurgedKeeps ==
    ASSUME PolledInv, Purged
    PROVE  PolledInv'
  <1>1. /\ PolledTyped /\ noticed < LastNotice /\ noticed' = noticed + 1
        /\ notice' = noticed + 1 /\ UNCHANGED <<logged, reader, read, told>>
    BY DEF PolledInv, Purged
  <1>2. noticed \in Nat /\ LastNotice \in Nat /\ notice \in Nat
    BY <1>1, PolledNumbers
  <1>3. PolledTyped'
    BY <1>1, <1>2 DEF PolledTyped
  <1>4. NoticeOnce'
    <2>1. \A r \in Readers : reader[r].sending \in Nat
      BY <1>1, PolledNumbers
    <2>2. ASSUME NEW r \in Readers, reader[r].sending # 0
          PROVE  /\ reader[r].sending <= noticed' /\ reader[r].sending # notice'
                 /\ told[reader[r].sending] = 0
                 /\ \A q \in Readers \ {r} : reader[q].sending # reader[r].sending
      BY <1>1, <1>2, <2>1, <2>2 DEF PolledInv, NoticeOnce
    <2>3. \A k \in 1 .. LastNotice : told[k] # 0 => k <= noticed' /\ k # notice'
      BY <1>1, <1>2 DEF PolledInv, NoticeOnce
    <2> QED BY <1>1, <1>2, <2>2, <2>3 DEF PolledInv, NoticeOnce
  <1>5. ReadBelow'
    BY <1>1 DEF PolledInv, ReadBelow, KeptLogs
  <1> QED BY <1>3, <1>4, <1>5 DEF PolledInv

LEMMA StatusPollsKeeps ==
    ASSUME PolledInv, NEW r \in Readers, StatusPolls(r)
    PROVE  PolledInv'
  <1>1. /\ PolledTyped /\ reader[r].feed = "status" /\ notice' = 0
        /\ reader' = [reader EXCEPT ![r] =
                        [@ EXCEPT !.feed = "sending", !.sending = notice]]
        /\ UNCHANGED <<logged, noticed, read, told>>
    BY DEF PolledInv, StatusPolls, NoticeTaken
  <1>2. noticed \in Nat /\ LastNotice \in Nat /\ notice \in 0 .. LastNotice
    BY <1>1, PolledNumbers DEF PolledTyped
  <1>3. /\ reader' \in [Readers -> Handlers] /\ reader'[r].feed = "sending"
        /\ reader'[r].last = reader[r].last /\ reader'[r].sending = notice
        /\ \A q \in Readers \ {r} : reader'[q] = reader[q]
    BY <1>1, <1>2 DEF PolledTyped, Handlers
  <1>4. PolledTyped'
    BY <1>1, <1>2, <1>3 DEF PolledTyped
  <1>5. NoticeOnce'
    <2>1. notice # 0 => notice \in 1 .. LastNotice /\ told[notice] = 0
      BY <1>1, <1>2 DEF PolledInv, PolledTyped, NoticeOnce
    <2>2. \A k \in 1 .. LastNotice : told[k] # 0 => k <= noticed /\ k # 0
      BY <1>2 DEF PolledInv, NoticeOnce
    <2>3. ASSUME NEW p \in Readers, reader'[p].sending # 0
          PROVE  /\ reader'[p].sending <= noticed /\ told[reader'[p].sending] = 0
                 /\ \A q \in Readers \ {p} : reader'[q].sending # reader'[p].sending
      BY <1>3, <2>1, <2>3 DEF PolledInv, NoticeOnce
    <2> QED BY <1>1, <1>2, <1>3, <2>2, <2>3 DEF PolledInv, NoticeOnce
  <1>6. ReadBelow'
    BY <1>1, <1>3 DEF PolledInv, ReadBelow, KeptLogs
  <1> QED BY <1>4, <1>5, <1>6 DEF PolledInv

LEMMA StatusSentKeeps ==
    ASSUME PolledInv, NEW r \in Readers, StatusSent(r)
    PROVE  PolledInv'
  <1>1. /\ PolledTyped /\ reader[r].feed = "sending"
        /\ told' = [k \in DOMAIN told |-> told[k] + (IF reader[r].sending = k THEN 1 ELSE 0)]
        /\ reader' = [reader EXCEPT ![r] = [@ EXCEPT !.feed = "status", !.sending = 0]]
        /\ UNCHANGED <<logged, noticed, notice, read>>
    BY DEF PolledInv, StatusSent
  <1>2. noticed \in Nat /\ LastNotice \in Nat /\ notice \in 0 .. LastNotice
    BY <1>1, PolledNumbers DEF PolledTyped
  <1>3. /\ reader' \in [Readers -> Handlers] /\ reader'[r].feed = "status"
        /\ reader'[r].last = reader[r].last /\ reader'[r].sending = 0
        /\ \A q \in Readers \ {r} : reader'[q] = reader[q]
    <2>1. reader \in [Readers -> Handlers] /\ 0 \in 0 .. LastNotice
      BY <1>1, <1>2 DEF PolledTyped
    <2> QED BY <1>1, <2>1 DEF Handlers
  <1>4. ASSUME NEW k \in 1 .. LastNotice
        PROVE  /\ told'[k] \in 0 .. 1
               /\ reader[r].sending # k => told'[k] = told[k]
               /\ reader[r].sending = k => told[k] = 0 /\ told'[k] = 1
    <2>1. told[k] \in 0 .. 1 /\ k \in DOMAIN told /\ k # 0
      BY <1>1 DEF PolledTyped
    <2>2. reader[r].sending = k => told[k] = 0
      BY <1>1, <2>1 DEF PolledInv, NoticeOnce
    <2> QED BY <1>1, <2>1, <2>2
  <1>5. DOMAIN told = 1 .. LastNotice
    BY <1>1 DEF PolledTyped
  <1>6. PolledTyped'
    <2>1. told' \in [1 .. LastNotice -> 0 .. 1]
      BY <1>1, <1>4, <1>5
    <2> QED BY <1>1, <1>3, <2>1 DEF PolledTyped
  <1>7. NoticeOnce'
    <2>1. ASSUME NEW p \in Readers, reader'[p].sending # 0
          PROVE  /\ reader'[p].sending <= noticed /\ reader'[p].sending # notice
                 /\ told'[reader'[p].sending] = 0
                 /\ \A q \in Readers \ {p} : reader'[q].sending # reader'[p].sending
      <3>1. p # r /\ reader'[p] = reader[p] /\ reader[p].sending \in 1 .. LastNotice
        BY <1>1, <1>2, <1>3, <2>1 DEF PolledTyped, Handlers
      <3>2. /\ reader[p].sending <= noticed /\ reader[p].sending # notice
            /\ told[reader[p].sending] = 0
            /\ \A q \in Readers \ {p} : reader[q].sending # reader[p].sending
        BY <2>1, <3>1 DEF PolledInv, NoticeOnce
      <3> QED BY <1>3, <1>4, <2>1, <3>1, <3>2
    <2>2. ASSUME NEW k \in 1 .. LastNotice, told'[k] # 0 PROVE k <= noticed /\ k # notice
      <3>1. CASE reader[r].sending = k
        BY <3>1 DEF PolledInv, NoticeOnce
      <3>2. CASE reader[r].sending # k
        BY <1>4, <2>2, <3>2 DEF PolledInv, NoticeOnce
      <3> QED BY <3>1, <3>2
    <2> QED BY <1>1, <1>3, <2>1, <2>2 DEF PolledInv, NoticeOnce
  <1>8. ReadBelow'
    BY <1>1, <1>3 DEF PolledInv, ReadBelow, KeptLogs
  <1> QED BY <1>6, <1>7, <1>8 DEF PolledInv

LEMMA IndexSplit ==
    ASSUME NEW m \in Nat, NEW n \in Nat, NEW i \in 1 .. m + n
    PROVE  i \in 1 .. m \/ \E k \in 1 .. n : i = m + k
  <1> SUFFICES ASSUME i \notin 1 .. m PROVE \E k \in 1 .. n : i = m + k
    OBVIOUS
  <1>1. i - m \in 1 .. n /\ i = m + (i - m)
    OBVIOUS
  <1> QED BY <1>1

\* The batch starts right after the entry the index stands for.
LEMMA LogPollsKeeps ==
    ASSUME PolledInv, NEW r \in Readers, LogPolls(r)
    PROVE  PolledInv'
  <1> DEFINE base == logged - KeptLogs
             last == reader[r].last
             batch == BatchAfter(last)
  <1>n. /\ logged \in Nat /\ LogMax \in Nat /\ LogMax > 0 /\ LastLog \in Nat
        /\ KeptLogs \in 0 .. LogMax /\ KeptLogs <= logged /\ logged <= LastLog
        /\ last \in Nat /\ base \in Nat /\ base + KeptLogs = logged
        /\ logged <= LogMax => KeptLogs = logged
    <2>1. PolledTyped /\ logged <= LastLog /\ logged \in Nat
      BY PolledAssumption DEF PolledInv, PolledTyped
    <2>2. /\ LogMax \in Nat /\ LogMax > 0 /\ LastLog \in Nat /\ KeptLogs \in 0 .. LogMax
          /\ KeptLogs <= logged /\ last \in Nat
      BY <2>1, PolledNumbers
    <2>3. logged <= LogMax => KeptLogs = logged
      BY <2>1, <2>2 DEF KeptLogs
    <2> QED BY <2>1, <2>2, <2>3
  <1>1. /\ PolledTyped /\ reader[r].feed = "log" /\ last < Len(LogsSnap)
        /\ read' = [read EXCEPT ![r] = @ \o batch]
        /\ reader' = [reader EXCEPT ![r].last = Len(LogsSnap)]
        /\ UNCHANGED <<logged, noticed, notice, told>>
    BY DEF PolledInv, LogPolls
  <1>2. /\ LogsSnap = [i \in 1 .. KeptLogs |-> base + i] /\ Len(LogsSnap) = KeptLogs
        /\ \A i \in 1 .. KeptLogs : LogsSnap[i] = base + i
    BY <1>n DEF LogsSnap, KeptLogs
  <1>3. /\ Len(batch) = KeptLogs - last /\ batch \in Seq(1 .. LastLog)
        /\ \A i \in 1 .. Len(batch) : batch[i] = base + last + i
    <2>1. \A i \in last + 1 .. KeptLogs : LogsSnap[i] \in 1 .. LastLog
      BY <1>n, <1>2
    <2>2. /\ SubSeq(LogsSnap, last + 1, KeptLogs) \in Seq(1 .. LastLog)
          /\ Len(SubSeq(LogsSnap, last + 1, KeptLogs)) = KeptLogs - last
          /\ \A i \in 1 .. KeptLogs - last :
               SubSeq(LogsSnap, last + 1, KeptLogs)[i] = LogsSnap[last + i]
      <3>1. last + 1 \in Int /\ KeptLogs \in Int /\ last + 1 <= KeptLogs
        BY <1>n, <1>1, <1>2
      <3> QED BY <2>1, <3>1, <1>n, SubSeqProperties
    <2>3. batch = SubSeq(LogsSnap, last + 1, KeptLogs)
      BY <1>2 DEF BatchAfter
    <2> HIDE DEF batch, last, base
    <2>4. ASSUME NEW i \in 1 .. KeptLogs - last PROVE batch[i] = base + last + i
      <3>1. last + i \in 1 .. KeptLogs /\ base + (last + i) = base + last + i
        BY <1>n
      <3> QED BY <1>2, <2>2, <2>3, <3>1
    <2> QED BY <2>2, <2>3, <2>4
  <1> HIDE DEF batch
  <1>4. /\ reader' \in [Readers -> Handlers] /\ reader'[r].feed = "log"
        /\ reader'[r].last = KeptLogs /\ reader'[r].sending = reader[r].sending
        /\ \A q \in Readers \ {r} : reader'[q] = reader[q]
    <2>1. reader \in [Readers -> Handlers]
      BY <1>1 DEF PolledTyped
    <2> QED BY <1>1, <1>2, <1>n, <2>1 DEF Handlers
  <1>5. /\ read[r] \in Seq(1 .. LastLog) /\ Len(read[r]) \in Nat
        /\ \A i \in 1 .. Len(read[r]) : read[r][i] \in Nat
    <2>1. read[r] \in Seq(1 .. LastLog)
      BY <1>1 DEF PolledTyped
    <2> QED BY <1>n, <2>1
  <1>6. /\ read'[r] \in Seq(1 .. LastLog) /\ Len(read'[r]) = Len(read[r]) + Len(batch)
        /\ \A i \in 1 .. Len(read[r]) : read'[r][i] = read[r][i]
        /\ \A i \in 1 .. Len(batch) : read'[r][Len(read[r]) + i] = batch[i]
    <2>1. read'[r] = read[r] \o batch
      BY <1>1 DEF PolledTyped
    <2>2. /\ read'[r] \in Seq(1 .. LastLog) /\ Len(read'[r]) = Len(read[r]) + Len(batch)
          /\ \A i \in 1 .. Len(read[r]) + Len(batch) : read'[r][i] =
                IF i <= Len(read[r]) THEN read[r][i] ELSE batch[i - Len(read[r])]
      <3>1. batch \in Seq(1 .. LastLog) /\ read[r] \in Seq(1 .. LastLog)
        BY <1>3, <1>5
      <3> QED BY <2>1, <3>1, ConcatProperties
    <2>3. Len(batch) \in Nat
      BY <1>3
    <2>4. \A i \in 1 .. Len(batch) : /\ Len(read[r]) + i \in 1 .. Len(read[r]) + Len(batch)
                                     /\ ~(Len(read[r]) + i <= Len(read[r]))
                                     /\ (Len(read[r]) + i) - Len(read[r]) = i
      BY <1>5, <2>3
    <2>5. \A i \in 1 .. Len(read[r]) : i \in 1 .. Len(read[r]) + Len(batch) /\ i <= Len(read[r])
      BY <1>5, <2>3
    <2> QED BY <2>2, <2>4, <2>5
  <1>7. /\ read' \in [Readers -> Seq(1 .. LastLog)]
        /\ \A q \in Readers \ {r} : read'[q] = read[q]
    BY <1>1, <1>6 DEF PolledTyped
  <1>8. PolledTyped'
    BY <1>1, <1>4, <1>7 DEF PolledTyped
  <1>9. NoticeOnce'
    BY <1>1, <1>4 DEF PolledInv, NoticeOnce
  <1>10. \A i \in 1 .. Len(read'[r]) :
           i \in 1 .. Len(read[r]) \/ \E k \in 1 .. Len(batch) : i = Len(read[r]) + k
    <2>1. Len(batch) \in Nat /\ Len(read[r]) \in Nat
      BY <1>3, <1>5
    <2>2. ASSUME NEW i \in 1 .. Len(read[r]) + Len(batch)
          PROVE  i \in 1 .. Len(read[r]) \/ \E k \in 1 .. Len(batch) : i = Len(read[r]) + k
      BY <2>1, IndexSplit
    <2> QED BY <1>6, <2>2
  <1>11. /\ last <= KeptLogs
         /\ \A i \in 1 .. Len(read[r]) : read[r][i] <= base + last
         /\ \A i, j \in 1 .. Len(read[r]) : i < j => read[r][i] < read[r][j]
         /\ logged <= LogMax => read[r] = [i \in 1 .. last |-> i]
    BY <1>1 DEF PolledInv, ReadBelow
  <1> HIDE DEF base, last
  <1>12. ASSUME NEW i \in 1 .. Len(read'[r]), NEW j \in 1 .. Len(read'[r]), i < j
         PROVE  read'[r][i] < read'[r][j]
    <2>1. CASE i \in 1 .. Len(read[r]) /\ j \in 1 .. Len(read[r])
      BY <1>6, <1>11, <1>12, <2>1
    <2>2. ASSUME i \in 1 .. Len(read[r]), NEW k \in 1 .. Len(batch), j = Len(read[r]) + k
          PROVE  read'[r][i] < read'[r][j]
      <3>1. read'[r][i] = read[r][i] /\ read[r][i] \in Nat /\ read[r][i] <= base + last
        BY <1>5, <1>6, <1>11, <2>2
      <3>2. read'[r][j] = base + last + k
        BY <1>3, <1>6, <2>2
      <3> QED BY <1>n, <3>1, <3>2
    <2>3. ASSUME NEW k \in 1 .. Len(batch), NEW m \in 1 .. Len(batch),
                 i = Len(read[r]) + k, j = Len(read[r]) + m
          PROVE  read'[r][i] < read'[r][j]
      <3>1. read'[r][i] = base + last + k /\ read'[r][j] = base + last + m
        BY <1>3, <1>6, <2>3
      <3> QED BY <1>n, <1>5, <1>12, <2>3, <3>1
    <2>4. ASSUME NEW k \in 1 .. Len(batch), i = Len(read[r]) + k, j \in 1 .. Len(read[r])
          PROVE  FALSE
      BY <1>5, <1>12, <2>4
    <2> QED BY <1>10, <2>1, <2>2, <2>3, <2>4
  <1>13. ASSUME NEW i \in 1 .. Len(read'[r])
         PROVE  read'[r][i] <= base + KeptLogs
    <2>1. CASE i \in 1 .. Len(read[r])
      <3>1. read'[r][i] = read[r][i] /\ read[r][i] \in Nat /\ read[r][i] <= base + last
        BY <1>5, <1>6, <1>11, <2>1
      <3> QED BY <1>n, <1>11, <3>1
    <2>2. ASSUME NEW k \in 1 .. Len(batch), i = Len(read[r]) + k
          PROVE  read'[r][i] <= base + KeptLogs
      <3>1. read'[r][i] = base + last + k /\ k <= KeptLogs - last /\ k \in Nat
        BY <1>3, <1>6, <2>2
      <3> QED BY <1>n, <3>1
    <2> QED BY <1>10, <2>1, <2>2
  <1>14. ASSUME logged <= LogMax
         PROVE  read'[r] = [i \in 1 .. KeptLogs |-> i]
    <2>1. read[r] = [i \in 1 .. last |-> i] /\ base = 0
      BY <1>n, <1>11, <1>14
    <2>2. Len(read[r]) = last
      BY <1>n, <2>1
    <2>3. Len(read'[r]) = KeptLogs
      BY <1>n, <1>3, <1>6, <2>2
    <2>4. \A i \in 1 .. KeptLogs : read'[r][i] = i
      <3>1. ASSUME NEW i \in 1 .. KeptLogs PROVE read'[r][i] = i
        <4>1. CASE i \in 1 .. Len(read[r])
          BY <1>6, <2>1, <2>2, <4>1
        <4>2. ASSUME NEW k \in 1 .. Len(batch), i = Len(read[r]) + k PROVE read'[r][i] = i
          <5>1. read'[r][i] = base + last + k
            BY <1>3, <1>6, <4>2
          <5> QED BY <1>n, <2>1, <2>2, <4>2, <5>1
        <4> QED BY <1>10, <2>3, <4>1, <4>2
      <3> QED BY <3>1
    <2>5. read'[r] = [i \in 1 .. Len(read'[r]) |-> read'[r][i]]
      BY <1>6
    <2> QED BY <2>3, <2>4, <2>5
  <1>15. ReadBelow'
    <2>1. KeptLogs' = KeptLogs /\ KeptLogs <= KeptLogs
      BY <1>1, <1>n DEF KeptLogs
    <2>2. ASSUME NEW q \in Readers
          PROVE  /\ \A i, j \in 1 .. Len(read'[q]) : i < j => read'[q][i] < read'[q][j]
                 /\ reader'[q].feed # "log" => reader'[q].last = 0
                 /\ reader'[q].feed = "log" =>
                      /\ reader'[q].last <= KeptLogs
                      /\ \A i \in 1 .. Len(read'[q]) :
                           read'[q][i] <= (logged - KeptLogs) + reader'[q].last
                      /\ logged <= LogMax => read'[q] = [i \in 1 .. reader'[q].last |-> i]
      <3>1. CASE q = r
        BY <3>1, <1>4, <1>12, <1>13, <1>14, <2>1 DEF base
      <3>2. CASE q # r
        BY <3>2, <1>4, <1>7 DEF PolledInv, ReadBelow
      <3> QED BY <3>1, <3>2
    <2> QED BY <1>1, <2>1, <2>2 DEF ReadBelow
  <1> QED BY <1>8, <1>9, <1>15 DEF PolledInv

LEMMA PolledInvStep == PolledInv /\ [PolledNext]_polledVars => PolledInv'
  <1> SUFFICES ASSUME PolledInv, [PolledNext]_polledVars PROVE PolledInv'
    OBVIOUS
  <1>1. CASE UNCHANGED polledVars
    BY <1>1 DEF polledVars, PolledInv, PolledTyped, NoticeOnce, ReadBelow, KeptLogs
  <1> QED BY <1>1, ArrivesKeeps, DepartsKeeps, LogsKeeps, LogPollsKeeps, PurgedKeeps,
             StatusPollsKeeps, StatusSentKeeps DEF PolledNext

LEMMA PollsFollow == PolledInv => PollsExact
  <1> SUFFICES ASSUME PolledInv PROVE PollsExact
    OBVIOUS
  <1>1. \A k \in DOMAIN told : told[k] <= 1
    <2>1. told \in [1 .. LastNotice -> 0 .. 1]
      BY DEF PolledInv, PolledTyped
    <2> QED BY <2>1
  <1>2. \A r \in Readers : DOMAIN read[r] = 1 .. Len(read[r])
    <2>1. \A r \in Readers : read[r] \in Seq(1 .. LastLog)
      BY DEF PolledInv, PolledTyped
    <2>2. ASSUME NEW q \in Seq(1 .. LastLog) PROVE DOMAIN q = 1 .. Len(q)
      OBVIOUS
    <2> QED BY <2>1, <2>2
  <1> QED BY <1>1, <1>2 DEF PolledInv, ReadBelow, PollsExact

\* Whatever the polls of several readers, the purge and the entries that come meanwhile:
\* no line of the log is sent twice to a reader, and no notice told twice (ws_logs,
\* ws_status).
THEOREM PollsAreExact == PolledSpec => []PollsExact
  BY PolledInvInit, PolledInvStep, PollsFollow, PTL DEF PolledSpec

-----------------------------------------------------------------------------
(***************************************************************************)
(* Side by side (MCDecoders).                                              *)
(***************************************************************************)

\* The parts do not touch each other: each moves as its own specification says.
LEMMA DecodersMove == MCSpec => /\ ParkSpec /\ PktSpec /\ KissSpec /\ IqSpec
                                /\ MarkersSpec /\ PolledSpec
  <1>1. MCInit => ParkInit /\ PktInit /\ KissInit /\ IqInit /\ MarkersInit /\ PolledInit
    BY DEF MCInit
  <1>2. [MCNext]_decodersVars => [ParkNext]_parkVars /\ [PktNext]_pktVars
    BY DEF MCNext, RadioNext, ScreenNext, decodersVars, radioVars, screenVars
  <1>3. [MCNext]_decodersVars => [IqNext]_iqVars /\ [PolledNext]_polledVars
    BY DEF MCNext, RadioNext, ScreenNext, decodersVars, radioVars, screenVars, IqNext
  <1>4. [MCNext]_decodersVars => [KissFeed]_kissVars /\ [MarkersNext]_markerVars
    BY DEF MCNext, RadioNext, ScreenNext, decodersVars, radioVars, screenVars
  <1> QED BY <1>1, <1>2, <1>3, <1>4, PTL DEF MCSpec, ParkSpec, PktSpec, KissSpec, IqSpec,
             MarkersSpec, PolledSpec

\* Every part keeps its shape and its bounds, the queues, the sets and the clocks included.
THEOREM DecodersKeepTypes == MCSpec => []DecodersTypeOK
  <1>2. IqInv => IqTypeOK
    BY DEF IqInv, IqTyped, IqTypeOK, SlotLoops, SlotPcs, CwAudios
  <1>3. MarkersInv => MarkersTypeOK
    BY DEF MarkersInv
  <1>4. PolledInv => PolledTypeOK
    <2>1. 0 .. 1 \subseteq 0 .. 2
      OBVIOUS
    <2> QED BY <2>1 DEF PolledInv, PolledTyped, PolledTypeOK, Handlers
  <1>5. PktTypeOK /\ KissTypeOK /\ ParkTypeOK /\ IqTypeOK /\ MarkersTypeOK /\ PolledTypeOK
          => DecodersTypeOK
    BY DEF DecodersTypeOK
  <1>6. KissSpec => []KissTypeOK
    BY KissInvInit, KissInvStep, KissFollows, PTL DEF KissSpec
  <1>7. IqSpec => []IqTypeOK
    BY IqInvInit, IqInvStep, <1>2, PTL DEF IqSpec
  <1>8. PolledSpec => []PolledTypeOK
    BY PolledInvInit, PolledInvStep, <1>4, PTL DEF PolledSpec
  <1> QED BY DecodersMove, ParkTypes, PktKeepsTypes, MarkersInvHolds, <1>3, <1>5,
             <1>6, <1>7, <1>8, PTL

\* With all the decoders: nothing that a stop has to end outlives the reference it
\* would end it by (start and stop of the decoders and of the scan).
THEOREM NothingIsStray == MCSpec => []NothingStray
  <1>1. NoStrayUser /\ NoStrayFeed /\ PipelineFreed => NothingStray
    BY DEF NothingStray
  <1> QED BY DecodersMove, NoUserStrays, NoFeedStrays, PipelineIsFreed, <1>1, PTL
=============================================================================
