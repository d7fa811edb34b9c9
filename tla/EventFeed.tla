----------------------------- MODULE EventFeed -----------------------------
(***************************************************************************)
(* backend/app/websocket/events.py: the bus behind /ws/events.  Every      *)
(* connection has a bounded queue in the list _event_subscribers.  On the  *)
(* event loop a broadcast is one step.  In the thread of an FT decode,     *)
(* where no loop is found, the same code runs beside the loop and walks    *)
(* over the list by its index while connections come and go.  A put is one *)
(* step.                                                                   *)
(***************************************************************************)
EXTENDS Naturals, Sequences, FiniteSets, Functions

CONSTANTS
    FeedClients,   \* connections to /ws/events
    QueueMax,      \* asyncio.Queue(maxsize=200)
    LastEvent      \* bound: events broadcast

ASSUME FeedAssumption ==
    IsFiniteSet(FeedClients) /\ QueueMax \in Nat \ {0} /\ LastEvent \in Nat

VARIABLES
    subscribers,  \* _event_subscribers
    inbox,        \* the queue of each client
    walk,         \* the broadcast in the thread: its message and the list index
    published,    \* how many broadcasts have begun
    delivered,    \* history: what each connection's handler has taken to send
    casts         \* history of every broadcast: who stayed, whose queue was full,
                  \* how many left meanwhile

feedVars == <<subscribers, inbox, walk, published, delivered, casts>>

Events == 1 .. LastEvent
Resting == [event |-> 0, at |-> 1]
MostLeft == Cardinality(FeedClients)   \* bound: more departures count as many
NoCast == [stayed |-> {}, full |-> {}, left |-> 0]

FeedTypeOK ==
    /\ subscribers \in Seq(FeedClients) /\ IsInjective(subscribers)
    /\ \A c \in FeedClients :
         /\ inbox[c] \in Seq(Events) /\ Len(inbox[c]) <= QueueMax
         /\ delivered[c] \subseteq Events
    /\ walk \in [event : 0 .. LastEvent, at : 1 .. Cardinality(FeedClients) + 1]
    /\ published \in 0 .. LastEvent
    /\ casts \in [Events -> [stayed : SUBSET FeedClients, full : SUBSET FeedClients,
                             left : 0 .. MostLeft]]

FeedInit ==
    /\ subscribers = <<>>
    /\ inbox = [c \in FeedClients |-> <<>>] /\ delivered = [c \in FeedClients |-> {}]
    /\ walk = Resting /\ published = 0
    /\ casts = [m \in Events |-> NoCast]

Full(c) == Len(inbox[c]) = QueueMax

-----------------------------------------------------------------------------
\* ws_events: accept, _subscribe_events
Subscribe(c) ==
    /\ c \notin Range(subscribers)
    /\ subscribers' = Append(subscribers, c)
    /\ UNCHANGED <<inbox, walk, published, delivered, casts>>

\* mutant: the handler of QueueFull stands around the loop, not in it
MutOffered(m) ==
    LET UpTo == {i \in DOMAIN subscribers : \A j \in 1 .. i : ~Full(subscribers[j])} IN
    [c \in FeedClients |-> IF \E i \in UpTo : subscribers[i] = c
                           THEN Append(inbox[c], m) ELSE inbox[c]]

\* _broadcast in one piece: "dropping if a queue is full"
Offered(m) ==
    [c \in FeedClients |-> IF c \in Range(subscribers) /\ ~Full(c)
                           THEN Append(inbox[c], m) ELSE inbox[c]]

CastBegun(full) ==
    /\ published < LastEvent /\ published' = published + 1
    /\ casts' = [casts EXCEPT ![published + 1] =
                   [stayed |-> Range(subscribers), full |-> full, left |-> 0]]

\* broadcast_event from a coroutine, and the occupancy loop
CastByLoop ==
    /\ CastBegun({c \in Range(subscribers) : Full(c)})
    /\ inbox' = Offered(published + 1)
    /\ UNCHANGED <<subscribers, walk, delivered>>

\* broadcast_event from the thread: get_running_loop and get_event_loop both
\* raise, and _broadcast runs where it is
WalkBegins ==
    /\ walk = Resting
    /\ CastBegun({})
    /\ walk' = [event |-> published + 1, at |-> 1]
    /\ UNCHANGED <<subscribers, inbox, delivered>>

WalkPuts ==
    /\ walk.event # 0 /\ walk.at <= Len(subscribers)
    /\ LET c == subscribers[walk.at] IN
       IF Full(c)
       THEN /\ casts' = [casts EXCEPT ![walk.event].full = @ \cup {c}]
            /\ UNCHANGED inbox
       ELSE /\ inbox' = [inbox EXCEPT ![c] = Append(@, walk.event)]
            /\ UNCHANGED casts
    /\ walk' = [walk EXCEPT !.at = @ + 1]
    /\ UNCHANGED <<subscribers, published, delivered>>

WalkEnds ==
    /\ walk.event # 0 /\ walk.at > Len(subscribers)
    /\ walk' = Resting
    /\ UNCHANGED <<subscribers, inbox, published, delivered, casts>>

\* q.get() and the send, however long it takes; a time-out sends a ping and
\* changes nothing
Relays(c) ==
    /\ inbox[c] # <<>>
    /\ delivered' = [delivered EXCEPT ![c] = @ \cup {Head(inbox[c])}]
    /\ inbox' = [inbox EXCEPT ![c] = Tail(@)]
    /\ UNCHANGED <<subscribers, walk, published, casts>>

\* list.remove: what comes after moves up
ListWithout(list, k) == [i \in 1 .. Len(list) - 1 |-> list[IF i < k THEN i ELSE i + 1]]

\* a send or a ping that raises: _unsubscribe_events; the queue goes with it
Leave(c) ==
    /\ \E k \in DOMAIN subscribers :
         subscribers[k] = c /\ subscribers' = ListWithout(subscribers, k)
    /\ inbox' = [inbox EXCEPT ![c] = <<>>]
    /\ casts' = [m \in Events |->
                   [casts[m] EXCEPT !.stayed = @ \ {c}, !.full = @ \ {c},
                                    !.left = IF m = walk.event /\ @ < MostLeft
                                             THEN @ + 1 ELSE @]]
    /\ delivered' = [delivered EXCEPT ![c] = {}]
    /\ UNCHANGED <<walk, published>>

FeedNext ==
    \/ CastByLoop \/ WalkBegins \/ WalkPuts \/ WalkEnds
    \/ \E c \in FeedClients : Subscribe(c) \/ Relays(c) \/ Leave(c)

FeedSpec == FeedInit /\ [][FeedNext]_feedVars

-----------------------------------------------------------------------------
Missed(m) ==
    {c \in casts[m].stayed \ casts[m].full : m \notin delivered[c] \cup Range(inbox[c])}

\* "Put msg into every subscriber queue, dropping if a queue is full"
\* (_broadcast), although the thread and the loop share the list: no event
\* comes twice to one connection, and a connection that stayed and had room
\* misses an event only if somebody else left while the thread walked over the
\* list, one connection for each that left.
EventsReach ==
    /\ \A c \in FeedClients : IsInjective(inbox[c]) /\ delivered[c] \cap Range(inbox[c]) = {}
    /\ \A m \in 1 .. published : walk.event # m => Cardinality(Missed(m)) <= casts[m].left
=============================================================================
