---------------------------- MODULE RegistryFeed ----------------------------
(***************************************************************************)
(* backend/app/websocket/beacons.py and satellite.py: a set of connections *)
(* and broadcasts that are tasks of their own (main.py, _slot_cb and       *)
(* _obs_cb), each waiting for one socket after the other.                  *)
(***************************************************************************)
EXTENDS Naturals

CONSTANTS
    Sockets,     \* connections; a connection that is gone does not come back
    CastTasks    \* tasks that broadcast; each stands for one message

VARIABLES
    registry,   \* _connections
    socket,     \* each socket: new, up, or down
    casting,    \* each task: its state, the copy it walks over, the dead it met
    received    \* history: how often a socket got the message of a task

registryVars == <<registry, socket, casting, received>>

Uncast == [state |-> "new", todo |-> {}, dead |-> {}, audience |-> {}]

RegistryTypeOK ==
    /\ registry \subseteq Sockets
    /\ socket \in [Sockets -> {"new", "up", "down"}]
    /\ casting \in [CastTasks -> [state : {"new", "sending", "done"}, todo : SUBSET Sockets,
                                  dead : SUBSET Sockets, audience : SUBSET Sockets]]
    /\ received \in [Sockets -> [CastTasks -> 0 .. 2]]

RegistryInit ==
    /\ registry = {}
    /\ socket = [s \in Sockets |-> "new"]
    /\ casting = [t \in CastTasks |-> Uncast]
    /\ received = [s \in Sockets |-> [t \in CastTasks |-> 0]]

-----------------------------------------------------------------------------
Connects(s) ==
    /\ socket[s] = "new"
    /\ socket' = [socket EXCEPT ![s] = "up"]
    /\ registry' = registry \cup {s}
    /\ UNCHANGED <<casting, received>>

\* the browser is gone; the handler learns it later
Breaks(s) ==
    /\ socket[s] = "up"
    /\ socket' = [socket EXCEPT ![s] = "down"]
    /\ UNCHANGED <<registry, casting, received>>

\* the handler's receive raises: _connections.discard
HandlerEnds(s) ==
    /\ socket[s] = "down" /\ s \in registry
    /\ registry' = registry \ {s}
    /\ UNCHANGED <<socket, casting, received>>

\* nobody there: return; else list(_connections)
BroadcastBegins(t) ==
    /\ casting[t].state = "new"
    /\ casting' = [casting EXCEPT ![t] =
         [state |-> IF registry = {} THEN "done" ELSE "sending",
          todo |-> registry, dead |-> {}, audience |-> registry]]
    /\ UNCHANGED <<registry, socket, received>>

\* mutant: a send that raises ends the broadcast
MutUnsent(t, s) == [casting[t] EXCEPT !.todo = {}, !.dead = @ \cup {s}]

\* a send that raises: the socket is dead, the loop goes on
Unsent(t, s) == [casting[t] EXCEPT !.todo = @ \ {s}, !.dead = @ \cup {s}]

\* the next of the copy, in the order of the set; other tasks run at the await
Sends(t, s) ==
    /\ casting[t].state = "sending" /\ s \in casting[t].todo
    /\ IF socket[s] = "up"
       THEN /\ received' = [received EXCEPT ![s][t] = @ + 1]
            /\ casting' = [casting EXCEPT ![t].todo = @ \ {s}]
       ELSE /\ casting' = [casting EXCEPT ![t] = Unsent(t, s)]
            /\ UNCHANGED received
    /\ UNCHANGED <<registry, socket>>

\* difference_update(dead)
BroadcastEnds(t) ==
    /\ casting[t].state = "sending" /\ casting[t].todo = {}
    /\ registry' = registry \ casting[t].dead
    /\ casting' = [casting EXCEPT ![t].state = "done"]
    /\ UNCHANGED <<socket, received>>

RegistryNext ==
    \/ \E s \in Sockets : Connects(s) \/ Breaks(s) \/ HandlerEnds(s)
    \/ \E t \in CastTasks : \/ BroadcastBegins(t) \/ BroadcastEnds(t)
                            \/ \E s \in Sockets : Sends(t, s)

RegistrySpec == RegistryInit /\ [][RegistryNext]_registryVars

-----------------------------------------------------------------------------
\* Connections come, break and go, and other broadcasts run, at every await of
\* a broadcast (_broadcast): whoever was connected when it began and still is
\* has its message once when it ends, nobody has it twice, and no connection
\* that is up is ever taken off the registry.
BroadcastsReach ==
    /\ \A t \in CastTasks : casting[t].state = "done" =>
         \A s \in casting[t].audience : socket[s] = "up" => received[s][t] = 1
    /\ \A s \in Sockets : socket[s] = "up" => s \in registry
    /\ \A s \in Sockets, t \in CastTasks : received[s][t] <= 1
=============================================================================
