---------------------------- MODULE MirrorAdmin ----------------------------
(***************************************************************************)
(* The mirrors an operator registers (external_mirrors/repository.py,      *)
(* api/external_mirrors.py) and their tokens.  The table keeps a hash of a *)
(* token and, if there is a vault, its ciphertext; the plain token is in   *)
(* the TokenCache, from which the pusher signs.  The API handlers run in   *)
(* threads: each commits to the table first and then writes the cache and  *)
(* the ciphertext, in two more steps, and the tick of the pusher and a     *)
(* crash come in between.  A token is its number, 0 is none.               *)
(***************************************************************************)
EXTENDS Naturals, FiniteSets

CONSTANTS
    AdminCallers,   \* threads of the API
    DisableAfter,   \* auto_disable_threshold
    LastMirror,     \* bound: mirrors ever created
    LastToken       \* bound: tokens ever made

ASSUME AdminAssumption ==
    /\ DisableAfter \in Nat \ {0} /\ LastMirror \in Nat /\ LastToken \in Nat

VARIABLES
    registered,     \* external_mirrors
    issued,         \* mirrors created and tokens made so far
    vault,          \* is there a master key
    cached,         \* TokenCache._tokens
    call,           \* per thread: what it has still to do, for which mirror
    pushing,        \* _tick_once: the rows it has listed, and the post under way
    torn            \* history: mirrors with a call that a crash cut short, or
                    \* whose ciphertext could not be stored

adminVars == <<registered, issued, vault, cached, call, pushing, torn>>

MirrorIds == 1 .. LastMirror
Tokens == 0 .. LastToken
NoMirror == [there |-> FALSE, enabled |-> FALSE, failures |-> 0, pushed |-> FALSE,
             token |-> 0, sealed |-> 0]
NoCall == [does |-> "nothing", id |-> 0, token |-> 0]
NoPush == [listed |-> {}, id |-> 0, token |-> 0]

AdminTypeOK ==
    /\ registered \in [MirrorIds -> [there : BOOLEAN, enabled : BOOLEAN,
            failures : 0 .. DisableAfter, pushed : BOOLEAN, token : Tokens, sealed : Tokens]]
    /\ issued \in [mirrors : 0 .. LastMirror, tokens : Tokens]
    /\ vault \in BOOLEAN
    /\ cached \in [MirrorIds -> Tokens]
    /\ call \in [AdminCallers -> [does : {"nothing", "caches", "seals", "drops"},
                                  id : 0 .. LastMirror, token : Tokens]]
    /\ pushing \in [listed : SUBSET MirrorIds, id : 0 .. LastMirror, token : Tokens]
    /\ torn \in SUBSET MirrorIds

AdminInit ==
    /\ registered = [m \in MirrorIds |-> NoMirror]
    /\ issued = [mirrors |-> 0, tokens |-> 0]
    /\ vault \in BOOLEAN
    /\ cached = [m \in MirrorIds |-> 0]
    /\ call = [c \in AdminCallers |-> NoCall]
    /\ pushing = NoPush /\ torn = {}

\* bound: the calls for one mirror come one after the other
Settled(m) == \A c \in AdminCallers : call[c].id # m

Known(m) == registered[m].there

-----------------------------------------------------------------------------
(***************************************************************************)
(* The operations of the repository, each under its lock.                  *)
(***************************************************************************)
FreshToken == issued.tokens + 1

Begins(c, does, m, token) ==
    /\ call[c] = NoCall
    /\ call' = [call EXCEPT ![c] = [does |-> does, id |-> m, token |-> token]]

\* create; the ids are AUTOINCREMENT
MirrorCreated(c) ==
    /\ issued.mirrors < LastMirror /\ issued.tokens < LastToken
    /\ LET m == issued.mirrors + 1 IN
       /\ \E on \in BOOLEAN : registered' = [registered EXCEPT ![m] =
              [NoMirror EXCEPT !.there = TRUE, !.enabled = on, !.token = FreshToken]]
       /\ issued' = [mirrors |-> m, tokens |-> FreshToken]
       /\ Begins(c, "caches", m, FreshToken)
    /\ UNCHANGED <<vault, cached, pushing, torn>>

\* rotate_token
TokenRotated(c, m) ==
    /\ Known(m) /\ Settled(m) /\ issued.tokens < LastToken
    /\ registered' = [registered EXCEPT ![m].token = FreshToken]
    /\ issued' = [issued EXCEPT !.tokens = FreshToken]
    /\ Begins(c, "caches", m, FreshToken)
    /\ UNCHANGED <<vault, cached, pushing, torn>>

\* delete
MirrorDeleted(c, m) ==
    /\ Known(m) /\ Settled(m)
    /\ registered' = [registered EXCEPT ![m] = NoMirror]
    /\ Begins(c, "drops", m, 0)
    /\ UNCHANGED <<issued, vault, cached, pushing, torn>>

\* set_enabled clears the failures of a mirror it enables; an update of the
\* flag with the other fields leaves them
EnabledSwitched(m) ==
    /\ Known(m) /\ Settled(m)
    /\ \E on \in BOOLEAN, failures \in {0, registered[m].failures} :
        /\ on # registered[m].enabled
        /\ on \/ failures = registered[m].failures
        /\ registered' = [registered EXCEPT ![m].enabled = on, ![m].failures = failures]
    /\ UNCHANGED <<issued, vault, cached, call, pushing, torn>>

-----------------------------------------------------------------------------
(***************************************************************************)
(* TokenCache.                                                             *)
(***************************************************************************)
\* mutant: a token that is cached already is kept
MutTokenCached(c) ==
    /\ call[c].does = "caches"
    /\ cached' = [cached EXCEPT ![call[c].id] = IF @ = 0 THEN call[c].token ELSE @]
    /\ IF vault THEN call' = [call EXCEPT ![c].does = "seals"] /\ UNCHANGED torn
       ELSE call' = [call EXCEPT ![c] = NoCall] /\ torn' = torn \ {call[c].id}
    /\ UNCHANGED <<registered, issued, vault, pushing>>

\* set: the plain token first
TokenCached(c) ==
    /\ call[c].does = "caches"
    /\ cached' = [cached EXCEPT ![call[c].id] = call[c].token]
    /\ IF vault THEN call' = [call EXCEPT ![c].does = "seals"] /\ UNCHANGED torn
       ELSE call' = [call EXCEPT ![c] = NoCall] /\ torn' = torn \ {call[c].id}
    /\ UNCHANGED <<registered, issued, vault, pushing>>

\* set_token_ciphertext; an error is logged
TokenSealed(c) ==
    /\ call[c].does = "seals"
    /\ \/ /\ registered' = [registered EXCEPT ![call[c].id].sealed = call[c].token]
          /\ torn' = torn \ {call[c].id}
       \/ /\ torn' = torn \cup {call[c].id}
          /\ UNCHANGED registered
    /\ call' = [call EXCEPT ![c] = NoCall]
    /\ UNCHANGED <<issued, vault, cached, pushing>>

\* drop: the row and its ciphertext are gone by then
TokenDropped(c) ==
    /\ call[c].does = "drops"
    /\ cached' = [cached EXCEPT ![call[c].id] = 0]
    /\ call' = [call EXCEPT ![c] = NoCall]
    /\ UNCHANGED <<registered, issued, vault, pushing, torn>>

-----------------------------------------------------------------------------
(***************************************************************************)
(* The pusher, as far as it meets the table and the cache.                 *)
(***************************************************************************)
\* list, then _is_due: always so for a mirror that was never pushed to
TickLists ==
    /\ pushing = NoPush
    /\ LET on == {m \in MirrorIds : Known(m) /\ registered[m].enabled} IN
       \E due \in SUBSET on :
        /\ due # {} /\ \A m \in on \ due : registered[m].pushed
        /\ pushing' = [NoPush EXCEPT !.listed = due]
    /\ UNCHANGED <<registered, issued, vault, cached, call, torn>>

\* _push_one reads the token before the payload is built and posted; a mirror
\* without one is skipped
PushBegins ==
    /\ pushing.id = 0
    /\ \E m \in pushing.listed :
        pushing' = IF cached[m] = 0 THEN [pushing EXCEPT !.listed = @ \ {m}]
                   ELSE [listed |-> pushing.listed \ {m}, id |-> m, token |-> cached[m]]
    /\ UNCHANGED <<registered, issued, vault, cached, call, torn>>

\* update_after_push
Recorded(row, success) ==
    LET failures == IF row.failures < DisableAfter THEN row.failures + 1 ELSE DisableAfter
    IN IF success THEN [row EXCEPT !.failures = 0, !.pushed = TRUE]
       ELSE [row EXCEPT !.failures = failures, !.pushed = TRUE,
                        !.enabled = @ /\ failures < DisableAfter]

\* for a mirror that is gone it raises, which ends the tick
PushEnds ==
    /\ pushing.id # 0
    /\ \/ /\ Known(pushing.id)
          /\ \E success \in BOOLEAN :
              registered' = [registered EXCEPT ![pushing.id] = Recorded(@, success)]
          /\ pushing' = [NoPush EXCEPT !.listed = pushing.listed]
       \/ /\ ~Known(pushing.id)
          /\ pushing' = NoPush
          /\ UNCHANGED registered
    /\ UNCHANGED <<issued, vault, cached, call, torn>>

-----------------------------------------------------------------------------
\* load_persisted
Loaded(m) == IF vault /\ Known(m) THEN registered[m].sealed ELSE 0

\* the process ends, whatever it was doing, and starts again
AppRestarts ==
    /\ torn' = torn \cup {call[c].id : c \in {d \in AdminCallers :
                                call[d].does \in {"caches", "seals"}}}
    /\ cached' = [m \in MirrorIds |-> Loaded(m)]
    /\ call' = [c \in AdminCallers |-> NoCall]
    /\ pushing' = NoPush
    /\ UNCHANGED <<registered, issued, vault>>

AdminNext ==
    \/ \E c \in AdminCallers :
        \/ MirrorCreated(c)
        \/ \E m \in MirrorIds : TokenRotated(c, m) \/ MirrorDeleted(c, m)
        \/ TokenCached(c) \/ TokenSealed(c) \/ TokenDropped(c)
    \/ \E m \in MirrorIds : EnabledSwitched(m)
    \/ TickLists \/ PushBegins \/ PushEnds
    \/ AppRestarts

AdminSpec == AdminInit /\ [][AdminNext]_adminVars

-----------------------------------------------------------------------------
\* When no call for a mirror is under way, the pusher signs with the token the
\* operator was last shown or with none, never with none if there is a vault,
\* and no token is left of a mirror that is gone: across restarts, ticks that
\* overlap the calls, and calls for other mirrors; but not if the last call was
\* cut short, or its ciphertext was lost.
TokenMatches ==
    \A m \in MirrorIds : Settled(m) =>
        IF ~Known(m) THEN cached[m] = 0
        ELSE m \notin torn =>
                /\ cached[m] \in {0, registered[m].token}
                /\ vault => cached[m] = registered[m].token
=============================================================================
