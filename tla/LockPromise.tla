---------------------------- MODULE LockPromise ----------------------------
(***************************************************************************)
(* What memlock.TryWithLock promises its callers: mutual exclusion between *)
(* the clients whose context is still alive, except that a client may be   *)
(* overtaken once its memcache item has lapsed under it.                   *)
(***************************************************************************)
CONSTANTS Clients   \* the lock-holders that compete for one key

VARIABLES
    inside,     \* the clients running f with a context that is not canceled
    lapsed      \* the clients inside whose item left memcache meanwhile

lockVars == <<inside, lapsed>>

LockInit == inside = {} /\ lapsed = {}

\* TryWithLock obtains the lock and calls f: whoever is inside has lapsed.
Enter(c) ==
    /\ c \notin inside
    /\ inside \subseteq lapsed
    /\ inside' = inside \cup {c}
    /\ lapsed' = lapsed

\* f returns, or its context is canceled because the lock was lost.
Leave(c) ==
    /\ c \in inside
    /\ inside' = inside \ {c}
    /\ lapsed' = lapsed \ {c}

\* Memcache drops the item of a client that is inside.
Lapse(c) ==
    /\ c \in inside
    /\ lapsed' = lapsed \cup {c}
    /\ inside' = inside

LockNext == \E c \in Clients : Enter(c) \/ Leave(c) \/ Lapse(c)

LockSpec == LockInit /\ [][LockNext]_lockVars
=============================================================================
