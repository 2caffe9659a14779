------------------------------ MODULE Memlock ------------------------------
(***************************************************************************)
(* The best-effort lock of appengine/memlock/memlock.go.                   *)
(*                                                                         *)
(* A client is one call of TryWithLock with its own clientID: the caller,  *)
(* which obtains the lock and runs f, and the goroutine it starts, which   *)
(* refreshes the item every second and releases it at the end.  checkAnd   *)
(* is two memcache calls, Get and CompareAndSwap, and other clients act    *)
(* between them.                                                           *)
(***************************************************************************)
CONSTANTS
    Clients,    \* the clientIDs that compete for one key
    Absent,     \* no item under the key
    Empty       \* an item with an empty value: released, obtainable

ASSUME ItemAssumption == Absent # Empty /\ {Absent, Empty} \cap Clients = {}

VARIABLES
    alive,      \* the clients running f whose context is not canceled
    lapsed,     \* history: those of them whose item left memcache meanwhile
    item,       \* what memcache holds under the key
    caller,     \* where each caller is
    keeper,     \* where each client's refreshing goroutine is
    fresh       \* the clients whose last Get still names the current item

memlockVars == <<alive, lapsed, item, caller, keeper, fresh>>

CallerStates == {"idle", "get", "cas", "f", "wait"}
KeeperStates == {"off", "timer", "refreshGet", "refreshCas", "releaseGet",
                 "releaseCas", "finished"}

\* The ranges of the state, and that a call and its goroutine go together: the
\* goroutine runs from the moment the lock is obtained until TryWithLock
\* returns, and only f's context can be alive.
MemlockTypeOK ==
    /\ alive \subseteq Clients /\ lapsed \subseteq alive
    /\ item \in Clients \cup {Absent, Empty}
    /\ caller \in [Clients -> CallerStates]
    /\ keeper \in [Clients -> KeeperStates]
    /\ fresh \subseteq Clients
    /\ \A c \in Clients :
         /\ keeper[c] = "off" <=> caller[c] \in {"idle", "get", "cas"}
         /\ c \in alive => caller[c] = "f"
         /\ keeper[c] \in {"releaseGet", "releaseCas", "finished"} => c \notin alive

MemlockInit ==
    /\ alive = {} /\ lapsed = {}
    /\ item = Absent
    /\ caller = [c \in Clients |-> "idle"]
    /\ keeper = [c \in Clients |-> "off"]
    /\ fresh = {}

-----------------------------------------------------------------------------
(* Memcache, as the lock uses it.  Every write gives the item a new CAS    *)
(* identity, so that every earlier Get is stale.                           *)

Write(v) == item' = v /\ fresh' = {}

\* Mutant: whoever finds an item may take it over.
ObtainableByAnyone(c) == item # Absent

\* The Get of checkAnd: the item is there and not owned by somebody else.
Obtainable(c) == item \in {c, Empty}

GetItem(c) == fresh' = fresh \cup {c} /\ item' = item

NoMemcacheChange == UNCHANGED <<item, fresh>>

-----------------------------------------------------------------------------
(* The caller.                                                             *)

\* The lock is obtained: start the goroutine and call f.
StartF(c) ==
    /\ alive' = alive \cup {c}
    /\ lapsed' = lapsed \ {c}
    /\ caller' = [caller EXCEPT ![c] = "f"]
    /\ keeper' = [keeper EXCEPT ![c] = "timer"]

\* Add stores the item when there is none.
AddItem(c) ==
    /\ caller[c] = "idle" /\ keeper[c] = "off"
    /\ item = Absent
    /\ Write(c)
    /\ StartF(c)

\* Add fails, because there is an item or because memcache is unwell, and
\* checkAnd(refresh) is tried instead.
AddFails(c) ==
    /\ caller[c] = "idle" /\ keeper[c] = "off"
    /\ caller' = [caller EXCEPT ![c] = "get"]
    /\ NoMemcacheChange /\ UNCHANGED <<keeper, alive, lapsed>>

\* cancelFunc.
Cancel(c) == alive' = alive \ {c} /\ lapsed' = lapsed \ {c}

\* ErrFailedToLock.
GiveUp(c) ==
    /\ caller' = [caller EXCEPT ![c] = "idle"]
    /\ UNCHANGED <<keeper, alive, lapsed>>

CallerGet(c) ==
    /\ caller[c] = "get"
    /\ \/ /\ Obtainable(c)
          /\ GetItem(c)
          /\ caller' = [caller EXCEPT ![c] = "cas"]
          /\ UNCHANGED <<keeper, alive, lapsed>>
       \/ NoMemcacheChange /\ GiveUp(c)     \* not obtainable, or an error

\* Mutant: Set in place of CompareAndSwap.
CallerSet(c) ==
    /\ caller[c] = "cas"
    /\ \/ Write(c) /\ StartF(c)
       \/ NoMemcacheChange /\ GiveUp(c)

CallerCas(c) ==
    /\ caller[c] = "cas"
    /\ \/ c \in fresh /\ Write(c) /\ StartF(c)
       \/ NoMemcacheChange /\ GiveUp(c)     \* a conflict, or an error

\* f returns: the deferred function cancels the context and waits.
FReturns(c) ==
    /\ caller[c] = "f"
    /\ caller' = [caller EXCEPT ![c] = "wait"]
    /\ Cancel(c)
    /\ NoMemcacheChange /\ UNCHANGED keeper

\* The goroutine is finished and TryWithLock returns.
Return(c) ==
    /\ caller[c] = "wait" /\ keeper[c] = "finished"
    /\ caller' = [caller EXCEPT ![c] = "idle"]
    /\ keeper' = [keeper EXCEPT ![c] = "off"]
    /\ NoMemcacheChange /\ UNCHANGED <<alive, lapsed>>

-----------------------------------------------------------------------------
(* The goroutine.                                                          *)

KeeperGoes(c, s) == keeper' = [keeper EXCEPT ![c] = s] /\ UNCHANGED caller

\* Mutant: the timer does not watch the context.
TimerIgnoresContext(c) ==
    /\ keeper[c] = "timer"
    /\ KeeperGoes(c, "refreshGet")
    /\ NoMemcacheChange /\ UNCHANGED <<alive, lapsed>>

\* The second is over, or the context is: refresh, or release.
TimerFires(c) ==
    /\ keeper[c] = "timer"
    /\ KeeperGoes(c, IF c \in alive THEN "refreshGet" ELSE "releaseGet")
    /\ NoMemcacheChange /\ UNCHANGED <<alive, lapsed>>

\* Mutant: the goroutine ends without canceling the context.
LoseLockSilently(c) ==
    /\ KeeperGoes(c, "finished")
    /\ NoMemcacheChange /\ UNCHANGED <<alive, lapsed>>

\* A failed refresh: the goroutine cancels the context and is done, without
\* releasing anything.
LoseLock(c) ==
    /\ KeeperGoes(c, "finished")
    /\ Cancel(c)
    /\ NoMemcacheChange

RefreshGet(c) ==
    /\ keeper[c] = "refreshGet"
    /\ \/ /\ Obtainable(c)
          /\ GetItem(c)
          /\ KeeperGoes(c, "refreshCas")
          /\ UNCHANGED <<alive, lapsed>>
       \/ LoseLock(c)

RefreshCas(c) ==
    /\ keeper[c] = "refreshCas"
    /\ \/ /\ c \in fresh
          /\ Write(c)
          /\ KeeperGoes(c, "timer")
          /\ UNCHANGED <<alive, lapsed>>
       \/ LoseLock(c)

\* Nothing is written when the item is already empty, is another client's or
\* cannot be read.
ReleaseGet(c) ==
    /\ keeper[c] = "releaseGet"
    /\ \/ /\ item = c
          /\ GetItem(c)
          /\ KeeperGoes(c, "releaseCas")
       \/ NoMemcacheChange /\ KeeperGoes(c, "finished")
    /\ UNCHANGED <<alive, lapsed>>

\* Mutant: Set in place of CompareAndSwap.
ReleaseSet(c) ==
    /\ keeper[c] = "releaseCas"
    /\ KeeperGoes(c, "finished")
    /\ Write(Empty)
    /\ UNCHANGED <<alive, lapsed>>

ReleaseCas(c) ==
    /\ keeper[c] = "releaseCas"
    /\ KeeperGoes(c, "finished")
    /\ (c \in fresh /\ Write(Empty)) \/ NoMemcacheChange
    /\ UNCHANGED <<alive, lapsed>>

-----------------------------------------------------------------------------
(* The environment.                                                        *)

\* The context TryWithLock was given is canceled or times out while f runs.
ContextDone(c) ==
    /\ caller[c] = "f" /\ c \in alive
    /\ Cancel(c)
    /\ NoMemcacheChange /\ UNCHANGED <<caller, keeper>>

\* The item expires or is evicted.
Expire ==
    /\ item # Absent
    /\ Write(Absent)
    /\ lapsed' = lapsed \cup ({item} \cap alive)
    /\ UNCHANGED <<alive, caller, keeper>>

-----------------------------------------------------------------------------
Keeper(c) ==
    TimerFires(c) \/ RefreshGet(c) \/ RefreshCas(c) \/ ReleaseGet(c) \/ ReleaseCas(c)

Caller(c) ==
    AddItem(c) \/ AddFails(c) \/ CallerGet(c) \/ CallerCas(c) \/ FReturns(c) \/ Return(c)

MemlockNext ==
    \/ \E c \in Clients : Caller(c) \/ Keeper(c) \/ ContextDone(c)
    \/ Expire

MemlockSpec == MemlockInit /\ [][MemlockNext]_memlockVars

\* The goroutine is scheduled and its timer fires; a call that is over is
\* returned from.  Nothing is assumed of memcache or of f.
FairMemlockSpec ==
    /\ MemlockSpec
    /\ \A c \in Clients : WF_memlockVars(Keeper(c)) /\ WF_memlockVars(Return(c))

-----------------------------------------------------------------------------
(* Properties.                                                             *)

\* Every client with a live context owns the item, unless the item lapsed under it
\* (checkAnd's Get, ownership test and CompareAndSwap against other clients'
\* Add, refresh and release).
HoldersOwnTheItem == alive \ {item} \subseteq lapsed

\* An item with a client's ID is only ever replaced by that client, or dropped
\* by memcache: a late release or refresh of one holder never takes the lock
\* away from the next one.
OnlyOwnerReplaces ==
    [][\A c \in Clients : item = c /\ item' # c =>
         item' = Absent \/ (item' = Empty /\ keeper[c] = "releaseCas")]_memlockVars

\* A holder whose item is gone or belongs to another learns it: its context is
\* canceled, unless it wins the item back.
LossIsNoticed ==
    \A c \in Clients : (c \in alive /\ item # c) ~> (c \notin alive \/ item = c)

\* When f has returned, TryWithLock returns (it waits for its goroutine).
CallReturns == \A c \in Clients : caller[c] = "wait" ~> caller[c] = "idle"

\* The lock keeps its promise: a client enters only when everybody inside has
\* lapsed, and it is inside until its context is canceled.
Promise == INSTANCE LockPromise WITH inside <- alive, lapsed <- lapsed
KeepsPromise == Promise!LockSpec
=============================================================================
