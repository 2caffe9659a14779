--------------------------- MODULE MemlockProofs ---------------------------
(***************************************************************************)
(* Memlock keeps the promise of LockPromise, for every set of clients.     *)
(***************************************************************************)
EXTENDS Memlock, TLAPS

\* What a Get that is still current tells: the item is one that the pending
\* CompareAndSwap may replace.
FreshGets ==
    \A c \in fresh :
      /\ caller[c] = "cas" \/ keeper[c] = "refreshCas" => Obtainable(c)
      /\ keeper[c] = "releaseCas" => item = c

\* The inductive invariant.
MemlockInv == MemlockTypeOK /\ HoldersOwnTheItem /\ FreshGets

\* An initial state of the lock satisfies the invariant.
LEMMA InitInv == MemlockInit => MemlockInv
  BY ItemAssumption DEF MemlockInit, MemlockInv, MemlockTypeOK, HoldersOwnTheItem,
     FreshGets, CallerStates, KeeperStates

\* The caller's steps keep the invariant.
LEMMA CallerInv ==
  ASSUME MemlockInv, NEW c \in Clients, Caller(c) PROVE MemlockInv'
<1> USE ItemAssumption DEF MemlockInv, MemlockTypeOK, HoldersOwnTheItem, FreshGets,
        CallerStates, KeeperStates, Obtainable, Write, GetItem, NoMemcacheChange
<1>1. CASE AddItem(c)
  BY <1>1 DEF AddItem, StartF
<1>2. CASE AddFails(c)
  BY <1>2 DEF AddFails
<1>3. CASE CallerGet(c)
  BY <1>3 DEF CallerGet, GiveUp
<1>4. CASE CallerCas(c)
  BY <1>4 DEF CallerCas, StartF, GiveUp
<1>5. CASE FReturns(c)
  BY <1>5 DEF FReturns, Cancel
<1>6. CASE Return(c)
  BY <1>6 DEF Return
<1> QED
  BY <1>1, <1>2, <1>3, <1>4, <1>5, <1>6 DEF Caller

\* The goroutine's steps keep the invariant.
LEMMA KeeperInv ==
  ASSUME MemlockInv, NEW c \in Clients, Keeper(c) PROVE MemlockInv'
<1> USE ItemAssumption DEF MemlockInv, MemlockTypeOK, HoldersOwnTheItem, FreshGets,
        CallerStates, KeeperStates, Obtainable, Write, GetItem, NoMemcacheChange,
        KeeperGoes
<1>1. CASE TimerFires(c)
  BY <1>1 DEF TimerFires
<1>2. CASE RefreshGet(c)
  BY <1>2 DEF RefreshGet, LoseLock, Cancel
<1>3. CASE RefreshCas(c)
  BY <1>3 DEF RefreshCas, LoseLock, Cancel
<1>4. CASE ReleaseGet(c)
  BY <1>4 DEF ReleaseGet
<1>5. CASE ReleaseCas(c)
  BY <1>5 DEF ReleaseCas
<1> QED
  BY <1>1, <1>2, <1>3, <1>4, <1>5 DEF Keeper

\* Every step keeps the invariant.
LEMMA NextInv == MemlockInv /\ [MemlockNext]_memlockVars => MemlockInv'
<1> SUFFICES ASSUME MemlockInv, [MemlockNext]_memlockVars PROVE MemlockInv'
  OBVIOUS
<1> USE ItemAssumption
<1>1. ASSUME NEW c \in Clients, Caller(c) PROVE MemlockInv'
  BY <1>1, CallerInv
<1>2. ASSUME NEW c \in Clients, Keeper(c) PROVE MemlockInv'
  BY <1>2, KeeperInv
<1>3. ASSUME NEW c \in Clients, ContextDone(c) PROVE MemlockInv'
  BY <1>3 DEF ContextDone, Cancel, NoMemcacheChange, MemlockInv, MemlockTypeOK,
     HoldersOwnTheItem, FreshGets, Obtainable
<1>4. CASE Expire
  BY <1>4 DEF Expire, Write, MemlockInv, MemlockTypeOK, HoldersOwnTheItem, FreshGets
<1>5. CASE UNCHANGED memlockVars
  BY <1>5 DEF memlockVars, MemlockInv, MemlockTypeOK, HoldersOwnTheItem, FreshGets,
     Obtainable
<1> QED
  BY <1>1, <1>2, <1>3, <1>4, <1>5 DEF MemlockNext

\* The invariant holds in every reachable state.
THEOREM MemlockInvariance == MemlockSpec => []MemlockInv
  BY InitInv, NextInv, PTL DEF MemlockSpec

\* Calls and their goroutines go together (TryWithLock waits for the goroutine
\* it started).
THEOREM MemlockTypes == MemlockSpec => []MemlockTypeOK
<1>1. MemlockInv => MemlockTypeOK
  BY DEF MemlockInv
<1> QED
  BY <1>1, MemlockInvariance, PTL

\* A client whose context is alive owns the item unless it lapsed under it.
THEOREM HoldersOwn == MemlockSpec => []HoldersOwnTheItem
<1>1. MemlockInv => HoldersOwnTheItem
  BY DEF MemlockInv
<1> QED
  BY <1>1, MemlockInvariance, PTL

\* No client but the owner replaces an item that names an owner.
THEOREM OwnerReplaces == MemlockSpec => OnlyOwnerReplaces
<1> DEFINE Kept ==
      \A c \in Clients : item = c /\ item' # c =>
        item' = Absent \/ (item' = Empty /\ keeper[c] = "releaseCas")
<1>1. ASSUME MemlockInv, [MemlockNext]_memlockVars PROVE [Kept]_memlockVars
  <2> SUFFICES ASSUME MemlockNext, NEW d \in Clients, item = d, item' # d
               PROVE item' = Absent \/ (item' = Empty /\ keeper[d] = "releaseCas")
    BY <1>1
  <2> USE <1>1, ItemAssumption DEF MemlockInv, MemlockTypeOK, FreshGets, Obtainable,
          Write, GetItem, NoMemcacheChange
  <2>1. ASSUME NEW c \in Clients, Caller(c) PROVE FALSE
    BY <2>1 DEF Caller, AddItem, AddFails, CallerGet, CallerCas, FReturns, Return
  <2>2. ASSUME NEW c \in Clients, Keeper(c)
        PROVE item' = Empty /\ keeper[d] = "releaseCas"
    BY <2>2 DEF Keeper, TimerFires, RefreshGet, RefreshCas, ReleaseGet, ReleaseCas,
       LoseLock, KeeperGoes
  <2>3. ASSUME NEW c \in Clients, ContextDone(c) PROVE FALSE
    BY <2>3 DEF ContextDone
  <2>4. CASE Expire
    BY <2>4 DEF Expire
  <2> QED
    BY <2>1, <2>2, <2>3, <2>4 DEF MemlockNext
<1> QED
  BY <1>1, MemlockInvariance, PTL DEF MemlockSpec, OnlyOwnerReplaces

\* Obtaining the lock is an Enter of the promise: an item that can be added or
\* swapped means that everybody inside has lapsed.
LEMMA ObtainingEnters ==
  ASSUME MemlockInv, NEW c \in Clients, AddItem(c) \/ CallerCas(c)
  PROVE  Promise!Enter(c) \/ UNCHANGED <<alive, lapsed>>
  BY ItemAssumption DEF AddItem, CallerCas, StartF, GiveUp, MemlockInv, MemlockTypeOK,
     HoldersOwnTheItem, FreshGets, Obtainable, Promise!Enter

\* Canceling a context is a Leave, or nothing when it was canceled before.
LEMMA CancelingLeaves ==
  ASSUME MemlockInv, NEW c \in Clients, Cancel(c)
  PROVE  Promise!Leave(c) \/ UNCHANGED <<alive, lapsed>>
  BY DEF Cancel, MemlockInv, MemlockTypeOK, Promise!Leave

\* Every step of the lock is a step of the promise or changes nothing of it.
LEMMA StepKeepsPromise ==
  ASSUME MemlockInv, [MemlockNext]_memlockVars
  PROVE  [Promise!LockNext]_(Promise!lockVars)
<1> USE DEF Promise!LockNext, Promise!lockVars
<1>1. ASSUME NEW c \in Clients, Caller(c) PROVE [Promise!LockNext]_(Promise!lockVars)
  <2>1. CASE AddItem(c) \/ CallerCas(c)
    BY <2>1, ObtainingEnters
  <2>2. CASE FReturns(c)
    BY <2>2, CancelingLeaves DEF FReturns
  <2>3. CASE AddFails(c) \/ CallerGet(c) \/ Return(c)
    BY <2>3 DEF AddFails, CallerGet, Return, GiveUp
  <2> QED
    BY <1>1, <2>1, <2>2, <2>3 DEF Caller
<1>2. ASSUME NEW c \in Clients, Keeper(c) PROVE [Promise!LockNext]_(Promise!lockVars)
  <2>1. UNCHANGED <<alive, lapsed>> \/ Cancel(c)
    BY <1>2 DEF Keeper, TimerFires, RefreshGet, RefreshCas, ReleaseGet, ReleaseCas,
       LoseLock
  <2> QED
    BY <2>1, CancelingLeaves
<1>3. ASSUME NEW c \in Clients, ContextDone(c)
      PROVE  [Promise!LockNext]_(Promise!lockVars)
  BY <1>3, CancelingLeaves DEF ContextDone
<1>4. CASE Expire
  <2>1. CASE item \in alive
    <3>1. Promise!Lapse(item)
      BY <1>4, <2>1 DEF Expire, Promise!Lapse
    <3> QED
      BY <2>1, <3>1 DEF MemlockInv, MemlockTypeOK
  <2>2. CASE item \notin alive
    BY <1>4, <2>2 DEF Expire
  <2> QED
    BY <2>1, <2>2
<1>5. CASE UNCHANGED memlockVars
  BY <1>5 DEF memlockVars
<1> QED
  BY <1>1, <1>2, <1>3, <1>4, <1>5 DEF MemlockNext

\* The lock implements its promise: a client enters only when every client with
\* a live context has lost its item to memcache.
THEOREM PromiseKept == MemlockSpec => KeepsPromise
<1>1. MemlockInit => Promise!LockInit
  BY DEF MemlockInit, Promise!LockInit
<1>2. MemlockInv /\ [MemlockNext]_memlockVars => [Promise!LockNext]_(Promise!lockVars)
  BY StepKeepsPromise
<1> QED
  BY <1>1, <1>2, MemlockInvariance, PTL DEF MemlockSpec, KeepsPromise, Promise!LockSpec
=============================================================================
