--------------------------- MODULE TumblePromise ---------------------------
(***************************************************************************)
(* What tumble promises about the mutations in its journal: once it is     *)
(* journalled, a mutation waits until it is rolled forward, together with  *)
(* the journalling of everything it produced.  It may be rolled forward    *)
(* again.  One that was put under a name may be withdrawn before: by its   *)
(* owner, who cancels or replaces it, or by a worker that is done with a   *)
(* former mutation under the same name.                                    *)
(***************************************************************************)
CONSTANTS Mutations     \* every mutation there may ever be

VARIABLES
    waiting,    \* journalled and never rolled forward
    rolled,     \* rolled forward at least once
    named,      \* those of them that were put under a name
    withdrawn   \* those of the named ones that were gone before they ran

promiseVars == <<waiting, rolled, named, withdrawn>>

Unborn == Mutations \ (waiting \cup rolled \cup withdrawn)

PromiseInit == waiting = {} /\ rolled = {} /\ named = {} /\ withdrawn = {}

\* A transaction of the application journals m.
Journal(m) ==
    /\ m \in Unborn
    /\ waiting' = waiting \cup {m}
    /\ UNCHANGED <<rolled, named, withdrawn>>

\* It journals m under a name, withdrawing what was there.
JournalNamed(m, S) ==
    /\ m \in Unborn
    /\ waiting' = (waiting \ S) \cup {m}
    /\ named' = named \cup {m}
    /\ withdrawn' = withdrawn \cup S
    /\ UNCHANGED rolled

Withdraw(S) ==
    /\ waiting' = waiting \ S
    /\ withdrawn' = withdrawn \cup S
    /\ UNCHANGED <<rolled, named>>

\* One transaction rolls S forward.  Those of S that are new were produced and
\* run in the same transaction; N are produced and wait; W was under the name of
\* one in S.
RollForward(S, N, W) ==
    /\ S \subseteq waiting \cup rolled \cup withdrawn \cup Unborn
    /\ N \subseteq Unborn \ S
    /\ W \subseteq (waiting \cap named) \ S
    /\ waiting' = (waiting \ (S \cup W)) \cup N
    /\ rolled' = rolled \cup S
    /\ withdrawn' = (withdrawn \ S) \cup W
    /\ UNCHANGED named

PromiseNext ==
    \/ \E m \in Mutations : Journal(m)
    \/ \E S \in SUBSET (waiting \cap named) :
         Withdraw(S) \/ \E m \in Mutations : JournalNamed(m, S)
    \/ \E S, N, W \in SUBSET Mutations : RollForward(S, N, W)

PromiseSpec == PromiseInit /\ [][PromiseNext]_promiseVars
=============================================================================
