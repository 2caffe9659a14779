---------------------------- MODULE TumbleProofs ----------------------------
(***************************************************************************)
(* Safety of tumble's journal, for any set of workers, roots and mutations *)
(* and any faults.                                                         *)
(***************************************************************************)
EXTENDS Tumble, TLAPS

-----------------------------------------------------------------------------
(* The inductive invariant.                                                *)

Keys == Nat \X (1..MaxInst + 1)
TxnRecords ==
    [st : {"none", "queued", "run", "fire", "delete"},
     batch : SUBSET Entries, torun : SUBSET Entries, ran : SUBSET Entries,
     put : SUBSET Entries, del : SUBSET Keys, toDel : SUBSET Keys, fire : SUBSET Nat]

JournalTypeOK ==
    /\ journal \subseteq Entries /\ index \subseteq Entries
    /\ nextInst \in 0..MaxInst
    /\ txn \in [Workers -> [Roots -> TxnRecords]]
    /\ rolled \subseteq 1..nextInst /\ named \subseteq 1..nextInst

\* What is in the journal, seen by queries, or about to be journalled; and what
\* a transaction is rolling forward.
Puts == UNION {txn[w][r].put : w \in Workers, r \in Roots}
Batches == UNION {txn[w][r].batch : w \in Workers, r \in Roots}
ToRuns == UNION {txn[w][r].torun : w \in Workers, r \in Roots}
Rans == UNION {txn[w][r].ran : w \in Workers, r \in Roots}

InPlay == journal \cup index \cup Puts
Held == Batches \cup ToRuns \cup Rans
Known == InPlay \cup Held

\* Instances are numbered in order; the ID of an anonymous one is its number,
\* and one under a name was put there by a request.
WellNumbered ==
    \A e \in Known :
      /\ e.inst <= nextInst
      /\ \/ e.id = e.inst
         \/ e.id = NamedID /\ e.inst \in named /\ <<e.home, e.kind>> \in Names

SameMutation(e, d) == e.home = d.home /\ e.id = d.id /\ e.kind = d.kind

\* An instance number stands for one mutation.
OneMutation == \A e, d \in Known : e.inst = d.inst => SameMutation(e, d)

\* What the journal has under a name is the last that was put there: what a
\* transaction loaded under that name is the same or came before it.
LatestUnderName ==
    \A d \in journal \cup Held, e \in journal :
      d.id = NamedID /\ Key(d) = Key(e) => d.inst <= e.inst

\* A root's transaction deletes what it ran, and nothing else.
TxnOK(w, r) ==
    LET x == txn[w][r]
    IN  /\ \A e \in x.torun \cup x.ran : e.inst \in Instances(x.batch \cup x.put)
        /\ \A k \in x.del \cup x.toDel : \E e \in x.ran : k = Key(e)
        /\ \A e \in x.ran : Key(e) \in x.del \cup x.toDel
        /\ \A e \in x.put : e.id = e.inst
        /\ x.st \in {"fire", "delete"} => \A e \in x.ran : e.inst \in rolled

\* What a transaction that is not committed yet will journal is nowhere else.
Fresh(w, r) ==
    txn[w][r].st = "run" => \A e \in txn[w][r].put :
      /\ e.inst \notin rolled /\ e.inst \notin named
      /\ \A d \in journal : d.inst # e.inst
      /\ \A v \in Workers, q \in Roots :
           /\ \A d \in txn[v][q].batch : d.inst # e.inst
           /\ \A d \in txn[v][q].put : d.inst = e.inst => v = w /\ q = r

TxnsOK == \A w \in Workers, r \in Roots : TxnOK(w, r) /\ Fresh(w, r)

JournalInv == JournalTypeOK /\ WellNumbered /\ OneMutation /\ LatestUnderName /\ TxnsOK

\* The named mutations whose transaction is open are among those requests put.
OpeningOK ==
    /\ opening \subseteq [home : Nat, kind : Kinds, after : Nat]
    /\ \A o \in opening : <<o.home, o.kind>> \in Names

\* No lock was lost, no worker died, and no delete or outcome of a commit got lost.
Calm == slips \cap {"lock", "crash", "delete", "commit"} = {}

\* A worker only has transactions while it is in the middle of a round; while
\* all is calm, it also has the lock.
WorkersOK ==
    /\ DOMAIN proc = Workers /\ \A w \in Workers : DOMAIN proc[w] = DOMAIN IdleProc
    /\ \A w \in Workers : proc[w].pc # "work" => \A r \in Roots : txn[w][r].st = "none"
    /\ inside \subseteq Workers
    /\ Calm => /\ lapsed = {}
               /\ \A v, w \in inside : v = w
               /\ \A w \in Workers : proc[w].pc # "idle" => w \in inside

\* What a root's transaction runs is for that root.
TargetsOK ==
    \A w \in Workers, r \in Roots :
      \A e \in txn[w][r].batch \cup txn[w][r].torun \cup txn[w][r].ran : Target[e.kind] = r

\* A mutation that was rolled forward is about to be deleted, and none is about
\* to be rolled forward again.
OnceInv ==
    Calm =>
      /\ twice = {}
      /\ \A e \in journal : e.inst \in rolled =>
           \E w \in Workers : /\ txn[w][Target[e.kind]].st \in {"fire", "delete"}
                              /\ Key(e) \in txn[w][Target[e.kind]].toDel
      /\ \A w \in Workers, r \in Roots : txn[w][r].st = "run" =>
           \A e \in txn[w][r].batch : e.inst \notin rolled

\* The mutations that are put under a name of a group are for the same root.
OneTargetPerName ==
    \A s, t \in Names : s[1] = t[1] => Target[s[2]] = Target[t[2]]

-----------------------------------------------------------------------------
(* Entries and transactions.                                               *)

\* What newRealMutation makes is an entry whose ID is its number.
LEMMA NewEntryFacts ==
  ASSUME NEW home \in Nat, NEW inst \in 1..MaxInst, NEW kind \in Kinds
  PROVE  LET e == NewEntry(home, inst, kind)
         IN  /\ e \in Entries /\ e.home = home /\ e.id = inst /\ e.inst = inst
             /\ e.kind = kind
  BY TumbleAssumption DEF NewEntry, Entries

\* A transaction that does not exist is a record without entries.
LEMMA NoTxnFacts ==
  /\ NoTxn \in TxnRecords /\ NoTxn.st = "none" /\ NoTxn.batch = {} /\ NoTxn.torun = {}
  /\ NoTxn.ran = {} /\ NoTxn.put = {} /\ NoTxn.del = {} /\ NoTxn.toDel = {}
  BY DEF NoTxn, TxnRecords

\* Instance numbers are natural numbers.
LEMMA InstNat == \A e \in Entries : e.inst \in Nat /\ e.id \in Nat /\ e.inst # NamedID
  BY TumbleAssumption DEF Entries, NamedID

\* Membership in the sets of entries.
LEMMA Members ==
  ASSUME JournalTypeOK
  PROVE  /\ \A e \in journal \cup index : e \in InPlay
         /\ \A w \in Workers, r \in Roots :
              /\ txn[w][r] \in TxnRecords
              /\ \A e \in txn[w][r].put : e \in InPlay
              /\ \A e \in txn[w][r].batch : e \in Held
              /\ \A e \in txn[w][r].torun : e \in Held
              /\ \A e \in txn[w][r].ran : e \in Held
         /\ InPlay \subseteq Known /\ Held \subseteq Known /\ Known \subseteq Entries
<1>1. \A w \in Workers, r \in Roots : txn[w][r] \in TxnRecords
  BY DEF JournalTypeOK
<1>2. Puts \subseteq Entries /\ \A w \in Workers, r \in Roots : txn[w][r].put \subseteq Puts
  BY <1>1 DEF Puts, TxnRecords
<1>3. Batches \subseteq Entries /\ \A w \in Workers, r \in Roots : txn[w][r].batch \subseteq Batches
  BY <1>1 DEF Batches, TxnRecords
<1>4. ToRuns \subseteq Entries /\ \A w \in Workers, r \in Roots : txn[w][r].torun \subseteq ToRuns
  BY <1>1 DEF ToRuns, TxnRecords
<1>5. Rans \subseteq Entries /\ \A w \in Workers, r \in Roots : txn[w][r].ran \subseteq Rans
  BY <1>1 DEF Rans, TxnRecords
<1>6. journal \subseteq Entries /\ index \subseteq Entries
  BY DEF JournalTypeOK
<1> QED
  BY <1>1, <1>2, <1>3, <1>4, <1>5, <1>6 DEF Known, InPlay, Held

\* One transaction is replaced: where entries come from.
LEMMA SetTxnFacts ==
  ASSUME JournalTypeOK, NEW w \in Workers, NEW r \in Roots, NEW x \in TxnRecords,
         SetTxn(w, r, x)
  PROVE  /\ txn' \in [Workers -> [Roots -> TxnRecords]]
         /\ txn'[w][r] = x
         /\ \A v \in Workers, q \in Roots : v # w \/ q # r => txn'[v][q] = txn[v][q]
         /\ InPlay' \subseteq journal' \cup index' \cup InPlay \cup x.put
         /\ Held' \subseteq Held \cup x.batch \cup x.torun \cup x.ran
<1>1. txn' \in [Workers -> [Roots -> TxnRecords]]
  BY DEF JournalTypeOK, SetTxn
<1>2. txn'[w][r] = x
  BY DEF JournalTypeOK, SetTxn
<1>3. \A v \in Workers, q \in Roots : v # w \/ q # r => txn'[v][q] = txn[v][q]
  BY DEF JournalTypeOK, SetTxn
<1>4. Puts' \subseteq Puts \cup x.put
  BY <1>2, <1>3 DEF Puts
<1>5. Batches' \subseteq Batches \cup x.batch
  BY <1>2, <1>3 DEF Batches
<1>6. ToRuns' \subseteq ToRuns \cup x.torun
  BY <1>2, <1>3 DEF ToRuns
<1>7. Rans' \subseteq Rans \cup x.ran
  BY <1>2, <1>3 DEF Rans
<1> QED
  BY <1>1, <1>2, <1>3, <1>4, <1>5, <1>6, <1>7 DEF InPlay, Held

\* New entries have new numbers: then numbers still stand for one mutation each.
LEMMA NumbersStep ==
  ASSUME JournalTypeOK, WellNumbered, OneMutation, NEW New \in SUBSET Entries,
         nextInst' \in Nat, nextInst' >= nextInst, named \subseteq named',
         \A e \in New : /\ e.inst > nextInst /\ e.inst <= nextInst'
                        /\ \/ e.id = e.inst
                           \/ /\ e.id = NamedID /\ e.inst \in named'
                              /\ <<e.home, e.kind>> \in Names,
         \A e, d \in New : e.inst = d.inst => e = d,
         InPlay' \subseteq InPlay \cup New, Held' \subseteq Known \cup New
  PROVE  WellNumbered' /\ OneMutation'
<1> DEFINE K == Known  K1 == Known'
<1>1. K1 \subseteq K \cup New /\ K \subseteq Entries
  BY Members DEF Known
<1>2. \A e \in K : e.inst <= nextInst /\ e.inst \in Nat
  BY InstNat, <1>1 DEF WellNumbered
<1>3. nextInst \in Nat
  BY DEF JournalTypeOK
<1>4. \A e, d \in K : e.inst = d.inst => SameMutation(e, d)
  BY DEF OneMutation
<1>6. \A e \in New : e.inst \in Nat /\ e.inst > nextInst
  BY InstNat
<1>7. WellNumbered'
  <2> SUFFICES ASSUME NEW e \in K1
               PROVE  /\ e.inst <= nextInst'
                      /\ \/ e.id = e.inst
                         \/ e.id = NamedID /\ e.inst \in named' /\ <<e.home, e.kind>> \in Names
    BY DEF WellNumbered, NamedID
  <2>1. CASE e \in New
    BY <2>1
  <2>2. CASE e \in K
    <3>1. /\ e.inst <= nextInst
          /\ \/ e.id = e.inst
             \/ e.id = NamedID /\ e.inst \in named /\ <<e.home, e.kind>> \in Names
      BY <2>2 DEF WellNumbered
    <3> QED
      BY <3>1, <2>2, <1>2, <1>3
  <2> QED
    BY <2>1, <2>2, <1>1
<1> HIDE DEF K, K1
<1>8. \A e, d \in K1 : e.inst = d.inst => SameMutation(e, d)
  <2> SUFFICES ASSUME NEW e \in K1, NEW d \in K1, e.inst = d.inst
               PROVE  SameMutation(e, d)
    OBVIOUS
  <2>1. (e \in K /\ d \in K) \/ (e \in New /\ d \in New)
    BY <1>1, <1>2, <1>3, <1>6
  <2>2. CASE e \in New /\ d \in New
    BY <2>2 DEF SameMutation
  <2> QED
    BY <2>1, <2>2, <1>4
<1> QED
  BY <1>7, <1>8 DEF OneMutation, K1, SameMutation

-----------------------------------------------------------------------------
(* Steps by their shape.                                                   *)

\* The entries that a step adds: numbered on, each number once.
FreshEntries(New) ==
    /\ New \in SUBSET Entries
    /\ nextInst' \in nextInst..MaxInst
    /\ \A e \in New : e.inst > nextInst /\ e.inst <= nextInst'
    /\ \A e, d \in New : e.inst = d.inst => e = d

\* A transaction that does not change keeps its own invariant.
LEMMA TxnOKFrame ==
  ASSUME NEW v \in Workers, NEW q \in Roots, TxnOK(v, q),
         txn'[v][q] = txn[v][q], rolled \subseteq rolled'
  PROVE  TxnOK(v, q)'
  BY DEF TxnOK, Key, Instances, NamedID

\* Everything known has a number that was handed out.
LEMMA KnownNumbers ==
  ASSUME JournalInv
  PROVE  /\ nextInst \in Nat
         /\ \A e \in Known : e.inst \in Nat /\ e.inst <= nextInst
         /\ \A i \in rolled \cup named : i \in Nat /\ i <= nextInst
<1>1. nextInst \in Nat /\ \A i \in rolled \cup named : i \in Nat /\ i <= nextInst
  BY DEF JournalInv, JournalTypeOK
<1> QED
  BY <1>1, InstNat, Members DEF JournalInv, WellNumbered

\* Nothing new comes under a name: the last one there remains the last.
LEMMA NamesKept ==
  ASSUME LatestUnderName,
         \A e \in journal' : e.id = NamedID => e \in journal,
         \A d \in journal' \cup Held' : d.id = NamedID => d \in journal \cup Held
  PROVE  LatestUnderName'
<1> DEFINE A == journal' \cup Held'  B == journal \cup Held
<1>1. \A d \in B, e \in journal : d.id = NamedID /\ Key(d) = Key(e) => d.inst <= e.inst
  BY DEF LatestUnderName
<1>2. \A d, e : Key(d) = Key(e) => d.id = e.id
  BY DEF Key
<1> HIDE DEF A, B
<1>3. \A d \in A, e \in journal' : d.id = NamedID /\ Key(d) = Key(e) => d.inst <= e.inst
  BY <1>1, <1>2 DEF A, B
<1> QED
  BY <1>3 DEF LatestUnderName, A, NamedID, Key

\* One transaction is replaced by x, and at most the journal shrinks: then it is
\* enough to look at that transaction.
LEMMA TxnStep ==
  ASSUME JournalInv, NEW w \in Workers, NEW r \in Roots, NEW x \in TxnRecords,
         SetTxn(w, r, x), journal' \subseteq journal, UNCHANGED <<index, rolled, named>>,
         NEW New, FreshEntries(New), \A e \in New : e.id = e.inst,
         x.put \subseteq txn[w][r].put \cup New,
         x.batch \subseteq txn[w][r].batch \cup journal,
         \A e \in x.torun \cup x.ran : e \in Held \cup journal \cup New,
         x.st = "run" /\ x.put # {} => txn[w][r].st = "run",
         TxnOK(w, r)'
  PROVE  JournalInv'
<1>1. /\ txn' \in [Workers -> [Roots -> TxnRecords]]
      /\ txn'[w][r] = x
      /\ \A v \in Workers, q \in Roots : v # w \/ q # r => txn'[v][q] = txn[v][q]
      /\ InPlay' \subseteq journal' \cup index' \cup InPlay \cup x.put
      /\ Held' \subseteq Held \cup x.batch \cup x.torun \cup x.ran
  BY SetTxnFacts DEF JournalInv
<1>2. JournalTypeOK'
  BY <1>1, TumbleAssumption DEF JournalInv, JournalTypeOK, FreshEntries
<1>3. WellNumbered' /\ OneMutation'
  <2>1. InPlay' \subseteq InPlay \cup New
    BY <1>1, Members DEF JournalInv
  <2>2. Held' \subseteq Known \cup New
    BY <1>1, Members DEF JournalInv
  <2>3. nextInst' \in Nat /\ nextInst' >= nextInst
    BY TumbleAssumption DEF JournalInv, JournalTypeOK, FreshEntries
  <2> QED
    BY <2>1, <2>2, <2>3, NumbersStep DEF JournalInv, FreshEntries
<1>4. \A v \in Workers, q \in Roots : TxnOK(v, q)'
  BY <1>1, TxnOKFrame DEF JournalInv, TxnsOK
<1>6. LatestUnderName'
  <2>1. Held' \subseteq Held \cup journal \cup New
    BY <1>1, Members DEF JournalInv
  <2>2. \A e \in New : e.id # NamedID
    BY InstNat DEF FreshEntries
  <2>3. \A d \in journal' \cup Held' : d.id = NamedID => d \in journal \cup Held
    BY <2>1, <2>2
  <2> QED
    BY <2>3, NamesKept DEF JournalInv
<1>5. ASSUME NEW v \in Workers, NEW q \in Roots PROVE Fresh(v, q)'
  <2>1. Fresh(v, q) /\ Fresh(w, r)
    BY DEF JournalInv, TxnsOK
  <2>2. /\ nextInst \in Nat
        /\ \A e \in New : e.inst \in Nat /\ e.inst > nextInst
        /\ \A i \in rolled \cup named : i \in Nat /\ i <= nextInst
    BY KnownNumbers, InstNat DEF FreshEntries
  <2>3. /\ \A d \in journal : d.inst <= nextInst /\ d.inst \in Nat
        /\ \A p \in Workers, s \in Roots :
             /\ \A d \in txn[p][s].batch : d.inst <= nextInst /\ d.inst \in Nat
             /\ \A d \in txn[p][s].put : d.inst <= nextInst /\ d.inst \in Nat
    BY KnownNumbers, Members DEF JournalInv
  <2> SUFFICES ASSUME txn'[v][q].st = "run", NEW e \in txn'[v][q].put
               PROVE  /\ e.inst \notin rolled' /\ e.inst \notin named'
                      /\ \A d \in journal' : d.inst # e.inst
                      /\ \A p \in Workers, s \in Roots :
                           /\ \A d \in txn'[p][s].batch : d.inst # e.inst
                           /\ \A d \in txn'[p][s].put : d.inst = e.inst => p = v /\ s = q
    BY DEF Fresh
  <2>4. CASE e \in txn[v][q].put
    <3>1. txn[v][q].st = "run"
      BY <1>1
    <3>2. /\ e.inst \notin rolled /\ e.inst \notin named
          /\ \A d \in journal : d.inst # e.inst
          /\ \A p \in Workers, s \in Roots :
               /\ \A d \in txn[p][s].batch : d.inst # e.inst
               /\ \A d \in txn[p][s].put : d.inst = e.inst => p = v /\ s = q
      BY <2>1, <2>4, <3>1 DEF Fresh
    <3>3. ASSUME NEW p \in Workers, NEW s \in Roots, NEW d \in txn'[p][s].batch
          PROVE  d.inst # e.inst
      BY <1>1, <3>2
    <3>4. ASSUME NEW p \in Workers, NEW s \in Roots, NEW d \in txn'[p][s].put,
                 d.inst = e.inst
          PROVE  p = v /\ s = q
      BY <1>1, <3>2, <3>4, <2>2, <2>3, <2>4
    <3> QED
      BY <3>2, <3>3, <3>4
  <2>5. CASE e \notin txn[v][q].put
    <3>1. e \in New /\ v = w /\ q = r
      BY <1>1, <2>5
    <3>2. e.inst \in Nat /\ e.inst > nextInst
      BY <2>2, <3>1
    <3>3. ASSUME NEW p \in Workers, NEW s \in Roots, NEW d \in txn'[p][s].batch
          PROVE  d.inst # e.inst
      BY <1>1, <2>2, <2>3, <3>2
    <3>4. ASSUME NEW p \in Workers, NEW s \in Roots, NEW d \in txn'[p][s].put,
                 d.inst = e.inst
          PROVE  p = v /\ s = q
      BY <1>1, <2>2, <2>3, <3>1, <3>2, <3>4
    <3>5. e.inst \notin rolled' /\ e.inst \notin named' /\ \A d \in journal' : d.inst # e.inst
      BY <2>2, <2>3, <3>2
    <3> QED
      BY <3>3, <3>4, <3>5
  <2> QED
    BY <2>4, <2>5
<1> QED
  BY <1>2, <1>3, <1>4, <1>5, <1>6 DEF JournalInv, TxnsOK

\* Requests change the journal, queries catch up; no transaction changes.
LEMMA JournalStep ==
  ASSUME JournalInv, NEW New, FreshEntries(New),
         journal' \subseteq journal \cup New, index' \subseteq index \cup journal,
         UNCHANGED <<txn, rolled>>, named \subseteq named',
         \A i \in named' \ named : i \in nextInst + 1..nextInst',
         \A e \in New : \/ e.id = e.inst
                        \/ /\ e.id = NamedID /\ e.inst \in named'
                           /\ <<e.home, e.kind>> \in Names
                           /\ \A d \in journal' : Key(d) = Key(e) => d = e
  PROVE  JournalInv'
<1>0. nextInst' \in Nat /\ nextInst' >= nextInst /\ nextInst \in Nat /\ MaxInst \in Nat
  BY TumbleAssumption DEF JournalInv, JournalTypeOK, FreshEntries
<1>1. JournalTypeOK'
  <2>1. named' \subseteq 1..nextInst' /\ rolled' \subseteq 1..nextInst'
    BY <1>0 DEF JournalInv, JournalTypeOK
  <2> QED
    BY <1>0, <2>1 DEF JournalInv, JournalTypeOK, FreshEntries
<1>2. WellNumbered' /\ OneMutation'
  <2>1. InPlay' \subseteq InPlay \cup New
    BY DEF InPlay, Puts
  <2>2. Held' \subseteq Known \cup New
    BY DEF Known, Held, Batches, ToRuns, Rans
  <2> QED
    BY <1>0, <2>1, <2>2, NumbersStep DEF JournalInv, FreshEntries
<1>3. \A v \in Workers, q \in Roots : TxnOK(v, q)'
  BY TxnOKFrame DEF JournalInv, TxnsOK
<1>4. ASSUME NEW v \in Workers, NEW q \in Roots PROVE Fresh(v, q)'
  <2>1. Fresh(v, q)
    BY DEF JournalInv, TxnsOK
  <2>2. \A d \in txn[v][q].put : d.inst <= nextInst /\ d.inst \in Nat
    BY KnownNumbers, Members DEF JournalInv
  <2>3. \A e \in New : e.inst \in Nat /\ e.inst > nextInst
    BY InstNat DEF FreshEntries
  <2> QED
    BY <1>0, <2>1, <2>2, <2>3 DEF Fresh
<1>5. LatestUnderName'
  <2> DEFINE A == journal \cup Held
  <2>1. Held' = Held
    BY DEF Held, Batches, ToRuns, Rans
  <2>2. \A d \in A, e \in journal : d.id = NamedID /\ Key(d) = Key(e) => d.inst <= e.inst
    BY DEF JournalInv, LatestUnderName
  <2>3. \A d \in A : d.inst <= nextInst /\ d.inst \in Nat
    BY KnownNumbers, Members DEF JournalInv
  <2>4. \A e \in New : e.inst \in Nat /\ e.inst > nextInst /\ (e.id = NamedID => e.id # e.inst)
    BY InstNat DEF FreshEntries
  <2> SUFFICES ASSUME NEW d \in journal' \cup Held', NEW e \in journal', d.id = NamedID,
                      Key(d) = Key(e)
               PROVE  d.inst <= e.inst
    BY DEF LatestUnderName, NamedID, Key
  <2>5. e.id = NamedID
    BY DEF Key
  <2>6. d \in A \cup New /\ e \in journal \cup New
    BY <2>1
  <2> HIDE DEF A
  <2>7. CASE d \in New
    <3>1. d = e
      BY <2>4, <2>7
    <3> QED
      BY <2>4, <2>7, <3>1
  <2>8. CASE d \in A /\ e \in New
    BY <1>0, <2>3, <2>4, <2>8
  <2> QED
    BY <2>2, <2>6, <2>7, <2>8
<1> QED
  BY <1>1, <1>2, <1>3, <1>4, <1>5 DEF JournalInv, TxnsOK

\* A worker's transactions are all given up, or begun.
LEMMA RowStep ==
  ASSUME JournalInv, NEW w \in Workers, NEW row \in [Roots -> TxnRecords],
         \A r \in Roots : /\ row[r].batch = {} /\ row[r].torun = {} /\ row[r].ran = {}
                          /\ row[r].put = {} /\ row[r].del = {} /\ row[r].toDel = {},
         txn' = [txn EXCEPT ![w] = row],
         UNCHANGED <<journal, index, nextInst, rolled, named>>
  PROVE  JournalInv'
<1>1. /\ txn' \in [Workers -> [Roots -> TxnRecords]]
      /\ \A r \in Roots : txn'[w][r] = row[r]
      /\ \A v \in Workers, q \in Roots : v # w => txn'[v][q] = txn[v][q]
  BY DEF JournalInv, JournalTypeOK
<1>2. JournalTypeOK'
  BY <1>1 DEF JournalInv, JournalTypeOK
<1>3. WellNumbered' /\ OneMutation' /\ LatestUnderName'
  <2>1. Puts' \subseteq Puts
    BY <1>1 DEF Puts
  <2>2. Batches' \subseteq Batches
    BY <1>1 DEF Batches
  <2>3. ToRuns' \subseteq ToRuns
    BY <1>1 DEF ToRuns
  <2>4. Rans' \subseteq Rans
    BY <1>1 DEF Rans
  <2>5. InPlay' \subseteq InPlay /\ Held' \subseteq Held /\ Known' \subseteq Known
    BY <2>1, <2>2, <2>3, <2>4 DEF InPlay, Held, Known
  <2>6. WellNumbered' /\ OneMutation'
    BY <2>5 DEF JournalInv, WellNumbered, OneMutation, NamedID, SameMutation
  <2>7. LatestUnderName'
    BY <2>5, NamesKept DEF JournalInv
  <2> QED
    BY <2>6, <2>7
<1>4. \A v \in Workers, q \in Roots : TxnOK(v, q)'
  <2> SUFFICES ASSUME NEW v \in Workers, NEW q \in Roots PROVE TxnOK(v, q)'
    OBVIOUS
  <2>1. CASE v = w
    <3>1. /\ txn'[v][q].batch = {} /\ txn'[v][q].torun = {} /\ txn'[v][q].ran = {}
          /\ txn'[v][q].put = {} /\ txn'[v][q].del = {} /\ txn'[v][q].toDel = {}
      BY <1>1, <2>1
    <3> QED
      BY <3>1 DEF TxnOK
  <2>2. CASE v # w
    BY <1>1, <2>2, TxnOKFrame DEF JournalInv, TxnsOK
  <2> QED
    BY <2>1, <2>2
<1>5. ASSUME NEW v \in Workers, NEW q \in Roots PROVE Fresh(v, q)'
  <2>1. CASE v = w
    BY <1>1, <2>1 DEF Fresh
  <2>2. CASE v # w
    <3>1. Fresh(v, q)
      BY DEF JournalInv, TxnsOK
    <3> QED
      BY <1>1, <2>2, <3>1 DEF Fresh
  <2> QED
    BY <2>1, <2>2
<1> QED
  BY <1>2, <1>3, <1>4, <1>5 DEF JournalInv, TxnsOK

\* Nothing that the invariant is about changes.
LEMMA IdleStep ==
  ASSUME JournalInv, UNCHANGED <<journal, index, nextInst, txn, rolled, named>>
  PROVE  JournalInv'
<1>1. FreshEntries({})
  BY DEF FreshEntries, JournalInv, JournalTypeOK
<1> QED
  BY <1>1, JournalStep

-----------------------------------------------------------------------------
(* The journal's invariant, action by action.                              *)

\* It holds initially.
LEMMA JournalInit == TumbleInit => JournalInv
<1> SUFFICES ASSUME TumbleInit PROVE JournalInv
  OBVIOUS
<1>1. /\ journal = {} /\ index = {} /\ nextInst = 0 /\ rolled = {} /\ named = {}
      /\ txn = [w \in Workers |-> [r \in Roots |-> NoTxn]]
  BY DEF TumbleInit
<1>2. JournalTypeOK
  BY <1>1, NoTxnFacts, TumbleAssumption DEF JournalTypeOK
<1>3. \A w \in Workers, r \in Roots : txn[w][r] = NoTxn
  BY <1>1
<1>4. Known = {} /\ InPlay = {}
  BY <1>1, <1>3, NoTxnFacts DEF Known, InPlay, Held, Puts, Batches, ToRuns, Rans
<1>5. \A w \in Workers, r \in Roots : TxnOK(w, r) /\ Fresh(w, r)
  BY <1>3, NoTxnFacts DEF TxnOK, Fresh
<1> QED
  BY <1>1, <1>2, <1>4, <1>5 DEF JournalInv, WellNumbered, OneMutation, LatestUnderName, TxnsOK

\* RunMutation journals a new mutation.
LEMMA RunMutationInv ==
  ASSUME JournalInv, NEW home \in Nat, NEW kind \in Kinds, RunMutation(home, kind)
  PROVE  JournalInv'
<1> DEFINE e == NewEntry(home, nextInst', kind)
<1>1. nextInst' = nextInst + 1 /\ nextInst \in Nat /\ nextInst' \in 1..MaxInst
  BY TumbleAssumption DEF RunMutation, JournalInv, JournalTypeOK
<1>2. e \in Entries /\ e.inst = nextInst' /\ e.id = nextInst'
  BY <1>1, NewEntryFacts
<1>3. FreshEntries({e})
  BY <1>1, <1>2, TumbleAssumption DEF FreshEntries
<1> QED
  BY <1>1, <1>2, <1>3, JournalStep DEF RunMutation, history

\* What the transaction of PutNamedMutations commits.
NamedEntry(o) ==
    [home |-> o.home, id |-> NamedID, inst |-> nextInst + 1, kind |-> o.kind, after |-> o.after]

\* It is an entry with the next number.
LEMMA NamedEntryFacts ==
  ASSUME JournalInv, OpeningOK, NEW o \in opening, CommitNamed(o)
  PROVE  /\ NamedEntry(o) \in Entries /\ NamedEntry(o).inst = nextInst + 1
         /\ NamedEntry(o).id = NamedID /\ <<NamedEntry(o).home, NamedEntry(o).kind>> \in Names
         /\ nextInst \in Nat /\ nextInst' = nextInst + 1 /\ nextInst' \in 1..MaxInst
         /\ journal' = Without(journal, {Key(NamedEntry(o))}) \cup {NamedEntry(o)}
         /\ named' = named \cup {nextInst + 1}
         /\ UNCHANGED <<index, proc, txn, rolled, twice, slips>> /\ UNCHANGED lock
<1>1. /\ nextInst' = nextInst + 1 /\ nextInst < MaxInst
      /\ journal' = Without(journal, {Key(NamedEntry(o))}) \cup {NamedEntry(o)}
      /\ named' = named \cup {nextInst + 1}
      /\ UNCHANGED <<index, proc, txn, rolled, twice, slips>> /\ UNCHANGED lock
  BY DEF CommitNamed, NamedEntry
<1>2. nextInst \in Nat /\ nextInst' \in 1..MaxInst /\ NamedID \in 1..MaxInst + 1
  BY <1>1, TumbleAssumption DEF JournalInv, JournalTypeOK, NamedID
<1>3. o.home \in Nat /\ o.kind \in Kinds /\ o.after \in Nat /\ <<o.home, o.kind>> \in Names
  BY DEF OpeningOK
<1> QED
  BY <1>1, <1>2, <1>3 DEF NamedEntry, Entries

\* The transaction of PutNamedMutations journals it in place of a former one.
LEMMA CommitNamedInv ==
  ASSUME JournalInv, OpeningOK, NEW o \in opening, CommitNamed(o)
  PROVE  JournalInv'
<1> DEFINE e == NamedEntry(o)
<1>1. /\ e \in Entries /\ e.inst = nextInst + 1 /\ e.id = NamedID
      /\ <<e.home, e.kind>> \in Names
      /\ nextInst \in Nat /\ nextInst' = nextInst + 1 /\ nextInst' \in 1..MaxInst
      /\ journal' = Without(journal, {Key(e)}) \cup {e}
      /\ named' = named \cup {nextInst + 1} /\ UNCHANGED <<index, txn, rolled>>
  BY NamedEntryFacts
<1> HIDE DEF e
<1>2. FreshEntries({e})
  BY <1>1, TumbleAssumption DEF FreshEntries
<1>3. journal' \subseteq journal \cup {e} /\ \A d \in journal' : Key(d) = Key(e) => d = e
  BY <1>1 DEF Without
<1>4. \A i \in named' \ named : i \in nextInst + 1..nextInst'
  BY <1>1
<1> QED
  BY <1>1, <1>2, <1>3, <1>4, JournalStep

\* Named mutations are canceled, or queries catch up.
LEMMA CancelSettleInv ==
  ASSUME JournalInv, (\E home \in Nat : CancelNamedMutations(home)) \/ Settle
  PROVE  JournalInv'
<1>1. FreshEntries({})
  BY DEF FreshEntries, JournalInv, JournalTypeOK, CancelNamedMutations, Settle
<1>2. /\ journal' \subseteq journal /\ index' \subseteq index \cup journal
      /\ UNCHANGED <<txn, rolled, named>>
  BY DEF CancelNamedMutations, Settle, history
<1> QED
  BY <1>1, <1>2, JournalStep

\* StartRound and Crash replace all the transactions of a worker.
LEMMA RoundInv ==
  ASSUME JournalInv, NEW w \in Workers, StartRound(w) \/ Crash(w)
  PROVE  JournalInv'
<1>1. CASE StartRound(w)
  <2> DEFINE row == [r \in Roots |->
                 IF r \in ShardRoots THEN [NoTxn EXCEPT !.st = "queued"] ELSE NoTxn]
  <2>1. \A r \in Roots : row[r] \in TxnRecords
    BY DEF NoTxn, TxnRecords
  <2>2. \A r \in Roots : /\ row[r].batch = {} /\ row[r].torun = {} /\ row[r].ran = {}
                         /\ row[r].put = {} /\ row[r].del = {} /\ row[r].toDel = {}
    BY DEF NoTxn
  <2>3. row \in [Roots -> TxnRecords]
    BY <2>1
  <2>4. txn' = [txn EXCEPT ![w] = row] /\ UNCHANGED <<journal, index, nextInst, rolled, named>>
    BY <1>1 DEF StartRound, stores, history
  <2> HIDE DEF row
  <2> QED
    BY <2>2, <2>3, <2>4, RowStep
<1>2. CASE Crash(w)
  <2> DEFINE row == [r \in Roots |-> NoTxn]
  <2>1. row \in [Roots -> TxnRecords]
    BY NoTxnFacts
  <2>2. \A r \in Roots : /\ row[r].batch = {} /\ row[r].torun = {} /\ row[r].ran = {}
                         /\ row[r].put = {} /\ row[r].del = {} /\ row[r].toDel = {}
    BY NoTxnFacts
  <2>3. txn' = [txn EXCEPT ![w] = row] /\ UNCHANGED <<journal, index, nextInst, rolled, named>>
    BY <1>2 DEF Crash, stores, history
  <2> HIDE DEF row
  <2> QED
    BY <2>1, <2>2, <2>3, RowStep
<1> QED
  BY <1>1, <1>2

\* A batch is loaded from the journal.
LEMMA LoadBatchInv ==
  ASSUME JournalInv, NEW w \in Workers, NEW r \in Roots, LoadBatch(w, r)
  PROVE  JournalInv'
<1> DEFINE keys == {Key(e) : e \in getBatchByRoot(w, r)}
           loaded == {e \in journal : Key(e) \in keys}
           x == IF loaded = {} \/ w \notin inside THEN NoTxn
                ELSE [NoTxn EXCEPT !.st = "run", !.batch = loaded, !.torun = loaded]
<1>1. SetTxn(w, r, x) /\ UNCHANGED <<journal, index, nextInst, rolled, named>>
  BY DEF LoadBatch, stores, history
<1>2. loaded \subseteq journal /\ journal \subseteq Entries /\ journal \subseteq Known
  BY Members DEF JournalInv, JournalTypeOK
<1>3. /\ x \in TxnRecords /\ x.batch \subseteq loaded /\ x.torun = x.batch /\ x.ran = {}
      /\ x.put = {} /\ x.del = {} /\ x.toDel = {}
      /\ x.st \in {"none", "run"}
  BY <1>2 DEF NoTxn, TxnRecords
<1>4. FreshEntries({})
  BY <1>1 DEF FreshEntries, JournalInv, JournalTypeOK
<1> HIDE DEF x, loaded
<1>6. txn'[w][r] = x
  BY <1>1, <1>3, SetTxnFacts DEF JournalInv
<1>7. TxnOK(w, r)'
  BY <1>3, <1>6 DEF TxnOK, Instances
<1> QED
  BY <1>1, <1>2, <1>3, <1>4, <1>7, TxnStep

\* What RollForward of a mutation returns, as it will be journalled.
Returned(r, e) == {NewEntry(r, nextInst + j, Emits[e.kind][j]) : j \in DOMAIN Emits[e.kind]}

\* RollOne's transaction record afterwards.
LEMMA RollOneRecord ==
  ASSUME JournalInv, NEW w \in Workers, NEW r \in Roots, NEW e \in txn[w][r].torun,
         RollOne(w, r, e), Returned(r, e) \subseteq Entries
  PROVE  \E y \in TxnRecords :
           LET x == txn[w][r]
           IN  /\ SetTxn(w, r, y) /\ x.st = "run"
               /\ y.st = "run" /\ y.batch = x.batch
               /\ y.torun = (x.torun \ {e}) \cup {n \in Returned(r, e) : RunsNow(n, r)}
               /\ y.ran = x.ran \cup {e} /\ y.put = x.put \cup Returned(r, e)
               /\ \/ y.del = x.del \cup {Key(e)} /\ y.toDel = x.toDel
                  \/ y.del = x.del /\ y.toDel = x.toDel \cup {Key(e)}
<1> DEFINE x == txn[w][r]
           new == Returned(r, e)
           T == (x.torun \ {e}) \cup {n \in new : RunsNow(n, r)}
           R == x.ran \cup {e}
           P == x.put \cup new
           F == x.fire \cup {n.after : n \in new}
           D == x.del \cup {Key(e)}
           L == x.toDel \cup {Key(e)}
           y == [x EXCEPT !.torun = T, !.ran = R, !.put = P, !.fire = F]
<1>1. x \in TxnRecords /\ e \in Entries
  BY Members DEF JournalInv
<1>2. Key(e) \in Keys
  BY <1>1, TumbleAssumption DEF Key, Keys, Entries
<1>3. x.st = "run" /\ (SetTxn(w, r, [y EXCEPT !.del = @ \cup {Key(e)}])
                       \/ SetTxn(w, r, [y EXCEPT !.toDel = @ \cup {Key(e)}]))
  BY <1>1 DEF RollOne, Returned, TxnRecords
<1>4. /\ T \subseteq Entries /\ R \subseteq Entries /\ P \subseteq Entries
      /\ D \subseteq Keys /\ L \subseteq Keys
  BY <1>1, <1>2 DEF TxnRecords
<1>5. F \subseteq Nat
  BY <1>1 DEF TxnRecords, Entries
<1> HIDE DEF T, R, P, F
<1>6. /\ y \in TxnRecords /\ y.st = "run" /\ y.batch = x.batch /\ y.torun = T /\ y.ran = R
      /\ y.put = P /\ y.del = x.del /\ y.toDel = x.toDel
  BY <1>1, <1>3, <1>4, <1>5 DEF TxnRecords
<1> HIDE DEF y
<1>7. CASE SetTxn(w, r, [y EXCEPT !.del = @ \cup {Key(e)}])
  <2> DEFINE z == [y EXCEPT !.del = D]
  <2>1. /\ z \in TxnRecords /\ z.st = "run" /\ z.batch = x.batch /\ z.torun = T /\ z.ran = R
        /\ z.put = P /\ z.del = D /\ z.toDel = x.toDel
    BY <1>4, <1>6 DEF TxnRecords
  <2>2. SetTxn(w, r, z)
    BY <1>6, <1>7 DEF TxnRecords
  <2> QED
    BY <1>3, <2>1, <2>2 DEF T, R, P
<1>8. CASE SetTxn(w, r, [y EXCEPT !.toDel = @ \cup {Key(e)}])
  <2> DEFINE z == [y EXCEPT !.toDel = L]
  <2>1. /\ z \in TxnRecords /\ z.st = "run" /\ z.batch = x.batch /\ z.torun = T /\ z.ran = R
        /\ z.put = P /\ z.del = x.del /\ z.toDel = L
    BY <1>4, <1>6 DEF TxnRecords
  <2>2. SetTxn(w, r, z)
    BY <1>6, <1>8 DEF TxnRecords
  <2> QED
    BY <1>3, <2>1, <2>2 DEF T, R, P
<1> QED
  BY <1>3, <1>7, <1>8

\* What RollForward returns is numbered on.
LEMMA ReturnedFacts ==
  ASSUME JournalInv, NEW w \in Workers, NEW r \in Roots, NEW e \in txn[w][r].torun,
         RollOne(w, r, e)
  PROVE  FreshEntries(Returned(r, e)) /\ \A n \in Returned(r, e) : n.id = n.inst
<1>1. nextInst' = nextInst + Len(Emits[e.kind]) /\ nextInst' <= MaxInst
  BY DEF RollOne
<1>2. e \in Entries
  BY Members DEF JournalInv
<1>3. /\ nextInst \in Nat /\ MaxInst \in Nat /\ r \in Nat
      /\ Emits[e.kind] \in Seq(Kinds)
  BY <1>2, TumbleAssumption DEF Entries, JournalInv, JournalTypeOK
<1>4. \A j \in DOMAIN Emits[e.kind] :
        /\ j \in Nat /\ j >= 1 /\ j <= Len(Emits[e.kind])
        /\ nextInst + j \in 1..MaxInst /\ Emits[e.kind][j] \in Kinds
  BY <1>1, <1>3
<1>5. \A j \in DOMAIN Emits[e.kind] :
        LET n == NewEntry(r, nextInst + j, Emits[e.kind][j])
        IN  n \in Entries /\ n.inst = nextInst + j /\ n.id = n.inst
  BY <1>3, <1>4, NewEntryFacts
<1>6. \A n \in Returned(r, e) : \E j \in DOMAIN Emits[e.kind] :
        n = NewEntry(r, nextInst + j, Emits[e.kind][j])
  BY DEF Returned
<1>7. \A n \in Returned(r, e) :
        n \in Entries /\ n.inst > nextInst /\ n.inst <= nextInst' /\ n.id = n.inst
  <2> SUFFICES ASSUME NEW n \in Returned(r, e)
               PROVE  n \in Entries /\ n.inst > nextInst /\ n.inst <= nextInst' /\ n.id = n.inst
    OBVIOUS
  <2>1. PICK j \in DOMAIN Emits[e.kind] : n = NewEntry(r, nextInst + j, Emits[e.kind][j])
    BY <1>6
  <2>2. n \in Entries /\ n.inst = nextInst + j /\ n.id = n.inst
    BY <1>5, <2>1
  <2> QED
    BY <1>1, <1>3, <1>4, <2>2
<1>8. ASSUME NEW n \in Returned(r, e), NEW m \in Returned(r, e), n.inst = m.inst PROVE n = m
  <2>1. PICK j \in DOMAIN Emits[e.kind] : n = NewEntry(r, nextInst + j, Emits[e.kind][j])
    BY <1>6
  <2>2. PICK k \in DOMAIN Emits[e.kind] : m = NewEntry(r, nextInst + k, Emits[e.kind][k])
    BY <1>6
  <2>3. n.inst = nextInst + j /\ m.inst = nextInst + k
    BY <1>5, <2>1, <2>2
  <2>4. nextInst \in Nat /\ j \in Nat /\ k \in Nat /\ nextInst + j = nextInst + k
    BY <1>3, <1>4, <1>8, <2>3
  <2>5. j = k
    BY <2>4
  <2> QED
    BY <2>1, <2>2, <2>5
<1> QED
  BY <1>1, <1>3, <1>7, <1>8 DEF FreshEntries

\* RollOne runs one mutation and takes down what it returns.
LEMMA RollOneInv ==
  ASSUME JournalInv, NEW w \in Workers, NEW r \in Roots, NEW e \in txn[w][r].torun,
         RollOne(w, r, e)
  PROVE  JournalInv'
<1> DEFINE x == txn[w][r]
           new == Returned(r, e)
<1>1. UNCHANGED <<journal, index, rolled, named>>
  BY DEF RollOne, history
<1>2. FreshEntries(new) /\ \A n \in new : n.id = n.inst
  BY ReturnedFacts
<1>3. PICK y \in TxnRecords :
        /\ SetTxn(w, r, y) /\ x.st = "run"
        /\ y.st = "run" /\ y.batch = x.batch
        /\ y.torun = (x.torun \ {e}) \cup {n \in new : RunsNow(n, r)}
        /\ y.ran = x.ran \cup {e} /\ y.put = x.put \cup new
        /\ \/ y.del = x.del \cup {Key(e)} /\ y.toDel = x.toDel
           \/ y.del = x.del /\ y.toDel = x.toDel \cup {Key(e)}
  BY <1>2, RollOneRecord DEF FreshEntries
<1> HIDE DEF new
<1>4. txn'[w][r] = y
  BY <1>3, SetTxnFacts DEF JournalInv
<1>5. TxnOK(w, r)
  BY DEF JournalInv, TxnsOK
<1>6. TxnOK(w, r)'
  <2>1. \A d \in y.torun \cup y.ran : d.inst \in Instances(y.batch \cup y.put)
    BY <1>3, <1>5 DEF TxnOK, Instances
  <2>2. \A k \in y.del \cup y.toDel : \E d \in y.ran : k = Key(d)
    BY <1>3, <1>5 DEF TxnOK
  <2>3. \A d \in y.ran : Key(d) \in y.del \cup y.toDel
    BY <1>3, <1>5 DEF TxnOK
  <2>4. \A d \in y.put : d.id = d.inst
    BY <1>2, <1>3, <1>5 DEF TxnOK
  <2> QED
    BY <1>3, <1>4, <2>1, <2>2, <2>3, <2>4 DEF TxnOK, Key, Instances
<1>7. \A d \in y.torun \cup y.ran : d \in Held \cup journal \cup new
  BY <1>3, Members DEF JournalInv
<1> QED
  BY <1>1, <1>2, <1>3, <1>6, <1>7, TxnStep

\* A mutation is skipped, a transaction is attempted again or given up, tasks
\* are fired, or what ran is deleted.
LEMMA RootInv ==
  ASSUME JournalInv, NEW w \in Workers, NEW r \in Roots,
         \/ \E e \in txn[w][r].torun : RollFails(w, r, e)
         \/ Conflict(w, r) \/ FireRoot(w, r) \/ DeleteDone(w, r)
  PROVE  JournalInv'
<1> DEFINE x == txn[w][r]
<1>1. x \in TxnRecords /\ TxnOK(w, r)
  BY Members DEF JournalInv, TxnsOK
<1>2. /\ journal' \subseteq journal
      /\ UNCHANGED <<index, nextInst, rolled, named>>
  BY DEF RollFails, Conflict, FireRoot, DeleteDone, stores, history, Without
<1>3. FreshEntries({})
  BY <1>2 DEF FreshEntries, JournalInv, JournalTypeOK
<1>4. PICK y \in TxnRecords :
        /\ SetTxn(w, r, y)
        /\ \/ y = NoTxn
           \/ \E e \in x.torun : y = [x EXCEPT !.torun = @ \ {e}]
           \/ y = [NoTxn EXCEPT !.st = "run", !.batch = x.batch, !.torun = x.batch,
                                !.fire = x.fire]
           \/ y = [x EXCEPT !.st = "delete"] /\ x.st = "fire"
  <2>1. CASE \E e \in txn[w][r].torun : RollFails(w, r, e)
    <3>1. PICK e \in x.torun : SetTxn(w, r, [x EXCEPT !.torun = @ \ {e}])
      BY <2>1 DEF RollFails
    <3>2. [x EXCEPT !.torun = @ \ {e}] \in TxnRecords
      BY <1>1 DEF TxnRecords
    <3> QED
      BY <3>1, <3>2
  <2>2. CASE Conflict(w, r)
    <3>1. [NoTxn EXCEPT !.st = "run", !.batch = x.batch, !.torun = x.batch,
                        !.fire = x.fire] \in TxnRecords
      BY <1>1 DEF TxnRecords, NoTxn
    <3> QED
      BY <2>2, <3>1, NoTxnFacts DEF Conflict, RootFails
  <2>3. CASE FireRoot(w, r)
    <3>1. [x EXCEPT !.st = "delete"] \in TxnRecords
      BY <1>1 DEF TxnRecords
    <3> QED
      BY <2>3, <3>1, NoTxnFacts DEF FireRoot
  <2>4. CASE DeleteDone(w, r)
    BY <2>4, NoTxnFacts DEF DeleteDone
  <2> QED
    BY <2>1, <2>2, <2>3, <2>4
<1>5. txn'[w][r] = y
  BY <1>4, SetTxnFacts DEF JournalInv
<1>6. /\ y.put \subseteq x.put /\ y.batch \subseteq x.batch
      /\ y.torun \subseteq x.torun \cup x.batch /\ y.ran \subseteq x.ran
      /\ y.st = "run" /\ y.put # {} => x.st = "run"
      /\ TxnOK(w, r)'
  <2>1. CASE y = NoTxn
    BY <1>5, <2>1, NoTxnFacts DEF TxnOK
  <2>2. CASE \E e \in x.torun : y = [x EXCEPT !.torun = @ \ {e}]
    <3>1. /\ y.put = x.put /\ y.batch = x.batch /\ y.torun \subseteq x.torun
          /\ y.ran = x.ran /\ y.st = x.st /\ y.del = x.del /\ y.toDel = x.toDel
      BY <1>1, <2>2 DEF TxnRecords
    <3> QED
      BY <1>1, <1>2, <1>5, <3>1 DEF TxnOK, Key, Instances, NamedID
  <2>3. CASE y = [NoTxn EXCEPT !.st = "run", !.batch = x.batch, !.torun = x.batch,
                               !.fire = x.fire]
    <3>1. /\ y.put = {} /\ y.batch = x.batch /\ y.torun = x.batch /\ y.ran = {}
          /\ y.del = {} /\ y.toDel = {} /\ y.st = "run"
      BY <2>3 DEF NoTxn
    <3> QED
      BY <1>1, <1>5, <3>1 DEF TxnOK, Instances, NamedID
  <2>4. CASE y = [x EXCEPT !.st = "delete"] /\ x.st = "fire"
    <3>1. /\ y.put = x.put /\ y.batch = x.batch /\ y.torun = x.torun
          /\ y.ran = x.ran /\ y.st = "delete" /\ y.del = x.del /\ y.toDel = x.toDel
      BY <1>1, <2>4 DEF TxnRecords
    <3> QED
      BY <1>1, <1>2, <1>5, <2>4, <3>1 DEF TxnOK, Key, Instances, NamedID
  <2> QED
    BY <1>4, <2>1, <2>2, <2>3, <2>4
<1>7. \A e \in y.torun \cup y.ran : e \in Held \cup journal \cup {}
  BY <1>6, Members DEF JournalInv
<1> QED
  BY <1>2, <1>3, <1>4, <1>6, <1>7, TxnStep

\* A commit deletes what it ran in its own group, journals what that returned,
\* and goes on or reports an error.
LEMMA CommittedInv ==
  ASSUME JournalInv, NEW w \in Workers, NEW r \in Roots, Commit(w, r) \/ CommitUnknown(w, r)
  PROVE  JournalInv'
<1> DEFINE x == txn[w][r]
<1>1. x \in TxnRecords /\ TxnOK(w, r) /\ Fresh(w, r)
  BY Members DEF JournalInv, TxnsOK
<1>2. /\ x.st = "run" /\ journal' = Without(journal \cup x.put, x.del)
      /\ rolled' = rolled \cup Instances(x.ran)
      /\ UNCHANGED <<index, nextInst, named>>
  BY DEF Commit, CommitUnknown, Committed
<1>3. PICK y \in TxnRecords :
        SetTxn(w, r, y) /\ (y = NoTxn \/ y = [x EXCEPT !.st = "fire"])
  <2>1. [x EXCEPT !.st = "fire"] \in TxnRecords
    BY <1>1 DEF TxnRecords
  <2> QED
    BY <2>1, NoTxnFacts DEF Commit, CommitUnknown, RootFails
<1>4. /\ y.st # "run" /\ y.put \subseteq x.put /\ y.batch \subseteq x.batch
      /\ y.torun \subseteq x.torun /\ y.ran \subseteq x.ran
  BY <1>1, <1>3, NoTxnFacts DEF TxnRecords
<1>5. /\ txn' \in [Workers -> [Roots -> TxnRecords]]
      /\ txn'[w][r] = y
      /\ \A v \in Workers, q \in Roots : v # w \/ q # r => txn'[v][q] = txn[v][q]
      /\ InPlay' \subseteq journal' \cup index' \cup InPlay \cup y.put
      /\ Held' \subseteq Held \cup y.batch \cup y.torun \cup y.ran
  BY <1>3, SetTxnFacts DEF JournalInv
<1>6. JournalTypeOK'
  <2>1. \A e \in x.ran : e.inst \in 1..nextInst
    <3>1. \A e \in x.ran : e \in Known /\ e \in Entries
      BY Members DEF JournalInv
    <3> QED
      BY <3>1, KnownNumbers DEF Entries
  <2>2. rolled' \subseteq 1..nextInst'
    BY <1>2, <2>1 DEF Instances, JournalInv, JournalTypeOK
  <2>3. journal' \subseteq Entries
    BY <1>1, <1>2 DEF Without, TxnRecords, JournalInv, JournalTypeOK
  <2> QED
    BY <1>2, <1>5, <2>2, <2>3 DEF JournalInv, JournalTypeOK
<1>7. WellNumbered' /\ OneMutation' /\ LatestUnderName'
  <2>1. x.put \subseteq InPlay /\ journal \subseteq InPlay /\ index \subseteq InPlay
    BY Members DEF JournalInv
  <2>2. InPlay' \subseteq InPlay
    BY <1>2, <1>4, <1>5, <2>1 DEF Without
  <2>3. Held' \subseteq Held
    BY <1>4, <1>5, Members DEF JournalInv
  <2>4. Known' \subseteq Known
    BY <2>2, <2>3 DEF Known
  <2>5. WellNumbered' /\ OneMutation'
    BY <1>2, <2>4 DEF JournalInv, WellNumbered, OneMutation, NamedID, SameMutation
  <2>6. \A e \in journal' : e.id = NamedID => e \in journal
    <3>1. \A e \in x.put : e.id = e.inst /\ e \in Entries
      BY <1>1 DEF TxnOK, TxnRecords
    <3>2. \A e \in x.put : e.id # NamedID
      BY <3>1, InstNat
    <3> QED
      BY <1>2, <3>2 DEF Without
  <2>7. LatestUnderName'
    BY <2>3, <2>6, NamesKept DEF JournalInv
  <2> QED
    BY <2>5, <2>7
<1>8. TxnOK(w, r)'
  <2>1. CASE y = NoTxn
    BY <1>5, <2>1, NoTxnFacts DEF TxnOK
  <2>2. CASE y = [x EXCEPT !.st = "fire"]
    <3>1. /\ y.put = x.put /\ y.batch = x.batch /\ y.torun = x.torun
          /\ y.ran = x.ran /\ y.st = "fire" /\ y.del = x.del /\ y.toDel = x.toDel
      BY <1>1, <2>2 DEF TxnRecords
    <3>2. \A e \in x.ran : e.inst \in rolled'
      BY <1>2 DEF Instances
    <3> QED
      BY <1>1, <1>5, <3>1, <3>2 DEF TxnOK, Key, Instances, NamedID
  <2> QED
    BY <1>3, <2>1, <2>2
<1>9. \A v \in Workers, q \in Roots : TxnOK(v, q)'
  <2> SUFFICES ASSUME NEW v \in Workers, NEW q \in Roots, v # w \/ q # r PROVE TxnOK(v, q)'
    BY <1>8
  <2> QED
    BY <1>2, <1>5, TxnOKFrame DEF JournalInv, TxnsOK
<1>10. ASSUME NEW v \in Workers, NEW q \in Roots PROVE Fresh(v, q)'
  <2> SUFFICES ASSUME txn'[v][q].st = "run", NEW e \in txn'[v][q].put
               PROVE  /\ e.inst \notin rolled' /\ e.inst \notin named'
                      /\ \A d \in journal' : d.inst # e.inst
                      /\ \A p \in Workers, s \in Roots :
                           /\ \A d \in txn'[p][s].batch : d.inst # e.inst
                           /\ \A d \in txn'[p][s].put : d.inst = e.inst => p = v /\ s = q
    BY DEF Fresh
  <2>1. (v # w \/ q # r) /\ txn'[v][q] = txn[v][q]
    BY <1>4, <1>5
  <2>2. /\ e.inst \notin rolled /\ e.inst \notin named
        /\ \A d \in journal : d.inst # e.inst
        /\ \A p \in Workers, s \in Roots :
             /\ \A d \in txn[p][s].batch : d.inst # e.inst
             /\ \A d \in txn[p][s].put : d.inst = e.inst => p = v /\ s = q
    BY <2>1 DEF Fresh, JournalInv, TxnsOK
  <2>3. \A d \in x.put \cup x.batch : d.inst # e.inst
    BY <2>1, <2>2
  <2>4. \A d \in x.ran : d.inst # e.inst
    BY <1>1, <2>3 DEF TxnOK, Instances
  <2>5. e.inst \notin rolled' /\ \A d \in journal' : d.inst # e.inst
    BY <1>2, <2>2, <2>3, <2>4 DEF Instances, Without
  <2>6. \A p \in Workers, s \in Roots :
          /\ \A d \in txn'[p][s].batch : d.inst # e.inst
          /\ \A d \in txn'[p][s].put : d.inst = e.inst => p = v /\ s = q
    BY <1>4, <1>5, <2>2
  <2> QED
    BY <1>2, <2>2, <2>5, <2>6
<1> QED
  BY <1>6, <1>7, <1>9, <1>10 DEF JournalInv, TxnsOK

\* An entry a moment later.
Older(e) ==
    [e EXCEPT !.after = IF @ = None THEN None ELSE IF @ > 0 THEN @ - 1 ELSE @]

\* Only its time comes closer.
LEMMA OlderFacts ==
  ASSUME NEW e \in Entries
  PROVE  /\ Older(e) \in Entries /\ Older(e).home = e.home /\ Older(e).id = e.id
         /\ Older(e).inst = e.inst /\ Older(e).kind = e.kind
         /\ Older(e).after = IF e.after > 0 THEN e.after - 1 ELSE e.after
<1> DEFINE a == IF e.after > 0 THEN e.after - 1 ELSE e.after
<1>1. e.after \in Nat /\ e.after # None /\ a \in Nat
  BY TumbleAssumption DEF Entries
<1>2. Older(e) = [e EXCEPT !.after = a]
  BY <1>1 DEF Older
<1> HIDE DEF a
<1>3. /\ Older(e) \in Entries /\ Older(e).home = e.home /\ Older(e).id = e.id
      /\ Older(e).inst = e.inst /\ Older(e).kind = e.kind /\ Older(e).after = a
  BY <1>1, <1>2 DEF Entries
<1> QED
  BY <1>3 DEF a

\* What time does to the journal and to the transactions.
LEMMA TickFacts ==
  ASSUME JournalInv, Tick
  PROVE  /\ journal' = {Older(e) : e \in journal} /\ index' = {Older(e) : e \in index}
         /\ UNCHANGED <<nextInst, rolled, named>>
         /\ txn' \in [Workers -> [Roots -> TxnRecords]]
         /\ \A w \in Workers, r \in Roots :
              /\ txn'[w][r].put = {Older(e) : e \in txn[w][r].put}
              /\ txn'[w][r].st = txn[w][r].st /\ txn'[w][r].batch = txn[w][r].batch
              /\ txn'[w][r].torun = txn[w][r].torun /\ txn'[w][r].ran = txn[w][r].ran
              /\ txn'[w][r].del = txn[w][r].del /\ txn'[w][r].toDel = txn[w][r].toDel
<1> DEFINE sooner(t) == IF t = None THEN None ELSE IF t > 0 THEN t - 1 ELSE t
           X(w, r) == [txn[w][r] EXCEPT !.put = {Older(e) : e \in @},
                                        !.fire = {sooner(t) : t \in @}]
<1>1. /\ journal' = {Older(e) : e \in journal} /\ index' = {Older(e) : e \in index}
      /\ UNCHANGED <<nextInst, rolled, named>>
      /\ txn' = [w \in Workers |-> [r \in Roots |-> X(w, r)]]
  BY Zenon DEF Tick, Older, history
<1>2. \A w \in Workers, r \in Roots : txn[w][r] \in TxnRecords
  BY DEF JournalInv, JournalTypeOK
<1>3. ASSUME NEW w \in Workers, NEW r \in Roots
      PROVE  /\ X(w, r) \in TxnRecords
             /\ X(w, r).put = {Older(e) : e \in txn[w][r].put}
             /\ X(w, r).st = txn[w][r].st /\ X(w, r).batch = txn[w][r].batch
             /\ X(w, r).torun = txn[w][r].torun /\ X(w, r).ran = txn[w][r].ran
             /\ X(w, r).del = txn[w][r].del /\ X(w, r).toDel = txn[w][r].toDel
  <2> DEFINE P == {Older(e) : e \in txn[w][r].put}
             F == {sooner(t) : t \in txn[w][r].fire}
  <2>1. P \subseteq Entries
    BY <1>2, OlderFacts DEF TxnRecords
  <2>2. F \subseteq Nat
    BY <1>2, TumbleAssumption DEF TxnRecords
  <2>3. X(w, r) = [txn[w][r] EXCEPT !.put = P, !.fire = F]
    BY <1>2 DEF TxnRecords
  <2> HIDE DEF P, F, X
  <2>4. /\ X(w, r) \in TxnRecords /\ X(w, r).put = P
        /\ X(w, r).st = txn[w][r].st /\ X(w, r).batch = txn[w][r].batch
        /\ X(w, r).torun = txn[w][r].torun /\ X(w, r).ran = txn[w][r].ran
        /\ X(w, r).del = txn[w][r].del /\ X(w, r).toDel = txn[w][r].toDel
    BY <1>2, <2>1, <2>2, <2>3 DEF TxnRecords
  <2> QED
    BY <2>4 DEF P
<1> HIDE DEF X
<1>4. \A w \in Workers, r \in Roots : txn'[w][r] = X(w, r)
  BY <1>1
<1>5. txn' \in [Workers -> [Roots -> TxnRecords]]
  BY <1>1, <1>3
<1> QED
  BY <1>1, <1>3, <1>4, <1>5

\* Everything stored ages alike.
LEMMA TickInv ==
  ASSUME JournalInv, Tick
  PROVE  JournalInv'
<1>1. /\ journal' = {Older(e) : e \in journal} /\ index' = {Older(e) : e \in index}
      /\ UNCHANGED <<nextInst, rolled, named>>
      /\ txn' \in [Workers -> [Roots -> TxnRecords]]
  BY TickFacts
<1>2. \A w \in Workers, r \in Roots :
        /\ txn'[w][r].put = {Older(e) : e \in txn[w][r].put}
        /\ txn'[w][r].st = txn[w][r].st /\ txn'[w][r].batch = txn[w][r].batch
        /\ txn'[w][r].torun = txn[w][r].torun /\ txn'[w][r].ran = txn[w][r].ran
        /\ txn'[w][r].del = txn[w][r].del /\ txn'[w][r].toDel = txn[w][r].toDel
  BY TickFacts
<1>3. JournalTypeOK'
  BY <1>1, OlderFacts DEF JournalInv, JournalTypeOK
<1>4. \A e \in InPlay' : \E d \in InPlay : e = Older(d)
  <2>1. \A e \in Puts' : \E d \in Puts : e = Older(d)
    BY <1>2 DEF Puts
  <2> QED
    BY <1>1, <2>1 DEF InPlay
<1>5. Held' \subseteq Held
  BY <1>2 DEF Held, Batches, ToRuns, Rans
<1>6. \A e \in Known' : \E d \in Known : /\ e.inst = d.inst /\ e.home = d.home
                                         /\ e.id = d.id /\ e.kind = d.kind
  BY <1>4, <1>5, OlderFacts, Members DEF JournalInv, Known
<1>7. WellNumbered'
  BY <1>1, <1>6 DEF JournalInv, WellNumbered, NamedID
<1>8. \A e, d \in Known' : e.inst = d.inst => SameMutation(e, d)
  BY <1>6 DEF JournalInv, OneMutation, SameMutation
<1>9. LatestUnderName'
  <2> DEFINE A == journal \cup Held  B == journal' \cup Held'
  <2>1. \A e \in journal' : \E d \in journal : e.inst = d.inst /\ Key(e) = Key(d) /\ e.id = d.id
    BY <1>1, OlderFacts, Members DEF JournalInv, Key
  <2>2. \A e \in B : \E d \in A : e.inst = d.inst /\ Key(e) = Key(d) /\ e.id = d.id
    BY <1>5, <2>1
  <2>3. \A d \in A, e \in journal : d.id = NamedID /\ Key(d) = Key(e) => d.inst <= e.inst
    BY DEF JournalInv, LatestUnderName
  <2> HIDE DEF A, B
  <2>4. \A d \in B, e \in journal' : d.id = NamedID /\ Key(d) = Key(e) => d.inst <= e.inst
    BY <2>1, <2>2, <2>3
  <2> QED
    BY <2>4 DEF B, LatestUnderName, NamedID, Key
<1>10. ASSUME NEW v \in Workers, NEW q \in Roots PROVE TxnOK(v, q)' /\ Fresh(v, q)'
  <2>1. TxnOK(v, q) /\ Fresh(v, q)
    BY DEF JournalInv, TxnsOK
  <2>2. \A p \in Workers, s \in Roots :
          \A e \in txn'[p][s].put : \E d \in txn[p][s].put : e.inst = d.inst /\ e.id = d.id
    BY <1>2, OlderFacts, Members DEF JournalInv
  <2>3. \A p \in Workers, s \in Roots :
          \A e \in txn[p][s].put : \E d \in txn'[p][s].put : e.inst = d.inst
    BY <1>2, OlderFacts, Members DEF JournalInv
  <2>4. \A e \in journal' : \E d \in journal : e.inst = d.inst
    BY <1>1, OlderFacts, Members DEF JournalInv
  <2>5. TxnOK(v, q)'
    <3>1. \A e \in txn'[v][q].torun \cup txn'[v][q].ran :
            e.inst \in Instances(txn'[v][q].batch \cup txn'[v][q].put)
      BY <1>2, <2>1, <2>3 DEF TxnOK, Instances
    <3>2. \A e \in txn'[v][q].put : e.id = e.inst
      BY <2>1, <2>2 DEF TxnOK
    <3> QED
      BY <1>1, <1>2, <2>1, <3>1, <3>2 DEF TxnOK, Key, Instances, NamedID
  <2>6. Fresh(v, q)'
    <3> SUFFICES ASSUME txn'[v][q].st = "run", NEW e \in txn'[v][q].put
                 PROVE  /\ e.inst \notin rolled' /\ e.inst \notin named'
                        /\ \A d \in journal' : d.inst # e.inst
                        /\ \A p \in Workers, s \in Roots :
                             /\ \A d \in txn'[p][s].batch : d.inst # e.inst
                             /\ \A d \in txn'[p][s].put : d.inst = e.inst => p = v /\ s = q
      BY DEF Fresh
    <3>1. PICK f \in txn[v][q].put : e.inst = f.inst
      BY <2>2
    <3>2. /\ f.inst \notin rolled /\ f.inst \notin named
          /\ \A d \in journal : d.inst # f.inst
          /\ \A p \in Workers, s \in Roots :
               /\ \A d \in txn[p][s].batch : d.inst # f.inst
               /\ \A d \in txn[p][s].put : d.inst = f.inst => p = v /\ s = q
      BY <1>2, <2>1 DEF Fresh
    <3>3. \A d \in journal' : d.inst # e.inst
      BY <2>4, <3>1, <3>2
    <3>4. \A p \in Workers, s \in Roots :
            \A d \in txn'[p][s].put : d.inst = e.inst => p = v /\ s = q
      BY <2>2, <3>1, <3>2
    <3> QED
      BY <1>1, <1>2, <3>1, <3>2, <3>3, <3>4
  <2> QED
    BY <2>5, <2>6
<1> QED
  BY <1>3, <1>7, <1>8, <1>9, <1>10 DEF JournalInv, OneMutation, TxnsOK, SameMutation

\* Open transactions begin with a request and end; time passes for them too.
LEMMA OpeningNext == OpeningOK /\ [TumbleNext]_tumbleVars => OpeningOK'
<1> SUFFICES ASSUME OpeningOK, [TumbleNext]_tumbleVars PROVE OpeningOK'
  OBVIOUS
<1>1. CASE opening' \subseteq opening
  BY <1>1 DEF OpeningOK
<1>2. CASE Request
  <2>1. ASSUME NEW s \in Names, PutNamedMutations(s[1], s[2]) PROVE OpeningOK'
    <3> DEFINE after == NewEntry(s[1], 1, s[2]).after
               o == [home |-> s[1], kind |-> s[2], after |-> after]
    <3>1. s[1] \in Nat /\ s[2] \in Kinds /\ <<s[1], s[2]>> = s
      BY TumbleAssumption
    <3>2. after \in Nat
      BY <3>1, TumbleAssumption DEF NewEntry
    <3>3. opening' = opening \cup {o}
      BY <2>1 DEF PutNamedMutations
    <3> HIDE DEF after
    <3> QED
      BY <3>1, <3>2, <3>3 DEF OpeningOK
  <2>2. ASSUME NEW o \in opening, CommitNamed(o) \/ AbortNamed(o) PROVE OpeningOK'
    BY <1>1, <2>2 DEF CommitNamed, AbortNamed
  <2>3. ASSUME NEW s, RunMutation(s[1], s[2]) \/ CancelNamedMutations(s[1]) PROVE OpeningOK'
    BY <1>1, <2>3 DEF RunMutation, CancelNamedMutations, queues
  <2> QED
    BY <1>2, <2>1, <2>2, <2>3 DEF Request
<1>3. CASE Tick
  <2> DEFINE sooner(t) == IF t = None THEN None ELSE IF t > 0 THEN t - 1 ELSE t
  <2>1. opening' = {[o EXCEPT !.after = sooner(@)] : o \in opening}
    BY <1>3, Zenon DEF Tick
  <2>2. \A t \in Nat : sooner(t) \in Nat
    BY TumbleAssumption
  <2> HIDE DEF sooner
  <2> QED
    BY <2>1, <2>2 DEF OpeningOK
<1>4. CASE FireAllTasks \/ Settle \/ \E after \in firing : FireTask(after)
  BY <1>1, <1>4 DEF FireAllTasks, Settle, FireTask, queues
<1>5. ASSUME NEW w \in Workers, Worker(w) \/ LoseLock(w) \/ Crash(w) PROVE OpeningOK'
  <2>1. CASE \/ \E t \in tasks : processShard(w, t)
             \/ CheckLast(w) \/ StartRound(w) \/ EndRound(w) \/ Wake(w) \/ LoseLock(w) \/ Crash(w)
    BY <1>1, <2>1 DEF processShard, CheckLast, StartRound, EndRound, Wake, Finish, LoseLock,
       Crash, queues
  <2>2. ASSUME NEW r \in Roots, Root(w, r) PROVE OpeningOK'
    BY <1>1, <2>2 DEF Root, LoadBatch, Commit, Conflict, CommitUnknown, FireRoot, DeleteDone,
       RollOne, RollFails, queues
  <2> QED
    BY <1>5, <2>1, <2>2 DEF Worker
<1>6. CASE UNCHANGED tumbleVars
  BY <1>1, <1>6 DEF tumbleVars, queues
<1> QED
  BY <1>2, <1>3, <1>4, <1>5, <1>6 DEF TumbleNext

\* Every step keeps the journal's invariant.
LEMMA JournalNext == JournalInv /\ OpeningOK /\ [TumbleNext]_tumbleVars => JournalInv'
<1> SUFFICES ASSUME JournalInv, OpeningOK, [TumbleNext]_tumbleVars PROVE JournalInv'
  OBVIOUS
<1>1. CASE UNCHANGED tumbleVars
  BY <1>1, IdleStep DEF tumbleVars, stores, history
<1>2. CASE Request
  <2>1. ASSUME NEW s \in Starts, RunMutation(s[1], s[2]) PROVE JournalInv'
    BY <2>1, RunMutationInv, TumbleAssumption
  <2>2. ASSUME NEW s \in Names, PutNamedMutations(s[1], s[2]) PROVE JournalInv'
    BY <2>2, IdleStep DEF PutNamedMutations, stores, history
  <2>4. ASSUME NEW o \in opening, CommitNamed(o) \/ AbortNamed(o) PROVE JournalInv'
    BY <2>4, CommitNamedInv, IdleStep DEF AbortNamed, stores, history
  <2>3. ASSUME NEW s \in Names, CancelNamedMutations(s[1]) PROVE JournalInv'
    BY <2>3, CancelSettleInv, TumbleAssumption
  <2> QED
    BY <1>2, <2>1, <2>2, <2>3, <2>4 DEF Request
<1>3. CASE FireAllTasks \/ \E after \in firing : FireTask(after)
  BY <1>3, IdleStep DEF FireAllTasks, FireTask, stores, history
<1>4. CASE Settle
  BY <1>4, CancelSettleInv
<1>5. CASE Tick
  BY <1>5, TickInv
<1>6. ASSUME NEW w \in Workers, Worker(w) \/ LoseLock(w) \/ Crash(w) PROVE JournalInv'
  <2>1. CASE \/ \E t \in tasks : processShard(w, t)
             \/ CheckLast(w) \/ EndRound(w) \/ Wake(w) \/ LoseLock(w)
    BY <2>1, IdleStep DEF processShard, CheckLast, EndRound, Wake, LoseLock, stores, history
  <2>2. CASE StartRound(w) \/ Crash(w)
    BY <2>2, RoundInv
  <2>3. ASSUME NEW r \in Roots, Root(w, r) PROVE JournalInv'
    BY <2>3, LoadBatchInv, CommittedInv, RootInv, RollOneInv DEF Root
  <2> QED
    BY <1>6, <2>1, <2>2, <2>3 DEF Worker
<1> QED
  BY <1>1, <1>2, <1>3, <1>4, <1>5, <1>6 DEF TumbleNext

\* The open transactions are requests' in every behaviour.
LEMMA OpeningInvariance == TumbleSpec => []OpeningOK
<1>1. TumbleInit => OpeningOK
  BY DEF TumbleInit, OpeningOK
<1> QED
  BY <1>1, OpeningNext, PTL DEF TumbleSpec

\* The journal's invariant holds in every behaviour of tumble.
THEOREM JournalInvariance == TumbleSpec => []JournalInv
  BY JournalInit, JournalNext, OpeningInvariance, PTL DEF TumbleSpec

-----------------------------------------------------------------------------
(* Tumble implements TumblePromise.                                        *)

\* The variables of the promise do not change unless the mutations in the journal
\* do.
LEMMA StutterStep ==
  ASSUME Instances(journal)' = Instances(journal), UNCHANGED <<rolled, named>>
  PROVE  UNCHANGED Promise!promiseVars
  BY DEF Promise!promiseVars, Waiting, Withdrawn

\* The journal loses mutations that were rolled forward or put under a name.
LEMMA WithdrawStep ==
  ASSUME JournalInv, Instances(journal)' \subseteq Instances(journal),
         UNCHANGED <<rolled, named>>,
         Instances(journal) \ Instances(journal)' \subseteq rolled \cup named
  PROVE  Promise!PromiseNext
<1> DEFINE S == (Instances(journal) \ Instances(journal)') \ rolled
<1>1. S \in SUBSET (Waiting \cap named)
  BY DEF Waiting
<1>2. Waiting' = Waiting \ S
  BY DEF Waiting
<1>3. Withdrawn' = Withdrawn \cup S
  BY DEF Withdrawn
<1>4. Promise!Withdraw(S)
  BY <1>2, <1>3 DEF Promise!Withdraw
<1> QED
  BY <1>1, <1>4 DEF Promise!PromiseNext

\* A new mutation is journalled; a new one under a name may replace another.
LEMMA BirthStep ==
  ASSUME JournalInv, NEW m \in Mutations, m > nextInst, rolled' = rolled,
         Instances(journal)' \subseteq Instances(journal) \cup {m},
         m \in Instances(journal)',
         \/ named' = named /\ Instances(journal) \subseteq Instances(journal)'
         \/ /\ named' = named \cup {m}
            /\ Instances(journal) \ Instances(journal)' \subseteq named
  PROVE  Promise!PromiseNext
<1>1. /\ \A i \in Instances(journal) \cup rolled \cup named : i # m
      /\ m \in Nat
  <2>1. \A e \in journal : e.inst # m
    BY KnownNumbers, Members DEF JournalInv
  <2>2. m \in Nat /\ \A i \in rolled \cup named : i # m
    BY KnownNumbers, TumbleAssumption DEF Mutations
  <2> QED
    BY <2>1, <2>2 DEF Instances
<1>2. m \in Promise!Unborn
  BY <1>1 DEF Promise!Unborn, Waiting, Withdrawn
<1>3. CASE named' = named /\ Instances(journal) \subseteq Instances(journal)'
  <2>1. Waiting' = Waiting \cup {m}
    BY <1>1, <1>3 DEF Waiting
  <2>2. Withdrawn' = Withdrawn
    BY <1>1, <1>3 DEF Withdrawn
  <2>3. Promise!Journal(m)
    BY <1>2, <1>3, <2>1, <2>2 DEF Promise!Journal
  <2> QED
    BY <2>3 DEF Promise!PromiseNext
<1>4. CASE /\ named' = named \cup {m}
           /\ Instances(journal) \ Instances(journal)' \subseteq named
  <2> DEFINE S == (Instances(journal) \ Instances(journal)') \ rolled
  <2>1. S \in SUBSET (Waiting \cap named)
    BY <1>4 DEF Waiting
  <2>2. Waiting' = (Waiting \ S) \cup {m}
    BY <1>1, <1>4 DEF Waiting
  <2>3. Withdrawn' = Withdrawn \cup S
    BY <1>1, <1>4 DEF Withdrawn
  <2>4. Promise!JournalNamed(m, S)
    BY <1>2, <1>4, <2>2, <2>3 DEF Promise!JournalNamed
  <2> QED
    BY <2>1, <2>4 DEF Promise!PromiseNext
<1> QED
  BY <1>3, <1>4

\* A transaction commits.
LEMMA CommitStep ==
  ASSUME JournalInv, NEW w \in Workers, NEW r \in Roots, Commit(w, r) \/ CommitUnknown(w, r)
  PROVE  Promise!PromiseNext
<1> DEFINE x == txn[w][r]
           S == Instances(x.ran)
           J == Instances(journal)
           P == Instances(x.put)
           N == P \ S
           W == ((Waiting \cap named) \ S) \ Instances(journal)'
<1>1. /\ x.st = "run" /\ journal' = Without(journal \cup x.put, x.del)
      /\ rolled' = rolled \cup S /\ named' = named
  BY DEF Commit, CommitUnknown, Committed
<1>2. TxnOK(w, r) /\ Fresh(w, r)
  BY DEF JournalInv, TxnsOK
<1>3. /\ \A e \in journal \cup x.put \cup x.ran : e \in Known /\ e \in Entries
      /\ \A e \in journal \cup x.put : e \in InPlay
  BY Members DEF JournalInv
<1>4. S \subseteq Mutations /\ J \subseteq Mutations /\ P \subseteq Mutations
  BY <1>3 DEF Instances, Mutations, Entries
<1>5. \A i \in P : i \notin J /\ i \notin rolled /\ i \notin named
  BY <1>1, <1>2 DEF Fresh, Instances
<1>6. ASSUME NEW e \in journal \cup x.put, Key(e) \in x.del
      PROVE  e.inst \in S \/ (e.inst \in named /\ e \in journal)
  <2>1. PICK d \in x.ran : Key(e) = Key(d)
    BY <1>2, <1>6 DEF TxnOK
  <2>2. e.id = d.id
    BY <2>1 DEF Key
  <2>3. CASE e.id = NamedID
    <3>1. e.id # e.inst
      BY <1>3, <2>3, InstNat
    <3> QED
      BY <1>2, <1>3, <3>1 DEF TxnOK, JournalInv, WellNumbered
  <2>4. CASE e.id # NamedID
    <3>1. e.id = e.inst /\ d.id = d.inst
      BY <1>3, <2>2, <2>4 DEF JournalInv, WellNumbered
    <3> QED
      BY <2>2, <3>1 DEF Instances
  <2> QED
    BY <2>3, <2>4
<1>7. Instances(journal)' \subseteq J \cup P
  BY <1>1 DEF Instances, Without
<1>8. \A i \in (J \cup P) \ Instances(journal)' : i \in S \/ (i \in named /\ i \in J)
  <2> SUFFICES ASSUME NEW e \in journal \cup x.put, e.inst \notin Instances(journal)'
               PROVE  e.inst \in S \/ (e.inst \in named /\ e.inst \in J)
    BY DEF Instances
  <2>1. Key(e) \in x.del
    BY <1>1 DEF Instances, Without
  <2> QED
    BY <1>6, <2>1 DEF Instances
<1> HIDE DEF S, J, P
<1>9. Waiting' = (Waiting \ (S \cup W)) \cup N
  BY <1>1, <1>5, <1>7, <1>8 DEF Waiting, J
<1>10. Withdrawn' = (Withdrawn \ S) \cup W
  BY <1>1, <1>5, <1>7, <1>8 DEF Withdrawn, Waiting, J
<1>11. N \subseteq Promise!Unborn \ S
  BY <1>4, <1>5 DEF Promise!Unborn, Waiting, Withdrawn, J
<1>12. S \subseteq Waiting \cup rolled \cup Withdrawn \cup Promise!Unborn
  BY <1>4 DEF Promise!Unborn
<1>13. Promise!RollForward(S, N, W)
  BY <1>1, <1>9, <1>10, <1>11, <1>12 DEF Promise!RollForward
<1>14. W \subseteq Mutations
  BY <1>4 DEF Waiting, J
<1> QED
  BY <1>4, <1>13, <1>14 DEF Promise!PromiseNext

\* Whatever is under a name was put there.
LEMMA NamedEntries ==
  ASSUME JournalInv, NEW e \in Known, e.id = NamedID
  PROVE  e.inst \in named
  BY InstNat, Members DEF JournalInv, WellNumbered

\* Requests keep the promise.
LEMMA RequestKeeps ==
  JournalInv /\ OpeningOK /\ Request => [Promise!PromiseNext]_(Promise!promiseVars)
<1> SUFFICES ASSUME JournalInv, OpeningOK, Request
             PROVE  [Promise!PromiseNext]_(Promise!promiseVars)
  OBVIOUS
<1>0. nextInst \in Nat /\ MaxInst \in Nat
  BY TumbleAssumption DEF JournalInv, JournalTypeOK
<1>1. ASSUME NEW s \in Starts, RunMutation(s[1], s[2]) PROVE Promise!PromiseNext
  <2> DEFINE m == nextInst + 1
             e == NewEntry(s[1], m, s[2])
  <2>1. /\ m \in 1..MaxInst /\ m > nextInst /\ journal' = journal \cup {e}
        /\ rolled' = rolled /\ named' = named
    BY <1>0, <1>1 DEF RunMutation, history
  <2>2. e.inst = m
    BY <2>1, NewEntryFacts, TumbleAssumption
  <2> HIDE DEF e
  <2>3. Instances(journal)' = Instances(journal) \cup {m}
    BY <2>1, <2>2 DEF Instances
  <2> QED
    BY <2>1, <2>3, BirthStep DEF Mutations
<1>4. ASSUME NEW s \in Names, PutNamedMutations(s[1], s[2])
      PROVE  UNCHANGED Promise!promiseVars
  BY <1>4, StutterStep DEF PutNamedMutations, stores, history, Instances
<1>5. ASSUME NEW o \in opening, AbortNamed(o) PROVE UNCHANGED Promise!promiseVars
  BY <1>5, StutterStep DEF AbortNamed, stores, history, Instances
<1>2. ASSUME NEW o \in opening, CommitNamed(o) PROVE Promise!PromiseNext
  <2> DEFINE m == nextInst + 1
             e == NamedEntry(o)
  <2>0. /\ nextInst' = nextInst + 1 /\ nextInst' \in 1..MaxInst
        /\ journal' = Without(journal, {Key(e)}) \cup {e}
        /\ rolled' = rolled /\ named' = named \cup {m}
    BY <1>2, NamedEntryFacts, Zenon
  <2>1. m \in 1..MaxInst /\ m > nextInst
    BY <1>0, <2>0
  <2>2. e.inst = m /\ e.id = NamedID
    BY <1>2, NamedEntryFacts
  <2> HIDE DEF e
  <2>3. Instances(journal)' \subseteq Instances(journal) \cup {m} /\ m \in Instances(journal)'
    BY <2>0, <2>2 DEF Instances, Without
  <2>4. Instances(journal) \ Instances(journal)' \subseteq named
    <3> SUFFICES ASSUME NEW d \in journal, d.inst \notin Instances(journal)'
                 PROVE  d.inst \in named
      BY DEF Instances
    <3>1. Key(d) = Key(e)
      BY <2>0 DEF Instances, Without
    <3>2. d.id = NamedID
      BY <2>2, <3>1 DEF Key
    <3> QED
      BY <3>2, NamedEntries, Members DEF JournalInv
  <2> QED
    BY <2>0, <2>1, <2>3, <2>4, BirthStep DEF Mutations
<1>3. ASSUME NEW s \in Names, CancelNamedMutations(s[1]) PROVE Promise!PromiseNext
  <2>1. /\ journal' = journal \ {e \in journal : Key(e) = <<s[1], NamedID>>}
        /\ rolled' = rolled /\ named' = named
    BY <1>3 DEF CancelNamedMutations, history
  <2>2. Instances(journal)' \subseteq Instances(journal)
    BY <2>1 DEF Instances
  <2>3. Instances(journal) \ Instances(journal)' \subseteq named
    <3> SUFFICES ASSUME NEW d \in journal, d.inst \notin Instances(journal)'
                 PROVE  d.inst \in named
      BY DEF Instances
    <3>1. d.id = NamedID
      BY <2>1 DEF Instances, Key
    <3> QED
      BY <3>1, NamedEntries, Members DEF JournalInv
  <2> QED
    BY <2>1, <2>2, <2>3, WithdrawStep
<1> QED
  BY <1>1, <1>2, <1>3, <1>4, <1>5 DEF Request

\* So does the deletion of what a committed transaction ran.
LEMMA DeleteKeeps ==
  ASSUME JournalInv, NEW w \in Workers, NEW r \in Roots, DeleteDone(w, r)
  PROVE  [Promise!PromiseNext]_(Promise!promiseVars)
<1> DEFINE x == txn[w][r]
<1>1. x.st = "delete" /\ rolled' = rolled /\ named' = named
  BY DEF DeleteDone, history
<1>2. CASE journal' = journal
  BY <1>1, <1>2, StutterStep DEF Instances
<1>3. CASE journal' = Without(journal, x.toDel)
  <2>1. Instances(journal)' \subseteq Instances(journal)
    BY <1>3 DEF Instances, Without
  <2>2. Instances(journal) \ Instances(journal)' \subseteq rolled \cup named
    <3> SUFFICES ASSUME NEW d \in journal, d.inst \notin Instances(journal)'
                 PROVE  d.inst \in rolled \cup named
      BY DEF Instances
    <3>1. Key(d) \in x.toDel
      BY <1>3 DEF Instances, Without
    <3>2. TxnOK(w, r)
      BY DEF JournalInv, TxnsOK
    <3>3. PICK e \in x.ran : Key(d) = Key(e)
      BY <3>1, <3>2 DEF TxnOK
    <3>4. e.inst \in rolled /\ d.id = e.id /\ e \in Known /\ d \in Known
      BY <1>1, <3>2, <3>3, Members DEF TxnOK, Key, JournalInv
    <3>5. CASE d.id = NamedID
      BY <3>4, <3>5, NamedEntries
    <3>6. CASE d.id # NamedID
      BY <3>4, <3>6 DEF JournalInv, WellNumbered
    <3> QED
      BY <3>5, <3>6
  <2> QED
    BY <1>1, <2>1, <2>2, WithdrawStep
<1> QED
  BY <1>2, <1>3 DEF DeleteDone

\* Every step of tumble is a step of the promise or leaves it alone.
LEMMA StepKeepsJournalPromise ==
  JournalInv /\ OpeningOK /\ [TumbleNext]_tumbleVars
    => [Promise!PromiseNext]_(Promise!promiseVars)
<1> SUFFICES ASSUME JournalInv, OpeningOK, [TumbleNext]_tumbleVars
             PROVE  [Promise!PromiseNext]_(Promise!promiseVars)
  OBVIOUS
<1>1. CASE UNCHANGED <<journal, rolled, named>>
  BY <1>1, StutterStep DEF Instances
<1>2. CASE Request
  BY <1>2, RequestKeeps
<1>3. CASE Tick
  <2>1. journal' = {Older(e) : e \in journal} /\ UNCHANGED <<rolled, named>>
    BY <1>3, TickFacts
  <2>2. \A e \in journal : Older(e).inst = e.inst
    BY OlderFacts DEF JournalInv, JournalTypeOK
  <2>3. Instances(journal)' = Instances(journal)
    BY <2>1, <2>2 DEF Instances
  <2> QED
    BY <2>1, <2>3, StutterStep
<1>4. ASSUME NEW w \in Workers, NEW r \in Roots, Root(w, r)
      PROVE  [Promise!PromiseNext]_(Promise!promiseVars)
  <2>1. CASE Commit(w, r) \/ CommitUnknown(w, r)
    BY <2>1, CommitStep
  <2>2. CASE DeleteDone(w, r)
    BY <2>2, DeleteKeeps
  <2>3. CASE \/ LoadBatch(w, r) \/ Conflict(w, r) \/ FireRoot(w, r)
             \/ \E e \in txn[w][r].torun : RollOne(w, r, e) \/ RollFails(w, r, e)
    BY <1>1, <2>3 DEF LoadBatch, Conflict, FireRoot, RollOne, RollFails, stores, history
  <2> QED
    BY <1>4, <2>1, <2>2, <2>3 DEF Root
<1>5. ASSUME NEW w \in Workers,
             \/ \E t \in tasks : processShard(w, t)
             \/ CheckLast(w) \/ StartRound(w) \/ EndRound(w) \/ Wake(w)
             \/ LoseLock(w) \/ Crash(w)
      PROVE  UNCHANGED <<journal, rolled, named>>
  BY <1>5 DEF processShard, CheckLast, StartRound, EndRound, Wake, LoseLock, Crash,
     stores, history
<1>6. CASE FireAllTasks \/ Settle \/ \E after \in firing : FireTask(after)
  BY <1>1, <1>6 DEF FireAllTasks, Settle, FireTask, stores, history
<1>7. CASE UNCHANGED tumbleVars
  BY <1>1, <1>7 DEF tumbleVars, stores, history
<1> QED
  BY <1>1, <1>2, <1>3, <1>4, <1>5, <1>6, <1>7 DEF TumbleNext, Worker

\* Tumble implements TumblePromise: a journalled mutation waits until a committed
\* transaction rolls it forward together with what it produced; conflicts,
\* crashes, lost locks, dated queries and the two ways to delete lose none.
THEOREM JournalPromiseKept == TumbleSpec => JournalPromise
<1>1. TumbleInit => Promise!PromiseInit
  BY DEF TumbleInit, Promise!PromiseInit, Waiting, Withdrawn, Instances
<1>2. JournalInv /\ OpeningOK /\ [TumbleNext]_tumbleVars
        => [Promise!PromiseNext]_(Promise!promiseVars)
  BY StepKeepsJournalPromise
<1> QED
  BY <1>1, <1>2, JournalInvariance, OpeningInvariance, PTL DEF TumbleSpec, JournalPromise, Promise!PromiseSpec

-----------------------------------------------------------------------------
(* While all is calm, a mutation is rolled forward once.                   *)

\* Nobody's place in the loop, lock or list of transactions changes, except for
\* the transactions of a worker in the middle of a round.
LEMMA SamePlaces ==
  ASSUME WorkersOK, slips \subseteq slips', UNCHANGED lock,
         DOMAIN proc' = Workers,
         \A v \in Workers : DOMAIN proc'[v] = DOMAIN IdleProc /\ proc'[v].pc = proc[v].pc,
         \A v \in Workers : proc[v].pc # "work" =>
           \A q \in Roots : txn'[v][q].st = txn[v][q].st
  PROVE  WorkersOK'
<1>1. Calm' => Calm
  BY DEF Calm
<1>2. \A w \in Workers : proc'[w].pc # "work" => \A r \in Roots : txn'[w][r].st = "none"
  BY DEF WorkersOK
<1>3. Calm' => /\ lapsed' = {}
               /\ \A v, w \in inside' : v = w
               /\ \A w \in Workers : proc'[w].pc # "idle" => w \in inside'
  BY <1>1 DEF WorkersOK, lock
<1>4. inside' \subseteq Workers
  BY DEF WorkersOK, lock
<1> QED
  BY <1>2, <1>3, <1>4 DEF WorkersOK, IdleProc

\* A worker becomes idle and gives up the lock, if it still has it.
LEMMA GivesUp ==
  ASSUME WorkersOK, NEW w \in Workers, slips \subseteq slips', Unlock(w),
         proc' = [proc EXCEPT ![w] = IdleProc],
         \A q \in Roots : txn'[w][q].st = "none",
         \A v \in Workers : v # w => txn'[v] = txn[v]
  PROVE  WorkersOK'
<1>1. Calm' => Calm
  BY DEF Calm
<1>2. inside' = inside \ {w} /\ lapsed' \subseteq lapsed
  BY DEF Unlock, Lock!Leave, lock
<1>3. /\ DOMAIN proc' = Workers /\ proc'[w] = IdleProc
      /\ \A v \in Workers : v # w => proc'[v] = proc[v]
  BY DEF WorkersOK
<1>4. \A v \in Workers : DOMAIN proc'[v] = DOMAIN IdleProc
  BY <1>3 DEF WorkersOK
<1>5. proc'[w].pc = "idle"
  BY <1>3 DEF IdleProc
<1>6. \A v \in Workers : proc'[v].pc # "work" => \A r \in Roots : txn'[v][r].st = "none"
  BY <1>3 DEF WorkersOK
<1>7. Calm' => /\ lapsed' = {}
               /\ \A u, v \in inside' : u = v
               /\ \A v \in Workers : proc'[v].pc # "idle" => v \in inside'
  BY <1>1, <1>2, <1>3, <1>5 DEF WorkersOK
<1> QED
  BY <1>2, <1>3, <1>4, <1>6, <1>7 DEF WorkersOK, IdleProc

\* A worker moves on in its loop; it is neither idle before nor after.
LEMMA MovesOn ==
  ASSUME WorkersOK, NEW w \in Workers, slips \subseteq slips', UNCHANGED lock,
         DOMAIN proc' = Workers, DOMAIN proc'[w] = DOMAIN IdleProc,
         proc[w].pc # "idle" \/ w \in inside,
         proc'[w].pc = "work" \/ \A q \in Roots : txn'[w][q].st = "none",
         \A v \in Workers : v # w => txn'[v] = txn[v] /\ proc'[v] = proc[v]
  PROVE  WorkersOK'
<1>1. Calm' => Calm
  BY DEF Calm
<1>2. \A v \in Workers : DOMAIN proc'[v] = DOMAIN IdleProc
  BY DEF WorkersOK
<1>3. \A v \in Workers : proc'[v].pc # "work" => \A r \in Roots : txn'[v][r].st = "none"
  BY DEF WorkersOK
<1>4. Calm' => /\ lapsed' = {}
               /\ \A u, v \in inside' : u = v
               /\ \A v \in Workers : proc'[v].pc # "idle" => v \in inside'
  BY <1>1 DEF WorkersOK, lock
<1>5. inside' \subseteq Workers
  BY DEF WorkersOK, lock
<1> QED
  BY <1>2, <1>3, <1>4, <1>5 DEF WorkersOK, IdleProc

\* A worker's place in its loop goes with its lock and transactions.
LEMMA LoopWorkers ==
  ASSUME JournalInv, WorkersOK, NEW w \in Workers,
         \/ \E t \in tasks : processShard(w, t)
         \/ CheckLast(w) \/ StartRound(w) \/ EndRound(w) \/ Wake(w)
         \/ LoseLock(w) \/ Crash(w)
  PROVE  WorkersOK'
<1>0. /\ DOMAIN proc = Workers /\ \A v \in Workers : DOMAIN proc[v] = DOMAIN IdleProc
      /\ txn \in [Workers -> [Roots -> TxnRecords]]
      /\ proc[w].pc # "work" => \A q \in Roots : txn[w][q].st = "none"
  BY DEF WorkersOK, JournalInv, JournalTypeOK
<1>1. ASSUME NEW t \in tasks, processShard(w, t) PROVE WorkersOK'
  <2>1. UNCHANGED txn /\ proc[w].pc = "idle"
    BY <1>1 DEF processShard
  <2>2. CASE UNCHANGED <<proc, lock>> /\ LockFails
    BY <1>0, <2>1, <2>2, SamePlaces DEF LockFails, Happens
  <2>3. CASE Lock!Enter(w) /\ slips' = slips /\ proc' = [proc EXCEPT ![w] = [IdleProc EXCEPT !.pc = "check",
               !.task = t, !.end = IF LoopDuration > 0 THEN LoopDuration ELSE None,
               !.delay = DustSettle]]
    <3>1. /\ DOMAIN proc' = Workers /\ DOMAIN proc'[w] = DOMAIN IdleProc
          /\ proc'[w].pc = "check" /\ \A v \in Workers : v # w => proc'[v] = proc[v]
      BY <1>0, <2>3 DEF IdleProc
    <3>2. inside \subseteq lapsed /\ inside' = inside \cup {w} /\ lapsed' = lapsed
      BY <2>3 DEF Lock!Enter
    <3>3. Calm' = Calm
      BY <2>3 DEF Calm
    <3>4. Calm' => /\ lapsed' = {}
                   /\ \A u, v \in inside' : u = v
                   /\ \A v \in Workers : proc'[v].pc # "idle" => v \in inside'
      BY <3>1, <3>2, <3>3 DEF WorkersOK
    <3>5. \A v \in Workers : proc'[v].pc # "work" => \A r \in Roots : txn'[v][r].st = "none"
      BY <1>0, <2>1, <3>1 DEF WorkersOK
    <3> QED
      BY <1>0, <3>1, <3>2, <3>4, <3>5 DEF WorkersOK, IdleProc
  <2> QED
    BY <1>1, <2>2, <2>3 DEF processShard
<1>2. ASSUME Finish(w), UNCHANGED <<txn, slips>>, proc[w].pc # "work" PROVE WorkersOK'
  BY <1>0, <1>2, GivesUp DEF Finish
<1>3. CASE CheckLast(w)
  <2>1. UNCHANGED <<txn, slips>> /\ proc[w].pc = "check"
    BY <1>3 DEF CheckLast
  <2>2. CASE proc' = [proc EXCEPT ![w].pc = "round"] /\ UNCHANGED lock
    BY <1>0, <2>1, <2>2, MovesOn
  <2> QED
    BY <1>2, <1>3, <2>1, <2>2 DEF CheckLast
<1>4. CASE StartRound(w)
  <2>1. /\ proc' = [proc EXCEPT ![w].pc = "work", ![w].worked = FALSE, ![w].failed = FALSE]
        /\ UNCHANGED <<lock, slips>> /\ proc[w].pc = "round"
        /\ \A v \in Workers : v # w => txn'[v] = txn[v]
    BY <1>0, <1>4 DEF StartRound
  <2>2. DOMAIN proc' = Workers /\ DOMAIN proc'[w] = DOMAIN IdleProc
        /\ proc'[w].pc = "work" /\ \A v \in Workers : v # w => proc'[v] = proc[v]
    BY <1>0, <2>1 DEF IdleProc
  <2> QED
    BY <2>1, <2>2, MovesOn
<1>5. CASE EndRound(w)
  <2>1. UNCHANGED <<txn, slips>> /\ proc[w].pc = "work" /\ \A r \in Roots : txn[w][r].st = "none"
    BY <1>5 DEF EndRound
  <2>2. CASE proc' = [proc EXCEPT ![w] = IdleProc] /\ Unlock(w)
    BY <2>1, <2>2, GivesUp
  <2>3. CASE UNCHANGED lock /\ \E now, next :
               proc' = [proc EXCEPT ![w].pc = "sleep", ![w].wake = now, ![w].delay = next]
    <3>1. PICK now, next :
            proc' = [proc EXCEPT ![w].pc = "sleep", ![w].wake = now, ![w].delay = next]
      BY <2>3
    <3>2. DOMAIN proc' = Workers /\ DOMAIN proc'[w] = DOMAIN IdleProc
          /\ \A v \in Workers : v # w => proc'[v] = proc[v]
      BY <1>0, <3>1
    <3> QED
      BY <2>1, <2>3, <3>2, MovesOn
  <2> QED
    BY <1>5, <2>2, <2>3 DEF EndRound
<1>6. CASE Wake(w)
  <2>1. UNCHANGED <<txn, slips>> /\ proc[w].pc = "sleep"
    BY <1>6 DEF Wake
  <2>2. CASE proc' = [proc EXCEPT ![w].pc = "round"] /\ UNCHANGED lock
    BY <1>0, <2>1, <2>2, MovesOn
  <2> QED
    BY <1>2, <1>6, <2>1, <2>2 DEF Wake
<1>7. CASE LoseLock(w)
  <2>1. slips' = slips \cup {"lock"} /\ UNCHANGED <<proc, txn>>
    BY <1>7 DEF LoseLock, Happens
  <2>2. ~Calm'
    BY <2>1 DEF Calm
  <2>3. inside' \subseteq Workers
    BY <1>7 DEF LoseLock, Lock!Lapse, Lock!Leave, WorkersOK
  <2> QED
    BY <2>1, <2>2, <2>3 DEF WorkersOK
<1>8. CASE Crash(w)
  <2>1. /\ proc' = [proc EXCEPT ![w] = IdleProc] /\ Unlock(w) /\ slips \subseteq slips'
        /\ txn' = [txn EXCEPT ![w] = [r \in Roots |-> NoTxn]]
    BY <1>8 DEF Crash, Happens
  <2>2. /\ \A q \in Roots : txn'[w][q].st = "none"
        /\ \A v \in Workers : v # w => txn'[v] = txn[v]
    BY <1>0, <2>1, NoTxnFacts
  <2> QED
    BY <2>1, <2>2, GivesUp
<1> QED
  BY <1>1, <1>3, <1>4, <1>5, <1>6, <1>7, <1>8

RunsInv == WorkersOK /\ TargetsOK /\ OnceInv

\* Nothing is rolled forward: what was is still about to be deleted.
LEMMA OnceFrame ==
  ASSUME OnceInv, slips \subseteq slips', UNCHANGED <<rolled, twice>>,
         Calm' => \A e \in journal' : e.inst \in rolled =>
           /\ Target[e.kind] \in Roots
           /\ \E d \in journal : d.inst = e.inst /\ Key(d) = Key(e) /\ d.kind = e.kind,
         Calm' => \A v \in Workers, q \in Roots : txn'[v][q].st = "run" =>
           \A e \in txn'[v][q].batch : e.inst \notin rolled,
         Calm' => \A v \in Workers, q \in Roots :
           txn[v][q].st \in {"fire", "delete"} => \A k \in txn[v][q].toDel :
             \/ txn'[v][q].st \in {"fire", "delete"} /\ k \in txn'[v][q].toDel
             \/ \A e \in journal' : Key(e) # k
  PROVE  OnceInv'
<1> SUFFICES ASSUME Calm'
    PROVE
      /\ twice' = {}
      /\ \A e \in journal' : e.inst \in rolled' =>
           \E w \in Workers : /\ txn'[w][Target[e.kind]].st \in {"fire", "delete"}
                              /\ Key(e) \in txn'[w][Target[e.kind]].toDel
      /\ \A w \in Workers, r \in Roots : txn'[w][r].st = "run" =>
           \A e \in txn'[w][r].batch : e.inst \notin rolled'
  BY DEF OnceInv, Key
<1>1. Calm
  BY DEF Calm
<1>2. ASSUME NEW e \in journal', e.inst \in rolled
      PROVE  \E w \in Workers : /\ txn'[w][Target[e.kind]].st \in {"fire", "delete"}
                                /\ Key(e) \in txn'[w][Target[e.kind]].toDel
  <2>1. PICK d \in journal : d.inst = e.inst /\ Key(d) = Key(e) /\ d.kind = e.kind
    BY <1>2
  <2>2. PICK w \in Workers : /\ txn[w][Target[e.kind]].st \in {"fire", "delete"}
                             /\ Key(e) \in txn[w][Target[e.kind]].toDel
    BY <1>1, <1>2, <2>1 DEF OnceInv
  <2> QED
    BY <1>2, <2>2
<1> QED
  BY <1>1, <1>2 DEF OnceInv

\* The kinds of what is in the journal have targets.
LEMMA JournalTargets == JournalInv => \A e \in journal : Target[e.kind] \in Roots
  BY TumbleAssumption DEF JournalInv, JournalTypeOK, Entries

\* Neither transactions nor the mutations of a worker's round are touched.
LEMMA OnceOutside ==
  ASSUME JournalInv, RunsInv, slips \subseteq slips', UNCHANGED <<rolled, twice, txn>>,
         \A e \in journal' : e \in journal \/ e.inst > nextInst
  PROVE  TargetsOK' /\ OnceInv'
<1>1. TargetsOK'
  BY DEF RunsInv, TargetsOK
<1>2. \A e \in journal' : e.inst \in rolled => e \in journal
  BY KnownNumbers
<1>3. OnceInv
  BY DEF RunsInv
<1>4. Calm' => Calm
  BY DEF Calm
<1>5. OnceInv'
  BY <1>2, <1>3, <1>4, OnceFrame, JournalTargets DEF OnceInv
<1> QED
  BY <1>1, <1>5

\* A worker begins a round, or dies.
LEMMA OnceRound ==
  ASSUME JournalInv, RunsInv, NEW w \in Workers, StartRound(w) \/ Crash(w)
  PROVE  TargetsOK' /\ OnceInv'
<1>0. UNCHANGED <<journal, rolled, twice>> /\ slips \subseteq slips'
  BY DEF StartRound, Crash, Happens, stores, history
<1>1. /\ \A r \in Roots : /\ txn'[w][r].batch = {} /\ txn'[w][r].torun = {}
                          /\ txn'[w][r].ran = {}
      /\ \A v \in Workers : v # w => txn'[v] = txn[v]
  <2>0. txn \in [Workers -> [Roots -> TxnRecords]]
    BY DEF JournalInv, JournalTypeOK
  <2>1. CASE StartRound(w)
    <3>1. txn' = [txn EXCEPT ![w] = [r \in Roots |->
                   IF r \in ShardRoots THEN [NoTxn EXCEPT !.st = "queued"] ELSE NoTxn]]
      BY <2>1 DEF StartRound
    <3> QED
      BY <2>0, <3>1 DEF NoTxn
  <2>2. CASE Crash(w)
    <3>1. txn' = [txn EXCEPT ![w] = [r \in Roots |-> NoTxn]]
      BY <2>2 DEF Crash
    <3> QED
      BY <2>0, <3>1, NoTxnFacts
  <2> QED
    BY <2>1, <2>2
<1>2. TargetsOK'
  BY <1>1 DEF RunsInv, TargetsOK
<1>3. Calm' => \A r \in Roots : txn[w][r].st = "none"
  BY DEF StartRound, Crash, Happens, Calm, RunsInv, WorkersOK
<1>4. Calm' => Calm
  BY <1>0 DEF Calm
<1>5. OnceInv
  BY DEF RunsInv
<1>6. Calm' => \A v \in Workers, q \in Roots : txn'[v][q].st = "run" =>
        \A e \in txn'[v][q].batch : e.inst \notin rolled
  BY <1>1, <1>4, <1>5 DEF OnceInv
<1>7. Calm' => \A v \in Workers, q \in Roots :
        txn[v][q].st \in {"fire", "delete"} => txn'[v][q] = txn[v][q]
  BY <1>1, <1>3
<1>8. OnceInv'
  BY <1>0, <1>5, <1>6, <1>7, OnceFrame, JournalTargets
<1> QED
  BY <1>2, <1>8

\* A batch is loaded.  No other worker is in a round, so what was rolled forward
\* already and not yet deleted is not in the batch.
LEMMA OnceLoad ==
  ASSUME OneTargetPerName, JournalInv, RunsInv, NEW w \in Workers, NEW r \in Roots,
         LoadBatch(w, r)
  PROVE  TargetsOK' /\ OnceInv'
<1> DEFINE keys == {Key(e) : e \in getBatchByRoot(w, r)}
           loaded == {e \in journal : Key(e) \in keys}
           x == IF loaded = {} \/ w \notin inside THEN NoTxn
                ELSE [NoTxn EXCEPT !.st = "run", !.batch = loaded, !.torun = loaded]
<1>1. /\ SetTxn(w, r, x) /\ UNCHANGED <<journal, rolled, twice, slips>>
      /\ txn[w][r].st = "queued"
  BY DEF LoadBatch, stores, history
<1>2. loaded \subseteq journal /\ journal \subseteq Entries /\ journal \subseteq Known
  BY Members DEF JournalInv, JournalTypeOK
<1>3. /\ x \in TxnRecords /\ x.batch \subseteq loaded /\ x.torun = x.batch /\ x.ran = {}
  BY <1>2 DEF NoTxn, TxnRecords
<1>4. \A e \in loaded : Target[e.kind] = r
  <2> SUFFICES ASSUME NEW e \in loaded PROVE Target[e.kind] = r
    OBVIOUS
  <2>1. PICK d \in getBatchByRoot(w, r) : Key(e) = Key(d)
    OBVIOUS
  <2>2. d \in index /\ Target[d.kind] = r
    BY DEF getBatchByRoot, FirstOf
  <2>3. e \in Known /\ d \in Known /\ e \in Entries /\ d \in Entries
    BY <1>2, <2>2, Members DEF JournalInv
  <2>4. e.id = d.id /\ e.home = d.home
    BY <2>1 DEF Key
  <2>5. CASE e.id = NamedID
    <3>1. <<e.home, e.kind>> \in Names /\ <<d.home, d.kind>> \in Names
      BY <2>3, <2>4, <2>5, InstNat DEF JournalInv, WellNumbered
    <3> QED
      BY <2>2, <2>4, <3>1 DEF OneTargetPerName
  <2>6. CASE e.id # NamedID
    <3>1. e.inst = d.inst
      BY <2>3, <2>4, <2>6 DEF JournalInv, WellNumbered
    <3> QED
      BY <2>2, <2>3, <3>1 DEF JournalInv, OneMutation, SameMutation
  <2> QED
    BY <2>5, <2>6
<1>5. Calm => \A e \in loaded : e.inst \notin rolled
  <2> SUFFICES ASSUME Calm, NEW e \in loaded, e.inst \in rolled PROVE FALSE
    OBVIOUS
  <2>1. PICK v \in Workers : txn[v][r].st \in {"fire", "delete"}
    BY <1>4 DEF RunsInv, OnceInv
  <2>2. v # w
    BY <1>1, <2>1
  <2>3. proc[v].pc = "work" /\ proc[w].pc = "work"
    BY <1>1, <2>1 DEF RunsInv, WorkersOK
  <2> QED
    BY <2>2, <2>3 DEF RunsInv, WorkersOK
<1> HIDE DEF x, loaded
<1>6. /\ txn'[w][r] = x
      /\ \A v \in Workers, q \in Roots : v # w \/ q # r => txn'[v][q] = txn[v][q]
  BY <1>1, <1>3, SetTxnFacts DEF JournalInv
<1>7. TargetsOK'
  BY <1>3, <1>4, <1>6 DEF RunsInv, TargetsOK
<1>8. Calm' = Calm /\ OnceInv
  BY <1>1 DEF Calm, RunsInv
<1>9. Calm' => \A v \in Workers, q \in Roots : txn'[v][q].st = "run" =>
        \A e \in txn'[v][q].batch : e.inst \notin rolled
  BY <1>3, <1>5, <1>6, <1>8 DEF OnceInv
<1>10. \A v \in Workers, q \in Roots :
         txn[v][q].st \in {"fire", "delete"} => txn'[v][q] = txn[v][q]
  BY <1>1, <1>6
<1>11. OnceInv'
  BY <1>1, <1>8, <1>9, <1>10, OnceFrame, JournalTargets
<1> QED
  BY <1>7, <1>11

\* What a transaction runs or skips, a retry of it, the tasks it fires and what
\* it deletes in the end.
LEMMA OnceRoot ==
  ASSUME JournalInv, RunsInv, NEW w \in Workers, NEW r \in Roots,
         \/ \E e \in txn[w][r].torun : RollOne(w, r, e) \/ RollFails(w, r, e)
         \/ Conflict(w, r) \/ FireRoot(w, r) \/ DeleteDone(w, r)
  PROVE  TargetsOK' /\ OnceInv'
<1> DEFINE x == txn[w][r]
<1>0. x \in TxnRecords /\ OnceInv /\ TargetsOK
  BY Members DEF JournalInv, RunsInv
<1>1. /\ UNCHANGED <<rolled, twice>> /\ slips \subseteq slips' /\ journal' \subseteq journal
  BY DEF RollOne, RollFails, Conflict, FireRoot, DeleteDone, Happens, stores, history,
     Without
<1>2. Calm' => Calm
  BY <1>1 DEF Calm
<1>3. \A v \in Workers, q \in Roots : v # w \/ q # r => txn'[v][q] = txn[v][q]
  <2>1. \E y : SetTxn(w, r, y)
    BY Zenon DEF RollOne, RollFails, Conflict, FireRoot, DeleteDone, RootFails
  <2> QED
    BY <2>1 DEF SetTxn, JournalInv, JournalTypeOK
<1>4. /\ txn'[w][r].batch \subseteq x.batch
      /\ \A e \in txn'[w][r].torun : Target[e.kind] = r
      /\ \A e \in txn'[w][r].ran : Target[e.kind] = r
      /\ x.st \notin {"fire", "delete"} => x.st = "run"
      /\ Calm' => \A k \in x.toDel : x.st \in {"fire", "delete"} =>
             \/ txn'[w][r].st \in {"fire", "delete"} /\ k \in txn'[w][r].toDel
             \/ \A e \in journal' : Key(e) # k
  <2>0. /\ \A e \in x.batch : Target[e.kind] = r
        /\ \A e \in x.torun : Target[e.kind] = r
        /\ \A e \in x.ran : Target[e.kind] = r
    BY <1>0 DEF TargetsOK
  <2>1. ASSUME NEW e \in x.torun, RollFails(w, r, e)
        PROVE  txn'[w][r] = [x EXCEPT !.torun = @ \ {e}] /\ x.st = "run"
    BY <2>1 DEF RollFails, SetTxn, JournalInv, JournalTypeOK
  <2>2. ASSUME NEW e \in x.torun, RollFails(w, r, e)
        PROVE  txn'[w][r].batch = x.batch /\ txn'[w][r].torun \subseteq x.torun
               /\ txn'[w][r].ran = x.ran /\ x.st = "run"
    BY <1>0, <2>1, <2>2 DEF TxnRecords
  <2>3. CASE \E e \in x.torun : RollFails(w, r, e)
    BY <2>0, <2>2, <2>3
  <2>4. ASSUME NEW e \in x.torun, RollOne(w, r, e)
        PROVE  /\ txn'[w][r].batch = x.batch /\ x.st = "run"
               /\ txn'[w][r].ran = x.ran \cup {e}
               /\ \A d \in txn'[w][r].torun : d \in x.torun \/ Target[d.kind] = r
    <3>1. PICK y \in TxnRecords :
            /\ SetTxn(w, r, y) /\ x.st = "run" /\ y.batch = x.batch
            /\ y.torun = (x.torun \ {e}) \cup {n \in Returned(r, e) : RunsNow(n, r)}
            /\ y.ran = x.ran \cup {e}
      BY <2>4, ReturnedFacts, RollOneRecord DEF FreshEntries
    <3>2. txn'[w][r] = y
      BY <3>1 DEF SetTxn, JournalInv, JournalTypeOK
    <3> QED
      BY <3>1, <3>2 DEF RunsNow
  <2>5. CASE \E e \in x.torun : RollOne(w, r, e)
    BY <2>0, <2>4, <2>5
  <2>6. CASE Conflict(w, r)
    <3>1. /\ x.st = "run"
          /\ \/ txn'[w][r] = NoTxn
             \/ txn'[w][r] = [NoTxn EXCEPT !.st = "run", !.batch = x.batch,
                                           !.torun = x.batch, !.fire = x.fire]
      BY <2>6 DEF Conflict, RootFails, SetTxn, JournalInv, JournalTypeOK
    <3>2. /\ txn'[w][r].batch \subseteq x.batch /\ txn'[w][r].torun \subseteq x.batch
          /\ txn'[w][r].ran = {}
      <4>1. CASE txn'[w][r] = NoTxn
        BY <4>1, NoTxnFacts
      <4>2. CASE txn'[w][r] = [NoTxn EXCEPT !.st = "run", !.batch = x.batch,
                                            !.torun = x.batch, !.fire = x.fire]
        BY <4>2 DEF NoTxn
      <4> QED
        BY <3>1, <4>1, <4>2
    <3> QED
      BY <2>0, <3>1, <3>2
  <2>7. CASE FireRoot(w, r)
    <3>1. /\ x.st = "fire"
          /\ txn'[w][r] = IF x.toDel = {} THEN NoTxn ELSE [x EXCEPT !.st = "delete"]
      BY <2>7 DEF FireRoot, SetTxn, JournalInv, JournalTypeOK
    <3>2. CASE x.toDel = {}
      BY <3>1, <3>2, NoTxnFacts
    <3>3. CASE x.toDel # {}
      BY <1>0, <2>0, <3>1, <3>3 DEF TxnRecords
    <3> QED
      BY <3>2, <3>3
  <2>8. CASE DeleteDone(w, r)
    <3>1. x.st = "delete" /\ txn'[w][r] = NoTxn
      BY <2>8 DEF DeleteDone, SetTxn, JournalInv, JournalTypeOK
    <3>2. Calm' => journal' = Without(journal, x.toDel)
      BY <2>8 DEF DeleteDone, Happens, Calm
    <3>3. Calm' => \A e \in journal' : Key(e) \notin x.toDel
      BY <3>2 DEF Without
    <3> QED
      BY <3>1, <3>3, NoTxnFacts
  <2> QED
    BY <2>3, <2>5, <2>6, <2>7, <2>8
<1>5. TargetsOK'
  BY <1>0, <1>3, <1>4 DEF TargetsOK
<1>6. Calm' => \A v \in Workers, q \in Roots : txn'[v][q].st = "run" =>
        \A e \in txn'[v][q].batch : e.inst \notin rolled
  <2>1. txn'[w][r].st = "run" => x.st = "run"
    <3>1. CASE FireRoot(w, r)
      <4>1. txn'[w][r] = IF x.toDel = {} THEN NoTxn ELSE [x EXCEPT !.st = "delete"]
        BY <3>1 DEF FireRoot, SetTxn, JournalInv, JournalTypeOK
      <4> QED
        BY <1>0, <4>1, NoTxnFacts DEF TxnRecords
    <3>2. CASE DeleteDone(w, r)
      <4>1. txn'[w][r] = NoTxn
        BY <3>2 DEF DeleteDone, SetTxn, JournalInv, JournalTypeOK
      <4> QED
        BY <4>1, NoTxnFacts
    <3> QED
      BY <3>1, <3>2 DEF RollOne, RollFails, Conflict
  <2> QED
    BY <1>0, <1>2, <1>3, <1>4, <2>1 DEF OnceInv
<1>7. OnceInv'
  BY <1>0, <1>1, <1>3, <1>4, <1>6, OnceFrame, JournalTargets
<1> QED
  BY <1>5, <1>7

\* A transaction commits: what it ran in its own group is deleted with it, the
\* rest is about to be.
LEMMA OnceCommit ==
  ASSUME JournalInv, RunsInv, NEW w \in Workers, NEW r \in Roots,
         Commit(w, r) \/ CommitUnknown(w, r)
  PROVE  TargetsOK' /\ OnceInv'
<1> DEFINE x == txn[w][r]
<1>0. x \in TxnRecords /\ OnceInv /\ TargetsOK /\ TxnOK(w, r) /\ Fresh(w, r)
  BY Members DEF JournalInv, RunsInv, TxnsOK
<1>1. /\ x.st = "run" /\ journal' = Without(journal \cup x.put, x.del)
      /\ rolled' = rolled \cup Instances(x.ran)
      /\ twice' = twice \cup (Instances(x.ran) \cap rolled)
      /\ slips \subseteq slips'
  BY DEF Commit, CommitUnknown, Committed, Happens
<1>2. \A v \in Workers, q \in Roots : v # w \/ q # r => txn'[v][q] = txn[v][q]
  BY DEF Commit, CommitUnknown, RootFails, SetTxn, JournalInv, JournalTypeOK
<1>3. txn'[w][r] = NoTxn \/ txn'[w][r] = [x EXCEPT !.st = "fire"]
  BY DEF Commit, CommitUnknown, RootFails, SetTxn, JournalInv, JournalTypeOK
<1>4. /\ txn'[w][r].batch \subseteq x.batch /\ txn'[w][r].torun \subseteq x.torun
      /\ txn'[w][r].ran \subseteq x.ran /\ txn'[w][r].st # "run"
  BY <1>0, <1>3, NoTxnFacts DEF TxnRecords
<1>5. TargetsOK'
  BY <1>0, <1>2, <1>4 DEF TargetsOK
<1>6. OnceInv'
  <2> SUFFICES ASSUME Calm' PROVE OnceInv'
    BY DEF OnceInv
  <2>1. Calm
    BY <1>1 DEF Calm
  <2>2. /\ txn'[w][r].st = "fire" /\ txn'[w][r].toDel = x.toDel
    <3>1. txn'[w][r] = [x EXCEPT !.st = "fire"]
      BY DEF Commit, CommitUnknown, Happens, Calm, SetTxn, JournalInv, JournalTypeOK
    <3> QED
      BY <1>0, <3>1 DEF TxnRecords
  <2>3. \A e \in x.ran : e.inst \notin rolled
    <3>1. \A e \in x.batch : e.inst \notin rolled
      BY <1>0, <1>1, <2>1 DEF OnceInv
    <3>2. \A e \in x.put : e.inst \notin rolled
      BY <1>0, <1>1 DEF Fresh
    <3> QED
      BY <1>0, <3>1, <3>2 DEF TxnOK, Instances
  <2>4. twice' = {}
    BY <1>0, <1>1, <2>1, <2>3 DEF OnceInv, Instances
  <2>5. ASSUME NEW e \in journal', e.inst \in rolled'
        PROVE  \E v \in Workers : /\ txn'[v][Target[e.kind]].st \in {"fire", "delete"}
                                  /\ Key(e) \in txn'[v][Target[e.kind]].toDel
    <3>1. e \in journal \cup x.put /\ Key(e) \notin x.del
      BY <1>1 DEF Without
    <3>2. CASE e.inst \in rolled
      <4>1. e \in journal
        BY <1>0, <1>1, <3>1, <3>2 DEF Fresh
      <4>2. PICK v \in Workers : /\ txn[v][Target[e.kind]].st \in {"fire", "delete"}
                                 /\ Key(e) \in txn[v][Target[e.kind]].toDel
        BY <1>0, <2>1, <3>2, <4>1 DEF OnceInv
      <4>3. Target[e.kind] \in Roots
        BY <4>1, JournalTargets
      <4> QED
        BY <1>1, <1>2, <4>2, <4>3
    <3>3. CASE e.inst \notin rolled
      <4>1. PICK d \in x.ran : d.inst = e.inst
        BY <1>1, <2>5, <3>3 DEF Instances
      <4>2. e \in Known /\ d \in Known
        BY <3>1, Members DEF JournalInv
      <4>3. e.home = d.home /\ e.id = d.id /\ e.kind = d.kind
        BY <4>1, <4>2 DEF JournalInv, OneMutation, SameMutation
      <4>4. Target[e.kind] = r
        BY <1>0, <4>3 DEF TargetsOK
      <4>5. Key(d) = Key(e)
        BY <4>3 DEF Key
      <4>6. Key(e) \in x.toDel
        BY <1>0, <3>1, <4>5 DEF TxnOK
      <4> QED
        BY <2>2, <4>4, <4>6
    <3> QED
      BY <3>2, <3>3
  <2>6. ASSUME NEW v \in Workers, NEW q \in Roots, txn'[v][q].st = "run",
               NEW e \in txn'[v][q].batch
        PROVE  e.inst \notin rolled'
    <3>1. (v # w \/ q # r) /\ txn'[v][q] = txn[v][q]
      BY <1>2, <1>4, <2>6
    <3>2. e.inst \notin rolled
      BY <1>0, <2>1, <2>6, <3>1 DEF OnceInv
    <3>3. ASSUME NEW d \in x.ran, d.inst = e.inst PROVE FALSE
      <4>1. e \in Known /\ d \in Known
        BY <3>1, Members DEF JournalInv
      <4>2. e.kind = d.kind
        BY <3>3, <4>1 DEF JournalInv, OneMutation, SameMutation
      <4>3. q = r
        BY <1>0, <3>1, <4>2 DEF TargetsOK
      <4>4. proc[v].pc = "work" /\ proc[w].pc = "work"
        BY <1>1, <2>6, <3>1 DEF RunsInv, WorkersOK
      <4> QED
        BY <2>1, <3>1, <4>3, <4>4 DEF RunsInv, WorkersOK
    <3> QED
      BY <1>1, <3>2, <3>3 DEF Instances
  <2> QED
    BY <2>4, <2>5, <2>6 DEF OnceInv, Key
<1> QED
  BY <1>5, <1>6

\* A transaction's steps leave the worker in the middle of its round.
LEMMA RootWorkers ==
  ASSUME JournalInv, WorkersOK, NEW w \in Workers, NEW r \in Roots, Root(w, r)
  PROVE  WorkersOK'
<1>0. /\ DOMAIN proc = Workers /\ \A v \in Workers : DOMAIN proc[v] = DOMAIN IdleProc
      /\ txn \in [Workers -> [Roots -> TxnRecords]]
  BY DEF WorkersOK, JournalInv, JournalTypeOK
<1>1. txn[w][r].st # "none"
  BY DEF Root, LoadBatch, Commit, Conflict, CommitUnknown, FireRoot, DeleteDone, RollOne,
     RollFails
<1>2. proc[w].pc = "work"
  BY <1>1 DEF WorkersOK
<1>3. UNCHANGED lock /\ slips \subseteq slips'
  BY DEF Root, LoadBatch, Commit, Conflict, CommitUnknown, FireRoot, DeleteDone, RollOne,
     RollFails, Happens
<1>4. \E y : SetTxn(w, r, y)
  BY Zenon DEF Root, LoadBatch, Commit, Conflict, CommitUnknown, FireRoot, DeleteDone, RollOne,
     RollFails, RootFails
<1>5. \A v \in Workers : v # w => txn'[v] = txn[v]
  BY <1>0, <1>4 DEF SetTxn
<1>6. \/ proc' = proc
      \/ proc' = [proc EXCEPT ![w].failed = TRUE]
      \/ proc' = [proc EXCEPT ![w].worked = TRUE, ![w].ban = @ \cup txn[w][r].toDel]
  BY Zenon DEF Root, LoadBatch, Commit, Conflict, CommitUnknown, FireRoot, DeleteDone, RollOne,
     RollFails, RootFails
<1>7. /\ DOMAIN proc' = Workers
      /\ \A v \in Workers : DOMAIN proc'[v] = DOMAIN IdleProc /\ proc'[v].pc = proc[v].pc
  BY <1>0, <1>6 DEF IdleProc
<1>8. \A v \in Workers : proc[v].pc # "work" => \A q \in Roots : txn'[v][q].st = txn[v][q].st
  BY <1>2, <1>5
<1> QED
  BY <1>3, <1>7, <1>8, SamePlaces

\* Time passes.
LEMMA TickRuns ==
  ASSUME JournalInv, RunsInv, Tick
  PROVE  RunsInv'
<1>0. /\ DOMAIN proc = Workers /\ \A v \in Workers : DOMAIN proc[v] = DOMAIN IdleProc
  BY DEF WorkersOK, RunsInv
<1>1. \A w \in Workers, r \in Roots :
        /\ txn'[w][r].st = txn[w][r].st /\ txn'[w][r].batch = txn[w][r].batch
        /\ txn'[w][r].torun = txn[w][r].torun /\ txn'[w][r].ran = txn[w][r].ran
        /\ txn'[w][r].toDel = txn[w][r].toDel
  BY TickFacts
<1>2. UNCHANGED <<lock, slips, rolled, twice>>
  BY DEF Tick, history
<1>4. /\ DOMAIN proc' = Workers
      /\ \A v \in Workers : DOMAIN proc'[v] = DOMAIN IdleProc /\ proc'[v].pc = proc[v].pc
  <2> DEFINE sooner(t, bound) == IF t = None THEN None ELSE IF t > bound THEN t - 1 ELSE t
  <2>1. proc' = [w \in Workers |-> [proc[w] EXCEPT
                   !.task = [@ EXCEPT !.eta = sooner(@, -Horizon)],
                   !.end = sooner(@, -1), !.wake = sooner(@, 0)]]
    BY Zenon DEF Tick
  <2> HIDE DEF sooner
  <2>2. ASSUME NEW v \in Workers
        PROVE  DOMAIN proc'[v] = DOMAIN proc[v] /\ proc'[v].pc = proc[v].pc
    <3>1. "pc" \in DOMAIN proc[v]
      BY <1>0 DEF IdleProc
    <3> QED
      BY <2>1, <3>1
  <2> QED
    BY <1>0, <2>1, <2>2
<1>5. WorkersOK'
  BY <1>1, <1>2, <1>4, SamePlaces DEF RunsInv
<1>6. TargetsOK'
  BY <1>1 DEF RunsInv, TargetsOK
<1>7. OnceInv'
  <2>1. \A e \in journal' : /\ Target[e.kind] \in Roots
          /\ \E d \in journal : d.inst = e.inst /\ Key(d) = Key(e) /\ d.kind = e.kind
    <3>1. journal' = {Older(e) : e \in journal} /\ journal \subseteq Entries
      BY TickFacts DEF JournalInv, JournalTypeOK
    <3> QED
      BY <3>1, OlderFacts, JournalTargets DEF Key
  <2>2. OnceInv /\ Calm' = Calm
    BY <1>2 DEF RunsInv, Calm
  <2>3. Calm' => \A v \in Workers, q \in Roots : txn'[v][q].st = "run" =>
           \A e \in txn'[v][q].batch : e.inst \notin rolled
    BY <1>1, <2>2 DEF OnceInv
  <2> QED
    BY <1>1, <1>2, <2>1, <2>2, <2>3, OnceFrame
<1> QED
  BY <1>5, <1>6, <1>7 DEF RunsInv

\* Every step keeps the invariant.
LEMMA RunsNext ==
  ASSUME OneTargetPerName
  PROVE  JournalInv /\ OpeningOK /\ RunsInv /\ [TumbleNext]_tumbleVars => RunsInv'
<1> SUFFICES ASSUME JournalInv, OpeningOK, RunsInv, [TumbleNext]_tumbleVars PROVE RunsInv'
  OBVIOUS
<1>0. WorkersOK /\ nextInst \in Nat
  BY DEF RunsInv, JournalInv, JournalTypeOK
<1>1. ASSUME UNCHANGED <<rolled, twice, txn, proc, lock>>, slips \subseteq slips',
             \A e \in journal' : e \in journal \/ e.inst > nextInst
      PROVE  RunsInv'
  <2>1. WorkersOK'
    BY <1>0, <1>1, SamePlaces DEF WorkersOK
  <2> QED
    BY <1>1, <2>1, OnceOutside DEF RunsInv
<1>2. CASE Request
  <2>1. ASSUME NEW s \in Starts, RunMutation(s[1], s[2]) PROVE RunsInv'
    <3>1. nextInst' \in 1..MaxInst /\ nextInst' = nextInst + 1
      BY <1>0, <2>1, TumbleAssumption DEF RunMutation
    <3>2. NewEntry(s[1], nextInst', s[2]).inst > nextInst
      BY <1>0, <3>1, NewEntryFacts, TumbleAssumption
    <3> QED
      BY <1>1, <2>1, <3>2 DEF RunMutation, history
  <2>2. ASSUME NEW s \in Names, PutNamedMutations(s[1], s[2]) PROVE RunsInv'
    BY <1>1, <2>2 DEF PutNamedMutations, Happens, stores, history
  <2>4. ASSUME NEW o \in opening, CommitNamed(o) PROVE RunsInv'
    <3>1. /\ journal' \subseteq journal \cup {NamedEntry(o)}
          /\ UNCHANGED <<rolled, twice, txn, proc, slips>> /\ UNCHANGED lock
      BY <2>4, NamedEntryFacts DEF Without
    <3>2. NamedEntry(o).inst > nextInst
      <4>1. NamedEntry(o).inst = nextInst + 1
        BY <2>4, NamedEntryFacts, Zenon
      <4> QED
        BY <1>0, <4>1
    <3> QED
      BY <1>1, <3>1, <3>2
  <2>5. ASSUME NEW o \in opening, AbortNamed(o) PROVE RunsInv'
    BY <1>1, <2>5 DEF AbortNamed, Happens, stores, history
  <2>3. ASSUME NEW s \in Names, CancelNamedMutations(s[1]) PROVE RunsInv'
    BY <1>1, <2>3 DEF CancelNamedMutations, history
  <2> QED
    BY <1>2, <2>1, <2>2, <2>3, <2>4, <2>5 DEF Request
<1>3. CASE FireAllTasks \/ Settle \/ \E after \in firing : FireTask(after)
  BY <1>1, <1>3 DEF FireAllTasks, Settle, FireTask, Happens, stores, history
<1>4. CASE Tick
  BY <1>4, TickRuns
<1>5. CASE UNCHANGED tumbleVars
  BY <1>1, <1>5 DEF tumbleVars, stores, history
<1>6. ASSUME NEW w \in Workers, NEW r \in Roots, Root(w, r) PROVE RunsInv'
  <2>1. WorkersOK'
    BY <1>0, <1>6, RootWorkers
  <2> QED
    BY <1>6, <2>1, OnceLoad, OnceCommit, OnceRoot DEF Root, RunsInv
<1>7. ASSUME NEW w \in Workers,
             \/ \E t \in tasks : processShard(w, t)
             \/ CheckLast(w) \/ EndRound(w) \/ Wake(w) \/ LoseLock(w)
      PROVE  RunsInv'
  <2>1. WorkersOK'
    BY <1>0, <1>7, LoopWorkers
  <2>2. UNCHANGED <<rolled, twice, txn, journal>> /\ slips \subseteq slips'
    BY <1>7 DEF processShard, LockFails, CheckLast, EndRound, Wake, LoseLock, Happens, stores,
       history
  <2> QED
    BY <2>1, <2>2, OnceOutside DEF RunsInv
<1>8. ASSUME NEW w \in Workers, StartRound(w) \/ Crash(w) PROVE RunsInv'
  BY <1>0, <1>8, LoopWorkers, OnceRound DEF RunsInv
<1> QED
  BY <1>2, <1>3, <1>4, <1>5, <1>6, <1>7, <1>8 DEF TumbleNext, Worker

\* A mutation is rolled forward more than once only after a lock was lost, a
\* worker died, or a delete or the outcome of a commit got lost: the lock, the
\* deletion in the transaction and the one after it leave no other gap.  This
\* needs the mutations that share a name to share a target: the query finds the
\* entity for its former root, and the transaction does not look at the root of
\* what it loads (processRoot).
THEOREM RunsOnceInvariance == OneTargetPerName => (TumbleSpec => []RunsOnce)
<1> SUFFICES ASSUME OneTargetPerName PROVE TumbleSpec => []RunsOnce
  OBVIOUS
<1>1. TumbleInit => RunsInv
  <2> SUFFICES ASSUME TumbleInit PROVE RunsInv
    OBVIOUS
  <2>1. /\ proc = [w \in Workers |-> IdleProc] /\ inside = {} /\ lapsed = {}
        /\ \A w \in Workers, r \in Roots : txn[w][r] = NoTxn
        /\ journal = {} /\ twice = {}
    BY DEF TumbleInit, Lock!LockInit
  <2>2. WorkersOK
    BY <2>1, NoTxnFacts DEF WorkersOK, IdleProc
  <2>3. TargetsOK /\ OnceInv
    BY <2>1, NoTxnFacts DEF TargetsOK, OnceInv
  <2> QED
    BY <2>2, <2>3 DEF RunsInv
<1>2. JournalInv /\ OpeningOK /\ RunsInv /\ [TumbleNext]_tumbleVars => RunsInv'
  BY RunsNext
<1>3. RunsInv => RunsOnce
  BY DEF RunsInv, OnceInv, Calm, RunsOnce
<1> QED
  BY <1>1, <1>2, <1>3, JournalInvariance, OpeningInvariance, PTL DEF TumbleSpec

-----------------------------------------------------------------------------
(* What becomes of mutations under a name.                                 *)

\* A mutation that a worker deletes without having rolled it forward came after
\* one that the worker rolled forward under the same name.
LEMMA DeletedByKey ==
  ASSUME JournalInv, NEW w \in Workers, NEW r \in Roots, NEW e \in journal,
         Key(e) \in txn[w][r].del \cup txn[w][r].toDel,
         \A d \in txn[w][r].ran : d.inst # e.inst
  PROVE  \E d \in txn[w][r].ran : Key(d) = Key(e) /\ d.inst < e.inst
<1>1. PICK d \in txn[w][r].ran : Key(d) = Key(e)
  BY DEF JournalInv, TxnsOK, TxnOK
<1>2. /\ e \in Known /\ d \in Known /\ d \in Held
      /\ e.inst \in Nat /\ d.inst \in Nat /\ d.inst # e.inst /\ d.id = e.id
  BY <1>1, KnownNumbers, Members DEF JournalInv, Key
<1>3. d.id = NamedID
  BY <1>2 DEF JournalInv, WellNumbered
<1>4. d.inst <= e.inst
  BY <1>1, <1>2, <1>3 DEF JournalInv, LatestUnderName
<1> QED
  BY <1>1, <1>2, <1>4

\* How one step may lose the mutation e.
Explained(e) ==
    \/ CancelNamedMutations(e.home)
    \/ \E d \in journal' : Key(d) = Key(e) /\ d.inst > e.inst
    \/ \E w \in Workers, r \in Roots :
          \E d \in txn[w][r].ran : Key(d) = Key(e) /\ d.inst < e.inst

\* Every step that loses a mutation under a name before it ran has its reason.
LEMMA LossStep ==
  ASSUME JournalInv, OpeningOK, [TumbleNext]_tumbleVars, NEW e \in journal,
         e.inst \notin Instances(journal)', e.inst \notin rolled'
  PROVE  Explained(e)
<1>0. e \notin journal'
  BY DEF Instances
<1>1. CASE Request
  <2>1. ASSUME NEW s \in Starts, RunMutation(s[1], s[2]) PROVE Explained(e)
    BY <1>0, <2>1 DEF RunMutation
  <2>2. ASSUME NEW s \in Names, PutNamedMutations(s[1], s[2]) PROVE Explained(e)
    BY <1>0, <2>2 DEF PutNamedMutations, stores
  <2>3. ASSUME NEW s \in Names, CancelNamedMutations(s[1]) PROVE Explained(e)
    <3>1. Key(e) = <<s[1], NamedID>>
      BY <1>0, <2>3 DEF CancelNamedMutations
    <3>2. e.home = s[1]
      BY <3>1 DEF Key
    <3> QED
      BY <2>3, <3>2 DEF Explained
  <2>4. ASSUME NEW o \in opening, CommitNamed(o) PROVE Explained(e)
    <3>1. /\ NamedEntry(o).inst = nextInst + 1
          /\ journal' = Without(journal, {Key(NamedEntry(o))}) \cup {NamedEntry(o)}
      BY <2>4, NamedEntryFacts, Zenon
    <3>2. Key(NamedEntry(o)) = Key(e) /\ NamedEntry(o) \in journal'
      BY <1>0, <3>1 DEF Without
    <3>3. nextInst \in Nat /\ e.inst \in Nat /\ e.inst <= nextInst
      BY KnownNumbers, Members DEF JournalInv
    <3>4. NamedEntry(o).inst > e.inst
      BY <3>1, <3>3
    <3> QED
      BY <3>2, <3>4 DEF Explained
  <2>5. ASSUME NEW o \in opening, AbortNamed(o) PROVE Explained(e)
    BY <1>0, <2>5 DEF AbortNamed, stores
  <2> QED
    BY <1>1, <2>1, <2>2, <2>3, <2>4, <2>5 DEF Request
<1>2. CASE Tick
  <2>1. Older(e) \in journal' /\ Older(e).inst = e.inst
    BY <1>2, TickFacts, OlderFacts DEF JournalInv, JournalTypeOK
  <2> QED
    BY <2>1 DEF Instances
<1>3. ASSUME NEW w \in Workers, NEW r \in Roots, Root(w, r) PROVE Explained(e)
  <2>1. CASE Commit(w, r) \/ CommitUnknown(w, r)
    <3>1. /\ journal' = Without(journal \cup txn[w][r].put, txn[w][r].del)
          /\ rolled' = rolled \cup Instances(txn[w][r].ran)
      BY <2>1 DEF Commit, CommitUnknown, Committed
    <3>2. Key(e) \in txn[w][r].del
      BY <1>0, <3>1 DEF Without
    <3>3. \A d \in txn[w][r].ran : d.inst # e.inst
      BY <3>1 DEF Instances
    <3> QED
      BY <3>2, <3>3, DeletedByKey DEF Explained
  <2>2. CASE DeleteDone(w, r)
    <3>1. /\ journal' = journal \/ journal' = Without(journal, txn[w][r].toDel)
          /\ rolled' = rolled /\ txn[w][r].st = "delete"
      BY <2>2 DEF DeleteDone, history
    <3>2. Key(e) \in txn[w][r].toDel
      BY <1>0, <3>1 DEF Without
    <3>3. \A d \in txn[w][r].ran : d.inst # e.inst
      BY <3>1 DEF JournalInv, TxnsOK, TxnOK
    <3> QED
      BY <3>2, <3>3, DeletedByKey DEF Explained
  <2>3. CASE \/ LoadBatch(w, r) \/ Conflict(w, r) \/ FireRoot(w, r)
             \/ \E d \in txn[w][r].torun : RollOne(w, r, d) \/ RollFails(w, r, d)
    BY <1>0, <2>3 DEF LoadBatch, Conflict, FireRoot, RollOne, RollFails, stores
  <2> QED
    BY <1>3, <2>1, <2>2, <2>3 DEF Root
<1>4. ASSUME NEW w \in Workers,
             \/ \E t \in tasks : processShard(w, t)
             \/ CheckLast(w) \/ StartRound(w) \/ EndRound(w) \/ Wake(w)
             \/ LoseLock(w) \/ Crash(w)
      PROVE  FALSE
  BY <1>0, <1>4 DEF processShard, CheckLast, StartRound, EndRound, Wake, LoseLock, Crash, stores
<1>5. CASE FireAllTasks \/ Settle \/ \E after \in firing : FireTask(after)
  BY <1>0, <1>5 DEF FireAllTasks, Settle, FireTask, stores
<1>6. CASE UNCHANGED tumbleVars
  BY <1>0, <1>6 DEF tumbleVars, stores
<1> QED
  BY <1>1, <1>2, <1>3, <1>4, <1>5, <1>6 DEF TumbleNext, Worker

\* A mutation under a name that is gone before it ran was canceled, replaced, or
\* deleted by the key of a former one that a worker had rolled forward under the
\* same name: conflicts, crashes, lost locks and dated queries lose no other.
THEOREM NamedLossesExplained == TumbleSpec => NamedLossExplained
<1> DEFINE Step == \A e \in journal : e.inst \in Withdrawn' \ Withdrawn => Explained(e)
<1>1. JournalInv /\ OpeningOK /\ [TumbleNext]_tumbleVars => [Step]_tumbleVars
  <2> SUFFICES ASSUME JournalInv, OpeningOK, [TumbleNext]_tumbleVars, NEW e \in journal,
                      e.inst \in Withdrawn'
               PROVE  Explained(e)
    OBVIOUS
  <2>1. e.inst \notin Instances(journal)' /\ e.inst \notin rolled'
    BY DEF Withdrawn
  <2> QED
    BY <2>1, LossStep
<1>2. TumbleSpec => [][Step]_tumbleVars
  BY <1>1, JournalInvariance, OpeningInvariance, PTL DEF TumbleSpec
<1> QED
  BY <1>2 DEF NamedLossExplained, Explained
=============================================================================
