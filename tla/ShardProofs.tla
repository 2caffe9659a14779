---------------------------- MODULE ShardProofs ----------------------------
(***************************************************************************)
(* The two sides of tumble's sharding agree, for integers of any range and *)
(* any number of shards.                                                   *)
(***************************************************************************)
EXTENDS TumbleShards, TLAPS

USE DEF MaxUint, MinInt, MaxInt

\* Conversions of a number of the type's range, and of one that is a turn off.
LEMMA Conversions ==
  /\ \A n \in 0..MaxUint : uint(n) = n
  /\ \A n \in MinInt..MaxInt : int(n) = n
  /\ \A n \in 0..MaxUint : int(n) \in {n, n - 2 * Half}
  /\ \A n \in MinInt..MaxInt : int(n - 2 * Half) = n
<1>1. \A n \in 0..MaxUint : uint(n) = n
  BY HalfAssumption DEF uint
<1>2. \A n \in -2 * Half..-1 : uint(n) = n + 2 * Half
  BY HalfAssumption DEF uint
<1>3. \A n \in MinInt..MaxInt : uint(n - 2 * Half) = uint(n)
  BY HalfAssumption DEF uint
<1>4. \A n \in MinInt..MaxInt : int(n) = n
  BY <1>1, <1>2, HalfAssumption DEF int
<1>5. \A n \in MinInt..MaxInt : int(n - 2 * Half) = n
  BY <1>3, <1>4 DEF int
<1>6. \A n \in 0..MaxUint : int(n) \in {n, n - 2 * Half}
  BY <1>1 DEF int
<1> QED
  BY <1>1, <1>4, <1>5, <1>6

\* Division rounds down.
LEMMA DivisionFacts ==
  ASSUME NEW u \in Nat, NEW p \in Nat \ {0}
  PROVE  LET q == u \div p
         IN  q \in Nat /\ q * p <= u /\ u < (q + 1) * p
OBVIOUS

\* The shards cut the range into pieces of the same length, the last of which
\* may be longer; no piece is empty.
LEMMA PieceFacts ==
  ASSUME NEW shards \in 1..MaxUint
  PROVE  LET per == MaxUint \div shards
         IN  /\ per \in 1..MaxUint /\ shards * per <= MaxUint
             /\ shards > 1 => int(per) = per
<1> DEFINE per == MaxUint \div shards
<1>1. shards \in Nat \ {0} /\ MaxUint \in Nat
  BY HalfAssumption
<1>2. per \in Nat /\ per * shards <= MaxUint /\ MaxUint < (per + 1) * shards
  BY <1>1, DivisionFacts
<1> HIDE DEF per
<1>3. per # 0
  BY <1>1, <1>2
<1>4. per <= per * shards /\ (shards > 1 => 2 * per <= per * shards)
  BY <1>1, <1>2
<1>5. shards > 1 => per \in MinInt..MaxInt
  BY <1>1, <1>2, <1>4, HalfAssumption
<1> QED
  BY <1>1, <1>2, <1>3, <1>4, <1>5, Conversions, HalfAssumption DEF per

\* The bounds of a shard are where its piece begins and where the next one does.
LEMMA BoundFacts ==
  ASSUME NEW shards \in 1..MaxUint, NEW n \in 0..shards - 1
  PROVE  LET per == MaxUint \div shards
         IN  /\ low(n, shards) = MinInt + n * per
             /\ n # shards - 1 => high(n, shards) = MinInt + (n + 1) * per
<1> DEFINE per == MaxUint \div shards
<1>1. /\ per \in 1..MaxUint /\ shards * per <= MaxUint
      /\ shards > 1 => int(per) = per
      /\ shards \in Nat \ {0} /\ n \in Nat /\ MaxUint \in Nat
  <2>1. shards \in Nat \ {0} /\ n \in Nat /\ MaxUint \in Nat
    BY HalfAssumption
  <2> QED
    BY <2>1, PieceFacts
<1> HIDE DEF per
<1>2. ASSUME NEW k \in 0..shards PROVE k * per \in 0..MaxUint
  <2>1. k \in Nat /\ per \in Nat /\ k <= shards
    BY <1>1, <1>2
  <2>2. k * per \in Nat /\ k * per <= shards * per
    BY <1>1, <2>1
  <2> QED
    BY <1>1, <2>2
<1>3. n * int(per) = n * per
  <2>1. CASE shards = 1
    <3>1. n = 0 /\ int(per) \in Int
      BY <1>1, <2>1, Conversions, HalfAssumption
    <3> QED
      BY <1>1, <3>1
  <2> QED
    BY <1>1, <2>1
<1>4. n * per \in 0..MaxUint /\ (n # shards - 1 => (n + 1) * per \in 0..MaxUint)
  BY <1>1, <1>2
<1>5. ASSUME NEW k \in 0..MaxUint PROVE int(MinInt + int(k)) = MinInt + k
  <2>1. MinInt + k \in MinInt..MaxInt /\ MinInt + (k - 2 * Half) = (MinInt + k) - 2 * Half
    BY HalfAssumption
  <2> QED
    BY <2>1, Conversions
<1>6. low(n, shards) = MinInt + n * per
  BY <1>3, <1>4, <1>5 DEF low, per
<1>7. ASSUME n # shards - 1 PROVE high(n, shards) = MinInt + (n + 1) * per
  <2>1. shards > 1
    BY <1>1, <1>7
  <2>2. high(n, shards) = int(low(n, shards) + per)
    BY <1>1, <1>7, <2>1 DEF high, per
  <2>3. low(n, shards) + per = MinInt + (n + 1) * per
    BY <1>1, <1>6, HalfAssumption
  <2>4. MinInt + (n + 1) * per \in MinInt..MaxInt
    BY <1>4, <1>7, HalfAssumption
  <2> QED
    BY <2>2, <2>3, <2>4, Conversions
<1> QED
  BY <1>6, <1>7 DEF per

\* realMutation.shard names a shard that exists and whose query covers the hash:
\* the rounding of its division, of the bounds and of the last shard agree, and
\* the overflow of the bounds' intermediate results cancels out.
THEOREM EveryHashIsFound ==
  \A shards \in 1..MaxUint, x \in MinInt..MaxInt : Found(x, shards)
<1> SUFFICES ASSUME NEW shards \in 1..MaxUint, NEW x \in MinInt..MaxInt
             PROVE  Found(x, shards)
  OBVIOUS
<1> DEFINE per == MaxUint \div shards
           u == x - MinInt
           q == u \div per
           n == shard(x, shards)
<1>1. /\ per \in Nat \ {0} /\ shards \in Nat \ {0} /\ u \in 0..MaxUint /\ uint(u) = u
      /\ x \in Int /\ Half \in Nat
  BY PieceFacts, Conversions, HalfAssumption
<1>2. n = IF q >= shards THEN shards - 1 ELSE q
  BY <1>1 DEF shard
<1> HIDE DEF per, u, n
<1>3. q \in Nat /\ q * per <= u /\ u < (q + 1) * per
  <2>1. u \in Nat
    BY <1>1, HalfAssumption
  <2> QED
    BY <1>1, <2>1, DivisionFacts
<1> HIDE DEF q
<1>4. n \in 0..shards - 1 /\ n <= q /\ (n # shards - 1 => n = q)
  BY <1>1, <1>2, <1>3
<1>5. n * per <= q * per
  BY <1>1, <1>3, <1>4
<1>6. n * per <= u /\ (n # shards - 1 => u <= (n + 1) * per)
  BY <1>1, <1>3, <1>4, <1>5
<1>7. /\ low(n, shards) = MinInt + n * per
      /\ n # shards - 1 => high(n, shards) = MinInt + (n + 1) * per
      /\ n = shards - 1 => high(n, shards) = MaxInt
  BY <1>4, BoundFacts DEF per, high
<1>8. x = MinInt + u
  BY <1>1, HalfAssumption DEF u
<1>9. low(n, shards) <= x
  BY <1>1, <1>4, <1>6, <1>7, <1>8
<1>10. x <= high(n, shards)
  BY <1>1, <1>4, <1>6, <1>7, <1>8
<1> QED
  BY <1>4, <1>9, <1>10 DEF Found, InBounds, n

\* Whatever the configured number of shards, a mutation that tumble journals is
\* announced to a shard whose query finds it.
THEOREM ShardsAgree == TumbleSpec => AnnouncedShardFindsIt
<1>1. [TumbleNext]_tumbleVars =>
        [journal = {} /\ journal' # {} =>
           \A shards \in 1..MaxUint, x \in MinInt..MaxInt : Found(x, shards)]_tumbleVars
  BY EveryHashIsFound
<1> QED
  BY <1>1, PTL DEF TumbleSpec, AnnouncedShardFindsIt
=============================================================================
