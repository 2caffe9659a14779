---------------------------- MODULE TumbleShards ----------------------------
(***************************************************************************)
(* How tumble splits the space of expanded shards (the first 64 bits of a  *)
(* hash of the target root) among the shards it processes.  A mutation is  *)
(* announced to the shard that realMutation.shard computes, and found by   *)
(* the query over the bounds that expandedShardBounds computes.  The       *)
(* machine's integers wrap around.                                         *)
(***************************************************************************)
EXTENDS Tumble

CONSTANTS Half      \* the integers of the machine are -Half..Half - 1 (2^63)

ASSUME HalfAssumption == Half \in Nat \ {0}

MaxUint == 2 * Half - 1
MinInt == -Half
MaxInt == Half - 1

\* Conversions between the two integer types keep the bits.
uint(n) == n % (2 * Half)
int(n) == IF uint(n) > MaxInt THEN uint(n) - 2 * Half ELSE uint(n)

\* Mutant: the rounding of the last shard is not accounted for.
shardUncapped(x, shards) == uint(x - MinInt) \div (MaxUint \div shards)

\* The shard a mutation is announced to.
shard(x, shards) ==
    LET n == uint(x - MinInt) \div (MaxUint \div shards)
    IN  IF n >= shards THEN shards - 1 ELSE n

\* expandedShardBounds, of a shard that exists.
low(n, shards) == int(MinInt + int(n * int(MaxUint \div shards)))

high(n, shards) ==
    LET per == int(MaxUint \div shards)
    IN  IF n = shards - 1 THEN MaxInt ELSE int(low(n, shards) + per)

InBounds(x, n, shards) == low(n, shards) <= x /\ x <= high(n, shards)

\* The shard announced for the hash x exists, and its query covers x.
Found(x, shards) ==
    /\ shard(x, shards) \in 0..shards - 1
    /\ InBounds(x, shard(x, shards), shards)

\* Whatever the configured number of shards and the hash of its root, a mutation
\* that is put in the journal is announced to a shard that exists and whose query
\* finds it: none falls between the shards because the two sides divide, round or
\* overflow differently (process.go 41-56, model_mutation.go 125-133).
AnnouncedShardFindsIt ==
    [][journal = {} /\ journal' # {} =>
         \A shards \in 1..MaxUint, x \in MinInt..MaxInt : Found(x, shards)]_tumbleVars
=============================================================================
