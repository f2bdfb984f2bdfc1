------------------------------ MODULE Addressing ------------------------------
(***************************************************************************)
(* Where the bits of an item go: pkg/bloom/hash.go and shard.go, at work   *)
(* in one stage of m bits and k hash functions.  Add writes an item's      *)
(* positions shard by shard, and Drop deletes the shards it counts from m. *)
(* BloomFilter takes both for granted (Positions, ShardCount); here they   *)
(* are computed, over words of Width bits that wrap as uint64 does.        *)
(***************************************************************************)
EXTENDS Integers, FiniteSets

CONSTANTS
  Width,        \* bits of a word; 64 in the code
  ShardBits,    \* bits of a shard; 2^25 in the code
  Items,
  Sum64(_),     \* xxhash.Sum64 of an item or of a word's bytes
  Stages,       \* the sizes of stages considered, as <<m, k>>
  Nil

Word == 0 .. 2 ^ Width - 1

ASSUME AddressingAssumption ==
  /\ Width \in Nat
  /\ 2 ^ Width \in Nat \ {0}
  /\ ShardBits \in Nat \ {0}
  /\ Stages \subseteq (Nat \ {0}) \X (Nat \ {0})
  /\ Nil \notin Items
  /\ \A x \in Items \cup Word : Sum64(x) \in Word

VARIABLES
  m, k,     \* the stage
  bitmaps,  \* the set bits of its shards, as <<shard, offset>>
  adding,   \* the item being added, or Nil
  left,     \* the shards of it that Add has yet to write
  added     \* the items added since the last Drop

vars == <<m, k, bitmaps, adding, left, added>>

-----------------------------------------------------------------------------

ensureNonZero(x) == IF x = 0 THEN 1 ELSE x

h1(x) == Sum64(x)
h2(x) == ensureNonZero(Sum64(h1(x)))

(* g_i, whose product and sum wrap. *)
position(x, mm, i) == ((h1(x) + i * h2(x)) % 2 ^ Width) % mm

positions(x, mm, kk) == {position(x, mm, i) : i \in 0 .. kk - 1}

shardFor(b) == [Shard |-> b \div ShardBits, Offset |-> b % ShardBits]

(* groupByShard: the shards of some positions, and the offsets in each. *)
Shards(pos) == {shardFor(b).Shard : b \in pos}

Offsets(pos, s) == {shardFor(b).Offset : b \in {c \in pos : shardFor(c).Shard = s}}

(* The division without the remainder. *)
numShardsFloor(mm) == mm \div ShardBits

(* Drop's count of the shards of a stage. *)
numShards(mm) == (mm \div ShardBits) + (IF mm % ShardBits # 0 THEN 1 ELSE 0)

-----------------------------------------------------------------------------

Init ==
  /\ \E st \in Stages : m = st[1] /\ k = st[2]
  /\ bitmaps = {}
  /\ adding = Nil
  /\ left = {}
  /\ added = {}

BeginAdd(x) ==
  /\ adding = Nil
  /\ adding' = x
  /\ left' = Shards(positions(x, m, k))
  /\ UNCHANGED <<m, k, bitmaps, added>>

(* Add: the SetBits of one shard, in map order. *)
SetShard(s) ==
  /\ adding # Nil
  /\ s \in left
  /\ bitmaps' = bitmaps \cup {<<s, o>> : o \in Offsets(positions(adding, m, k), s)}
  /\ left' = left \ {s}
  /\ IF left = {s}
     THEN adding' = Nil /\ added' = added \cup {adding}
     ELSE UNCHANGED <<adding, added>>
  /\ UNCHANGED <<m, k>>

Drop ==
  /\ adding = Nil
  /\ bitmaps' = {b \in bitmaps : b[1] >= numShards(m)}
  /\ added' = {}
  /\ UNCHANGED <<m, k, adding, left>>

Next ==
  \/ \E x \in Items : BeginAdd(x)
  \/ \E s \in left : SetShard(s)
  \/ Drop

Spec == Init /\ [][Next]_vars

-----------------------------------------------------------------------------

(* The bitmap the shards stand for. *)
Flat == {b[1] * ShardBits + b[2] : b \in bitmaps}

(* Sharding loses and misplaces nothing: between two calls the shards make *)
(* up one bitmap with exactly the positions of the items added since the   *)
(* last Drop, which leaves no shard behind whatever the size of the stage  *)
(* (positions, groupByShard, the shard count of Drop).                     *)
FlatView ==
  adding = Nil => Flat = UNION {positions(x, m, k) : x \in added}
=============================================================================
