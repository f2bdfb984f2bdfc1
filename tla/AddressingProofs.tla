--------------------------- MODULE AddressingProofs ---------------------------
(***************************************************************************)
(* Proofs about the addresses of bits: for every width of words and of     *)
(* shards, every size of a stage and every hash function, the shards are   *)
(* one bitmap and Drop counts enough of them.                              *)
(***************************************************************************)
EXTENDS Addressing, TLAPS

(* What division and remainder are.                                        *)
LEMMA DivMod ==
  ASSUME NEW s \in Nat \ {0}, NEW b \in Nat
  PROVE  /\ b \div s \in Nat
         /\ b % s \in 0 .. s - 1
         /\ b = (b \div s) * s + (b % s)
  BY Z3

(* A product by a positive factor compares as the other factor does.       *)
LEMMA LessByFactor ==
  ASSUME NEW s \in Nat \ {0}, NEW a \in Nat, NEW b \in Nat, a * s < b * s
  PROVE  a < b
<1> SUFFICES ASSUME b <= a PROVE FALSE
  OBVIOUS
<1> DEFINE d == a - b
<1>1. d \in Nat /\ a = b + d
  OBVIOUS
<1> HIDE DEF d
<1>2. a * s = b * s + d * s /\ d * s \in Nat /\ b * s \in Nat
  BY <1>1, SMTT(20)
<1> QED
  BY <1>2

(* A position is a bit of the stage, whatever wraps on the way (hash.go).  *)
LEMMA PositionInStage ==
  ASSUME NEW x \in Items, NEW mm \in Nat \ {0}, NEW i \in Nat
  PROVE  position(x, mm, i) \in 0 .. mm - 1
<1> DEFINE P == 2 ^ Width
<1>1. P \in Nat \ {0}
  BY AddressingAssumption
<1>2. Word \subseteq Nat
  BY DEF Word
<1>3. h1(x) \in Nat /\ h2(x) \in Nat
  BY <1>2, AddressingAssumption DEF h1, h2, ensureNonZero
<1> DEFINE z == h1(x) + i * h2(x)
<1>4. z \in Nat
  BY <1>3
<1> HIDE DEF P, z
<1>5. z % P \in Nat
  BY <1>1, <1>4, DivMod
<1>6. (z % P) % mm \in 0 .. mm - 1
  BY <1>5, DivMod
<1> QED
  BY <1>6 DEF position, P, z

(* So is every one of an item's, of which there is at least one.           *)
LEMMA PositionsInStage ==
  ASSUME NEW x \in Items, NEW mm \in Nat \ {0}, NEW kk \in Nat \ {0}
  PROVE  /\ positions(x, mm, kk) \subseteq 0 .. mm - 1
         /\ positions(x, mm, kk) # {}
<1>1. 0 .. kk - 1 \subseteq Nat /\ 0 \in 0 .. kk - 1
  OBVIOUS
<1> QED
  BY <1>1, PositionInStage DEF positions

(* Drop's shard count covers every bit of the stage (filter.go Drop).      *)
LEMMA ShardCovered ==
  ASSUME NEW mm \in Nat \ {0}, NEW b \in 0 .. mm - 1
  PROVE  shardFor(b).Shard < numShards(mm)
<1> DEFINE q == b \div ShardBits
           r == b % ShardBits
           bigQ == mm \div ShardBits
           bigR == mm % ShardBits
<1>1. ShardBits \in Nat \ {0}
  BY AddressingAssumption
<1>2. q \in Nat /\ r \in 0 .. ShardBits - 1 /\ b = q * ShardBits + r
  BY <1>1, DivMod
<1>3. bigQ \in Nat /\ bigR \in 0 .. ShardBits - 1 /\ mm = bigQ * ShardBits + bigR
  BY <1>1, DivMod
<1>4. shardFor(b).Shard = q /\ numShards(mm) = bigQ + (IF bigR # 0 THEN 1 ELSE 0)
  BY DEF shardFor, numShards
<1> HIDE DEF q, r, bigQ, bigR
<1>5. CASE bigR = 0
  <2>1. q * ShardBits < bigQ * ShardBits
    BY <1>1, <1>2, <1>3, <1>5
  <2>2. q < bigQ
    BY <1>1, <1>2, <1>3, <2>1, LessByFactor
  <2> QED
    BY <1>3, <1>4, <1>5, <2>2
<1>6. CASE bigR # 0
  <2>1. q * ShardBits < (bigQ + 1) * ShardBits
    BY <1>1, <1>2, <1>3, SMTT(20)
  <2>2. q < bigQ + 1
    BY <1>1, <1>2, <1>3, <2>1, LessByFactor
  <2> QED
    BY <1>3, <1>4, <1>6, <2>2
<1> QED
  BY <1>5, <1>6

-----------------------------------------------------------------------------

Pair(b) == <<shardFor(b).Shard, shardFor(b).Offset>>

Written(pos) == {Pair(b) : b \in pos}

(* The bits of the items added. *)
Due == UNION {positions(x, m, k) : x \in added}

(* The bits of the item being added whose shards have been written. *)
Begun ==
  IF adding = Nil THEN {}
  ELSE {b \in positions(adding, m, k) : shardFor(b).Shard \notin left}

AInv ==
  /\ m \in Nat \ {0}
  /\ k \in Nat \ {0}
  /\ added \subseteq Items
  /\ adding \in Items \cup {Nil}
  /\ bitmaps = Written(Due \cup Begun)

(* All of them are bits of the stage.                                      *)
LEMMA DueInStage == AInv => Due \cup Begun \subseteq 0 .. m - 1
  BY PositionsInStage DEF AInv, Due, Begun

(* The pairs of one shard's offsets are those of its positions.            *)
LEMMA ShardPairs ==
  ASSUME NEW pos, NEW s
  PROVE  {<<s, o>> : o \in Offsets(pos, s)} = Written({b \in pos : shardFor(b).Shard = s})
  BY DEF Offsets, Written, Pair

(* What is written of two sets of bits is what is written of each.         *)
LEMMA WrittenUnion ==
  ASSUME NEW S, NEW T PROVE Written(S \cup T) = Written(S) \cup Written(T)
  BY DEF Written

(* Every step keeps the invariant.                                         *)
LEMMA AInvStep == AInv /\ [Next]_vars => AInv'
<1> SUFFICES ASSUME AInv, [Next]_vars PROVE AInv'
  OBVIOUS
<1>1. ASSUME NEW x \in Items, BeginAdd(x) PROVE AInv'
  <2>1. x # Nil /\ adding = Nil /\ adding' = x
    BY <1>1, AddressingAssumption DEF BeginAdd
  <2>2. Begun = {} /\ Begun' = {}
    BY <1>1, <2>1 DEF BeginAdd, Begun, Shards
  <2>3. Due' = Due
    BY <1>1 DEF BeginAdd, Due
  <2> QED
    BY <1>1, <2>1, <2>2, <2>3 DEF BeginAdd, AInv
<1>2. ASSUME NEW s \in left, SetShard(s) PROVE AInv'
  <2> DEFINE pos == positions(adding, m, k)
             new == {b \in pos : shardFor(b).Shard = s}
  <2>1. adding # Nil /\ adding \in Items /\ m' = m /\ k' = k /\ left' = left \ {s}
    BY <1>2 DEF SetShard, AInv
  <2>2. bitmaps' = Written(Due \cup Begun) \cup Written(new)
    BY <1>2, ShardPairs DEF SetShard, AInv
  <2>3. Due' \cup Begun' = (Due \cup Begun) \cup new
    <3>1. CASE left = {s}
      <4>1. adding' = Nil /\ added' = added \cup {adding}
        BY <1>2, <3>1 DEF SetShard
      <4>2. Begun' = {}
        BY <4>1 DEF Begun
      <4>3. Due' = Due \cup pos
        BY <2>1, <4>1 DEF Due
      <4>4. Begun \cup new = pos
        BY <2>1, <3>1 DEF Begun
      <4> QED
        BY <4>2, <4>3, <4>4
    <3>2. CASE left # {s}
      <4>1. adding' = adding /\ added' = added
        BY <1>2, <3>2 DEF SetShard
      <4>2. Due' = Due
        BY <2>1, <4>1 DEF Due
      <4>3. Begun' = Begun \cup new
        BY <2>1, <4>1 DEF Begun
      <4> QED
        BY <4>2, <4>3
    <3> QED
      BY <3>1, <3>2
  <2>4. bitmaps' = Written(Due' \cup Begun')
    BY <2>2, <2>3, WrittenUnion
  <2>5. added' \subseteq Items /\ adding' \in Items \cup {Nil}
    BY <1>2, <2>1 DEF SetShard, AInv
  <2> QED
    BY <2>1, <2>4, <2>5 DEF AInv, Due, Begun, Written
<1>3. CASE Drop
  <2>1. adding = Nil /\ adding' = Nil /\ added' = {} /\ m' = m /\ k' = k
    BY <1>3 DEF Drop
  <2>2. \A b \in Due \cup Begun : ~ (Pair(b)[1] >= numShards(m))
    <3>1. SUFFICES ASSUME NEW b \in 0 .. m - 1
                   PROVE  ~ (Pair(b)[1] >= numShards(m))
      BY DueInStage
    <3>2. m \in Nat \ {0} /\ ShardBits \in Nat \ {0}
      BY AddressingAssumption DEF AInv
    <3>3. b \in Nat
      BY <3>2
    <3>4. b \div ShardBits \in Nat /\ m \div ShardBits \in Nat
      BY <3>2, <3>3, DivMod
    <3>5. shardFor(b).Shard \in Nat /\ numShards(m) \in Nat
      BY <3>4 DEF shardFor, numShards
    <3> QED
      BY <3>2, <3>5, ShardCovered DEF Pair
  <2>3. bitmaps' = {}
    BY <1>3, <2>2 DEF Drop, AInv, Written
  <2>4. Due' = {} /\ Begun' = {}
    BY <2>1 DEF Due, Begun
  <2> QED
    BY <2>1, <2>3, <2>4 DEF AInv, Written
<1>4. CASE UNCHANGED vars
  BY <1>4 DEF vars, AInv, Due, Begun, Written
<1> QED
  BY <1>1, <1>2, <1>3, <1>4 DEF Next

(* Every bit of every item is where a lookup and a Drop expect it, for     *)
(* every width, stage size and hash function (positions, groupByShard).    *)
THEOREM BitmapsExact == Spec => []AInv
<1>1. Init => AInv
  BY AddressingAssumption DEF Init, AInv, Due, Begun, Written
<1> QED
  BY <1>1, AInvStep, PTL DEF Spec

(* The shards make up one bitmap with exactly the positions of the items   *)
(* added since the last Drop (Add, Drop, shardFor).                        *)
THEOREM ShardingExact == Spec => []FlatView
<1>1. AInv => FlatView
  <2> SUFFICES ASSUME AInv, adding = Nil PROVE Flat = Due
    BY DEF FlatView, Due
  <2>1. bitmaps = Written(Due) /\ Due \subseteq 0 .. m - 1
    <3>1. Begun = {}
      BY DEF Begun
    <3> QED
      BY <3>1, DueInStage DEF AInv
  <2>2. \A b \in 0 .. m - 1 : Pair(b)[1] * ShardBits + Pair(b)[2] = b
    <3>1. \A b \in 0 .. m - 1 : b \in Nat
      BY DEF AInv
    <3>2. \A b \in Nat : b = (b \div ShardBits) * ShardBits + (b % ShardBits)
      BY DivMod, AddressingAssumption
    <3> QED
      BY <3>1, <3>2 DEF Pair, shardFor
  <2>3. Flat = {Pair(b)[1] * ShardBits + Pair(b)[2] : b \in Due}
    BY <2>1 DEF Flat, Written
  <2> DEFINE index(b) == Pair(b)[1] * ShardBits + Pair(b)[2]
  <2>4. \A b \in Due : index(b) = b
    BY <2>1, <2>2
  <2>5. Flat = {index(b) : b \in Due}
    BY <2>3
  <2> HIDE DEF index
  <2> QED
    BY <2>4, <2>5
<1> QED
  BY <1>1, BitmapsExact, PTL

(* What BloomFilter assumes of positions and shard counts holds of the     *)
(* code's: an item has at least one bit, and none outside the shards that  *)
(* Drop deletes (FilterAssumption).                                        *)
THEOREM AddressesFit ==
  ASSUME NEW x \in Items, NEW mm \in Nat \ {0}, NEW kk \in Nat \ {0}
  PROVE  /\ Written(positions(x, mm, kk)) # {}
         /\ \A p \in Written(positions(x, mm, kk)) : p[1] < numShards(mm)
<1>1. positions(x, mm, kk) # {} /\ positions(x, mm, kk) \subseteq 0 .. mm - 1
  BY PositionsInStage
<1>2. \A b \in 0 .. mm - 1 : Pair(b)[1] < numShards(mm)
  BY ShardCovered DEF Pair
<1> QED
  BY <1>1, <1>2 DEF Written
=============================================================================
