---------------------------- MODULE MemStoreProofs ----------------------------
(***************************************************************************)
(* The in-memory store keeps the contract of the store, whatever the       *)
(* filters, where every name is one segment, as the API has it.            *)
(***************************************************************************)
EXTENDS MemStore, FiniteSetTheorems, SequenceTheorems, TLAPS

OneSegment == Names \subseteq [1 .. 1 -> STRING]

-----------------------------------------------------------------------------
(* The keys.                                                               *)

(* A name of one segment between a first segment and the last ones.        *)
LEMMA Joined ==
  ASSUME NEW S, NEW a \in S, NEW b \in S, NEW c \in S, NEW d \in S, NEW e \in S
  PROVE  /\ Len(<<a>> \o <<b>> \o <<c>>) = 3 /\ (<<a>> \o <<b>> \o <<c>>)[2] = b
         /\ Len(<<a>> \o <<b>> \o <<c, d>>) = 4 /\ (<<a>> \o <<b>> \o <<c, d>>)[2] = b
         /\ (<<a>> \o <<b>> \o <<c, d>>)[3] = c /\ (<<a>> \o <<b>> \o <<c, d>>)[4] = d
         /\ Len(<<a>> \o <<b>> \o <<c, d>> \o <<e>>) = 5
         /\ (<<a>> \o <<b>> \o <<c, d>> \o <<e>>)[2] = b
         /\ (<<a>> \o <<b>> \o <<c, d>> \o <<e>>)[3] = c
<1>1. Len(<<a>> \o <<b>> \o <<c>>) = 3 /\ (<<a>> \o <<b>> \o <<c>>)[2] = b
  OBVIOUS
<1>2. Len(<<a>> \o <<b>> \o <<c, d>>) = 4
  OBVIOUS
<1>3. (<<a>> \o <<b>> \o <<c, d>>)[2] = b
  OBVIOUS
<1>4. (<<a>> \o <<b>> \o <<c, d>>)[3] = c
  OBVIOUS
<1>5. (<<a>> \o <<b>> \o <<c, d>>)[4] = d
  OBVIOUS
<1>6. Len(<<a>> \o <<b>> \o <<c, d>> \o <<e>>) = 5
  OBVIOUS
<1>7. (<<a>> \o <<b>> \o <<c, d>> \o <<e>>)[2] = b
  OBVIOUS
<1>8. (<<a>> \o <<b>> \o <<c, d>> \o <<e>>)[3] = c
  OBVIOUS
<1> QED BY <1>1, <1>2, <1>3, <1>4, <1>5, <1>6, <1>7, <1>8

(* What tells the kinds of keys apart is their lengths and last segments.  *)
LEMMA KeyShapes ==
  ASSUME OneSegment, NEW n \in Names, NEW i \in StageIdx, NEW j \in Shards
  PROVE  /\ Len(metaKey(n)) = 3 /\ metaKey(n)[2] = n[1]
         /\ Len(stageMetaKey(n, i)) = 4 /\ stageMetaKey(n, i)[2] = n[1]
         /\ stageMetaKey(n, i)[3] = StageSeg(i) /\ stageMetaKey(n, i)[4] = "meta"
         /\ Len(fillKey(n, i)) = 5 /\ fillKey(n, i)[2] = n[1] /\ fillKey(n, i)[3] = StageSeg(i)
         /\ Len(shardKey(n, i, j)) = 4 /\ shardKey(n, i, j)[2] = n[1]
         /\ shardKey(n, i, j)[3] = StageSeg(i) /\ shardKey(n, i, j)[4] = ShardSeg(j)
         /\ Len(registryKey) = 2
<1>1. n = <<n[1]>> /\ n[1] \in STRING
  BY DEF OneSegment
<1>2. StageSeg(i) \in STRING /\ ShardSeg(j) \in STRING
  BY MemAssumption
<1>3. PICK s \in STRING : s = n[1] /\ n = <<s>>
  BY <1>1
<1>4. Len(metaKey(n)) = 3 /\ metaKey(n)[2] = s
  BY <1>3, Joined DEF metaKey
<1>5. /\ Len(stageMetaKey(n, i)) = 4 /\ stageMetaKey(n, i)[2] = s
      /\ stageMetaKey(n, i)[3] = StageSeg(i) /\ stageMetaKey(n, i)[4] = "meta"
      /\ Len(fillKey(n, i)) = 5 /\ fillKey(n, i)[2] = s /\ fillKey(n, i)[3] = StageSeg(i)
  BY <1>2, <1>3, Joined DEF stageMetaKey, fillKey
<1>6. /\ Len(shardKey(n, i, j)) = 4 /\ shardKey(n, i, j)[2] = s
      /\ shardKey(n, i, j)[3] = StageSeg(i) /\ shardKey(n, i, j)[4] = ShardSeg(j)
  BY <1>2, <1>3, Joined DEF shardKey
<1>7. Len(registryKey) = 2
  BY DEF registryKey
<1> QED BY <1>3, <1>4, <1>5, <1>6, <1>7

(* Where every name is one segment, no two hashes, counters or bitmaps,    *)
(* nor the registry, have one key (the key functions of filter.go).        *)
THEOREM KeysApart ==
  ASSUME OneSegment, NEW n \in Names, NEW m \in Names, NEW i \in StageIdx, NEW j \in StageIdx,
         NEW a \in Shards, NEW b \in Shards
  PROVE  /\ metaKey(n) = metaKey(m) => n = m
         /\ stageMetaKey(n, i) = stageMetaKey(m, j) => n = m /\ i = j
         /\ fillKey(n, i) = fillKey(m, j) => n = m /\ i = j
         /\ shardKey(n, i, a) = shardKey(m, j, b) => n = m /\ i = j /\ a = b
         /\ metaKey(n) \notin {stageMetaKey(m, j), fillKey(m, j), shardKey(m, j, b), registryKey}
         /\ stageMetaKey(n, i) \notin {fillKey(m, j), shardKey(m, j, b), registryKey}
         /\ fillKey(n, i) \notin {shardKey(m, j, b), registryKey}
         /\ shardKey(n, i, a) # registryKey
<1>1. n[1] = m[1] => n = m
  BY DEF OneSegment
<1>2. /\ StageSeg(i) = StageSeg(j) => i = j
      /\ ShardSeg(a) = ShardSeg(b) => a = b
      /\ ShardSeg(a) # "meta" /\ ShardSeg(b) # "meta"
  BY MemAssumption
<1> QED BY <1>1, <1>2, KeyShapes

(* A sequence that ends before the last item or after it. *)
LEMMA Regrouped ==
  ASSUME NEW S, NEW n \in Seq(S), NEW a \in S, NEW b \in S, NEW c \in S
  PROVE  <<a>> \o (n \o <<b>>) \o <<c>> = <<a>> \o n \o <<b, c>>
<1> DEFINE f == <<a>>
           g == <<b>>
           h == <<c>>
<1>1. f \in Seq(S) /\ g \in Seq(S) /\ h \in Seq(S)
  OBVIOUS
<1>2. g \o h = <<b, c>>
  <2>1. Len(g \o h) = 2
    OBVIOUS
  <2>2. (g \o h)[1] = b
    OBVIOUS
  <2>3. (g \o h)[2] = c
    OBVIOUS
  <2>4. g \o h \in Seq(S)
    BY <1>1, ConcatProperties
  <2>5. <<b, c>> \in Seq(S) /\ Len(<<b, c>>) = 2 /\ <<b, c>>[1] = b /\ <<b, c>>[2] = c
    OBVIOUS
  <2>6. ASSUME NEW s \in Seq(S), NEW t \in Seq(S), Len(s) = 2, Len(t) = 2,
               s[1] = t[1], s[2] = t[2]
        PROVE  s = t
    <3>1. \A j \in 1 .. 2 : s[j] = t[j]
      <4> TAKE j \in 1 .. 2
      <4>1. j = 1 \/ j = 2
        OBVIOUS
      <4> QED BY <2>6, <4>1
    <3> QED BY <2>6, <3>1, SeqEqual
  <2> HIDE DEF g, h
  <2> QED BY <2>1, <2>2, <2>3, <2>4, <2>5, <2>6
<1> HIDE DEF f, g, h
<1>3. f \o (n \o g) = (f \o n) \o g
  BY <1>1, ConcatAssociative
<1>4. f \o n \in Seq(S)
  BY <1>1, ConcatProperties
<1>5. ((f \o n) \o g) \o h = (f \o n) \o (g \o h)
  BY <1>1, <1>4, ConcatAssociative
<1>6. (f \o (n \o g)) \o h = (f \o n) \o <<b, c>>
  BY <1>2, <1>3, <1>5
<1> QED BY <1>6 DEF f, g, h

(* A name that ends in a stage's segment shares a key: the filter hash of  *)
(* a:s0 is the stage hash of a.  The library admits such names, the API    *)
(* does not (metaKey and stageMetaKey of filter.go).                       *)
THEOREM ColonsCollide ==
  ASSUME NEW n \in Seq(STRING), NEW i \in StageIdx
  PROVE  metaKey(n \o <<StageSeg(i)>>) = stageMetaKey(n, i)
<1>1. StageSeg(i) \in STRING
  BY MemAssumption
<1> QED BY <1>1, Regrouped DEF metaKey, stageMetaKey

(* Of those of hashes and of counters, whether there is a shard or not. *)
LEMMA HashKeysApart ==
  ASSUME OneSegment, NEW n \in Names, NEW m \in Names, NEW i \in StageIdx, NEW j \in StageIdx
  PROVE  /\ metaKey(n) = metaKey(m) => n = m
         /\ stageMetaKey(n, i) = stageMetaKey(m, j) => n = m /\ i = j
         /\ fillKey(n, i) = fillKey(m, j) => n = m /\ i = j
         /\ metaKey(n) # stageMetaKey(m, j) /\ stageMetaKey(n, i) # metaKey(m)
<1>1. PICK a \in Shards : TRUE
  BY MemAssumption
<1> QED BY <1>1, KeysApart

(* What DEL of a filter of c stages takes. *)
LEMMA DropsItsKeys ==
  ASSUME OneSegment, NEW n \in Names, NEW c \in 1 .. MaxStages, NEW m \in Names,
         NEW i \in StageIdx, NEW j \in Shards
  PROVE  /\ metaKey(m) \in DropKeys(n, c) <=> m = n
         /\ stageMetaKey(m, i) \in DropKeys(n, c) <=> m = n /\ i \in 0 .. c - 1
         /\ fillKey(m, i) \in DropKeys(n, c) <=> m = n /\ i \in 0 .. c - 1
         /\ shardKey(m, i, j) \in DropKeys(n, c) <=> m = n /\ i \in 0 .. c - 1
         /\ registryKey \notin DropKeys(n, c)
<1>1. 0 .. c - 1 \subseteq StageIdx
  BY MemAssumption DEF StageIdx
<1>2. ASSUME NEW key
      PROVE  key \in DropKeys(n, c) <=>
               \/ key = metaKey(n)
               \/ \E k \in 0 .. c - 1 :
                    \/ key = stageMetaKey(n, k) \/ key = fillKey(n, k)
                    \/ \E b \in Shards : key = shardKey(n, k, b)
  BY DEF DropKeys
<1>3. metaKey(m) \in DropKeys(n, c) <=> m = n
  BY <1>1, <1>2, KeysApart
<1>4. stageMetaKey(m, i) \in DropKeys(n, c) <=> m = n /\ i \in 0 .. c - 1
  BY <1>1, <1>2, KeysApart
<1>5. fillKey(m, i) \in DropKeys(n, c) <=> m = n /\ i \in 0 .. c - 1
  BY <1>1, <1>2, KeysApart
<1>6. shardKey(m, i, j) \in DropKeys(n, c) <=> m = n /\ i \in 0 .. c - 1
  BY <1>1, <1>2, KeysApart
<1>7. registryKey \notin DropKeys(n, c)
  BY <1>1, <1>2, KeysApart
<1> QED BY <1>3, <1>4, <1>5, <1>6, <1>7

-----------------------------------------------------------------------------
(* The hashes.                                                             *)

(* Of a filter, and of a stage. *)
MetaFields == [par : Params, stage_count : Nat]
StageHashes == [stage : [par : Params, index : StageIdx]]

(* HSET over a missing hash and over one with the same fields. *)
LEMMA Copied ==
  /\ \A h \in {<<>>} \cup MetaFields, f \in MetaFields : Copy(h, f) = f
  /\ \A h \in {<<>>} \cup StageHashes, f \in StageHashes : Copy(h, f) = f
  /\ \A h \in MetaFields, c \in Nat :
       Copy(h, [stage_count |-> c]) = [par |-> h.par, stage_count |-> c]
<1>1. \A h \in {<<>>} \cup MetaFields, f \in MetaFields : Copy(h, f) = f
  BY DEF Copy, MetaFields
<1>2. \A h \in {<<>>} \cup StageHashes, f \in StageHashes : Copy(h, f) = f
  BY DEF Copy, StageHashes
<1>3. \A h \in MetaFields, c \in Nat :
        Copy(h, [stage_count |-> c]) = [par |-> h.par, stage_count |-> c]
  BY DEF Copy, MetaFields
<1> QED BY <1>1, <1>2, <1>3

(* What the filter modules see of a hash. *)
LEMMA Seen ==
  /\ FilterOf(<<>>) = Nil /\ Field(<<>>, "stage") = Nil /\ <<>> \notin MetaFields
  /\ \A h \in MetaFields : FilterOf(h) = h /\ h # <<>> /\ h # Nil /\ StageCount(h) = h.stage_count
  /\ \A h \in StageHashes : Field(h, "stage") = h.stage
<1>1. FilterOf(<<>>) = Nil
  BY DEF FilterOf
<1>2. Field(<<>>, "stage") = Nil
  BY DEF Field
<1>3. ASSUME NEW h \in MetaFields
      PROVE  FilterOf(h) = h /\ h # <<>> /\ h # Nil /\ StageCount(h) = h.stage_count
  <2>1. h # <<>> /\ h # Nil
    BY MemAssumption DEF MetaFields
  <2>2. h = [par |-> h.par, stage_count |-> h.stage_count]
    BY DEF MetaFields
  <2>3. Field(h, "par") = h.par /\ Field(h, "stage_count") = h.stage_count
    BY DEF Field, MetaFields
  <2>4. StageCount(h) = h.stage_count
    BY DEF StageCount, MetaFields
  <2> QED BY <2>1, <2>2, <2>3, <2>4 DEF FilterOf
<1>4. \A h \in StageHashes : Field(h, "stage") = h.stage
  BY DEF Field, StageHashes
<1> QED BY <1>1, <1>2, <1>3, <1>4

(* The maps hold a filter's hash, or none, under its key, and so on. *)
MapsOK ==
  /\ DOMAIN bitmaps = ShardKeys /\ DOMAIN hashes = HashKeys
  /\ DOMAIN counters = FillKeys /\ DOMAIN sets = {registryKey}
  /\ \A n \in Names : hashes[metaKey(n)] \in {<<>>} \cup MetaFields
  /\ \A n \in Names, i \in StageIdx : hashes[stageMetaKey(n, i)] \in {<<>>} \cup StageHashes

(* Every key has its map. *)
LEMMA KeysKnown ==
  ASSUME NEW n \in Names, NEW i \in StageIdx
  PROVE  /\ metaKey(n) \in HashKeys /\ stageMetaKey(n, i) \in HashKeys
         /\ fillKey(n, i) \in FillKeys /\ \A j \in Shards : shardKey(n, i, j) \in ShardKeys
         /\ 0 \in StageIdx
BY MemAssumption DEF HashKeys, FillKeys, ShardKeys, StageIdx

(* One item of a function of functions is replaced. *)
LEMMA Replaced ==
  ASSUME NEW S, NEW T, NEW f, NEW g, NEW x \in S, NEW y \in T, NEW e,
         f = [a \in S |-> [b \in T |-> f[a][b]]], g = [a \in S |-> [b \in T |-> g[a][b]]],
         \A a \in S, b \in T : g[a][b] = IF a = x /\ b = y THEN e ELSE f[a][b]
  PROVE  g = [f EXCEPT ![x][y] = e]
<1>1. [f EXCEPT ![x][y] = e] =
        [a \in S |-> [b \in T |-> IF a = x /\ b = y THEN e ELSE f[a][b]]]
  <2>1. f[x] = [b \in T |-> f[x][b]]
    OBVIOUS
  <2>2. [f[x] EXCEPT ![y] = e] = [b \in T |-> IF b = y THEN e ELSE f[x][b]]
    BY <2>1
  <2>3. ASSUME NEW a \in S
        PROVE  [f EXCEPT ![x][y] = e][a] = [b \in T |-> IF a = x /\ b = y THEN e ELSE f[a][b]]
    <3>1. CASE a = x
      <4>1. [f EXCEPT ![x][y] = e][a] = [f[x] EXCEPT ![y] = e]
        BY <3>1
      <4> QED BY <2>2, <3>1, <4>1
    <3>2. CASE a # x
      <4>1. [f EXCEPT ![x][y] = e][a] = f[a] /\ f[a] = [b \in T |-> f[a][b]]
        BY <3>2
      <4> QED BY <3>2, <4>1
    <3> QED BY <3>1, <3>2
  <2> QED BY <2>3
<1>2. g = [a \in S |-> [b \in T |-> IF a = x /\ b = y THEN e ELSE f[a][b]]]
  OBVIOUS
<1> QED BY <1>1, <1>2

(* One row of it is replaced. *)
LEMMA RowReplaced ==
  ASSUME NEW S, NEW T, NEW U, NEW f, NEW g, NEW x \in S, NEW e,
         f = [a \in S |-> [b \in T |-> f[a][b]]], g = [a \in S |-> [b \in T |-> g[a][b]]],
         \A a \in S, b \in T : g[a][b] = IF a = x /\ b \in U THEN e ELSE f[a][b]
  PROVE  g = [f EXCEPT ![x] = [b \in T |-> IF b \in U THEN e ELSE f[x][b]]]
<1>1. ASSUME NEW a \in S
      PROVE  g[a] = IF a = x THEN [b \in T |-> IF b \in U THEN e ELSE f[x][b]] ELSE f[a]
  <2>1. g[a] = [b \in T |-> g[a][b]] /\ f[a] = [b \in T |-> f[a][b]]
    OBVIOUS
  <2> QED BY <2>1
<1> QED BY <1>1

(* What the contract sees has the shape it expects. *)
LEMMA Shaped ==
  /\ metaOf = [m \in Names |-> metaOf[m]]
  /\ stagesOf = [m \in Names |-> [j \in StageIdx |-> stagesOf[m][j]]]
  /\ fillOf = [m \in Names |-> [j \in StageIdx |-> fillOf[m][j]]]
  /\ bitsOf = [m \in Names |-> [j \in StageIdx |-> bitsOf[m][j]]]
BY DEF metaOf, stagesOf, fillOf, bitsOf

LEMMA ShapedNext ==
  /\ metaOf' = [m \in Names |-> metaOf'[m]]
  /\ stagesOf' = [m \in Names |-> [j \in StageIdx |-> stagesOf'[m][j]]]
  /\ fillOf' = [m \in Names |-> [j \in StageIdx |-> fillOf'[m][j]]]
  /\ bitsOf' = [m \in Names |-> [j \in StageIdx |-> bitsOf'[m][j]]]
BY DEF metaOf, stagesOf, fillOf, bitsOf

-----------------------------------------------------------------------------
(* The calls.                                                              *)

(* HSET of the filter hash. *)
LEMMA HSetMetaConforms ==
  ASSUME OneSegment, MapsOK, NEW n \in Names, NEW par \in Params,
         HSet(metaKey(n), [par |-> par, stage_count |-> 1])
  PROVE  MapsOK' /\ B!HSetMeta(n, par)
<1> DEFINE f == [par |-> par, stage_count |-> 1]
<1>1. f \in MetaFields
  BY DEF MetaFields
<1>2. hashes' = [hashes EXCEPT ![metaKey(n)] = f] /\ UNCHANGED <<bitmaps, counters, sets>>
  BY <1>1, Copied DEF HSet, MapsOK
<1>0. FilterOf(f) = f
  BY <1>1, Seen
<1> HIDE DEF f
<1>3. \A m \in Names : hashes'[metaKey(m)] = IF m = n THEN f ELSE hashes[metaKey(m)]
  <2> TAKE m \in Names
  <2>1. metaKey(m) \in DOMAIN hashes /\ metaKey(n) \in DOMAIN hashes
    BY KeysKnown DEF MapsOK, HashKeys
  <2>2. metaKey(m) = metaKey(n) => m = n
    <3>1. 0 \in StageIdx
      BY KeysKnown, MemAssumption DEF StageIdx
    <3> QED BY <3>1, HashKeysApart
  <2> QED BY <1>2, <2>1, <2>2
<1>6. \A m \in Names, i \in StageIdx : hashes'[stageMetaKey(m, i)] = hashes[stageMetaKey(m, i)]
  <2> TAKE m \in Names, i \in StageIdx
  <2>1. stageMetaKey(m, i) \in DOMAIN hashes /\ stageMetaKey(m, i) # metaKey(n)
    BY KeysKnown, HashKeysApart DEF MapsOK
  <2> QED BY <1>2, <2>1
<1>4. MapsOK'
  BY <1>1, <1>2, <1>3, <1>6 DEF MapsOK
<1>5. metaOf' = [metaOf EXCEPT ![n] = f] /\ UNCHANGED <<stagesOf, fillOf, bitsOf, sets>>
  <2>1. \A m \in Names : metaOf'[m] = IF m = n THEN f ELSE metaOf[m]
    BY <1>0, <1>3 DEF metaOf
  <2>2. UNCHANGED <<stagesOf, fillOf, bitsOf, sets>>
    BY <1>2, <1>6 DEF stagesOf, fillOf, bitsOf
  <2> QED BY <2>1, <2>2, Shaped, ShapedNext
<1> QED BY <1>4, <1>5 DEF B!HSetMeta, f

(* HSET of a stage hash. *)
LEMMA HSetStageConforms ==
  ASSUME OneSegment, MapsOK, NEW n \in Names, NEW par \in Params,
         HSet(stageMetaKey(n, 0), StageFields(par, 0))
  PROVE  MapsOK' /\ B!HSetStage(n, [par |-> par, index |-> 0])
<1> DEFINE st == [par |-> par, index |-> 0]
           f == StageFields(par, 0)
<1>1. 0 \in StageIdx /\ f \in StageHashes /\ f.stage = st
  BY MemAssumption DEF StageFields, StageHashes, StageIdx
<1>2. hashes' = [hashes EXCEPT ![stageMetaKey(n, 0)] = f] /\ UNCHANGED <<bitmaps, counters, sets>>
  BY <1>1, Copied DEF HSet, MapsOK
<1> HIDE DEF f
<1>3. \A m \in Names : hashes'[metaKey(m)] = hashes[metaKey(m)]
  <2> TAKE m \in Names
  <2>1. metaKey(m) \in DOMAIN hashes /\ stageMetaKey(n, 0) # metaKey(m)
    BY <1>1, KeysKnown, HashKeysApart DEF MapsOK
  <2> QED BY <1>2, <2>1
<1>6. \A m \in Names, i \in StageIdx :
        hashes'[stageMetaKey(m, i)] = IF m = n /\ i = 0 THEN f ELSE hashes[stageMetaKey(m, i)]
  <2> TAKE m \in Names, i \in StageIdx
  <2>1. stageMetaKey(m, i) \in DOMAIN hashes /\ stageMetaKey(n, 0) \in DOMAIN hashes
    BY <1>1, KeysKnown DEF MapsOK
  <2>2. stageMetaKey(m, i) = stageMetaKey(n, 0) <=> m = n /\ i = 0
    BY <1>1, HashKeysApart
  <2> QED BY <1>2, <2>1, <2>2
<1>4. MapsOK'
  BY <1>1, <1>2, <1>3, <1>6 DEF MapsOK
<1>5. stagesOf' = [stagesOf EXCEPT ![n][0] = st] /\ UNCHANGED <<metaOf, fillOf, bitsOf, sets>>
  <2>1. Field(f, "stage") = st
    BY <1>1, Seen
  <2> HIDE DEF st
  <2>2. \A m \in Names, i \in StageIdx :
          stagesOf'[m][i] = IF m = n /\ i = 0 THEN st ELSE stagesOf[m][i]
    BY <1>6, <2>1 DEF stagesOf
  <2>3. stagesOf' = [stagesOf EXCEPT ![n][0] = st]
    BY <1>1, <2>2, Shaped, ShapedNext, Replaced
  <2>4. UNCHANGED <<metaOf, fillOf, bitsOf, sets>>
    BY <1>2, <1>3 DEF metaOf, fillOf, bitsOf
  <2> QED BY <2>3, <2>4
<1> QED BY <1>4, <1>5 DEF B!HSetStage

(* The sets. *)
LEMMA SetsConform ==
  ASSUME MapsOK, NEW n \in Names, SAdd(registryKey, n) \/ SRem(registryKey, n)
  PROVE  MapsOK' /\ (B!SAdd(n) \/ B!SRem(n))
<1>1. UNCHANGED <<bitmaps, hashes, counters>>
  BY DEF SAdd, SRem
<1>2. UNCHANGED <<metaOf, stagesOf, fillOf, bitsOf>>
  BY <1>1 DEF metaOf, stagesOf, fillOf, bitsOf
<1>3. \/ sets' = [sets EXCEPT ![registryKey] = @ \cup {n}]
      \/ sets' = [sets EXCEPT ![registryKey] = @ \ {n}]
  BY DEF SAdd, SRem
<1>4. \/ sets'[registryKey] = sets[registryKey] \cup {n}
      \/ sets'[registryKey] = sets[registryKey] \ {n}
  BY <1>3 DEF MapsOK
<1>5. MapsOK'
  BY <1>1, <1>3 DEF MapsOK
<1> QED BY <1>2, <1>4, <1>5 DEF B!SAdd, B!SRem

(* INCR. *)
LEMMA IncrConforms ==
  ASSUME OneSegment, MapsOK, NEW n \in Names, NEW i \in StageIdx, Incr(fillKey(n, i))
  PROVE  MapsOK' /\ B!Incr(n, i) /\ reply' = <<fillKey(n, i), fillOf[n][i] + 1>>
<1>1. /\ counters' = [counters EXCEPT ![fillKey(n, i)] = @ + 1]
      /\ reply' = <<fillKey(n, i), counters'[fillKey(n, i)]>>
      /\ UNCHANGED <<bitmaps, hashes, sets>>
  BY DEF Incr
<1>2. \A m \in Names, j \in StageIdx :
        counters'[fillKey(m, j)] =
          IF m = n /\ j = i THEN counters[fillKey(n, i)] + 1 ELSE counters[fillKey(m, j)]
  <2> TAKE m \in Names, j \in StageIdx
  <2>1. fillKey(m, j) \in DOMAIN counters /\ fillKey(n, i) \in DOMAIN counters
    BY KeysKnown DEF MapsOK
  <2>2. fillKey(m, j) = fillKey(n, i) <=> m = n /\ j = i
    BY HashKeysApart
  <2> QED BY <1>1, <2>1, <2>2
<1>3. MapsOK'
  BY <1>1 DEF MapsOK
<1>4. fillOf' = [fillOf EXCEPT ![n][i] = @ + 1] /\ UNCHANGED <<metaOf, stagesOf, bitsOf, sets>>
  <2>1. \A m \in Names, j \in StageIdx :
          fillOf'[m][j] = IF m = n /\ j = i THEN fillOf[n][i] + 1 ELSE fillOf[m][j]
    BY <1>2 DEF fillOf
  <2>2. fillOf' = [fillOf EXCEPT ![n][i] = fillOf[n][i] + 1]
    BY <2>1, Shaped, ShapedNext, Replaced
  <2>3. UNCHANGED <<metaOf, stagesOf, bitsOf, sets>>
    BY <1>1 DEF metaOf, stagesOf, bitsOf
  <2> QED BY <2>2, <2>3
<1>5. reply' = <<fillKey(n, i), fillOf[n][i] + 1>>
  BY <1>1, <1>2 DEF fillOf
<1> QED BY <1>3, <1>4, <1>5 DEF B!Incr

(* A batch of bits of one shard. *)
LEMMA SetBitsConforms ==
  ASSUME OneSegment, MapsOK, NEW n \in Names, NEW i \in StageIdx, NEW j \in Shards,
         NEW offs \in Batches, SetBits(shardKey(n, i, j), offs)
  PROVE  MapsOK' /\ SetBatch(n, i, {j} \X offs)
<1>1. bitmaps' = [bitmaps EXCEPT ![shardKey(n, i, j)] = @ \cup offs] /\ UNCHANGED <<hashes, counters, sets>>
  BY DEF SetBits
<1>2. \A m \in Names, k \in StageIdx, s \in Shards :
        bitmaps'[shardKey(m, k, s)] =
          IF m = n /\ k = i /\ s = j THEN bitmaps[shardKey(n, i, j)] \cup offs
          ELSE bitmaps[shardKey(m, k, s)]
  BY <1>1, KeysKnown, KeysApart DEF MapsOK
<1>3. MapsOK'
  BY <1>1 DEF MapsOK
<1>4. bitsOf' = [bitsOf EXCEPT ![n][i] = @ \cup ({j} \X offs)]
  <2>1. offs \subseteq Offsets
    BY DEF Batches
  <2>2. \A m \in Names, k \in StageIdx :
          bitsOf'[m][k] =
            IF m = n /\ k = i THEN bitsOf[n][i] \cup ({j} \X offs) ELSE bitsOf[m][k]
    <3> TAKE m \in Names, k \in StageIdx
    <3>1. /\ bitsOf'[m][k] =
               {b \in Shards \X Offsets : b[2] \in bitmaps'[shardKey(m, k, b[1])]}
          /\ bitsOf[m][k] =
               {b \in Shards \X Offsets : b[2] \in bitmaps[shardKey(m, k, b[1])]}
      BY DEF bitsOf
    <3>2. CASE m = n /\ k = i
      <4>1. \A b \in Shards \X Offsets :
              b[2] \in bitmaps'[shardKey(n, i, b[1])] <=>
                b[2] \in bitmaps[shardKey(n, i, b[1])] \/ b \in {j} \X offs
        <5> TAKE b \in Shards \X Offsets
        <5>1. PICK s \in Shards, o \in Offsets : b = <<s, o>>
          OBVIOUS
        <5>2. b[1] = s /\ b[2] = o /\ (b \in {j} \X offs <=> s = j /\ o \in offs)
          BY <5>1
        <5> QED BY <1>2, <5>2
      <4>2. {j} \X offs \subseteq Shards \X Offsets
        BY <2>1
      <4> QED BY <3>1, <3>2, <4>1, <4>2
    <3>3. CASE ~ (m = n /\ k = i)
      <4>1. \A s \in Shards : bitmaps'[shardKey(m, k, s)] = bitmaps[shardKey(m, k, s)]
        BY <1>2, <3>3
      <4> QED BY <3>1, <3>3, <4>1
    <3> QED BY <3>2, <3>3
  <2>3. bitsOf' = [bitsOf EXCEPT ![n][i] = bitsOf[n][i] \cup ({j} \X offs)]
    BY <2>2, Shaped, ShapedNext, Replaced
  <2> QED BY <2>3
<1>5. UNCHANGED <<metaOf, stagesOf, fillOf, sets>>
  BY <1>1 DEF metaOf, stagesOf, fillOf
<1> QED BY <1>3, <1>4, <1>5 DEF SetBatch

(* The compare-and-append, and what it answers. *)
LEMMA AppendConforms ==
  ASSUME OneSegment, MapsOK, NEW n \in Names, NEW par \in Params, NEW i \in StageIdx \ {0},
         appendNewStage(n, i, par)
  PROVE  /\ MapsOK' /\ B!AppendStage(n, i, [par |-> par, index |-> i])
         /\ reply' = <<metaKey(n), i, B!AppendReply(n, i)>>
<1> DEFINE h == hashes[metaKey(n)]
           f == StageFields(par, i)
           st == [par |-> par, index |-> i]
           g == [par |-> h.par, stage_count |-> i + 1]
<1>1. h \in {<<>>} \cup MetaFields /\ metaOf[n] = FilterOf(h) /\ i \in Nat
  BY MemAssumption DEF MapsOK, metaOf, StageIdx
<1>2. f \in StageHashes /\ Field(f, "stage") = st
  BY DEF StageFields, StageHashes, Field
<1>3. /\ reply' = <<metaKey(n), i,
           IF h = <<>> THEN Nil ELSE IF StageCount(h) = i THEN StageCount(h) + 1 ELSE StageCount(h)>>
      /\ hashes' = IF h # <<>> /\ StageCount(h) = i
                   THEN [hashes EXCEPT ![stageMetaKey(n, i)] = f,
                                       ![metaKey(n)] = Copy(@, [stage_count |-> StageCount(h) + 1])]
                   ELSE hashes
      /\ UNCHANGED <<bitmaps, counters, sets>>
  BY DEF appendNewStage, AppendStage, CountMismatch
<1>4. /\ metaOf[n] = Nil <=> h = <<>>
      /\ h # <<>> => metaOf[n] = h /\ StageCount(h) = h.stage_count
  BY <1>1, Seen
<1>5. reply' = <<metaKey(n), i, B!AppendReply(n, i)>>
  <2> HIDE DEF h
  <2> QED BY <1>3, <1>4 DEF B!AppendReply, B!AppendWins
<1>6. CASE h # <<>> /\ StageCount(h) = i
  <2>1. h \in MetaFields /\ h.stage_count = i /\ B!AppendWins(n, i)
    BY <1>1, <1>4, <1>6 DEF B!AppendWins
  <2>2. Copy(h, [stage_count |-> i + 1]) = g /\ g \in MetaFields
    <3> HIDE DEF h
    <3> QED BY <1>1, <2>1, Copied DEF MetaFields
  <2>3. FilterOf(g) = g
    <3> HIDE DEF g
    <3> QED BY <2>2, Seen
  <2>4. stageMetaKey(n, i) # metaKey(n)
    BY HashKeysApart
  <2>5. hashes' = [hashes EXCEPT ![stageMetaKey(n, i)] = f, ![metaKey(n)] = g]
    <3>1. [hashes EXCEPT ![stageMetaKey(n, i)] = f][metaKey(n)] = h
      BY <2>4, KeysKnown DEF MapsOK
    <3> HIDE DEF f, g
    <3> QED BY <1>3, <1>6, <2>2, <3>1
  <2> HIDE DEF h, f, g, st
  <2>6. \A m \in Names : hashes'[metaKey(m)] = IF m = n THEN g ELSE hashes[metaKey(m)]
    <3> TAKE m \in Names
    <3>1. metaKey(m) \in DOMAIN hashes /\ metaKey(n) \in DOMAIN hashes
      BY KeysKnown DEF MapsOK
    <3>2. (metaKey(m) = metaKey(n) <=> m = n) /\ metaKey(m) # stageMetaKey(n, i)
      BY HashKeysApart
    <3> QED BY <2>5, <3>1, <3>2
  <2>7. \A m \in Names, j \in StageIdx :
          hashes'[stageMetaKey(m, j)] = IF m = n /\ j = i THEN f ELSE hashes[stageMetaKey(m, j)]
    <3> TAKE m \in Names, j \in StageIdx
    <3>1. stageMetaKey(m, j) \in DOMAIN hashes /\ stageMetaKey(n, i) \in DOMAIN hashes
      BY KeysKnown DEF MapsOK
    <3>2. /\ stageMetaKey(m, j) = stageMetaKey(n, i) <=> m = n /\ j = i
          /\ stageMetaKey(m, j) # metaKey(n)
      BY HashKeysApart
    <3> QED BY <2>5, <3>1, <3>2
  <2>8. MapsOK'
    BY <1>2, <1>3, <2>2, <2>5, <2>6, <2>7 DEF MapsOK
  <2>9. metaOf' = [metaOf EXCEPT ![n] = g]
    <3>1. \A m \in Names : metaOf'[m] = IF m = n THEN g ELSE metaOf[m]
      BY <2>3, <2>6 DEF metaOf
    <3> QED BY <3>1, Shaped, ShapedNext
  <2>10. [metaOf EXCEPT ![n] = g] = [metaOf EXCEPT ![n].stage_count = @ + 1]
    <3>1. metaOf[n] = h /\ h \in MetaFields /\ h.stage_count = i
      BY <1>4, <1>6, <2>1
    <3>2. [h EXCEPT !.stage_count = @ + 1] = g
      BY <1>1, <3>1 DEF MetaFields, g
    <3> QED BY <3>1, <3>2
  <2>11. stagesOf' = [stagesOf EXCEPT ![n][i] = st]
    <3>1. \A m \in Names, j \in StageIdx :
            stagesOf'[m][j] = IF m = n /\ j = i THEN st ELSE stagesOf[m][j]
      BY <1>2, <2>7 DEF stagesOf
    <3> QED BY <3>1, Shaped, ShapedNext, Replaced
  <2>12. UNCHANGED <<fillOf, bitsOf, sets>>
    BY <1>3 DEF fillOf, bitsOf
  <2>13. B!AppendStage(n, i, [par |-> par, index |-> i])
    BY <2>1, <2>9, <2>10, <2>11, <2>12 DEF B!AppendStage, st
  <2> QED BY <1>5, <2>8, <2>13
<1>7. CASE ~ (h # <<>> /\ StageCount(h) = i)
  <2>1. UNCHANGED <<bitmaps, hashes, counters, sets>>
    BY <1>3, <1>7
  <2>2. ~ B!AppendWins(n, i)
    BY <1>4, <1>7 DEF B!AppendWins
  <2>3. UNCHANGED <<metaOf, stagesOf, fillOf, bitsOf>>
    BY <2>1 DEF metaOf, stagesOf, fillOf, bitsOf
  <2>4. MapsOK'
    BY <2>1 DEF MapsOK
  <2>5. B!AppendStage(n, i, [par |-> par, index |-> i])
    BY <2>1, <2>2, <2>3 DEF B!AppendStage, B!storeVars
  <2> QED BY <1>5, <2>4, <2>5
<1> QED BY <1>6, <1>7

(* DEL of a filter of c stages. *)
LEMMA DelConforms ==
  ASSUME OneSegment, MapsOK, NEW n \in Names, NEW c \in 1 .. MaxStages, Del(DropKeys(n, c))
  PROVE  MapsOK' /\ B!Del(n, 0 .. c - 1, [i \in 0 .. c - 1 |-> Cardinality(Shards)])
<1> DEFINE D == DropKeys(n, c)
           nums == [i \in 0 .. c - 1 |-> Cardinality(Shards)]
<1>1. /\ bitmaps' = [key \in ShardKeys |-> IF key \in D THEN {} ELSE bitmaps[key]]
      /\ hashes' = [key \in HashKeys |-> IF key \in D THEN <<>> ELSE hashes[key]]
      /\ counters' = [key \in FillKeys |-> IF key \in D THEN 0 ELSE counters[key]]
      /\ sets' = [key \in {registryKey} |-> IF key \in D THEN {} ELSE sets[key]]
  BY DEF Del
<1>2. PICK a \in Shards : TRUE
  BY MemAssumption
<1>3. \A m \in Names, i \in StageIdx :
        /\ metaKey(m) \in D <=> m = n
        /\ stageMetaKey(m, i) \in D <=> m = n /\ i \in 0 .. c - 1
        /\ fillKey(m, i) \in D <=> m = n /\ i \in 0 .. c - 1
        /\ \A j \in Shards : shardKey(m, i, j) \in D <=> m = n /\ i \in 0 .. c - 1
  BY <1>2, DropsItsKeys
<1>4. registryKey \notin D
  <2>1. 0 \in StageIdx
    BY MemAssumption DEF StageIdx
  <2> QED BY <1>2, <2>1, DropsItsKeys
<1> HIDE DEF D
<1>5. \A m \in Names : hashes'[metaKey(m)] = IF m = n THEN <<>> ELSE hashes[metaKey(m)]
  <2> TAKE m \in Names
  <2>1. metaKey(m) \in HashKeys
    BY DEF HashKeys
  <2>2. metaKey(m) \in D <=> m = n
    <3>1. 0 \in StageIdx
      BY MemAssumption DEF StageIdx
    <3> QED BY <1>3, <3>1
  <2> QED BY <1>1, <2>1, <2>2
<1>6. \A m \in Names, i \in StageIdx :
        /\ hashes'[stageMetaKey(m, i)] =
             IF m = n /\ i \in 0 .. c - 1 THEN <<>> ELSE hashes[stageMetaKey(m, i)]
        /\ counters'[fillKey(m, i)] =
             IF m = n /\ i \in 0 .. c - 1 THEN 0 ELSE counters[fillKey(m, i)]
        /\ \A j \in Shards :
             bitmaps'[shardKey(m, i, j)] =
               IF m = n /\ i \in 0 .. c - 1 THEN {} ELSE bitmaps[shardKey(m, i, j)]
  <2> TAKE m \in Names, i \in StageIdx
  <2>1. stageMetaKey(m, i) \in HashKeys /\ fillKey(m, i) \in FillKeys
    BY KeysKnown
  <2>2. hashes'[stageMetaKey(m, i)] =
          IF m = n /\ i \in 0 .. c - 1 THEN <<>> ELSE hashes[stageMetaKey(m, i)]
    BY <1>1, <1>3, <2>1
  <2>3. counters'[fillKey(m, i)] =
          IF m = n /\ i \in 0 .. c - 1 THEN 0 ELSE counters[fillKey(m, i)]
    BY <1>1, <1>3, <2>1
  <2>4. ASSUME NEW j \in Shards
        PROVE  bitmaps'[shardKey(m, i, j)] =
                 IF m = n /\ i \in 0 .. c - 1 THEN {} ELSE bitmaps[shardKey(m, i, j)]
    <3>1. shardKey(m, i, j) \in ShardKeys
      BY KeysKnown
    <3> QED BY <1>1, <1>3, <3>1
  <2> QED BY <2>2, <2>3, <2>4
<1>7. MapsOK'
  <2>1. /\ DOMAIN bitmaps' = ShardKeys /\ DOMAIN hashes' = HashKeys
        /\ DOMAIN counters' = FillKeys /\ DOMAIN sets' = {registryKey}
    BY <1>1
  <2>2. \A m \in Names : hashes'[metaKey(m)] \in {<<>>} \cup MetaFields
    BY <1>5 DEF MapsOK
  <2>3. \A m \in Names, i \in StageIdx : hashes'[stageMetaKey(m, i)] \in {<<>>} \cup StageHashes
    BY <1>6 DEF MapsOK
  <2> QED BY <2>1, <2>2, <2>3 DEF MapsOK
<1>8. metaOf' = [metaOf EXCEPT ![n] = Nil]
  <2>1. \A m \in Names : metaOf'[m] = IF m = n THEN Nil ELSE metaOf[m]
    BY <1>5, Seen DEF metaOf
  <2> QED BY <2>1, Shaped, ShapedNext
<1>9. stagesOf' = [stagesOf EXCEPT ![n] =
                    [i \in StageIdx |-> IF i \in 0 .. c - 1 THEN Nil ELSE stagesOf[n][i]]]
  <2>1. \A m \in Names, i \in StageIdx :
          stagesOf'[m][i] = IF m = n /\ i \in 0 .. c - 1 THEN Nil ELSE stagesOf[m][i]
    BY <1>6, Seen DEF stagesOf
  <2> QED BY <2>1, Shaped, ShapedNext, RowReplaced
<1>10. fillOf' = [fillOf EXCEPT ![n] =
                   [i \in StageIdx |-> IF i \in 0 .. c - 1 THEN 0 ELSE fillOf[n][i]]]
  <2>1. \A m \in Names, i \in StageIdx :
          fillOf'[m][i] = IF m = n /\ i \in 0 .. c - 1 THEN 0 ELSE fillOf[m][i]
    BY <1>6 DEF fillOf
  <2> QED BY <2>1, Shaped, ShapedNext, RowReplaced
<1>11. bitsOf' = [bitsOf EXCEPT ![n] = [i \in StageIdx |->
                   {b \in bitsOf[n][i] : i \notin 0 .. c - 1 \/ b[1] >= nums[i]}]]
  <2>1. \A m \in Names, i \in StageIdx :
          bitsOf'[m][i] = IF m = n /\ i \in 0 .. c - 1 THEN {} ELSE bitsOf[m][i]
    <3> TAKE m \in Names, i \in StageIdx
    <3>1. /\ bitsOf'[m][i] = {b \in Shards \X Offsets : b[2] \in bitmaps'[shardKey(m, i, b[1])]}
          /\ bitsOf[m][i] = {b \in Shards \X Offsets : b[2] \in bitmaps[shardKey(m, i, b[1])]}
      BY DEF bitsOf
    <3>2. CASE m = n /\ i \in 0 .. c - 1
      <4>1. \A b \in Shards \X Offsets : bitmaps'[shardKey(m, i, b[1])] = {}
        BY <1>6, <3>2
      <4> QED BY <3>1, <3>2, <4>1
    <3>3. CASE ~ (m = n /\ i \in 0 .. c - 1)
      <4>1. \A b \in Shards \X Offsets :
              bitmaps'[shardKey(m, i, b[1])] = bitmaps[shardKey(m, i, b[1])]
        BY <1>6, <3>3
      <4> QED BY <3>1, <3>3, <4>1
    <3> QED BY <3>2, <3>3
  <2>2. \A i \in StageIdx :
          {b \in bitsOf[n][i] : i \notin 0 .. c - 1 \/ b[1] >= nums[i]} =
            IF i \in 0 .. c - 1 THEN {} ELSE bitsOf[n][i]
    <3> TAKE i \in StageIdx
    <3>1. Cardinality(Shards) \in Nat
      BY MemAssumption, FS_CardinalityType
    <3>2. \A b \in bitsOf[n][i] : b[1] \in Shards
      BY DEF bitsOf
    <3>3. \A b \in bitsOf[n][i] : ~ (b[1] >= Cardinality(Shards))
      <4> TAKE b \in bitsOf[n][i]
      <4>1. b[1] \in 0 .. Cardinality(Shards) - 1
        BY <3>2, MemAssumption
      <4> QED BY <3>1, <4>1
    <3>4. CASE i \in 0 .. c - 1
      BY <3>3, <3>4
    <3>5. CASE i \notin 0 .. c - 1
      BY <3>5
    <3> QED BY <3>4, <3>5
  <2> HIDE DEF nums
  <2>3. bitsOf' = [bitsOf EXCEPT ![n] =
                    [i \in StageIdx |-> IF i \in 0 .. c - 1 THEN {} ELSE bitsOf[n][i]]]
    BY <2>1, Shaped, ShapedNext, RowReplaced
  <2>4. [i \in StageIdx |-> IF i \in 0 .. c - 1 THEN {} ELSE bitsOf[n][i]] =
          [i \in StageIdx |-> {b \in bitsOf[n][i] : i \notin 0 .. c - 1 \/ b[1] >= nums[i]}]
    BY <2>2
  <2> QED BY <2>3, <2>4
<1>12. UNCHANGED sets[registryKey]
  BY <1>1, <1>4
<1> QED BY <1>7, <1>8, <1>9, <1>10, <1>11, <1>12 
     DEF B!Del, B!StageIdx, StageIdx, nums

(* What reads is answered from what the contract sees. *)
LEMMA QueriesConform ==
  ASSUME OneSegment, MapsOK, NEW n \in Names,
         ListFilters \/ Load(n) \/ \E i \in StageIdx : Exists(n, i)
  PROVE  MapsOK' /\ Query(n)
<1>1. UNCHANGED <<bitmaps, hashes, counters, sets>>
  BY DEF ListFilters, Load, Exists, SMembers, HGetAll, Get, GetBits
<1>2. MapsOK' /\ UNCHANGED B!storeVars
  BY <1>1 DEF MapsOK, B!storeVars, metaOf, stagesOf, fillOf, bitsOf
<1>3. CASE ListFilters
  BY <1>2, <1>3 DEF ListFilters, SMembers, Query
<1>4. CASE HGetAll(metaKey(n))
  <2>1. reply'[1] = metaKey(n) /\ FilterOf(reply'[2]) = metaOf[n]
    BY <1>4 DEF HGetAll, metaOf
  <2> QED BY <1>2, <2>1 DEF Query
<1>5. ASSUME NEW i \in StageIdx, HGetAll(stageMetaKey(n, i))
      PROVE  MapsOK' /\ Query(n)
  <2>1. reply'[1] = stageMetaKey(n, i) /\ Field(reply'[2], "stage") = stagesOf[n][i]
    BY <1>5 DEF HGetAll, stagesOf
  <2> QED BY <1>2, <2>1 DEF Query
<1>6. ASSUME NEW i \in StageIdx, Get(fillKey(n, i))
      PROVE  MapsOK' /\ Query(n)
  <2>1. reply' = <<fillKey(n, i), fillOf[n][i]>>
    BY <1>6 DEF Get, fillOf
  <2> QED BY <1>2, <2>1 DEF Query
<1>7. ASSUME NEW i \in StageIdx, NEW j \in Shards, NEW offs \in Batches,
             GetBits(shardKey(n, i, j), offs)
      PROVE  MapsOK' /\ Query(n)
  <2>1. reply' = <<shardKey(n, i, j), [o \in offs |-> o \in bitmaps[shardKey(n, i, j)]]>>
    BY <1>7 DEF GetBits
  <2>2. \A o \in offs : (o \in bitmaps[shardKey(n, i, j)]) = B!GetBit(n, i, <<j, o>>)
    <3> TAKE o \in offs
    <3>1. <<j, o>> \in Shards \X Offsets /\ <<j, o>>[1] = j /\ <<j, o>>[2] = o
      BY DEF Batches
    <3>2. bitsOf[n][i] = {b \in Shards \X Offsets : b[2] \in bitmaps[shardKey(n, i, b[1])]}
      BY DEF bitsOf
    <3>3. o \in bitmaps[shardKey(n, i, j)] <=> <<j, o>> \in bitsOf[n][i]
      BY <3>1, <3>2
    <3> QED BY <3>3 DEF B!GetBit
  <2>3. [o \in offs |-> o \in bitmaps[shardKey(n, i, j)]] = [o \in offs |-> B!GetBit(n, i, <<j, o>>)]
    BY <2>2, Zenon
  <2>4. reply' = <<shardKey(n, i, j), [o \in offs |-> B!GetBit(n, i, <<j, o>>)]>>
    BY <2>1, <2>3, Zenon
  <2> QED BY <1>2, <2>4, Zenon DEF Query
<1> QED BY <1>3, <1>4, <1>5, <1>6, <1>7 DEF Load, Exists

-----------------------------------------------------------------------------
(* Every step of the store is a call of the contract. *)
LEMMA StepConforms ==
  ASSUME OneSegment, MapsOK, Next
  PROVE  MapsOK' /\ \E n \in Names : Command(n) \/ Query(n)
<1>1. ASSUME NEW n \in Names, NEW par \in Params, New(n, par)
      PROVE  MapsOK' /\ Command(n)
  <2>1. CASE HSet(metaKey(n), [par |-> par, stage_count |-> 1])
    BY <2>1, HSetMetaConforms DEF Command
  <2>2. CASE HSet(stageMetaKey(n, 0), StageFields(par, 0))
    BY <2>2, HSetStageConforms DEF Command
  <2>3. CASE SAdd(registryKey, n)
    BY <2>3, SetsConform DEF Command
  <2> QED BY <1>1, <2>1, <2>2, <2>3 DEF New
<1>2. ASSUME NEW n \in Names, NEW par \in Params, NEW i \in StageIdx \ {0},
             appendNewStage(n, i, par)
      PROVE  MapsOK' /\ Command(n)
  BY <1>2, AppendConforms DEF Command
<1>3. ASSUME NEW n \in Names, Drop(n)
      PROVE  MapsOK' /\ Command(n)
  <2>1. CASE SRem(registryKey, n)
    BY <2>1, SetsConform DEF Command
  <2>2. ASSUME NEW c \in 1 .. MaxStages, Del(DropKeys(n, c))
        PROVE  MapsOK' /\ Command(n)
    BY <2>2, DelConforms DEF Command
  <2> QED BY <1>3, <2>1, <2>2 DEF Drop
<1>4. ASSUME NEW n \in Names, NEW i \in StageIdx, Add(n, i)
      PROVE  MapsOK' /\ Command(n)
  <2>1. CASE Incr(fillKey(n, i))
    BY <2>1, IncrConforms DEF Command
  <2>2. ASSUME NEW j \in Shards, NEW offs \in Batches, SetBits(shardKey(n, i, j), offs)
        PROVE  MapsOK' /\ Command(n)
    BY <2>2, SetBitsConforms DEF Command
  <2> QED BY <1>4, <2>1, <2>2 DEF Add
<1>5. ASSUME NEW n \in Names, ListFilters \/ Load(n) \/ \E i \in StageIdx : Exists(n, i)
      PROVE  MapsOK' /\ Query(n)
  BY <1>5, QueriesConform
<1>6. PICK n \in Names : TRUE
  BY MemAssumption
<1> QED BY <1>1, <1>2, <1>3, <1>4, <1>5, <1>6 DEF Next

(* Where every name is one segment, each call of the in-memory store has   *)
(* the effect and the answer of its command on the state the filter        *)
(* modules see, and no other effect: the tests that run on this store run  *)
(* on the contract (memstore.go, the keys of filter.go).                   *)
THEOREM MemStoreConforms ==
  ASSUME OneSegment
  PROVE  Spec => Conforms
<1>1. Init => MapsOK
  BY KeysKnown DEF Init, MapsOK, HashKeys
<1>2. MapsOK /\ [Next]_vars => MapsOK'
  BY StepConforms DEF MapsOK, vars
<1>3. MapsOK /\ [Next]_vars => [\E n \in Names : Command(n) \/ Query(n)]_vars
  BY StepConforms
<1> QED BY <1>1, <1>2, <1>3, PTL DEF Spec, Conforms
====
