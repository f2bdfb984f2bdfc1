------------------------------- MODULE MemStore -------------------------------
(***************************************************************************)
(* The in-memory store of the tests, pkg/store/memstore.go, called as      *)
(* filter.go calls it.  Four maps under one mutex: every method is one     *)
(* step, also a batch of bits.  Keys are what filter.go makes of a name,   *)
(* split at the colons; a name is a sequence of segments itself, of one    *)
(* where it comes through the API.                                         *)
(***************************************************************************)
EXTENDS Integers, Sequences, FiniteSetsExt

CONSTANTS
  Nil, Names, Params, MaxStages,
  StageSeg(_), ShardSeg(_),  \* the segments s<i> and sh<j>
  Shards, Offsets,           \* the shards of a stage, the offsets in a shard
  MaxFill                    \* bound: items counted in a stage

StageIdx == 0 .. MaxStages - 1

(* Stages and shards are numbered from 0, and their segments differ. *)
ASSUME MemAssumption ==
  /\ Names # {} /\ Names \subseteq Seq(STRING)
  /\ MaxStages \in Nat \ {0}
  /\ IsFiniteSet(Shards) /\ Shards # {} /\ Shards = 0 .. Cardinality(Shards) - 1
  /\ \A i \in StageIdx :
       StageSeg(i) \in STRING /\ \A j \in StageIdx : StageSeg(i) = StageSeg(j) => i = j
  /\ \A i \in Shards :
       /\ ShardSeg(i) \in STRING \ {"meta"}
       /\ \A j \in Shards : ShardSeg(i) = ShardSeg(j) => i = j
  /\ Nil \notin [par : Params, stage_count : Nat]

VARIABLES
  bitmaps, hashes, counters, sets,
  reply  \* what the last method returned, and of which key

vars == <<bitmaps, hashes, counters, sets, reply>>

metaKey(n) == <<"bf">> \o n \o <<"meta">>
stageMetaKey(n, i) == <<"bf">> \o n \o <<StageSeg(i), "meta">>
fillKey(n, i) == stageMetaKey(n, i) \o <<"fill">>
shardKey(n, i, j) == <<"bf">> \o n \o <<StageSeg(i), ShardSeg(j)>>
registryKey == <<"bf", "registry">>

HashKeys == {metaKey(n) : n \in Names} \cup {stageMetaKey(n, i) : n \in Names, i \in StageIdx}
FillKeys == {fillKey(n, i) : n \in Names, i \in StageIdx}
ShardKeys == {shardKey(n, i, j) : n \in Names, i \in StageIdx, j \in Shards}

Init ==
  /\ bitmaps = [key \in ShardKeys |-> {}]
  /\ hashes = [key \in HashKeys |-> <<>>]
  /\ counters = [key \in FillKeys |-> 0]
  /\ sets = [key \in {registryKey} |-> {}]
  /\ reply = Nil

-----------------------------------------------------------------------------
(* The methods.  A missing hash, bitmap or counter is an empty one or 0.   *)

SetBits(key, offs) ==
  /\ bitmaps' = [bitmaps EXCEPT ![key] = @ \cup offs]
  /\ reply' = Nil
  /\ UNCHANGED <<hashes, counters, sets>>

GetBits(key, offs) ==
  /\ reply' = <<key, [o \in offs |-> o \in bitmaps[key]]>>
  /\ UNCHANGED <<bitmaps, hashes, counters, sets>>

(* maps.Copy: fields not given stay. *)
Copy(h, fields) ==
  [f \in DOMAIN h \cup DOMAIN fields |-> IF f \in DOMAIN fields THEN fields[f] ELSE h[f]]

HSet(key, fields) ==
  /\ hashes' = [hashes EXCEPT ![key] = Copy(@, fields)]
  /\ reply' = Nil
  /\ UNCHANGED <<bitmaps, counters, sets>>

HGetAll(key) ==
  /\ reply' = <<key, hashes[key]>>
  /\ UNCHANGED <<bitmaps, hashes, counters, sets>>

Incr(key) ==
  /\ counters' = [counters EXCEPT ![key] = @ + 1]
  /\ reply' = <<key, counters'[key]>>
  /\ UNCHANGED <<bitmaps, hashes, sets>>

Get(key) ==
  /\ reply' = <<key, counters[key]>>
  /\ UNCHANGED <<bitmaps, hashes, counters, sets>>

SAdd(key, member) ==
  /\ sets' = [sets EXCEPT ![key] = @ \cup {member}]
  /\ reply' = Nil
  /\ UNCHANGED <<bitmaps, hashes, counters>>

SRem(key, member) ==
  /\ sets' = [sets EXCEPT ![key] = @ \ {member}]
  /\ reply' = Nil
  /\ UNCHANGED <<bitmaps, hashes, counters>>

SMembers(key) ==
  /\ reply' = <<key, sets[key]>>
  /\ UNCHANGED <<bitmaps, hashes, counters, sets>>

Del(keys) ==
  /\ bitmaps' = [key \in ShardKeys |-> IF key \in keys THEN {} ELSE bitmaps[key]]
  /\ hashes' = [key \in HashKeys |-> IF key \in keys THEN <<>> ELSE hashes[key]]
  /\ counters' = [key \in FillKeys |-> IF key \in keys THEN 0 ELSE counters[key]]
  /\ sets' = [key \in {registryKey} |-> IF key \in keys THEN {} ELSE sets[key]]
  /\ reply' = Nil

(* A stage_count that is missing counts as 0; only a missing hash is an    *)
(* error, here a reply of Nil.                                             *)
StageCount(h) == IF "stage_count" \in DOMAIN h THEN h["stage_count"] ELSE 0

(* An append that does not compare. *)
CountMismatchNever(h, expected) == FALSE

CountMismatch(h, expected) == StageCount(h) # expected

AppendStage(key, expected, fields, stageKey) ==
  LET h == hashes[key]
      count == StageCount(h)
      wins == h # <<>> /\ ~ CountMismatch(h, expected)
  IN  /\ reply' = <<key, expected, IF h = <<>> THEN Nil ELSE IF wins THEN count + 1 ELSE count>>
      /\ hashes' = IF wins
                   THEN [hashes EXCEPT ![stageKey] = fields,
                                       ![key] = Copy(@, [stage_count |-> count + 1])]
                   ELSE hashes
      /\ UNCHANGED <<bitmaps, counters, sets>>

-----------------------------------------------------------------------------
(* The calls of filter.go.                                                 *)

(* m, k and capacity, as in BitStore. *)
StageFields(par, i) == [stage |-> [par |-> par, index |-> i]]

(* The two HSETs and the SADD.                                             *)
New(n, par) ==
  \/ HSet(metaKey(n), [par |-> par, stage_count |-> 1])
  \/ HSet(stageMetaKey(n, 0), StageFields(par, 0))
  \/ SAdd(registryKey, n)

Load(n) ==
  \/ HGetAll(metaKey(n))
  \/ \E i \in StageIdx : HGetAll(stageMetaKey(n, i)) \/ Get(fillKey(n, i))

Batches == (SUBSET Offsets) \ {{}}

Add(n, i) ==
  \/ \E j \in Shards, offs \in Batches : SetBits(shardKey(n, i, j), offs)
  \/ counters[fillKey(n, i)] < MaxFill /\ Incr(fillKey(n, i))

appendNewStage(n, i, par) ==
  AppendStage(metaKey(n), i, StageFields(par, i), stageMetaKey(n, i))

Exists(n, i) ==
  \E j \in Shards, offs \in Batches : GetBits(shardKey(n, i, j), offs)

(* The keys of a filter of c stages. *)
DropKeys(n, c) ==
  {metaKey(n)} \cup
  UNION {{stageMetaKey(n, i), fillKey(n, i)} \cup {shardKey(n, i, j) : j \in Shards}
         : i \in 0 .. c - 1}

Drop(n) ==
  \/ \E c \in 1 .. MaxStages : Del(DropKeys(n, c))
  \/ SRem(registryKey, n)

ListFilters == SMembers(registryKey)

Next ==
  \/ \E n \in Names, par \in Params :
       New(n, par) \/ \E i \in StageIdx \ {0} : appendNewStage(n, i, par)
  \/ \E n \in Names : Load(n) \/ Drop(n) \/ \E i \in StageIdx : Add(n, i) \/ Exists(n, i)
  \/ ListFilters

Spec == Init /\ [][Next]_vars

-----------------------------------------------------------------------------
(* The state of BitStore that the maps stand for.                          *)

Field(h, f) == IF f \in DOMAIN h THEN h[f] ELSE Nil

FilterOf(h) ==
  IF h = <<>> THEN Nil ELSE [par |-> Field(h, "par"), stage_count |-> Field(h, "stage_count")]

metaOf == [n \in Names |-> FilterOf(hashes[metaKey(n)])]

stagesOf == [n \in Names |-> [i \in StageIdx |-> Field(hashes[stageMetaKey(n, i)], "stage")]]

fillOf == [n \in Names |-> [i \in StageIdx |-> counters[fillKey(n, i)]]]

bitsOf == [n \in Names |-> [i \in StageIdx |->
  {b \in Shards \X Offsets : b[2] \in bitmaps[shardKey(n, i, b[1])]}]]

B == INSTANCE BitStore WITH
  Bits <- Shards \X Offsets, meta <- metaOf, stageMeta <- stagesOf,
  fill <- fillOf, bits <- bitsOf, registry <- sets[registryKey]

(* A batch of SETBITs. *)
SetBatch(n, i, bs) ==
  /\ bitsOf' = [bitsOf EXCEPT ![n][i] = @ \cup bs]
  /\ UNCHANGED <<metaOf, stagesOf, fillOf, sets>>

(* The commands of the contract that write, with what they answer. *)
Command(n) ==
  \/ \E par \in Params :
       \/ B!HSetMeta(n, par)
       \/ B!HSetStage(n, [par |-> par, index |-> 0])
       \/ \E i \in StageIdx \ {0} :
            /\ B!AppendStage(n, i, [par |-> par, index |-> i])
            /\ reply' = <<metaKey(n), i, B!AppendReply(n, i)>>
  \/ B!SAdd(n)
  \/ B!SRem(n)
  \/ \E i \in StageIdx :
       \/ B!Incr(n, i) /\ reply' = <<fillKey(n, i), fillOf[n][i] + 1>>
       \/ \E j \in Shards, offs \in Batches : SetBatch(n, i, {j} \X offs)
  \/ \E c \in 1 .. MaxStages :
       B!Del(n, 0 .. c - 1, [i \in 0 .. c - 1 |-> Cardinality(Shards)])

(* Those that read. *)
Query(n) ==
  /\ UNCHANGED B!storeVars
  /\ \/ reply' = <<registryKey, sets[registryKey]>>
     \/ reply'[1] = metaKey(n) /\ FilterOf(reply'[2]) = metaOf[n]
     \/ \E i \in StageIdx :
          \/ reply'[1] = stageMetaKey(n, i) /\ Field(reply'[2], "stage") = stagesOf[n][i]
          \/ reply' = <<fillKey(n, i), fillOf[n][i]>>
          \/ \E j \in Shards, offs \in Batches :
               reply' = <<shardKey(n, i, j), [o \in offs |-> B!GetBit(n, i, <<j, o>>)]>>

(* MemStore keeps the contract that BloomFilter relies on and Valkey       *)
(* keeps: every call has the effect and the answer of its command, and no  *)
(* other effect (memstore.go, the keys of filter.go).                      *)
Conforms == [][\E n \in Names : Command(n) \/ Query(n)]_vars
=============================================================================
