------------------------------ MODULE BitStore ------------------------------
(***************************************************************************)
(* The key/value store behind every filter: the contract of                *)
(* pkg/store/store.go as pkg/store/valkey.go keeps it.  One operator per   *)
(* command; each is one atomic step of the server.  Only SetBits and       *)
(* GetBits are pipelines of several commands, so the atomic step here is   *)
(* one SETBIT or one GETBIT of the pipeline.                               *)
(*                                                                         *)
(* The keys of a filter n are                                              *)
(*   bf:n:meta          hash     meta[n]                                   *)
(*   bf:n:s<i>:meta     hash     stageMeta[n][i]                           *)
(*   bf:n:s<i>:meta:fill  counter  fill[n][i]           (0: no such key)   *)
(*   bf:n:s<i>:sh<j>    bitmap   {b \in bits[n][i] : b[1] = j}             *)
(* and bf:registry is the set registry.  Nil stands for an absent hash.    *)
(***************************************************************************)
EXTENDS Integers, Sequences

CONSTANTS
  Nil,        \* an absent key, an empty reply
  Names,      \* filter names
  Params,     \* the (n, p) a filter is created with; r and s are DefaultR, DefaultS
  MaxStages,  \* bound: a filter has at most this many stages
  Bits        \* the bits of a stage's bitmap, as <<shard, offset>>

StageIdx == 0 .. MaxStages - 1

(* The filter hash: the parameters and the number of stages. *)
Meta == [par : Params, stage_count : 1 .. MaxStages]

(* A stage hash.  m, k and capacity are functions of the filter's          *)
(* parameters and the stage's index (computeStage), so those two stand for *)
(* them; the seed of fill_count is always 0.                               *)
Stages == [par : Params, index : StageIdx]

ASSUME StoreAssumption ==
  /\ MaxStages \in Nat \ {0}
  /\ Bits \subseteq Nat \X Nat
  /\ Nil \notin Names
  /\ Nil \notin Params
  /\ Nil \notin Nat
  /\ Nil \notin Meta
  /\ Nil \notin Stages

VARIABLES meta, stageMeta, fill, bits, registry

storeVars == <<meta, stageMeta, fill, bits, registry>>

StoreTypeOK ==
  /\ meta \in [Names -> Meta \cup {Nil}]
  /\ stageMeta \in [Names -> [StageIdx -> Stages \cup {Nil}]]
  /\ fill \in [Names -> [StageIdx -> Nat]]
  /\ bits \in [Names -> [StageIdx -> SUBSET Bits]]
  /\ registry \subseteq Names

(* HSET of the filter hash.  HSet writes all six fields in every call, so  *)
(* it replaces whatever hash was there.                                    *)
HSetMeta(n, par) ==
  /\ meta' = [meta EXCEPT ![n] = [par |-> par, stage_count |-> 1]]
  /\ UNCHANGED <<stageMeta, fill, bits, registry>>

(* HSET of a stage hash, all four fields of it. *)
HSetStage(n, st) ==
  /\ stageMeta' = [stageMeta EXCEPT ![n][st.index] = st]
  /\ UNCHANGED <<meta, fill, bits, registry>>

(* One SETBIT of a SetBits pipeline, and one GETBIT of a GetBits one. *)
SetBit(n, i, b) ==
  /\ bits' = [bits EXCEPT ![n][i] = @ \cup {b}]
  /\ UNCHANGED <<meta, stageMeta, fill, registry>>

GetBit(n, i, b) == b \in bits[n][i]

(* INCR of a stage's :fill counter, which creates it at 1. *)
Incr(n, i) ==
  /\ fill' = [fill EXCEPT ![n][i] = @ + 1]
  /\ UNCHANGED <<meta, stageMeta, bits, registry>>

SAdd(n) ==
  /\ registry' = registry \cup {n}
  /\ UNCHANGED <<meta, stageMeta, fill, bits>>

SRem(n) ==
  /\ registry' = registry \ {n}
  /\ UNCHANGED <<meta, stageMeta, fill, bits>>

(* Two ways to get DEL's key list wrong: without the filter hash, and      *)
(* without the :fill counters.                                             *)
DelWithoutMeta(n, idxs, shards) ==
  /\ stageMeta' = [stageMeta EXCEPT ![n] =
       [i \in StageIdx |-> IF i \in idxs THEN Nil ELSE stageMeta[n][i]]]
  /\ UNCHANGED <<meta, fill, bits, registry>>

DelWithoutFill(n, idxs, shards) ==
  /\ meta' = [meta EXCEPT ![n] = Nil]
  /\ stageMeta' = [stageMeta EXCEPT ![n] =
       [i \in StageIdx |-> IF i \in idxs THEN Nil ELSE stageMeta[n][i]]]
  /\ bits' = [bits EXCEPT ![n] =
       [i \in StageIdx |-> {b \in bits[n][i] : i \notin idxs \/ b[1] >= shards[i]}]]
  /\ UNCHANGED <<fill, registry>>

(* One DEL of several keys, atomic: the filter hash and, for each stage i  *)
(* of idxs, its hash, its counter and its first shards[i] bitmaps.         *)
Del(n, idxs, shards) ==
  /\ meta' = [meta EXCEPT ![n] = Nil]
  /\ stageMeta' = [stageMeta EXCEPT ![n] =
       [i \in StageIdx |-> IF i \in idxs THEN Nil ELSE stageMeta[n][i]]]
  /\ fill' = [fill EXCEPT ![n] =
       [i \in StageIdx |-> IF i \in idxs THEN 0 ELSE fill[n][i]]]
  /\ bits' = [bits EXCEPT ![n] =
       [i \in StageIdx |-> {b \in bits[n][i] : i \notin idxs \/ b[1] >= shards[i]}]]
  /\ UNCHANGED registry

(* The Lua compare-and-append: only the caller that expects the current    *)
(* stage_count writes its stage and bumps the count.  A missing filter     *)
(* hash matches no expectation.                                            *)
AppendWins(n, expected) ==
  /\ meta[n] # Nil
  /\ meta[n].stage_count = expected

(* A script that replies nil to the loser. *)
AppendReplyNilToLoser(n, expected) ==
  IF AppendWins(n, expected) THEN expected + 1 ELSE Nil

(* What the script replies: the new count, the current one, or nil. *)
AppendReply(n, expected) ==
  IF meta[n] = Nil THEN Nil
  ELSE IF AppendWins(n, expected) THEN expected + 1
  ELSE meta[n].stage_count

(* Three broken scripts: one bumps the count for the loser too, one bumps  *)
(* it and writes no stage, one creates a missing filter hash as HINCRBY    *)
(* alone would.                                                            *)
AppendCountsLoser(n, expected, st) ==
  IF meta[n] # Nil
  THEN /\ meta' = [meta EXCEPT ![n].stage_count = @ + 1]
       /\ stageMeta' = [stageMeta EXCEPT ![n][expected] =
            IF AppendWins(n, expected) THEN st ELSE @]
       /\ UNCHANGED <<fill, bits, registry>>
  ELSE UNCHANGED storeVars

AppendCountOnly(n, expected, st) ==
  IF AppendWins(n, expected)
  THEN /\ meta' = [meta EXCEPT ![n].stage_count = @ + 1]
       /\ UNCHANGED <<stageMeta, fill, bits, registry>>
  ELSE UNCHANGED storeVars

AppendUpsert(n, expected, st) ==
  IF AppendWins(n, expected) \/ meta[n] = Nil
  THEN /\ meta' = [meta EXCEPT ![n] = [par |-> st.par, stage_count |-> expected + 1]]
       /\ stageMeta' = [stageMeta EXCEPT ![n][expected] = st]
       /\ UNCHANGED <<fill, bits, registry>>
  ELSE UNCHANGED storeVars

(* The script as a whole. *)
AppendStage(n, expected, st) ==
  IF AppendWins(n, expected)
  THEN /\ meta' = [meta EXCEPT ![n].stage_count = @ + 1]
       /\ stageMeta' = [stageMeta EXCEPT ![n][expected] = st]
       /\ UNCHANGED <<fill, bits, registry>>
  ELSE UNCHANGED storeVars
=============================================================================
