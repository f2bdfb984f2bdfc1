----------------------------- MODULE ChainProofs -----------------------------
(***************************************************************************)
(* What holds of the keys of a filter even when it is created over itself  *)
(* or deleted under other requests, what more holds where nobody creates   *)
(* or deletes (Settled), and what holds of one process on its own (Alone). *)
(***************************************************************************)
EXTENDS FilterProofs, FiniteSetTheorems

(* A step leaves the filter hashes and the stage hashes as they are, or is *)
(* one of four.                                                            *)
LEMMA HashSteps ==
  ASSUME NEW p \in Procs, Step(p)
  PROVE  \/ meta' = meta /\ stageMeta' = stageMeta
         \/ WriteMeta(p) \/ WriteStage0(p) \/ AppendNewStage(p) \/ DropKeys(p)
BY DEF Step, Serve, Begin, CreateStep, CheckExisting, Register, SAdd,
       LoadStep, LoadMeta, LoadStage, LoadFill, AddStep, SetNextBit, SetBit, IncrFill, Incr,
       ExistsStep, HitBit, MissBit, DropStep, Unregister, SRem, Fail, Return, storeVars

(* The append of a process: either nothing, or one more stage at the end.  *)
LEMMA AppendEffect ==
  ASSUME TypeOK, Shape, NEW p \in Procs, AppendNewStage(p)
  PROVE  \/ meta' = meta /\ stageMeta' = stageMeta
         \/ \E n \in Names, idx \in StageIdx, st \in Stages :
              /\ meta[n] # Nil /\ meta[n].stage_count = idx
              /\ n = hnd[p].name /\ st = computeStage(hnd[p].par, idx)
              /\ meta' = [meta EXCEPT ![n] = [par |-> meta[n].par, stage_count |-> idx + 1]]
              /\ stageMeta' = [stageMeta EXCEPT ![n][idx] = st]
              /\ idx + 1 \in 1 .. MaxStages
<1>1. PICK n, idx, st : n = hnd[p].name /\ idx = Len(hnd[p].stages) /\ st = computeStage(hnd[p].par, idx)
  OBVIOUS
<1>2. pc[p] = "append" /\ AppendStage(n, idx, st)
  BY <1>1 DEF AppendNewStage
<1>3. hnd[p] \in Handles /\ n \in Names /\ idx \in 1 .. MaxStages /\ hnd[p].par \in Params
  BY <1>1, <1>2, AtWork, HandleTypes
<1>4. idx \in StageIdx /\ idx + 1 \in 1 .. MaxStages
  <2>1. Sizable(hnd[p].par, idx) BY <1>1, <1>2 DEF Shape, ShapeOf
  <2>2. idx \in Nat BY <1>3, StoreAssumption
  <2> QED BY <1>3, <2>1, <2>2, SizableInRange
<1>5. st \in Stages
  BY <1>1, <1>3, <1>4, StageType
<1>6. CASE AppendWins(n, idx)
  <2>1. meta[n] # Nil /\ meta[n].stage_count = idx /\ meta[n] \in Meta
    BY <1>3, <1>6 DEF AppendWins, TypeOK, StoreTypeOK
  <2>2. [meta[n] EXCEPT !.stage_count = @ + 1] = [par |-> meta[n].par, stage_count |-> idx + 1]
    BY <2>1 DEF Meta
  <2>3. meta' = [meta EXCEPT ![n] = [meta[n] EXCEPT !.stage_count = @ + 1]]
    BY <1>2, <1>6 DEF AppendStage
  <2>4. stageMeta' = [stageMeta EXCEPT ![n][idx] = st]
    BY <1>2, <1>6 DEF AppendStage
  <2> QED BY <1>1, <1>3, <1>4, <1>5, <2>1, <2>2, <2>3, <2>4
<1>7. CASE ~ AppendWins(n, idx)
  BY <1>2, <1>7 DEF AppendStage, storeVars
<1> QED BY <1>6, <1>7

(* The DEL of Drop takes one filter hash and touches no other filter.      *)
LEMMA DropEffect ==
  ASSUME TypeOK, Shape, NEW p \in Procs, DropKeys(p)
  PROVE  \E n \in Names :
           /\ meta' = [meta EXCEPT ![n] = Nil]
           /\ \A m \in Names : m # n => stageMeta'[m] = stageMeta[m]
<1>1. hnd[p].name \in Names
  BY DEF DropKeys, Shape, ShapeOf, TypeOK, Handles
<1>2. Del(hnd[p].name, DropStages(hnd[p]), DropShards(hnd[p]))
  BY DEF DropKeys
<1>3. \A m \in Names : m # hnd[p].name => stageMeta'[m] = stageMeta[m]
  BY <1>2 DEF Del, TypeOK, StoreTypeOK
<1> QED BY <1>1, <1>2, <1>3 DEF Del

(* Where the creation of a process writes. *)
LEMMA CreateEffect ==
  ASSUME TypeOK, Shape, NEW p \in Procs, pc[p] \in Creating
  PROVE  req[p].name \in Names /\ req[p].par \in Params
<1>1. req[p] # Nil /\ req[p].op = "create"
  BY DEF Shape, ShapeOf, Creating
<1>2. req[p] \in Requests
  BY <1>1 DEF TypeOK
<1> QED BY <1>1, <1>2, RequestTypes

-----------------------------------------------------------------------------
(* GrownStagesPresent is inductive, given the types.                       *)

(* Stages above stage 0 are only written by the append that counts them,   *)
(* and a DEL that leaves some takes the count with it.                     *)
LEMMA StepGrown ==
  ASSUME TypeOK, Shape, GrownStagesPresent, NEW p \in Procs, Step(p)
  PROVE  GrownStagesPresent'
<1>1. CASE meta' = meta /\ stageMeta' = stageMeta
  BY <1>1 DEF GrownStagesPresent
<1>2. CASE WriteMeta(p)
  <2>1. req[p].name \in Names
    BY <1>2, CreateEffect DEF WriteMeta, Creating
  <2>2. meta' = [meta EXCEPT ![req[p].name] = [par |-> req[p].par, stage_count |-> 1]] /\ stageMeta' = stageMeta
    BY <1>2 DEF WriteMeta, HSetMeta
  <2>3. meta'[req[p].name].stage_count = 1
    BY <2>1, <2>2 DEF TypeOK, StoreTypeOK
  <2>4. \A n \in Names : n # req[p].name => meta'[n] = meta[n]
    BY <2>2 DEF TypeOK, StoreTypeOK
  <2> QED BY <2>2, <2>3, <2>4 DEF GrownStagesPresent
<1>3. CASE WriteStage0(p)
  <2>1. req[p].name \in Names
    BY <1>3, CreateEffect DEF WriteStage0, Creating
  <2>2. stageMeta' = [stageMeta EXCEPT ![req[p].name][0] = computeStage(req[p].par, 0)] /\ meta' = meta
    BY <1>3 DEF WriteStage0, HSetStage, computeStage
  <2>3. \A n \in Names, i \in StageIdx : i # 0 => stageMeta'[n][i] = stageMeta[n][i]
    BY <2>2 DEF TypeOK, StoreTypeOK
  <2>4. \A n \in Names : meta[n] # Nil => \A i \in 1 .. meta[n].stage_count - 1 : i \in StageIdx /\ i # 0
    BY StoreAssumption DEF TypeOK, StoreTypeOK, Meta, StageIdx
  <2> QED BY <2>2, <2>3, <2>4 DEF GrownStagesPresent
<1>4. CASE AppendNewStage(p) /\ ~ (meta' = meta /\ stageMeta' = stageMeta)
  <2>1. PICK n \in Names, idx \in StageIdx, st \in Stages :
              /\ meta[n] # Nil /\ meta[n].stage_count = idx
              /\ meta' = [meta EXCEPT ![n] = [par |-> meta[n].par, stage_count |-> idx + 1]]
              /\ stageMeta' = [stageMeta EXCEPT ![n][idx] = st]
    BY <1>4, AppendEffect
  <2>2. \A m \in Names : m # n => meta'[m] = meta[m] /\ stageMeta'[m] = stageMeta[m]
    BY <2>1 DEF TypeOK, StoreTypeOK
  <2>3. /\ meta'[n].stage_count = idx + 1
        /\ stageMeta'[n][idx] = st
        /\ \A i \in StageIdx : i # idx => stageMeta'[n][i] = stageMeta[n][i]
    BY <2>1 DEF TypeOK, StoreTypeOK
  <2>4. st # Nil /\ idx \in Nat
    BY <2>1, StoreAssumption DEF StageIdx
  <2>5. ASSUME NEW i \in 1 .. meta'[n].stage_count - 1 PROVE stageMeta'[n][i] # Nil
    <3>1. i \in 1 .. idx BY <2>3, <2>4
    <3>2. CASE i = idx BY <2>3, <2>4, <3>2
    <3>3. CASE i # idx
      <4>1. i \in 1 .. meta[n].stage_count - 1 /\ i \in StageIdx
        BY <2>1, <2>4, <3>1, <3>3, StoreAssumption DEF StageIdx
      <4>2. stageMeta[n][i] # Nil BY <2>1, <4>1 DEF GrownStagesPresent
      <4> QED BY <2>3, <3>3, <4>1, <4>2
    <3> QED BY <3>2, <3>3
  <2> QED BY <2>2, <2>5 DEF GrownStagesPresent
<1>5. CASE DropKeys(p)
  <2>1. PICK n \in Names :
           /\ meta' = [meta EXCEPT ![n] = Nil]
           /\ \A m \in Names : m # n => stageMeta'[m] = stageMeta[m]
    BY <1>5, DropEffect
  <2>2. meta'[n] = Nil /\ \A m \in Names : m # n => meta'[m] = meta[m]
    BY <2>1 DEF TypeOK, StoreTypeOK
  <2> QED BY <2>1, <2>2 DEF GrownStagesPresent
<1> QED BY <1>1, <1>2, <1>3, <1>4, <1>5, HashSteps

(* The stages a filter has grown are there for as long as it is, through   *)
(* creations over it, deletes that know fewer stages and late appends.     *)
THEOREM GrownStagesStay == Spec => []GrownStagesPresent
<1>1. Init => TypeOK /\ Shape /\ GrownStagesPresent
  <2>1. Init => GrownStagesPresent
    BY DEF Init, GrownStagesPresent
  <2> QED BY <2>1, InitType, InitShape
<1>2. (TypeOK /\ Shape /\ GrownStagesPresent) /\ [Next]_vars => (TypeOK /\ Shape /\ GrownStagesPresent)'
  <2>1. ASSUME TypeOK, Shape, GrownStagesPresent, Next
        PROVE  (TypeOK /\ Shape /\ GrownStagesPresent)'
    BY <2>1, NextIsStep, StepType, StepShape, StepGrown
  <2>2. ASSUME TypeOK, Shape, GrownStagesPresent, UNCHANGED vars
        PROVE  (TypeOK /\ Shape /\ GrownStagesPresent)'
    <3>1. TypeOK' /\ Shape'
      BY <2>2 DEF vars, storeVars, procVars, histVars, TypeOK, StoreTypeOK, Shape, ShapeOf, Pending
    <3>2. GrownStagesPresent'
      BY <2>2 DEF vars, storeVars, GrownStagesPresent
    <3> QED BY <3>1, <3>2
  <2> QED BY <2>1, <2>2
<1> QED BY <1>1, <1>2, PTL DEF Spec

-----------------------------------------------------------------------------
(* A deleted filter comes back only through the HSET of New: no append, by *)
(* whatever process that still has the filter, makes a filter hash.        *)

(* A filter hash appears where there was none only by the HSET of New.     *)
LEMMA StepRevives ==
  ASSUME TypeOK, Shape, NEW p \in Procs, Step(p), NEW n \in Names, meta[n] = Nil, meta'[n] # Nil
  PROVE  pc[p] = "write_meta" /\ req[p].name = n
<1>1. CASE WriteMeta(p)
  <2>1. pc[p] = "write_meta" /\ meta' = [meta EXCEPT ![req[p].name] = [par |-> req[p].par, stage_count |-> 1]]
    BY <1>1 DEF WriteMeta, HSetMeta
  <2> QED BY <2>1 DEF TypeOK, StoreTypeOK
<1>2. CASE WriteStage0(p)
  BY <1>2 DEF WriteStage0, HSetStage
<1>3. CASE AppendNewStage(p)
  BY <1>3, AppendEffect DEF TypeOK, StoreTypeOK
<1>4. CASE DropKeys(p)
  BY <1>4, DropEffect DEF TypeOK, StoreTypeOK
<1> QED BY <1>1, <1>2, <1>3, <1>4, HashSteps

(* OnlyCreateRevives is a property of the specification: an append whose   *)
(* filter was deleted fails (appendStageLua, appendNewStage).              *)
THEOREM OnlyNewRevives == Spec => OnlyCreateRevives
<1>1. TypeOK /\ Shape /\ [Next]_vars =>
        [\A n \in Names : meta[n] = Nil /\ meta'[n] # Nil =>
           \E q \in Procs : pc[q] = "write_meta" /\ req[q].name = n]_vars
  <2> SUFFICES ASSUME TypeOK, Shape, Next, NEW n \in Names, meta[n] = Nil, meta'[n] # Nil
               PROVE  \E q \in Procs : pc[q] = "write_meta" /\ req[q].name = n
    OBVIOUS
  <2> QED BY NextIsStep, StepRevives
<1>2. Spec => [](TypeOK /\ Shape)
  BY TypeAndShape
<1> QED BY <1>1, <1>2, PTL DEF Spec, OnlyCreateRevives

-----------------------------------------------------------------------------
(* A filter without its stage 0 is one that is being created.              *)

(* A process about to write the filter hash does that next.                *)
LEMMA WriteMetaOnly ==
  ASSUME NEW p \in Procs, Step(p), ~ Fail(p), pc[p] = "write_meta"
  PROVE  WriteMeta(p)
BY DEF Step, Serve, Begin, CreateStep, CheckExisting, WriteStage0, Register,
       LoadStep, LoadMeta, LoadStage, LoadFill, AddStep, SetNextBit, IncrFill, AppendNewStage,
       ExistsStep, HitBit, MissBit, DropStep, DropKeys, Unregister, Return

(* A process about to write stage 0 does that next.                        *)
LEMMA WriteStage0Only ==
  ASSUME NEW p \in Procs, Step(p), ~ Fail(p), pc[p] = "write_stage0"
  PROVE  WriteStage0(p)
BY DEF Step, Serve, Begin, CreateStep, CheckExisting, WriteMeta, Register,
       LoadStep, LoadMeta, LoadStage, LoadFill, AddStep, SetNextBit, IncrFill, AppendNewStage,
       ExistsStep, HitBit, MissBit, DropStep, DropKeys, Unregister, Return

(* Whoever makes or keeps a filter without its stage 0 is a New about to   *)
(* write it.                                                               *)
LEMMA StepHalfMade ==
  ASSUME TypeOK, Shape, HalfMadeOnlyWhileCreating, NEW p \in Procs, Step(p), ~ Fail(p),
         NEW n \in Names, meta'[n] # Nil, stageMeta'[n][0] = Nil
  PROVE  \E q \in Procs : pc'[q] = "write_stage0" /\ req'[q].name = n
<1>0. 0 \in StageIdx /\ 0 \in Nat
  BY StoreAssumption DEF StageIdx
<1>1. CASE WriteMeta(p) /\ req[p].name = n
  BY <1>1 DEF WriteMeta, Goto, TypeOK
<1>2. CASE ~ (WriteMeta(p) /\ req[p].name = n)
  <2>1. meta[n] # Nil
    BY <1>2, StepRevives, WriteMetaOnly
  <2>2. stageMeta[n][0] = Nil /\ ~ (WriteStage0(p) /\ req[p].name = n)
    <3>1. CASE meta' = meta /\ stageMeta' = stageMeta
      <4>1. WriteStage0(p) => stageMeta'[req[p].name][0] = computeStage(req[p].par, 0)
        BY <1>0, CreateEffect DEF WriteStage0, HSetStage, computeStage, Creating, TypeOK, StoreTypeOK
      <4>2. WriteStage0(p) => computeStage(req[p].par, 0) # Nil
        BY <1>0, CreateEffect, StageType, StoreAssumption DEF WriteStage0, Creating
      <4> QED BY <3>1, <4>1, <4>2
    <3>2. CASE WriteMeta(p)
      BY <3>2 DEF WriteMeta, HSetMeta, WriteStage0
    <3>3. CASE WriteStage0(p)
      <4>1. stageMeta' = [stageMeta EXCEPT ![req[p].name][0] = computeStage(req[p].par, 0)]
        BY <3>3 DEF WriteStage0, HSetStage, computeStage
      <4>2. computeStage(req[p].par, 0) # Nil
        BY <3>3, <1>0, CreateEffect, StageType, StoreAssumption DEF WriteStage0, Creating
      <4>3. req[p].name # n
        BY <1>0, <4>1, <4>2 DEF TypeOK, StoreTypeOK
      <4> QED BY <4>1, <4>3 DEF TypeOK, StoreTypeOK
    <3>4. CASE AppendNewStage(p) /\ ~ (meta' = meta /\ stageMeta' = stageMeta)
      <4>1. PICK m \in Names, idx \in StageIdx, st \in Stages :
              /\ meta[m] # Nil /\ meta[m].stage_count = idx
              /\ stageMeta' = [stageMeta EXCEPT ![m][idx] = st]
        BY <3>4, AppendEffect
      <4>2. idx # 0
        BY <4>1, StoreAssumption DEF TypeOK, StoreTypeOK, Meta
      <4>3. stageMeta'[n][0] = stageMeta[n][0]
        BY <1>0, <4>1, <4>2 DEF TypeOK, StoreTypeOK
      <4> QED BY <3>4, <4>3 DEF AppendNewStage, WriteStage0
    <3>5. CASE DropKeys(p)
      <4>1. PICK m \in Names :
              /\ meta' = [meta EXCEPT ![m] = Nil]
              /\ \A k \in Names : k # m => stageMeta'[k] = stageMeta[k]
        BY <3>5, DropEffect
      <4>2. n # m
        BY <4>1 DEF TypeOK, StoreTypeOK
      <4> QED BY <3>5, <4>1, <4>2 DEF DropKeys, WriteStage0
    <3> QED BY <3>1, <3>2, <3>3, <3>4, <3>5, HashSteps
  <2>3. PICK q \in Procs : pc[q] = "write_stage0" /\ req[q].name = n
    BY <2>1, <2>2 DEF HalfMadeOnlyWhileCreating
  <2>4. q # p
    BY <2>2, <2>3, WriteStage0Only
  <2>5. pc'[q] = pc[q] /\ req'[q] = req[q]
    BY <2>4, OthersUntouched DEF Untouched
  <2> QED BY <2>3, <2>5
<1> QED BY <1>1, <1>2

(* Without store failures a filter that every Load reports as an internal  *)
(* error for want of its stage 0 is one that some New is about to complete.*)
THEOREM HalfMadeIsBeingMade ==
  ASSUME FaultProne = {}
  PROVE  Spec => []HalfMadeOnlyWhileCreating
<1>1. Init => HalfMadeOnlyWhileCreating
  <2> SUFFICES ASSUME Init, NEW n \in Names, meta[n] # Nil PROVE stageMeta[n][0] # Nil
    BY DEF HalfMadeOnlyWhileCreating
  <2>1. 0 \in StageIdx
    BY StoreAssumption DEF StageIdx
  <2>2. Seed[n] # Nil /\ stageMeta[n][0] = computeStage(Seed[n], 0)
    BY <2>1 DEF Init
  <2>3. Seed[n] \in Params
    BY <2>2, FilterAssumption
  <2>4. computeStage(Seed[n], 0) \in Stages
    BY <2>1, <2>3, StageType
  <2> QED BY <2>2, <2>4, StoreAssumption
<1>2. TypeOK /\ Shape /\ HalfMadeOnlyWhileCreating /\ [Next]_vars => HalfMadeOnlyWhileCreating'
  <2>1. ASSUME TypeOK, Shape, HalfMadeOnlyWhileCreating, Next PROVE HalfMadeOnlyWhileCreating'
    <3>1. PICK p \in Procs : Step(p)
      BY <2>1, NextIsStep
    <3>2. ~ Fail(p) BY DEF Fail
    <3> QED BY <2>1, <3>1, <3>2, StepHalfMade DEF HalfMadeOnlyWhileCreating
  <2>2. ASSUME HalfMadeOnlyWhileCreating, UNCHANGED vars PROVE HalfMadeOnlyWhileCreating'
    BY <2>2 DEF vars, storeVars, procVars, HalfMadeOnlyWhileCreating
  <2> QED BY <2>1, <2>2
<1> QED BY <1>1, <1>2, TypeAndShape, PTL DEF Spec

-----------------------------------------------------------------------------
(* One chain, closed stage by stage, where nobody creates or deletes.      *)

(* A process serves what it issued. *)
Issued == \A p \in Procs : req[p] # Nil => req[p].op \in Issues[p]

LEMMA IssuedStays ==
  ASSUME TypeOK, Shape, Issued, NEW p \in Procs, Step(p)
  PROVE  Issued'
<1>1. ASSUME NEW r \in Requests, Begin(p, r) PROVE Issued'
  <2>1. req' = [req EXCEPT ![p] = r] /\ r.op \in Issues[p]
    BY <1>1 DEF Begin
  <2> QED BY <2>1 DEF TypeOK, Issued
<1>2. CASE Return(p)
  BY <1>2 DEF Return, TypeOK, Issued
<1>3. CASE req' = req
  BY <1>3 DEF Issued
<1> QED BY <1>1, <1>2, <1>3
        DEF Step, Serve, CreateStep, CheckExisting, WriteMeta, WriteStage0, Register,
            LoadStep, LoadMeta, LoadStage, LoadFill, Enter, AddStep, SetNextBit, IncrFill, AppendNewStage,
            ExistsStep, HitBit, MissBit, DropStep, DropKeys, Unregister, Fail

(* Only additions and reads are issued. *)
Settled == \A p \in Procs : Issues[p] \cap {"create", "delete"} = {}

(* The stages are the first ones that computeStage gives for filter n.     *)
Follows(n, par, stages) ==
  /\ meta[n] # Nil /\ par = meta[n].par
  /\ Len(stages) <= meta[n].stage_count
  /\ \A i \in 1 .. Len(stages) : stages[i] = computeStage(par, i - 1)

(* A process has a true copy of the chain, and appends to a full stage.    *)
FollowerOf(p) ==
  /\ hnd[p] # Nil => Follows(hnd[p].name, hnd[p].par, hnd[p].stages)
  /\ pc[p] \in {"load_stage", "load_fill"} =>
       /\ Follows(req[p].name, ld[p].par, ld[p].stages)
       /\ ld[p].count <= meta[req[p].name].stage_count
  /\ pc[p] = "append" =>
       fill[hnd[p].name][Len(hnd[p].stages) - 1] >= Capacity(Last(hnd[p].stages))

OneChain == Issued /\ ChainIntact /\ FullBeforeGrow /\ \A p \in Procs : FollowerOf(p)

LEMMA NobodyManages ==
  ASSUME TypeOK, Shape, Issued, Settled, NEW p \in Procs
  PROVE  pc[p] \notin Creating \cup {"del"}
<1>1. req[p] # Nil => req[p].op \notin {"create", "delete"}
  BY DEF Issued, Settled
<1> QED BY <1>1 DEF Shape, ShapeOf, Creating

(* Filters stay, and their counts and counters only go up.                 *)
Grows(n) ==
  /\ meta[n] # Nil =>
       /\ meta'[n] # Nil /\ meta'[n].par = meta[n].par
       /\ meta[n].stage_count <= meta'[n].stage_count
  /\ \A i \in StageIdx : fill[n][i] <= fill'[n][i]

LEMMA StoreGrows ==
  ASSUME TypeOK, Shape, Issued, Settled, NEW p \in Procs, Step(p), NEW n \in Names
  PROVE  Grows(n)
<1>1. ~ WriteMeta(p) /\ ~ WriteStage0(p) /\ ~ DropKeys(p)
  BY NobodyManages DEF WriteMeta, WriteStage0, DropKeys, Creating
<1>2. \A i \in StageIdx : fill[n][i] \in Nat
  BY DEF TypeOK, StoreTypeOK
<1>3. \A i \in StageIdx : fill[n][i] <= fill'[n][i]
  <2>1. CASE fill' = fill
    BY <1>2, <2>1
  <2>2. CASE IncrFill(p)
    <3>1. fill' = [fill EXCEPT ![hnd[p].name][at[p]] = @ + 1]
      BY <2>2 DEF IncrFill, Incr
    <3>2. \A i \in StageIdx : fill'[n][i] = fill[n][i] \/ fill'[n][i] = fill[n][i] + 1
      BY <3>1 DEF TypeOK, StoreTypeOK
    <3> QED BY <1>2, <3>2
  <2>3. fill' = fill \/ IncrFill(p)
    BY <1>1 DEF Step, Serve, Begin, CreateStep, CheckExisting, Register, SAdd,
       LoadStep, LoadMeta, LoadStage, LoadFill, AddStep, SetNextBit, SetBit, AppendNewStage,
       AppendStage, ExistsStep, HitBit, MissBit, DropStep, Unregister, SRem, Fail, Return, storeVars
  <2> QED BY <2>1, <2>2, <2>3
<1>4. meta[n] # Nil => meta[n] \in Meta /\ meta[n].stage_count \in Int
  BY DEF TypeOK, StoreTypeOK, Meta
<1>5. CASE meta' = meta
  BY <1>3, <1>4, <1>5 DEF Grows
<1>6. CASE meta' # meta
  <2>1. PICK m \in Names, idx \in StageIdx :
              /\ meta[m] # Nil /\ meta[m].stage_count = idx
              /\ meta' = [meta EXCEPT ![m] = [par |-> meta[m].par, stage_count |-> idx + 1]]
              /\ idx + 1 \in 1 .. MaxStages
    BY <1>1, <1>6, HashSteps, AppendEffect
  <2>2. [par |-> meta[m].par, stage_count |-> idx + 1] \in Meta
    BY <2>1 DEF TypeOK, StoreTypeOK, Meta
  <2>3. [par |-> meta[m].par, stage_count |-> idx + 1] # Nil /\ idx \in Int
    BY <2>2, StoreAssumption DEF StageIdx
  <2> QED BY <1>3, <1>4, <2>1, <2>3 DEF Grows, TypeOK, StoreTypeOK
<1> QED BY <1>5, <1>6

LEMMA StaysFollowing ==
  ASSUME TypeOK, TypeOK', NEW n \in Names, NEW par, NEW stages \in Seq(Stages),
         Grows(n), Follows(n, par, stages)
  PROVE  Follows(n, par, stages)'
<1>1. meta[n].stage_count \in Int /\ meta'[n].stage_count \in Int /\ Len(stages) \in Nat
  BY DEF Follows, Grows, TypeOK, StoreTypeOK, Meta
<1> QED BY <1>1 DEF Follows, Grows

(* The data of a copy. *)
LEMMA CopyTypes ==
  ASSUME TypeOK, Shape, NEW p \in Procs
  PROVE  /\ hnd[p] # Nil => /\ hnd[p] \in Handles /\ hnd[p].name \in Names
                            /\ hnd[p].stages \in Seq(Stages)
                            /\ Len(hnd[p].stages) \in 1 .. MaxStages
                            /\ Len(hnd[p].stages) - 1 \in StageIdx
                            /\ Last(hnd[p].stages) \in Stages
                            /\ Last(hnd[p].stages) = hnd[p].stages[Len(hnd[p].stages)]
         /\ pc[p] \in Loading => req[p] # Nil /\ req[p].name \in Names
         /\ pc[p] \in {"load_stage", "load_fill"} =>
              ld[p] \in Loads /\ ld[p].stages \in Seq(Stages) /\ ld[p].count \in Int
<1>1. hnd[p] # Nil => hnd[p] \in Handles /\ Len(hnd[p].stages) \in 1 .. MaxStages
  BY DEF TypeOK, Shape, ShapeOf
<1>2. pc[p] \in Loading => req[p] \in Requests
  BY DEF TypeOK, Shape, ShapeOf, Loading
<1>3. pc[p] \in {"load_stage", "load_fill"} => ld[p] \in Loads
  BY DEF TypeOK, Shape, ShapeOf
<1> QED BY <1>1, <1>2, <1>3, HandleTypes, RequestTypes DEF Loads, Last

(* The copies of the processes that do not move stay true.                 *)
LEMMA OthersFollow ==
  ASSUME TypeOK, TypeOK', Shape, NEW q \in Procs, Untouched(q), FollowerOf(q),
         \A n \in Names : Grows(n)
  PROVE  FollowerOf(q)'
<1>1. hnd[q] # Nil => Follows(hnd[q].name, hnd[q].par, hnd[q].stages)'
  BY CopyTypes, StaysFollowing DEF FollowerOf, Untouched
<1>2. ASSUME pc[q] \in {"load_stage", "load_fill"}
      PROVE  /\ Follows(req[q].name, ld[q].par, ld[q].stages)'
             /\ ld[q].count <= meta'[req[q].name].stage_count
  <2>1. /\ req[q].name \in Names /\ ld[q].stages \in Seq(Stages) /\ ld[q].count \in Int
        /\ Follows(req[q].name, ld[q].par, ld[q].stages)
        /\ ld[q].count <= meta[req[q].name].stage_count
    BY <1>2, CopyTypes DEF FollowerOf, Loading
  <2>2. Follows(req[q].name, ld[q].par, ld[q].stages)'
    <3>1. Grows(req[q].name) BY <2>1
    <3>2. Follows(req[q].name, ld[q].par, ld[q].stages)'
      BY <2>1, <3>1, StaysFollowing DEF Untouched
    <3> QED BY <3>2
  <2>3. meta[req[q].name] # Nil /\ meta'[req[q].name] # Nil
    BY <2>1 DEF Follows, Grows
  <2>4. /\ meta[req[q].name].stage_count \in Int /\ meta'[req[q].name].stage_count \in Int
        /\ meta[req[q].name].stage_count <= meta'[req[q].name].stage_count
    BY <2>1, <2>3 DEF TypeOK, StoreTypeOK, Meta, Grows
  <2> QED BY <2>1, <2>2, <2>4
<1>3. ASSUME pc[q] = "append"
      PROVE  fill'[hnd[q].name][Len(hnd[q].stages) - 1] >= Capacity(Last(hnd[q].stages))
  <2>1. /\ hnd[q].name \in Names /\ Len(hnd[q].stages) - 1 \in StageIdx
        /\ Capacity(Last(hnd[q].stages)) \in Int
    BY <1>3, CopyTypes, FilterAssumption DEF Shape, ShapeOf, Adding
  <2>2. /\ fill[hnd[q].name][Len(hnd[q].stages) - 1] \in Int
        /\ fill'[hnd[q].name][Len(hnd[q].stages) - 1] \in Int
    <3>1. fill \in [Names -> [StageIdx -> Nat]] /\ fill' \in [Names -> [StageIdx -> Nat]]
      BY DEF TypeOK, StoreTypeOK
    <3> QED BY <2>1, <3>1
  <2> QED BY <1>3, <2>1, <2>2 DEF Grows, FollowerOf
<1> QED BY <1>1, <1>2, <1>3 DEF FollowerOf, Untouched

(* Load reads the chain from its start. *)
LEMMA LoadFollows ==
  ASSUME TypeOK, TypeOK', Shape, OneChain, NEW p \in Procs, LoadStep(p)
  PROVE  FollowerOf(p)'
<1>1. /\ req' = req /\ meta' = meta /\ fill' = fill
      /\ req[p] \in Requests /\ req[p].name \in Names /\ req[p].op # "create"
      /\ pc[p] \in Loading
      /\ FollowerOf(p)
  <2>1. pc[p] \in Loading /\ UNCHANGED <<req, meta, fill>>
    BY DEF LoadStep, LoadMeta, LoadStage, LoadFill, Loading, storeVars
  <2> QED BY <2>1, RequestTypes, FilterAssumption DEF OneChain, TypeOK, Shape, ShapeOf, Loading
<1>2. CASE LoadMeta(p)
  <2>1. CASE meta[req[p].name] = Nil
    BY <1>1, <1>2, <2>1 DEF LoadMeta, Finish, FollowerOf, Follows, TypeOK
  <2>2. CASE meta[req[p].name] # Nil
    <3>1. /\ hnd' = hnd /\ pc'[p] = "load_stage"
          /\ ld'[p] = [par |-> meta[req[p].name].par, count |-> meta[req[p].name].stage_count,
                       stages |-> <<>>, fills |-> <<>>]
      BY <1>2, <2>2 DEF LoadMeta, Goto, TypeOK
    <3>2. meta[req[p].name].stage_count \in 1 .. MaxStages
      BY <1>1, <2>2 DEF TypeOK, StoreTypeOK, Meta
    <3>3. ld'[p].stages = <<>> /\ ld'[p].par = meta[req[p].name].par
          /\ ld'[p].count = meta[req[p].name].stage_count
      BY <3>1
    <3>4. Follows(req[p].name, ld[p].par, ld[p].stages)' /\ ld'[p].count <= meta'[req'[p].name].stage_count
      BY <1>1, <2>2, <3>2, <3>3, StoreAssumption DEF Follows
    <3> QED BY <1>1, <3>1, <3>4 DEF FollowerOf, Follows
  <2> QED BY <2>1, <2>2
<1>3. CASE LoadStage(p)
  <2> DEFINE n == req[p].name
             l == ld[p]
             st == stageMeta[n][Len(l.stages)]
  <2>1. pc[p] = "load_stage" /\ hnd' = hnd
    BY <1>3 DEF LoadStage
  <2>2. /\ l \in Loads /\ l.stages \in Seq(Stages) /\ l.count \in Int
        /\ Len(l.stages) < l.count
        /\ Follows(n, l.par, l.stages) /\ l.count <= meta[n].stage_count
    BY <1>1, <2>1, CopyTypes DEF FollowerOf, Shape, ShapeOf
  <2>3. CASE st = Nil
    <3>1. pc'[p] = "done" BY <1>3, <2>3 DEF LoadStage, Finish, TypeOK
    <3> QED BY <1>1, <2>1, <3>1 DEF FollowerOf, Follows
  <2>4. CASE st # Nil
    <3>1. pc'[p] = "load_fill" /\ ld'[p] = [l EXCEPT !.stages = Append(@, st)]
      BY <1>3, <2>4 DEF LoadStage, Goto, TypeOK
    <3>2. ld'[p].par = l.par /\ ld'[p].count = l.count /\ ld'[p].stages = Append(l.stages, st)
      BY <2>2, <3>1 DEF Loads
    <3>3. /\ Len(l.stages) \in StageIdx /\ Len(l.stages) < meta[n].stage_count
          /\ meta[n].stage_count \in Int /\ meta[n] # Nil
      <4>1. Len(l.stages) \in Nat /\ l.count \in 1 .. MaxStages
        BY <2>2 DEF Loads
      <4>2. meta[n] # Nil /\ meta[n].stage_count \in Int
        BY <1>1, <2>2 DEF Follows, TypeOK, StoreTypeOK, Meta
      <4> QED BY <2>2, <4>1, <4>2, StoreAssumption DEF StageIdx
    <3>4. st = computeStage(l.par, Len(l.stages)) /\ st \in Stages
      <4>1. stageMeta[n][Len(l.stages)] = computeStage(meta[n].par, Len(l.stages))
        BY <1>1, <3>3 DEF OneChain, ChainIntact
      <4>2. l.par = meta[n].par
        BY <2>2 DEF Follows
      <4>3. stageMeta[n][Len(l.stages)] \in Stages \cup {Nil}
        BY <1>1, <3>3 DEF TypeOK, StoreTypeOK
      <4> QED BY <2>4, <4>1, <4>2, <4>3
    <3>5. Follows(n, l.par, Append(l.stages, st))
      <4>1. Len(Append(l.stages, st)) = Len(l.stages) + 1 /\ Len(l.stages) \in Nat
        BY <2>2
      <4>2. ASSUME NEW i \in 1 .. Len(l.stages) + 1
            PROVE  Append(l.stages, st)[i] = computeStage(l.par, i - 1)
        <5> HIDE DEF st
        <5>1. CASE i = Len(l.stages) + 1
          <6>1. Append(l.stages, st)[i] = st BY <2>2, <3>4, <5>1
          <6>2. i - 1 = Len(l.stages) BY <4>1, <5>1
          <6> QED BY <3>4, <6>1, <6>2
        <5>2. CASE i # Len(l.stages) + 1
          <6>1. i \in 1 .. Len(l.stages) BY <4>1, <5>2
          <6>2. Append(l.stages, st)[i] = l.stages[i] BY <2>2, <3>4, <6>1
          <6> QED BY <2>2, <6>1, <6>2 DEF Follows
        <5> QED BY <5>1, <5>2
      <4> QED BY <2>2, <3>3, <4>1, <4>2 DEF Follows
    <3> QED BY <1>1, <2>1, <2>2, <3>1, <3>2, <3>5 DEF FollowerOf, Follows
  <2> QED BY <2>3, <2>4
<1>4. CASE LoadFill(p)
  <2> DEFINE n == req[p].name
             l == ld[p]
  <2>1. pc[p] = "load_fill"
    BY <1>4 DEF LoadFill
  <2>2. l \in Loads /\ Follows(n, l.par, l.stages) /\ l.count <= meta[n].stage_count
    BY <1>1, <2>1, CopyTypes DEF FollowerOf
  <2>3. ld'[p].par = l.par /\ ld'[p].count = l.count /\ ld'[p].stages = l.stages
    BY <1>4, <2>2 DEF LoadFill, Loads, TypeOK
  <2>4. CASE Len(l.stages) < l.count
    <3>1. pc'[p] = "load_stage" /\ hnd' = hnd
      BY <1>4, <2>4 DEF LoadFill, Goto, TypeOK
    <3> QED BY <1>1, <2>2, <2>3, <3>1 DEF FollowerOf, Follows
  <2>5. CASE ~ (Len(l.stages) < l.count) /\ hnd[p] = Nil
    <3>1. Enter(p, req[p], [name |-> n, par |-> l.par, stages |-> l.stages])
      BY <1>4, <2>5 DEF LoadFill
    <3>2. hnd'[p] = [name |-> n, par |-> l.par, stages |-> l.stages] /\ pc'[p] = EntryLabel[req[p].op]
      BY <3>1 DEF Enter, TypeOK
    <3>3. pc'[p] \in {"set_bits", "get_bits", "done", "del"}
      BY <1>1, <3>2, RequestTypes DEF EntryLabel
    <3>4. Follows(hnd[p].name, hnd[p].par, hnd[p].stages)'
      BY <1>1, <2>2, <3>2 DEF Follows
    <3> QED BY <3>3, <3>4 DEF FollowerOf
  <2>6. CASE ~ (Len(l.stages) < l.count) /\ hnd[p] # Nil
    <3>1. hnd'[p] = [hnd[p] EXCEPT !.stages = l.stages] /\ pc'[p] = "done"
      BY <1>4, <2>6 DEF LoadFill, Finish, TypeOK
    <3>2. hnd[p] \in Handles /\ hnd[p].name = n
      BY <1>1, <2>6, CopyTypes DEF Shape, ShapeOf, Loading
    <3>3. hnd'[p].name = n /\ hnd'[p].par = hnd[p].par /\ hnd'[p].stages = l.stages
      BY <3>1, <3>2 DEF Handles
    <3>4. hnd[p].par = meta[n].par
      BY <1>1, <2>6, <3>2 DEF FollowerOf, Follows
    <3> QED BY <1>1, <2>2, <3>1, <3>3, <3>4 DEF FollowerOf, Follows
  <2> QED BY <2>4, <2>5, <2>6
<1> QED BY <1>2, <1>3, <1>4 DEF LoadStep

(* A request that arrives, and every step but those of Load and Add, leave *)
(* the Filter as it is, or give it up.                                     *)
LEMMA QuietFollows ==
  ASSUME TypeOK, TypeOK', Shape, NEW p \in Procs, FollowerOf(p), \A n \in Names : Grows(n),
         hnd'[p] = hnd[p] \/ hnd'[p] = Nil,
         pc'[p] \notin {"load_stage", "load_fill", "append"}
  PROVE  FollowerOf(p)'
BY CopyTypes, StaysFollowing DEF FollowerOf

(* Add counts its item; a counter that makes it append is at the capacity. *)
LEMMA IncrFollows ==
  ASSUME TypeOK, TypeOK', Shape, NEW p \in Procs, FollowerOf(p), \A n \in Names : Grows(n),
         IncrFill(p)
  PROVE  FollowerOf(p)'
<1> DEFINE h == hnd[p]
           i == Len(h.stages) - 1
<1>1. /\ pc[p] = "incr" /\ hnd' = hnd
      /\ h # Nil /\ at[p] = i /\ pc'[p] \in {"done", "append"}
  BY DEF IncrFill, Finish, Goto, Shape, ShapeOf, Adding, TypeOK
<1>2. CASE pc'[p] = "done"
  BY <1>1, <1>2, QuietFollows
<1>3. CASE pc'[p] = "append"
  <2>1. Full(Last(h.stages), fill[h.name][i] + 1) /\ Incr(h.name, i)
    BY <1>1, <1>3 DEF IncrFill, Finish, TypeOK
  <2>2. fill'[h.name][i] = fill[h.name][i] + 1
    BY <1>1, <2>1, CopyTypes DEF Incr, TypeOK, StoreTypeOK
  <2>3. fill'[h.name][i] >= Capacity(Last(h.stages))
    BY <2>1, <2>2 DEF Full
  <2>4. Follows(h.name, h.par, h.stages)'
    BY <1>1, CopyTypes, StaysFollowing DEF FollowerOf
  <2> QED BY <1>1, <1>3, <2>3, <2>4 DEF FollowerOf, Follows
<1> QED BY <1>1, <1>2, <1>3

(* A process that wins the append, or finds exactly the stage it asked     *)
(* for, takes its own for the one in the chain: they are the same.         *)
LEMMA AppendFollows ==
  ASSUME TypeOK, TypeOK', Shape, NEW p \in Procs, FollowerOf(p), \A n \in Names : Grows(n),
         AppendNewStage(p)
  PROVE  FollowerOf(p)'
<1> DEFINE h == hnd[p]
           idx == Len(h.stages)
           st == computeStage(h.par, idx)
<1>1. /\ pc[p] = "append" /\ h # Nil /\ AppendStage(h.name, idx, st)
      /\ pc'[p] \in {"done", "load_meta"}
  BY DEF AppendNewStage, Shape, ShapeOf, Adding, Finish, Goto, TypeOK
<1>2. /\ h \in Handles /\ h.name \in Names /\ h.stages \in Seq(Stages) /\ idx \in Nat
      /\ Follows(h.name, h.par, h.stages)
  BY <1>1, CopyTypes DEF FollowerOf
<1>3. CASE hnd' = hnd
  BY <1>1, <1>3, QuietFollows
<1>4. CASE hnd' # hnd
  <2>1. /\ AppendReply(h.name, idx) # Nil /\ ~ (AppendReply(h.name, idx) > idx + 1)
        /\ hnd' = [hnd EXCEPT ![p].stages = Append(@, st)]
    BY <1>4 DEF AppendNewStage
  <2>2. /\ hnd'[p].name = h.name /\ hnd'[p].par = h.par
        /\ hnd'[p].stages = Append(h.stages, st)
    BY <1>2, <2>1 DEF Handles, TypeOK
  <2>3. /\ meta[h.name] # Nil /\ meta'[h.name] # Nil
        /\ meta[h.name].stage_count \in Int /\ meta'[h.name].stage_count \in Int
        /\ meta[h.name].stage_count <= meta'[h.name].stage_count
        /\ meta'[h.name].par = h.par
    BY <1>2 DEF Follows, Grows, TypeOK, StoreTypeOK, Meta
  <2>4. idx + 1 <= meta'[h.name].stage_count
    <3>1. CASE AppendWins(h.name, idx)
      <4>1. meta' = [meta EXCEPT ![h.name].stage_count = @ + 1] /\ meta[h.name].stage_count = idx
        BY <1>1, <3>1 DEF AppendStage, AppendWins
      <4>2. meta[h.name] \in Meta
        BY <1>2, <2>3 DEF TypeOK, StoreTypeOK
      <4>3. meta'[h.name].stage_count = idx + 1
        BY <1>2, <4>1, <4>2 DEF TypeOK, StoreTypeOK, Meta
      <4> QED BY <1>2, <4>3
    <3>2. CASE ~ AppendWins(h.name, idx)
      <4>1. meta[h.name].stage_count # idx
        BY <2>3, <3>2 DEF AppendWins
      <4> QED BY <1>2, <2>3, <4>1 DEF Follows
    <3> QED BY <3>1, <3>2
  <2>5. st \in Stages
    BY <1>1, <1>2, SizableInRange, StageType DEF Handles, Shape, ShapeOf
  <2>6. Len(Append(h.stages, st)) = idx + 1
    BY <1>2
  <2>7. ASSUME NEW i \in 1 .. idx + 1 PROVE Append(h.stages, st)[i] = computeStage(h.par, i - 1)
    <3> HIDE DEF st
    <3>1. CASE i = idx + 1
      <4>1. Append(h.stages, st)[i] = st BY <1>2, <2>5, <3>1
      <4>2. i - 1 = idx BY <1>2, <3>1
      <4> QED BY <4>1, <4>2 DEF st
    <3>2. CASE i # idx + 1
      <4>1. i \in 1 .. idx BY <1>2, <3>2
      <4>2. Append(h.stages, st)[i] = h.stages[i] BY <1>2, <2>5, <4>1
      <4> QED BY <1>2, <4>1, <4>2 DEF Follows
    <3> QED BY <3>1, <3>2
  <2>8. /\ meta'[hnd'[p].name] # Nil /\ hnd'[p].par = meta'[hnd'[p].name].par
        /\ Len(hnd'[p].stages) <= meta'[hnd'[p].name].stage_count
        /\ \A i \in 1 .. Len(hnd'[p].stages) : hnd'[p].stages[i] = computeStage(hnd'[p].par, i - 1)
    <3> HIDE DEF st, idx
    <3> QED BY <2>2, <2>3, <2>4, <2>6, <2>7
  <2>9. Follows(hnd[p].name, hnd[p].par, hnd[p].stages)'
    BY <2>8 DEF Follows
  <2> QED BY <1>1, <2>9 DEF FollowerOf
<1> QED BY <1>3, <1>4

LEMMA StepFollows ==
  ASSUME TypeOK, TypeOK', Shape, OneChain, Settled, NEW p \in Procs, Step(p),
         \A n \in Names : Grows(n)
  PROVE  FollowerOf(p)'
<1>1. FollowerOf(p) /\ pc[p] \notin Creating \cup {"del"}
  BY NobodyManages DEF OneChain
<1>2. ASSUME NEW r \in Requests, Begin(p, r) PROVE FollowerOf(p)'
  <2>1. /\ r.op \in {"add", "exists", "stats", "delete", "create"}
        /\ hnd'[p] = hnd[p]
    BY <1>2, RequestTypes DEF Begin, Enter, TypeOK
  <2>2. r.op # "create" => EntryLabel[r.op] \notin {"load_stage", "load_fill", "append"}
    BY <2>1 DEF EntryLabel
  <2>3. pc'[p] \notin {"load_stage", "load_fill", "append"}
    BY <1>2, <2>2 DEF Begin, Enter, Goto, TypeOK
  <2> QED BY <1>1, <2>1, <2>3, QuietFollows
<1>3. CASE LoadStep(p)
  BY <1>3, LoadFollows
<1>4. CASE SetNextBit(p) \/ ExistsStep(p) \/ Unregister(p) \/ Fail(p) \/ Return(p)
  <2>1. /\ hnd'[p] = hnd[p] \/ hnd'[p] = Nil
        /\ pc'[p] \notin {"load_stage", "load_fill", "append"}
    BY <1>4 DEF SetNextBit, ExistsStep, HitBit, MissBit, Unregister, Fail, Return, Finish, Goto, TypeOK
  <2> QED BY <1>1, <2>1, QuietFollows
<1>5. CASE IncrFill(p)
  BY <1>1, <1>5, IncrFollows
<1>6. CASE AppendNewStage(p)
  BY <1>1, <1>6, AppendFollows
<1>7. CASE CreateStep(p) \/ DropKeys(p)
  BY <1>1, <1>7 DEF CreateStep, CheckExisting, WriteMeta, WriteStage0, Register, DropKeys, Creating
<1> QED BY <1>2, <1>3, <1>4, <1>5, <1>6, <1>7 DEF Step, Serve, AddStep, DropStep

(* The stages change by an append at the end of a chain, of the stage that *)
(* follows, once the last one is full.                                     *)
LEMMA StepChain ==
  ASSUME TypeOK, TypeOK', Shape, OneChain, Settled, NEW p \in Procs, Step(p),
         \A n \in Names : Grows(n)
  PROVE  (ChainIntact /\ FullBeforeGrow)'
<1>0. ChainIntact /\ FullBeforeGrow /\ FollowerOf(p)
  BY DEF OneChain
<1>1. ~ WriteMeta(p) /\ ~ WriteStage0(p) /\ ~ DropKeys(p)
  BY NobodyManages DEF OneChain, WriteMeta, WriteStage0, DropKeys, Creating
<1>2. ASSUME NEW n \in Names, meta[n] # Nil
      PROVE  /\ meta[n] \in Meta /\ meta[n].stage_count \in 1 .. MaxStages /\ MaxStages \in Nat
             /\ \A i \in 0 .. meta[n].stage_count - 2 :
                  /\ i \in StageIdx /\ stageMeta[n][i] \in Stages
                  /\ fill[n][i] \in Int /\ fill'[n][i] \in Int
                  /\ fill[n][i] <= fill'[n][i]
                  /\ Capacity(stageMeta[n][i]) \in Int
  <2>1. meta[n] \in Meta /\ meta[n].stage_count \in 1 .. MaxStages /\ MaxStages \in Nat
    BY <1>2, StoreAssumption DEF TypeOK, StoreTypeOK, Meta
  <2>2. ASSUME NEW i \in 0 .. meta[n].stage_count - 2
        PROVE  i \in StageIdx /\ stageMeta[n][i] = computeStage(meta[n].par, i) /\ stageMeta[n][i] \in Stages
    <3>1. i \in StageIdx /\ i < meta[n].stage_count
      BY <2>1 DEF StageIdx
    <3>2. stageMeta[n][i] = computeStage(meta[n].par, i)
      BY <1>0, <1>2, <3>1 DEF ChainIntact
    <3> QED BY <2>1, <3>1, <3>2, StageType DEF Meta
  <2>3. \A i \in StageIdx : fill[n][i] \in Int /\ fill'[n][i] \in Int /\ fill[n][i] <= fill'[n][i]
    <3>1. fill \in [Names -> [StageIdx -> Nat]] /\ fill' \in [Names -> [StageIdx -> Nat]]
      BY DEF TypeOK, StoreTypeOK
    <3> QED BY <3>1 DEF Grows
  <2> QED BY <2>1, <2>2, <2>3, FilterAssumption
<1>3. CASE meta' = meta /\ stageMeta' = stageMeta
  <2>1. ChainIntact'
    BY <1>0, <1>3 DEF ChainIntact
  <2>2. ASSUME NEW n \in Names, meta[n] # Nil, NEW i \in 0 .. meta[n].stage_count - 2
        PROVE  fill'[n][i] >= Capacity(stageMeta[n][i])
    <3>1. fill[n][i] >= Capacity(stageMeta[n][i])
      BY <1>0, <2>2 DEF FullBeforeGrow
    <3> QED BY <1>2, <2>2, <3>1
  <2>3. FullBeforeGrow'
    BY <1>3, <2>2 DEF FullBeforeGrow
  <2> QED BY <2>1, <2>3
<1>4. CASE AppendNewStage(p) /\ ~ (meta' = meta /\ stageMeta' = stageMeta)
  <2>1. PICK m \in Names, idx \in StageIdx, st \in Stages :
              /\ meta[m] # Nil /\ meta[m].stage_count = idx
              /\ m = hnd[p].name /\ st = computeStage(hnd[p].par, idx)
              /\ meta' = [meta EXCEPT ![m] = [par |-> meta[m].par, stage_count |-> idx + 1]]
              /\ stageMeta' = [stageMeta EXCEPT ![m][idx] = st]
              /\ idx + 1 \in 1 .. MaxStages
    BY <1>4, AppendEffect
  <2>2. /\ meta'[m] = [par |-> meta[m].par, stage_count |-> idx + 1]
        /\ \A n \in Names : n # m => meta'[n] = meta[n] /\ stageMeta'[n] = stageMeta[n]
        /\ stageMeta'[m][idx] = st
        /\ \A i \in StageIdx : i # idx => stageMeta'[m][i] = stageMeta[m][i]
    BY <2>1 DEF TypeOK, StoreTypeOK
  <2>3. meta'[m].par = meta[m].par /\ meta'[m].stage_count = idx + 1 /\ idx \in Nat
    BY <2>2 DEF StageIdx
  <2>4. /\ pc[p] = "append" /\ hnd[p] # Nil
        /\ Follows(m, hnd[p].par, hnd[p].stages)
        /\ fill[m][Len(hnd[p].stages) - 1] >= Capacity(Last(hnd[p].stages))
    BY <1>0, <1>4, <2>1 DEF AppendNewStage, FollowerOf, Shape, ShapeOf, Adding
  <2>5. Len(hnd[p].stages) = idx
    BY <1>4, <2>1, <2>2, <2>4 DEF AppendNewStage, AppendStage, AppendWins, storeVars
  <2>6. ChainIntact'
    <3>1. ASSUME NEW n \in Names, meta'[n] # Nil, NEW i \in StageIdx
          PROVE  stageMeta'[n][i] = IF i < meta'[n].stage_count THEN computeStage(meta'[n].par, i) ELSE Nil
      <4>1. CASE n # m
        BY <1>0, <2>2, <3>1, <4>1 DEF ChainIntact
      <4>2. CASE n = m /\ i = idx
        BY <2>1, <2>2, <2>3, <2>4, <4>2 DEF Follows
      <4>3. CASE n = m /\ i # idx
        <5>1. i < idx <=> i < idx + 1
          BY <2>3, <4>3 DEF StageIdx
        <5>2. stageMeta[m][i] = IF i < idx THEN computeStage(meta[m].par, i) ELSE Nil
          BY <1>0, <2>1 DEF ChainIntact
        <5> QED BY <2>2, <2>3, <4>3, <5>1, <5>2
      <4> QED BY <4>1, <4>2, <4>3
    <3> QED BY <3>1 DEF ChainIntact
  <2>7. FullBeforeGrow'
    <3>1. ASSUME NEW n \in Names, meta'[n] # Nil, NEW i \in 0 .. meta'[n].stage_count - 2
          PROVE  fill'[n][i] >= Capacity(stageMeta'[n][i])
      <4>1. CASE n # m \/ i # idx - 1
        <5>1. meta[n] # Nil /\ i \in 0 .. meta[n].stage_count - 2 /\ stageMeta'[n][i] = stageMeta[n][i]
          <6>1. CASE n # m
            BY <1>2, <2>2, <3>1, <6>1
          <6>2. CASE n = m
            <7>1. i \in 0 .. idx - 2 /\ i # idx BY <2>3, <3>1, <4>1, <6>2
            <7>2. i \in StageIdx BY <1>2, <2>1, <7>1
            <7> QED BY <2>1, <2>2, <6>2, <7>1, <7>2
          <6> QED BY <6>1, <6>2
        <5>2. fill[n][i] >= Capacity(stageMeta[n][i])
          BY <1>0, <5>1 DEF FullBeforeGrow
        <5> QED BY <1>2, <5>1, <5>2
      <4>2. CASE n = m /\ i = idx - 1
        <5>1. i \in StageIdx /\ idx \in 1 .. MaxStages /\ i # idx /\ i < idx
          BY <1>2, <2>1, <2>3, <4>2 DEF StageIdx
        <5>2. Last(hnd[p].stages) = computeStage(meta[m].par, i)
          BY <2>4, <2>5, <4>2, <5>1 DEF Follows, Last
        <5>3. stageMeta'[m][i] = computeStage(meta[m].par, i)
          BY <1>0, <2>1, <2>2, <5>1 DEF ChainIntact
        <5>4. fill' = fill
          BY <1>4 DEF AppendNewStage, AppendStage, storeVars
        <5> QED BY <2>4, <2>5, <4>2, <5>2, <5>3, <5>4
      <4> QED BY <4>1, <4>2
    <3> QED BY <3>1 DEF FullBeforeGrow
  <2> QED BY <2>6, <2>7
<1> QED BY <1>1, <1>3, <1>4, HashSteps

LEMMA OneChainStays == ASSUME Settled PROVE Spec => [](TypeOK /\ Shape /\ OneChain)
<1>1. Init => OneChain
  <2> SUFFICES ASSUME Init PROVE OneChain
    OBVIOUS
  <2>1. ASSUME NEW n \in Names, meta[n] # Nil
        PROVE  Seed[n] # Nil /\ meta[n].par = Seed[n] /\ meta[n].stage_count = 1
    <3>1. Seed[n] # Nil /\ meta[n] = [par |-> Seed[n], stage_count |-> 1]
      BY <2>1 DEF Init
    <3> QED BY <3>1
  <2>2. ChainIntact
    <3>1. ASSUME NEW n \in Names, meta[n] # Nil, NEW i \in StageIdx
          PROVE  stageMeta[n][i] = IF i < meta[n].stage_count THEN computeStage(meta[n].par, i) ELSE Nil
      <4>1. i < 1 <=> i = 0
        BY StoreAssumption DEF StageIdx
      <4>2. stageMeta[n][i] = IF Seed[n] # Nil /\ i = 0 THEN computeStage(Seed[n], 0) ELSE Nil
        BY DEF Init
      <4> QED BY <2>1, <3>1, <4>1, <4>2
    <3> QED BY <3>1 DEF ChainIntact
  <2>3. FullBeforeGrow
    <3>1. ASSUME NEW n \in Names, meta[n] # Nil PROVE 0 .. meta[n].stage_count - 2 = {}
      <4>1. meta[n].stage_count = 1 BY <2>1, <3>1
      <4> QED BY <4>1
    <3> QED BY <3>1 DEF FullBeforeGrow
  <2>4. Issued /\ \A p \in Procs : FollowerOf(p)
    BY DEF Init, Issued, FollowerOf
  <2> QED BY <2>2, <2>3, <2>4 DEF OneChain
<1>2. TypeOK /\ TypeOK' /\ Shape /\ OneChain /\ [Next]_vars => OneChain'
  <2>1. ASSUME TypeOK, TypeOK', Shape, OneChain, Next PROVE OneChain'
    <3>1. PICK p \in Procs : Step(p)
      BY <2>1, NextIsStep
    <3>2. \A n \in Names : Grows(n)
      BY <2>1, <3>1, StoreGrows DEF OneChain
    <3>3. FollowerOf(p)' /\ ChainIntact' /\ FullBeforeGrow' /\ Issued'
      BY <2>1, <3>1, <3>2, StepFollows, StepChain, IssuedStays DEF OneChain
    <3>4. \A q \in Procs \ {p} : FollowerOf(q)'
      BY <2>1, <3>1, <3>2, OthersUntouched, OthersFollow DEF OneChain
    <3> QED BY <3>3, <3>4 DEF OneChain
  <2>2. ASSUME OneChain, UNCHANGED vars PROVE OneChain'
    BY <2>2 DEF vars, storeVars, procVars, OneChain, Issued, ChainIntact, FullBeforeGrow, FollowerOf, Follows
  <2> QED BY <2>1, <2>2
<1> QED BY <1>1, <1>2, TypeAndShape, PTL DEF Spec

(* However many processes race to append, and whatever fails, the stages   *)
(* of a filter form one chain, each sized from the filter's parameters and *)
(* under its own index, where nobody creates or deletes filters            *)
(* (appendNewStage, the Lua compare-and-append).                           *)
THEOREM RacesLeaveOneChain == ASSUME Settled PROVE Spec => []ChainIntact
<1>1. OneChain => ChainIntact
  BY DEF OneChain
<1> QED BY <1>1, OneChainStays, PTL

(* And no stage is closed before it has counted its capacity, also by a    *)
(* process that appends long after its INCR (Add, appendNewStage).         *)
THEOREM StagesFillBeforeTheNext == ASSUME Settled PROVE Spec => []FullBeforeGrow
<1>1. OneChain => FullBeforeGrow
  BY DEF OneChain
<1> QED BY <1>1, OneChainStays, PTL

-----------------------------------------------------------------------------
(* Statistics, where nobody creates or deletes.                            *)

(* Only stages of the chain count items. *)
Counted == \A n \in Names, i \in StageIdx :
  fill[n][i] > 0 => meta[n] # Nil /\ i < meta[n].stage_count

(* The counters read lie between those at the request's arrival and those  *)
(* in the store.                                                           *)
Between(n, from, fills) ==
  \A i \in 1 .. Len(fills) : from[i - 1] <= fills[i] /\ fills[i] <= fill[n][i - 1]

(* A process at these labels has read some of the filter, or all of it. *)
Reading(p) == pc[p] \in {"load_stage", "load_fill"} \/ (pc[p] = "done" /\ res[p] = "ok")

(* There are as many as there are stages read. *)
ReadingOf(p) ==
  pc[p] # "idle" /\ req[p].op = "stats" =>
    /\ \A i \in StageIdx : floor[p][i] <= fill[req[p].name][i]
    /\ Reading(p) =>
         /\ ld[p] \in Loads
         /\ Len(ld[p].stages) = Len(ld[p].fills) + 1 \/ pc[p] # "load_fill"
         /\ Len(ld[p].stages) = Len(ld[p].fills) \/ pc[p] = "load_fill"
         /\ Len(ld[p].stages) <= ld[p].count
         /\ \A i \in StageIdx : floor[p][i] > 0 => i < ld[p].count
         /\ Between(req[p].name, floor[p], ld[p].fills)
    /\ pc[p] = "done" /\ res[p] = "ok" => Len(ld[p].stages) = ld[p].count

LEMMA CountedStays ==
  ASSUME TypeOK, TypeOK', Shape, OneChain, Settled, Counted, NEW p \in Procs, Step(p),
         \A n \in Names : Grows(n)
  PROVE  Counted'
<1> SUFFICES ASSUME NEW n \in Names, NEW i \in StageIdx, fill'[n][i] > 0
    PROVE  meta'[n] # Nil /\ i < meta'[n].stage_count
  BY DEF Counted
<1>1. meta[n] # Nil /\ i < meta[n].stage_count => meta'[n] # Nil /\ i < meta'[n].stage_count
  <2> SUFFICES ASSUME meta[n] # Nil, i < meta[n].stage_count
      PROVE  meta'[n] # Nil /\ i < meta'[n].stage_count
    OBVIOUS
  <2>1. meta'[n] # Nil /\ meta[n].stage_count <= meta'[n].stage_count
    BY DEF Grows
  <2>2. meta[n].stage_count \in Int /\ meta'[n].stage_count \in Int
    BY <2>1 DEF TypeOK, StoreTypeOK, Meta
  <2> QED BY <2>1, <2>2 DEF StageIdx
<1>2. CASE IncrFill(p) /\ n = hnd[p].name /\ i = at[p]
  <2>1. /\ pc[p] = "incr" /\ hnd[p] # Nil /\ at[p] = Len(hnd[p].stages) - 1
        /\ Follows(n, hnd[p].par, hnd[p].stages)
    BY <1>2 DEF IncrFill, Shape, ShapeOf, Adding, OneChain, FollowerOf
  <2>2. Len(hnd[p].stages) \in Nat /\ meta[n].stage_count \in Int
    <3>1. Len(hnd[p].stages) \in Nat
      BY <2>1, CopyTypes
    <3>2. meta[n] \in Meta
      BY <2>1 DEF Follows, TypeOK, StoreTypeOK
    <3> QED BY <3>1, <3>2 DEF Meta
  <2>3. meta[n] # Nil /\ Len(hnd[p].stages) <= meta[n].stage_count
    BY <2>1 DEF Follows
  <2>4. i < meta[n].stage_count
    BY <1>2, <2>1, <2>2, <2>3
  <2> QED BY <1>1, <2>3, <2>4
<1>3. CASE ~ (IncrFill(p) /\ n = hnd[p].name /\ i = at[p])
  <2>1. fill'[n][i] = fill[n][i]
    <3>1. CASE IncrFill(p)
      BY <1>3, <3>1 DEF IncrFill, Incr, TypeOK, StoreTypeOK
    <3>2. CASE ~ IncrFill(p)
      <4>1. ~ DropKeys(p)
        BY NobodyManages DEF OneChain, DropKeys
      <4> QED BY <3>2, <4>1
         DEF Step, Serve, Begin, CreateStep, CheckExisting, Register, SAdd, WriteMeta, HSetMeta,
             WriteStage0, HSetStage, LoadStep, LoadMeta, LoadStage, LoadFill, AddStep, SetNextBit, SetBit,
             AppendNewStage, AppendStage, ExistsStep, HitBit, MissBit, DropStep, Unregister, SRem,
             Fail, Return, storeVars
    <3> QED BY <3>1, <3>2
  <2> QED BY <1>1, <2>1 DEF Counted
<1> QED BY <1>2, <1>3

LEMMA FillsGrow ==
  ASSUME TypeOK, TypeOK', NEW n \in Names, Grows(n)
  PROVE  \A i \in StageIdx : fill[n][i] \in Nat /\ fill'[n][i] \in Nat /\ fill[n][i] <= fill'[n][i]
<1>1. fill \in [Names -> [StageIdx -> Nat]] /\ fill' \in [Names -> [StageIdx -> Nat]]
  BY DEF TypeOK, StoreTypeOK
<1> QED BY <1>1 DEF Grows

LEMMA BetweenStays ==
  ASSUME TypeOK, TypeOK', NEW n \in Names, Grows(n), NEW from, NEW fills \in Seq(Nat),
         Len(fills) <= MaxStages, Between(n, from, fills)
  PROVE  Between(n, from, fills)'
<1>1. ASSUME NEW i \in 1 .. Len(fills)
      PROVE  from[i - 1] <= fills[i] /\ fills[i] <= fill'[n][i - 1]
  <2>1. fills[i] \in Nat /\ i - 1 \in StageIdx
    BY StoreAssumption DEF StageIdx
  <2>2. from[i - 1] <= fills[i] /\ fills[i] <= fill[n][i - 1]
    BY DEF Between
  <2> QED BY <2>1, <2>2, FillsGrow
<1> QED BY <1>1 DEF Between

(* What a reader has read, and the length of it. *)
LEMMA ReadingTypes ==
  ASSUME TypeOK, Shape, NEW q \in Procs, ReadingOf(q), pc[q] # "idle", req[q].op = "stats"
  PROVE  /\ req[q].name \in Names
         /\ Reading(q) =>
              /\ ld[q].fills \in Seq(Nat) /\ ld[q].stages \in Seq(Stages)
              /\ ld[q].count \in 1 .. MaxStages
              /\ Len(ld[q].fills) <= Len(ld[q].stages) /\ Len(ld[q].stages) <= ld[q].count
              /\ Len(ld[q].fills) <= MaxStages
<1>1. req[q].name \in Names
  BY RequestTypes DEF TypeOK, Shape, ShapeOf
<1>2. ASSUME Reading(q)
      PROVE  /\ ld[q].fills \in Seq(Nat) /\ ld[q].stages \in Seq(Stages)
             /\ ld[q].count \in 1 .. MaxStages
             /\ Len(ld[q].fills) <= Len(ld[q].stages) /\ Len(ld[q].stages) <= ld[q].count
             /\ Len(ld[q].fills) <= MaxStages
  <2>1. /\ ld[q] \in Loads
        /\ Len(ld[q].stages) = Len(ld[q].fills) + 1 \/ pc[q] # "load_fill"
        /\ Len(ld[q].stages) = Len(ld[q].fills) \/ pc[q] = "load_fill"
        /\ Len(ld[q].stages) <= ld[q].count
    BY <1>2 DEF ReadingOf
  <2>2. /\ ld[q].fills \in Seq(Nat) /\ ld[q].stages \in Seq(Stages) /\ ld[q].count \in 1 .. MaxStages
    BY <2>1 DEF Loads
  <2>3. Len(ld[q].stages) \in Nat /\ Len(ld[q].fills) \in Nat /\ MaxStages \in Nat
    BY <2>2, StoreAssumption
  <2>4. ld[q].count \in Nat /\ ld[q].count <= MaxStages
    BY <2>2, <2>3
  <2>5. Len(ld[q].fills) <= Len(ld[q].stages)
    BY <2>1, <2>3
  <2>6. Len(ld[q].fills) <= MaxStages
    BY <2>1, <2>3, <2>4, <2>5
  <2> QED BY <2>1, <2>2, <2>5, <2>6
<1> QED BY <1>1, <1>2

(* A reader that does not move goes on to lie between.                     *)
LEMMA ReadingStays ==
  ASSUME TypeOK, TypeOK', Shape, NEW q \in Procs, ReadingOf(q), \A n \in Names : Grows(n),
         pc'[q] = pc[q], req'[q] = req[q], ld'[q] = ld[q], res'[q] = res[q], floor'[q] = floor[q]
  PROVE  ReadingOf(q)'
<1> SUFFICES ASSUME pc[q] # "idle", req[q].op = "stats" PROVE ReadingOf(q)'
  BY DEF ReadingOf
<1>1. \A i \in StageIdx : floor[q][i] <= fill'[req[q].name][i]
  <2>1. floor \in [Procs -> [StageIdx -> Nat]]
    BY DEF TypeOK
  <2>2. req[q].name \in Names /\ \A i \in StageIdx : floor[q][i] <= fill[req[q].name][i]
    BY ReadingTypes DEF ReadingOf
  <2> QED BY <2>1, <2>2, FillsGrow
<1>2. Reading(q) => Between(req[q].name, floor[q], ld[q].fills)'
  <2> SUFFICES ASSUME Reading(q) PROVE Between(req[q].name, floor[q], ld[q].fills)'
    OBVIOUS
  <2>1. Between(req[q].name, floor[q], ld[q].fills) /\ ld[q].fills \in Seq(Nat)
        /\ Len(ld[q].fills) <= MaxStages /\ req[q].name \in Names
    BY ReadingTypes DEF ReadingOf
  <2>2. \A i \in 1 .. Len(ld[q].fills) :
          floor[q][i - 1] <= ld[q].fills[i] /\ ld[q].fills[i] <= fill'[req[q].name][i - 1]
    BY <2>1, BetweenStays DEF Between
  <2> QED BY <2>2 DEF Between
<1>3. Reading(q)' <=> Reading(q)
  BY DEF Reading
<1> QED BY <1>1, <1>2, <1>3 DEF ReadingOf

(* Load reads counter after counter while adders count on. *)
LEMMA LoadReads ==
  ASSUME TypeOK, TypeOK', Shape, OneChain, Counted, NEW p \in Procs, p \notin Embedders,
         ReadingOf(p), LoadStep(p)
  PROVE  ReadingOf(p)'
<1> DEFINE n == req[p].name
<1> SUFFICES ASSUME req[p].op = "stats" PROVE ReadingOf(p)'
  BY DEF ReadingOf, LoadStep, LoadMeta, LoadStage, LoadFill
<1>1. /\ UNCHANGED <<req, meta, fill, floor>>
      /\ pc[p] \in Loading /\ pc[p] # "idle"
  BY DEF LoadStep, LoadMeta, LoadStage, LoadFill, Loading, storeVars, histVars
<1>2. /\ n \in Names /\ hnd[p] = Nil
      /\ \A i \in StageIdx : floor[p][i] <= fill[n][i] /\ floor[p][i] \in Nat /\ fill[n][i] \in Nat
  <2>1. floor \in [Procs -> [StageIdx -> Nat]] /\ fill \in [Names -> [StageIdx -> Nat]]
    BY DEF TypeOK, StoreTypeOK
  <2> QED BY <1>1, <2>1, ReadingTypes DEF ReadingOf, Shape, ShapeOf, Loading
<1>3. CASE LoadMeta(p)
  <2>1. CASE meta[n] = Nil
    <3>1. pc'[p] = "done" /\ res'[p] = "not_found"
      BY <1>3, <2>1 DEF LoadMeta, Finish, TypeOK
    <3> QED BY <1>1, <1>2, <3>1 DEF ReadingOf, Reading
  <2>2. CASE meta[n] # Nil
    <3>1. /\ pc'[p] = "load_stage"
          /\ ld'[p] = [par |-> meta[n].par, count |-> meta[n].stage_count,
                       stages |-> <<>>, fills |-> <<>>]
      BY <1>3, <2>2 DEF LoadMeta, Goto, TypeOK
    <3>2. ld'[p] \in Loads
      <4>1. meta[n].par \in Params /\ meta[n].stage_count \in 1 .. MaxStages
        BY <1>2, <2>2 DEF TypeOK, StoreTypeOK, Meta
      <4>2. <<>> \in Seq(Stages) /\ <<>> \in Seq(Nat)
        OBVIOUS
      <4> QED BY <3>1, <4>1, <4>2 DEF Loads
    <3>3. ld'[p].count = meta[n].stage_count /\ ld'[p].stages = <<>> /\ ld'[p].fills = <<>>
      BY <3>1
    <3>4. \A i \in StageIdx : floor[p][i] > 0 => i < ld'[p].count
      <4>1. \A i \in StageIdx : floor[p][i] > 0 => fill[n][i] > 0
        BY <1>2
      <4> QED BY <1>2, <3>3, <4>1 DEF Counted
    <3>5. ld'[p].count \in 1 .. MaxStages
      BY <3>2 DEF Loads
    <3>6. Len(ld'[p].fills) = 0 /\ Len(ld'[p].stages) = 0 /\ Len(ld'[p].stages) <= ld'[p].count
      BY <3>3, <3>5, StoreAssumption
    <3>7. Between(req[p].name, floor[p], ld[p].fills)'
      BY <3>6 DEF Between
    <3> QED BY <1>1, <1>2, <3>1, <3>2, <3>4, <3>6, <3>7 DEF ReadingOf
  <2> QED BY <2>1, <2>2
<1>4. ASSUME Reading(p) PROVE
        /\ ld[p] \in Loads
        /\ ld[p].fills \in Seq(Nat) /\ ld[p].stages \in Seq(Stages) /\ ld[p].count \in 1 .. MaxStages
        /\ Len(ld[p].fills) \in Nat /\ Len(ld[p].stages) \in Nat /\ ld[p].count \in Nat
        /\ Len(ld[p].stages) = Len(ld[p].fills) + 1 \/ pc[p] # "load_fill"
        /\ Len(ld[p].stages) = Len(ld[p].fills) \/ pc[p] = "load_fill"
        /\ \A i \in StageIdx : floor[p][i] > 0 => i < ld[p].count
        /\ Between(n, floor[p], ld[p].fills)
  <2>1. /\ ld[p] \in Loads
        /\ Len(ld[p].stages) = Len(ld[p].fills) + 1 \/ pc[p] # "load_fill"
        /\ Len(ld[p].stages) = Len(ld[p].fills) \/ pc[p] = "load_fill"
        /\ \A i \in StageIdx : floor[p][i] > 0 => i < ld[p].count
        /\ Between(n, floor[p], ld[p].fills)
    BY <1>1, <1>4 DEF ReadingOf
  <2>2. /\ ld[p].fills \in Seq(Nat) /\ ld[p].stages \in Seq(Stages) /\ ld[p].count \in 1 .. MaxStages
    BY <2>1 DEF Loads
  <2> QED BY <2>1, <2>2, StoreAssumption
<1>5. CASE LoadStage(p)
  <2> DEFINE st == stageMeta[n][Len(ld[p].stages)]
  <2>1. pc[p] = "load_stage" /\ Reading(p) /\ Len(ld[p].stages) < ld[p].count
    BY <1>5 DEF LoadStage, Reading, Shape, ShapeOf
  <2>2. CASE st = Nil
    <3>1. pc'[p] = "done" /\ res'[p] = "error"
      BY <1>5, <2>2 DEF LoadStage, Finish, TypeOK
    <3> QED BY <1>1, <1>2, <3>1 DEF ReadingOf, Reading
  <2>3. CASE st # Nil
    <3>1. pc'[p] = "load_fill" /\ ld'[p] = [ld[p] EXCEPT !.stages = Append(@, st)]
      BY <1>5, <2>3 DEF LoadStage, Goto, TypeOK
    <3>2. ld'[p].count = ld[p].count /\ ld'[p].stages = Append(ld[p].stages, st) /\ ld'[p].fills = ld[p].fills
      BY <1>4, <2>1, <3>1 DEF Loads
    <3>3. ld'[p] \in Loads
      <4>1. Len(ld[p].stages) \in StageIdx
        BY <1>4, <2>1, StoreAssumption DEF StageIdx
      <4>2. st \in Stages
        BY <1>2, <2>3, <4>1 DEF TypeOK, StoreTypeOK
      <4>3. Append(ld[p].stages, st) \in Seq(Stages)
        BY <1>4, <2>1, <4>2
      <4> HIDE DEF st
      <4> QED BY <1>4, <2>1, <3>1, <4>3 DEF Loads
    <3>4. Len(ld'[p].stages) = Len(ld[p].stages) + 1
      BY <1>4, <2>1, <3>2
    <3>5. /\ Len(ld'[p].fills) = Len(ld'[p].stages) - 1
          /\ Len(ld'[p].stages) <= ld'[p].count
      BY <1>4, <2>1, <3>2, <3>4
    <3>6. Between(req[p].name, floor[p], ld[p].fills)'
      BY <1>1, <1>4, <2>1, <3>2 DEF Between
    <3> QED BY <1>1, <1>2, <1>4, <2>1, <3>1, <3>2, <3>3, <3>5, <3>6 DEF ReadingOf
  <2> QED BY <2>2, <2>3
<1>6. CASE LoadFill(p)
  <2> DEFINE i == Len(ld[p].stages) - 1
  <2>1. pc[p] = "load_fill" /\ Reading(p) /\ Len(ld[p].stages) \in 1 .. ld[p].count
    BY <1>6 DEF LoadFill, Reading, Shape, ShapeOf
  <2>2. i \in StageIdx /\ Len(ld[p].fills) = i
    BY <1>4, <2>1, StoreAssumption DEF StageIdx
  <2>3. ld'[p] = [ld[p] EXCEPT !.fills = Append(@, fill[n][i])]
    BY <1>6 DEF LoadFill, FillOf, TypeOK
  <2>4. /\ ld'[p].count = ld[p].count /\ ld'[p].stages = ld[p].stages
        /\ ld'[p].fills = Append(ld[p].fills, fill[n][i])
    BY <1>4, <2>1, <2>3 DEF Loads
  <2>5. ld'[p] \in Loads
    <3>1. Append(ld[p].fills, fill[n][i]) \in Seq(Nat)
      BY <1>2, <1>4, <2>1, <2>2
    <3> HIDE DEF i, n
    <3> QED BY <1>4, <2>1, <2>3, <3>1 DEF Loads
  <2>6. Len(ld'[p].fills) = Len(ld'[p].stages)
    BY <1>2, <1>4, <2>1, <2>2, <2>4
  <2>7. Between(req[p].name, floor[p], ld[p].fills)'
    <3>1. ASSUME NEW j \in 1 .. Len(ld'[p].fills)
          PROVE  floor[p][j - 1] <= ld'[p].fills[j] /\ ld'[p].fills[j] <= fill[n][j - 1]
      <4>1. CASE j = i + 1
        <5>1. ld'[p].fills[j] = fill[n][i] /\ j - 1 = i
          BY <1>2, <1>4, <2>1, <2>2, <2>4, <4>1
        <5> QED BY <1>2, <2>2, <5>1
      <4>2. CASE j # i + 1
        <5>1. j \in 1 .. Len(ld[p].fills)
          BY <1>4, <2>1, <2>2, <2>4, <2>6, <3>1, <4>2
        <5>2. ld'[p].fills[j] = ld[p].fills[j]
          BY <1>2, <1>4, <2>1, <2>2, <2>4, <5>1
        <5> QED BY <1>4, <2>1, <5>1, <5>2 DEF Between
      <4> QED BY <4>1, <4>2
    <3> QED BY <1>1, <3>1 DEF Between
  <2>8. \/ pc'[p] = "load_stage"
        \/ pc'[p] = "done" /\ Len(ld[p].stages) = ld[p].count
    <3>1. CASE Len(ld[p].stages) < ld[p].count
      BY <1>6, <3>1 DEF LoadFill, Goto, TypeOK
    <3>2. CASE ~ (Len(ld[p].stages) < ld[p].count)
      <4>1. pc'[p] = EntryLabel["stats"]
        BY <1>2, <1>6, <3>2 DEF LoadFill, Enter, TypeOK
      <4> QED BY <1>4, <2>1, <3>2, <4>1 DEF EntryLabel
    <3> QED BY <3>1, <3>2
  <2> QED BY <1>1, <1>2, <1>4, <2>1, <2>4, <2>5, <2>6, <2>7, <2>8 DEF ReadingOf
<1> QED BY <1>3, <1>5, <1>6 DEF LoadStep

(* A request for statistics knows the counters at its arrival. *)
LEMMA BeginReads ==
  ASSUME TypeOK, Shape, NEW p \in Procs, p \notin Embedders, NEW r \in Requests, Begin(p, r)
  PROVE  ReadingOf(p)'
<1> SUFFICES ASSUME r.op = "stats" PROVE ReadingOf(p)'
  BY DEF ReadingOf, Begin, TypeOK
<1>1. hnd[p] = Nil /\ r.name \in Names
  BY RequestTypes DEF Begin, Shape, ShapeOf
<1>2. pc'[p] = "load_meta" /\ req'[p] = r /\ floor'[p] = fill[r.name] /\ fill' = fill
  BY <1>1 DEF Begin, Goto, TypeOK, storeVars
<1>3. \A i \in StageIdx : fill[r.name][i] \in Nat
  BY <1>1 DEF TypeOK, StoreTypeOK
<1> QED BY <1>2, <1>3 DEF ReadingOf, Reading

LEMMA StepReads ==
  ASSUME TypeOK, TypeOK', Shape, OneChain, Settled, Counted, Embedders = {},
         NEW p \in Procs, Step(p), ReadingOf(p), \A n \in Names : Grows(n)
  PROVE  ReadingOf(p)'
<1>1. pc[p] \notin Creating \cup {"del"}
  BY NobodyManages DEF OneChain
<1>2. ASSUME NEW r \in Requests, Begin(p, r) PROVE ReadingOf(p)'
  BY <1>2, BeginReads
<1>3. CASE LoadStep(p)
  BY <1>3, LoadReads
<1>4. CASE AddStep(p) \/ ExistsStep(p) \/ Unregister(p)
  <2>1. req'[p] = req[p] /\ req[p].op # "stats"
    BY <1>4 DEF AddStep, SetNextBit, IncrFill, AppendNewStage, ExistsStep, HitBit, MissBit, Unregister,
                Shape, ShapeOf, Adding
  <2> QED BY <2>1 DEF ReadingOf
<1>5. CASE Fail(p)
  <2>1. /\ pc'[p] = "done" /\ res'[p] = "error" /\ pc[p] # "idle"
        /\ UNCHANGED <<req, fill, floor>>
    BY <1>5 DEF Fail, Finish, TypeOK, storeVars, histVars
  <2> QED BY <2>1 DEF ReadingOf, Reading
<1>6. CASE Return(p)
  BY <1>6 DEF Return, ReadingOf, TypeOK
<1>7. CASE CreateStep(p) \/ DropKeys(p)
  BY <1>1, <1>7 DEF CreateStep, CheckExisting, WriteMeta, WriteStage0, Register, DropKeys, Creating
<1> QED BY <1>2, <1>3, <1>4, <1>5, <1>6, <1>7 DEF Step, Serve, DropStep

(* No step of p touches what another reader was owed. *)
LEMMA OthersRead ==
  ASSUME TypeOK, Shape, OneChain, Settled, NEW p \in Procs, NEW q \in Procs \ {p}, Step(p)
  PROVE  floor'[q] = floor[q]
<1>1. ~ DropKeys(p)
  BY NobodyManages DEF OneChain, DropKeys
<1>2. \/ floor' = floor
      \/ Return(p)
      \/ \E r \in Requests : Begin(p, r)
  BY <1>1 DEF Step, Serve, CreateStep, CheckExisting, WriteMeta, WriteStage0, Register,
              LoadStep, LoadMeta, LoadStage, LoadFill, AddStep, SetNextBit, IncrFill, AppendNewStage,
              ExistsStep, HitBit, MissBit, DropStep, Unregister, Fail, histVars
<1> QED BY <1>2 DEF Return, Begin, TypeOK

(* Statistics report for every stage at least what was counted when the    *)
(* request arrived and at most what is counted now, and miss no stage that *)
(* had items then, while adders count and grow the filter: where nobody    *)
(* creates or deletes and no program keeps its Filter (Load, Stats).       *)
THEOREM StatsLieBetween ==
  ASSUME Settled, Embedders = {}
  PROVE  Spec => []StatsSeeRecordedLoad
<1> DEFINE Inv == Counted /\ \A p \in Procs : ReadingOf(p)
<1>1. Init => Inv
  <2> SUFFICES ASSUME Init PROVE Inv
    OBVIOUS
  <2>1. \A n \in Names, i \in StageIdx : fill[n][i] = 0
    BY DEF Init
  <2>2. Counted
    BY <2>1 DEF Counted
  <2>3. \A p \in Procs : ReadingOf(p)
    BY DEF Init, ReadingOf
  <2> QED BY <2>2, <2>3
<1>2. TypeOK /\ TypeOK' /\ Shape /\ OneChain /\ Inv /\ [Next]_vars => Inv'
  <2>1. ASSUME TypeOK, TypeOK', Shape, OneChain, Inv, Next PROVE Inv'
    <3>1. PICK p \in Procs : Step(p)
      BY <2>1, NextIsStep
    <3>2. \A n \in Names : Grows(n)
      BY <2>1, <3>1, StoreGrows DEF OneChain
    <3>3. Counted' /\ ReadingOf(p)'
      BY <2>1, <3>1, <3>2, CountedStays, StepReads
    <3>4. ASSUME NEW q \in Procs \ {p} PROVE ReadingOf(q)'
      <4>1. Untouched(q) /\ floor'[q] = floor[q]
        BY <2>1, <3>1, OthersUntouched, OthersRead
      <4> QED BY <2>1, <3>2, <4>1, ReadingStays DEF Untouched
    <3> QED BY <3>3, <3>4
  <2>2. ASSUME Inv, UNCHANGED vars PROVE Inv'
    BY <2>2 DEF vars, storeVars, procVars, histVars, Counted, ReadingOf, Reading, Between
  <2> QED BY <2>1, <2>2
<1>3. TypeOK /\ Shape /\ Inv => StatsSeeRecordedLoad
  <2> SUFFICES ASSUME TypeOK, Shape, Inv, NEW p \in Procs,
                      pc[p] = "done", res[p] = "ok", req[p].op = "stats"
      PROVE  /\ \A i \in 1 .. Len(ld[p].fills) :
                  floor[p][i - 1] <= ld[p].fills[i] /\ ld[p].fills[i] <= fill[req[p].name][i - 1]
             /\ \A i \in StageIdx : floor[p][i] > 0 => i < Len(ld[p].fills)
    BY DEF StatsSeeRecordedLoad
  <2>1. ReadingOf(p) /\ Reading(p) /\ pc[p] # "idle"
    BY DEF Reading
  <2>2. /\ Between(req[p].name, floor[p], ld[p].fills)
        /\ Len(ld[p].fills) = Len(ld[p].stages) /\ Len(ld[p].stages) = ld[p].count
        /\ \A i \in StageIdx : floor[p][i] > 0 => i < ld[p].count
    BY <2>1 DEF ReadingOf
  <2> QED BY <2>2 DEF Between
<1> QED BY <1>1, <1>2, <1>3, OneChainStays, PTL DEF Spec

-----------------------------------------------------------------------------
(* How far a stage fills beyond its capacity, where nobody creates or      *)
(* deletes and no store call fails.  While the stage is the last, every    *)
(* process that counted an item over the capacity is about to append; once *)
(* it is not, only the processes that took their copy of the chain before  *)
(* can count one more item in it, each once.                               *)

(* The processes about to append to filter n after stage i. *)
Appending(n, i) ==
  {p \in Procs : pc[p] = "append" /\ hnd[p].name = n /\ Len(hnd[p].stages) = i + 1}

(* A process for which stage i is the last of filter n, or will be.        *)
LagsAt(p, n, i) ==
  \/ /\ hnd[p] # Nil /\ hnd[p].name = n /\ Len(hnd[p].stages) = i + 1
     /\ pc[p] \notin {"append"} \cup Loading
  \/ pc[p] \in {"load_stage", "load_fill"} /\ req[p].name = n /\ ld[p].count = i + 1

Lagging(n, i) == {p \in Procs : LagsAt(p, n, i)}

Over(n, i) == fill[n][i] - Capacity(stageMeta[n][i]) + 1

OverfillOf(n, i) ==
  meta[n] # Nil /\ i < meta[n].stage_count /\ Sizable(meta[n].par, i + 1) =>
    /\ meta[n].stage_count = i + 1 /\ Over(n, i) > 0 => Over(n, i) <= Cardinality(Appending(n, i))
    /\ meta[n].stage_count > i + 1 => Over(n, i) + Cardinality(Lagging(n, i)) <= Cardinality(Procs)

Overfills == \A n \in Names, i \in StageIdx : OverfillOf(n, i)

(* The stages of the chain and their sizes. *)
LEMMA StageFacts ==
  ASSUME TypeOK, ChainIntact, NEW n \in Names, meta[n] # Nil, NEW i \in StageIdx
  PROVE  /\ meta[n] \in Meta /\ meta[n].stage_count \in 1 .. MaxStages /\ meta[n].stage_count \in Nat
         /\ i \in Nat /\ fill[n][i] \in Nat
         /\ i < meta[n].stage_count =>
              /\ stageMeta[n][i] = computeStage(meta[n].par, i)
              /\ Capacity(stageMeta[n][i]) \in Nat \ {0}
              /\ Over(n, i) \in Int
<1>1. meta[n] \in Meta /\ i \in Nat /\ fill[n][i] \in Nat
  BY StoreAssumption DEF TypeOK, StoreTypeOK, StageIdx
<1>2. meta[n].stage_count \in 1 .. MaxStages /\ meta[n].stage_count \in Nat /\ meta[n].par \in Params
  BY <1>1, StoreAssumption DEF Meta
<1>3. i < meta[n].stage_count => stageMeta[n][i] = computeStage(meta[n].par, i)
  BY DEF ChainIntact
<1>4. computeStage(meta[n].par, i) \in Stages
  BY <1>2, StageType
<1>5. Capacity(computeStage(meta[n].par, i)) \in Nat \ {0}
  BY <1>4, FilterAssumption
<1> QED BY <1>1, <1>2, <1>3, <1>5 DEF Over

(* A counter changes by the INCR of the process that moves. *)
LEMMA FillSteps ==
  ASSUME TypeOK, Shape, Issued, Settled, NEW p \in Procs, Step(p), NEW n \in Names, NEW i \in StageIdx
  PROVE  \/ fill'[n][i] = fill[n][i]
         \/ IncrFill(p) /\ n = hnd[p].name /\ i = at[p] /\ fill'[n][i] = fill[n][i] + 1
<1>1. CASE IncrFill(p)
  BY <1>1 DEF IncrFill, Incr, TypeOK, StoreTypeOK
<1>2. CASE ~ IncrFill(p)
  <2>1. ~ DropKeys(p)
    BY NobodyManages DEF DropKeys
  <2> QED BY <1>2, <2>1
     DEF Step, Serve, Begin, CreateStep, CheckExisting, Register, SAdd, WriteMeta, HSetMeta,
         WriteStage0, HSetStage, LoadStep, LoadMeta, LoadStage, LoadFill, AddStep, SetNextBit, SetBit,
         AppendNewStage, AppendStage, ExistsStep, HitBit, MissBit, DropStep, Unregister, SRem,
         Fail, Return, storeVars
<1> QED BY <1>1, <1>2

(* A chain changes by the append of the process that moves, which then has *)
(* the stage it appended.                                                  *)
LEMMA CountSteps ==
  ASSUME TypeOK, TypeOK', Shape, OneChain, Settled, NEW p \in Procs, Step(p), NEW n \in Names, meta'[n] # Nil
  PROVE  /\ meta[n] # Nil /\ meta'[n].par = meta[n].par
         /\ \/ meta'[n].stage_count = meta[n].stage_count
            \/ /\ AppendNewStage(p) /\ hnd[p] # Nil /\ hnd[p].name = n
               /\ Len(hnd[p].stages) = meta[n].stage_count
               /\ meta'[n].stage_count = meta[n].stage_count + 1
               /\ pc[p] = "append" /\ pc'[p] = "done"
               /\ Len(hnd'[p].stages) = meta[n].stage_count + 1
<1>1. ~ WriteMeta(p) /\ ~ WriteStage0(p) /\ ~ DropKeys(p)
  BY NobodyManages DEF OneChain, WriteMeta, WriteStage0, DropKeys, Creating
<1>2. meta[n] # Nil
  BY <1>1, StepRevives, NobodyManages DEF OneChain, Creating
<1>3. CASE meta'[n] = meta[n]
  BY <1>2, <1>3
<1>4. CASE meta'[n] # meta[n]
  <2> DEFINE h == hnd[p]
             idx == Len(h.stages)
             st == computeStage(h.par, idx)
  <2>1. AppendNewStage(p)
    BY <1>1, <1>4, HashSteps
  <2>2. /\ pc[p] = "append" /\ AppendStage(h.name, idx, st)
        /\ h \in Handles /\ h # Nil /\ h.name \in Names /\ h.stages \in Seq(Stages) /\ idx \in Nat
    <3>1. pc[p] = "append" /\ AppendStage(h.name, idx, st)
      BY <2>1 DEF AppendNewStage
    <3>2. h # Nil
      BY <3>1 DEF Shape, ShapeOf, Adding
    <3> QED BY <3>1, <3>2, CopyTypes
  <2>3. AppendWins(h.name, idx) /\ meta' = [meta EXCEPT ![h.name].stage_count = @ + 1] /\ h.name = n
    <3>1. AppendWins(h.name, idx) /\ meta' = [meta EXCEPT ![h.name].stage_count = @ + 1]
      BY <1>4, <2>2 DEF AppendStage, storeVars
    <3> QED BY <1>4, <2>2, <3>1 DEF TypeOK, StoreTypeOK
  <2>4. meta[n] \in Meta /\ meta[n].stage_count = idx
    BY <1>2, <2>3 DEF AppendWins, TypeOK, StoreTypeOK
  <2>5. meta'[n] = [meta[n] EXCEPT !.stage_count = @ + 1]
    BY <2>3 DEF TypeOK, StoreTypeOK
  <2>6. meta'[n].par = meta[n].par /\ meta'[n].stage_count = idx + 1
    BY <2>4, <2>5 DEF Meta
  <2>7. AppendReply(n, idx) = idx + 1
    BY <1>2, <2>3 DEF AppendReply
  <2>8. pc'[p] = "done" /\ hnd'[p] = [h EXCEPT !.stages = Append(@, st)]
    <3>1. idx + 1 # Nil
      BY <2>2, StoreAssumption
    <3> HIDE DEF idx, st
    <3>2. /\ pc' = [pc EXCEPT ![p] = "done"]
          /\ hnd' = [hnd EXCEPT ![p].stages = Append(@, st)]
      BY <2>1, <2>2, <2>3, <2>7, <3>1 DEF AppendNewStage, Finish, idx, st
    <3> QED BY <3>2 DEF TypeOK
  <2>9. Len(hnd'[p].stages) = idx + 1
    BY <2>2, <2>8 DEF Handles
  <2> QED BY <1>2, <2>1, <2>2, <2>3, <2>4, <2>6, <2>8, <2>9
<1> QED BY <1>3, <1>4

(* Nobody who moves comes to count in a stage that is not the last: copies *)
(* are taken of the whole chain, and lengthened.                           *)
LEMMA LaggingShrinks ==
  ASSUME TypeOK, TypeOK', Shape, OneChain, Settled, NEW p \in Procs, Step(p), ~ Fail(p),
         NEW n \in Names, NEW i \in StageIdx, meta[n] # Nil, meta[n].stage_count > i + 1,
         NEW q \in Procs, LagsAt(q, n, i)'
  PROVE  LagsAt(q, n, i)
<1>0. i \in Nat /\ meta[n].stage_count \in Nat
  BY StageFacts DEF OneChain
<1>1. CASE q # p
  BY <1>1, OthersUntouched DEF Untouched, LagsAt
<1>2. CASE q = p
  <2>1. CASE /\ hnd'[p] = hnd[p] \/ hnd'[p] = Nil
             /\ pc[p] \notin {"append"} \cup Loading
             /\ pc'[p] \notin {"load_stage", "load_fill"}
    BY <1>2, <2>1 DEF LagsAt
  <2>2. ASSUME NEW r \in Requests, Begin(p, r) PROVE LagsAt(q, n, i)
    <3>1. r.op # "create" => r.op \in {"add", "exists", "stats", "delete"}
      BY RequestTypes
    <3>2. pc[p] = "idle" /\ hnd'[p] = hnd[p] /\ pc'[p] \notin {"load_stage", "load_fill"}
      BY <2>2, <3>1 DEF Begin, Enter, EntryLabel, Goto, TypeOK
    <3> QED BY <2>1, <3>2 DEF Loading
  <2>3. CASE SetNextBit(p) \/ IncrFill(p) \/ ExistsStep(p) \/ Unregister(p) \/ Return(p)
    <3>1. pc[p] \in {"set_bits", "incr", "get_bits", "srem", "done"}
      BY <2>3 DEF SetNextBit, IncrFill, ExistsStep, HitBit, MissBit, Unregister, Return
    <3>2. hnd'[p] = hnd[p] \/ hnd'[p] = Nil
      BY <2>3 DEF SetNextBit, IncrFill, ExistsStep, HitBit, MissBit, Unregister, Return, TypeOK
    <3>3. pc'[p] \notin {"load_stage", "load_fill"}
      <4>1. SetNextBit(p) \/ ExistsStep(p) => pc'[p] \notin {"load_stage", "load_fill"}
        BY DEF SetNextBit, ExistsStep, HitBit, MissBit, Finish, Goto, TypeOK
      <4>2. IncrFill(p) => pc'[p] \notin {"load_stage", "load_fill"}
        BY DEF IncrFill, Finish, Goto, TypeOK
      <4>3. Unregister(p) \/ Return(p) => pc'[p] \notin {"load_stage", "load_fill"}
        BY DEF Unregister, Return, Finish, TypeOK
      <4> QED BY <2>3, <4>1, <4>2, <4>3
    <3> QED BY <2>1, <3>1, <3>2, <3>3 DEF Loading
  <2>4. CASE CreateStep(p) \/ DropKeys(p)
    BY <2>4, NobodyManages
       DEF OneChain, CreateStep, CheckExisting, WriteMeta, WriteStage0, Register, DropKeys, Creating
  <2>5. CASE LoadStep(p)
    <3>1. /\ pc[p] \in Loading /\ req' = req /\ req[p].name \in Names /\ FollowerOf(p)
          /\ hnd[p] # Nil => hnd[p].name = req[p].name /\ hnd[p] \in Handles
      <4>1. pc[p] \in Loading /\ req' = req
        BY <2>5 DEF LoadStep, LoadMeta, LoadStage, LoadFill, Loading
      <4> QED BY <4>1, CopyTypes DEF OneChain, Shape, ShapeOf, Loading
    <3>2. CASE LoadMeta(p)
      <4>1. hnd' = hnd
        BY <3>2 DEF LoadMeta
      <4>2. CASE meta[req[p].name] = Nil
        <5>1. hnd[p] = Nil
          BY <3>1, <4>2 DEF FollowerOf, Follows
        <5>2. pc'[p] = "done"
          BY <3>2, <4>2 DEF LoadMeta, Finish, TypeOK
        <5> QED BY <1>2, <4>1, <5>1, <5>2 DEF LagsAt
      <4>3. CASE meta[req[p].name] # Nil
        <5>1. /\ pc'[p] = "load_stage"
              /\ ld'[p] = [par |-> meta[req[p].name].par, count |-> meta[req[p].name].stage_count,
                           stages |-> <<>>, fills |-> <<>>]
          BY <3>2, <4>3 DEF LoadMeta, Goto, TypeOK
        <5>2. ld'[p].count = meta[req[p].name].stage_count
          BY <5>1
        <5> QED BY <1>0, <1>2, <3>1, <5>1, <5>2 DEF LagsAt, Loading
      <4> QED BY <4>2, <4>3
    <3>3. CASE LoadStage(p)
      <4> DEFINE m == req[p].name
                 j == Len(ld[p].stages)
                 st == stageMeta[m][j]
      <4>1. /\ pc[p] = "load_stage" /\ ld[p] \in Loads /\ j \in Nat /\ j < ld[p].count
            /\ ld[p].count <= meta[m].stage_count /\ meta[m] # Nil
        <5>1. pc[p] = "load_stage"
          BY <3>3 DEF LoadStage
        <5>2. ld[p] \in Loads /\ ld[p].stages \in Seq(Stages)
          BY <5>1, CopyTypes
        <5> QED BY <3>1, <5>1, <5>2 DEF FollowerOf, Follows, Shape, ShapeOf
      <4>2. st # Nil
        <5>1. meta[m].stage_count \in 1 .. MaxStages /\ ld[p].count \in Nat /\ MaxStages \in Nat
          <6>1. meta[m] \in Meta
            BY <3>1, <4>1 DEF TypeOK, StoreTypeOK
          <6> QED BY <4>1, <6>1, StoreAssumption DEF Meta, Loads
        <5>2. j \in StageIdx /\ j < meta[m].stage_count
          BY <4>1, <5>1 DEF StageIdx
        <5>3. stageMeta[m][j] = computeStage(meta[m].par, j) /\ meta[m].par \in Params
          BY <3>1, <4>1, <5>2 DEF OneChain, ChainIntact, TypeOK, StoreTypeOK, Meta
        <5> QED BY <5>2, <5>3, StageType, StoreAssumption
      <4>3. pc'[p] = "load_fill" /\ ld'[p] = [ld[p] EXCEPT !.stages = Append(@, st)]
        BY <3>3, <4>2 DEF LoadStage, Goto, TypeOK
      <4>4. ld'[p].count = ld[p].count
        BY <4>1, <4>3 DEF Loads
      <4> QED BY <1>2, <3>1, <4>1, <4>3, <4>4 DEF LagsAt, Loading
    <3>4. CASE LoadFill(p)
      <4>1. pc[p] = "load_fill" /\ ld[p] \in Loads /\ Len(ld[p].stages) \in 1 .. ld[p].count
            /\ req[p].op \in {"add", "exists", "stats", "delete"}
        <5>1. pc[p] = "load_fill"
          BY <3>4 DEF LoadFill
        <5> QED BY <5>1, CopyTypes, RequestTypes DEF TypeOK, Shape, ShapeOf, Loading
      <4>2. ld'[p].count = ld[p].count
        BY <3>4, <4>1 DEF LoadFill, TypeOK, Loads
      <4>3. CASE Len(ld[p].stages) < ld[p].count
        <5>1. pc'[p] = "load_stage"
          BY <3>4, <4>3 DEF LoadFill, Goto, TypeOK
        <5> QED BY <1>2, <3>1, <4>1, <4>2, <5>1 DEF LagsAt, Loading
      <4>4. CASE ~ (Len(ld[p].stages) < ld[p].count)
        <5>1. Len(ld[p].stages) = ld[p].count
          BY <4>1, <4>4 DEF Loads
        <5>2. pc'[p] \notin {"load_stage", "load_fill"}
          <6>1. pc'[p] \in {"done", EntryLabel[req[p].op]}
            BY <3>4, <4>4 DEF LoadFill, Enter, Finish, TypeOK
          <6> QED BY <4>1, <6>1 DEF EntryLabel
        <5>3. hnd'[p].name = req[p].name /\ hnd'[p].stages = ld[p].stages
          <6>1. CASE hnd[p] = Nil
            <7>1. Enter(p, req[p], [name |-> req[p].name, par |-> ld[p].par, stages |-> ld[p].stages])
              BY <3>4, <4>4, <6>1 DEF LoadFill
            <7>2. hnd'[p] = [name |-> req[p].name, par |-> ld[p].par, stages |-> ld[p].stages]
              BY <7>1 DEF Enter, TypeOK
            <7> QED BY <7>2
          <6>2. CASE hnd[p] # Nil
            <7>1. hnd'[p] = [hnd[p] EXCEPT !.stages = ld[p].stages]
              BY <3>4, <4>4, <6>2 DEF LoadFill, TypeOK
            <7> QED BY <3>1, <6>2, <7>1 DEF Handles
          <6> QED BY <6>1, <6>2
        <5> QED BY <1>2, <4>1, <5>1, <5>2, <5>3 DEF LagsAt
      <4> QED BY <4>3, <4>4
    <3> QED BY <2>5, <3>2, <3>3, <3>4 DEF LoadStep
  <2>6. CASE AppendNewStage(p)
    <3> DEFINE h == hnd[p]
               idx == Len(h.stages)
               st == computeStage(h.par, idx)
               reply == AppendReply(h.name, idx)
    <3>1. /\ pc[p] = "append" /\ h # Nil /\ h \in Handles /\ h.name \in Names /\ idx \in Nat
          /\ h.stages \in Seq(Stages) /\ Follows(h.name, h.par, h.stages)
      <4>1. pc[p] = "append" /\ h # Nil
        BY <2>6 DEF AppendNewStage, Shape, ShapeOf, Adding
      <4> QED BY <4>1, CopyTypes DEF OneChain, FollowerOf
    <3>2. meta[h.name] # Nil /\ meta[h.name].stage_count \in Nat
      <4>1. meta[h.name] # Nil /\ meta[h.name] \in Meta
        BY <3>1 DEF Follows, TypeOK, StoreTypeOK
      <4> QED BY <4>1, StoreAssumption DEF Meta
    <3>3. reply \in Nat /\ reply # Nil /\ (reply = idx + 1 \/ reply = meta[h.name].stage_count)
      BY <3>1, <3>2, StoreAssumption DEF AppendReply
    <3>4. CASE reply > idx + 1
      <4>1. pc'[p] = "load_meta"
        BY <2>6, <3>3, <3>4 DEF AppendNewStage, Goto, TypeOK
      <4> QED BY <1>2, <4>1 DEF LagsAt, Loading
    <3>5. CASE ~ (reply > idx + 1)
      <4> HIDE DEF st
      <4>1. pc'[p] = "done" /\ hnd'[p] = [h EXCEPT !.stages = Append(@, st)]
        BY <2>6, <3>3, <3>5 DEF AppendNewStage, Finish, TypeOK, st
      <4>2. hnd'[p].name = h.name /\ Len(hnd'[p].stages) = idx + 1
        BY <3>1, <4>1 DEF Handles
      <4>3. h.name = n /\ idx = i
        BY <1>0, <1>2, <3>1, <4>1, <4>2 DEF LagsAt
      <4>4. ~ AppendWins(h.name, idx)
        BY <1>0, <4>3 DEF AppendWins
      <4>5. reply = meta[n].stage_count
        BY <3>2, <4>3, <4>4 DEF AppendReply
      <4> QED BY <1>0, <3>5, <4>3, <4>5
    <3> QED BY <3>4, <3>5
  <2> QED BY <2>2, <2>3, <2>4, <2>5, <2>6 DEF Step, Serve, AddStep, DropStep
<1> QED BY <1>1, <1>2

(* There are no more of either than there are processes.                   *)
LEMMA FewerThanProcs ==
  ASSUME IsFiniteSet(Procs), NEW S \in SUBSET Procs
  PROVE  IsFiniteSet(S) /\ Cardinality(S) \in Nat /\ Cardinality(Procs) \in Nat
         /\ Cardinality(S) <= Cardinality(Procs)
BY FS_Subset, FS_CardinalityType

(* An INCR that reaches the capacity of a stage is followed by an append.  *)
LEMMA IncrAppends ==
  ASSUME TypeOK, Shape, OneChain, NEW p \in Procs, IncrFill(p),
         NEW n \in Names, NEW i \in StageIdx, n = hnd[p].name, i = at[p],
         Sizable(meta[n].par, i + 1), fill[n][i] + 1 >= Capacity(stageMeta[n][i])
  PROVE  /\ pc[p] = "incr" /\ pc'[p] = "append" /\ hnd' = hnd
         /\ hnd[p] # Nil /\ Len(hnd[p].stages) = i + 1
<1>1. /\ pc[p] = "incr" /\ hnd' = hnd /\ hnd[p] # Nil /\ i = Len(hnd[p].stages) - 1
      /\ Follows(n, hnd[p].par, hnd[p].stages)
  BY DEF IncrFill, Shape, ShapeOf, Adding, OneChain, FollowerOf
<1>2. Len(hnd[p].stages) = i + 1 /\ Last(hnd[p].stages) = hnd[p].stages[i + 1] /\ i \in Nat
  <2>1. Len(hnd[p].stages) \in Nat /\ Last(hnd[p].stages) = hnd[p].stages[Len(hnd[p].stages)]
    BY <1>1, CopyTypes
  <2> QED BY <1>1, <2>1 DEF StageIdx
<1>3. hnd[p].par = meta[n].par /\ meta[n] # Nil /\ Last(hnd[p].stages) = computeStage(meta[n].par, i)
  <2>1. i \in Nat /\ Len(hnd[p].stages) = i + 1
    BY <1>2
  <2>2. i + 1 \in 1 .. i + 1 /\ (i + 1) - 1 = i
    BY <2>1
  <2> QED BY <1>1, <1>2, <2>1, <2>2 DEF Follows
<1>4. stageMeta[n][i] = computeStage(meta[n].par, i)
  <2>1. i < meta[n].stage_count
    BY <1>1, <1>2, <1>3, StageFacts DEF Follows, OneChain
  <2> QED BY <1>3, <2>1, StageFacts DEF OneChain
<1>5. Full(Last(hnd[p].stages), fill[n][i] + 1) /\ Sizable(hnd[p].par, Len(hnd[p].stages))
  BY <1>2, <1>3, <1>4 DEF Full
<1>6. pc'[p] = "append"
  BY <1>5 DEF IncrFill, Goto, TypeOK
<1> QED BY <1>1, <1>2, <1>6

(* A process about to append after the last stage does.                    *)
LEMMA AppendsLast ==
  ASSUME TypeOK, Shape, OneChain, NEW p \in Procs, Step(p), ~ Fail(p), NEW n \in Names,
         meta[n] # Nil, pc[p] = "append", hnd[p].name = n, Len(hnd[p].stages) = meta[n].stage_count
  PROVE  meta'[n].stage_count = meta[n].stage_count + 1
<1>1. AppendNewStage(p)
  BY DEF Step, Serve, Begin, CreateStep, CheckExisting, WriteMeta, WriteStage0, Register,
         LoadStep, LoadMeta, LoadStage, LoadFill, AddStep, SetNextBit, IncrFill,
         ExistsStep, HitBit, MissBit, DropStep, DropKeys, Unregister, Return
<1>2. AppendWins(n, meta[n].stage_count)
  BY DEF AppendWins
<1>3. meta' = [meta EXCEPT ![n].stage_count = @ + 1]
  BY <1>1, <1>2 DEF AppendNewStage, AppendStage
<1>4. meta'[n] = [meta[n] EXCEPT !.stage_count = @ + 1] /\ meta[n] \in Meta
  BY <1>3 DEF TypeOK, StoreTypeOK
<1> QED BY <1>4 DEF Meta

(* While a stage is the last, whoever counts an item over its capacity     *)
(* comes to append after it, and nobody who is about to leaves.            *)
LEMMA LastOverfill ==
  ASSUME TypeOK, TypeOK', Shape, OneChain, ChainIntact', Settled, IsFiniteSet(Procs),
         NEW p \in Procs, Step(p), ~ Fail(p), NEW n \in Names, NEW i \in StageIdx, OverfillOf(n, i),
         meta[n] # Nil, meta'[n] # Nil, meta'[n].par = meta[n].par,
         meta[n].stage_count = i + 1, meta'[n].stage_count = i + 1,
         Sizable(meta[n].par, i + 1), Over(n, i)' > 0
  PROVE  Over(n, i)' <= Cardinality(Appending(n, i)')
<1>1. /\ i \in Nat /\ i < meta[n].stage_count /\ fill[n][i] \in Nat /\ fill'[n][i] \in Nat
      /\ Capacity(stageMeta[n][i]) \in Nat /\ stageMeta'[n][i] = stageMeta[n][i]
  <2>1. i \in Nat /\ i < meta[n].stage_count /\ i < meta'[n].stage_count /\ fill'[n][i] \in Nat
    <3>1. i \in Nat
      BY DEF StageIdx
    <3> QED BY <3>1 DEF TypeOK, StoreTypeOK
  <2>2. stageMeta'[n][i] = computeStage(meta'[n].par, i)
    BY <2>1 DEF ChainIntact
  <2> QED BY <2>1, <2>2, StageFacts DEF OneChain
<1> DEFINE A == Appending(n, i)
           B == Appending(n, i)'
<1>2. A \subseteq B
  <2> SUFFICES ASSUME NEW q \in A PROVE q \in B
    OBVIOUS
  <2>1. q # p
    <3> SUFFICES ASSUME q = p PROVE FALSE
      OBVIOUS
    <3>1. meta'[n].stage_count = meta[n].stage_count + 1
      BY AppendsLast DEF Appending
    <3> QED BY <1>1, <3>1
  <2> QED BY <2>1, OthersUntouched DEF Appending, Untouched
<1>3. IsFiniteSet(A) /\ IsFiniteSet(B) /\ Cardinality(A) \in Nat /\ Cardinality(B) \in Nat
      /\ Cardinality(A) <= Cardinality(B)
  BY <1>2, FewerThanProcs, FS_Subset DEF Appending
<1>4. Over(n, i) > 0 => Over(n, i) <= Cardinality(A)
  BY <1>1 DEF OverfillOf
<1>5. CASE fill'[n][i] = fill[n][i]
  BY <1>1, <1>3, <1>4, <1>5 DEF Over
<1>6. CASE IncrFill(p) /\ n = hnd[p].name /\ i = at[p] /\ fill'[n][i] = fill[n][i] + 1
  <2>1. fill[n][i] + 1 >= Capacity(stageMeta[n][i])
    BY <1>1, <1>6 DEF Over
  <2>2. /\ pc[p] = "incr" /\ pc'[p] = "append" /\ hnd' = hnd
        /\ hnd[p] # Nil /\ Len(hnd[p].stages) = i + 1
    BY <1>6, <2>1, IncrAppends
  <2>3. p \notin A /\ p \in B
    BY <1>6, <2>2 DEF Appending
  <2> HIDE DEF A, B
  <2>4. Cardinality(A \cup {p}) = Cardinality(A) + 1 /\ Cardinality(A \cup {p}) <= Cardinality(B)
    <3>1. A \cup {p} \in SUBSET B
      BY <1>2, <2>3
    <3> QED BY <1>3, <2>3, <3>1, FS_AddElement, FS_Subset
  <2>5. Over(n, i)' = Over(n, i) + 1 /\ Over(n, i) \in Int
    BY <1>1, <1>6 DEF Over
  <2>6. Over(n, i)' <= Cardinality(B)
    BY <1>3, <1>4, <2>4, <2>5
  <2> QED BY <2>6 DEF B
<1> QED BY <1>5, <1>6, FillSteps DEF OneChain

(* When the stage gets its successor, nobody who was about to append can   *)
(* count in it once more, and nor can the one who did.                     *)
LEMMA HandoverOverfill ==
  ASSUME TypeOK, TypeOK', Shape, OneChain, ChainIntact', Settled, IsFiniteSet(Procs),
         NEW p \in Procs, AppendNewStage(p), Step(p), NEW n \in Names, NEW i \in StageIdx, OverfillOf(n, i),
         meta[n] # Nil, meta'[n] # Nil, meta'[n].par = meta[n].par,
         meta[n].stage_count = i + 1, meta'[n].stage_count = i + 2,
         pc[p] = "append", pc'[p] = "done", hnd[p] # Nil, hnd[p].name = n,
         Len(hnd[p].stages) = i + 1, Len(hnd'[p].stages) = i + 2,
         Sizable(meta[n].par, i + 1)
  PROVE  Over(n, i)' + Cardinality(Lagging(n, i)') <= Cardinality(Procs)
<1>1. /\ i \in Nat /\ i < meta[n].stage_count /\ fill[n][i] \in Nat /\ fill' = fill
      /\ Capacity(stageMeta[n][i]) \in Nat /\ stageMeta'[n][i] = stageMeta[n][i]
  <2>1. i \in Nat /\ i < meta[n].stage_count /\ i < meta'[n].stage_count
    BY DEF StageIdx
  <2>2. stageMeta'[n][i] = computeStage(meta'[n].par, i)
    BY <2>1 DEF ChainIntact
  <2>3. fill' = fill
    BY DEF AppendNewStage, AppendStage, storeVars
  <2> QED BY <2>1, <2>2, <2>3, StageFacts DEF OneChain
<1> DEFINE A == Appending(n, i)
           B == Lagging(n, i)'
<1>2. Over(n, i)' = Over(n, i) /\ Over(n, i) \in Int
  BY <1>1 DEF Over
<1>3. p \in A /\ A \cap B = {}
  <2>1. p \in A
    BY DEF Appending
  <2>2. p \notin B
    BY <1>1 DEF Lagging, LagsAt
  <2>3. ASSUME NEW q \in A, q # p PROVE q \notin B
    BY <2>3, OthersUntouched DEF Appending, Lagging, LagsAt, Untouched
  <2> QED BY <2>1, <2>2, <2>3
<1>4. A \in SUBSET Procs /\ B \in SUBSET Procs /\ A \cup B \in SUBSET Procs
  BY DEF Appending, Lagging
<1>5. /\ IsFiniteSet(A) /\ IsFiniteSet(B) /\ Cardinality(A) \in Nat /\ Cardinality(B) \in Nat
      /\ Cardinality(A \cup B) <= Cardinality(Procs) /\ Cardinality(Procs) \in Nat
  BY <1>4, FewerThanProcs
<1>6. Cardinality(A \cup B) = Cardinality(A) + Cardinality(B)
  <2> HIDE DEF A, B
  <2>1. Cardinality(A \cap B) = 0
    BY <1>3, FS_EmptySet
  <2>2. Cardinality(A \cup B) = Cardinality(A) + Cardinality(B) - Cardinality(A \cap B)
    BY <1>5, FS_Union
  <2> QED BY <1>5, <2>1, <2>2
<1>7. Over(n, i) > 0 => Over(n, i) <= Cardinality(A)
  BY <1>1 DEF OverfillOf
<1> HIDE DEF A, B
<1>8. Over(n, i) + Cardinality(B) <= Cardinality(Procs)
  BY <1>2, <1>5, <1>6, <1>7
<1> QED BY <1>2, <1>8 DEF B

(* From then on every item counted in the stage uses up a process that was *)
(* behind.                                                                 *)
LEMMA PassedOverfill ==
  ASSUME TypeOK, TypeOK', Shape, OneChain, ChainIntact', Settled, IsFiniteSet(Procs),
         NEW p \in Procs, Step(p), ~ Fail(p), NEW n \in Names, NEW i \in StageIdx, OverfillOf(n, i),
         meta[n] # Nil, meta'[n] # Nil, meta'[n].par = meta[n].par,
         meta[n].stage_count > i + 1, meta'[n].stage_count > i + 1,
         Sizable(meta[n].par, i + 1)
  PROVE  Over(n, i)' + Cardinality(Lagging(n, i)') <= Cardinality(Procs)
<1>1. /\ i \in Nat /\ i < meta[n].stage_count /\ fill[n][i] \in Nat /\ fill'[n][i] \in Nat
      /\ Capacity(stageMeta[n][i]) \in Nat /\ stageMeta'[n][i] = stageMeta[n][i]
      /\ i \in 0 .. meta[n].stage_count - 2
  <2>1. meta[n].stage_count \in Nat /\ i \in Nat
    BY StageFacts DEF OneChain
  <2>2. meta'[n].stage_count \in Nat
    BY StoreAssumption DEF TypeOK, StoreTypeOK, Meta
  <2>3. i < meta[n].stage_count /\ i < meta'[n].stage_count /\ fill'[n][i] \in Nat
        /\ i \in 0 .. meta[n].stage_count - 2
    BY <2>1, <2>2 DEF TypeOK, StoreTypeOK
  <2>4. stageMeta'[n][i] = computeStage(meta'[n].par, i)
    BY <2>3 DEF ChainIntact
  <2> QED BY <2>1, <2>3, <2>4, StageFacts DEF OneChain
<1> DEFINE A == Lagging(n, i)
           B == Lagging(n, i)'
<1>2. B \subseteq A
  BY LaggingShrinks DEF Lagging
<1>3. /\ IsFiniteSet(A) /\ IsFiniteSet(B) /\ Cardinality(A) \in Nat /\ Cardinality(B) \in Nat
      /\ Cardinality(B) <= Cardinality(A) /\ Cardinality(Procs) \in Nat
  <2>1. A \in SUBSET Procs /\ B \in SUBSET Procs
    BY DEF Lagging
  <2> QED BY <1>2, <2>1, FewerThanProcs, FS_Subset
<1>4. Over(n, i) + Cardinality(A) <= Cardinality(Procs) /\ Over(n, i) \in Int
  BY <1>1 DEF OverfillOf, Over
<1>5. CASE fill'[n][i] = fill[n][i]
  <2>1. Over(n, i)' = Over(n, i)
    BY <1>1, <1>5 DEF Over
  <2> QED BY <1>3, <1>4, <2>1
<1>6. CASE IncrFill(p) /\ n = hnd[p].name /\ i = at[p] /\ fill'[n][i] = fill[n][i] + 1
  <2>1. fill[n][i] + 1 >= Capacity(stageMeta[n][i])
    <3>1. fill[n][i] >= Capacity(stageMeta[n][i])
      BY <1>1 DEF OneChain, FullBeforeGrow
    <3> QED BY <1>1, <3>1
  <2>2. /\ pc[p] = "incr" /\ pc'[p] = "append" /\ hnd' = hnd
        /\ hnd[p] # Nil /\ Len(hnd[p].stages) = i + 1
    BY <1>6, <2>1, IncrAppends
  <2>3. p \in A /\ p \notin B
    BY <1>6, <2>2 DEF Lagging, LagsAt, Loading
  <2>4. Cardinality(A \ {p}) = Cardinality(A) - 1 /\ Cardinality(B) <= Cardinality(A \ {p})
    BY <1>2, <1>3, <2>3, FS_RemoveElement, FS_Subset
  <2>5. Over(n, i)' = Over(n, i) + 1
    BY <1>1, <1>6 DEF Over
  <2> HIDE DEF A, B
  <2>6. Over(n, i)' + Cardinality(B) <= Cardinality(Procs)
    BY <1>3, <1>4, <2>4, <2>5
  <2> QED BY <2>6 DEF B
<1> QED BY <1>5, <1>6, FillSteps DEF OneChain

(* A stage that is new has counted nothing. *)
LEMMA NewOverfill ==
  ASSUME TypeOK, TypeOK', Shape, OneChain, ChainIntact', Counted, NEW p \in Procs, AppendNewStage(p),
         NEW n \in Names, NEW i \in StageIdx, meta[n] # Nil, meta'[n] # Nil,
         meta[n].stage_count = i, meta'[n].stage_count = i + 1
  PROVE  Over(n, i)' <= 0
<1>1. i \in Nat /\ fill[n][i] \in Nat
  BY StageFacts DEF OneChain
<1>2. fill[n][i] = 0
  <2>1. ~ (i < meta[n].stage_count)
    BY <1>1
  <2> QED BY <1>1, <2>1 DEF Counted
<1>3. fill' = fill
  BY DEF AppendNewStage, AppendStage, storeVars
<1>4. Capacity(stageMeta'[n][i]) \in Nat \ {0}
  <2>1. stageMeta'[n][i] = computeStage(meta'[n].par, i)
    BY <1>1 DEF ChainIntact
  <2>2. meta'[n].par \in Params
    BY DEF TypeOK, StoreTypeOK, Meta
  <2> QED BY <2>1, <2>2, StageType, FilterAssumption
<1> QED BY <1>2, <1>3, <1>4 DEF Over

LEMMA StepOverfills ==
  ASSUME TypeOK, TypeOK', Shape, OneChain, ChainIntact', Settled, Counted, Overfills, IsFiniteSet(Procs),
         NEW p \in Procs, Step(p), ~ Fail(p)
  PROVE  Overfills'
<1> SUFFICES ASSUME NEW n \in Names, NEW i \in StageIdx,
                    meta'[n] # Nil, i < meta'[n].stage_count, Sizable(meta'[n].par, i + 1)
             PROVE  /\ meta'[n].stage_count = i + 1 /\ Over(n, i)' > 0 =>
                         Over(n, i)' <= Cardinality(Appending(n, i)')
                    /\ meta'[n].stage_count > i + 1 =>
                         Over(n, i)' + Cardinality(Lagging(n, i)') <= Cardinality(Procs)
  BY DEF Overfills, OverfillOf
<1>1. /\ meta[n] # Nil /\ meta'[n].par = meta[n].par /\ Sizable(meta[n].par, i + 1)
      /\ OverfillOf(n, i)
  BY CountSteps DEF Overfills
<1>2. i \in Nat /\ meta[n].stage_count \in Nat
  BY <1>1, StageFacts DEF OneChain
<1>3. CASE meta'[n].stage_count = meta[n].stage_count
  BY <1>1, <1>2, <1>3, LastOverfill, PassedOverfill
<1>4. CASE /\ AppendNewStage(p) /\ hnd[p] # Nil /\ hnd[p].name = n
           /\ Len(hnd[p].stages) = meta[n].stage_count
           /\ meta'[n].stage_count = meta[n].stage_count + 1
           /\ pc[p] = "append" /\ pc'[p] = "done"
           /\ Len(hnd'[p].stages) = meta[n].stage_count + 1
  <2>1. CASE meta[n].stage_count = i
    <3>1. Over(n, i)' <= 0 /\ Over(n, i)' \in Int
      <4>1. Over(n, i)' <= 0
        BY <1>1, <1>4, <2>1, NewOverfill
      <4>2. Over(n, i)' \in Int
        <5>1. fill'[n][i] \in Nat /\ stageMeta'[n][i] = computeStage(meta'[n].par, i)
          BY DEF TypeOK, StoreTypeOK, ChainIntact
        <5>2. meta'[n].par \in Params
          BY DEF TypeOK, StoreTypeOK, Meta
        <5> QED BY <5>1, <5>2, StageType, FilterAssumption DEF Over
      <4> QED BY <4>1, <4>2
    <3> QED BY <1>2, <1>4, <2>1, <3>1
  <2>2. CASE meta[n].stage_count = i + 1
    <3>1. meta'[n].stage_count = i + 2
      BY <1>2, <1>4, <2>2
    <3>2. Len(hnd'[p].stages) = i + 2
      BY <1>2, <1>4, <2>2
    <3>3. Over(n, i)' + Cardinality(Lagging(n, i)') <= Cardinality(Procs)
      BY <1>1, <1>4, <2>2, <3>1, <3>2, HandoverOverfill
    <3> QED BY <1>2, <3>1, <3>3
  <2>3. CASE meta[n].stage_count > i + 1
    BY <1>1, <1>2, <1>4, <2>3, PassedOverfill
  <2>4. i < meta[n].stage_count + 1
    BY <1>4
  <2> QED BY <1>2, <2>1, <2>2, <2>3, <2>4
<1> QED BY <1>3, <1>4, CountSteps

(* Where nobody creates or deletes and no store call fails, a stage that   *)
(* can have a successor takes fewer than as many items over its capacity   *)
(* as there are processes, however late they hear of the successor (Add,   *)
(* appendNewStage).                                                        *)
THEOREM OverfillIsBounded ==
  ASSUME Settled, FaultProne = {}, IsFiniteSet(Procs)
  PROVE  Spec => []OverfillBound
<1>1. Init => Counted /\ Overfills
  <2> SUFFICES ASSUME Init PROVE Counted /\ Overfills
    OBVIOUS
  <2>1. \A n \in Names, i \in StageIdx : fill[n][i] = 0
    BY DEF Init
  <2>2. Counted
    BY <2>1 DEF Counted
  <2>3. ASSUME NEW n \in Names, NEW i \in StageIdx, meta[n] # Nil, i < meta[n].stage_count
        PROVE  OverfillOf(n, i)
    <3>1. Seed[n] # Nil /\ meta[n] = [par |-> Seed[n], stage_count |-> 1]
      BY <2>3 DEF Init
    <3>2. meta[n].stage_count = 1 /\ i = 0
      BY <2>3, <3>1, StoreAssumption DEF StageIdx
    <3>3. stageMeta[n][i] = computeStage(Seed[n], 0) /\ Seed[n] \in Params /\ 0 \in StageIdx
      BY <3>1, <3>2, FilterAssumption DEF Init
    <3>4. Capacity(stageMeta[n][i]) \in Nat \ {0}
      BY <3>3, StageType, FilterAssumption
    <3> QED BY <2>1, <3>2, <3>4 DEF OverfillOf, Over
  <2> QED BY <2>2, <2>3 DEF Overfills, OverfillOf
<1>2. TypeOK /\ TypeOK' /\ Shape /\ OneChain /\ OneChain' /\ Counted /\ Overfills /\ [Next]_vars
        => (Counted /\ Overfills)'
  <2>1. ASSUME TypeOK, TypeOK', Shape, OneChain, OneChain', Counted, Overfills, Next
        PROVE  (Counted /\ Overfills)'
    <3>1. PICK p \in Procs : Step(p)
      BY <2>1, NextIsStep
    <3>2. \A n \in Names : Grows(n)
      BY <2>1, <3>1, StoreGrows DEF OneChain
    <3>3. ~ Fail(p)
      BY DEF Fail
    <3>4. Counted'
      BY <2>1, <3>1, <3>2, CountedStays
    <3>5. Overfills'
      BY <2>1, <3>1, <3>3, StepOverfills DEF OneChain
    <3> QED BY <3>4, <3>5
  <2>2. ASSUME Counted, Overfills, UNCHANGED vars PROVE (Counted /\ Overfills)'
    <3>1. UNCHANGED <<meta, stageMeta, fill, pc, req, ld, hnd>>
      BY <2>2 DEF vars, storeVars, procVars
    <3>2. Counted'
      BY <2>2, <3>1 DEF Counted
    <3>3. ASSUME NEW n \in Names, NEW i \in StageIdx PROVE OverfillOf(n, i)'
      <4>1. Appending(n, i)' = Appending(n, i)
        BY <3>1 DEF Appending
      <4>2. Lagging(n, i)' = Lagging(n, i)
        BY <3>1 DEF Lagging, LagsAt
      <4>3. Over(n, i)' = Over(n, i)
        BY <3>1 DEF Over
      <4>4. OverfillOf(n, i)
        BY <2>2 DEF Overfills
      <4> QED BY <3>1, <4>1, <4>2, <4>3, <4>4 DEF OverfillOf
    <3> QED BY <3>2, <3>3 DEF Overfills
  <2> QED BY <2>1, <2>2
<1>3. TypeOK /\ OneChain /\ Overfills => OverfillBound
  <2> SUFFICES ASSUME TypeOK, OneChain, Overfills, NEW n \in Names, meta[n] # Nil,
                      NEW i \in 0 .. meta[n].stage_count - 1, Sizable(meta[n].par, i + 1)
      PROVE  fill[n][i] < Capacity(stageMeta[n][i]) + Cardinality(Procs)
    BY DEF OverfillBound
  <2>1. i \in StageIdx
    BY ChainTypes DEF TypeOK
  <2>2. /\ meta[n].stage_count \in Nat /\ i \in Nat /\ fill[n][i] \in Nat /\ i < meta[n].stage_count
        /\ Capacity(stageMeta[n][i]) \in Nat
    <3>1. meta[n].stage_count \in Nat
      BY <2>1, StageFacts DEF OneChain
    <3> QED BY <2>1, <3>1, StageFacts DEF OneChain
  <2> DEFINE A == Appending(n, i)
             B == Lagging(n, i)
  <2>3. /\ Cardinality(A) \in Nat /\ Cardinality(B) \in Nat /\ Cardinality(Procs) \in Nat
        /\ Cardinality(A) <= Cardinality(Procs)
    <3>1. A \in SUBSET Procs /\ B \in SUBSET Procs
      BY DEF Appending, Lagging
    <3> QED BY <3>1, FewerThanProcs
  <2>4. OverfillOf(n, i)
    BY <2>1 DEF Overfills
  <2>5. \/ Over(n, i) <= 0 \/ Over(n, i) <= Cardinality(A)
        \/ Over(n, i) + Cardinality(B) <= Cardinality(Procs)
    <3>1. Over(n, i) \in Int
      BY <2>2 DEF Over
    <3> QED BY <2>2, <2>4, <3>1 DEF OverfillOf
  <2> HIDE DEF A, B
  <2> QED BY <2>2, <2>3, <2>5 DEF Over
<1> QED BY <1>1, <1>2, <1>3, OneChainStays, PTL DEF Spec

-----------------------------------------------------------------------------
(* One process at a time, whose requests may fail anywhere: the store then *)
(* holds the keys of chains and nothing else, and a delete takes them all. *)

Alone(p) == Procs = {p} /\ Embedders = {}

(* The bits of a stage are in the shards that its size calls for, which    *)
(* are those Drop deletes.                                                 *)
BitsInShards ==
  \A n \in Names, i \in StageIdx : \A b \in bits[n][i] :
    stageMeta[n][i] # Nil /\ b[1] < ShardCount(stageMeta[n][i])

WholeChain(n, stages) == Matches(n, stages) /\ Len(stages) = meta[n].stage_count

(* What the store is like at each label of the process that has it to      *)
(* itself.                                                                 *)
AloneAt(p) ==
  /\ pc[p] = "write_meta" => meta[req[p].name] = Nil
  /\ pc[p] = "write_stage0" => meta[req[p].name] # Nil /\ NoKeys(req[p].name, 0)
  /\ pc[p] \in {"load_stage", "load_fill"} =>
       Matches(req[p].name, ld[p].stages) /\ ld[p].count = meta[req[p].name].stage_count
  /\ pc[p] \in {"set_bits", "incr", "del"} => WholeChain(hnd[p].name, hnd[p].stages)
  /\ pc[p] = "set_bits" => todo[p] \subseteq Positions(req[p].item, Last(hnd[p].stages))
  /\ pc[p] = "srem" => \A i \in StageIdx : NoKeys(hnd[p].name, i)

AloneInv == NoOrphans /\ BitsInShards /\ \A p \in Procs : AloneAt(p)

(* Steps that write no key of a filter, to a label that asks for nothing.  *)
LEMMA QuietAlone ==
  ASSUME NoOrphans, BitsInShards, UNCHANGED <<meta, stageMeta, fill, bits>>
  PROVE  (NoOrphans /\ BitsInShards)'
BY DEF NoOrphans, BitsInShards, StageCount, NoKeys

LEMMA AtEase ==
  ASSUME NEW p \in Procs,
         pc'[p] \in {"idle", "check", "register", "load_meta", "append", "get_bits", "done"}
  PROVE  AloneAt(p)'
BY DEF AloneAt

(* A request arrives without a Filter. *)
LEMMA BeginAlone ==
  ASSUME TypeOK, Shape, NEW p \in Procs, Alone(p), NEW r \in Requests, Begin(p, r)
  PROVE  AloneAt(p)'
<1>1. hnd[p] = Nil
  BY DEF Begin, Alone, Shape, ShapeOf
<1>2. pc'[p] \in {"check", "load_meta"}
  BY <1>1 DEF Begin, Goto, TypeOK
<1> QED BY <1>2, AtEase

(* New writes a filter hash where there is none, and stage 0 where no key  *)
(* of a stage is.                                                          *)
LEMMA CreateAlone ==
  ASSUME TypeOK, Shape, AloneInv, NEW p \in Procs, CreateStep(p)
  PROVE  (NoOrphans /\ BitsInShards /\ AloneAt(p))'
<1> DEFINE n == req[p].name
           st == computeStage(req[p].par, 0)
<1>1. n \in Names /\ req[p].par \in Params /\ 0 \in StageIdx /\ AloneAt(p) /\ req' = req
  <2>1. pc[p] \in Creating /\ req' = req
    BY DEF CreateStep, CheckExisting, WriteMeta, WriteStage0, Register, Creating
  <2>2. 0 \in StageIdx
    BY StoreAssumption DEF StageIdx
  <2> QED BY <2>1, <2>2, CreateEffect DEF AloneInv
<1>2. CASE CheckExisting(p)
  <2>1. UNCHANGED storeVars
    BY <1>2 DEF CheckExisting
  <2>2. pc'[p] \in {"done", "write_meta"} /\ (pc'[p] = "write_meta" => meta[n] = Nil)
    BY <1>2 DEF CheckExisting, Finish, Goto, TypeOK
  <2>3. AloneAt(p)'
    BY <1>1, <2>1, <2>2 DEF AloneAt, storeVars
  <2> QED BY <2>1, <2>3, QuietAlone DEF AloneInv, storeVars
<1>3. CASE WriteMeta(p)
  <2>1. /\ meta' = [meta EXCEPT ![n] = [par |-> req[p].par, stage_count |-> 1]]
        /\ UNCHANGED <<stageMeta, fill, bits>>
        /\ pc[p] = "write_meta" /\ pc'[p] = "write_stage0"
    BY <1>3 DEF WriteMeta, HSetMeta, Goto, TypeOK
  <2>2. meta[n] = Nil
    BY <1>1, <2>1 DEF AloneAt
  <2>3. \A i \in StageIdx : NoKeys(n, i)
    BY <1>1, <2>2 DEF AloneInv, NoOrphans, StageCount, StageIdx
  <2>4. meta'[n] = [par |-> req[p].par, stage_count |-> 1] /\ \A m \in Names : m # n => meta'[m] = meta[m]
    BY <1>1, <2>1 DEF TypeOK, StoreTypeOK
  <2>5. meta'[n] # Nil
    BY <1>1, <2>4, StoreAssumption DEF Meta
  <2>6. NoOrphans'
    BY <2>1, <2>3, <2>4 DEF AloneInv, NoOrphans, StageCount, NoKeys
  <2>7. BitsInShards'
    BY <2>1 DEF AloneInv, BitsInShards
  <2>8. AloneAt(p)'
    BY <1>1, <2>1, <2>3, <2>5 DEF AloneAt, NoKeys
  <2> QED BY <2>6, <2>7, <2>8
<1>4. CASE WriteStage0(p)
  <2>1. /\ stageMeta' = [stageMeta EXCEPT ![n][0] = st]
        /\ UNCHANGED <<meta, fill, bits>>
        /\ pc[p] = "write_stage0" /\ pc'[p] = "register"
    BY <1>4 DEF WriteStage0, HSetStage, computeStage, Goto, TypeOK
  <2>2. meta[n] # Nil /\ bits[n][0] = {}
    BY <1>1, <2>1 DEF AloneAt, NoKeys
  <2>3. \A m \in Names, i \in StageIdx : m # n \/ i # 0 => stageMeta'[m][i] = stageMeta[m][i]
    BY <1>1, <2>1 DEF TypeOK, StoreTypeOK
  <2>4. StageCount(n) >= 1 /\ StageCount(n) \in Int
    BY <1>1, <2>2 DEF StageCount, TypeOK, StoreTypeOK, Meta
  <2>5. NoOrphans'
    <3> SUFFICES ASSUME NEW m \in Names, NEW i \in StageIdx, i >= StageCount(m)
                 PROVE  NoKeys(m, i)'
      BY <2>1 DEF NoOrphans, StageCount
    <3>1. m # n \/ i # 0
      BY <2>4
    <3>2. NoKeys(m, i)
      BY DEF AloneInv, NoOrphans
    <3> QED BY <2>1, <2>3, <3>1, <3>2 DEF NoKeys
  <2>6. BitsInShards'
    BY <2>1, <2>2, <2>3 DEF AloneInv, BitsInShards
  <2> QED BY <2>1, <2>5, <2>6, AtEase
<1>5. CASE Register(p)
  <2>1. UNCHANGED <<meta, stageMeta, fill, bits>> /\ pc'[p] = "done"
    BY <1>5 DEF Register, SAdd, Finish, TypeOK
  <2> QED BY <2>1, QuietAlone, AtEase DEF AloneInv
<1> QED BY <1>2, <1>3, <1>4, <1>5 DEF CreateStep

(* Load copies the whole chain. *)
LEMMA LoadAlone ==
  ASSUME TypeOK, TypeOK', Shape, AloneInv, NEW p \in Procs, LoadStep(p)
  PROVE  (NoOrphans /\ BitsInShards /\ AloneAt(p))'
<1> DEFINE n == req[p].name
           l == ld[p]
<1>1. UNCHANGED <<meta, stageMeta, fill, bits, req>>
  BY DEF LoadStep, LoadMeta, LoadStage, LoadFill, storeVars
<1>2. /\ n \in Names /\ req[p] \in Requests /\ req[p].op # "create" /\ AloneAt(p)
  <2>1. pc[p] \in Loading
    BY DEF LoadStep, LoadMeta, LoadStage, LoadFill, Loading
  <2> QED BY <2>1, RequestTypes, FilterAssumption DEF AloneInv, TypeOK, Shape, ShapeOf, Loading
<1> SUFFICES AloneAt(p)'
  BY <1>1, QuietAlone DEF AloneInv
<1>3. CASE LoadMeta(p)
  <2>1. CASE meta[n] = Nil
    <3>1. pc'[p] = "done" BY <1>3, <2>1 DEF LoadMeta, Finish, TypeOK
    <3> QED BY <3>1, AtEase
  <2>2. CASE meta[n] # Nil
    <3>1. /\ pc'[p] = "load_stage"
          /\ ld'[p] = [par |-> meta[n].par, count |-> meta[n].stage_count,
                       stages |-> <<>>, fills |-> <<>>]
      BY <1>3, <2>2 DEF LoadMeta, Goto, TypeOK
    <3>2. meta[n].stage_count \in 1 .. MaxStages
      BY <1>2, <2>2 DEF TypeOK, StoreTypeOK, Meta
    <3>3. ld'[p].stages = <<>> /\ ld'[p].count = meta[n].stage_count
      BY <3>1
    <3>4. Matches(n, ld[p].stages)'
      BY <1>1, <2>2, <3>2, <3>3 DEF Matches
    <3> QED BY <1>1, <3>1, <3>3, <3>4 DEF AloneAt
  <2> QED BY <2>1, <2>2
<1>4. CASE LoadStage(p)
  <2> DEFINE st == stageMeta[n][Len(l.stages)]
  <2>1. /\ l \in Loads /\ l.stages \in Seq(Stages) /\ Len(l.stages) < l.count
        /\ Matches(n, l.stages) /\ l.count = meta[n].stage_count
    BY <1>2, <1>4, CopyTypes DEF LoadStage, AloneAt, Shape, ShapeOf
  <2>2. CASE st = Nil
    <3>1. pc'[p] = "done" BY <1>4, <2>2 DEF LoadStage, Finish, TypeOK
    <3> QED BY <3>1, AtEase
  <2>3. CASE st # Nil
    <3>1. pc'[p] = "load_fill" /\ ld'[p] = [l EXCEPT !.stages = Append(@, st)]
      BY <1>4, <2>3 DEF LoadStage, Goto, TypeOK
    <3>2. ld'[p].count = l.count /\ ld'[p].stages = Append(l.stages, st)
      BY <2>1, <3>1 DEF Loads
    <3>3. Len(l.stages) \in StageIdx /\ meta[n] # Nil /\ meta[n].stage_count \in Int
      <4>1. Len(l.stages) \in Nat /\ l.count \in 1 .. MaxStages
        BY <2>1 DEF Loads
      <4>2. meta[n] # Nil
        BY <2>1 DEF Matches
      <4> QED BY <2>1, <4>1, <4>2, StoreAssumption DEF StageIdx
    <3>4. st \in Stages
      BY <1>2, <2>3, <3>3 DEF TypeOK, StoreTypeOK
    <3>5. ASSUME NEW i \in 1 .. Len(l.stages) + 1
          PROVE  stageMeta[n][i - 1] = Append(l.stages, st)[i]
      <4> HIDE DEF st
      <4>1. CASE i = Len(l.stages) + 1
        <5>1. Append(l.stages, st)[i] = st BY <2>1, <3>4, <4>1
        <5>2. i - 1 = Len(l.stages) BY <2>1, <4>1
        <5> QED BY <5>1, <5>2 DEF st
      <4>2. CASE i # Len(l.stages) + 1
        <5>1. i \in 1 .. Len(l.stages) BY <2>1, <4>2
        <5>2. Append(l.stages, st)[i] = l.stages[i] BY <2>1, <3>4, <5>1
        <5> QED BY <2>1, <5>1, <5>2 DEF Matches
      <4> QED BY <4>1, <4>2
    <3>6. Matches(n, Append(l.stages, st))
      <4>1. Len(Append(l.stages, st)) = Len(l.stages) + 1 /\ Len(l.stages) \in Nat
        BY <2>1
      <4> QED BY <2>1, <3>3, <3>5, <4>1 DEF Matches
    <3>7. Matches(n, ld[p].stages)'
      BY <1>1, <3>2, <3>6 DEF Matches
    <3> QED BY <1>1, <2>1, <3>1, <3>2, <3>7 DEF AloneAt
  <2> QED BY <2>2, <2>3
<1>5. CASE LoadFill(p)
  <2>1. /\ l \in Loads /\ l.stages \in Seq(Stages)
        /\ l.count \in Int /\ Len(l.stages) \in 1 .. l.count
        /\ Matches(n, l.stages) /\ l.count = meta[n].stage_count
    BY <1>2, <1>5, CopyTypes DEF LoadFill, AloneAt, Shape, ShapeOf
  <2>2. ld'[p].count = l.count /\ ld'[p].stages = l.stages
    BY <1>5, <2>1 DEF LoadFill, Loads, TypeOK
  <2>3. CASE Len(l.stages) < l.count
    <3>1. pc'[p] = "load_stage"
      BY <1>5, <2>3 DEF LoadFill, Goto, TypeOK
    <3> QED BY <1>1, <2>1, <2>2, <3>1 DEF AloneAt, Matches
  <2>4. CASE ~ (Len(l.stages) < l.count) /\ hnd[p] = Nil
    <3>1. Enter(p, req[p], [name |-> n, par |-> l.par, stages |-> l.stages])
      BY <1>5, <2>4 DEF LoadFill
    <3>2. /\ hnd'[p] = [name |-> n, par |-> l.par, stages |-> l.stages]
          /\ pc'[p] = EntryLabel[req[p].op]
          /\ req[p].op = "add" => todo'[p] = Positions(req[p].item, Last(l.stages))
      BY <3>1 DEF Enter, TypeOK
    <3>3. /\ pc'[p] \in {"set_bits", "get_bits", "done", "del"}
          /\ pc'[p] = "set_bits" => req[p].op = "add"
      BY <1>2, <3>2, RequestTypes DEF EntryLabel
    <3>4. hnd'[p].name = n /\ hnd'[p].stages = l.stages
      BY <3>2
    <3>5. WholeChain(hnd[p].name, hnd[p].stages)'
      <4>1. Len(l.stages) = meta[n].stage_count
        BY <2>1, <2>4
      <4> QED BY <1>1, <2>1, <3>4, <4>1 DEF WholeChain, Matches
    <3> QED BY <1>1, <3>2, <3>3, <3>4, <3>5 DEF AloneAt
  <2>5. CASE ~ (Len(l.stages) < l.count) /\ hnd[p] # Nil
    <3>1. pc'[p] = "done"
      BY <1>5, <2>5 DEF LoadFill, Finish, TypeOK
    <3> QED BY <3>1, AtEase
  <2> QED BY <2>3, <2>4, <2>5
<1> QED BY <1>3, <1>4, <1>5 DEF LoadStep

(* Add sets bits that its stage calls for, counts in a stage of the chain, *)
(* and appends a stage of which there is no key.                           *)
LEMMA AddAlone ==
  ASSUME TypeOK, TypeOK', Shape, AloneInv, NEW p \in Procs, AddStep(p)
  PROVE  (NoOrphans /\ BitsInShards /\ AloneAt(p))'
<1> DEFINE n == hnd[p].name
           i == Len(hnd[p].stages) - 1
           st == Last(hnd[p].stages)
<1>1. /\ n \in Names /\ i \in StageIdx /\ st \in Stages /\ st = hnd[p].stages[i + 1]
      /\ Len(hnd[p].stages) \in 1 .. MaxStages
      /\ req[p].item \in Items
      /\ pc[p] \in {"set_bits", "incr", "append"} /\ AloneAt(p)
  <2>1. pc[p] \in {"set_bits", "incr", "append"}
    BY DEF AddStep, SetNextBit, IncrFill, AppendNewStage
  <2>2. hnd[p] \in Handles /\ hnd[p] # Nil
    BY <2>1, AtWork, FilterAssumption
  <2> QED BY <2>1, <2>2, AtWork, CopyTypes DEF AloneInv
<1>2. ASSUME pc[p] \in {"set_bits", "incr"}
      PROVE  at[p] = i /\ stageMeta[n][i] = st /\ i < StageCount(n)
  <2>1. at[p] = i
    BY <1>2 DEF Shape, ShapeOf
  <2>2. WholeChain(n, hnd[p].stages)
    BY <1>1, <1>2 DEF AloneAt
  <2>3. meta[n] # Nil /\ meta[n].stage_count = i + 1 /\ i \in Int
    BY <1>1, <2>2 DEF WholeChain, Matches
  <2>4. stageMeta[n][i] = st
    BY <1>1, <2>2 DEF WholeChain, Matches
  <2> QED BY <2>1, <2>3, <2>4 DEF StageCount
<1>3. CASE SetNextBit(p)
  <2>1. pc[p] = "set_bits" /\ at[p] = i /\ stageMeta[n][i] = st /\ i < StageCount(n)
    BY <1>2, <1>3 DEF SetNextBit
  <2>2. todo[p] \subseteq Positions(req[p].item, st)
    BY <1>1, <2>1 DEF AloneAt
  <2>3. PICK b \in todo[p] :
          /\ bits' = [bits EXCEPT ![n][i] = @ \cup {b}]
          /\ todo' = [todo EXCEPT ![p] = @ \ {b}]
          /\ UNCHANGED <<meta, stageMeta, fill, req, hnd>>
          /\ pc'[p] \in {"set_bits", "incr"}
    BY <1>3, <2>1 DEF SetNextBit, NextBits, SetBit, Goto, TypeOK
  <2>4. b[1] < ShardCount(st)
    BY <1>1, <2>2, FilterAssumption
  <2>5. /\ bits'[n][i] = bits[n][i] \cup {b}
        /\ \A m \in Names, j \in StageIdx : m # n \/ j # i => bits'[m][j] = bits[m][j]
    BY <1>1, <2>3 DEF TypeOK, StoreTypeOK
  <2>6. BitsInShards'
    <3>1. st # Nil
      BY <1>1, StoreAssumption
    <3> HIDE DEF n, i, st
    <3> QED BY <2>1, <2>3, <2>4, <2>5, <3>1 DEF AloneInv, BitsInShards
  <2>7. NoOrphans'
    <3> SUFFICES ASSUME NEW m \in Names, NEW j \in StageIdx, j >= StageCount(m)
                 PROVE  NoKeys(m, j)'
      BY <2>3 DEF NoOrphans, StageCount
    <3>1. m # n \/ j # i
      <4>1. StageCount(n) \in Int /\ i \in Int
        BY <1>1 DEF StageCount, StageIdx, TypeOK, StoreTypeOK, Meta
      <4> QED BY <2>1, <4>1
    <3>2. NoKeys(m, j)
      BY DEF AloneInv, NoOrphans
    <3> QED BY <2>3, <2>5, <3>1, <3>2 DEF NoKeys
  <2>8. AloneAt(p)'
    <3>1. WholeChain(n, hnd[p].stages)'
      BY <1>1, <2>1, <2>3 DEF AloneAt, WholeChain, Matches
    <3>2. todo'[p] \subseteq Positions(req[p].item, st)
      BY <2>2, <2>3 DEF TypeOK
    <3> QED BY <2>3, <3>1, <3>2 DEF AloneAt
  <2> QED BY <2>6, <2>7, <2>8
<1>4. CASE IncrFill(p)
  <2>1. /\ at[p] = i /\ i < StageCount(n)
        /\ fill' = [fill EXCEPT ![n][at[p]] = @ + 1]
        /\ UNCHANGED <<meta, stageMeta, bits>>
        /\ pc'[p] \in {"done", "append"}
    BY <1>2, <1>4 DEF IncrFill, Incr, Finish, Goto, TypeOK
  <2>2. \A m \in Names, j \in StageIdx : m # n \/ j # i => fill'[m][j] = fill[m][j]
    BY <1>1, <2>1 DEF TypeOK, StoreTypeOK
  <2>3. NoOrphans'
    <3> SUFFICES ASSUME NEW m \in Names, NEW j \in StageIdx, j >= StageCount(m)
                 PROVE  NoKeys(m, j)'
      BY <2>1 DEF NoOrphans, StageCount
    <3>1. m # n \/ j # i
      <4>1. StageCount(n) \in Int /\ i \in Int
        BY <1>1 DEF StageCount, StageIdx, TypeOK, StoreTypeOK, Meta
      <4> QED BY <2>1, <4>1
    <3>2. NoKeys(m, j)
      BY DEF AloneInv, NoOrphans
    <3> QED BY <2>1, <2>2, <3>1, <3>2 DEF NoKeys
  <2>4. BitsInShards'
    BY <2>1 DEF AloneInv, BitsInShards
  <2> QED BY <2>1, <2>3, <2>4, AtEase
<1>5. CASE AppendNewStage(p)
  <2>1. UNCHANGED <<fill, bits>> /\ pc'[p] \in {"done", "load_meta"}
    BY <1>5 DEF AppendNewStage, AppendStage, Finish, Goto, storeVars, TypeOK
  <2>2. CASE meta' = meta /\ stageMeta' = stageMeta
    BY <2>1, <2>2, QuietAlone, AtEase DEF AloneInv
  <2>3. CASE ~ (meta' = meta /\ stageMeta' = stageMeta)
    <3>1. PICK nn \in Names, idx \in StageIdx, new \in Stages :
            /\ meta[nn] # Nil /\ meta[nn].stage_count = idx
            /\ meta' = [meta EXCEPT ![nn] = [par |-> meta[nn].par, stage_count |-> idx + 1]]
            /\ stageMeta' = [stageMeta EXCEPT ![nn][idx] = new]
            /\ idx + 1 \in 1 .. MaxStages
      BY <1>5, <2>3, AppendEffect
    <3>2. /\ meta'[nn] = [par |-> meta[nn].par, stage_count |-> idx + 1]
          /\ \A m \in Names : m # nn => meta'[m] = meta[m]
          /\ \A m \in Names, j \in StageIdx : m # nn \/ j # idx => stageMeta'[m][j] = stageMeta[m][j]
      BY <3>1 DEF TypeOK, StoreTypeOK
    <3>3. StageCount(nn) = idx /\ idx \in Int
      BY <3>1 DEF StageCount, StageIdx
    <3>4. StageCount(nn)' = idx + 1
      <4>1. meta'[nn] # Nil
        BY <3>1, <3>2, StoreAssumption DEF TypeOK, StoreTypeOK, Meta
      <4> QED BY <3>2, <4>1 DEF StageCount
    <3>5. NoOrphans'
      <4> SUFFICES ASSUME NEW m \in Names, NEW j \in StageIdx, j >= StageCount(m)'
                   PROVE  NoKeys(m, j)'
        BY DEF NoOrphans
      <4>1. (m # nn \/ j # idx) /\ j >= StageCount(m)
        BY <3>2, <3>3, <3>4 DEF StageCount, StageIdx
      <4>2. NoKeys(m, j)
        BY <4>1 DEF AloneInv, NoOrphans
      <4> QED BY <2>1, <3>2, <4>1, <4>2 DEF NoKeys
    <3>6. BitsInShards'
      <4>1. bits[nn][idx] = {}
        BY <3>3 DEF AloneInv, NoOrphans, NoKeys
      <4> QED BY <2>1, <3>2, <4>1 DEF AloneInv, BitsInShards
    <3> QED BY <2>1, <3>5, <3>6, AtEase
  <2> QED BY <2>2, <2>3
<1> QED BY <1>3, <1>4, <1>5 DEF AddStep

(* The DEL takes the hashes, the counters and every shard of every stage.  *)
LEMMA DropAlone ==
  ASSUME TypeOK, Shape, AloneInv, NEW p \in Procs, DropStep(p)
  PROVE  (NoOrphans /\ BitsInShards /\ AloneAt(p))'
<1>1. CASE DropKeys(p)
  <2> DEFINE h == hnd[p]
             shards == DropShards(h)
  <2>0. PICK n \in Names : n = h.name
    BY <1>1, CopyTypes DEF DropKeys, Shape, ShapeOf
  <2>1. /\ pc[p] = "del" /\ pc'[p] = "srem" /\ hnd' = hnd
        /\ Del(n, DropStages(h), shards)
    BY <1>1, <2>0 DEF DropKeys, Goto, TypeOK
  <2>2. h.stages \in Seq(Stages) /\ WholeChain(n, h.stages)
    BY <2>0, <2>1, CopyTypes DEF Shape, ShapeOf, AloneInv, AloneAt
  <2>3. /\ meta' = [meta EXCEPT ![n] = Nil]
        /\ stageMeta' = [stageMeta EXCEPT ![n] =
             [i \in StageIdx |-> IF i \in DropStages(h) THEN Nil ELSE stageMeta[n][i]]]
        /\ fill' = [fill EXCEPT ![n] =
             [i \in StageIdx |-> IF i \in DropStages(h) THEN 0 ELSE fill[n][i]]]
        /\ bits' = [bits EXCEPT ![n] =
             [i \in StageIdx |-> {b \in bits[n][i] : i \notin DropStages(h) \/ b[1] >= shards[i]}]]
    BY <2>1 DEF Del
  <2>4. ASSUME NEW m \in Names, m # n
        PROVE  /\ meta'[m] = meta[m] /\ stageMeta'[m] = stageMeta[m]
               /\ fill'[m] = fill[m] /\ bits'[m] = bits[m]
    BY <2>3, <2>4 DEF TypeOK, StoreTypeOK
  <2>5. ASSUME NEW i \in StageIdx PROVE NoKeys(n, i)'
    <3>1. CASE i \in DropStages(h)
      <4>1. i \in Nat /\ i + 1 \in 1 .. Len(h.stages)
        BY <2>2, <3>1 DEF DropStages, StageIdx
      <4>2. stageMeta[n][i] = h.stages[i + 1]
        BY <2>2, <4>1 DEF WholeChain, Matches
      <4>3. shards[i] = ShardCount(stageMeta[n][i])
        BY <3>1, <4>2 DEF DropShards
      <4>4. \A b \in bits[n][i] : ~ (b[1] >= shards[i])
        <5> SUFFICES ASSUME NEW b \in bits[n][i] PROVE ~ (b[1] >= shards[i])
          OBVIOUS
        <5>1. b \in Nat \X Nat
          BY <2>2, StoreAssumption DEF TypeOK, StoreTypeOK
        <5>2. stageMeta[n][i] # Nil /\ b[1] < ShardCount(stageMeta[n][i])
          BY <2>2 DEF AloneInv, BitsInShards
        <5>3. ShardCount(stageMeta[n][i]) \in Nat
          BY <2>2, <5>2, FilterAssumption DEF TypeOK, StoreTypeOK
        <5> QED BY <4>3, <5>1, <5>2, <5>3
      <4> HIDE DEF h, shards
      <4>5. /\ stageMeta'[n][i] = Nil /\ fill'[n][i] = 0
            /\ bits'[n][i] = {b \in bits[n][i] : i \notin DropStages(h) \/ b[1] >= shards[i]}
        BY <2>2, <2>3, <3>1 DEF TypeOK, StoreTypeOK
      <4>6. bits'[n][i] = {}
        BY <3>1, <4>4, <4>5
      <4> QED BY <4>5, <4>6 DEF NoKeys
    <3>2. CASE i \notin DropStages(h)
      <4>1. StageCount(n) = Len(h.stages) /\ Len(h.stages) \in Nat
        BY <2>2 DEF WholeChain, Matches, StageCount
      <4>2. i >= StageCount(n)
        BY <3>2, <4>1 DEF DropStages, StageIdx
      <4>3. NoKeys(n, i)
        BY <2>2, <4>2 DEF AloneInv, NoOrphans
      <4> HIDE DEF h, shards
      <4>4. /\ stageMeta'[n][i] = stageMeta[n][i] /\ fill'[n][i] = fill[n][i]
            /\ bits'[n][i] \subseteq bits[n][i]
        BY <2>2, <2>3, <3>2 DEF TypeOK, StoreTypeOK
      <4> QED BY <4>3, <4>4 DEF NoKeys
    <3> QED BY <3>1, <3>2
  <2>6. NoOrphans'
    <3> SUFFICES ASSUME NEW m \in Names, NEW i \in StageIdx, i >= StageCount(m)'
                 PROVE  NoKeys(m, i)'
      BY DEF NoOrphans
    <3>1. CASE m = n
      BY <2>5, <3>1
    <3>2. CASE m # n
      <4>1. StageCount(m)' = StageCount(m)
        BY <2>4, <3>2 DEF StageCount
      <4>2. NoKeys(m, i)
        BY <4>1 DEF AloneInv, NoOrphans
      <4> QED BY <2>4, <3>2, <4>2 DEF NoKeys
    <3> QED BY <3>1, <3>2
  <2>7. BitsInShards'
    <3> SUFFICES ASSUME NEW m \in Names, NEW i \in StageIdx, NEW b \in bits'[m][i]
                 PROVE  stageMeta'[m][i] # Nil /\ b[1] < ShardCount(stageMeta'[m][i])
      BY DEF BitsInShards
    <3>1. m # n
      BY <2>5 DEF NoKeys
    <3> QED BY <2>4, <3>1 DEF AloneInv, BitsInShards
  <2>8. AloneAt(p)'
    <3>1. \A i \in StageIdx : NoKeys(hnd[p].name, i)'
      BY <2>0, <2>1, <2>5 DEF NoKeys
    <3> QED BY <2>1, <3>1 DEF AloneAt
  <2> QED BY <2>6, <2>7, <2>8
<1>2. CASE Unregister(p)
  <2>1. UNCHANGED <<meta, stageMeta, fill, bits>> /\ pc'[p] = "done"
    BY <1>2 DEF Unregister, SRem, Finish, TypeOK
  <2> QED BY <2>1, QuietAlone, AtEase DEF AloneInv
<1> QED BY <1>1, <1>2 DEF DropStep

(* Any step of the one process there is. *)
LEMMA StepAlone ==
  ASSUME TypeOK, TypeOK', Shape, AloneInv, NEW p \in Procs, Alone(p), Step(p)
  PROVE  AloneInv'
<1>1. (NoOrphans /\ BitsInShards /\ AloneAt(p))'
  <2>1. ASSUME NEW r \in Requests, Begin(p, r) PROVE (NoOrphans /\ BitsInShards /\ AloneAt(p))'
    <3>1. UNCHANGED <<meta, stageMeta, fill, bits>>
      BY <2>1 DEF Begin, storeVars
    <3> QED BY <2>1, <3>1, BeginAlone, QuietAlone DEF AloneInv
  <2>2. CASE ExistsStep(p) \/ Fail(p) \/ Return(p)
    <3>1. UNCHANGED <<meta, stageMeta, fill, bits>> /\ pc'[p] \in {"get_bits", "done", "idle"}
      BY <2>2 DEF ExistsStep, HitBit, MissBit, Fail, Return, Finish, Goto, storeVars, TypeOK
    <3> QED BY <3>1, QuietAlone, AtEase DEF AloneInv
  <2> QED BY <2>1, <2>2, CreateAlone, LoadAlone, AddAlone, DropAlone DEF Step, Serve
<1> QED BY <1>1 DEF AloneInv, Alone

LEMMA AloneStays == ASSUME NEW q, Alone(q) PROVE Spec => [](TypeOK /\ Shape /\ AloneInv)
<1>1. Init => AloneInv
  <2> SUFFICES ASSUME Init PROVE AloneInv
    OBVIOUS
  <2>1. NoOrphans
    <3> SUFFICES ASSUME NEW n \in Names, NEW i \in StageIdx, i >= StageCount(n)
                 PROVE  NoKeys(n, i)
      BY DEF NoOrphans
    <3>1. ~ (Seed[n] # Nil /\ i = 0)
      <4>1. Seed[n] # Nil => StageCount(n) = 1
        <5> SUFFICES ASSUME Seed[n] # Nil PROVE StageCount(n) = 1
          OBVIOUS
        <5>1. Seed[n] \in Params
          BY FilterAssumption
        <5>2. meta[n] = [par |-> Seed[n], stage_count |-> 1]
          BY DEF Init
        <5>3. meta[n] # Nil
          BY <5>1, <5>2, StoreAssumption DEF Meta
        <5> QED BY <5>2, <5>3 DEF StageCount
      <4> QED BY <4>1
    <3> QED BY <3>1 DEF Init, NoKeys
  <2>2. BitsInShards
    BY DEF Init, BitsInShards
  <2>3. \A p \in Procs : AloneAt(p)
    BY DEF Init, AloneAt
  <2> QED BY <2>1, <2>2, <2>3 DEF AloneInv
<1>2. TypeOK /\ TypeOK' /\ Shape /\ AloneInv /\ [Next]_vars => AloneInv'
  <2>1. ASSUME TypeOK, TypeOK', Shape, AloneInv, Next PROVE AloneInv'
    BY <2>1, NextIsStep, StepAlone DEF Alone
  <2>2. ASSUME AloneInv, UNCHANGED vars PROVE AloneInv'
    BY <2>2 DEF vars, storeVars, procVars, histVars, AloneInv, NoOrphans, StageCount, NoKeys,
                BitsInShards, AloneAt, Matches, WholeChain
  <2> QED BY <2>1, <2>2
<1> QED BY <1>1, <1>2, TypeAndShape, PTL DEF Spec

(* Where one process works at a time, no request that fails half way, at   *)
(* whatever command, leaves a key that a later filter of the name inherits *)
(* (New, appendNewStage, Drop).                                            *)
THEOREM FailuresLeaveNoOrphans ==
  ASSUME NEW q, Alone(q)
  PROVE  Spec => []NoOrphans
BY AloneStays, PTL DEF AloneInv

(* There, the DEL of Drop takes every key of the filter: its hash, and the *)
(* hash, the counter and every shard of every stage it ever grew.          *)
THEOREM DropIsComplete ==
  ASSUME NEW q, Alone(q)
  PROVE  Spec => DropRemovesAll
<1>1. AloneInv' /\ [Next]_vars =>
        [\A p \in Procs : pc[p] = "del" /\ pc'[p] = "srem" =>
           \A i \in StageIdx : NoKeys(hnd[p].name, i)']_vars
  BY DEF AloneInv, AloneAt
<1> QED BY <1>1, AloneStays, PTL DEF Spec, DropRemovesAll

-----------------------------------------------------------------------------
(* An internal error has a cause (ErrorsExplained): as long as a process   *)
(* is intact, what it knows of its filter is still in the store.           *)

(* What an intact process needs of the store to go on.                     *)
BackedOf(p) ==
  intact[p] =>
    /\ hnd[p] # Nil => meta[hnd[p].name] # Nil
    /\ pc[p] \in {"write_stage0", "register"} => meta[req[p].name] # Nil
    /\ pc[p] \in {"load_stage", "load_fill"} =>
         /\ meta[req[p].name] # Nil
         /\ \A i \in 1 .. ld[p].count - 1 : stageMeta[req[p].name][i] # Nil

Backed == \A p \in Procs : BackedOf(p)

(* The hashes of filter n that there are stay.                             *)
HashesStay(n) ==
  /\ meta[n] # Nil => meta'[n] # Nil
  /\ \A i \in StageIdx : stageMeta[n][i] # Nil => stageMeta'[n][i] # Nil

(* No step takes a hash of a filter, except the DEL of that filter.        *)
LEMMA StepKeepsHashes ==
  ASSUME TypeOK, Shape, NEW p \in Procs, Step(p), NEW n \in Names,
         ~ (DropKeys(p) /\ hnd[p].name = n)
  PROVE  HashesStay(n)
<1>1. CASE meta' = meta /\ stageMeta' = stageMeta
  BY <1>1 DEF HashesStay
<1>2. CASE WriteMeta(p)
  <2>1. req[p].name \in Names /\ req[p].par \in Params
    BY <1>2, CreateEffect DEF WriteMeta, Creating
  <2> DEFINE m == [par |-> req[p].par, stage_count |-> 1]
  <2>2. m # Nil
    BY <2>1, StoreAssumption DEF Meta
  <2>3. meta' = [meta EXCEPT ![req[p].name] = m] /\ stageMeta' = stageMeta
    BY <1>2 DEF WriteMeta, HSetMeta
  <2> QED BY <2>1, <2>2, <2>3 DEF TypeOK, StoreTypeOK, HashesStay
<1>3. CASE WriteStage0(p)
  <2>1. req[p].name \in Names /\ req[p].par \in Params /\ 0 \in StageIdx
    BY <1>3, CreateEffect, StoreAssumption DEF WriteStage0, Creating, StageIdx
  <2>2. computeStage(req[p].par, 0) # Nil
    BY <2>1, StageType, StoreAssumption
  <2>3. stageMeta' = [stageMeta EXCEPT ![req[p].name][0] = computeStage(req[p].par, 0)] /\ meta' = meta
    BY <1>3 DEF WriteStage0, HSetStage, computeStage
  <2> QED BY <2>1, <2>2, <2>3 DEF TypeOK, StoreTypeOK, HashesStay
<1>4. CASE AppendNewStage(p) /\ ~ (meta' = meta /\ stageMeta' = stageMeta)
  <2>1. PICK m \in Names, idx \in StageIdx, st \in Stages :
              /\ meta[m] # Nil
              /\ meta' = [meta EXCEPT ![m] = [par |-> meta[m].par, stage_count |-> idx + 1]]
              /\ stageMeta' = [stageMeta EXCEPT ![m][idx] = st]
              /\ idx + 1 \in 1 .. MaxStages
    BY <1>4, AppendEffect
  <2>2. [par |-> meta[m].par, stage_count |-> idx + 1] \in Meta
    BY <2>1 DEF TypeOK, StoreTypeOK, Meta
  <2>3. [par |-> meta[m].par, stage_count |-> idx + 1] # Nil /\ st # Nil
    BY <2>2, StoreAssumption
  <2> QED BY <2>1, <2>3 DEF TypeOK, StoreTypeOK, HashesStay
<1>5. CASE DropKeys(p)
  <2>1. hnd[p].name # n /\ Del(hnd[p].name, DropStages(hnd[p]), DropShards(hnd[p]))
    BY <1>5 DEF DropKeys
  <2>2. meta'[n] = meta[n] /\ stageMeta'[n] = stageMeta[n]
    BY <2>1 DEF Del, TypeOK, StoreTypeOK
  <2> QED BY <2>2 DEF HashesStay
<1> QED BY <1>1, <1>2, <1>3, <1>4, <1>5, HashSteps

(* The count of a Load is within the bound on stages.                      *)
LEMMA LoadCount ==
  ASSUME TypeOK, Shape, NEW p \in Procs, pc[p] \in {"load_stage", "load_fill"}
  PROVE  /\ req[p].name \in Names
         /\ \A i \in 1 .. ld[p].count - 1 : i \in StageIdx
<1>1. req[p].name \in Names /\ ld[p] \in Loads
  BY CopyTypes DEF Loading
<1> QED BY <1>1, StoreAssumption DEF Loads, StageIdx

(* What a process knows is kept by the steps of the others: a DEL of its   *)
(* filter ends its being intact.                                           *)
LEMMA OthersBacked ==
  ASSUME TypeOK, Shape, NEW p \in Procs, NEW q \in Procs \ {p}, Step(p), BackedOf(q)
  PROVE  BackedOf(q)'
<1> SUFFICES ASSUME intact'[q] PROVE BackedOf(q)'
  BY DEF BackedOf
<1>1. Untouched(q)
  BY OthersUntouched
<1>2. intact[q] /\ (DropKeys(p) => ~ Uses(q, hnd[p].name))
  <2>1. CASE DropKeys(p)
    BY <2>1 DEF DropKeys, Forget
  <2>2. CASE ~ DropKeys(p)
    BY <2>2, OthersHistory
  <2> QED BY <2>1, <2>2
<1>3. hnd[q] # Nil => hnd[q].name \in Names /\ HashesStay(hnd[q].name)
  <2> SUFFICES ASSUME hnd[q] # Nil PROVE hnd[q].name \in Names /\ HashesStay(hnd[q].name)
    OBVIOUS
  <2>1. hnd[q].name \in Names
    BY CopyTypes
  <2>2. ~ (DropKeys(p) /\ hnd[p].name = hnd[q].name)
    BY <1>2 DEF Uses
  <2> QED BY <2>1, <2>2, StepKeepsHashes
<1>4. req[q] # Nil => req[q].name \in Names /\ HashesStay(req[q].name)
  <2> SUFFICES ASSUME req[q] # Nil PROVE req[q].name \in Names /\ HashesStay(req[q].name)
    OBVIOUS
  <2>1. req[q].name \in Names
    BY RequestTypes DEF TypeOK
  <2>2. ~ (DropKeys(p) /\ hnd[p].name = req[q].name)
    BY <1>2 DEF Uses
  <2> QED BY <2>1, <2>2, StepKeepsHashes
<1>5. pc[q] # "idle" => req[q] # Nil
  BY DEF Shape, ShapeOf
<1> QED BY <1>1, <1>2, <1>3, <1>4, <1>5, LoadCount DEF BackedOf, Untouched, HashesStay

(* A step after which the process is no more intact than before, has no    *)
(* Filter it had not, and is in no New or Load.                            *)
LEMMA QuietBacked ==
  ASSUME TypeOK, Shape, NEW p \in Procs, BackedOf(p), Step(p), ~ DropKeys(p),
         intact'[p] => intact[p],
         hnd'[p] # Nil => hnd[p] # Nil /\ hnd'[p].name = hnd[p].name,
         pc'[p] \notin {"write_stage0", "register", "load_stage", "load_fill"}
  PROVE  BackedOf(p)'
<1>1. hnd[p] # Nil => HashesStay(hnd[p].name)
  BY CopyTypes, StepKeepsHashes
<1> QED BY <1>1 DEF BackedOf, HashesStay

(* New writes the filter hash before anything it relies on.                *)
LEMMA CreateBacked ==
  ASSUME TypeOK, Shape, NEW p \in Procs, BackedOf(p), CreateStep(p)
  PROVE  BackedOf(p)'
<1>1. /\ Step(p) /\ ~ DropKeys(p) /\ pc[p] \in Creating /\ hnd[p] = Nil
      /\ req[p].name \in Names /\ req[p].par \in Params /\ req' = req
  <2>1. pc[p] \in Creating /\ ~ DropKeys(p) /\ req' = req
    BY DEF CreateStep, CheckExisting, WriteMeta, WriteStage0, Register, DropKeys, Creating
  <2> QED BY <2>1, CreateEffect DEF Step, Serve, Shape, ShapeOf
<1>2. HashesStay(req[p].name)
  BY <1>1, StepKeepsHashes
<1>3. CASE CheckExisting(p)
  BY <1>1, <1>3 DEF CheckExisting, Finish, Goto, TypeOK, BackedOf
<1>4. CASE WriteMeta(p)
  <2> DEFINE m == [par |-> req[p].par, stage_count |-> 1]
  <2>1. m # Nil
    BY <1>1, StoreAssumption DEF Meta
  <2>2. meta'[req[p].name] = m
    BY <1>1, <1>4 DEF WriteMeta, HSetMeta, TypeOK, StoreTypeOK
  <2>3. pc'[p] = "write_stage0" /\ hnd'[p] = Nil
    BY <1>1, <1>4 DEF WriteMeta, Goto, TypeOK
  <2> QED BY <1>1, <2>1, <2>2, <2>3 DEF BackedOf
<1>5. CASE WriteStage0(p)
  <2>1. pc[p] = "write_stage0" /\ pc'[p] = "register" /\ hnd'[p] = Nil /\ intact' = intact
    BY <1>1, <1>5 DEF WriteStage0, Goto, TypeOK
  <2> QED BY <1>1, <1>2, <2>1 DEF BackedOf, HashesStay
<1>6. CASE Register(p)
  <2>1. /\ pc[p] = "register" /\ pc'[p] = "done" /\ intact' = intact
        /\ hnd'[p] = [name |-> req[p].name, par |-> req[p].par, stages |-> <<computeStage(req[p].par, 0)>>]
    BY <1>1, <1>6 DEF Register, Finish, TypeOK, histVars
  <2>2. hnd'[p].name = req[p].name
    BY <2>1
  <2> QED BY <1>1, <1>2, <2>1, <2>2 DEF BackedOf, HashesStay
<1> QED BY <1>3, <1>4, <1>5, <1>6 DEF CreateStep

(* Load finds in the store every grown stage of the count it has read.     *)
LEMMA LoadBacked ==
  ASSUME TypeOK, Shape, GrownStagesPresent, NEW p \in Procs, BackedOf(p), LoadStep(p)
  PROVE  BackedOf(p)'
<1>1. /\ Step(p) /\ ~ DropKeys(p) /\ pc[p] \in Loading
      /\ req[p].name \in Names /\ meta' = meta /\ stageMeta' = stageMeta /\ req' = req
      /\ hnd[p] # Nil => hnd[p].name = req[p].name /\ hnd[p] \in Handles
  <2>1. pc[p] \in Loading /\ ~ DropKeys(p) /\ UNCHANGED <<meta, stageMeta, req>>
    BY DEF LoadStep, LoadMeta, LoadStage, LoadFill, DropKeys, Loading, storeVars
  <2> QED BY <2>1, CopyTypes DEF Step, Serve, Shape, ShapeOf, Loading
<1>2. CASE LoadMeta(p)
  <2>1. CASE meta[req[p].name] = Nil
    BY <1>1, <1>2, <2>1, QuietBacked DEF LoadMeta, Finish, TypeOK
  <2>2. CASE meta[req[p].name] # Nil
    <3>1. /\ hnd' = hnd /\ pc'[p] = "load_stage"
          /\ ld'[p] = [par |-> meta[req[p].name].par, count |-> meta[req[p].name].stage_count,
                       stages |-> <<>>, fills |-> <<>>]
      BY <1>2, <2>2 DEF LoadMeta, Goto, TypeOK
    <3>2. ld'[p].count = meta[req[p].name].stage_count
      BY <3>1
    <3>3. \A i \in 1 .. meta[req[p].name].stage_count - 1 : stageMeta[req[p].name][i] # Nil
      BY <1>1, <2>2 DEF GrownStagesPresent
    <3> QED BY <1>1, <2>2, <3>1, <3>2, <3>3 DEF BackedOf
  <2> QED BY <2>1, <2>2
<1>3. CASE LoadStage(p)
  <2>1. pc[p] = "load_stage" /\ hnd' = hnd /\ intact' = intact
    BY <1>3 DEF LoadStage, histVars
  <2>2. pc'[p] \in {"done", "load_fill"}
    BY <1>3 DEF LoadStage, Finish, Goto, TypeOK
  <2>3. ld[p] \in Loads
    BY <2>1, CopyTypes
  <2> DEFINE st == stageMeta[req[p].name][Len(ld[p].stages)]
  <2>4. ld' = ld \/ ld' = [ld EXCEPT ![p].stages = Append(@, st)]
    BY <1>3 DEF LoadStage
  <2> HIDE DEF st
  <2>5. ld'[p] = ld[p] \/ ld'[p] = [ld[p] EXCEPT !.stages = Append(@, st)]
    BY <2>4 DEF TypeOK
  <2>6. ld'[p].count = ld[p].count
    BY <2>3, <2>5 DEF Loads
  <2> QED BY <1>1, <2>1, <2>2, <2>6 DEF BackedOf
<1>4. CASE LoadFill(p)
  <2>1. pc[p] = "load_fill" /\ intact' = intact /\ ld[p] \in Loads
    BY <1>4, CopyTypes DEF LoadFill, histVars
  <2>2. ld'[p].count = ld[p].count
    BY <1>4, <2>1 DEF LoadFill, TypeOK, Loads
  <2>3. CASE Len(ld[p].stages) < ld[p].count
    <3>1. pc'[p] = "load_stage" /\ hnd' = hnd
      BY <1>4, <2>3 DEF LoadFill, Goto, TypeOK
    <3> QED BY <1>1, <2>1, <2>2, <3>1 DEF BackedOf
  <2>4. CASE ~ (Len(ld[p].stages) < ld[p].count) /\ hnd[p] = Nil
    <3>1. Enter(p, req[p], [name |-> req[p].name, par |-> ld[p].par, stages |-> ld[p].stages])
      BY <1>4, <2>4 DEF LoadFill
    <3>2. /\ hnd'[p] = [name |-> req[p].name, par |-> ld[p].par, stages |-> ld[p].stages]
          /\ pc'[p] = EntryLabel[req[p].op]
      BY <3>1 DEF Enter, TypeOK
    <3>3. req[p].op \in {"add", "exists", "stats", "delete"}
      BY <1>1, RequestTypes DEF TypeOK, Shape, ShapeOf, Loading
    <3>4. pc'[p] \notin {"write_stage0", "register", "load_stage", "load_fill"}
      BY <3>2, <3>3 DEF EntryLabel
    <3>5. hnd'[p].name = req[p].name
      BY <3>2
    <3> QED BY <1>1, <2>1, <3>4, <3>5 DEF BackedOf
  <2>5. CASE ~ (Len(ld[p].stages) < ld[p].count) /\ hnd[p] # Nil
    <3>1. hnd'[p] = [hnd[p] EXCEPT !.stages = ld[p].stages] /\ pc'[p] = "done"
      BY <1>4, <2>5 DEF LoadFill, Finish, TypeOK
    <3>2. hnd'[p].name = hnd[p].name
      BY <1>1, <2>5, <3>1 DEF Handles
    <3> QED BY <1>1, <2>1, <2>5, <3>1, <3>2, QuietBacked DEF TypeOK
  <2> QED BY <2>3, <2>4, <2>5
<1> QED BY <1>2, <1>3, <1>4 DEF LoadStep

LEMMA StepBacked ==
  ASSUME TypeOK, Shape, GrownStagesPresent, NEW p \in Procs, BackedOf(p), Step(p)
  PROVE  BackedOf(p)'
<1>1. ASSUME NEW r \in Requests, Begin(p, r) PROVE BackedOf(p)'
  <2>1. r.op \in {"add", "exists", "stats", "delete", "create"}
    BY RequestTypes
  <2>2. hnd'[p] = hnd[p] /\ intact' = intact /\ ~ DropKeys(p)
    BY <1>1 DEF Begin, Enter, TypeOK, DropKeys
  <2>3. r.op # "create" => EntryLabel[r.op] \notin {"write_stage0", "register", "load_stage", "load_fill"}
    BY <2>1 DEF EntryLabel
  <2>4. pc'[p] \notin {"write_stage0", "register", "load_stage", "load_fill"}
    BY <1>1, <2>3 DEF Begin, Enter, Goto, TypeOK
  <2> QED BY <2>2, <2>4, QuietBacked
<1>2. CASE CreateStep(p)
  BY <1>2, CreateBacked
<1>3. CASE LoadStep(p)
  BY <1>3, LoadBacked
<1>4. CASE SetNextBit(p) \/ IncrFill(p) \/ ExistsStep(p) \/ Unregister(p) \/ Fail(p) \/ Return(p)
  <2>1. /\ hnd'[p] = hnd[p] \/ hnd'[p] = Nil
        /\ intact'[p] => intact[p]
        /\ pc'[p] \notin {"write_stage0", "register", "load_stage", "load_fill"}
        /\ ~ DropKeys(p)
    BY <1>4 DEF SetNextBit, IncrFill, ExistsStep, HitBit, MissBit, Unregister, Fail, Return,
                DropKeys, Finish, Goto, TypeOK, histVars
  <2> QED BY <2>1, QuietBacked
<1>5. CASE AppendNewStage(p)
  <2>1. /\ pc[p] = "append" /\ pc'[p] \in {"done", "load_meta"} /\ ~ DropKeys(p)
        /\ intact'[p] => intact[p]
        /\ hnd' = hnd \/ \E st : hnd' = [hnd EXCEPT ![p].stages = Append(@, st)]
    BY <1>5 DEF AppendNewStage, Finish, Goto, DropKeys, TypeOK
  <2>2. hnd[p] # Nil /\ hnd[p] \in Handles
    BY <2>1, AtWork, FilterAssumption
  <2>3. hnd'[p].name = hnd[p].name
    BY <2>1, <2>2 DEF Handles, TypeOK
  <2> QED BY <2>1, <2>2, <2>3, QuietBacked
<1>6. CASE DropKeys(p)
  <2>1. ~ intact'[p]
    BY <1>6 DEF DropKeys, Forget, Uses, Shape, ShapeOf
  <2> QED BY <2>1 DEF BackedOf
<1> QED BY <1>1, <1>2, <1>3, <1>4, <1>5, <1>6 DEF Step, Serve, AddStep, DropStep

LEMMA BackedStays == Spec => [](TypeOK /\ Shape /\ GrownStagesPresent /\ Backed)
<1>1. Init => Backed
  BY DEF Init, Backed, BackedOf
<1>2. TypeOK /\ Shape /\ GrownStagesPresent /\ Backed /\ [Next]_vars => Backed'
  <2>1. ASSUME TypeOK, Shape, GrownStagesPresent, Backed, Next PROVE Backed'
    <3>1. PICK p \in Procs : Step(p)
      BY <2>1, NextIsStep
    <3>2. BackedOf(p)'
      BY <2>1, <3>1, StepBacked DEF Backed
    <3>3. \A q \in Procs \ {p} : BackedOf(q)'
      BY <2>1, <3>1, OthersBacked DEF Backed
    <3> QED BY <3>2, <3>3 DEF Backed
  <2>2. ASSUME Backed, UNCHANGED vars PROVE Backed'
    BY <2>2 DEF vars, storeVars, procVars, histVars, Backed, BackedOf
  <2> QED BY <2>1, <2>2
<1> QED BY <1>1, <1>2, TypeAndShape, GrownStagesStay, PTL DEF Spec

(* Why a step may end a request in an error. *)
Explained(p) ==
  \/ req[p].op # "create" /\ ~ intact[p]
  \/ \E q \in Procs : pc[q] = "write_stage0" /\ req[q].name = req[p].name
  \/ pc[p] = "check" /\ ~ Sizable(req[p].par, 0)
  \/ pc[p] = "incr" /\ ~ Sizable(hnd[p].par, Len(hnd[p].stages))

(* The steps that report an error, one by one: the sizing of New, a stage  *)
(* that Load cannot parse, a stage that Add cannot size, and an append     *)
(* that finds no filter.                                                   *)
LEMMA StepExplained ==
  ASSUME TypeOK, Shape, HalfMadeOnlyWhileCreating, NEW p \in Procs, BackedOf(p),
         Step(p), ~ Fail(p), pc[p] # "done", pc'[p] = "done", res'[p] = "error"
  PROVE  Explained(p)
<1>0. res[p] = "none"
  BY DEF Shape, Pending
<1>1. CASE CheckExisting(p)
  BY <1>1 DEF CheckExisting, Finish, Goto, TypeOK, Explained
<1>2. CASE LoadStage(p)
  <2> DEFINE n == req[p].name
             i == Len(ld[p].stages)
  <2>1. pc[p] = "load_stage" /\ stageMeta[n][i] = Nil
    BY <1>2 DEF LoadStage, Goto, TypeOK
  <2>2. /\ req[p].op # "create" /\ n \in Names
        /\ ld[p] \in Loads /\ i \in Nat /\ i < ld[p].count
    BY <2>1, CopyTypes DEF Shape, ShapeOf, Loading, Loads
  <2>3. CASE ~ intact[p]
    BY <2>2, <2>3 DEF Explained
  <2>4. CASE intact[p]
    <3>1. meta[n] # Nil /\ \A j \in 1 .. ld[p].count - 1 : stageMeta[n][j] # Nil
      BY <2>1, <2>4 DEF BackedOf
    <3>2. ld[p].count \in Nat
      BY <2>2, StoreAssumption DEF Loads
    <3>3. i = 0
      BY <2>1, <2>2, <3>1, <3>2
    <3> QED BY <2>1, <2>2, <3>1, <3>3 DEF HalfMadeOnlyWhileCreating, Explained
  <2> QED BY <2>3, <2>4
<1>3. CASE IncrFill(p)
  BY <1>3 DEF IncrFill, Finish, Goto, TypeOK, Explained
<1>4. CASE AppendNewStage(p)
  <2>1. pc[p] = "append" /\ AppendReply(hnd[p].name, Len(hnd[p].stages)) = Nil
    BY <1>4 DEF AppendNewStage, Finish, Goto, TypeOK
  <2>2. hnd[p] # Nil /\ req[p].op = "add" /\ hnd[p].name \in Names
    BY <2>1, AtWork DEF Shape, ShapeOf, Adding
  <2>3. meta[hnd[p].name] = Nil
    <3>1. Len(hnd[p].stages) + 1 \in Nat
      BY <2>1, AtWork, StoreAssumption
    <3>2. meta[hnd[p].name] # Nil => meta[hnd[p].name].stage_count \in Nat
      BY <2>2, StoreAssumption DEF TypeOK, StoreTypeOK, Meta
    <3> QED BY <2>1, <3>1, <3>2, StoreAssumption DEF AppendReply
  <2>4. ~ intact[p]
    BY <2>2, <2>3 DEF BackedOf
  <2> QED BY <2>2, <2>4 DEF Explained
<1>5. CASE ~ (CheckExisting(p) \/ LoadStage(p) \/ IncrFill(p) \/ AppendNewStage(p))
  <2>1. ASSUME NEW r \in Requests, Begin(p, r) PROVE FALSE
    <3>1. r.op # "create" => r.op \in {"add", "exists", "stats", "delete"}
      BY RequestTypes
    <3>2. pc'[p] = "done" => res'[p] \in {"ok", "none"}
      BY <1>0, <2>1, <3>1 DEF Begin, Enter, Goto, TypeOK
    <3> QED BY <3>2
  <2>2. ~ LoadFill(p)
    <3>1. LoadFill(p) => res'[p] \in {"ok", "none"}
      BY <1>0 DEF LoadFill, Enter, Finish, Goto, TypeOK
    <3> QED BY <3>1
  <2>3. ~ (WriteMeta(p) \/ WriteStage0(p) \/ Register(p) \/ LoadMeta(p) \/ SetNextBit(p)
           \/ ExistsStep(p) \/ DropStep(p) \/ Return(p))
    BY <1>0 DEF WriteMeta, WriteStage0, Register, LoadMeta, SetNextBit, ExistsStep, HitBit, MissBit,
                DropStep, DropKeys, Unregister, Return, Finish, Goto, TypeOK
  <2> QED BY <1>5, <2>1, <2>2, <2>3 DEF Step, Serve, CreateStep, LoadStep, AddStep
<1> QED BY <1>1, <1>2, <1>3, <1>4, <1>5

(* Without store failures every internal error has its cause: a race for   *)
(* the next stage is lost without one (appendNewStage, Load).              *)
THEOREM ErrorsHaveCauses == ASSUME FaultProne = {} PROVE Spec => ErrorsExplained
<1>1. TypeOK /\ Shape /\ HalfMadeOnlyWhileCreating /\ Backed /\ [Next]_vars =>
        [\A p \in Procs :
           pc[p] # "done" /\ pc'[p] = "done" /\ res'[p] = "error" =>
             \/ req[p].op # "create" /\ ~ intact[p]
             \/ \E q \in Procs : pc[q] = "write_stage0" /\ req[q].name = req[p].name
             \/ pc[p] = "check" /\ ~ Sizable(req[p].par, 0)
             \/ pc[p] = "incr" /\ ~ Sizable(hnd[p].par, Len(hnd[p].stages))]_vars
  <2> SUFFICES ASSUME TypeOK, Shape, HalfMadeOnlyWhileCreating, Backed, Next,
                      NEW p \in Procs, pc[p] # "done", pc'[p] = "done", res'[p] = "error"
               PROVE  Explained(p)
    BY DEF Explained
  <2>1. PICK q \in Procs : Step(q)
    BY NextIsStep
  <2>2. p = q
    BY <2>1, OthersUntouched DEF Untouched
  <2>3. ~ Fail(p)
    BY DEF Fail
  <2> QED BY <2>1, <2>2, <2>3, StepExplained DEF Backed
<1> QED BY <1>1, BackedStays, HalfMadeIsBeingMade, PTL DEF Spec, ErrorsExplained
=============================================================================
