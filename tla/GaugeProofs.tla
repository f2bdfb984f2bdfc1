------------------------------ MODULE GaugeProofs ------------------------------
(***************************************************************************)
(* What the gauges report while the filters come and go: every filter that *)
(* stays has its sample, a sample counts every item acknowledged before    *)
(* the collection, and the count is that of the live filters as long as    *)
(* one process at a time creates and deletes.                              *)
(***************************************************************************)
EXTENDS ChainProofs, FilterGauges

(* The collector only reads. *)
LEMMA GaugesServe == GaugeSpec => Spec
<1>1. GaugeInit => Init
  BY DEF GaugeInit
<1>2. [GaugeNext]_<<vars, gaugeVars, gaugeHist>> => [Next]_vars
  BY DEF GaugeNext, FilterStep
<1> QED BY <1>1, <1>2, PTL DEF GaugeSpec, Spec

-----------------------------------------------------------------------------
(* A whole filter stays whole.                                             *)

(* A filter with all its stages keeps them, and its count does not fall,   *)
(* until it is deleted or created over itself.                             *)
LEMMA WholeStays ==
  ASSUME TypeOK, Shape, NEW p \in Procs, Step(p), NEW n \in Names,
         Whole(n), meta'[n] # Nil, ~ clobbered'[n]
  PROVE  Whole(n)' /\ meta[n].stage_count <= meta'[n].stage_count
<1>1. /\ meta[n] # Nil /\ meta[n].stage_count \in 1 .. MaxStages
      /\ \A i \in 0 .. meta[n].stage_count - 1 : i \in StageIdx /\ stageMeta[n][i] # Nil
  BY StoreAssumption DEF Whole, TypeOK, StoreTypeOK, Meta, StageIdx
<1>2. meta[n].stage_count \in Int /\ 0 \in 0 .. meta[n].stage_count - 1
  BY <1>1, StoreAssumption
<1>3. CASE meta'[n] = meta[n] /\ stageMeta'[n] = stageMeta[n]
  BY <1>1, <1>2, <1>3 DEF Whole
<1>4. CASE WriteMeta(p)
  <2>1. req[p].name \in Names
    BY <1>4, CreateEffect DEF WriteMeta, Creating
  <2>2. /\ meta' = [meta EXCEPT ![req[p].name] = [par |-> req[p].par, stage_count |-> 1]]
        /\ stageMeta' = stageMeta
        /\ clobbered' = [clobbered EXCEPT ![req[p].name] = @ \/ meta[req[p].name] # Nil]
    BY <1>4 DEF WriteMeta, HSetMeta
  <2>3. req[p].name # n
    BY <1>1, <2>2 DEF TypeOK
  <2>4. meta'[n] = meta[n]
    BY <2>2, <2>3 DEF TypeOK, StoreTypeOK
  <2> QED BY <1>3, <2>2, <2>4
<1>5. CASE WriteStage0(p)
  <2>1. req[p].name \in Names
    BY <1>5, CreateEffect DEF WriteStage0, Creating
  <2>2. /\ stageMeta' = [stageMeta EXCEPT ![req[p].name][0] = computeStage(req[p].par, 0)]
        /\ meta' = meta
        /\ clobbered' = [clobbered EXCEPT ![req[p].name] = @ \/ stageMeta[req[p].name][0] # Nil]
    BY <1>5 DEF WriteStage0, HSetStage, computeStage
  <2>3. req[p].name # n
    BY <1>1, <1>2, <2>2 DEF TypeOK
  <2>4. stageMeta'[n] = stageMeta[n]
    BY <2>2, <2>3 DEF TypeOK, StoreTypeOK
  <2> QED BY <1>3, <2>2, <2>4
<1>6. CASE AppendNewStage(p) /\ ~ (meta' = meta /\ stageMeta' = stageMeta)
  <2>1. PICK m \in Names, idx \in StageIdx, st \in Stages :
              /\ meta[m] # Nil /\ meta[m].stage_count = idx
              /\ meta' = [meta EXCEPT ![m] = [par |-> meta[m].par, stage_count |-> idx + 1]]
              /\ stageMeta' = [stageMeta EXCEPT ![m][idx] = st]
    BY <1>6, AppendEffect
  <2>2. CASE m # n
    <3>1. meta'[n] = meta[n] /\ stageMeta'[n] = stageMeta[n]
      BY <2>1, <2>2 DEF TypeOK, StoreTypeOK
    <3> QED BY <1>3, <3>1
  <2>3. CASE m = n
    <3>1. /\ meta'[n].stage_count = idx + 1
          /\ stageMeta'[n][idx] = st
          /\ \A i \in StageIdx : i # idx => stageMeta'[n][i] = stageMeta[n][i]
      BY <2>1, <2>3 DEF TypeOK, StoreTypeOK
    <3>2. st # Nil /\ idx \in Nat /\ meta[n].stage_count = idx
      BY <2>1, <2>3, StoreAssumption DEF StageIdx
    <3>3. ASSUME NEW i \in 0 .. idx PROVE stageMeta'[n][i] # Nil
      <4>1. CASE i = idx BY <3>1, <3>2, <4>1
      <4>2. CASE i # idx
        <5>1. i \in 0 .. meta[n].stage_count - 1 BY <3>2, <4>2
        <5> QED BY <1>1, <3>1, <4>2, <5>1
      <4> QED BY <4>1, <4>2
    <3> QED BY <3>1, <3>2, <3>3 DEF Whole
  <2> QED BY <2>2, <2>3
<1>7. CASE DropKeys(p)
  <2>1. PICK m \in Names :
           /\ meta' = [meta EXCEPT ![m] = Nil]
           /\ \A k \in Names : k # m => stageMeta'[k] = stageMeta[k]
    BY <1>7, DropEffect
  <2>2. m # n
    BY <2>1 DEF TypeOK, StoreTypeOK
  <2> QED BY <1>3, <2>1, <2>2 DEF TypeOK, StoreTypeOK
<1>8. CASE meta' = meta /\ stageMeta' = stageMeta
  BY <1>3, <1>8
<1> QED BY <1>4, <1>5, <1>6, <1>7, <1>8, HashSteps

-----------------------------------------------------------------------------
(* The collection.                                                         *)

(* The collector at each of its store commands. *)
Collecting ==
  /\ kept \subseteq Names /\ queue \subseteq kept /\ whole \subseteq Names
  /\ gpc \in {"idle", "next", "stage", "fill"}
  /\ DOMAIN samples = Names
  /\ gpc = "idle" => queue = {}
  /\ gpc \in {"stage", "fill"} =>
       /\ cur \in Names
       /\ gld \in [count : 1 .. MaxStages, read : Nat, items : Nat]
       /\ gld.read < gld.count

(* A filter whose sample is owed is whole, the Load of it reads only       *)
(* stages it has, and the sample is taken, being taken, or to be taken.    *)
Owed ==
  /\ \A n \in whole : Whole(n)
  /\ gpc \in {"stage", "fill"} /\ cur \in whole => gld.count <= meta[cur].stage_count
  /\ \A n \in (kept \cap whole) \ failed :
       \/ n \in queue
       \/ gpc \in {"stage", "fill"} /\ cur = n
       \/ samples[n] # Nil

(* The filters go on. *)
LEMMA FilterStepOwed ==
  ASSUME TypeOK, Shape, Collecting, Owed, FilterStep
  PROVE  Collecting' /\ Owed'
<1>1. PICK p \in Procs : Step(p)
  BY NextIsStep DEF FilterStep
<1>2. /\ whole' = {n \in whole : meta'[n] # Nil /\ ~ clobbered'[n]}
      /\ UNCHANGED <<kept, queue, cur, gpc, gld, samples, failed>>
  BY DEF FilterStep, gaugeVars
<1>3. Collecting'
  BY <1>2 DEF Collecting
<1>4. ASSUME NEW n \in whole'
      PROVE  Whole(n)' /\ meta[n].stage_count <= meta'[n].stage_count /\ n \in whole
  <2>1. n \in whole /\ n \in Names /\ Whole(n) /\ meta'[n] # Nil /\ ~ clobbered'[n]
    BY <1>2 DEF Collecting, Owed
  <2> QED BY <1>1, <2>1, WholeStays
<1>5. ASSUME gpc \in {"stage", "fill"}, cur \in whole' PROVE gld.count <= meta'[cur].stage_count
  <2>1. gld.count <= meta[cur].stage_count /\ meta[cur].stage_count <= meta'[cur].stage_count
    BY <1>4, <1>5 DEF Owed
  <2>2. meta[cur] # Nil /\ meta'[cur] # Nil /\ cur \in Names
    BY <1>2, <1>4, <1>5 DEF Owed, Whole, Collecting
  <2>3. TypeOK'
    BY <1>1, StepType
  <2>4. meta[cur].stage_count \in Int /\ meta'[cur].stage_count \in Int
    BY <2>2, <2>3 DEF TypeOK, StoreTypeOK, Meta
  <2>5. gld.count \in Int
    BY <1>5 DEF Collecting
  <2> QED BY <2>1, <2>4, <2>5
<1>6. Owed'
  BY <1>2, <1>4, <1>5 DEF Owed
<1> QED BY <1>3, <1>6

(* SMEMBERS of the registry: every name kept is queued. *)
LEMMA ListOwed ==
  ASSUME TypeOK, List \/ ListFails, meta' = meta, stageMeta' = stageMeta
  PROVE  Collecting' /\ Owed'
<1>1. registry \subseteq Names
  BY DEF TypeOK, StoreTypeOK
<1>2. CASE List
  <2>1. PICK names \in Kept(registry) : kept' = names /\ queue' = names
    BY <1>2 DEF List
  <2>2. names \subseteq registry
    BY <2>1 DEF Kept, kSubset
  <2>3. /\ gpc' = IF registry = {} THEN "idle" ELSE "next"
        /\ samples' = NoSamples /\ whole' = {n \in registry : Whole(n)}
    BY <1>2 DEF List
  <2>4. DOMAIN samples' = Names
    BY <2>3 DEF NoSamples
  <2>5. \A n \in whole' : Whole(n)'
    BY <2>3 DEF Whole
  <2>6. gpc' \in {"idle", "next"} /\ (gpc' = "idle" => queue' = {})
    BY <2>1, <2>2, <2>3
  <2> QED BY <1>1, <2>1, <2>2, <2>3, <2>4, <2>5, <2>6 DEF Collecting, Owed
<1>3. CASE ListFails
  <2>1. /\ kept' = {} /\ queue' = {} /\ gpc' = "idle" /\ samples' = NoSamples
        /\ whole' = {n \in registry : Whole(n)}
    BY <1>3 DEF ListFails
  <2>2. DOMAIN samples' = Names
    BY <2>1 DEF NoSamples
  <2>3. \A n \in whole' : Whole(n)'
    BY <2>1 DEF Whole
  <2> QED BY <1>1, <2>1, <2>2, <2>3 DEF Collecting, Owed
<1> QED BY <1>2, <1>3

(* The loop goes on with q. *)
LEMMA ProceedLabel ==
  ASSUME NEW q, Proceed(q)
  PROVE  queue' = q /\ gpc' \in {"idle", "next"} /\ (gpc' = "idle" => queue' = {})
BY DEF Proceed

(* HGETALL of the next filter's hash: a miss is no whole filter. *)
LEMMA SampleMetaOwed ==
  ASSUME TypeOK, Collecting, Owed, SampleMeta, meta' = meta, stageMeta' = stageMeta
  PROVE  Collecting' /\ Owed'
<1>1. UNCHANGED <<kept, samples, whole, failed>> /\ gpc = "next"
  BY DEF SampleMeta, gaugeHist
<1>2. PICK n \in queue :
        /\ cur' = n
        /\ IF meta[n] = Nil
           THEN Proceed(SkipMiss(queue \ {n})) /\ UNCHANGED gld
           ELSE /\ gpc' = "stage"
                /\ queue' = queue \ {n}
                /\ gld' = [count |-> meta[n].stage_count, read |-> 0, items |-> 0]
  BY DEF SampleMeta
<1>3. queue' = queue \ {n} /\ n \in Names /\ n \in kept
  BY <1>2, ProceedLabel DEF SkipMiss, Collecting
<1>4. \A m \in whole' : Whole(m)'
  BY <1>1 DEF Owed, Whole
<1>5. CASE meta[n] = Nil
  <2>1. gpc' \in {"idle", "next"} /\ (gpc' = "idle" => queue' = {})
    BY <1>2, <1>5, ProceedLabel
  <2>2. n \notin whole
    BY <1>5 DEF Owed, Whole
  <2> QED BY <1>1, <1>3, <1>4, <2>1, <2>2 DEF Collecting, Owed
<1>6. CASE meta[n] # Nil
  <2>1. meta[n].stage_count \in 1 .. MaxStages /\ MaxStages \in Nat
    BY <1>3, <1>6, StoreAssumption DEF TypeOK, StoreTypeOK, Meta
  <2>2. /\ gpc' = "stage" /\ cur' = n
        /\ gld' = [count |-> meta[n].stage_count, read |-> 0, items |-> 0]
    BY <1>2, <1>6
  <2>3. gld'.count = meta'[n].stage_count /\ gld'.read = 0
    BY <2>2
  <2>4. gld' \in [count : 1 .. MaxStages, read : Nat, items : Nat] /\ gld'.read < gld'.count
    BY <2>1, <2>2
  <2>5. Collecting'
    BY <1>1, <1>3, <2>2, <2>4 DEF Collecting
  <2>6. gld'.count <= meta'[cur'].stage_count
    BY <2>1, <2>2, <2>3
  <2> QED BY <1>1, <1>3, <1>4, <2>2, <2>5, <2>6 DEF Owed
<1> QED BY <1>5, <1>6

(* HGETALL of a stage's hash, which a whole filter has. *)
LEMMA SampleStageOwed ==
  ASSUME TypeOK, Collecting, Owed, SampleStage, meta' = meta, stageMeta' = stageMeta
  PROVE  Collecting' /\ Owed'
<1>1. UNCHANGED <<kept, cur, samples, whole, failed>> /\ gpc = "stage"
  BY DEF SampleStage, gaugeHist
<1>2. \A m \in whole' : Whole(m)'
  BY <1>1 DEF Owed, Whole
<1>3. CASE stageMeta[cur][gld.read] = Nil
  <2>1. queue' = queue /\ gpc' \in {"idle", "next"} /\ (gpc' = "idle" => queue' = {})
    BY <1>3, ProceedLabel DEF SampleStage, SkipMiss
  <2>2. ASSUME cur \in whole PROVE FALSE
    <3>1. gld.count <= meta[cur].stage_count /\ Whole(cur) /\ cur \in Names
      BY <1>1, <2>2 DEF Owed, Collecting
    <3>2. meta[cur].stage_count \in Int
      BY <3>1 DEF Whole, TypeOK, StoreTypeOK, Meta
    <3>3. gld.read \in Nat /\ gld.count \in Int /\ gld.read < gld.count
      BY <1>1 DEF Collecting
    <3>4. gld.read \in 0 .. meta[cur].stage_count - 1
      BY <3>1, <3>2, <3>3
    <3> QED BY <1>3, <3>1, <3>4 DEF Whole
  <2> QED BY <1>1, <1>2, <2>1, <2>2 DEF Collecting, Owed
<1>4. CASE stageMeta[cur][gld.read] # Nil
  <2>1. gpc' = "fill" /\ queue' = queue /\ gld' = gld
    BY <1>4 DEF SampleStage
  <2> QED BY <1>1, <1>2, <2>1 DEF Collecting, Owed
<1> QED BY <1>3, <1>4

(* GET of a stage's counter: the last one makes the sample. *)
LEMMA SampleFillOwed ==
  ASSUME TypeOK, Collecting, Owed, SampleFill, meta' = meta, stageMeta' = stageMeta
  PROVE  Collecting' /\ Owed'
<1> DEFINE items == gld.items + FillOf(cur, gld.read)
<1>1. UNCHANGED <<kept, cur, whole, failed>> /\ gpc = "fill"
  BY DEF SampleFill, gaugeHist
<1>2. \A m \in whole' : Whole(m)'
  BY <1>1 DEF Owed, Whole
<1>3. /\ cur \in Names /\ gld.count \in 1 .. MaxStages /\ gld.read \in Nat /\ gld.items \in Nat
      /\ gld.read < gld.count
      /\ gld = [count |-> gld.count, read |-> gld.read, items |-> gld.items]
  BY <1>1 DEF Collecting
<1>4. gld.read \in StageIdx
  BY <1>3, StoreAssumption DEF StageIdx
<1>5. items \in Nat
  BY <1>3, <1>4 DEF TypeOK, StoreTypeOK, FillOf
<1>6. CASE gld.read + 1 < gld.count
  <2>1. /\ gld' = [gld EXCEPT !.read = @ + 1, !.items = items]
        /\ gpc' = "stage" /\ queue' = queue /\ samples' = samples
    BY <1>6 DEF SampleFill
  <2>2. gld' = [count |-> gld.count, read |-> gld.read + 1, items |-> items]
    BY <1>3, <2>1
  <2>3. /\ gld' \in [count : 1 .. MaxStages, read : Nat, items : Nat]
        /\ gld'.count = gld.count /\ gld'.read < gld'.count
    BY <1>3, <1>5, <1>6, <2>2
  <2>4. Collecting'
    BY <1>1, <2>1, <2>3 DEF Collecting
  <2> QED BY <1>1, <1>2, <2>1, <2>3, <2>4 DEF Owed
<1>7. CASE ~ (gld.read + 1 < gld.count)
  <2>1. samples' = [samples EXCEPT ![cur] = items] /\ Proceed(queue)
    BY <1>7 DEF SampleFill
  <2>2. queue' = queue /\ gpc' \in {"idle", "next"} /\ (gpc' = "idle" => queue' = {})
    BY <2>1, ProceedLabel
  <2>3. DOMAIN samples' = Names /\ \A n \in Names : samples[n] # Nil \/ n = cur => samples'[n] # Nil
    <3> HIDE DEF items
    <3>1. items # Nil BY <1>5, StoreAssumption
    <3> QED BY <1>3, <2>1, <3>1 DEF Collecting
  <2> QED BY <1>1, <1>2, <2>2, <2>3 DEF Collecting, Owed
<1> QED BY <1>6, <1>7

(* A store call of a Load fails: the name is recorded as failed. *)
LEMMA SampleFailsOwed ==
  ASSUME TypeOK, Collecting, Owed, SampleFails, meta' = meta, stageMeta' = stageMeta
  PROVE  Collecting' /\ Owed'
<1>1. UNCHANGED <<kept, cur, samples, whole>>
  BY DEF SampleFails
<1>2. \A m \in whole' : Whole(m)'
  BY <1>1 DEF Owed, Whole
<1>3. CASE gpc = "next"
  <2>1. PICK n \in queue : Proceed(SkipMiss(queue \ {n})) /\ failed' = failed \cup {n}
    BY <1>3 DEF SampleFails
  <2>2. queue' = queue \ {n} /\ gpc' \in {"idle", "next"} /\ (gpc' = "idle" => queue' = {})
    BY <2>1, ProceedLabel DEF SkipMiss
  <2> QED BY <1>1, <1>2, <1>3, <2>1, <2>2 DEF Collecting, Owed
<1>4. CASE gpc \in {"stage", "fill"}
  <2>1. Proceed(SkipMiss(queue)) /\ failed' = failed \cup {cur}
    BY <1>4 DEF SampleFails
  <2>2. queue' = queue /\ gpc' \in {"idle", "next"} /\ (gpc' = "idle" => queue' = {})
    BY <2>1, ProceedLabel DEF SkipMiss
  <2> QED BY <1>1, <1>2, <1>4, <2>1, <2>2 DEF Collecting, Owed
<1> QED BY <1>3, <1>4 DEF SampleFails

LEMMA CollectionOwed == GaugeSpec => [](Collecting /\ Owed)
<1>1. GaugeInit => Collecting /\ Owed
  BY DEF GaugeInit, Collecting, Owed, NoSamples
<1>2. TypeOK /\ Shape /\ (Collecting /\ Owed) /\ [GaugeNext]_<<vars, gaugeVars, gaugeHist>>
        => (Collecting /\ Owed)'
  <2>1. ASSUME TypeOK, Shape, Collecting, Owed, Collect, UNCHANGED vars PROVE Collecting' /\ Owed'
    <3>1. meta' = meta /\ stageMeta' = stageMeta
      BY <2>1 DEF vars, storeVars
    <3> QED BY <2>1, <3>1, ListOwed, SampleMetaOwed, SampleStageOwed, SampleFillOwed, SampleFailsOwed
            DEF Collect
  <2>2. ASSUME Collecting, Owed, UNCHANGED <<vars, gaugeVars, gaugeHist>> PROVE Collecting' /\ Owed'
    BY <2>2 DEF vars, storeVars, gaugeVars, gaugeHist, Collecting, Owed, Whole
  <2> QED BY <2>1, <2>2, FilterStepOwed DEF GaugeNext
<1> QED BY <1>1, <1>2, GaugesServe, TypeAndShape, PTL DEF GaugeSpec

(* However the other filters come and go during a collection, and whatever *)
(* fails while they are loaded, every filter that was whole when the       *)
(* registry was listed and is still there has its sample, unless its own   *)
(* Load failed (service.go FilterSamples).                                 *)
THEOREM WholeFiltersHaveSamples == GaugeSpec => []WholeFiltersSampled
<1>1. Collecting /\ Owed => WholeFiltersSampled
  BY DEF Collecting, Owed, WholeFiltersSampled
<1> QED BY <1>1, CollectionOwed, PTL

-----------------------------------------------------------------------------
(* The registry, when one process creates and deletes.                     *)

(* The labels at which the registry may be behind the filters. *)
Behind == {"write_stage0", "register", "srem"}

(* Process q alone creates and deletes filters, and no store call fails. *)
OneManager(q) ==
  /\ FaultProne = {}
  /\ \A p \in Procs \ {q} : Issues[p] \cap {"create", "delete"} = {}

(* The registry lists the live filters, but for the one that q has written *)
(* and is about to list, or has deleted and is about to take off the list. *)
Listed(q) ==
  /\ pc[q] \in {"write_stage0", "register"} => meta[req[q].name] # Nil
  /\ pc[q] = "srem" => meta[hnd[q].name] = Nil
  /\ \A n \in Names :
       \/ n \in registry <=> meta[n] # Nil
       \/ pc[q] \in Behind /\ req[q].name = n

(* Only the manager is at a label of New or Drop. *)
LEMMA ManagerOnly ==
  ASSUME TypeOK, Shape, Issued, NEW q \in Procs, OneManager(q), NEW p \in Procs,
         pc[p] \in Creating \cup {"del", "srem"}
  PROVE  p = q /\ req[p].name \in Names
<1>1. req[p] # Nil /\ req[p].op \in {"create", "delete"}
  BY DEF Shape, ShapeOf, Creating
<1>2. p = q
  BY <1>1 DEF Issued, OneManager
<1>3. req[p] \in Requests
  BY <1>1 DEF TypeOK
<1> QED BY <1>1, <1>2, <1>3, RequestTypes

(* The other steps neither touch what is listed nor lead to those labels.  *)
LEMMA QuietSteps ==
  ASSUME TypeOK, Shape, NEW p \in Procs, Step(p),
         ~ WriteMeta(p), ~ WriteStage0(p), ~ Register(p), ~ AppendNewStage(p),
         ~ DropKeys(p), ~ Unregister(p), ~ Fail(p)
  PROVE  UNCHANGED <<meta, registry>> /\ pc'[p] \notin Behind
<1> USE DEF TypeOK, Finish, Goto, Behind
<1>1. ASSUME NEW r \in Requests, Begin(p, r) PROVE UNCHANGED <<meta, registry>> /\ pc'[p] \notin Behind
  <2>1. r.op \in {"create", "add", "exists", "stats", "delete"}
    BY RequestTypes
  <2>2. UNCHANGED <<meta, registry>>
    BY <1>1 DEF Begin, storeVars
  <2>3. r.op # "create" => EntryLabel[r.op] \notin Behind
    BY <2>1 DEF EntryLabel
  <2>4. CASE hnd[p] = Nil
    BY <1>1, <2>2, <2>4 DEF Begin
  <2>5. CASE hnd[p] # Nil
    <3>1. r.op # "create" /\ pc' = [pc EXCEPT ![p] = EntryLabel[r.op]]
      BY <1>1, <2>5 DEF Begin, Enter
    <3> QED BY <2>2, <2>3, <3>1
  <2> QED BY <2>4, <2>5
<1>2. CASE CheckExisting(p)
  BY <1>2 DEF CheckExisting, storeVars
<1>3. CASE LoadMeta(p) \/ LoadStage(p)
  BY <1>3 DEF LoadMeta, LoadStage, storeVars
<1>4. CASE LoadFill(p)
  <2>1. /\ req[p] \in Requests /\ req[p].op # "create"
        /\ UNCHANGED <<meta, registry>>
    BY <1>4, FilterAssumption DEF LoadFill, storeVars, Shape, ShapeOf, Loading
  <2>2. EntryLabel[req[p].op] \notin Behind
    BY <2>1, RequestTypes DEF EntryLabel
  <2>3. \/ pc' = [pc EXCEPT ![p] = "load_stage"]
        \/ pc' = [pc EXCEPT ![p] = EntryLabel[req[p].op]]
        \/ pc' = [pc EXCEPT ![p] = "done"]
    BY <1>4 DEF LoadFill, Enter
  <2> QED BY <2>1, <2>2, <2>3
<1>5. CASE SetNextBit(p)
  BY <1>5 DEF SetNextBit, SetBit
<1>6. CASE IncrFill(p)
  BY <1>6 DEF IncrFill, Incr
<1>7. CASE ExistsStep(p)
  BY <1>7 DEF ExistsStep, HitBit, MissBit, storeVars
<1>8. CASE Return(p)
  BY <1>8 DEF Return, storeVars
<1> QED BY <1>1, <1>2, <1>3, <1>4, <1>5, <1>6, <1>7, <1>8
        DEF Step, Serve, CreateStep, LoadStep, AddStep, DropStep

(* The manager lists what it has made and takes off what it has deleted.   *)
LEMMA ListedStays ==
  ASSUME TypeOK, Shape, Issued, NEW q \in Procs, OneManager(q), Listed(q), NEW p \in Procs, Step(p)
  PROVE  Listed(q)'
<1>1. ~ Fail(p)
  BY DEF OneManager, Fail
<1>2. p # q => pc'[q] = pc[q] /\ req'[q] = req[q] /\ hnd'[q] = hnd[q]
  BY OthersUntouched DEF Untouched
<1>3. ASSUME \A n \in Names : meta'[n] = Nil <=> meta[n] = Nil,
             registry' = registry, pc[p] \notin Behind, pc'[p] \notin Behind
      PROVE  Listed(q)'
  <2>1. CASE p = q
    BY <1>3, <2>1 DEF Listed, Behind
  <2>2. CASE p # q
    <3>1. pc[q] \in {"write_stage0", "register"} => req[q].name \in Names
      BY ManagerOnly DEF Creating
    <3>2. pc[q] = "srem" => hnd[q].name \in Names
      BY HandleTypes DEF Shape, ShapeOf, TypeOK
    <3> QED BY <1>2, <1>3, <2>2, <3>1, <3>2 DEF Listed, Behind
  <2> QED BY <2>1, <2>2
<1>4. CASE WriteMeta(p)
  <2>1. p = q /\ req[q].name \in Names
    BY <1>4, ManagerOnly DEF WriteMeta, Creating
  <2>2. /\ meta' = [meta EXCEPT ![req[q].name] = [par |-> req[q].par, stage_count |-> 1]]
        /\ registry' = registry /\ req' = req /\ pc[q] = "write_meta" /\ pc'[q] = "write_stage0"
    BY <1>4, <2>1 DEF WriteMeta, HSetMeta, Goto, TypeOK
  <2>3. meta'[req[q].name] # Nil
    <3>1. TypeOK' BY StepType
    <3>2. meta'[req[q].name].stage_count = 1 /\ meta'[req[q].name] = [par |-> req[q].par, stage_count |-> 1]
      BY <2>1, <2>2 DEF TypeOK, StoreTypeOK
    <3>3. [par |-> req[q].par, stage_count |-> 1] \in Meta
      BY <1>4, <2>1, CreateEffect, StoreAssumption DEF WriteMeta, Creating, Meta
    <3> QED BY <3>2, <3>3, StoreAssumption
  <2>4. \A n \in Names : n # req[q].name => meta'[n] = meta[n]
    BY <2>2 DEF TypeOK, StoreTypeOK
  <2> QED BY <2>1, <2>2, <2>3, <2>4 DEF Listed, Behind
<1>5. CASE WriteStage0(p)
  <2>1. p = q
    BY <1>5, ManagerOnly DEF WriteStage0, Creating
  <2>2. /\ meta' = meta /\ registry' = registry /\ req' = req
        /\ pc[q] = "write_stage0" /\ pc'[q] = "register"
    BY <1>5, <2>1 DEF WriteStage0, HSetStage, Goto, TypeOK
  <2> QED BY <2>2 DEF Listed, Behind
<1>6. CASE Register(p)
  <2>1. p = q
    BY <1>6, ManagerOnly DEF Register, Creating
  <2>2. /\ meta' = meta /\ registry' = registry \cup {req[q].name}
        /\ pc[q] = "register" /\ pc'[q] = "done"
    BY <1>6, <2>1 DEF Register, SAdd, Finish, TypeOK
  <2> QED BY <2>2 DEF Listed, Behind
<1>7. CASE AppendNewStage(p)
  <2>1. pc[p] = "append" /\ pc'[p] \in {"done", "load_meta"} /\ registry' = registry
    BY <1>7 DEF AppendNewStage, AppendStage, Finish, Goto, TypeOK, storeVars
  <2>2. \A n \in Names : meta'[n] = Nil <=> meta[n] = Nil
    <3>1. CASE meta' = meta BY <3>1
    <3>2. CASE meta' # meta
      <4>1. PICK m \in Names, idx \in StageIdx, st \in Stages :
              /\ meta[m] # Nil
              /\ meta' = [meta EXCEPT ![m] = [par |-> meta[m].par, stage_count |-> idx + 1]]
              /\ idx + 1 \in 1 .. MaxStages
        BY <1>7, <3>2, AppendEffect
      <4>2. [par |-> meta[m].par, stage_count |-> idx + 1] \in Meta
        BY <4>1 DEF TypeOK, StoreTypeOK, Meta
      <4> QED BY <4>1, <4>2, StoreAssumption DEF TypeOK, StoreTypeOK
    <3> QED BY <3>1, <3>2
  <2> QED BY <1>3, <2>1, <2>2 DEF Behind
<1>8. CASE DropKeys(p)
  <2>1. p = q
    BY <1>8, ManagerOnly DEF DropKeys
  <2>2. /\ meta' = [meta EXCEPT ![hnd[q].name] = Nil] /\ registry' = registry
        /\ req' = req /\ hnd' = hnd /\ pc[q] = "del" /\ pc'[q] = "srem"
    BY <1>8, <2>1 DEF DropKeys, Del, Goto, TypeOK
  <2>3. hnd[q].name = req[q].name /\ req[q].name \in Names
    BY <2>2, ManagerOnly DEF Shape, ShapeOf
  <2> QED BY <2>2, <2>3 DEF Listed, Behind, TypeOK, StoreTypeOK
<1>9. CASE Unregister(p)
  <2>1. p = q
    BY <1>9, ManagerOnly DEF Unregister
  <2>2. /\ meta' = meta /\ registry' = registry \ {hnd[q].name}
        /\ pc[q] = "srem" /\ pc'[q] = "done"
    BY <1>9, <2>1 DEF Unregister, SRem, Finish, TypeOK
  <2>3. hnd[q].name = req[q].name
    BY <2>2 DEF Shape, ShapeOf
  <2> QED BY <2>2, <2>3 DEF Listed, Behind
<1>10. CASE pc[p] \in Behind
  <2>1. WriteStage0(p) \/ Register(p) \/ Unregister(p)
    BY <1>1, <1>10 DEF Behind, Step, Begin, Serve, CreateStep, CheckExisting, WriteMeta,
       LoadStep, LoadMeta, LoadStage, LoadFill, AddStep, SetNextBit, IncrFill, AppendNewStage,
       ExistsStep, HitBit, MissBit, DropStep, DropKeys, Return
  <2> QED BY <1>5, <1>6, <1>9, <2>1
<1> QED BY <1>1, <1>3, <1>4, <1>5, <1>6, <1>7, <1>8, <1>9, <1>10, QuietSteps

LEMMA RegistryInv ==
  ASSUME NEW q \in Procs, OneManager(q)
  PROVE  Spec => [](TypeOK /\ Shape /\ Issued /\ Listed(q))
<1>1. Init => Issued /\ Listed(q)
  <2> SUFFICES ASSUME Init PROVE Issued /\ Listed(q)
    OBVIOUS
  <2>1. pc[q] = "idle" /\ \A p \in Procs : req[p] = Nil
    BY DEF Init
  <2>2. ASSUME NEW n \in Names PROVE n \in registry <=> meta[n] # Nil
    <3>1. CASE Seed[n] = Nil BY <3>1 DEF Init
    <3>2. CASE Seed[n] # Nil
      <4>1. meta[n] # Nil
        BY <3>2, InitType, StoreAssumption, FilterAssumption DEF Init, Meta
      <4> QED BY <3>2, <4>1 DEF Init
    <3> QED BY <3>1, <3>2
  <2> QED BY <2>1, <2>2 DEF Issued, Listed, Behind
<1>2. TypeOK /\ Shape /\ Issued /\ Listed(q) /\ [Next]_vars => (Issued /\ Listed(q))'
  <2>1. ASSUME TypeOK, Shape, Issued, Listed(q), Next PROVE (Issued /\ Listed(q))'
    <3>1. PICK p \in Procs : Step(p)
      BY <2>1, NextIsStep
    <3> QED BY <2>1, <3>1, IssuedStays, ListedStays
  <2>2. ASSUME Issued, Listed(q), UNCHANGED vars PROVE (Issued /\ Listed(q))'
    BY <2>2 DEF vars, storeVars, procVars, Issued, Listed
  <2> QED BY <2>1, <2>2
<1> QED BY <1>1, <1>2, TypeAndShape, PTL DEF Spec

(* Between the manager's requests the registry lists the live filters.     *)
LEMMA ListedWhenQuiet ==
  ASSUME TypeOK, Shape, NEW q \in Procs, Listed(q), ~ Changing
  PROVE  registry = {n \in Names : meta[n] # Nil}
<1>1. pc[q] \notin Behind
  BY DEF Behind, Changing, Shape, ShapeOf, Creating
<1> QED BY <1>1 DEF Listed, TypeOK, StoreTypeOK

(* Where one process creates and deletes, and no store call fails, the     *)
(* registry never goes astray: it lists the live filters whenever no       *)
(* request is in progress (filter.go New, Drop).  RegistryRace has two.    *)
THEOREM OneManagerListsAll ==
  ASSUME NEW q \in Procs, OneManager(q)
  PROVE  Spec => []RegistryIsLive
<1>1. TypeOK /\ Shape /\ Issued /\ Listed(q) => RegistryIsLive
  <2> SUFFICES ASSUME TypeOK, Shape, Listed(q), \A p \in Procs : pc[p] = "idle"
      PROVE  registry = {n \in Names : meta[n] # Nil}
    BY DEF RegistryIsLive
  <2>1. ~ Changing
    BY DEF Changing, Shape, ShapeOf
  <2> QED BY <2>1, ListedWhenQuiet
<1> QED BY <1>1, RegistryInv, PTL

(* The count is that of the live filters whenever none was being created   *)
(* or deleted when the registry was listed, whatever the cap leaves of     *)
(* them (service.go FilterSamples): for any number of filters and adders,  *)
(* where one process creates and deletes and its store calls do not fail.  *)
THEOREM CountIsTrue ==
  ASSUME NEW q \in Procs, OneManager(q)
  PROVE  GaugeSpec => []CountIsTrueTotal
<1>1. GaugeInit => CountIsTrueTotal
  BY DEF GaugeInit, CountIsTrueTotal
<1>2. TypeOK /\ Shape /\ Issued /\ Listed(q) /\ CountIsTrueTotal
        /\ [GaugeNext]_<<vars, gaugeVars, gaugeHist>> => CountIsTrueTotal'
  <2>1. ASSUME TypeOK, Shape, Listed(q), List PROVE CountIsTrueTotal'
    <3>1. PICK names \in Kept(registry) : count' = Total(registry, names)
      BY <2>1 DEF List
    <3>2. live' = IF Changing THEN Nil ELSE Cardinality({n \in Names : meta[n] # Nil})
      BY <2>1 DEF List
    <3>3. ~ Changing => count' = Cardinality({n \in Names : meta[n] # Nil})
      BY <2>1, <3>1, ListedWhenQuiet DEF Total
    <3> QED BY <3>2, <3>3 DEF CountIsTrueTotal
  <2>2. CASE ListFails
    BY <2>2 DEF ListFails, CountIsTrueTotal
  <2>3. CASE FilterStep \/ UNCHANGED <<vars, gaugeVars, gaugeHist>>
                        \/ SampleMeta \/ SampleStage \/ SampleFill \/ SampleFails
    BY <2>3 DEF FilterStep, SampleMeta, SampleStage, SampleFill, SampleFails, gaugeVars, gaugeHist,
                CountIsTrueTotal
  <2> QED BY <2>1, <2>2, <2>3 DEF GaugeNext, Collect
<1> QED BY <1>1, <1>2, GaugesServe, RegistryInv, PTL DEF GaugeSpec

-----------------------------------------------------------------------------
(* Every acknowledged item was counted.  No counter falls but by a DEL, so *)
(* a stage's counter is at least the number of INCRs since: each of them   *)
(* leaves a mark, that of the Add that sent it, until the Add is           *)
(* acknowledged, and that of its item from then on.                        *)

Marks == ({"add"} \X Procs) \cup ({"item"} \X Items)

(* The Adds to filter n that have sent their INCR and will be acknowledged, *)
(* unless they fail.                                                       *)
Counting(n) ==
  {p \in Procs : /\ pc[p] # "idle" /\ req[p].op = "add" /\ req[p].name = n /\ intact[p]
                 /\ Stored(p) /\ pc[p] # "incr"}

(* The marks of them and of what is acknowledged. *)
MarksOf(n) ==
  {<<"add", p>> : p \in Counting(n)} \cup {<<"item", x>> : x \in acked[n]}

(* C gives every stage of filter n no more marks than its counter shows.   *)
WithinCounters(n, C) ==
  \A i \in StageIdx : IsFiniteSet(C[i]) /\ Cardinality(C[i]) <= fill[n][i]

(* Mark k is in one of the stages from first to last. *)
MarkedIn(k, C, first, last) == \E i \in StageIdx : first <= i /\ i < last /\ k \in C[i]

Tally(n, C) ==
  /\ WithinCounters(n, C)
  /\ \A k \in MarksOf(n) : meta[n] # Nil /\ MarkedIn(k, C, 0, meta[n].stage_count)

Tallies ==
  \A n \in Names : ~ clobbered[n] => \E C \in [StageIdx -> SUBSET Marks] : Tally(n, C)

(* A counter falls only by the DEL of its filter. *)
LEMMA CountersGrow ==
  ASSUME TypeOK, Shape, NEW p \in Procs, Step(p), NEW n \in Names,
         ~ (DropKeys(p) /\ hnd[p].name = n), NEW i \in StageIdx
  PROVE  fill[n][i] \in Nat /\ fill'[n][i] \in Nat /\ fill[n][i] <= fill'[n][i]
<1>1. fill[n][i] \in Nat
  BY DEF TypeOK, StoreTypeOK
<1>2. CASE IncrFill(p)
  <2>1. \/ fill'[n][i] = fill[n][i]
        \/ fill'[n][i] = fill[n][i] + 1
    BY <1>2 DEF IncrFill, Incr, TypeOK, StoreTypeOK
  <2> QED BY <1>1, <2>1
<1>3. CASE DropKeys(p)
  <2>1. hnd[p].name # n /\ Del(hnd[p].name, DropStages(hnd[p]), DropShards(hnd[p]))
    BY <1>3 DEF DropKeys
  <2>2. fill'[n] = fill[n]
    BY <2>1 DEF Del, TypeOK, StoreTypeOK
  <2> QED BY <1>1, <2>2
<1>4. CASE ~ IncrFill(p) /\ ~ DropKeys(p)
  <2>1. fill' = fill
    BY <1>4 DEF Step, Serve, Begin, CreateStep, CheckExisting, WriteMeta, HSetMeta, WriteStage0,
       HSetStage, Register, SAdd, LoadStep, LoadMeta, LoadStage, LoadFill, AddStep, SetNextBit,
       SetBit, AppendNewStage, AppendStage, ExistsStep, HitBit, MissBit, DropStep, Unregister,
       SRem, Fail, Return, storeVars
  <2> QED BY <1>1, <2>1
<1> QED BY <1>2, <1>3, <1>4

(* An Add has sent its INCR if it had, or if this is that step. *)
LEMMA CountingStep ==
  ASSUME TypeOK, Shape, NEW p \in Procs, Step(p), NEW n \in Names, NEW q \in Procs, q \in Counting(n)'
  PROVE  q \in Counting(n) \/ (q = p /\ IncrFill(p) /\ req[p].name = n /\ intact[p])
<1>1. /\ pc'[q] # "idle" /\ req'[q].op = "add" /\ req'[q].name = n /\ intact'[q]
      /\ \/ pc'[q] = "append"
         \/ pc'[q] \in Loading /\ hnd'[q] # Nil
         \/ pc'[q] = "done" /\ res'[q] = "ok"
  BY DEF Counting, Stored
<1>2. CASE q # p
  <2>1. Untouched(q)
    BY <1>2, OthersUntouched
  <2>2. intact[q]
    <3>1. CASE DropKeys(p)
      BY <1>1, <3>1 DEF DropKeys, Forget
    <3>2. CASE ~ DropKeys(p)
      BY <1>1, <1>2, <3>2, OthersHistory
    <3> QED BY <3>1, <3>2
  <2> QED BY <1>1, <2>1, <2>2 DEF Untouched, Counting, Stored, Loading
<1>3. CASE q = p
  <2> USE DEF TypeOK, Finish, Goto, Counting, Stored, Loading
  <2>1. ASSUME NEW r \in Requests, Begin(p, r) PROVE FALSE
    <3>1. r.op = "add" /\ req' = [req EXCEPT ![p] = r]
      BY <1>1, <1>3, <2>1 DEF Begin
    <3>2. CASE hnd[p] = Nil
      BY <1>1, <1>3, <2>1, <3>1, <3>2 DEF Begin
    <3>3. CASE hnd[p] # Nil
      BY <1>1, <1>3, <2>1, <3>1, <3>3 DEF Begin, Enter, EntryLabel
    <3> QED BY <3>2, <3>3
  <2>2. ~ CreateStep(p) /\ ~ ExistsStep(p) /\ ~ DropStep(p)
    BY <1>1, <1>3 DEF CreateStep, CheckExisting, WriteMeta, WriteStage0, Register, ExistsStep, HitBit, MissBit,
       DropStep, DropKeys, Unregister, Shape, ShapeOf, Creating
  <2>3. ~ Fail(p) /\ ~ Return(p) /\ ~ SetNextBit(p)
    BY <1>1, <1>3 DEF Fail, Return, SetNextBit
  <2>4. CASE LoadMeta(p)
    BY <1>1, <1>3, <2>4 DEF LoadMeta
  <2>5. CASE LoadStage(p)
    BY <1>1, <1>3, <2>5 DEF LoadStage, histVars
  <2>6. CASE LoadFill(p)
    <3>1. req' = req /\ intact' = intact /\ pc[p] = "load_fill"
      BY <2>6 DEF LoadFill, histVars
    <3>2. hnd[p] # Nil
      BY <1>1, <1>3, <2>6, <3>1 DEF LoadFill, Enter, EntryLabel
    <3> QED BY <1>1, <1>3, <3>1, <3>2
  <2>7. CASE IncrFill(p)
    BY <1>1, <1>3, <2>7 DEF IncrFill, histVars
  <2>8. CASE AppendNewStage(p)
    BY <1>1, <1>3, <2>8 DEF AppendNewStage
  <2> QED BY <2>1, <2>2, <2>3, <2>4, <2>5, <2>6, <2>7, <2>8 DEF Step, Serve, LoadStep, AddStep
<1> QED BY <1>2, <1>3

(* What is acknowledged changes when an Add returns, or by a DEL. *)
LEMMA AckedStep ==
  ASSUME TypeOK, Shape, NEW p \in Procs, Step(p), NEW n \in Names, ~ (DropKeys(p) /\ hnd[p].name = n)
  PROVE  \/ acked'[n] = acked[n]
         \/ /\ Return(p) /\ p \in Counting(n) /\ p \notin Counting(n)'
            /\ acked'[n] = acked[n] \cup {req[p].item}
            /\ req[p].item \in Items
<1>1. CASE DropKeys(p)
  BY <1>1 DEF DropKeys, Forget, TypeOK
<1>2. CASE Return(p)
  <2>1. CASE Stores(p) /\ req[p].name = n
    <3>1. pc[p] = "done" /\ req[p] # Nil /\ p \in Counting(n)
      BY <1>2, <2>1 DEF Return, Stores, Counting, Stored, Shape, ShapeOf
    <3>2. req[p].item \in Items
      BY <2>1, <3>1, RequestTypes DEF Stores, TypeOK
    <3>3. pc'[p] = "idle" /\ acked'[n] = acked[n] \cup {req[p].item}
      BY <1>2, <2>1 DEF Return, TypeOK
    <3> QED BY <1>2, <3>1, <3>2, <3>3 DEF Counting
  <2>2. CASE ~ (Stores(p) /\ req[p].name = n)
    BY <1>2, <2>2 DEF Return, TypeOK
  <2> QED BY <2>1, <2>2
<1>3. CASE ~ DropKeys(p) /\ ~ Return(p)
  BY <1>3 DEF Step, Serve, Begin, CreateStep, CheckExisting, WriteMeta, WriteStage0, Register,
     LoadStep, LoadMeta, LoadStage, LoadFill, AddStep, SetNextBit, IncrFill, AppendNewStage,
     ExistsStep, HitBit, MissBit, DropStep, Unregister, Fail, histVars
<1> QED BY <1>1, <1>2, <1>3

(* The chain of a filter that is not deleted in a step. *)
LEMMA ChainGrows ==
  ASSUME TypeOK, TypeOK', Shape, NEW p \in Procs, Step(p), NEW n \in Names,
         ~ (DropKeys(p) /\ hnd[p].name = n), ~ clobbered'[n]
  PROVE  /\ ~ clobbered[n]
         /\ meta[n] # Nil => meta'[n] # Nil /\ meta[n].stage_count <= meta'[n].stage_count
<1>1. CASE DropKeys(p)
  <2>1. hnd[p].name # n /\ Del(hnd[p].name, DropStages(hnd[p]), DropShards(hnd[p])) /\ Forget(hnd[p].name)
    BY <1>1 DEF DropKeys
  <2>2. meta'[n] = meta[n] /\ clobbered'[n] = clobbered[n]
    BY <2>1 DEF Del, Forget, TypeOK, StoreTypeOK
  <2>3. meta[n] # Nil => meta[n].stage_count \in Int
    BY ChainTypes DEF TypeOK
  <2> QED BY <2>2, <2>3
<1>2. CASE ~ DropKeys(p)
  BY <1>2, StepExtends DEF Extends
<1> QED BY <1>1, <1>2

(* The marks stay where they are. *)
LEMMA MarksStay ==
  ASSUME TypeOK, TypeOK', Shape, NEW p \in Procs, Step(p), NEW n \in Names,
         ~ (DropKeys(p) /\ hnd[p].name = n), ~ clobbered'[n],
         NEW C \in [StageIdx -> SUBSET Marks], Tally(n, C)
  PROVE  /\ WithinCounters(n, C)'
         /\ \A k \in MarksOf(n) : meta'[n] # Nil /\ MarkedIn(k, C, 0, meta'[n].stage_count)
<1>1. ASSUME NEW i \in StageIdx PROVE IsFiniteSet(C[i]) /\ Cardinality(C[i]) <= fill'[n][i]
  <2>1. IsFiniteSet(C[i]) /\ Cardinality(C[i]) <= fill[n][i]
    BY DEF Tally, WithinCounters
  <2>2. Cardinality(C[i]) \in Nat
    BY <2>1, FS_CardinalityType
  <2> QED BY <2>1, <2>2, CountersGrow
<1>2. ASSUME NEW k \in MarksOf(n) PROVE meta'[n] # Nil /\ MarkedIn(k, C, 0, meta'[n].stage_count)
  <2>1. meta[n] # Nil /\ MarkedIn(k, C, 0, meta[n].stage_count)
    BY <1>2 DEF Tally
  <2>2. meta'[n] # Nil /\ meta[n].stage_count <= meta'[n].stage_count
    BY <2>1, ChainGrows
  <2>3. meta[n].stage_count \in Int /\ meta'[n].stage_count \in Int
    BY <2>1, <2>2 DEF TypeOK, StoreTypeOK, Meta
  <2>4. StageIdx \subseteq Int
    BY DEF StageIdx
  <2> QED BY <2>1, <2>2, <2>3, <2>4 DEF MarkedIn
<1> QED BY <1>1, <1>2 DEF WithinCounters

(* One mark more, and one in the place of another.                         *)
LEMMA MarkAdded ==
  ASSUME NEW S, IsFiniteSet(S), NEW k
  PROVE  /\ IsFiniteSet(S \cup {k}) /\ Cardinality(S) \in Nat
         /\ Cardinality(S \cup {k}) \in Nat /\ Cardinality(S \cup {k}) <= Cardinality(S) + 1
<1>1. /\ IsFiniteSet(S \cup {k})
      /\ Cardinality(S \cup {k}) = IF k \in S THEN Cardinality(S) ELSE Cardinality(S) + 1
  BY FS_AddElement
<1>2. Cardinality(S) \in Nat /\ Cardinality(S \cup {k}) \in Nat
  BY <1>1, FS_CardinalityType
<1> QED BY <1>1, <1>2

LEMMA MarkReplaced ==
  ASSUME NEW S, IsFiniteSet(S), NEW j \in S, NEW k
  PROVE  /\ IsFiniteSet((S \ {j}) \cup {k})
         /\ Cardinality((S \ {j}) \cup {k}) <= Cardinality(S)
<1>1. IsFiniteSet(S \ {j}) /\ Cardinality(S \ {j}) = Cardinality(S) - 1
  BY FS_RemoveElement
<1>2. Cardinality(S) \in Nat
  BY FS_CardinalityType
<1>3. PICK T : T = S \ {j}
  OBVIOUS
<1>4. /\ IsFiniteSet(T \cup {k}) /\ Cardinality(T) \in Nat
      /\ Cardinality(T \cup {k}) \in Nat /\ Cardinality(T \cup {k}) <= Cardinality(T) + 1
  BY <1>1, <1>3, MarkAdded
<1> QED BY <1>1, <1>2, <1>3, <1>4

(* INCR leaves the mark of its Add in the stage it counts. *)
LEMMA IncrTallies ==
  ASSUME TypeOK, TypeOK', Shape, Copies, NEW p \in Procs, IncrFill(p), Step(p), NEW n \in Names,
         req[p].name = n, intact[p], ~ clobbered'[n], ~ clobbered[n],
         NEW C \in [StageIdx -> SUBSET Marks], Tally(n, C)
  PROVE  \E D \in [StageIdx -> SUBSET Marks] : Tally(n, D)'
<1>1. PICK i : i = at[p]
  OBVIOUS
<1>2. /\ pc[p] = "incr" /\ hnd[p] # Nil /\ hnd[p].name = n /\ i = Len(hnd[p].stages) - 1
      /\ fill' = [fill EXCEPT ![n][i] = @ + 1]
      /\ UNCHANGED <<meta, acked>>
  BY <1>1 DEF IncrFill, Incr, Shape, ShapeOf, histVars, Adding
<1>3. i \in StageIdx /\ meta[n] # Nil /\ 0 <= i /\ i < meta[n].stage_count
  <2>1. Matches(n, hnd[p].stages)
    BY <1>2 DEF Copies, CopyOf, Sound
  <2>2. Len(hnd[p].stages) \in 1 .. MaxStages
    BY <1>2 DEF Shape, ShapeOf
  <2>3. meta[n].stage_count \in Int
    BY <2>1, ChainTypes DEF Matches, TypeOK
  <2> QED BY <1>2, <2>1, <2>2, <2>3, StoreAssumption DEF Matches, StageIdx
<1>4. PICK D \in [StageIdx -> SUBSET Marks] : D = [C EXCEPT ![i] = @ \cup {<<"add", p>>}]
  <2>1. <<"add", p>> \in Marks
    BY DEF Marks
  <2> QED BY <1>3, <2>1
<1>5. WithinCounters(n, D)'
  <2> SUFFICES ASSUME NEW j \in StageIdx PROVE IsFiniteSet(D[j]) /\ Cardinality(D[j]) <= fill'[n][j]
    BY DEF WithinCounters
  <2>1. IsFiniteSet(C[j]) /\ Cardinality(C[j]) <= fill[n][j] /\ Cardinality(C[j]) \in Nat
    BY FS_CardinalityType DEF Tally, WithinCounters
  <2>2. fill[n][j] \in Nat
    BY DEF TypeOK, StoreTypeOK
  <2>3. CASE j = i
    <3>1. D[j] = C[j] \cup {<<"add", p>>}
      BY <1>3, <1>4, <2>3
    <3>2. fill'[n][j] = fill[n][j] + 1
      BY <1>2, <1>3, <2>3 DEF TypeOK, StoreTypeOK
    <3>3. IsFiniteSet(D[j]) /\ Cardinality(D[j]) \in Nat /\ Cardinality(D[j]) <= Cardinality(C[j]) + 1
      BY <2>1, <3>1, MarkAdded
    <3> QED BY <2>1, <2>2, <3>2, <3>3
  <2>4. CASE j # i
    <3>1. D[j] = C[j] /\ fill'[n][j] = fill[n][j]
      BY <1>2, <1>3, <1>4, <2>4 DEF TypeOK, StoreTypeOK
    <3> QED BY <2>1, <3>1
  <2> QED BY <2>3, <2>4
<1>6. ASSUME NEW k \in MarksOf(n)' PROVE meta'[n] # Nil /\ MarkedIn(k, D, 0, meta'[n].stage_count)
  <2>0. <<"add", p>> \in D[i] /\ \A j \in StageIdx : C[j] \subseteq D[j]
    BY <1>3, <1>4
  <2>1. CASE k = <<"add", p>>
    BY <1>2, <1>3, <2>0, <2>1 DEF MarkedIn
  <2>2. CASE k # <<"add", p>>
    <3>1. k \in MarksOf(n)
      <4>1. CASE \E q \in Counting(n)' : k = <<"add", q>>
        <5>1. PICK q \in Counting(n)' : k = <<"add", q>>
          BY <4>1
        <5>2. q \in Procs
          BY DEF Counting
        <5>3. q \in Counting(n)
          BY <2>2, <5>1, <5>2, CountingStep
        <5> QED BY <5>1, <5>3 DEF MarksOf
      <4>2. CASE \E x \in acked'[n] : k = <<"item", x>>
        BY <1>2, <4>2 DEF MarksOf
      <4> QED BY <4>1, <4>2, <1>6 DEF MarksOf
    <3>2. meta[n] # Nil /\ MarkedIn(k, C, 0, meta[n].stage_count)
      BY <3>1 DEF Tally
    <3> QED BY <1>2, <2>0, <3>2 DEF MarkedIn
  <2> QED BY <2>1, <2>2
<1> QED BY <1>5, <1>6 DEF Tally

(* An Add that returns leaves its mark to its item. *)
LEMMA ReturnTallies ==
  ASSUME TypeOK, TypeOK', Shape, NEW p \in Procs, Return(p), Step(p), NEW n \in Names,
         p \in Counting(n), p \notin Counting(n)', acked'[n] = acked[n] \cup {req[p].item},
         req[p].item \in Items, ~ clobbered'[n],
         NEW C \in [StageIdx -> SUBSET Marks], Tally(n, C)
  PROVE  \E D \in [StageIdx -> SUBSET Marks] : Tally(n, D)'
<1>1. PICK x \in Items : x = req[p].item
  OBVIOUS
<1>2. ~ DropKeys(p)
  BY DEF Return, DropKeys
<1>3. <<"add", p>> \in MarksOf(n)
  BY DEF MarksOf
<1>4. PICK i \in StageIdx : 0 <= i /\ i < meta[n].stage_count /\ <<"add", p>> \in C[i]
  BY <1>3 DEF Tally, MarkedIn
<1>5. PICK D \in [StageIdx -> SUBSET Marks] :
        D = [C EXCEPT ![i] = (@ \ {<<"add", p>>}) \cup {<<"item", x>>}]
  <2>1. <<"item", x>> \in Marks
    BY DEF Marks
  <2> QED BY <2>1
<1>6. /\ WithinCounters(n, C)'
      /\ \A k \in MarksOf(n) : meta'[n] # Nil /\ MarkedIn(k, C, 0, meta'[n].stage_count)
  BY <1>2, MarksStay
<1>7. WithinCounters(n, D)'
  <2> SUFFICES ASSUME NEW j \in StageIdx PROVE IsFiniteSet(D[j]) /\ Cardinality(D[j]) <= fill'[n][j]
    BY DEF WithinCounters
  <2>1. IsFiniteSet(C[j]) /\ Cardinality(C[j]) <= fill'[n][j]
    BY <1>6 DEF WithinCounters
  <2>2. CASE j = i
    <3>1. D[j] = (C[j] \ {<<"add", p>>}) \cup {<<"item", x>>} /\ <<"add", p>> \in C[j]
      BY <1>4, <1>5, <2>2
    <3>2. IsFiniteSet(D[j]) /\ Cardinality(D[j]) <= Cardinality(C[j])
      <4>1. PICK m, k : m = <<"add", p>> /\ k = <<"item", x>>
        OBVIOUS
      <4>2. m \in C[j] /\ D[j] = (C[j] \ {m}) \cup {k}
        BY <3>1, <4>1
      <4>3. /\ IsFiniteSet((C[j] \ {m}) \cup {k})
            /\ Cardinality((C[j] \ {m}) \cup {k}) <= Cardinality(C[j])
        BY <2>1, <4>2, MarkReplaced
      <4> QED BY <4>2, <4>3
    <3>3. Cardinality(C[j]) \in Nat /\ Cardinality(D[j]) \in Nat /\ fill'[n][j] \in Nat
      BY <2>1, <3>2, FS_CardinalityType DEF TypeOK, StoreTypeOK
    <3> QED BY <2>1, <3>2, <3>3
  <2>3. CASE j # i
    BY <1>5, <2>1, <2>3
  <2> QED BY <2>2, <2>3
<1>8. ASSUME NEW k \in MarksOf(n)' PROVE meta'[n] # Nil /\ MarkedIn(k, D, 0, meta'[n].stage_count)
  <2>1. /\ <<"item", x>> \in D[i]
        /\ \A j \in StageIdx : \A m \in C[j] : m # <<"add", p>> => m \in D[j]
    BY <1>5
  <2>2. CASE k = <<"item", x>>
    <3>1. meta'[n] # Nil /\ meta[n].stage_count <= meta'[n].stage_count /\ meta[n] # Nil
      BY <1>2, <1>3, ChainGrows DEF Tally
    <3>2. meta[n].stage_count \in Int /\ meta'[n].stage_count \in Int /\ i \in Int
      BY <3>1 DEF TypeOK, StoreTypeOK, Meta, StageIdx
    <3>3. 0 <= i /\ i < meta'[n].stage_count
      BY <1>4, <3>1, <3>2
    <3> QED BY <2>1, <2>2, <3>1, <3>3 DEF MarkedIn
  <2>3. CASE k # <<"item", x>>
    <3>1. k \in MarksOf(n) /\ k # <<"add", p>>
      <4>1. CASE \E q \in Counting(n)' : k = <<"add", q>>
        <5>1. PICK q \in Counting(n)' : k = <<"add", q>>
          BY <4>1
        <5>2. q \in Procs /\ q # p
          BY DEF Counting
        <5>3. q \in Counting(n)
          BY <5>2, CountingStep
        <5> QED BY <5>1, <5>2, <5>3 DEF MarksOf
      <4>2. CASE \E y \in acked'[n] : k = <<"item", y>>
        BY <1>1, <2>3, <4>2 DEF MarksOf
      <4> QED BY <4>1, <4>2, <1>8 DEF MarksOf
    <3> QED BY <1>6, <2>1, <3>1 DEF MarkedIn
  <2> QED BY <2>2, <2>3
<1> QED BY <1>7, <1>8 DEF Tally

(* DEL takes every mark with the counters. *)
LEMMA DropTallies ==
  ASSUME TypeOK, TypeOK', Shape, NEW p \in Procs, DropKeys(p), Step(p), NEW n \in Names, hnd[p].name = n
  PROVE  \E D \in [StageIdx -> SUBSET Marks] : Tally(n, D)'
<1>1. PICK D \in [StageIdx -> SUBSET Marks] : D = [i \in StageIdx |-> {}]
  OBVIOUS
<1>2. Forget(n) /\ req' = req /\ hnd' = hnd
  BY DEF DropKeys
<1>3. MarksOf(n)' = {}
  <2>1. acked'[n] = {}
    BY <1>2 DEF Forget, TypeOK
  <2>2. ASSUME NEW q \in Counting(n)' PROVE FALSE
    <3>1. q \in Procs /\ intact'[q] /\ pc'[q] # "idle" /\ req'[q].name = n
      BY DEF Counting
    <3>2. req'[q] # Nil
      BY <3>1, StepShape DEF Shape, ShapeOf
    <3> QED BY <1>2, <3>1, <3>2 DEF Forget, Uses
  <2> QED BY <2>1, <2>2 DEF MarksOf
<1>4. WithinCounters(n, D)'
  BY <1>1, FS_EmptySet DEF WithinCounters, TypeOK, StoreTypeOK
<1> QED BY <1>3, <1>4 DEF Tally

LEMMA StepTallies ==
  ASSUME TypeOK, TypeOK', Shape, Copies, Tallies, NEW p \in Procs, Step(p)
  PROVE  Tallies'
<1> SUFFICES ASSUME NEW n \in Names, ~ clobbered'[n]
             PROVE  \E D \in [StageIdx -> SUBSET Marks] : Tally(n, D)'
  BY DEF Tallies
<1>1. CASE DropKeys(p) /\ hnd[p].name = n
  BY <1>1, DropTallies
<1>2. CASE ~ (DropKeys(p) /\ hnd[p].name = n)
  <2>1. ~ clobbered[n]
    BY <1>2, ChainGrows
  <2>2. PICK C \in [StageIdx -> SUBSET Marks] : Tally(n, C)
    BY <2>1 DEF Tallies
  <2>3. CASE IncrFill(p) /\ req[p].name = n /\ intact[p]
    BY <2>1, <2>2, <2>3, IncrTallies
  <2>4. CASE Return(p) /\ p \in Counting(n) /\ p \notin Counting(n)'
             /\ acked'[n] = acked[n] \cup {req[p].item} /\ req[p].item \in Items
    BY <2>2, <2>4, ReturnTallies
  <2>5. CASE ~ (IncrFill(p) /\ req[p].name = n /\ intact[p]) /\ acked'[n] = acked[n]
    <3>1. Counting(n)' \subseteq Counting(n)
      <4>1. Counting(n)' \subseteq Procs
        BY DEF Counting
      <4> QED BY <2>5, <4>1, CountingStep
    <3>2. MarksOf(n)' \subseteq MarksOf(n)
      BY <2>5, <3>1 DEF MarksOf
    <3> QED BY <1>2, <2>2, <3>2, MarksStay DEF Tally
  <2> QED BY <1>2, <2>3, <2>4, <2>5, AckedStep
<1> QED BY <1>1, <1>2

(* What a filter has acknowledged, its counters have counted, each item in *)
(* one stage of the chain: in every interleaving, with calls failing, until *)
(* a DEL or a creation over the filter.                                    *)
LEMMA TalliesHold == Spec => []Tallies
<1>1. Init => Tallies
  <2> SUFFICES ASSUME Init, NEW n \in Names PROVE \E D \in [StageIdx -> SUBSET Marks] : Tally(n, D)
    BY DEF Tallies
  <2>1. PICK D \in [StageIdx -> SUBSET Marks] : D = [i \in StageIdx |-> {}]
    OBVIOUS
  <2>2. acked[n] = {} /\ Counting(n) = {} /\ \A i \in StageIdx : fill[n][i] = 0
    BY DEF Init, Counting
  <2>3. MarksOf(n) = {}
    BY <2>2 DEF MarksOf
  <2> QED BY <2>1, <2>2, <2>3, FS_EmptySet DEF Tally, WithinCounters
<1>2. IInv /\ IInv' /\ Tallies /\ [Next]_vars => Tallies'
  <2>1. ASSUME IInv, IInv', Tallies, Next PROVE Tallies'
    BY <2>1, NextIsStep, StepTallies DEF IInv
  <2>2. ASSUME Tallies, UNCHANGED vars PROVE Tallies'
    BY <2>2 DEF vars, storeVars, procVars, histVars, Tallies, Tally, WithinCounters, MarksOf, Counting, Stored
  <2> QED BY <2>1, <2>2
<1> QED BY <1>1, <1>2, Invariance, PTL DEF Spec

-----------------------------------------------------------------------------
(* What a collection counts of them.                                       *)

(* The Load in progress has counted R of the marks of filter n and is to   *)
(* read the counters of the rest, each item owed being in either.          *)
LoadTally(n) ==
  \E R \in SUBSET Marks, C \in [StageIdx -> SUBSET Marks] :
    /\ IsFiniteSet(R) /\ Cardinality(R) <= gld.items
    /\ WithinCounters(n, C)
    /\ \A x \in owed[n] : <<"item", x>> \in R \/ MarkedIn(<<"item", x>>, C, gld.read, gld.count)

SamplingOf(n) ==
  /\ clobbered[n] => owed[n] = {}
  /\ owed[n] \subseteq acked[n]
  /\ gpc \in {"stage", "fill"} /\ cur = n => LoadTally(n)
  /\ samples[n] # Nil => IsFiniteSet(owed[n]) /\ Cardinality(owed[n]) <= samples[n]

Sampling == \A n \in whole : SamplingOf(n)

(* The filters go on: a filter still whole has lost no count. *)
LEMMA FilterStepSampling ==
  ASSUME TypeOK, TypeOK', Shape, Collecting, Sampling, FilterStep
  PROVE  Sampling'
<1>1. PICK p \in Procs : Step(p)
  BY NextIsStep DEF FilterStep
<1>2. /\ whole' = {n \in whole : meta'[n] # Nil /\ ~ clobbered'[n]}
      /\ owed' = [n \in Names |-> IF n \in whole' THEN owed[n] ELSE {}]
      /\ UNCHANGED <<cur, gpc, gld, samples>>
  BY DEF FilterStep, gaugeVars
<1> SUFFICES ASSUME NEW n \in whole' PROVE SamplingOf(n)'
  BY DEF Sampling
<1>3. n \in whole /\ n \in Names /\ meta'[n] # Nil /\ ~ clobbered'[n] /\ owed'[n] = owed[n] /\ SamplingOf(n)
  BY <1>2 DEF Collecting, Sampling
<1>4. ~ (DropKeys(p) /\ hnd[p].name = n)
  BY <1>3 DEF DropKeys, Del, TypeOK, StoreTypeOK
<1>5. acked[n] \subseteq acked'[n]
  BY <1>1, <1>3, <1>4, AckedStep
<1>6. ASSUME gpc' \in {"stage", "fill"}, cur' = n PROVE LoadTally(n)'
  <2>1. LoadTally(n)
    BY <1>2, <1>3, <1>6 DEF SamplingOf
  <2>2. PICK R \in SUBSET Marks, C \in [StageIdx -> SUBSET Marks] :
          /\ IsFiniteSet(R) /\ Cardinality(R) <= gld.items
          /\ WithinCounters(n, C)
          /\ \A x \in owed[n] : <<"item", x>> \in R \/ MarkedIn(<<"item", x>>, C, gld.read, gld.count)
    BY <2>1 DEF LoadTally
  <2>3. ASSUME NEW i \in StageIdx PROVE IsFiniteSet(C[i]) /\ Cardinality(C[i]) <= fill'[n][i]
    <3>1. IsFiniteSet(C[i]) /\ Cardinality(C[i]) <= fill[n][i]
      BY <2>2 DEF WithinCounters
    <3>2. Cardinality(C[i]) \in Nat
      BY <3>1, FS_CardinalityType
    <3> QED BY <1>1, <1>3, <1>4, <3>1, <3>2, CountersGrow
  <2>4. WithinCounters(n, C)'
    BY <2>3 DEF WithinCounters
  <2> QED BY <1>2, <1>3, <2>2, <2>4 DEF LoadTally, MarkedIn
<1> QED BY <1>2, <1>3, <1>5, <1>6 DEF SamplingOf

(* The registry is listed: what is owed is what is acknowledged. *)
LEMMA ListSampling ==
  ASSUME TypeOK, List \/ ListFails, UNCHANGED vars
  PROVE  Sampling'
<1>1. /\ owed' = Unclobbered /\ samples' = NoSamples /\ gpc' \in {"idle", "next"}
      /\ acked' = acked /\ clobbered' = clobbered
      /\ whole' \subseteq registry
  BY DEF List, ListFails, vars, histVars
<1>2. ASSUME NEW n \in Names
      PROVE  samples'[n] = Nil /\ (clobbered'[n] => owed'[n] = {}) /\ owed'[n] \subseteq acked'[n]
  BY <1>1 DEF NoSamples, Unclobbered
<1> QED BY <1>1, <1>2 DEF Sampling, SamplingOf, TypeOK, StoreTypeOK

(* What is not being loaded stays as it is. *)
LEMMA SamplingStays ==
  ASSUME NEW n \in whole, SamplingOf(n), UNCHANGED <<vars, whole, owed>>, samples'[n] = samples[n],
         ~ (gpc' \in {"stage", "fill"} /\ cur' = n)
  PROVE  SamplingOf(n)'
BY DEF SamplingOf, vars, histVars

(* HGETALL of a filter's hash: its marks are in the stages to be read. *)
LEMMA SampleMetaSampling ==
  ASSUME TypeOK, Collecting, Tallies, Sampling, SampleMeta, UNCHANGED vars
  PROVE  Sampling'
<1>1. UNCHANGED <<whole, owed, samples, acked, clobbered, meta, fill>> /\ gpc = "next"
  BY DEF SampleMeta, gaugeHist, vars, storeVars, histVars
<1> SUFFICES ASSUME NEW n \in whole PROVE SamplingOf(n)'
  BY <1>1 DEF Sampling
<1>2. SamplingOf(n) /\ n \in Names
  BY DEF Sampling, Collecting
<1>3. ASSUME gpc' \in {"stage", "fill"}, cur' = n PROVE LoadTally(n)'
  <2>1. meta[n] # Nil /\ gld' = [count |-> meta[n].stage_count, read |-> 0, items |-> 0]
    BY <1>3, ProceedLabel DEF SampleMeta
  <2>2. PICK C \in [StageIdx -> SUBSET Marks] :
          /\ WithinCounters(n, C)
          /\ \A x \in owed[n] : MarkedIn(<<"item", x>>, C, 0, meta[n].stage_count)
    <3>1. CASE clobbered[n]
      <4>1. PICK D \in [StageIdx -> SUBSET Marks] : D = [i \in StageIdx |-> {}]
        OBVIOUS
      <4>2. WithinCounters(n, D)
        BY <1>2, <4>1, FS_EmptySet DEF WithinCounters, TypeOK, StoreTypeOK
      <4> QED BY <1>2, <3>1, <4>2 DEF SamplingOf
    <3>2. CASE ~ clobbered[n]
      <4>1. PICK D \in [StageIdx -> SUBSET Marks] : Tally(n, D)
        BY <1>2, <3>2 DEF Tallies
      <4>2. \A x \in owed[n] : <<"item", x>> \in MarksOf(n)
        BY <1>2 DEF SamplingOf, MarksOf
      <4> QED BY <4>1, <4>2 DEF Tally
    <3> QED BY <3>1, <3>2
  <2>3. IsFiniteSet({}) /\ Cardinality({}) <= gld'.items
    BY <2>1, FS_EmptySet
  <2>4. gld'.read = 0 /\ gld'.count = meta[n].stage_count
    BY <2>1
  <2>5. WithinCounters(n, C)'
    BY <1>1, <2>2 DEF WithinCounters
  <2>6. \A x \in owed'[n] : MarkedIn(<<"item", x>>, C, gld'.read, gld'.count)
    BY <1>1, <2>2, <2>4
  <2> QED BY <2>3, <2>5, <2>6 DEF LoadTally, MarkedIn
<1> QED BY <1>1, <1>2, <1>3 DEF SamplingOf

(* A miss, a parse error or a failed call: no Load is in progress. *)
LEMMA SkipSampling ==
  ASSUME TypeOK, Collecting, Sampling, UNCHANGED vars,
         UNCHANGED <<whole, owed, samples>>, gpc' \in {"idle", "next"}
  PROVE  Sampling'
BY SamplingStays DEF Sampling

(* HGETALL of a stage's hash. *)
LEMMA SampleStageSampling ==
  ASSUME TypeOK, Collecting, Sampling, SampleStage, UNCHANGED vars
  PROVE  Sampling'
<1>1. UNCHANGED <<whole, owed, samples, cur>> /\ gpc = "stage"
  BY DEF SampleStage, gaugeHist
<1>2. CASE stageMeta[cur][gld.read] = Nil
  BY <1>1, <1>2, ProceedLabel, SkipSampling DEF SampleStage
<1>3. CASE stageMeta[cur][gld.read] # Nil
  <2>1. gld' = gld
    BY <1>3 DEF SampleStage
  <2> QED BY <1>1, <2>1 DEF Sampling, SamplingOf, LoadTally, WithinCounters, MarkedIn,
                            vars, histVars, storeVars
<1> QED BY <1>2, <1>3

(* As many items at most as there are marks of items. *)
LEMMA ItemsOfMarks ==
  ASSUME NEW R, IsFiniteSet(R), NEW O, \A x \in O : <<"item", x>> \in R
  PROVE  IsFiniteSet(O) /\ Cardinality(O) <= Cardinality(R)
<1>1. [x \in O |-> <<"item", x>>] \in Injection(O, R)
  BY DEF Injection, IsInjective
<1> QED BY <1>1, FS_Injection

(* GET of a counter: it shows the marks of its stage, and maybe more. *)
LEMMA SampleFillSampling ==
  ASSUME TypeOK, Collecting, Sampling, SampleFill, UNCHANGED vars
  PROVE  Sampling'
<1>1. UNCHANGED <<whole, owed, cur, fill>> /\ gpc = "fill"
  BY DEF SampleFill, gaugeHist, vars, storeVars
<1> SUFFICES ASSUME NEW n \in whole PROVE SamplingOf(n)'
  BY <1>1 DEF Sampling
<1>2. SamplingOf(n) /\ n \in Names
  BY DEF Sampling, Collecting
<1>3. /\ cur \in Names /\ gld.count \in 1 .. MaxStages /\ gld.read \in Nat /\ gld.items \in Nat
      /\ gld.read < gld.count /\ gld.read \in StageIdx
      /\ gld = [count |-> gld.count, read |-> gld.read, items |-> gld.items]
      /\ DOMAIN samples = Names
  BY <1>1, StoreAssumption DEF Collecting, StageIdx
<1>4. PICK items : items = gld.items + FillOf(cur, gld.read)
  OBVIOUS
<1>5. fill[cur][gld.read] \in Nat /\ items = gld.items + fill[cur][gld.read] /\ items \in Nat
  BY <1>3, <1>4 DEF TypeOK, StoreTypeOK, FillOf
<1>6. CASE cur # n
  <2>1. samples' = samples \/ samples' = [samples EXCEPT ![cur] = items]
    BY <1>4 DEF SampleFill
  <2>2. samples'[n] = samples[n]
    BY <1>2, <1>3, <1>6, <2>1
  <2> QED BY <1>1, <1>2, <1>6, <2>2, SamplingStays
<1>7. CASE cur = n
  <2>1. PICK R \in SUBSET Marks, C \in [StageIdx -> SUBSET Marks] :
          /\ IsFiniteSet(R) /\ Cardinality(R) <= gld.items
          /\ WithinCounters(n, C)
          /\ \A x \in owed[n] : <<"item", x>> \in R \/ MarkedIn(<<"item", x>>, C, gld.read, gld.count)
    BY <1>1, <1>2, <1>7 DEF SamplingOf, LoadTally
  <2>2. PICK Q \in SUBSET Marks : Q = R \cup C[gld.read]
    BY <1>3
  <2>3. IsFiniteSet(Q) /\ Cardinality(Q) \in Nat /\ Cardinality(Q) <= items
    <3>1. PICK S : S = C[gld.read]
      OBVIOUS
    <3>2. IsFiniteSet(S) /\ Cardinality(S) <= fill[cur][gld.read]
      BY <1>3, <1>7, <2>1, <3>1 DEF WithinCounters
    <3>3. /\ IsFiniteSet(R \cup S)
          /\ Cardinality(R \cup S) = Cardinality(R) + Cardinality(S) - Cardinality(R \cap S)
      BY <2>1, <3>2, FS_Union
    <3>4. IsFiniteSet(R \cap S)
      BY <2>1, FS_Subset
    <3>5. /\ Cardinality(R) \in Nat /\ Cardinality(S) \in Nat /\ Cardinality(R \cap S) \in Nat
          /\ Cardinality(R \cup S) \in Nat
      BY <2>1, <3>2, <3>3, <3>4, FS_CardinalityType
    <3> QED BY <1>3, <1>5, <2>1, <2>2, <3>1, <3>2, <3>3, <3>5
  <2>4. \A x \in owed[n] : <<"item", x>> \in Q \/ MarkedIn(<<"item", x>>, C, gld.read + 1, gld.count)
    <3> SUFFICES ASSUME NEW x \in owed[n], <<"item", x>> \notin R, <<"item", x>> \notin C[gld.read]
        PROVE  MarkedIn(<<"item", x>>, C, gld.read + 1, gld.count)
      BY <2>2
    <3>1. PICK i \in StageIdx : gld.read <= i /\ i < gld.count /\ <<"item", x>> \in C[i]
      BY <2>1 DEF MarkedIn
    <3>2. i # gld.read
      BY <3>1
    <3>3. gld.read + 1 <= i
      BY <1>3, <3>1, <3>2 DEF StageIdx
    <3> QED BY <3>1, <3>3 DEF MarkedIn
  <2>5. CASE gld.read + 1 < gld.count
    <3>1. gld' = [gld EXCEPT !.read = @ + 1, !.items = items] /\ samples' = samples
      BY <1>4, <2>5 DEF SampleFill
    <3>2. gld' = [count |-> gld.count, read |-> gld.read + 1, items |-> items]
      BY <1>3, <3>1
    <3>3. gld'.count = gld.count /\ gld'.read = gld.read + 1 /\ gld'.items = items
      BY <3>2
    <3>4. WithinCounters(n, C)'
      BY <1>1, <2>1 DEF WithinCounters
    <3>5. LoadTally(n)'
      <4>1. IsFiniteSet(Q) /\ Cardinality(Q) <= gld'.items
        BY <2>3, <3>3
      <4>2. \A x \in owed'[n] : <<"item", x>> \in Q \/ MarkedIn(<<"item", x>>, C, gld'.read, gld'.count)
        BY <1>1, <2>4, <3>3
      <4> QED BY <3>4, <4>1, <4>2 DEF LoadTally, MarkedIn
    <3> QED BY <1>1, <1>2, <3>1, <3>5 DEF SamplingOf, vars, histVars
  <2>6. CASE ~ (gld.read + 1 < gld.count)
    <3>1. samples' = [samples EXCEPT ![cur] = items] /\ gpc' \in {"idle", "next"}
      BY <1>4, <2>6, ProceedLabel DEF SampleFill
    <3>2. ASSUME NEW x \in owed[n] PROVE <<"item", x>> \in Q
      <4>1. ASSUME NEW i \in StageIdx, gld.read + 1 <= i, i < gld.count PROVE FALSE
        <5>1. gld.read \in Int /\ gld.count \in Int /\ i \in Int
          BY <1>3 DEF StageIdx
        <5> QED BY <2>6, <4>1, <5>1
      <4> QED BY <2>4, <4>1 DEF MarkedIn
    <3>3. IsFiniteSet(owed[n]) /\ Cardinality(owed[n]) <= Cardinality(Q)
      BY <2>3, <3>2, ItemsOfMarks
    <3>4. Cardinality(owed[n]) \in Nat
      BY <3>3, FS_CardinalityType
    <3>5. IsFiniteSet(owed'[n]) /\ Cardinality(owed'[n]) <= samples'[n]
      BY <1>1, <1>2, <1>3, <1>5, <1>7, <2>3, <3>1, <3>3, <3>4
    <3> QED BY <1>1, <1>2, <3>1, <3>5 DEF SamplingOf, vars, histVars
  <2> QED BY <2>5, <2>6
<1> QED BY <1>6, <1>7

(* A sample counts every item acknowledged before the collection began,    *)
(* though adders grow the filter while its stages are read, and filters    *)
(* are deleted and created meanwhile (service.go FilterSamples, estimate.go *)
(* Items).                                                                 *)
THEOREM SamplesCountEveryItem == GaugeSpec => []SamplesCountAcked
<1>1. GaugeInit => Sampling
  BY DEF GaugeInit, Sampling
<1>2. IInv /\ IInv' /\ Tallies /\ Collecting /\ Collecting' /\ Sampling
        /\ [GaugeNext]_<<vars, gaugeVars, gaugeHist>> => Sampling'
  <2>1. ASSUME TypeOK, TypeOK', Shape, Tallies, Collecting, Sampling, GaugeNext PROVE Sampling'
    <3>1. CASE SampleFails /\ UNCHANGED vars
      BY <2>1, <3>1, ProceedLabel, SkipSampling DEF SampleFails
    <3> QED BY <2>1, <3>1, FilterStepSampling, ListSampling, SampleMetaSampling, SampleStageSampling,
               SampleFillSampling DEF GaugeNext, Collect
  <2>2. ASSUME Sampling, UNCHANGED <<vars, gaugeVars, gaugeHist>> PROVE Sampling'
    BY <2>2 DEF vars, storeVars, histVars, gaugeVars, gaugeHist, Sampling, SamplingOf, LoadTally,
                WithinCounters, MarkedIn
  <2> QED BY <2>1, <2>2 DEF IInv
<1>3. Sampling /\ IInv /\ Collecting => SamplesCountAcked
  <2> SUFFICES ASSUME Sampling, NEW n \in whole, samples[n] # Nil
      PROVE  samples[n] >= Cardinality(owed[n])
    BY DEF SamplesCountAcked
  <2> QED BY DEF Sampling, SamplingOf
<1> QED BY <1>1, <1>2, <1>3, GaugesServe, Invariance, TalliesHold, CollectionOwed, PTL DEF GaugeSpec
=============================================================================
