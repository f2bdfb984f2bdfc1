---------------------------- MODULE FilterProofs ----------------------------
(***************************************************************************)
(* What BloomFilter keeps for every value of the constants.  First type    *)
(* correctness, by way of Shape, what a process knows at each of its       *)
(* labels: the types of the stages and bits an action reaches for depend   *)
(* on where it stands.  Then zero false negatives: IInv is an invariant,   *)
(* and with it AckedItemsHeld and NoFalseNegatives.                        *)
(***************************************************************************)
EXTENDS FilterInvariant, TLAPS

-----------------------------------------------------------------------------
(* Facts about the data.                                                   *)

(* The fields of a request have their types, by operation. *)
LEMMA RequestTypes ==
  ASSUME NEW r \in Requests
  PROVE  /\ r # Nil
         /\ r.name \in Names
         /\ r.op \in {"create", "add", "exists", "stats", "delete"}
         /\ r.op = "create" => r.par \in Params
         /\ r.op \in {"add", "exists"} => r.item \in Items
BY FilterAssumption DEF Requests, CreateRequests, ItemRequests, NameRequests

(* The bits of an item in a stage exist. *)
LEMMA PositionsType ==
  ASSUME NEW x \in Items, NEW st \in Stages
  PROVE  Positions(x, st) \subseteq Bits /\ Positions(x, st) # {}
BY FilterAssumption

(* computeStage returns a stage whenever the index is in range. *)
LEMMA StageType ==
  ASSUME NEW par \in Params, NEW i \in StageIdx
  PROVE  computeStage(par, i) \in Stages
BY DEF computeStage, Stages

(* A stage that can be sized is within the bound on stages. *)
LEMMA SizableInRange ==
  ASSUME NEW par \in Params, NEW i \in Nat, Sizable(par, i)
  PROVE  i \in StageIdx /\ i + 1 \in 1 .. MaxStages
BY StoreAssumption, FilterAssumption DEF Sizable, StageIdx

(* A Filter with stages: its last one, and the index of that. *)
LEMMA HandleTypes ==
  ASSUME NEW h \in Handles, Len(h.stages) \in 1 .. MaxStages
  PROVE  /\ h.name \in Names
         /\ h.par \in Params
         /\ h.stages \in Seq(Stages)
         /\ Len(h.stages) - 1 \in StageIdx
         /\ Last(h.stages) \in Stages
         /\ \A i \in 1 .. Len(h.stages) : h.stages[i] \in Stages
BY StoreAssumption DEF Handles, StageIdx, Last

-----------------------------------------------------------------------------
(* A step of process p leaves every other process alone.                   *)

Untouched(q) ==
  /\ pc'[q] = pc[q]
  /\ req'[q] = req[q]
  /\ ld'[q] = ld[q]
  /\ hnd'[q] = hnd[q]
  /\ at'[q] = at[q]
  /\ todo'[q] = todo[q]
  /\ res'[q] = res[q]

Step(p) == (\E r \in Requests : Begin(p, r)) \/ Serve(p) \/ Fail(p)

(* Next is a step of some process. *)
LEMMA NextIsStep == Next <=> \E p \in Procs : Step(p)
BY DEF Next, Step, BeginCreate, BeginItemOp, BeginNameOp, Requests

(* A step of p changes the labels, requests and copies of no other         *)
(* process.                                                                *)
LEMMA OthersUntouched ==
  ASSUME TypeOK, NEW p \in Procs, NEW q \in Procs \ {p}, Step(p)
  PROVE  Untouched(q)
<1> USE DEF Untouched, TypeOK, Finish, Goto
<1>1. ASSUME NEW r \in Requests, Begin(p, r) PROVE Untouched(q)
  BY <1>1 DEF Begin, Enter
<1>2. CASE CreateStep(p)
  BY <1>2 DEF CreateStep, CheckExisting, WriteMeta, WriteStage0, Register
<1>3. CASE LoadMeta(p) BY <1>3 DEF LoadMeta
<1>4. CASE LoadStage(p) BY <1>4 DEF LoadStage
<1>5. CASE LoadFill(p) BY <1>5 DEF LoadFill, Enter
<1>6. CASE SetNextBit(p) BY <1>6 DEF SetNextBit
<1>7. CASE IncrFill(p) BY <1>7 DEF IncrFill
<1>8. CASE AppendNewStage(p) BY <1>8 DEF AppendNewStage
<1>9. CASE ExistsStep(p) BY <1>9 DEF ExistsStep, HitBit, MissBit
<1>10. CASE DropStep(p) BY <1>10 DEF DropStep, DropKeys, Unregister
<1>11. CASE Fail(p) BY <1>11 DEF Fail
<1>12. CASE Return(p) BY <1>12 DEF Return
<1> QED BY <1>1, <1>2, <1>3, <1>4, <1>5, <1>6, <1>7, <1>8, <1>9, <1>10, <1>11, <1>12
        DEF Step, Serve, LoadStep, AddStep

-----------------------------------------------------------------------------
(* TypeOK.                                                                  *)

(* A request that arrives (filterService, or a kept Filter's method) keeps *)
(* every variable in its type.                                             *)
LEMMA BeginType ==
  ASSUME TypeOK, Shape, NEW p \in Procs, NEW r \in Requests, Begin(p, r)
  PROVE  TypeOK'
<1>1. /\ pc' \in [Procs -> Labels]
      /\ res' \in [Procs -> Outcomes]
      /\ hnd' \in [Procs -> Handles \cup {Nil}]
  <2>1. CASE hnd[p] = Nil
    BY <2>1 DEF Begin, Goto, TypeOK, Labels
  <2>2. CASE hnd[p] # Nil
    <3>1. r.op \in {"add", "exists", "stats", "delete"} /\ Enter(p, r, hnd[p])
      BY <2>2, RequestTypes DEF Begin
    <3>2. EntryLabel[r.op] \in Labels
      BY <3>1 DEF EntryLabel, Labels
    <3> QED BY <2>2, <3>1, <3>2 DEF Enter, TypeOK, Outcomes
  <2> QED BY <2>1, <2>2
<1>2. at' \in [Procs -> StageIdx] /\ todo' \in [Procs -> SUBSET Bits]
  <2>1. CASE hnd[p] = Nil BY <2>1 DEF Begin, TypeOK
  <2>2. CASE hnd[p] # Nil
    <3>1. hnd[p] \in Handles /\ Len(hnd[p].stages) \in 1 .. MaxStages
      BY <2>2 DEF TypeOK, Shape, ShapeOf
    <3>2. Len(hnd[p].stages) - 1 \in StageIdx /\ Last(hnd[p].stages) \in Stages
      BY <3>1, HandleTypes
    <3>3. r.op \in {"add", "exists"} => Positions(r.item, Last(hnd[p].stages)) \subseteq Bits
      BY <3>2, RequestTypes, PositionsType
    <3> QED BY <2>2, <3>2, <3>3 DEF Begin, Enter, TypeOK
  <2> QED BY <2>1, <2>2
<1>3. req' \in [Procs -> Requests \cup {Nil}]
  BY DEF Begin, TypeOK
<1>4. due' \in [Procs -> SUBSET Items] /\ floor' \in [Procs -> [StageIdx -> Nat]]
  <2>1. Promise(p, r) \subseteq Items
    BY RequestTypes DEF Promise, HeldItems, TypeOK
  <2> QED BY <2>1, RequestTypes DEF Begin, TypeOK, StoreTypeOK
<1>5. adds' \in 0 .. MaxAdds
  BY FilterAssumption DEF Begin, TypeOK
<1>6. StoreTypeOK'
  BY DEF Begin, TypeOK, StoreTypeOK, storeVars
<1> QED BY <1>1, <1>2, <1>3, <1>4, <1>5, <1>6 DEF Begin, TypeOK

(* So does every step of New.                                              *)
LEMMA CreateType ==
  ASSUME TypeOK, Shape, NEW p \in Procs, CreateStep(p)
  PROVE  TypeOK'
<1>0. req[p] \in Requests /\ req[p].op = "create"
  BY DEF CreateStep, CheckExisting, WriteMeta, WriteStage0, Register, TypeOK, Shape, ShapeOf, Creating
<1>1. req[p].name \in Names /\ req[p].par \in Params
  BY <1>0, RequestTypes
<1>2. 0 \in StageIdx /\ 1 \in 1 .. MaxStages
  BY StoreAssumption DEF StageIdx
<1>3. computeStage(req[p].par, 0) \in Stages
  BY <1>1, <1>2, StageType
<1>4. CASE CheckExisting(p)
  BY <1>4 DEF CheckExisting, TypeOK, StoreTypeOK, storeVars, histVars, Finish, Goto, Labels, Outcomes
<1>5. CASE WriteMeta(p)
  BY <1>1, <1>2, <1>5 DEF WriteMeta, HSetMeta, Meta, TypeOK, StoreTypeOK, Goto, Labels
<1>6. CASE WriteStage0(p)
  <2>1. computeStage(req[p].par, 0).index = 0 BY DEF computeStage
  <2> QED BY <1>1, <1>2, <1>3, <1>6, <2>1
          DEF WriteStage0, HSetStage, TypeOK, StoreTypeOK, Goto, Labels
<1>7. CASE Register(p)
  <2>1. [name |-> req[p].name, par |-> req[p].par,
         stages |-> <<computeStage(req[p].par, 0)>>] \in Handles
    BY <1>1, <1>3 DEF Handles
  <2> QED BY <1>1, <1>7, <2>1
          DEF Register, SAdd, TypeOK, StoreTypeOK, histVars, Finish, Labels, Outcomes
<1> QED BY <1>4, <1>5, <1>6, <1>7 DEF CreateStep

(* So does every step of Load: it reads no stage beyond stage_count.       *)
LEMMA LoadType ==
  ASSUME TypeOK, Shape, NEW p \in Procs, LoadStep(p)
  PROVE  TypeOK'
<1>0. req[p] \in Requests /\ pc[p] # "idle"
  BY DEF LoadStep, LoadMeta, LoadStage, LoadFill, TypeOK, Shape, ShapeOf, Loading
<1>1. req[p].name \in Names
  BY <1>0, RequestTypes
<1>2. CASE LoadMeta(p)
  <2>1. meta[req[p].name] # Nil =>
          [par |-> meta[req[p].name].par, count |-> meta[req[p].name].stage_count,
           stages |-> <<>>, fills |-> <<>>] \in Loads
    BY <1>1 DEF TypeOK, StoreTypeOK, Meta, Loads
  <2> QED BY <1>1, <1>2, <2>1
          DEF LoadMeta, TypeOK, StoreTypeOK, storeVars, Finish, Goto, Labels, Outcomes
<1>3. CASE LoadStage(p)
  <2>1. /\ ld[p] \in Loads
        /\ Len(ld[p].stages) < ld[p].count
    BY <1>3 DEF LoadStage, TypeOK, Shape, ShapeOf
  <2>2. Len(ld[p].stages) \in StageIdx
    BY <2>1, StoreAssumption DEF Loads, StageIdx
  <2>3. ASSUME NEW st \in Stages
        PROVE  [ld[p] EXCEPT !.stages = Append(@, st)] \in Loads
    <3>1. ld[p].stages \in Seq(Stages) BY <2>1 DEF Loads
    <3>2. Append(ld[p].stages, st) \in Seq(Stages) BY <3>1
    <3> QED BY <2>1, <3>2 DEF Loads
  <2>4. stageMeta[req[p].name][Len(ld[p].stages)] \in Stages \cup {Nil}
    BY <1>1, <2>2 DEF TypeOK, StoreTypeOK
  <2>5. ld' \in [Procs -> Loads \cup {Nil}]
    <3>1. ld \in [Procs -> Loads \cup {Nil}]
      BY DEF TypeOK
    <3>2. \/ ld' = ld
          \/ \E st \in Stages : ld' = [ld EXCEPT ![p] = [ld[p] EXCEPT !.stages = Append(@, st)]]
      BY <1>3, <2>4, <3>1 DEF LoadStage
    <3> QED BY <2>3, <3>1, <3>2
  <2>6. StoreTypeOK'
    BY <1>3 DEF LoadStage, TypeOK, StoreTypeOK, storeVars
  <2>7. pc' \in [Procs -> Labels] /\ res' \in [Procs -> Outcomes]
    BY <1>3 DEF LoadStage, TypeOK, Finish, Goto, Labels, Outcomes
  <2> QED BY <1>3, <2>5, <2>6, <2>7 DEF LoadStage, TypeOK, histVars
<1>4. CASE LoadFill(p)
  <2> DEFINE i == Len(ld[p].stages) - 1
  <2>1. /\ ld[p] \in Loads
        /\ Len(ld[p].stages) \in 1 .. ld[p].count
        /\ hnd[p] # Nil => req[p].op = "add"
        /\ req[p].op # "create"
    BY <1>4 DEF LoadFill, TypeOK, Shape, ShapeOf, Loading
  <2>2. i \in StageIdx /\ Len(ld[p].stages) \in 1 .. MaxStages
    BY <2>1, StoreAssumption DEF Loads, StageIdx
  <2>3. ld' \in [Procs -> Loads \cup {Nil}]
    <3>1. FillOf(req[p].name, i) \in Nat
      BY <1>1, <2>2 DEF FillOf, TypeOK, StoreTypeOK
    <3>2. Append(ld[p].fills, FillOf(req[p].name, i)) \in Seq(Nat)
      BY <2>1, <3>1 DEF Loads
    <3>3. ASSUME NEW f \in Seq(Nat)
          PROVE  [ld[p] EXCEPT !.fills = f] \in Loads
      BY <2>1 DEF Loads
    <3>4. ld[p].fills \in Seq(Nat)
      BY <2>1 DEF Loads
    <3> QED BY <1>4, <3>2, <3>3, <3>4 DEF LoadFill, TypeOK
  <2>4. CASE Len(ld[p].stages) < ld[p].count
    BY <1>4, <2>3, <2>4
       DEF LoadFill, TypeOK, StoreTypeOK, storeVars, histVars, Goto, Labels
  <2>5. CASE ~ (Len(ld[p].stages) < ld[p].count) /\ hnd[p] = Nil
    <3> DEFINE h == [name |-> req[p].name, par |-> ld[p].par, stages |-> ld[p].stages]
    <3>1. h \in Handles /\ Len(h.stages) \in 1 .. MaxStages
      BY <1>1, <2>1, <2>2 DEF Handles, Loads
    <3>2. Len(h.stages) - 1 \in StageIdx /\ Last(h.stages) \in Stages
      BY <3>1, HandleTypes
    <3>3. req[p].op \in {"add", "exists"} => Positions(req[p].item, Last(h.stages)) \subseteq Bits
      BY <1>0, <3>2, RequestTypes, PositionsType
    <3>4. Enter(p, req[p], h)
      BY <1>4, <2>5 DEF LoadFill
    <3> HIDE DEF h
    <3>5. /\ at' \in [Procs -> StageIdx] /\ todo' \in [Procs -> SUBSET Bits]
          /\ hnd' \in [Procs -> Handles \cup {Nil}]
      BY <3>1, <3>2, <3>3, <3>4 DEF Enter, TypeOK
    <3>6. pc' \in [Procs -> Labels] /\ res' \in [Procs -> Outcomes]
      BY <1>0, <2>1, <3>4, RequestTypes DEF Enter, EntryLabel, TypeOK, Labels, Outcomes
    <3>7. StoreTypeOK'
      BY <1>4 DEF LoadFill, TypeOK, StoreTypeOK, storeVars
    <3> QED BY <1>4, <2>3, <3>5, <3>6, <3>7 DEF LoadFill, TypeOK, histVars
  <2>6. CASE ~ (Len(ld[p].stages) < ld[p].count) /\ hnd[p] # Nil
    <3>1. hnd' = [hnd EXCEPT ![p].stages = ld[p].stages] /\ Finish(p, "ok") /\ UNCHANGED <<at, todo>>
      BY <1>4, <2>6 DEF LoadFill
    <3>2. hnd' \in [Procs -> Handles \cup {Nil}]
      <4>1. hnd \in [Procs -> Handles \cup {Nil}] /\ hnd[p] \in Handles
        BY <2>6 DEF TypeOK
      <4>2. ld[p].stages \in Seq(Stages)
        BY <2>1 DEF Loads
      <4>3. [hnd[p] EXCEPT !.stages = ld[p].stages] \in Handles
        BY <4>1, <4>2 DEF Handles
      <4> QED BY <3>1, <4>1, <4>3
    <3>3. StoreTypeOK'
      BY <1>4 DEF LoadFill, TypeOK, StoreTypeOK, storeVars
    <3>4. pc' \in [Procs -> Labels] /\ res' \in [Procs -> Outcomes]
      BY <3>1 DEF TypeOK, Finish, Labels, Outcomes
    <3> QED BY <1>4, <2>3, <3>1, <3>2, <3>3, <3>4 DEF LoadFill, TypeOK, histVars
  <2> QED BY <2>4, <2>5, <2>6
<1> QED BY <1>2, <1>3, <1>4 DEF LoadStep

(* Where Add and Exists work, and on what. *)
LEMMA AtWork ==
  ASSUME TypeOK, Shape, NEW p \in Procs, pc[p] \in {"set_bits", "incr", "append", "get_bits"}
  PROVE  /\ hnd[p] \in Handles
         /\ Len(hnd[p].stages) \in 1 .. MaxStages
         /\ req[p] \in Requests
         /\ req[p].op \in {"add", "exists"}
         /\ req[p].item \in Items
         /\ req[p].name = hnd[p].name
         /\ hnd[p].name \in Names
<1>1. hnd[p] # Nil /\ req[p] # Nil /\ req[p].op \in {"add", "exists"}
  BY DEF Shape, ShapeOf, Adding
<1>2. hnd[p] \in Handles /\ req[p] \in Requests
  BY <1>1 DEF TypeOK
<1>3. Len(hnd[p].stages) \in 1 .. MaxStages /\ req[p].name = hnd[p].name
  BY <1>1 DEF Shape, ShapeOf
<1> QED BY <1>1, <1>2, <1>3, RequestTypes

(* The compare-and-append keeps the store well-typed. *)
LEMMA AppendStageType ==
  ASSUME StoreTypeOK, NEW n \in Names, NEW i \in StageIdx, i + 1 \in 1 .. MaxStages,
         NEW st \in Stages, AppendStage(n, i, st)
  PROVE  StoreTypeOK'
<1>1. CASE AppendWins(n, i)
  <2>1. meta[n] \in Meta /\ meta[n].stage_count = i
    BY <1>1 DEF AppendWins, StoreTypeOK
  <2>2. [meta[n] EXCEPT !.stage_count = @ + 1] \in Meta
    BY <2>1 DEF Meta
  <2>3. meta' \in [Names -> Meta \cup {Nil}]
    BY <1>1, <2>2 DEF AppendStage, StoreTypeOK
  <2>4. stageMeta' \in [Names -> [StageIdx -> Stages \cup {Nil}]]
    <3>1. stageMeta' = [stageMeta EXCEPT ![n] = [stageMeta[n] EXCEPT ![i] = st]]
      BY <1>1 DEF AppendStage
    <3>2. [stageMeta[n] EXCEPT ![i] = st] \in [StageIdx -> Stages \cup {Nil}]
      BY DEF StoreTypeOK
    <3> QED BY <3>1, <3>2 DEF StoreTypeOK
  <2> QED BY <1>1, <2>3, <2>4 DEF AppendStage, StoreTypeOK
<1>2. CASE ~ AppendWins(n, i)
  BY <1>2 DEF AppendStage, StoreTypeOK, storeVars
<1> QED BY <1>1, <1>2

(* So does every step of Add, appendNewStage included.                     *)
LEMMA AddType ==
  ASSUME TypeOK, Shape, NEW p \in Procs, AddStep(p)
  PROVE  TypeOK'
<1>0. pc[p] \in {"set_bits", "incr", "append"}
  BY DEF AddStep, SetNextBit, IncrFill, AppendNewStage
<1>1. /\ hnd[p] \in Handles
      /\ Len(hnd[p].stages) \in 1 .. MaxStages
      /\ hnd[p].name \in Names
      /\ hnd[p].par \in Params
      /\ hnd[p].stages \in Seq(Stages)
      /\ at[p] \in StageIdx
      /\ todo[p] \subseteq Bits
  BY <1>0, AtWork, HandleTypes DEF TypeOK
<1>2. CASE SetNextBit(p)
  <2>1. PICK b \in todo[p] :
          /\ SetBit(hnd[p].name, at[p], b)
          /\ todo' = [todo EXCEPT ![p] = @ \ {b}]
          /\ Goto(p, IF Done(todo[p], b) THEN "incr" ELSE "set_bits")
    BY <1>2 DEF SetNextBit, NextBits
  <2>2. StoreTypeOK'
    BY <1>1, <2>1 DEF SetBit, TypeOK, StoreTypeOK
  <2> QED BY <1>1, <1>2, <2>1, <2>2
          DEF SetNextBit, TypeOK, histVars, Goto, Labels
<1>3. CASE IncrFill(p)
  <2>1. StoreTypeOK'
    BY <1>1, <1>3 DEF IncrFill, Incr, TypeOK, StoreTypeOK
  <2> QED BY <1>3, <2>1
          DEF IncrFill, TypeOK, histVars, Finish, Goto, Labels, Outcomes
<1>4. CASE AppendNewStage(p)
  <2> DEFINE idx == Len(hnd[p].stages)
             st == computeStage(hnd[p].par, idx)
  <2>1. idx \in StageIdx /\ idx + 1 \in 1 .. MaxStages
    BY <1>1, <1>4, SizableInRange DEF AppendNewStage, Shape, ShapeOf
  <2>2. st \in Stages
    BY <1>1, <2>1, StageType
  <2> HIDE DEF st
  <2>3. StoreTypeOK'
    <3>1. AppendStage(hnd[p].name, idx, st)
      BY <1>4 DEF AppendNewStage, st
    <3> QED BY <1>1, <2>1, <2>2, <3>1, AppendStageType DEF TypeOK
  <2>4. hnd' \in [Procs -> Handles \cup {Nil}]
    <3>1. Append(hnd[p].stages, st) \in Seq(Stages)
      BY <1>1, <2>2
    <3>2. [hnd[p] EXCEPT !.stages = Append(@, st)] \in Handles
      BY <1>1, <3>1 DEF Handles
    <3>3. hnd' = hnd \/ hnd' = [hnd EXCEPT ![p].stages = Append(@, st)]
      BY <1>4 DEF AppendNewStage, st
    <3> QED BY <3>2, <3>3 DEF TypeOK
  <2>5. /\ pc' \in [Procs -> Labels]
        /\ res' \in [Procs -> Outcomes]
        /\ intact' \in [Procs -> BOOLEAN]
        /\ due' \in [Procs -> SUBSET Items]
    BY <1>4 DEF AppendNewStage, TypeOK, Finish, Goto, Labels, Outcomes
  <2>6. UNCHANGED <<req, ld, at, todo, acked, clobbered, floor, adds>>
    BY <1>4 DEF AppendNewStage
  <2> QED BY <2>3, <2>4, <2>5, <2>6 DEF TypeOK
<1> QED BY <1>2, <1>3, <1>4 DEF AddStep

(* So does every step of Exists: it goes down no further than stage 0.     *)
LEMMA ExistsType ==
  ASSUME TypeOK, Shape, NEW p \in Procs, ExistsStep(p)
  PROVE  TypeOK'
<1>1. StoreTypeOK'
  <2>1. UNCHANGED storeVars
    BY DEF ExistsStep, HitBit, MissBit
  <2> QED BY <2>1 DEF TypeOK, StoreTypeOK, storeVars
<1>2. CASE HitBit(p)
  <2>1. pc' \in [Procs -> Labels] /\ res' \in [Procs -> Outcomes]
    BY <1>2 DEF HitBit, TypeOK, Finish, Goto, Labels, Outcomes
  <2>2. todo' \in [Procs -> SUBSET Bits]
    BY <1>2 DEF HitBit, TypeOK
  <2>3. UNCHANGED <<req, ld, hnd, at, histVars>>
    BY <1>2 DEF HitBit
  <2> QED BY <1>1, <2>1, <2>2, <2>3 DEF TypeOK, histVars
<1>3. CASE MissBit(p)
  <2>1. at[p] \in StageIdx /\ at[p] < Len(hnd[p].stages)
    BY <1>3 DEF MissBit, TypeOK, Shape, ShapeOf
  <2>2. at[p] # 0 => at[p] - 1 \in StageIdx /\ at[p] \in 1 .. Len(hnd[p].stages)
    BY <1>3, <2>1, AtWork, StoreAssumption DEF StageIdx, MissBit
  <2>3. at[p] # 0 => Positions(req[p].item, hnd[p].stages[at[p]]) \subseteq Bits
    BY <1>3, <2>2, AtWork, HandleTypes, PositionsType DEF MissBit
  <2>4. at' \in [Procs -> StageIdx] /\ todo' \in [Procs -> SUBSET Bits]
    BY <1>3, <2>2, <2>3 DEF MissBit, NoStageBelow, TypeOK
  <2>5. pc' \in [Procs -> Labels] /\ res' \in [Procs -> Outcomes]
    BY <1>3 DEF MissBit, TypeOK, Finish, Goto, Labels, Outcomes
  <2> QED BY <1>1, <1>3, <2>4, <2>5 DEF MissBit, TypeOK, histVars
<1> QED BY <1>2, <1>3 DEF ExistsStep

(* So does every step of Drop.                                             *)
LEMMA DropType ==
  ASSUME TypeOK, Shape, NEW p \in Procs, DropStep(p)
  PROVE  TypeOK'
<1>1. hnd[p] \in Handles /\ hnd[p].name \in Names
  <2>1. hnd[p] # Nil
    BY DEF DropStep, DropKeys, Unregister, Shape, ShapeOf
  <2> QED BY <2>1 DEF TypeOK, Handles
<1>2. CASE DropKeys(p)
  <2>1. StoreTypeOK'
    BY <1>1, <1>2 DEF DropKeys, Del, TypeOK, StoreTypeOK
  <2>2. /\ acked' \in [Names -> SUBSET Items]
        /\ clobbered' \in [Names -> BOOLEAN]
        /\ intact' \in [Procs -> BOOLEAN]
        /\ due' \in [Procs -> SUBSET Items]
        /\ floor' \in [Procs -> [StageIdx -> Nat]]
    BY <1>1, <1>2 DEF DropKeys, Forget, TypeOK
  <2> QED BY <1>2, <2>1, <2>2 DEF DropKeys, TypeOK, Goto, Labels
<1>3. CASE Unregister(p)
  BY <1>1, <1>3 DEF Unregister, SRem, TypeOK, StoreTypeOK, histVars, Finish, Labels, Outcomes
<1> QED BY <1>2, <1>3 DEF DropStep

(* So do a failing call and the answer to the caller.                      *)
LEMMA EndType ==
  ASSUME TypeOK, Shape, NEW p \in Procs, Fail(p) \/ Return(p)
  PROVE  TypeOK'
<1>1. StoreTypeOK'
  BY DEF Fail, Return, TypeOK, StoreTypeOK, storeVars
<1>2. CASE Fail(p)
  BY <1>1, <1>2 DEF Fail, TypeOK, histVars, Finish, Labels, Outcomes
<1>3. CASE Return(p)
  <2>1. acked' \in [Names -> SUBSET Items]
    <3>1. req[p] \in Requests
      BY <1>3 DEF Return, Shape, ShapeOf, TypeOK
    <3>2. req[p].op = "add" => req[p].item \in Items /\ req[p].name \in Names
      BY <3>1, RequestTypes
    <3> QED BY <1>3, <3>2 DEF Return, Stores, TypeOK
  <2>2. 0 \in StageIdx /\ 0 \in Nat
    BY StoreAssumption DEF StageIdx
  <2>3. /\ pc' \in [Procs -> Labels]
        /\ res' \in [Procs -> Outcomes]
        /\ at' \in [Procs -> StageIdx]
        /\ todo' \in [Procs -> SUBSET Bits]
        /\ req' \in [Procs -> Requests \cup {Nil}]
        /\ ld' \in [Procs -> Loads \cup {Nil}]
        /\ hnd' \in [Procs -> Handles \cup {Nil}]
    BY <1>3, <2>2 DEF Return, TypeOK, Labels, Outcomes
  <2>4. /\ intact' \in [Procs -> BOOLEAN]
        /\ floor' \in [Procs -> [StageIdx -> Nat]]
    BY <1>3, <2>2 DEF Return, TypeOK, Keeps
  <2>5. due' \in [Procs -> SUBSET Items]
    <3>1. req[p] \in Requests
      BY <1>3 DEF Return, Shape, ShapeOf, TypeOK
    <3>2. req[p].op = "add" => req[p].item \in Items
      BY <3>1, RequestTypes
    <3> QED BY <1>3, <3>2 DEF Return, Stores, TypeOK
  <2> QED BY <1>1, <1>3, <2>1, <2>3, <2>4, <2>5 DEF Return, TypeOK
<1> QED BY <1>2, <1>3

(* No step of any process leaves the types.                                *)
LEMMA StepType ==
  ASSUME TypeOK, Shape, NEW p \in Procs, Step(p)
  PROVE  TypeOK'
BY BeginType, CreateType, LoadType, AddType, ExistsType, DropType, EndType
   DEF Step, Serve

(* The initial states are well-typed.                                      *)
LEMMA InitType == Init => TypeOK
<1> SUFFICES ASSUME Init PROVE TypeOK
  OBVIOUS
<1>1. 0 \in StageIdx /\ 1 \in 1 .. MaxStages /\ 0 \in 0 .. MaxAdds
  BY StoreAssumption, FilterAssumption DEF StageIdx
<1>2. \A n \in Names : Seed[n] # Nil =>
        /\ [par |-> Seed[n], stage_count |-> 1] \in Meta
        /\ computeStage(Seed[n], 0) \in Stages
  <2>1. Seed \in [Names -> Params \cup {Nil}]
    BY FilterAssumption
  <2> QED BY <1>1, <2>1 DEF Meta, Stages, computeStage
<1>3. StoreTypeOK
  BY <1>1, <1>2 DEF Init, StoreTypeOK
<1> QED BY <1>1, <1>3 DEF Init, TypeOK, Labels, Outcomes

-----------------------------------------------------------------------------
(* Shape.                                                                  *)

(* Shape says nothing of a process but what the process itself holds.      *)
LEMMA ShapeUntouched ==
  ASSUME NEW q, ShapeOf(q), Untouched(q)
  PROVE  ShapeOf(q)'
BY DEF ShapeOf, Untouched

(* Where a request starts, and with what Filter.                           *)
LEMMA BeginShape ==
  ASSUME TypeOK, Shape, NEW p \in Procs, NEW r \in Requests, Begin(p, r)
  PROVE  ShapeOf(p)'
<1>1. r # Nil /\ r.op \in {"create", "add", "exists", "stats", "delete"}
  BY RequestTypes
<1>2. req'[p] = r /\ ld'[p] = ld[p]
  BY DEF Begin, TypeOK
<1>3. CASE hnd[p] = Nil
  <2>1. /\ pc'[p] = IF r.op = "create" THEN "check" ELSE "load_meta"
        /\ hnd'[p] = Nil
    BY <1>3 DEF Begin, Goto, TypeOK
  <2> QED BY <1>1, <1>2, <2>1 DEF ShapeOf, Creating, Loading, Adding
<1>4. CASE hnd[p] # Nil
  <2>1. /\ r.op # "create"
        /\ r.name = hnd[p].name
        /\ pc'[p] = EntryLabel[r.op]
        /\ hnd'[p] = hnd[p]
        /\ at'[p] = Len(hnd[p].stages) - 1
    BY <1>4 DEF Begin, Enter, TypeOK
  <2>2. hnd[p] \in Handles /\ Len(hnd[p].stages) \in 1 .. MaxStages
    BY <1>4 DEF TypeOK, Shape, ShapeOf
  <2>3. Len(hnd[p].stages) \in Int
    BY <2>2, StoreAssumption
  <2> HIDE DEF Begin
  <2> QED BY <1>1, <1>2, <1>4, <2>1, <2>2, <2>3 DEF ShapeOf, EntryLabel, Creating, Loading, Adding
<1> QED BY <1>3, <1>4

(* New works without a Filter until it returns one.                        *)
LEMMA CreateShape ==
  ASSUME TypeOK, Shape, NEW p \in Procs, CreateStep(p)
  PROVE  ShapeOf(p)'
<1>1. /\ pc[p] \in Creating
      /\ req[p].op = "create"
      /\ hnd[p] = Nil
      /\ req[p] # Nil
  BY DEF CreateStep, CheckExisting, WriteMeta, WriteStage0, Register, Shape, ShapeOf, Creating
<1>2. req'[p] = req[p]
  BY DEF CreateStep, CheckExisting, WriteMeta, WriteStage0, Register
<1>3. CASE Register(p)
  <2>1. 1 \in 1 .. MaxStages
    BY StoreAssumption
  <2>2. pc'[p] = "done" /\ hnd'[p].name = req[p].name /\ Len(hnd'[p].stages) = 1
    BY <1>3 DEF Register, Finish, TypeOK
  <2> QED BY <1>1, <1>2, <2>1, <2>2 DEF ShapeOf, Creating, Loading, Adding
<1>4. CASE CheckExisting(p) \/ WriteMeta(p) \/ WriteStage0(p)
  <2>1. pc'[p] \in {"write_meta", "write_stage0", "register", "done"} /\ hnd'[p] = Nil
    BY <1>1, <1>4 DEF CheckExisting, WriteMeta, WriteStage0, Finish, Goto, TypeOK
  <2> QED BY <1>1, <1>2, <2>1 DEF ShapeOf, Creating, Loading, Adding
<1> QED BY <1>3, <1>4 DEF CreateStep

(* Load ends with as many stages as the filter hash counted.               *)
LEMMA LoadShape ==
  ASSUME TypeOK, Shape, NEW p \in Procs, LoadStep(p)
  PROVE  ShapeOf(p)'
<1>1. /\ pc[p] \in Loading
      /\ req[p] # Nil
      /\ req[p].op # "create"
      /\ hnd[p] # Nil => req[p].op = "add" /\ req[p].name = hnd[p].name
      /\ hnd[p] # Nil => Len(hnd[p].stages) \in 1 .. MaxStages
  BY DEF LoadStep, LoadMeta, LoadStage, LoadFill, Shape, ShapeOf, Loading
<1>2. req'[p] = req[p] /\ req[p] \in Requests /\ req[p].op \in {"add", "exists", "stats", "delete"}
  BY <1>1, RequestTypes DEF LoadStep, LoadMeta, LoadStage, LoadFill, TypeOK
<1>3. CASE LoadMeta(p)
  <2>1. CASE meta[req[p].name] = Nil
    <3>1. pc'[p] = "done" /\ hnd'[p] = hnd[p]
      BY <1>3, <2>1 DEF LoadMeta, Finish, TypeOK
    <3> QED BY <1>1, <1>2, <3>1 DEF ShapeOf, Creating, Loading, Adding
  <2>2. CASE meta[req[p].name] # Nil
    <3>1. /\ pc'[p] = "load_stage"
          /\ hnd'[p] = hnd[p]
          /\ ld'[p].stages = <<>>
          /\ ld'[p].count = meta[req[p].name].stage_count
          /\ ld'[p] # Nil
      <4>1. meta[req[p].name].stage_count \in 1 .. MaxStages /\ meta[req[p].name].par \in Params
        BY <1>2, <2>2, RequestTypes DEF TypeOK, StoreTypeOK, Meta
      <4>2. [par |-> meta[req[p].name].par, count |-> meta[req[p].name].stage_count,
             stages |-> <<>>, fills |-> <<>>] \in Loads
        BY <4>1 DEF Loads
      <4> QED BY <1>3, <2>2, <4>2, FilterAssumption DEF LoadMeta, Goto, TypeOK
    <3>2. meta[req[p].name].stage_count \in 1 .. MaxStages
      BY <1>2, <2>2, RequestTypes DEF TypeOK, StoreTypeOK, Meta
    <3>3. Len(ld'[p].stages) < ld'[p].count
      BY <3>1, <3>2, StoreAssumption
    <3> QED BY <1>1, <1>2, <3>1, <3>3 DEF ShapeOf, Creating, Loading, Adding
  <2> QED BY <2>1, <2>2
<1>4. CASE LoadStage(p)
  <2>1. hnd'[p] = hnd[p] /\ pc'[p] \in {"done", "load_fill"}
    BY <1>4 DEF LoadStage, Finish, Goto, TypeOK
  <2>2. /\ ld[p] \in Loads
        /\ Len(ld[p].stages) < ld[p].count
    BY <1>4 DEF LoadStage, TypeOK, Shape, ShapeOf
  <2>3. pc'[p] = "load_fill" => ld'[p] # Nil /\ Len(ld'[p].stages) \in 1 .. ld'[p].count
    <3> SUFFICES ASSUME pc'[p] = "load_fill"
                 PROVE  ld'[p] # Nil /\ Len(ld'[p].stages) \in 1 .. ld'[p].count
      OBVIOUS
    <3>1. PICK st : ld' = [ld EXCEPT ![p].stages = Append(@, st)] /\ st \in Stages
      <4>1. Len(ld[p].stages) \in StageIdx
        BY <2>2, StoreAssumption DEF Loads, StageIdx
      <4>2. stageMeta[req[p].name][Len(ld[p].stages)] \in Stages \cup {Nil}
        BY <1>2, <4>1, RequestTypes DEF TypeOK, StoreTypeOK
      <4> QED BY <1>4, <4>2 DEF LoadStage, Finish, Goto, TypeOK
    <3>2. ld[p].stages \in Seq(Stages) /\ ld[p].count \in Nat
      BY <2>2, StoreAssumption DEF Loads
    <3>3. /\ ld'[p] = [ld[p] EXCEPT !.stages = Append(@, st)]
      BY <3>1 DEF TypeOK
    <3>4. Append(ld[p].stages, st) \in Seq(Stages) /\ Len(Append(ld[p].stages, st)) = Len(ld[p].stages) + 1
      BY <3>1, <3>2
    <3>5. ld'[p].stages = Append(ld[p].stages, st) /\ ld'[p].count = ld[p].count
      BY <2>2, <3>3 DEF Loads
    <3>6. ld'[p] \in Loads
      BY <2>2, <3>3, <3>4 DEF Loads
    <3>7. Len(ld[p].stages) \in Nat
      BY <3>2
    <3> QED BY <2>2, <3>2, <3>4, <3>5, <3>6, <3>7, FilterAssumption
  <2> QED BY <1>1, <1>2, <2>1, <2>3 DEF ShapeOf, Creating, Loading, Adding
<1>5. CASE LoadFill(p)
  <2>1. /\ ld[p] \in Loads
        /\ Len(ld[p].stages) \in 1 .. ld[p].count
        /\ ld[p].count \in 1 .. MaxStages
    <3>1. ld[p] \in Loads /\ Len(ld[p].stages) \in 1 .. ld[p].count
      BY <1>5 DEF LoadFill, TypeOK, Shape, ShapeOf
    <3> QED BY <3>1 DEF Loads
  <2>2. CASE Len(ld[p].stages) < ld[p].count
    <3>1. /\ pc'[p] = "load_stage" /\ hnd'[p] = hnd[p]
      BY <1>5, <2>2 DEF LoadFill, Goto, TypeOK
    <3>2. ld'[p].stages = ld[p].stages /\ ld'[p].count = ld[p].count
      BY <1>5, <2>1 DEF LoadFill, TypeOK, Loads
    <3>3. ld'[p] # Nil
      <4>1. Len(ld[p].stages) - 1 \in StageIdx
        BY <2>1, StoreAssumption DEF StageIdx
      <4>2. ld'[p] = [ld[p] EXCEPT !.fills = ld'[p].fills]
        BY <1>5, <2>1 DEF LoadFill, TypeOK, Loads
      <4>3. FillOf(req[p].name, Len(ld[p].stages) - 1) \in Nat
        BY <1>2, <4>1, RequestTypes DEF FillOf, TypeOK, StoreTypeOK
      <4>4. ld[p].fills \in Seq(Nat) /\ Append(ld[p].fills, FillOf(req[p].name, Len(ld[p].stages) - 1)) \in Seq(Nat)
        BY <2>1, <4>3 DEF Loads
      <4>5. \A f \in Seq(Nat) : [ld[p] EXCEPT !.fills = f] \in Loads
        BY <2>1 DEF Loads
      <4>6. ld'[p].fills \in Seq(Nat)
        BY <1>5, <2>1, <4>4 DEF LoadFill, TypeOK, Loads
      <4> QED BY <4>2, <4>5, <4>6, FilterAssumption
    <3> QED BY <1>1, <1>2, <2>2, <3>1, <3>2, <3>3 DEF ShapeOf, Creating, Loading, Adding
  <2>3. CASE ~ (Len(ld[p].stages) < ld[p].count) /\ hnd[p] = Nil
    <3> DEFINE h == [name |-> req[p].name, par |-> ld[p].par, stages |-> ld[p].stages]
    <3>1. /\ pc'[p] = EntryLabel[req[p].op]
          /\ hnd'[p] = h
          /\ at'[p] = Len(h.stages) - 1
      BY <1>5, <2>3 DEF LoadFill, Enter, TypeOK
    <3>2. h.name = req[p].name /\ Len(h.stages) \in 1 .. MaxStages /\ Len(h.stages) \in Int
      BY <2>1, StoreAssumption
    <3>3. h # Nil
      <4>1. h \in Handles
        BY <1>2, <2>1, RequestTypes DEF Handles, Loads
      <4> QED BY <4>1, FilterAssumption
    <3> HIDE DEF h
    <3> QED BY <1>1, <1>2, <3>1, <3>2, <3>3 DEF ShapeOf, EntryLabel, Creating, Loading, Adding
  <2>4. CASE ~ (Len(ld[p].stages) < ld[p].count) /\ hnd[p] # Nil
    <3>1. pc'[p] = "done" /\ hnd'[p] = [hnd[p] EXCEPT !.stages = ld[p].stages]
      BY <1>5, <2>4 DEF LoadFill, Finish, TypeOK
    <3>2. hnd'[p].name = hnd[p].name /\ Len(hnd'[p].stages) \in 1 .. MaxStages
      BY <2>1, <2>4, <3>1, StoreAssumption DEF TypeOK, Handles
    <3> QED BY <1>1, <1>2, <2>4, <3>1, <3>2 DEF ShapeOf, Creating, Loading, Adding
  <2> QED BY <2>2, <2>3, <2>4
<1> QED BY <1>3, <1>4, <1>5 DEF LoadStep

(* Add has a Filter with room for one more stage when it appends.          *)
LEMMA AddShape ==
  ASSUME TypeOK, Shape, NEW p \in Procs, AddStep(p)
  PROVE  ShapeOf(p)'
<1>1. /\ hnd[p] # Nil
      /\ req[p] # Nil
      /\ req[p].op = "add"
      /\ req[p].name = hnd[p].name
      /\ Len(hnd[p].stages) \in 1 .. MaxStages
  BY DEF AddStep, SetNextBit, IncrFill, AppendNewStage, Shape, ShapeOf, Adding
<1>2. req'[p] = req[p]
  BY DEF AddStep, SetNextBit, IncrFill, AppendNewStage
<1>3. CASE SetNextBit(p)
  <2>1. /\ pc'[p] \in {"incr", "set_bits"}
        /\ hnd'[p] = hnd[p]
        /\ at'[p] = at[p]
        /\ at[p] = Len(hnd[p].stages) - 1
    BY <1>3 DEF SetNextBit, Goto, TypeOK, Shape, ShapeOf
  <2> QED BY <1>1, <1>2, <2>1 DEF ShapeOf, Creating, Loading, Adding
<1>4. CASE IncrFill(p)
  <2>1. /\ pc'[p] \in {"append", "done"}
        /\ pc'[p] = "append" => Sizable(hnd[p].par, Len(hnd[p].stages))
        /\ hnd'[p] = hnd[p]
    BY <1>4 DEF IncrFill, Finish, Goto, TypeOK
  <2> QED BY <1>1, <1>2, <2>1 DEF ShapeOf, Creating, Loading, Adding
<1>5. CASE AppendNewStage(p)
  <2> DEFINE idx == Len(hnd[p].stages)
             st == computeStage(hnd[p].par, idx)
  <2>1. pc[p] = "append" /\ hnd[p] \in Handles
    BY <1>1, <1>5 DEF AppendNewStage, TypeOK
  <2>2. idx \in StageIdx /\ idx + 1 \in 1 .. MaxStages /\ st \in Stages
    <3>1. Sizable(hnd[p].par, idx) /\ idx \in Nat /\ hnd[p].par \in Params
      BY <1>1, <2>1, StoreAssumption DEF Shape, ShapeOf, Handles
    <3>2. idx \in StageIdx /\ idx + 1 \in 1 .. MaxStages
      BY <3>1, SizableInRange
    <3> QED BY <3>1, <3>2, StageType
  <2>3. pc'[p] \in {"done", "load_meta"}
    BY <1>5 DEF AppendNewStage, Finish, Goto, TypeOK
  <2> HIDE DEF st
  <2>4. hnd'[p] = hnd[p] \/ hnd'[p] = [hnd[p] EXCEPT !.stages = Append(@, st)]
    BY <1>5 DEF AppendNewStage, TypeOK, st
  <2>5. /\ Append(hnd[p].stages, st) \in Seq(Stages)
        /\ Len(Append(hnd[p].stages, st)) = idx + 1
    BY <2>1, <2>2 DEF Handles
  <2>6. [hnd[p] EXCEPT !.stages = Append(@, st)] \in Handles
    BY <2>1, <2>5 DEF Handles
  <2>7. /\ hnd'[p] # Nil
        /\ hnd'[p].name = hnd[p].name
        /\ Len(hnd'[p].stages) \in 1 .. MaxStages
    BY <1>1, <2>1, <2>2, <2>4, <2>5, <2>6, FilterAssumption DEF Handles
  <2> QED BY <1>1, <1>2, <2>3, <2>7 DEF ShapeOf, Creating, Loading, Adding
<1> QED BY <1>3, <1>4, <1>5 DEF AddStep

(* Exists works on a stage of its Filter.                                  *)
LEMMA ExistsShape ==
  ASSUME TypeOK, Shape, NEW p \in Procs, ExistsStep(p)
  PROVE  ShapeOf(p)'
<1>1. /\ hnd[p] # Nil
      /\ req[p] # Nil
      /\ req[p].op = "exists"
      /\ req[p].name = hnd[p].name
      /\ Len(hnd[p].stages) \in 1 .. MaxStages
      /\ at[p] < Len(hnd[p].stages)
  BY DEF ExistsStep, HitBit, MissBit, Shape, ShapeOf
<1>2. req'[p] = req[p] /\ hnd'[p] = hnd[p]
  BY DEF ExistsStep, HitBit, MissBit
<1>3. pc'[p] \in {"done", "get_bits"}
  BY DEF ExistsStep, HitBit, MissBit, Finish, Goto, TypeOK
<1>4. at[p] \in Int /\ Len(hnd[p].stages) \in Int
  BY <1>1, StoreAssumption DEF TypeOK, StageIdx
<1>5. at'[p] \in {at[p], at[p] - 1}
  BY DEF ExistsStep, HitBit, MissBit, TypeOK
<1>6. at'[p] < Len(hnd[p].stages)
  BY <1>1, <1>4, <1>5
<1> QED BY <1>1, <1>2, <1>3, <1>6 DEF ShapeOf, Creating, Loading, Adding

(* Drop has a Filter.                                                      *)
LEMMA DropShape ==
  ASSUME TypeOK, Shape, NEW p \in Procs, DropStep(p)
  PROVE  ShapeOf(p)'
<1>1. /\ hnd[p] # Nil
      /\ req[p] # Nil
      /\ req[p].op = "delete"
      /\ req[p].name = hnd[p].name
      /\ Len(hnd[p].stages) \in 1 .. MaxStages
  BY DEF DropStep, DropKeys, Unregister, Shape, ShapeOf
<1>2. req'[p] = req[p] /\ hnd'[p] = hnd[p]
  BY DEF DropStep, DropKeys, Unregister
<1>3. pc'[p] \in {"srem", "done"}
  BY DEF DropStep, DropKeys, Unregister, Finish, Goto, TypeOK
<1> QED BY <1>1, <1>2, <1>3 DEF ShapeOf, Creating, Loading, Adding

(* A request that ended leaves a Filter to an embedder only.               *)
LEMMA EndShape ==
  ASSUME TypeOK, Shape, NEW p \in Procs, Fail(p) \/ Return(p)
  PROVE  ShapeOf(p)'
<1>1. CASE Fail(p)
  <2>1. /\ pc'[p] = "done"
        /\ req'[p] = req[p]
        /\ hnd'[p] = hnd[p] \/ hnd'[p] = Nil
        /\ pc[p] # "idle"
    BY <1>1 DEF Fail, Finish, TypeOK
  <2> QED BY <2>1 DEF Shape, ShapeOf, Creating, Loading, Adding
<1>2. CASE Return(p)
  <2>1. /\ pc'[p] = "idle"
        /\ req'[p] = Nil
        /\ hnd'[p] = hnd[p] \/ hnd'[p] = Nil
        /\ p \notin Embedders => hnd'[p] = Nil
    BY <1>2 DEF Return, Keeps, TypeOK
  <2> QED BY <2>1 DEF Shape, ShapeOf, Creating, Loading, Adding
<1> QED BY <1>1, <1>2

(* A request has no outcome before it is done. *)
LEMMA StepPending ==
  ASSUME TypeOK, Shape, NEW p \in Procs, Step(p)
  PROVE  Pending(p)'
<1> USE DEF Pending, Shape, TypeOK, Finish, Goto
<1>1. ASSUME NEW r \in Requests, Begin(p, r) PROVE Pending(p)'
  <2>1. pc[p] = "idle" /\ res[p] = "none"
    BY <1>1 DEF Begin
  <2>2. CASE hnd[p] = Nil
    <3>1. res'[p] = "none" /\ pc'[p] \in {"check", "load_meta"} BY <1>1, <2>1, <2>2 DEF Begin
    <3> QED BY <3>1
  <2>3. CASE hnd[p] # Nil
    <3>1. r.op \in {"add", "exists", "stats", "delete"} /\ Enter(p, r, hnd[p])
      BY <1>1, <2>3, RequestTypes DEF Begin
    <3>2. /\ pc'[p] = EntryLabel[r.op]
          /\ res'[p] = IF r.op = "stats" THEN "ok" ELSE "none"
      BY <2>1, <3>1 DEF Enter
    <3> QED BY <3>1, <3>2 DEF EntryLabel
  <2> QED BY <2>2, <2>3
<1>2. CASE CreateStep(p)
  BY <1>2 DEF CreateStep, CheckExisting, WriteMeta, WriteStage0, Register
<1>3. CASE LoadMeta(p) \/ LoadStage(p) BY <1>3 DEF LoadMeta, LoadStage
<1>4. CASE LoadFill(p)
  <2>1. req[p] \in Requests /\ req[p].op # "create"
    BY <1>4 DEF LoadFill, ShapeOf, Loading
  <2> QED BY <1>4, <2>1, RequestTypes DEF LoadFill, Enter, EntryLabel
<1>5. CASE AddStep(p) BY <1>5 DEF AddStep, SetNextBit, IncrFill, AppendNewStage
<1>6. CASE ExistsStep(p)
  <2>1. req[p].op = "exists" /\ req' = req
    BY <1>6 DEF ExistsStep, HitBit, MissBit, ShapeOf
  <2> QED BY <1>6, <2>1 DEF ExistsStep, HitBit, MissBit
<1>7. CASE DropStep(p) BY <1>7 DEF DropStep, DropKeys, Unregister
<1>8. CASE Fail(p) \/ Return(p) BY <1>8 DEF Fail, Return
<1> QED BY <1>1, <1>2, <1>3, <1>4, <1>5, <1>6, <1>7, <1>8 DEF Step, Serve, LoadStep

(* No step of any process breaks Shape.                                    *)
LEMMA StepShape ==
  ASSUME TypeOK, Shape, NEW p \in Procs, Step(p)
  PROVE  Shape'
<1>1. ShapeOf(p)'
  BY BeginShape, CreateShape, LoadShape, AddShape, ExistsShape, DropShape, EndShape
     DEF Step, Serve
<1>2. Pending(p)'
  BY StepPending
<1>3. ASSUME NEW q \in Procs \ {p} PROVE ShapeOf(q)' /\ Pending(q)'
  <2>1. Untouched(q) BY OthersUntouched
  <2> QED BY <2>1, ShapeUntouched DEF Shape, Pending, Untouched
<1> QED BY <1>1, <1>2, <1>3 DEF Shape

(* Shape holds initially.                                                  *)
LEMMA InitShape == Init => Shape
BY DEF Init, Shape, ShapeOf, Pending, Creating, Loading, Adding

(* TypeOK and Shape together are inductive: each needs the other.          *)
LEMMA TypeAndShape == Spec => [](TypeOK /\ Shape)
<1>1. Init => TypeOK /\ Shape
  BY InitType, InitShape
<1>2. (TypeOK /\ Shape) /\ [Next]_vars => (TypeOK /\ Shape)'
  <2>1. ASSUME TypeOK, Shape, Next PROVE (TypeOK /\ Shape)'
    BY <2>1, NextIsStep, StepType, StepShape
  <2>2. ASSUME TypeOK, Shape, UNCHANGED vars PROVE (TypeOK /\ Shape)'
    BY <2>2 DEF vars, storeVars, procVars, histVars, TypeOK, StoreTypeOK, Shape, ShapeOf, Pending
  <2> QED BY <2>1, <2>2
<1> QED BY <1>1, <1>2, PTL DEF Spec

(* Type correctness: no filter ever has more stages than can be sized, and *)
(* Load, Add, appendNewStage, Exists and Drop reach for no stage outside   *)
(* the chain.                                                              *)
THEOREM TypeCorrect == Spec => []TypeOK
BY TypeAndShape, PTL

-----------------------------------------------------------------------------
(* Everything but a DEL extends the chain of a filter that is not created  *)
(* over itself.                                                            *)

Extends(n) ==
  ~ clobbered'[n] =>
    /\ ~ clobbered[n]
    /\ meta[n] # Nil => meta'[n] # Nil /\ meta[n].stage_count <= meta'[n].stage_count
    /\ \A i \in StageIdx :
         /\ stageMeta[n][i] # Nil /\ meta[n] # Nil /\ i < meta[n].stage_count =>
              stageMeta'[n][i] = stageMeta[n][i]
         /\ bits[n][i] \subseteq bits'[n][i]

(* The counts and the indices of a chain. *)
LEMMA ChainTypes ==
  ASSUME StoreTypeOK, NEW n \in Names, meta[n] # Nil
  PROVE  /\ meta[n].stage_count \in 1 .. MaxStages
         /\ \A i \in 0 .. meta[n].stage_count - 1 : i \in StageIdx
BY StoreAssumption DEF StoreTypeOK, Meta, StageIdx

(* An item held stays held when the chain is extended.                     *)
LEMMA HeldExtends ==
  ASSUME StoreTypeOK, StoreTypeOK', NEW n \in Names, NEW x,
         Extends(n), ~ clobbered'[n], Held(n, x)
  PROVE  Held(n, x)'
<1>1. PICK i \in 0 .. meta[n].stage_count - 1 :
        stageMeta[n][i] # Nil /\ Positions(x, stageMeta[n][i]) \subseteq bits[n][i]
  BY DEF Held
<1>2. meta[n] # Nil BY DEF Held
<1>3. i \in StageIdx /\ meta[n].stage_count \in 1 .. MaxStages /\ i < meta[n].stage_count
  BY <1>2, ChainTypes
<1>4. meta'[n] # Nil /\ meta[n].stage_count <= meta'[n].stage_count
  BY <1>2 DEF Extends
<1>5. meta'[n].stage_count \in 1 .. MaxStages
  BY <1>4 DEF StoreTypeOK, Meta
<1>6. stageMeta'[n][i] = stageMeta[n][i] /\ bits[n][i] \subseteq bits'[n][i]
  BY <1>1, <1>2, <1>3 DEF Extends
<1>7. i \in 0 .. meta'[n].stage_count - 1
  BY <1>3, <1>4, <1>5
<1> QED BY <1>1, <1>4, <1>6, <1>7 DEF Held

(* A true copy of a chain stays true when the chain is extended.           *)
LEMMA MatchesExtends ==
  ASSUME StoreTypeOK, StoreTypeOK', NEW n \in Names, NEW stages \in Seq(Stages),
         Extends(n), ~ clobbered'[n], Matches(n, stages)
  PROVE  Matches(n, stages)'
<1>1. meta[n] # Nil /\ Len(stages) <= meta[n].stage_count /\ Len(stages) \in Nat
  BY DEF Matches
<1>2. meta[n].stage_count \in 1 .. MaxStages
  BY <1>1, ChainTypes
<1>3. meta'[n] # Nil /\ meta[n].stage_count <= meta'[n].stage_count
  BY <1>1 DEF Extends
<1>4. meta'[n].stage_count \in 1 .. MaxStages
  BY <1>3 DEF StoreTypeOK, Meta
<1>5. Len(stages) <= meta'[n].stage_count
  BY <1>1, <1>2, <1>3, <1>4, StoreAssumption
<1>6. ASSUME NEW i \in 1 .. Len(stages) PROVE stageMeta'[n][i - 1] = stages[i]
  <2>1. stageMeta[n][i - 1] = stages[i] BY DEF Matches
  <2>2. stages[i] \in Stages /\ stages[i] # Nil BY StoreAssumption
  <2>3. i - 1 \in StageIdx /\ i - 1 < meta[n].stage_count
    BY <1>1, <1>2, StoreAssumption DEF StageIdx
  <2> QED BY <1>1, <2>1, <2>2, <2>3 DEF Extends
<1> QED BY <1>3, <1>5, <1>6 DEF Matches

(* An item in a copy of the chain stays in it when bits are only added.    *)
LEMMA InCopyExtends ==
  ASSUME NEW n \in Names, NEW stages, NEW last \in StageIdx, NEW x,
         Extends(n), ~ clobbered'[n], InCopy(n, stages, last, x)
  PROVE  InCopy(n, stages, last, x)'
<1>1. PICK i \in 0 .. last : Positions(x, stages[i + 1]) \subseteq bits[n][i]
  BY DEF InCopy
<1>2. i \in StageIdx
  BY StoreAssumption DEF StageIdx
<1>3. bits[n][i] \subseteq bits'[n][i]
  BY <1>2 DEF Extends
<1> QED BY <1>1, <1>3 DEF InCopy

(* An item in a true copy of the chain is in every longer one.             *)
LEMMA InLongerCopy ==
  ASSUME NEW n, NEW hs \in Seq(Stages), NEW ls \in Seq(Stages), NEW x,
         Len(hs) \in Nat \ {0}, Len(hs) <= Len(ls), Matches(n, hs), Matches(n, ls),
         InCopy(n, hs, Len(hs) - 1, x)
  PROVE  InCopy(n, ls, Len(ls) - 1, x)
<1>1. PICK i \in 0 .. Len(hs) - 1 : Positions(x, hs[i + 1]) \subseteq bits[n][i]
  BY DEF InCopy
<1>2. i + 1 \in 1 .. Len(hs) /\ i + 1 \in 1 .. Len(ls) /\ i \in 0 .. Len(ls) - 1
  BY <1>1
<1>3. stageMeta[n][(i + 1) - 1] = hs[i + 1] /\ stageMeta[n][(i + 1) - 1] = ls[i + 1]
  BY <1>2 DEF Matches
<1> QED BY <1>1, <1>2, <1>3 DEF InCopy

(* A step that leaves the hashes and the bitmaps alone. *)
LEMMA QuietExtends ==
  ASSUME StoreTypeOK, UNCHANGED <<meta, stageMeta, bits, clobbered>>, NEW n \in Names
  PROVE  Extends(n)
<1>1. meta[n] # Nil => meta[n].stage_count \in Int
  BY ChainTypes
<1> QED BY <1>1 DEF Extends

(* Every step but the DEL of Drop extends every chain. *)
LEMMA StepExtends ==
  ASSUME TypeOK, TypeOK', Shape, NEW p \in Procs, Step(p), ~ DropKeys(p), NEW n \in Names
  PROVE  Extends(n)
<1>0. StoreTypeOK BY DEF TypeOK
<1>1. CASE UNCHANGED <<meta, stageMeta, bits, clobbered>>
  BY <1>0, <1>1, QuietExtends
<1>2. CASE SetNextBit(p)
  <2>1. PICK b : SetBit(hnd[p].name, at[p], b)
    BY <1>2 DEF SetNextBit
  <2>2. /\ meta' = meta /\ stageMeta' = stageMeta /\ clobbered' = clobbered
        /\ \A i \in StageIdx : bits[n][i] \subseteq bits'[n][i]
    BY <1>0, <1>2, <2>1 DEF SetNextBit, SetBit, histVars, StoreTypeOK
  <2>3. meta[n] # Nil => meta[n].stage_count \in Int
    BY <1>0, ChainTypes
  <2> QED BY <2>2, <2>3 DEF Extends
<1>3. CASE AppendNewStage(p)
  <2> DEFINE m == hnd[p].name
             idx == Len(hnd[p].stages)
             st == computeStage(hnd[p].par, idx)
  <2>1. AppendStage(m, idx, st) /\ clobbered' = clobbered /\ pc[p] = "append"
    BY <1>3 DEF AppendNewStage
  <2>2. idx \in Nat /\ m \in Names
    BY <2>1, AtWork, StoreAssumption
  <2> HIDE DEF m, idx, st
  <2>3. CASE ~ AppendWins(m, idx)
    BY <1>1, <2>1, <2>3 DEF AppendStage, storeVars
  <2>4. CASE AppendWins(m, idx)
    <3>1. /\ meta[m] # Nil
          /\ meta[m].stage_count = idx
          /\ meta' = [meta EXCEPT ![m].stage_count = @ + 1]
          /\ stageMeta' = [stageMeta EXCEPT ![m][idx] = st]
          /\ bits' = bits
      BY <2>1, <2>4 DEF AppendStage, AppendWins
    <3>2. meta[m] \in Meta
      BY <1>0, <2>2, <3>1 DEF StoreTypeOK
    <3>3. meta'[m] = [meta[m] EXCEPT !.stage_count = @ + 1]
      BY <1>0, <2>2, <3>1 DEF StoreTypeOK
    <3>4. meta'[m].stage_count = idx + 1 /\ meta'[m].par = meta[m].par
      BY <3>1, <3>2, <3>3 DEF Meta
    <3>5. meta'[m] # Nil
      <4>1. meta'[m] \in Meta \cup {Nil} BY <2>2 DEF TypeOK, StoreTypeOK
      <4>2. [meta[m] EXCEPT !.stage_count = idx + 1] \in Meta
        <5>1. idx + 1 \in 1 .. MaxStages
          BY <1>3, AtWork, HandleTypes, SizableInRange, <2>2 DEF AppendNewStage, Shape, ShapeOf, idx
        <5> QED BY <3>2, <5>1 DEF Meta
      <4>3. meta'[m] = [meta[m] EXCEPT !.stage_count = idx + 1]
        BY <3>1, <3>2, <3>3 DEF Meta
      <4> QED BY <4>2, <4>3, StoreAssumption
    <3>6. \A i \in StageIdx : i # idx => stageMeta'[m][i] = stageMeta[m][i]
      BY <1>0, <2>2, <3>1 DEF StoreTypeOK
    <3>7. n # m => meta'[n] = meta[n] /\ stageMeta'[n] = stageMeta[n]
      BY <1>0, <2>2, <3>1 DEF StoreTypeOK
    <3>8. CASE n = m
      BY <2>1, <2>2, <3>1, <3>4, <3>5, <3>6, <3>8 DEF Extends
    <3>9. CASE n # m
      <4>1. meta[n] # Nil => meta[n].stage_count \in Int
        BY <1>0, ChainTypes
      <4> QED BY <2>1, <3>1, <3>7, <3>9, <4>1 DEF Extends
    <3> QED BY <3>8, <3>9
  <2> QED BY <2>3, <2>4
<1>4. CASE WriteMeta(p)
  <2>1. /\ meta' = [meta EXCEPT ![req[p].name] = [par |-> req[p].par, stage_count |-> 1]]
        /\ UNCHANGED <<stageMeta, bits>>
        /\ clobbered' = [clobbered EXCEPT ![req[p].name] = @ \/ meta[req[p].name] # Nil]
    BY <1>4 DEF WriteMeta, HSetMeta
  <2>2. meta[n] # Nil => meta[n].stage_count \in Int
    BY <1>0, ChainTypes
  <2>3. CASE n = req[p].name
    <3>1. clobbered'[n] = (clobbered[n] \/ meta[n] # Nil)
      BY <2>1, <2>3 DEF TypeOK
    <3> QED BY <2>1, <3>1 DEF Extends
  <2>4. CASE n # req[p].name
    <3>1. meta'[n] = meta[n] /\ clobbered'[n] = clobbered[n]
      BY <2>1, <2>4 DEF TypeOK, StoreTypeOK
    <3> QED BY <2>1, <2>2, <3>1 DEF Extends
  <2> QED BY <2>3, <2>4
<1>5. CASE WriteStage0(p)
  <2>1. /\ stageMeta' = [stageMeta EXCEPT ![req[p].name][0] = computeStage(req[p].par, 0)]
        /\ UNCHANGED <<meta, bits>>
        /\ clobbered' = [clobbered EXCEPT ![req[p].name] = @ \/ stageMeta[req[p].name][0] # Nil]
    BY <1>5 DEF WriteStage0, HSetStage, computeStage
  <2>2. meta[n] # Nil => meta[n].stage_count \in Int
    BY <1>0, ChainTypes
  <2>3. CASE n = req[p].name
    <3>1. ~ clobbered'[n] => ~ clobbered[n] /\ stageMeta[n][0] = Nil
      BY <2>1, <2>3 DEF TypeOK
    <3>2. \A i \in StageIdx : i # 0 => stageMeta'[n][i] = stageMeta[n][i]
      BY <2>1, <2>3 DEF TypeOK, StoreTypeOK
    <3>3. ~ clobbered'[n] => \A i \in StageIdx : stageMeta[n][i] # Nil => stageMeta'[n][i] = stageMeta[n][i]
      BY <3>1, <3>2
    <3>4. meta' = meta /\ bits' = bits
      BY <2>1
    <3>5. meta[n] # Nil => meta'[n] # Nil /\ meta[n].stage_count <= meta'[n].stage_count
      BY <2>2, <3>4
    <3> QED BY <3>1, <3>3, <3>4, <3>5, Zenon DEF Extends
  <2>4. CASE n # req[p].name
    <3>1. stageMeta'[n] = stageMeta[n] /\ clobbered'[n] = clobbered[n]
      BY <2>1, <2>4 DEF TypeOK, StoreTypeOK
    <3> QED BY <2>1, <2>2, <3>1 DEF Extends
  <2> QED BY <2>3, <2>4
<1> QED
  <2>1. (\E r \in Requests : Begin(p, r)) => UNCHANGED <<meta, stageMeta, bits, clobbered>>
    BY DEF Begin, storeVars
  <2>2. CheckExisting(p) \/ Register(p) => UNCHANGED <<meta, stageMeta, bits, clobbered>>
    BY DEF CheckExisting, Register, SAdd, storeVars, histVars
  <2>3. LoadStep(p) => UNCHANGED <<meta, stageMeta, bits, clobbered>>
    BY DEF LoadStep, LoadMeta, LoadStage, LoadFill, storeVars, histVars
  <2>4. IncrFill(p) \/ ExistsStep(p) \/ Unregister(p) => UNCHANGED <<meta, stageMeta, bits, clobbered>>
    BY DEF IncrFill, Incr, ExistsStep, HitBit, MissBit, Unregister, SRem, storeVars, histVars
  <2>5. Fail(p) \/ Return(p) => UNCHANGED <<meta, stageMeta, bits, clobbered>>
    BY DEF Fail, Return, storeVars, histVars
  <2> QED BY <1>1, <1>2, <1>3, <1>4, <1>5, <2>1, <2>2, <2>3, <2>4, <2>5
          DEF Step, Serve, CreateStep, AddStep, DropStep

-----------------------------------------------------------------------------
(* The processes that do not take the step.                                *)

Known(p) == CopyOf(p) /\ AddOf(p) /\ PromiseOf(p) /\ LookupOf(p)

(* What a step of another process leaves of the history of q. *)
Spared(q) ==
  /\ intact'[q] = intact[q]
  /\ due'[q] = due[q]
  /\ \A n \in Names : Uses(q, n) => Extends(n)

(* What q knows survives a step that extends the chains q works with.      *)
LEMMA SparedKnown ==
  ASSUME TypeOK, TypeOK', Shape, NEW q \in Procs, Untouched(q), Spared(q), Known(q)
  PROVE  Known(q)'
<1>0. StoreTypeOK /\ StoreTypeOK'
  BY DEF TypeOK
<1>1. PICK n, x, hn, hs, ls, lc :
        /\ n = req[q].name /\ x = req[q].item
        /\ hn = hnd[q].name /\ hs = hnd[q].stages
        /\ ls = ld[q].stages /\ lc = ld[q].count
  OBVIOUS
<1>2. /\ n = req'[q].name /\ x = req'[q].item
      /\ hn = hnd'[q].name /\ hs = hnd'[q].stages
      /\ ls = ld'[q].stages /\ lc = ld'[q].count
  BY <1>1 DEF Untouched
<1>3. req[q] # Nil => req[q] \in Requests /\ n \in Names /\ Extends(n)
  BY <1>1, RequestTypes DEF TypeOK, Spared, Uses
<1>4. hnd[q] # Nil => hn \in Names /\ hs \in Seq(Stages) /\ Extends(hn) /\ Len(hs) - 1 \in StageIdx
  <2>1. hnd[q] # Nil => hn \in Names /\ hs \in Seq(Stages) /\ Extends(hn)
    BY <1>1 DEF TypeOK, Handles, Spared, Uses
  <2>2. hnd[q] # Nil => Len(hs) \in 1 .. MaxStages
    BY <1>1 DEF Shape, ShapeOf
  <2> QED BY <2>1, <2>2, StoreAssumption DEF StageIdx
<1>5. ASSUME NEW m \in Names, Extends(m), Sound(q, m)'
      PROVE  Sound(q, m) /\ ~ clobbered'[m]
  BY <1>5 DEF Sound, Spared, Extends
<1>6. pc[q] \in {"load_stage", "load_fill", "write_stage0", "register"} =>
        req[q] \in Requests /\ n \in Names /\ Extends(n)
  BY <1>3 DEF Shape, ShapeOf
<1>7. pc[q] # "idle" => req[q] \in Requests /\ n \in Names /\ Extends(n)
  BY <1>3 DEF Shape, ShapeOf
<1>8. CopyOf(q)'
  <2>1. ASSUME hnd[q] # Nil, Sound(q, hn)' PROVE Matches(hn, hs)'
    <3>1. Matches(hn, hs)
      BY <1>1, <1>4, <1>5, <2>1 DEF Known, CopyOf
    <3> QED BY <1>0, <1>4, <1>5, <2>1, <3>1, MatchesExtends
  <2>2. ASSUME pc[q] \in {"load_stage", "load_fill"}, Sound(q, n)'
        PROVE  /\ Matches(n, ls)' /\ lc <= meta'[n].stage_count
               /\ hnd[q] # Nil => Len(hs) <= lc
    <3>1. ld[q] \in Loads
      BY <2>2 DEF Shape, ShapeOf, TypeOK
    <3>2. ls \in Seq(Stages) /\ lc \in 1 .. MaxStages
      BY <1>1, <3>1 DEF Loads
    <3>3. n \in Names /\ Extends(n) /\ Sound(q, n) /\ ~ clobbered'[n]
      BY <1>5, <1>6, <2>2
    <3>4. /\ Matches(n, ls) /\ lc <= meta[n].stage_count
          /\ hnd[q] # Nil => Len(hs) <= lc
      BY <1>1, <2>2, <3>3 DEF Known, CopyOf
    <3>5. meta[n] # Nil BY <3>4 DEF Matches
    <3>6. meta'[n] # Nil /\ meta[n].stage_count <= meta'[n].stage_count
      BY <3>3, <3>5 DEF Extends
    <3>7. meta[n].stage_count \in 1 .. MaxStages
      BY <1>0, <3>3, <3>5, ChainTypes
    <3>8. meta'[n].stage_count \in 1 .. MaxStages
      BY <1>0, <3>3, <3>6 DEF StoreTypeOK, Meta
    <3>9. lc <= meta'[n].stage_count
      BY <3>2, <3>4, <3>6, <3>7, <3>8, StoreAssumption
    <3> QED BY <1>0, <3>2, <3>3, <3>4, <3>9, MatchesExtends
  <2>3. ASSUME pc[q] \in {"write_stage0", "register"}, Sound(q, n)'
        PROVE  meta'[n] # Nil
    BY <1>1, <1>5, <1>6, <2>3 DEF Known, CopyOf, Extends
  <2>4. ASSUME pc[q] = "register", Sound(q, n)'
        PROVE  stageMeta'[n][0] = computeStage(req[q].par, 0)
    <3>1. n \in Names /\ Extends(n) /\ Sound(q, n) /\ ~ clobbered'[n]
      BY <1>5, <1>6, <2>4
    <3>2. meta[n] # Nil /\ stageMeta[n][0] = computeStage(req[q].par, 0)
      BY <1>1, <2>4, <3>1 DEF Known, CopyOf
    <3>3. 0 \in StageIdx /\ 0 < meta[n].stage_count
      BY <1>0, <3>1, <3>2, ChainTypes, StoreAssumption DEF StageIdx
    <3>4. computeStage(req[q].par, 0) # Nil
      <4>1. req[q].op = "create" /\ req[q] \in Requests
        BY <1>6, <2>4 DEF Shape, ShapeOf, Creating
      <4> QED BY <3>3, <4>1, RequestTypes, StageType, StoreAssumption
    <3> QED BY <3>1, <3>2, <3>3, <3>4 DEF Extends
  <2>5. req'[q].par = req[q].par /\ pc'[q] = pc[q] /\ (hnd'[q] # Nil <=> hnd[q] # Nil)
    BY DEF Untouched
  <2> QED BY <1>2, <2>1, <2>2, <2>3, <2>4, <2>5 DEF CopyOf
<1>9. AddOf(q)'
  <2> SUFFICES ASSUME pc[q] # "idle", req[q].op = "add", Sound(q, n)'
               PROVE  /\ pc[q] = "set_bits" =>
                           Positions(x, hs[at[q] + 1]) \ todo[q] \subseteq bits'[n][at[q]]
                      /\ Stored(q) =>
                           /\ Held(n, x)'
                           /\ hnd[q] # Nil => InCopy(hn, hs, Len(hs) - 1, x)'
    <3>1. pc'[q] = pc[q] /\ req'[q] = req[q] /\ at'[q] = at[q] /\ todo'[q] = todo[q]
      BY DEF Untouched
    <3>2. Stored(q)' <=> Stored(q)
      BY DEF Stored, Untouched
    <3>3. hnd'[q] = hnd[q]
      BY DEF Untouched
    <3> QED BY <1>2, <3>1, <3>2, <3>3 DEF AddOf
  <2>1. n \in Names /\ Extends(n) /\ Sound(q, n) /\ ~ clobbered'[n]
    BY <1>5, <1>7
  <2>2. /\ pc[q] = "set_bits" =>
             Positions(x, hs[at[q] + 1]) \ todo[q] \subseteq bits[n][at[q]]
        /\ Stored(q) =>
             /\ Held(n, x)
             /\ hnd[q] # Nil => InCopy(hn, hs, Len(hs) - 1, x)
    BY <1>1, <2>1 DEF Known, AddOf
  <2>3. bits[n][at[q]] \subseteq bits'[n][at[q]]
    BY <2>1 DEF Extends, TypeOK
  <2>4. Stored(q) => Held(n, x)'
    BY <1>0, <2>1, <2>2, HeldExtends
  <2>5. hnd[q] # Nil => hn = n
    BY <1>1, <1>7 DEF Shape, ShapeOf
  <2>6. Stored(q) /\ hnd[q] # Nil => InCopy(hn, hs, Len(hs) - 1, x)'
    BY <1>4, <2>1, <2>2, <2>5, InCopyExtends
  <2> QED BY <2>2, <2>3, <2>4, <2>6
<1>10. PromiseOf(q)'
  <2>1. /\ pc'[q] = pc[q] /\ due'[q] = due[q] /\ intact'[q] = intact[q]
        /\ hnd'[q] # Nil <=> hnd[q] # Nil
    BY DEF Untouched, Spared
  <2>2. pc[q] \in Creating => due[q] = {}
    BY DEF Known, PromiseOf
  <2>3. ASSUME hnd[q] # Nil, ~ clobbered'[hn], NEW y \in due[q]
        PROVE  intact[q] /\ InCopy(hn, hs, Len(hs) - 1, y)'
    <3>1. hn \in Names /\ Extends(hn) /\ Len(hs) - 1 \in StageIdx /\ ~ clobbered[hn]
      BY <1>4, <2>3 DEF Extends
    <3>2. intact[q] /\ InCopy(hn, hs, Len(hs) - 1, y)
      BY <1>1, <2>3, <3>1 DEF Known, PromiseOf
    <3> QED BY <2>3, <3>1, <3>2, InCopyExtends
  <2>4. ASSUME hnd[q] = Nil, pc[q] = "load_meta", ~ clobbered'[n], NEW y \in due[q]
        PROVE  Held(n, y)'
    <3>1. n \in Names /\ Extends(n) /\ ~ clobbered[n]
      BY <1>7, <2>4 DEF Extends
    <3>2. Held(n, y)
      BY <1>1, <2>4, <3>1 DEF Known, PromiseOf
    <3> QED BY <1>0, <2>4, <3>1, <3>2, HeldExtends
  <2>5. ASSUME hnd[q] = Nil, pc[q] \in {"load_stage", "load_fill"}, ~ clobbered'[n], NEW y \in due[q]
        PROVE  intact[q] /\ \E i \in 0 .. lc - 1 : HeldIn(n, i, y)'
    <3>1. n \in Names /\ Extends(n) /\ ~ clobbered[n]
      BY <1>7, <2>5 DEF Extends
    <3>2. intact[q] /\ \E i \in 0 .. lc - 1 : HeldIn(n, i, y)
      BY <1>1, <2>5, <3>1 DEF Known, PromiseOf
    <3>3. PICK i \in 0 .. lc - 1 : HeldIn(n, i, y)
      BY <3>2
    <3>4. meta[n] # Nil /\ lc <= meta[n].stage_count
      BY <1>1, <2>5, <3>1, <3>2 DEF Known, CopyOf, Sound, Matches
    <3>5. lc \in 1 .. MaxStages
      <4>1. ld[q] \in Loads
        BY <2>5 DEF Shape, ShapeOf, TypeOK
      <4> QED BY <1>1, <4>1 DEF Loads
    <3>6. meta[n].stage_count \in 1 .. MaxStages
      BY <1>0, <3>1, <3>4, ChainTypes
    <3>7. i \in StageIdx /\ i < meta[n].stage_count
      BY <3>4, <3>5, <3>6, StoreAssumption DEF StageIdx
    <3>8. HeldIn(n, i, y)'
      BY <2>5, <3>1, <3>3, <3>4, <3>7 DEF HeldIn, Extends
    <3> QED BY <3>2, <3>8
  <2> QED BY <1>2, <2>1, <2>2, <2>3, <2>4, <2>5 DEF PromiseOf
<1>11. LookupOf(q)'
  <2>1. /\ pc'[q] = pc[q] /\ at'[q] = at[q] /\ todo'[q] = todo[q] /\ res'[q] = res[q]
        /\ req'[q] = req[q] /\ due'[q] = due[q]
    BY DEF Untouched, Spared
  <2>2. pc[q] = "get_bits" => todo[q] \subseteq Positions(x, hs[at[q] + 1])
    BY <1>1 DEF Known, LookupOf
  <2>3. ASSUME MustFind(q)'
        PROVE  MustFind(q) /\ n \in Names /\ Extends(n) /\ ~ clobbered'[n]
    <3>1. pc[q] # "idle" /\ ~ clobbered'[n] /\ n \in Names /\ Extends(n)
      BY <1>2, <1>7, <2>1, <2>3 DEF MustFind
    <3>2. ~ clobbered[n]
      BY <3>1 DEF Extends
    <3> QED BY <1>1, <2>1, <2>3, <3>1, <3>2 DEF MustFind
  <2>4. ASSUME MustFind(q)', pc[q] = "get_bits"
        PROVE  InCopy(n, hs, at[q], x)'
    <3>1. InCopy(n, hs, at[q], x)
      BY <1>1, <2>3, <2>4 DEF Known, LookupOf
    <3>2. PICK last \in StageIdx : last = at[q]
      BY DEF TypeOK
    <3>3. InCopy(n, hs, last, x)
      BY <3>1, <3>2
    <3>4. InCopy(n, hs, last, x)'
      BY <2>3, <2>4, <3>3, InCopyExtends
    <3> QED BY <2>1, <3>2, <3>4
  <2>5. MustFind(q)' => res[q] # "absent"
    BY <2>3 DEF Known, LookupOf
  <2> QED BY <1>2, <2>1, <2>2, <2>4, <2>5 DEF LookupOf
<1> QED BY <1>8, <1>9, <1>10, <1>11 DEF Known

(* What q knows of a filter that was deleted is nothing, and stays true.   *)
LEMMA ForgottenKnown ==
  ASSUME Shape, NEW q \in Procs, Untouched(q), Known(q), ~ intact'[q], due'[q] = {}
  PROVE  Known(q)'
<1>1. CopyOf(q)' BY DEF CopyOf, Sound
<1>2. AddOf(q)' BY DEF AddOf, Sound
<1>3. LookupOf(q)'
  <2>1. ~ MustFind(q)' BY DEF MustFind
  <2>2. pc'[q] = "get_bits" =>
          todo'[q] \subseteq Positions(req'[q].item, hnd'[q].stages[at'[q] + 1])
    BY DEF Known, LookupOf, Untouched
  <2> QED BY <2>1, <2>2 DEF LookupOf
<1>4. PromiseOf(q)' BY DEF PromiseOf
<1> QED BY <1>1, <1>2, <1>3, <1>4 DEF Known

(* A step of p that is no DEL changes no other history of a process. *)
LEMMA OthersHistory ==
  ASSUME TypeOK, NEW p \in Procs, NEW q \in Procs \ {p}, Step(p), ~ DropKeys(p)
  PROVE  intact'[q] = intact[q] /\ due'[q] = due[q]
<1> USE DEF TypeOK
<1>1. (\E r \in Requests : Begin(p, r)) => intact'[q] = intact[q] /\ due'[q] = due[q]
  BY DEF Begin
<1>2. CreateStep(p) \/ LoadStep(p) => intact'[q] = intact[q] /\ due'[q] = due[q]
  BY DEF CreateStep, CheckExisting, WriteMeta, WriteStage0, Register,
         LoadStep, LoadMeta, LoadStage, LoadFill, histVars
<1>3. AddStep(p) => intact'[q] = intact[q] /\ due'[q] = due[q]
  BY DEF AddStep, SetNextBit, IncrFill, AppendNewStage, histVars
<1>4. ExistsStep(p) \/ Unregister(p) \/ Fail(p) => intact'[q] = intact[q] /\ due'[q] = due[q]
  BY DEF ExistsStep, HitBit, MissBit, Unregister, Fail, histVars
<1>5. Return(p) => intact'[q] = intact[q] /\ due'[q] = due[q]
  BY DEF Return
<1> QED BY <1>1, <1>2, <1>3, <1>4, <1>5 DEF Step, Serve, DropStep

(* A step of p spares every other process, or deletes its filter. *)
LEMMA OthersSpared ==
  ASSUME TypeOK, TypeOK', Shape, NEW p \in Procs, NEW q \in Procs \ {p}, Step(p)
  PROVE  Spared(q) \/ (~ intact'[q] /\ due'[q] = {})
<1>2. CASE DropKeys(p)
  <2> DEFINE m == hnd[p].name
  <2>1. /\ Del(m, DropStages(hnd[p]), DropShards(hnd[p]))
        /\ Forget(m)
    BY <1>2 DEF DropKeys
  <2>2. /\ hnd[p] # Nil /\ m \in Names
    BY <1>2 DEF DropKeys, Shape, ShapeOf, TypeOK, Handles
  <2> HIDE DEF m
  <2>3. CASE Uses(q, m)
    <3>1. ~ intact'[q] /\ due'[q] = {}
      BY <2>1, <2>3 DEF Forget
    <3> QED BY <3>1
  <2>4. CASE ~ Uses(q, m)
    <3>1. intact'[q] = intact[q] /\ due'[q] = due[q]
      BY <2>1, <2>4 DEF Forget, TypeOK
    <3>2. ASSUME NEW n \in Names, n # m
          PROVE  Extends(n)
      <4>1. /\ meta'[n] = meta[n] /\ stageMeta'[n] = stageMeta[n] /\ bits'[n] = bits[n]
            /\ clobbered'[n] = clobbered[n]
        BY <2>1, <2>2, <3>2 DEF Del, Forget, TypeOK, StoreTypeOK
      <4>2. meta[n] # Nil => meta[n].stage_count \in Int
        BY ChainTypes DEF TypeOK
      <4> QED BY <4>1, <4>2 DEF Extends
    <3>3. Spared(q)
      BY <2>4, <3>1, <3>2 DEF Spared
    <3> QED BY <3>3
  <2> QED BY <2>3, <2>4
<1>3. CASE ~ DropKeys(p)
  <2>1. intact'[q] = intact[q] /\ due'[q] = due[q]
    BY <1>3, OthersHistory
  <2>2. Spared(q)
    BY <1>3, <2>1, StepExtends DEF Spared
  <2> QED BY <2>2
<1> QED BY <1>2, <1>3

(* What a step of p leaves of what every other process knows. *)
LEMMA OthersKnown ==
  ASSUME TypeOK, TypeOK', Shape, NEW p \in Procs, NEW q \in Procs \ {p}, Step(p), Known(q)
  PROVE  Known(q)'
BY OthersUntouched, OthersSpared, SparedKnown, ForgottenKnown

-----------------------------------------------------------------------------
(* The process that takes the step.                                        *)

(* A request that brings no Filter is promised what the filter holds; one  *)
(* that does goes on with what its Filter was promised.                    *)
LEMMA BeginKnown ==
  ASSUME TypeOK, Shape, AckedItemsHeld, NEW p \in Procs, NEW r \in Requests, Begin(p, r), Known(p)
  PROVE  Known(p)'
<1>1. /\ r.op \in {"create", "add", "exists", "stats", "delete"}
      /\ r # Nil
      /\ r.name \in Names
  BY RequestTypes
<1>2. /\ req'[p] = r
      /\ due'[p] = Promise(p, r)
      /\ acked' = acked /\ intact' = intact /\ clobbered' = clobbered
      /\ meta' = meta /\ stageMeta' = stageMeta /\ bits' = bits
  BY DEF Begin, TypeOK, storeVars
<1>3. pc[p] = "idle" /\ res[p] = "none"
  BY DEF Begin, Shape, Pending
<1>4. CASE hnd[p] = Nil
  <2>1. /\ pc'[p] = IF r.op = "create" THEN "check" ELSE "load_meta"
        /\ hnd'[p] = Nil
        /\ res'[p] = "none"
    BY <1>3, <1>4 DEF Begin, Goto, TypeOK
  <2>2. CopyOf(p)' BY <2>1 DEF CopyOf
  <2>3. AddOf(p)' BY <2>1 DEF AddOf, Stored
  <2>4. PromiseOf(p)'
    <3>1. r.op = "create" => due'[p] = {}
      BY <1>2, <1>4 DEF Promise
    <3>2. ASSUME ~ clobbered[r.name], NEW y \in due'[p] PROVE Held(r.name, y)'
      <4>1. y \in acked[r.name] \cup HeldItems(r.name)
        BY <1>2, <1>4, <3>2 DEF Promise
      <4>2. Held(r.name, y)
        BY <1>1, <3>2, <4>1 DEF AckedItemsHeld, HeldItems
      <4> QED BY <1>2, <4>2 DEF Held
    <3> QED BY <1>2, <2>1, <3>1, <3>2 DEF PromiseOf, Creating
  <2>5. LookupOf(p)' BY <2>1 DEF LookupOf
  <2> QED BY <2>2, <2>3, <2>4, <2>5 DEF Known
<1>5. CASE hnd[p] # Nil
  <2>1. /\ r.op # "create"
        /\ r.name = hnd[p].name
        /\ Enter(p, r, hnd[p])
    BY <1>5 DEF Begin
  <2>2. due'[p] = due[p]
    BY <1>2, <1>5 DEF Promise
  <2>3. /\ hnd'[p] = hnd[p]
        /\ pc'[p] = EntryLabel[r.op]
        /\ at'[p] = Len(hnd[p].stages) - 1
        /\ r.op \in {"add", "exists"} => todo'[p] = Positions(r.item, Last(hnd[p].stages))
    BY <2>1 DEF Enter, TypeOK
  <2>4. at'[p] + 1 = Len(hnd[p].stages)
    BY <1>5, <2>3, StoreAssumption DEF Shape, ShapeOf
  <2>5. r.op \in {"add", "exists"} => todo'[p] = Positions(r.item, hnd[p].stages[at'[p] + 1])
    BY <2>3, <2>4 DEF Last
  <2>6. pc'[p] = [add |-> "set_bits", exists |-> "get_bits", stats |-> "done", delete |-> "del"][r.op]
    BY <2>3 DEF EntryLabel
  <2>7. CopyOf(p)'
    BY <1>1, <1>2, <1>5, <2>1, <2>3, <2>6 DEF CopyOf, Sound, Matches, Known
  <2>8. AddOf(p)'
    BY <1>1, <1>2, <2>1, <2>3, <2>5, <2>6 DEF AddOf, Stored, Loading
  <2>9. ~ clobbered[hnd[p].name] => \A y \in due[p] :
          intact[p] /\ InCopy(hnd[p].name, hnd[p].stages, Len(hnd[p].stages) - 1, y)
    BY <1>5 DEF Known, PromiseOf
  <2>10. PromiseOf(p)'
    <3>1. pc'[p] \notin Creating
      BY <1>1, <2>1, <2>6 DEF Creating
    <3>2. hnd'[p] # Nil
      BY <1>5, <2>3
    <3>3. ASSUME ~ clobbered'[hnd'[p].name], NEW y \in due'[p]
          PROVE  intact'[p] /\ InCopy(hnd[p].name, hnd[p].stages, Len(hnd[p].stages) - 1, y)'
      <4>1. intact[p] /\ InCopy(hnd[p].name, hnd[p].stages, Len(hnd[p].stages) - 1, y)
        BY <1>2, <2>2, <2>3, <2>9, <3>3
      <4>2. (bits' = bits /\ hnd'[p] = hnd[p]) /\ intact' = intact
        BY <1>2, <2>3
      <4> QED BY <4>1, <4>2 DEF InCopy
    <3> QED BY <3>1, <3>2, <3>3 DEF PromiseOf
  <2>11. LookupOf(p)'
    <3>1. res'[p] # "absent"
      BY <1>3, <2>1 DEF Enter, TypeOK
    <3>2. pc'[p] = "get_bits" => r.op = "exists"
      <4>1. r.op \in {"create", "add", "exists", "stats", "delete"}
        BY DEF Requests, CreateRequests, ItemRequests, NameRequests
      <4>2. r.op \in {"add", "stats", "delete", "exists"}
        BY <2>1, <4>1
      <4> QED BY <2>6, <4>2
    <3>3. pc'[p] = "get_bits" =>
            todo'[p] \subseteq Positions(req'[p].item, hnd'[p].stages[at'[p] + 1])
      BY <1>2, <2>3, <2>5, <3>2
    <3>4. MustFind(p)' => InCopy(r.name, hnd[p].stages, Len(hnd[p].stages) - 1, r.item)
      BY <1>2, <2>1, <2>2, <2>9 DEF MustFind
    <3>5. MustFind(p)' => InCopy(req[p].name, hnd[p].stages, at[p], req[p].item)'
      BY <1>2, <2>3, <3>4 DEF InCopy
    <3> QED BY <3>1, <3>3, <3>5 DEF LookupOf
  <2> QED BY <2>7, <2>8, <2>10, <2>11 DEF Known
<1> QED BY <1>4, <1>5

(* New knows the hashes it wrote, as long as nobody wrote over them.       *)
LEMMA CreateKnown ==
  ASSUME TypeOK, TypeOK', Shape, NEW p \in Procs, CreateStep(p), Known(p)
  PROVE  Known(p)'
<1>1. /\ req[p] \in Requests
      /\ req[p].op = "create"
      /\ hnd[p] = Nil
      /\ pc[p] # "idle"
  BY DEF CreateStep, CheckExisting, WriteMeta, WriteStage0, Register, TypeOK, Shape, ShapeOf, Creating
<1>2. PICK n, par : n = req[p].name /\ par = req[p].par
  OBVIOUS
<1>3. n \in Names /\ par \in Params
  BY <1>1, <1>2, RequestTypes
<1>4. /\ req'[p] = req[p] /\ due' = due /\ acked' = acked
      /\ n = req'[p].name /\ par = req'[p].par
      /\ pc'[p] \in {"write_meta", "write_stage0", "register", "done"}
  BY <1>2 DEF CreateStep, CheckExisting, WriteMeta, WriteStage0, Register, TypeOK, histVars, Finish, Goto
<1>5. AddOf(p)'
  BY <1>1, <1>4 DEF AddOf
<1>6. PromiseOf(p)' /\ LookupOf(p)'
  <2>1. pc[p] \in Creating
    BY DEF CreateStep, CheckExisting, WriteMeta, WriteStage0, Register, Creating
  <2>2. due'[p] = {}
    BY <1>4, <2>1 DEF Known, PromiseOf
  <2> QED BY <1>4, <2>2 DEF PromiseOf, LookupOf, MustFind
<1>7. CopyOf(p)'
  <2>1. CASE CheckExisting(p)
    <3>1. pc'[p] \in {"write_meta", "done"} /\ hnd'[p] = Nil
      BY <1>1, <2>1 DEF CheckExisting, Finish, Goto, TypeOK
    <3> QED BY <3>1 DEF CopyOf
  <2>2. CASE WriteMeta(p)
    <3>1. pc'[p] = "write_stage0" /\ hnd'[p] = Nil
      BY <1>1, <2>2 DEF WriteMeta, Goto, TypeOK
    <3>2. meta'[n] = [par |-> par, stage_count |-> 1]
      BY <1>2, <1>3, <2>2 DEF WriteMeta, HSetMeta, TypeOK, StoreTypeOK
    <3>3. [par |-> par, stage_count |-> 1] \in Meta
      BY <1>3, StoreAssumption DEF Meta
    <3>4. meta'[n] # Nil
      BY <3>2, <3>3, StoreAssumption
    <3> QED BY <1>4, <3>1, <3>4 DEF CopyOf
  <2>3. CASE WriteStage0(p)
    <3>1. pc'[p] = "register" /\ hnd'[p] = Nil /\ pc[p] = "write_stage0"
      BY <1>1, <2>3 DEF WriteStage0, Goto, TypeOK
    <3>2. /\ meta' = meta
          /\ stageMeta' = [stageMeta EXCEPT ![n][0] = computeStage(par, 0)]
          /\ intact' = intact
          /\ clobbered'[n] = (clobbered[n] \/ stageMeta[n][0] # Nil)
      BY <1>2, <1>3, <2>3 DEF WriteStage0, HSetStage, computeStage, TypeOK
    <3>3. stageMeta'[n][0] = computeStage(par, 0)
      BY <1>3, <3>2, StoreAssumption DEF TypeOK, StoreTypeOK, StageIdx
    <3>4. Sound(p, n)' => Sound(p, n)
      BY <3>2 DEF Sound
    <3>5. Sound(p, n)' => meta'[n] # Nil
      BY <1>2, <3>1, <3>2, <3>4 DEF Known, CopyOf
    <3> QED BY <1>4, <3>1, <3>3, <3>5 DEF CopyOf
  <2>4. CASE Register(p)
    <3> DEFINE h == [name |-> n, par |-> par, stages |-> <<computeStage(par, 0)>>]
    <3>1. /\ pc'[p] = "done" /\ hnd'[p] = h /\ pc[p] = "register"
          /\ meta' = meta /\ stageMeta' = stageMeta /\ intact' = intact /\ clobbered' = clobbered
      BY <1>2, <2>4 DEF Register, SAdd, Finish, TypeOK, histVars
    <3>2. Sound(p, n)' => meta[n] # Nil /\ stageMeta[n][0] = computeStage(par, 0)
      BY <1>2, <3>1 DEF Known, CopyOf, Sound
    <3>3. meta[n] # Nil => 1 <= meta[n].stage_count
      BY <1>3, ChainTypes, StoreAssumption DEF TypeOK
    <3>4. Sound(p, n)' => Matches(n, <<computeStage(par, 0)>>)'
      BY <3>1, <3>2, <3>3 DEF Matches
    <3>5. hnd'[p].name = n /\ hnd'[p].stages = <<computeStage(par, 0)>>
      BY <3>1
    <3> QED BY <3>1, <3>4, <3>5 DEF CopyOf
  <2> QED BY <2>1, <2>2, <2>3, <2>4 DEF CreateStep
<1> QED BY <1>5, <1>6, <1>7 DEF Known

(* Drop withdraws every promise about the filter it deletes.               *)
LEMMA DropKnown ==
  ASSUME TypeOK, Shape, NEW p \in Procs, DropStep(p), Known(p)
  PROVE  Known(p)'
<1>1. /\ req[p] # Nil /\ hnd[p] # Nil
      /\ req[p].op = "delete" /\ req[p].name = hnd[p].name
      /\ pc[p] \in {"del", "srem"}
  BY DEF DropStep, DropKeys, Unregister, Shape, ShapeOf
<1>2. req'[p] = req[p] /\ hnd'[p] = hnd[p] /\ pc'[p] \in {"srem", "done"}
  BY DEF DropStep, DropKeys, Unregister, Finish, Goto, TypeOK
<1>3. AddOf(p)' BY <1>1, <1>2 DEF AddOf
<1>4. CASE DropKeys(p)
  <2>1. ~ intact'[p] /\ due'[p] = {}
    BY <1>1, <1>4 DEF DropKeys, Forget, Uses
  <2>2. CopyOf(p)' BY <2>1 DEF CopyOf, Sound
  <2>3. PromiseOf(p)' BY <2>1 DEF PromiseOf
  <2>4. LookupOf(p)' BY <1>1, <1>2, <2>1 DEF LookupOf, MustFind
  <2> QED BY <1>3, <2>2, <2>3, <2>4 DEF Known
<1>5. CASE Unregister(p)
  <2>1. UNCHANGED <<meta, stageMeta, bits, acked, clobbered, intact, due>>
    BY <1>5 DEF Unregister, SRem, histVars
  <2>2. CopyOf(p)' BY <1>2, <2>1 DEF CopyOf, Sound, Matches, Known
  <2>3. PromiseOf(p)' BY <1>1, <1>2, <2>1 DEF PromiseOf, InCopy, Creating, Known
  <2>4. LookupOf(p)' BY <1>1, <1>2, <2>1 DEF LookupOf, MustFind
  <2> QED BY <1>3, <2>2, <2>3, <2>4 DEF Known
<1> QED BY <1>4, <1>5 DEF DropStep

(* A request that ended promises nothing more.                             *)
LEMMA EndKnown ==
  ASSUME TypeOK, Shape, NEW p \in Procs, Fail(p) \/ Return(p), Known(p)
  PROVE  Known(p)'
<1>1. CASE Fail(p)
  <2>1. /\ pc'[p] = "done" /\ res'[p] = "error" /\ req'[p] = req[p] /\ pc[p] # "idle"
        /\ hnd'[p] \in {hnd[p], Nil}
        /\ UNCHANGED <<meta, stageMeta, bits, acked, clobbered, intact, due>>
    BY <1>1 DEF Fail, Finish, storeVars, histVars, TypeOK
  <2>2. CopyOf(p)' BY <2>1 DEF CopyOf, Sound, Matches, Known
  <2>3. AddOf(p)' BY <2>1 DEF AddOf, Stored, Loading
  <2>4. PromiseOf(p)' BY <2>1 DEF PromiseOf, InCopy, Creating, Known
  <2>5. LookupOf(p)' BY <2>1 DEF LookupOf
  <2> QED BY <2>2, <2>3, <2>4, <2>5 DEF Known
<1>2. CASE Return(p)
  <2>1. /\ pc'[p] = "idle" /\ res'[p] = "none" /\ pc[p] = "done"
        /\ hnd'[p] \in {hnd[p], Nil}
        /\ intact'[p] => intact[p]
        /\ UNCHANGED <<meta, stageMeta, bits, clobbered>>
    BY <1>2 DEF Return, storeVars, TypeOK
  <2>2. CopyOf(p)' BY <2>1 DEF CopyOf, Sound, Matches, Known
  <2>3. AddOf(p)' BY <2>1 DEF AddOf
  <2>4. LookupOf(p)' BY <2>1 DEF LookupOf, MustFind
  <2>5. PromiseOf(p)'
    <3>1. CASE ~ Keeps(p)
      <4>1. due'[p] = {} BY <1>2, <3>1 DEF Return, TypeOK
      <4> QED BY <4>1 DEF PromiseOf
    <3>2. CASE Keeps(p)
      <4>1. /\ hnd'[p] = hnd[p] /\ hnd[p] # Nil /\ intact'[p] = intact[p]
            /\ due'[p] = IF Stores(p) THEN due[p] \cup {req[p].item} ELSE due[p]
        BY <1>2, <3>2 DEF Return, Keeps, TypeOK
      <4>2. ASSUME ~ clobbered[hnd[p].name], NEW y \in due'[p]
            PROVE  intact[p] /\ InCopy(hnd[p].name, hnd[p].stages, Len(hnd[p].stages) - 1, y)
        <5>1. CASE y \in due[p]
          BY <4>1, <4>2, <5>1 DEF Known, PromiseOf
        <5>2. CASE y \notin due[p]
          <6>1. Stores(p) /\ y = req[p].item
            BY <4>1, <5>2
          <6>2. req[p].name = hnd[p].name
            BY <2>1, <4>1 DEF Shape, ShapeOf
          <6> QED BY <2>1, <4>1, <4>2, <6>1, <6>2 DEF Known, AddOf, Stores, Stored, Sound
        <5> QED BY <5>1, <5>2
      <4> QED BY <2>1, <4>1, <4>2 DEF PromiseOf, InCopy, Creating
    <3> QED BY <3>1, <3>2
  <2> QED BY <2>2, <2>3, <2>4, <2>5 DEF Known
<1> QED BY <1>1, <1>2

(* Load: what it has read of an intact chain is the chain's beginning. *)
LEMMA LoadKnown ==
  ASSUME TypeOK, TypeOK', Shape, NEW p \in Procs, LoadStep(p), Known(p)
  PROVE  Known(p)'
<1>0. StoreTypeOK BY DEF TypeOK
<1>1. /\ req[p] \in Requests
      /\ req[p].op \in {"add", "exists", "stats", "delete"}
      /\ hnd[p] # Nil => req[p].op = "add" /\ req[p].name = hnd[p].name
      /\ pc[p] \in Loading
      /\ pc[p] # "idle"
      /\ res[p] = "none"
  <2>1. pc[p] \in Loading /\ req[p] # Nil
    BY DEF LoadStep, LoadMeta, LoadStage, LoadFill, Shape, ShapeOf, Loading
  <2>2. req[p] \in Requests /\ req[p].op # "create"
    BY <2>1 DEF TypeOK, Shape, ShapeOf
  <2> QED BY <2>1, <2>2, RequestTypes DEF Shape, ShapeOf, Pending, Loading
<1>2. PICK n, x, hn, hs, ls, lc :
        /\ n = req[p].name /\ x = req[p].item
        /\ hn = hnd[p].name /\ hs = hnd[p].stages
        /\ ls = ld[p].stages /\ lc = ld[p].count
  OBVIOUS
<1>3. n \in Names
  BY <1>1, <1>2, RequestTypes
<1>4. /\ req'[p] = req[p] /\ n = req'[p].name /\ x = req'[p].item
      /\ UNCHANGED <<meta, stageMeta, bits, acked, clobbered, due>>
  BY <1>2 DEF LoadStep, LoadMeta, LoadStage, LoadFill, storeVars, histVars
<1>5. hnd[p] # Nil => hn = n /\ hs \in Seq(Stages) /\ Len(hs) \in 1 .. MaxStages
  BY <1>1, <1>2 DEF TypeOK, Handles, Shape, ShapeOf
<1>6. Stored(p) /\ req[p].op = "add" /\ Sound(p, n) =>
        Held(n, x) /\ (hnd[p] # Nil => InCopy(hn, hs, Len(hs) - 1, x))
  BY <1>1, <1>2 DEF Known, AddOf
<1>7. hnd[p] # Nil /\ intact'[p] = intact[p] /\ Sound(p, hn)' => Matches(hn, hs)'
  BY <1>2, <1>4 DEF Known, CopyOf, Sound, Matches
<1>8. \A y \in due[p] : ~ clobbered[n] /\ hnd[p] # Nil =>
         intact[p] /\ InCopy(hn, hs, Len(hs) - 1, y)
  BY <1>2, <1>5 DEF Known, PromiseOf
<1>9. CASE LoadMeta(p)
  <2>1. CASE meta[n] = Nil
    <3>1. /\ pc'[p] = "done" /\ res'[p] = "not_found"
          /\ hnd' = hnd /\ ld' = ld /\ intact' = intact
      BY <1>2, <1>9, <2>1 DEF LoadMeta, Finish, TypeOK
    <3>2. CopyOf(p)' BY <1>2, <1>7, <3>1 DEF CopyOf
    <3>3. AddOf(p)' BY <3>1 DEF AddOf, Stored, Loading
    <3>4. LookupOf(p)' BY <3>1 DEF LookupOf
    <3>5. PromiseOf(p)'
      BY <1>2, <1>4, <1>5, <1>8, <3>1 DEF PromiseOf, InCopy, Creating
    <3> QED BY <3>2, <3>3, <3>4, <3>5 DEF Known
  <2>2. CASE meta[n] # Nil
    <3>1. /\ pc'[p] = "load_stage" /\ res'[p] = "none" /\ pc[p] = "load_meta"
          /\ hnd' = hnd
          /\ ld'[p] = [par |-> meta[n].par, count |-> meta[n].stage_count,
                       stages |-> <<>>, fills |-> <<>>]
          /\ intact'[p] = ((hnd[p] = Nil) \/ intact[p])
      BY <1>1, <1>2, <1>9, <2>2 DEF LoadMeta, Goto, TypeOK
    <3>2. meta[n].stage_count \in 1 .. MaxStages
      BY <1>0, <1>3, <2>2, ChainTypes
    <3>3. ld'[p].stages = <<>> /\ ld'[p].count = meta[n].stage_count
      BY <3>1
    <3>4. CopyOf(p)'
      <4>1. Matches(n, <<>>)'
        BY <1>4, <2>2, <3>2, StoreAssumption DEF Matches
      <4>2. hnd[p] # Nil /\ Sound(p, hn)' => Matches(hn, hs)'
        <5>1. hnd[p] # Nil => intact'[p] = intact[p]
          BY <3>1 DEF TypeOK
        <5> QED BY <1>7, <5>1
      <4>3. ld'[p].count <= meta'[n].stage_count
        BY <1>4, <3>2, <3>3
      <4>4. hnd[p] # Nil /\ Sound(p, n)' => Len(hs) <= ld'[p].count
        BY <1>4, <1>5, <3>3, <4>2 DEF Matches
      <4> QED BY <1>2, <1>4, <3>1, <3>3, <4>1, <4>2, <4>3, <4>4 DEF CopyOf
    <3>5. AddOf(p)'
      <4>1. Stored(p)' /\ Sound(p, n)' => Stored(p) /\ Sound(p, n)
        BY <1>4, <3>1 DEF Stored, Sound, Loading
      <4> QED BY <1>2, <1>4, <1>6, <3>1, <4>1 DEF AddOf, Held, InCopy
    <3>6. LookupOf(p)' BY <3>1 DEF LookupOf
    <3>7. PromiseOf(p)'
      <4>1. ASSUME hnd[p] = Nil, ~ clobbered[n], NEW y \in due[p]
            PROVE  intact'[p] /\ \E i \in 0 .. ld'[p].count - 1 : HeldIn(n, i, y)'
        <5>1. Held(n, y)
          BY <1>2, <3>1, <4>1 DEF Known, PromiseOf
        <5>2. PICK i \in 0 .. meta[n].stage_count - 1 : HeldIn(n, i, y)
          BY <5>1 DEF Held, HeldIn
        <5>3. HeldIn(n, i, y)'
          BY <1>4, <5>2 DEF HeldIn
        <5> QED BY <3>1, <3>3, <4>1, <5>2, <5>3
      <4>2. hnd[p] # Nil => intact'[p] = intact[p]
        BY <3>1 DEF TypeOK
      <4> QED BY <1>2, <1>4, <1>5, <1>8, <3>1, <4>1, <4>2 DEF PromiseOf, InCopy, Creating
    <3> QED BY <3>4, <3>5, <3>6, <3>7 DEF Known
  <2> QED BY <2>1, <2>2
<1>10. CASE LoadStage(p)
  <2> DEFINE st == stageMeta[n][Len(ls)]
  <2>1. /\ ld[p] \in Loads /\ Len(ld[p].stages) < ld[p].count /\ pc[p] = "load_stage"
    BY <1>10 DEF LoadStage, TypeOK, Shape, ShapeOf
  <2>2. /\ ls \in Seq(Stages) /\ lc \in 1 .. MaxStages /\ Len(ls) < lc /\ Len(ls) \in StageIdx
    BY <1>2, <2>1, StoreAssumption DEF Loads, StageIdx
  <2>3. st \in Stages \cup {Nil}
    BY <1>3, <2>2 DEF TypeOK, StoreTypeOK
  <2>4. hnd' = hnd /\ intact' = intact
    BY <1>10 DEF LoadStage, histVars
  <2>5. Sound(p, n) =>
          /\ Matches(n, ls) /\ lc <= meta[n].stage_count
          /\ hnd[p] # Nil => Len(hs) <= lc
    BY <1>2, <2>1 DEF Known, CopyOf
  <2>7. CASE st = Nil
    <3>1. pc'[p] = "done" /\ res'[p] = "error"
      BY <1>2, <1>10, <2>7 DEF LoadStage, Finish, TypeOK
    <3>2. CopyOf(p)' BY <1>2, <1>7, <2>4, <3>1 DEF CopyOf
    <3>3. AddOf(p)' BY <3>1 DEF AddOf, Stored, Loading
    <3>4. LookupOf(p)' BY <3>1 DEF LookupOf
    <3>5. PromiseOf(p)'
      BY <1>2, <1>4, <1>5, <1>8, <2>4, <3>1 DEF PromiseOf, InCopy, Creating
    <3> QED BY <3>2, <3>3, <3>4, <3>5 DEF Known
  <2>8. CASE st # Nil
    <3>1. /\ pc'[p] = "load_fill" /\ res'[p] = "none"
          /\ ld'[p] = [ld[p] EXCEPT !.stages = Append(ls, st)]
      BY <1>1, <1>2, <1>10, <2>8 DEF LoadStage, Goto, TypeOK
    <3>2. ld'[p].stages = Append(ls, st) /\ ld'[p].count = lc
      BY <1>2, <2>1, <3>1 DEF Loads
    <3>3. CopyOf(p)'
      <4>0. PICK l : l = Append(ls, st) OBVIOUS
      <4>1. ASSUME Sound(p, n) PROVE Matches(n, l)' /\ lc <= meta'[n].stage_count
        <5>1. Matches(n, ls) /\ lc <= meta[n].stage_count /\ meta[n].stage_count \in 1 .. MaxStages
          BY <1>0, <1>3, <2>5, <4>1, ChainTypes DEF Matches
        <5>3. Len(l) = Len(ls) + 1 /\ \A i \in 1 .. Len(l) : l[i] = IF i <= Len(ls) THEN ls[i] ELSE st
          BY <2>2, <2>3, <2>8, <4>0
        <5>4. Len(l) <= meta[n].stage_count
          BY <2>2, <5>1, <5>3, StoreAssumption DEF StageIdx
        <5>5. ASSUME NEW i \in 1 .. Len(l) PROVE stageMeta[n][i - 1] = l[i]
          <6>1. CASE i <= Len(ls)
            BY <2>2, <5>1, <5>3, <6>1 DEF Matches
          <6>2. CASE ~ (i <= Len(ls))
            <7>1. i - 1 = Len(ls) BY <2>2, <5>3, <6>2
            <7> QED BY <5>3, <6>2, <7>1
          <6> QED BY <6>1, <6>2
        <5> QED BY <1>4, <5>1, <5>4, <5>5 DEF Matches
      <4>2. Sound(p, n)' => Sound(p, n) /\ (hnd[p] # Nil => Len(hs) <= lc)
        BY <1>4, <2>4, <2>5 DEF Sound
      <4>3. ld'[p].stages = l BY <3>2, <4>0
      <4> HIDE DEF st
      <4> QED BY <1>2, <1>4, <1>7, <2>4, <3>1, <3>2, <4>1, <4>2, <4>3 DEF CopyOf
    <3>4. AddOf(p)'
      <4>1. Stored(p)' /\ Sound(p, n)' => Stored(p) /\ Sound(p, n)
        BY <1>1, <1>4, <2>4, <3>1 DEF Stored, Sound, Loading
      <4> QED BY <1>2, <1>4, <1>6, <2>4, <3>1, <4>1 DEF AddOf, Held, InCopy
    <3>5. LookupOf(p)' BY <3>1 DEF LookupOf
    <3>6. PromiseOf(p)'
      <4>1. ASSUME hnd[p] = Nil, ~ clobbered[n], NEW y \in due[p]
            PROVE  intact[p] /\ \E i \in 0 .. lc - 1 : HeldIn(n, i, y)'
        <5>1. intact[p] /\ \E i \in 0 .. lc - 1 : HeldIn(n, i, y)
          BY <1>2, <2>1, <4>1 DEF Known, PromiseOf
        <5> QED BY <1>4, <5>1 DEF HeldIn
      <4>2. PICK c : c = ld'[p].count /\ c = lc
        BY <3>2
      <4>3. hnd[p] # Nil /\ ~ clobbered[hnd[p].name] => \A y \in due[p] :
              intact[p] /\ InCopy(hnd[p].name, hnd[p].stages, Len(hnd[p].stages) - 1, y)
        BY DEF Known, PromiseOf
      <4>4. hnd[p] # Nil /\ ~ clobbered[hnd[p].name] => \A y \in due[p] :
              intact[p] /\ InCopy(hnd[p].name, hnd[p].stages, Len(hnd[p].stages) - 1, y)'
        BY <1>4, <2>4, <4>3 DEF InCopy
      <4>5. hnd[p] = Nil /\ ~ clobbered[n] => \A y \in due[p] :
              intact[p] /\ \E i \in 0 .. c - 1 : HeldIn(n, i, y)'
        BY <4>1, <4>2
      <4>6. /\ hnd'[p] = hnd[p] /\ due'[p] = due[p] /\ intact'[p] = intact[p]
            /\ clobbered' = clobbered /\ req'[p].name = n
        BY <1>2, <1>4, <1>5, <1>8, <2>4
      <4> QED BY <2>4, <3>1, <4>2, <4>4, <4>5, <4>6 DEF PromiseOf, Creating
    <3> QED BY <3>3, <3>4, <3>5, <3>6 DEF Known
  <2> QED BY <2>7, <2>8
<1>11. CASE LoadFill(p)
  <2>1. /\ ld[p] \in Loads /\ Len(ld[p].stages) \in 1 .. ld[p].count /\ pc[p] = "load_fill"
    BY <1>11 DEF LoadFill, TypeOK, Shape, ShapeOf
  <2>2. ls \in Seq(Stages) /\ lc \in 1 .. MaxStages /\ Len(ls) \in 1 .. lc
    BY <1>2, <2>1 DEF Loads
  <2>3. ld'[p].stages = ls /\ ld'[p].count = lc /\ intact' = intact
    BY <1>2, <1>11, <2>1 DEF LoadFill, TypeOK, Loads, histVars
  <2>4. Sound(p, n) =>
          /\ Matches(n, ls) /\ lc <= meta[n].stage_count
          /\ hnd[p] # Nil => Len(hs) <= lc
    BY <1>2, <2>1 DEF Known, CopyOf
  <2>5. Sound(p, n)' <=> Sound(p, n)
    BY <1>4, <2>3 DEF Sound
  <2>6. Sound(p, n) => Matches(n, ls)'
    BY <1>4, <2>4 DEF Matches
  <2>7. ASSUME hnd[p] = Nil, ~ clobbered[n], NEW y \in due[p]
        PROVE  intact[p] /\ \E i \in 0 .. lc - 1 : HeldIn(n, i, y)
    BY <1>2, <2>1, <2>7 DEF Known, PromiseOf
  <2>9. CASE Len(ls) < lc
    <3>1. pc'[p] = "load_stage" /\ res'[p] = "none" /\ hnd' = hnd
      BY <1>1, <1>2, <1>11, <2>9 DEF LoadFill, Goto, TypeOK
    <3>3. CopyOf(p)'
      BY <1>2, <1>4, <1>7, <2>3, <2>4, <2>5, <2>6, <3>1 DEF CopyOf
    <3>4. AddOf(p)'
      <4>1. Stored(p)' => Stored(p)
        BY <1>1, <3>1 DEF Stored, Loading
      <4> QED BY <1>2, <1>4, <1>6, <2>5, <3>1, <4>1 DEF AddOf, Held, InCopy
    <3>5. LookupOf(p)' BY <3>1 DEF LookupOf
    <3>6. PromiseOf(p)'
      <4>1. ASSUME hnd[p] = Nil, ~ clobbered[n], NEW y \in due[p]
            PROVE  intact[p] /\ \E i \in 0 .. lc - 1 : HeldIn(n, i, y)'
        BY <1>4, <2>7, <4>1 DEF HeldIn
      <4> QED BY <1>2, <1>4, <1>5, <1>8, <2>3, <3>1, <4>1 DEF PromiseOf, InCopy, Creating
    <3> QED BY <3>3, <3>4, <3>5, <3>6 DEF Known
  <2>10. CASE ~ (Len(ls) < lc) /\ hnd[p] = Nil
    <3> DEFINE h == [name |-> n, par |-> ld[p].par, stages |-> ls]
    <3>1. Enter(p, req[p], h)
      BY <1>2, <1>11, <2>10 DEF LoadFill
    <3>2. /\ hnd'[p].name = n /\ hnd'[p].stages = ls
          /\ pc'[p] = EntryLabel[req[p].op]
          /\ at'[p] = Len(ls) - 1
          /\ res'[p] = IF req[p].op = "stats" THEN "ok" ELSE "none"
          /\ req[p].op \in {"add", "exists"} => todo'[p] = Positions(x, Last(ls))
      BY <1>1, <1>2, <3>1 DEF Enter, TypeOK
    <3>3. at'[p] + 1 = Len(ls)
      BY <2>2, <3>2, StoreAssumption
    <3>4. req[p].op \in {"add", "exists"} => todo'[p] = Positions(x, ls[at'[p] + 1])
      BY <3>2, <3>3 DEF Last
    <3> HIDE DEF h
    <3>5. pc'[p] = [add |-> "set_bits", exists |-> "get_bits", stats |-> "done", delete |-> "del"][req[p].op]
      BY <3>2 DEF EntryLabel
    <3>6. CopyOf(p)'
      BY <1>1, <2>5, <2>6, <3>2, <3>5 DEF CopyOf
    <3>7. AddOf(p)'
      BY <1>1, <1>4, <3>2, <3>4, <3>5 DEF AddOf, Stored, Loading
    <3>8. ASSUME ~ clobbered[n], NEW y \in due[p]
          PROVE  intact[p] /\ InCopy(n, ls, Len(ls) - 1, y)'
      <4>1. PICK i \in 0 .. lc - 1 : HeldIn(n, i, y)
        BY <2>7, <2>10, <3>8
      <4>2. intact[p] /\ Matches(n, ls)
        BY <2>4, <2>7, <2>10, <3>8 DEF Sound
      <4>3. i \in 0 .. Len(ls) - 1 /\ i + 1 \in 1 .. Len(ls)
        BY <2>2, <2>10, StoreAssumption
      <4>4. stageMeta[n][i] = ls[i + 1]
        <5>1. stageMeta[n][(i + 1) - 1] = ls[i + 1]
          BY <4>2, <4>3 DEF Matches
        <5>2. (i + 1) - 1 = i OBVIOUS
        <5> QED BY <5>1, <5>2
      <4> QED BY <1>4, <4>1, <4>2, <4>3, <4>4 DEF HeldIn, InCopy
    <3>9. /\ pc'[p] \in {"set_bits", "get_bits", "done", "del"}
          /\ pc'[p] = "get_bits" => req[p].op = "exists"
          /\ res'[p] # "absent"
      BY <1>1, <3>2, <3>5
    <3>10. PromiseOf(p)'
      BY <1>4, <2>3, <3>2, <3>8, <3>9 DEF PromiseOf, Creating
    <3>11. LookupOf(p)'
      BY <1>4, <3>2, <3>4, <3>8, <3>9 DEF LookupOf, MustFind
    <3> QED BY <3>6, <3>7, <3>10, <3>11 DEF Known
  <2>11. CASE ~ (Len(ls) < lc) /\ hnd[p] # Nil
    <3>1. /\ pc'[p] = "done" /\ res'[p] = "ok"
          /\ hnd'[p] = [hnd[p] EXCEPT !.stages = ls]
      BY <1>2, <1>11, <2>11 DEF LoadFill, Finish, TypeOK
    <3>2. hnd'[p].name = n /\ hnd'[p].stages = ls
      <4>1. hnd[p] \in Handles BY <2>11 DEF TypeOK
      <4> QED BY <1>1, <1>2, <2>11, <3>1, <4>1 DEF Handles
    <3>3. CopyOf(p)' BY <2>5, <2>6, <3>1, <3>2 DEF CopyOf
    <3>4. ASSUME Sound(p, n), NEW y, InCopy(hn, hs, Len(hs) - 1, y)
          PROVE  InCopy(n, ls, Len(ls) - 1, y)'
      <4>1. Matches(n, hs) /\ Matches(n, ls) /\ Len(hs) <= Len(ls)
        BY <1>2, <1>5, <2>2, <2>4, <2>11, <3>4 DEF Known, CopyOf
      <4>2. InCopy(n, ls, Len(ls) - 1, y)
        BY <1>5, <2>2, <2>11, <3>4, <4>1, InLongerCopy
      <4> QED BY <1>4, <4>2 DEF InCopy
    <3>5. AddOf(p)'
      <4>1. Stored(p)
        BY <1>1, <2>11 DEF Stored
      <4> QED BY <1>4, <1>6, <2>5, <2>11, <3>1, <3>2, <3>4, <4>1 DEF AddOf, Held
    <3>6. PromiseOf(p)'
      BY <1>4, <1>8, <2>3, <2>11, <3>1, <3>2, <3>4 DEF PromiseOf, Creating, Sound
    <3>7. LookupOf(p)' BY <3>1 DEF LookupOf
    <3> QED BY <3>3, <3>5, <3>6, <3>7 DEF Known
  <2> QED BY <2>9, <2>10, <2>11
<1> QED BY <1>9, <1>10, <1>11 DEF LoadStep

(* Add: a bit set is a bit set, and all bits set is an item held. *)
LEMMA AddKnown ==
  ASSUME TypeOK, TypeOK', Shape, NEW p \in Procs, AddStep(p), Known(p)
  PROVE  Known(p)'
<1>0. StoreTypeOK /\ StoreTypeOK' BY DEF TypeOK
<1>1. PICK n, x, hs : n = hnd[p].name /\ x = req[p].item /\ hs = hnd[p].stages
  OBVIOUS
<1>2. pc[p] \in {"set_bits", "incr", "append"} /\ pc[p] # "idle"
  BY DEF AddStep, SetNextBit, IncrFill, AppendNewStage
<1>3. /\ hnd[p] \in Handles /\ hnd[p] # Nil
      /\ req[p] \in Requests /\ req[p].op = "add" /\ req[p].name = n
      /\ n \in Names /\ x \in Items
      /\ hs \in Seq(Stages) /\ Len(hs) \in 1 .. MaxStages
  BY <1>1, <1>2, AtWork, HandleTypes DEF Shape, ShapeOf, Adding
<1>4. /\ req'[p] = req[p] /\ n = req'[p].name /\ x = req'[p].item
      /\ UNCHANGED <<acked, clobbered>>
      /\ pc'[p] \in {"set_bits", "incr", "append", "load_meta", "done"}
      /\ pc'[p] = "done" => res'[p] \in {"ok", "error"}
      /\ pc'[p] # "done" => res'[p] = res[p]
  BY <1>1, <1>3 DEF AddStep, SetNextBit, IncrFill, AppendNewStage, histVars, Finish, Goto, TypeOK
<1>5. LookupOf(p)'
  BY <1>3, <1>4 DEF LookupOf, MustFind
<1>6. Sound(p, n) => Matches(n, hs)
  BY <1>1, <1>3 DEF Known, CopyOf
<1>7. Extends(n)
  BY <1>2, <1>3, StepExtends DEF Step, Serve, DropKeys
<1>8. Sound(p, n)' => intact'[p] /\ ~ clobbered'[n]
  BY DEF Sound
<1>13. Len(hs) - 1 \in StageIdx
  BY <1>3, StoreAssumption DEF StageIdx
<1>14. ASSUME hnd'[p] = hnd[p], intact'[p] = intact[p], due'[p] = due[p] PROVE PromiseOf(p)'
  <2>1. ASSUME ~ clobbered'[n], NEW y \in due[p]
        PROVE  intact[p] /\ InCopy(n, hs, Len(hs) - 1, y)'
    <3>1. intact[p] /\ InCopy(n, hs, Len(hs) - 1, y)
      BY <1>1, <1>3, <1>4, <2>1 DEF Known, PromiseOf
    <3> QED BY <1>3, <1>7, <1>13, <2>1, <3>1, InCopyExtends
  <2> QED BY <1>1, <1>3, <1>4, <1>14, <2>1 DEF PromiseOf, Creating
<1>9. CASE SetNextBit(p)
  <2>1. PICK b \in todo[p] :
          /\ SetBit(n, at[p], b)
          /\ todo'[p] = todo[p] \ {b}
          /\ Goto(p, IF Done(todo[p], b) THEN "incr" ELSE "set_bits")
    BY <1>1, <1>9 DEF SetNextBit, NextBits, TypeOK
  <2>2. /\ hnd' = hnd /\ at' = at /\ intact' = intact /\ due' = due
        /\ meta' = meta /\ stageMeta' = stageMeta
        /\ bits'[n][at[p]] = bits[n][at[p]] \cup {b}
        /\ pc[p] = "set_bits" /\ at[p] = Len(hs) - 1
    BY <1>1, <1>3, <1>9, <2>1 DEF SetNextBit, SetBit, histVars, TypeOK, StoreTypeOK, Shape, ShapeOf
  <2>3. Sound(p, n)' <=> Sound(p, n)
    BY <1>4, <2>2 DEF Sound
  <2>4. /\ pc'[p] = IF todo[p] = {b} THEN "incr" ELSE "set_bits"
        /\ res'[p] = "none"
    BY <1>2, <2>1 DEF Goto, Done, TypeOK, Shape, Pending
  <2>5. CopyOf(p)'
    <3>1. Sound(p, n) => Matches(n, hs)'
      BY <1>6, <2>2 DEF Matches
    <3> QED BY <1>1, <2>2, <2>3, <2>4, <3>1 DEF CopyOf
  <2>6. Sound(p, n) => Positions(x, hs[at[p] + 1]) \ todo'[p] \subseteq bits'[n][at[p]]
    <3>1. Sound(p, n) => Positions(x, hs[at[p] + 1]) \ todo[p] \subseteq bits[n][at[p]]
      BY <1>1, <1>2, <1>3, <2>2 DEF Known, AddOf
    <3> QED BY <2>1, <2>2, <3>1
  <2>7. ASSUME Sound(p, n), todo[p] = {b} PROVE Held(n, x)' /\ InCopy(n, hs, Len(hs) - 1, x)'
    <3>1. Positions(x, hs[at[p] + 1]) \subseteq bits'[n][at[p]]
      BY <2>1, <2>6, <2>7
    <3>2. /\ meta[n] # Nil
          /\ Len(hs) <= meta[n].stage_count
          /\ \A i \in 1 .. Len(hs) : stageMeta[n][i - 1] = hs[i]
      BY <1>6, <2>7 DEF Matches
    <3>3. meta[n].stage_count \in 1 .. MaxStages
      BY <1>0, <1>3, <3>2, ChainTypes
    <3>4. at[p] \in 0 .. meta[n].stage_count - 1 /\ at[p] + 1 \in 1 .. Len(hs) /\ (at[p] + 1) - 1 = at[p]
      BY <1>3, <2>2, <3>2, <3>3, StoreAssumption
    <3>5. stageMeta[n][(at[p] + 1) - 1] = hs[at[p] + 1]
      BY <3>2, <3>4
    <3>6. stageMeta[n][at[p]] = hs[at[p] + 1]
      BY <3>4, <3>5
    <3>7. hs[at[p] + 1] # Nil
      BY <1>3, <3>4, StoreAssumption
    <3>8. at[p] \in 0 .. Len(hs) - 1
      BY <1>3, <2>2
    <3> QED BY <2>2, <3>1, <3>2, <3>4, <3>6, <3>7, <3>8 DEF Held, InCopy
  <2>8. AddOf(p)'
    <3>1. CASE todo[p] = {b}
      BY <1>1, <1>4, <2>2, <2>3, <2>4, <2>7, <3>1 DEF AddOf
    <3>2. CASE todo[p] # {b}
      <4>1. pc'[p] = "set_bits" /\ ~ Stored(p)'
        BY <2>4, <3>2 DEF Stored, Loading
      <4> QED BY <1>1, <1>4, <2>2, <2>3, <2>6, <4>1 DEF AddOf
    <3> QED BY <3>1, <3>2
  <2> QED BY <1>5, <1>14, <2>2, <2>5, <2>8 DEF Known
<1>10. ASSUME pc[p] \in {"incr", "append"}, Sound(p, n)', Sound(p, n)
       PROVE  Held(n, x)' /\ InCopy(n, hs, Len(hs) - 1, x)'
  <2>1. Held(n, x) /\ InCopy(n, hs, Len(hs) - 1, x)
    BY <1>1, <1>2, <1>3, <1>10 DEF Known, AddOf, Stored
  <2> QED BY <1>0, <1>3, <1>7, <1>8, <1>10, <1>13, <2>1, HeldExtends, InCopyExtends
<1>11. CASE IncrFill(p)
  <2>1. /\ pc[p] = "incr" /\ pc'[p] \in {"append", "done"}
        /\ UNCHANGED <<meta, stageMeta, bits, hnd, intact, due>>
    BY <1>11 DEF IncrFill, Incr, histVars, Finish, Goto, TypeOK
  <2>2. Sound(p, n)' <=> Sound(p, n)
    BY <1>4, <2>1 DEF Sound
  <2>3. Sound(p, n) => Matches(n, hs)'
    BY <1>6, <2>1 DEF Matches
  <2>4. CopyOf(p)'
    BY <1>1, <2>1, <2>2, <2>3 DEF CopyOf
  <2>5. AddOf(p)'
    BY <1>1, <1>4, <1>10, <2>1, <2>2 DEF AddOf
  <2> QED BY <1>5, <1>14, <2>1, <2>4, <2>5 DEF Known
<1>12. CASE AppendNewStage(p)
  <2>1. PICK idx, st : idx = Len(hs) /\ st = computeStage(hnd[p].par, idx)
    OBVIOUS
  <2>2. /\ pc[p] = "append" /\ pc'[p] \in {"load_meta", "done"}
        /\ AppendStage(n, idx, st)
        /\ intact'[p] => intact[p]
    BY <1>1, <1>12, <2>1 DEF AppendNewStage, Finish, Goto, TypeOK
  <2>3. Sound(p, n)' => Sound(p, n)
    BY <1>4, <2>2 DEF Sound
  <2>4. hnd' = hnd => AddOf(p)'
    BY <1>1, <1>4, <1>10, <2>2, <2>3 DEF AddOf
  <2>5. idx \in StageIdx /\ st \in Stages
    <3>1. Sizable(hnd[p].par, idx) /\ idx \in Nat
      BY <1>1, <1>3, <2>1, <2>2 DEF Shape, ShapeOf
    <3>2. idx \in StageIdx
      BY <1>3, <3>1, HandleTypes, SizableInRange, <1>1
    <3> QED BY <1>1, <1>3, <2>1, <3>2, HandleTypes, StageType
  <2>6. ASSUME Sound(p, n)' PROVE Matches(n, hs)'
    BY <1>0, <1>3, <1>6, <1>7, <1>8, <2>3, <2>6, MatchesExtends
  <2>8. CASE hnd' # hnd
    <3>1. /\ ~ (AppendReply(n, idx) = Nil) /\ ~ (AppendReply(n, idx) > idx + 1)
          /\ due'[p] = IF intact'[p] THEN due[p] ELSE {}
          /\ hnd' = [hnd EXCEPT ![p].stages = Append(hs, st)]
          /\ intact'[p] => stageMeta'[n][idx] = st
          /\ pc'[p] = "done"
      BY <1>1, <1>12, <2>1, <2>8 DEF AppendNewStage, Finish, TypeOK
    <3>2. hnd'[p].name = n /\ hnd'[p].stages = Append(hs, st)
      BY <1>1, <1>3, <3>1 DEF TypeOK, Handles
    <3>3. PICK l : l = Append(hs, st) OBVIOUS
    <3>4. Len(l) = idx + 1 /\ \A i \in 1 .. Len(l) : l[i] = IF i <= idx THEN hs[i] ELSE st
      BY <1>3, <2>1, <2>5, <3>3
    <3>5. ASSUME Sound(p, n)' PROVE Matches(n, l)'
      <4>1. /\ meta[n] # Nil /\ idx <= meta[n].stage_count
            /\ meta[n].stage_count \in 1 .. MaxStages
        BY <1>0, <1>3, <1>6, <2>1, <2>3, <3>5, ChainTypes DEF Matches
      <4>2. meta'[n] # Nil /\ meta'[n].stage_count \in 1 .. MaxStages /\ meta[n].stage_count <= meta'[n].stage_count
        <5>1. meta'[n] # Nil /\ meta[n].stage_count <= meta'[n].stage_count
          BY <1>7, <1>8, <3>5, <4>1 DEF Extends
        <5> QED BY <1>0, <1>3, <5>1 DEF StoreTypeOK, Meta
      <4>3. idx \in Int BY <2>5, StoreAssumption DEF StageIdx
      <4>4. idx + 1 <= meta'[n].stage_count
        <5>1. CASE meta[n].stage_count = idx
          <6>1. meta' = [meta EXCEPT ![n].stage_count = @ + 1]
            BY <2>2, <4>1, <5>1 DEF AppendStage, AppendWins
          <6>2. meta[n] \in Meta
            BY <1>0, <1>3, <4>1 DEF StoreTypeOK
          <6>3. meta'[n] = [meta[n] EXCEPT !.stage_count = @ + 1]
            BY <1>0, <1>3, <6>1 DEF StoreTypeOK
          <6>4. meta'[n].stage_count = meta[n].stage_count + 1
            BY <6>2, <6>3 DEF Meta
          <6> QED BY <4>3, <5>1, <6>4
        <5>2. CASE meta[n].stage_count # idx
          <6>1. idx + 1 <= meta[n].stage_count
            BY <4>1, <4>3, <5>2, StoreAssumption
          <6> QED BY <4>1, <4>2, <4>3, <6>1, StoreAssumption
        <5> QED BY <5>1, <5>2
      <4>5. Matches(n, hs)'
        BY <2>6, <3>5
      <4>6. ASSUME NEW i \in 1 .. Len(l) PROVE stageMeta'[n][i - 1] = l[i]
        <5>1. CASE i <= idx
          BY <2>1, <3>4, <4>3, <4>5, <5>1 DEF Matches
        <5>2. CASE ~ (i <= idx)
          <6>1. i - 1 = idx /\ l[i] = st BY <3>4, <4>3, <5>2
          <6> QED BY <1>8, <3>1, <3>5, <6>1
        <5> QED BY <5>1, <5>2
      <4> QED BY <3>4, <4>2, <4>4, <4>6 DEF Matches
    <3>6. CopyOf(p)'
      BY <3>1, <3>2, <3>3, <3>5 DEF CopyOf
    <3>7. ASSUME NEW y, InCopy(n, hs, Len(hs) - 1, y)' PROVE InCopy(n, l, Len(l) - 1, y)'
      <4>1. PICK i \in 0 .. Len(hs) - 1 : Positions(y, hs[i + 1]) \subseteq bits'[n][i]
        BY <3>7 DEF InCopy
      <4>2. i \in 0 .. Len(l) - 1 /\ l[i + 1] = hs[i + 1]
        BY <1>3, <2>1, <3>4
      <4> QED BY <4>1, <4>2 DEF InCopy
    <3>8. AddOf(p)'
      BY <1>4, <1>10, <2>2, <2>3, <3>2, <3>3, <3>7 DEF AddOf
    <3>9. ASSUME ~ clobbered'[n], NEW y \in due'[p]
          PROVE  intact'[p] /\ InCopy(n, l, Len(l) - 1, y)'
      <4>1. intact'[p] /\ y \in due[p] BY <3>1, <3>9
      <4>2. InCopy(n, hs, Len(hs) - 1, y)
        BY <1>1, <1>3, <1>4, <3>9, <4>1 DEF Known, PromiseOf
      <4> QED BY <1>3, <1>7, <1>13, <3>7, <3>9, <4>1, <4>2, InCopyExtends
    <3>10. PromiseOf(p)'
      BY <3>1, <3>2, <3>3, <3>9 DEF PromiseOf, Creating
    <3> QED BY <1>5, <3>6, <3>8, <3>10 DEF Known
  <2>7. hnd' = hnd => CopyOf(p)' /\ intact' = intact /\ due' = due
    <3>1. hnd' = hnd => CopyOf(p)'
      BY <1>1, <2>2, <2>6 DEF CopyOf
    <3>2. hnd' = hnd => intact' = intact /\ due' = due
      <4>1. \/ UNCHANGED <<hnd, intact, due>>
            \/ hnd' = [hnd EXCEPT ![p].stages = Append(hs, st)]
        BY <1>1, <1>12, <2>1 DEF AppendNewStage
      <4>2. hnd' = [hnd EXCEPT ![p].stages = Append(hs, st)] => hnd'[p].stages = Append(hs, st)
        BY <1>3 DEF TypeOK, Handles
      <4>3. Append(hs, st) # hs
        BY <1>3, <2>5
      <4> QED BY <1>1, <4>1, <4>2, <4>3
    <3> QED BY <3>1, <3>2
  <2> QED BY <1>5, <1>14, <2>4, <2>7, <2>8 DEF Known
<1> QED BY <1>9, <1>11, <1>12 DEF AddStep

(* Exists: a clear bit means that the stage it was read from is not the    *)
(* one that holds the item.                                                *)
LEMMA ExistsKnown ==
  ASSUME TypeOK, Shape, NEW p \in Procs, ExistsStep(p), Known(p)
  PROVE  Known(p)'
<1>1. PICK n, x, hs : n = hnd[p].name /\ x = req[p].item /\ hs = hnd[p].stages
  OBVIOUS
<1>2. /\ pc[p] = "get_bits" /\ req[p].op = "exists" /\ req[p].name = n /\ hnd[p] # Nil
  BY <1>1 DEF ExistsStep, HitBit, MissBit, Shape, ShapeOf
<1>3. /\ req' = req /\ hnd' = hnd
      /\ UNCHANGED <<meta, stageMeta, bits, acked, clobbered, intact, due>>
      /\ pc'[p] \in {"get_bits", "done"}
  BY DEF ExistsStep, HitBit, MissBit, storeVars, histVars, Finish, Goto, TypeOK
<1>4. CopyOf(p)'
  BY <1>2, <1>3 DEF CopyOf, Sound, Matches, Known
<1>5. AddOf(p)'
  BY <1>2, <1>3 DEF AddOf
<1>6. n = req'[p].name /\ x = req'[p].item /\ hs = hnd'[p].stages
  BY <1>1, <1>2, <1>3
<1>7. todo[p] \subseteq Positions(x, hs[at[p] + 1])
  BY <1>1, <1>2 DEF Known, LookupOf
<1>8. MustFind(p)' <=> MustFind(p)
  BY <1>2, <1>3 DEF MustFind
<1>9. MustFind(p) => InCopy(n, hs, at[p], x)
  BY <1>1, <1>2 DEF Known, LookupOf
<1>13. PromiseOf(p)'
  BY <1>2, <1>3 DEF PromiseOf, InCopy, Creating, Known
<1>10. res[p] = "none"
  BY <1>2 DEF Shape, Pending
<1>11. CASE HitBit(p)
  <2>1. at' = at /\ todo'[p] \subseteq todo[p] /\ res'[p] \in {"present", "none"}
    BY <1>10, <1>11 DEF HitBit, Finish, Goto, TypeOK
  <2>2. LookupOf(p)'
    BY <1>3, <1>6, <1>7, <1>8, <1>9, <2>1 DEF LookupOf, InCopy
  <2> QED BY <1>4, <1>5, <1>13, <2>2 DEF Known
<1>12. CASE MissBit(p)
  <2>1. PICK b \in todo[p] : b \notin bits[n][at[p]]
    BY <1>1, <1>12 DEF MissBit, NextBits, GetBit
  <2>2. at[p] \in Nat
    BY StoreAssumption DEF TypeOK, StageIdx
  <2>3. MustFind(p) => at[p] # 0 /\ InCopy(n, hs, at[p] - 1, x)
    <3> SUFFICES ASSUME MustFind(p)
                 PROVE  at[p] # 0 /\ InCopy(n, hs, at[p] - 1, x)
      OBVIOUS
    <3>1. PICK i \in 0 .. at[p] : Positions(x, hs[i + 1]) \subseteq bits[n][i]
      BY <1>9 DEF InCopy
    <3>2. i # at[p]
      BY <1>7, <2>1, <3>1
    <3>3. i \in 0 .. at[p] - 1 /\ at[p] # 0
      BY <2>2, <3>2
    <3> QED BY <3>1, <3>3 DEF InCopy
  <2>4. CASE at[p] = 0
    <3>1. pc'[p] = "done"
      BY <1>12, <2>4 DEF MissBit, NoStageBelow, Finish, TypeOK
    <3>2. LookupOf(p)'
      BY <1>6, <1>8, <2>3, <2>4, <3>1 DEF LookupOf
    <3> QED BY <1>4, <1>5, <1>13, <3>2 DEF Known
  <2>5. CASE at[p] # 0
    <3>1. /\ pc'[p] = "get_bits" /\ res'[p] = "none"
          /\ at'[p] = at[p] - 1
          /\ todo'[p] = Positions(x, hs[at[p]])
      BY <1>1, <1>10, <1>12, <2>5 DEF MissBit, NoStageBelow, Goto, TypeOK
    <3>2. todo'[p] = Positions(x, hs[at'[p] + 1])
      <4>1. at'[p] + 1 = at[p] BY <2>2, <3>1
      <4> QED BY <3>1, <4>1
    <3>3. MustFind(p) => InCopy(req[p].name, hnd[p].stages, at[p], req[p].item)'
      <4>1. PICK m : m = n OBVIOUS
      <4>2. PICK last : last = at'[p] /\ last = at[p] - 1 BY <3>1
      <4>3. MustFind(p) => \E i \in 0 .. last : Positions(x, hs[i + 1]) \subseteq bits[m][i]
        BY <2>3, <4>1, <4>2 DEF InCopy
      <4> QED BY <1>2, <1>3, <1>6, <4>1, <4>2, <4>3 DEF InCopy
    <3>4. LookupOf(p)'
      BY <1>6, <1>8, <3>1, <3>2, <3>3 DEF LookupOf
    <3> QED BY <1>4, <1>5, <1>13, <3>4 DEF Known
  <2> QED BY <2>4, <2>5
<1> QED BY <1>11, <1>12 DEF ExistsStep

-----------------------------------------------------------------------------
(* What is acknowledged stays held.                                        *)

(* No step loses an acknowledged item: every step but a DEL extends the    *)
(* chains, and what Return acknowledges is held by AddOf.                  *)
LEMMA AckedStaysHeld ==
  ASSUME TypeOK, TypeOK', Shape, AckedItemsHeld, NEW p \in Procs, Step(p), Known(p)
  PROVE  AckedItemsHeld'
<1>0. StoreTypeOK /\ StoreTypeOK' BY DEF TypeOK
<1> SUFFICES ASSUME NEW n \in Names, ~ clobbered'[n], NEW x \in acked'[n]
             PROVE  Held(n, x)'
  BY DEF AckedItemsHeld
<1>1. ASSUME Extends(n), x \in acked[n] PROVE Held(n, x)'
  <2>1. Held(n, x) BY <1>1 DEF Extends, AckedItemsHeld
  <2> QED BY <1>0, <1>1, <2>1, HeldExtends
<1>2. CASE DropKeys(p)
  <2>1. /\ hnd[p].name \in Names
        /\ Del(hnd[p].name, DropStages(hnd[p]), DropShards(hnd[p]))
        /\ acked' = [acked EXCEPT ![hnd[p].name] = {}]
        /\ clobbered' = [clobbered EXCEPT ![hnd[p].name] = FALSE]
    BY <1>2 DEF DropKeys, Forget, Shape, ShapeOf, TypeOK, Handles
  <2>2. n # hnd[p].name
    BY <2>1 DEF TypeOK
  <2>3. /\ meta'[n] = meta[n] /\ stageMeta'[n] = stageMeta[n] /\ bits'[n] = bits[n]
        /\ acked'[n] = acked[n] /\ clobbered'[n] = clobbered[n]
    BY <2>1, <2>2 DEF Del, TypeOK, StoreTypeOK
  <2>4. Extends(n)
    BY <1>0, <2>3, ChainTypes DEF Extends
  <2> QED BY <1>1, <2>3, <2>4
<1>3. CASE Return(p)
  <2>1. Extends(n)
    BY <1>3, StepExtends DEF DropKeys, Return
  <2>2. CASE x \in acked[n]
    BY <1>1, <2>1, <2>2
  <2>3. CASE x \notin acked[n]
    <3>1. /\ pc[p] = "done" /\ req[p].op = "add" /\ res[p] = "ok" /\ intact[p]
          /\ n = req[p].name /\ x = req[p].item
      BY <1>3, <2>3 DEF Return, Stores, TypeOK
    <3>2. ~ clobbered[n]
      BY <2>1 DEF Extends
    <3>3. Held(n, x)
      BY <3>1, <3>2 DEF Known, AddOf, Sound, Stored
    <3> QED BY <1>0, <2>1, <3>3, HeldExtends
  <2> QED BY <2>2, <2>3
<1>4. CASE ~ DropKeys(p) /\ ~ Return(p)
  <2>1. acked' = acked
    BY <1>4 DEF Step, Serve, Begin, CreateStep, CheckExisting, WriteMeta, WriteStage0, Register,
         LoadStep, LoadMeta, LoadStage, LoadFill, AddStep, SetNextBit, IncrFill, AppendNewStage,
         ExistsStep, HitBit, MissBit, DropStep, Unregister, Fail, histVars
  <2>2. Extends(n)
    BY <1>4, StepExtends
  <2> QED BY <1>1, <2>1, <2>2
<1> QED BY <1>2, <1>3, <1>4

-----------------------------------------------------------------------------
(* The invariant and what follows from it.                                 *)

(* IInv is the types, the acknowledged items, and what each process knows. *)
LEMMA KnownParts ==
  IInv <=> TypeOK /\ Shape /\ AckedItemsHeld /\ \A p \in Procs : Known(p)
BY DEF IInv, Copies, AddsProgress, Lookups, Known

(* IInv is preserved by every step.                                        *)
LEMMA StepIInv ==
  ASSUME IInv, Next
  PROVE  IInv'
<1>1. TypeOK /\ Shape /\ AckedItemsHeld /\ \A q \in Procs : Known(q)
  BY KnownParts
<1>2. PICK p \in Procs : Step(p)
  BY NextIsStep
<1>3. TypeOK' /\ Shape'
  BY <1>1, <1>2, StepType, StepShape
<1>4. Known(p)'
  BY <1>1, <1>2, <1>3, BeginKnown, CreateKnown, LoadKnown, AddKnown, ExistsKnown, DropKnown, EndKnown
     DEF Step, Serve
<1>5. \A q \in Procs \ {p} : Known(q)'
  BY <1>1, <1>2, <1>3, OthersKnown
<1>6. AckedItemsHeld'
  BY <1>1, <1>2, <1>3, AckedStaysHeld
<1>7. Copies' /\ AddsProgress' /\ Lookups'
  BY <1>4, <1>5 DEF Copies, AddsProgress, Lookups, Known
<1> QED BY <1>3, <1>6, <1>7 DEF IInv

(* IInv holds initially.                                                   *)
LEMMA InitIInv == Init => IInv
<1> SUFFICES ASSUME Init PROVE IInv
  OBVIOUS
<1>1. TypeOK /\ Shape
  BY InitType, InitShape
<1>2. AckedItemsHeld
  BY DEF Init, AckedItemsHeld
<1>3. ASSUME NEW p \in Procs PROVE Known(p)
  BY DEF Init, Known, CopyOf, AddOf, PromiseOf, LookupOf, MustFind
<1> QED BY <1>1, <1>2, <1>3, KnownParts

(* A step that changes nothing. *)
LEMMA UnchangedIInv ==
  ASSUME IInv, UNCHANGED vars
  PROVE  IInv'
<1> USE DEF vars, storeVars, procVars, histVars, IInv
<1>1. TypeOK' BY DEF TypeOK, StoreTypeOK
<1>2. Shape' BY DEF Shape, ShapeOf, Pending
<1>3. Copies' BY DEF Copies, CopyOf, Matches, Sound
<1>4. AckedItemsHeld' BY DEF AckedItemsHeld, Held
<1>5. AddsProgress' BY DEF AddsProgress, AddOf, Sound, Stored, Held, InCopy
<1>6. ASSUME NEW p \in Procs PROVE PromiseOf(p)' /\ LookupOf(p)'
  <2>1. PromiseOf(p) /\ LookupOf(p) BY DEF Lookups
  <2>2. PromiseOf(p)' BY <2>1 DEF PromiseOf, HeldIn, Held, InCopy
  <2>3. LookupOf(p)' BY <2>1 DEF LookupOf, MustFind, InCopy
  <2> QED BY <2>2, <2>3
<1> QED BY <1>1, <1>2, <1>3, <1>4, <1>5, <1>6 DEF Lookups

(* The invariant that carries "zero false negatives" through every         *)
(* interleaving of New, Load, Add, Exists and Drop, with calls failing.    *)
THEOREM Invariance == Spec => []IInv
BY InitIInv, StepIInv, UnchangedIInv, PTL DEF Spec

(* Zero false negatives in the store: what an Add acknowledged stays in    *)
(* the chain Load reads, however the filter grows and whatever fails, until *)
(* a DEL or a creation over the filter.                                    *)
THEOREM AckedItemsStayHeld == Spec => []AckedItemsHeld
BY Invariance, PTL DEF IInv

(* Zero false negatives as the callers of the service see them: Exists     *)
(* never answers "absent" for an item that was stored before it was asked  *)
(* about, and never, for a program that keeps its Filter, for one that was *)
(* stored when the Filter was loaded or that it added itself.              *)
THEOREM ExistsFindsAcked == Spec => []NoFalseNegatives
<1>1. IInv => NoFalseNegatives
  <2> SUFFICES ASSUME IInv, NEW p \in Procs, res[p] = "absent",
                      ~ clobbered[req[p].name], req[p].item \in due[p]
               PROVE  FALSE
    BY DEF NoFalseNegatives
  <2>1. pc[p] = "done"
    BY DEF IInv, Shape, Pending
  <2>2. req[p].op = "exists"
    BY DEF IInv, Shape, Pending
  <2>3. MustFind(p)
    BY <2>1, <2>2 DEF MustFind
  <2> QED BY <2>3 DEF IInv, Lookups, LookupOf
<1> QED BY <1>1, Invariance, PTL
=============================================================================
