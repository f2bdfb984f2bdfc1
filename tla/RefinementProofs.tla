--------------------------- MODULE RefinementProofs ---------------------------
(***************************************************************************)
(* BloomFilter implements ApproximateSet, for every number of processes,   *)
(* names, items, parameters and stages.  What the HTTP API adds to the     *)
(* filters and what it leaves of them: its steps are steps of BloomFilter, *)
(* its statuses are true of the set that FilterRefinement finds in the     *)
(* store, and the order of the middlewares accounts for every response,    *)
(* panics included.                                                        *)
(***************************************************************************)
EXTENDS FilterProofs, FilterApi

-----------------------------------------------------------------------------
(* What a lookup has read stays there.                                     *)

(* Reading begins with all the bits of a stage to read. *)
LEMMA EnterReads ==
  ASSUME TypeOK, NEW p \in Procs, NEW r \in Requests, NEW h, h # Nil,
         Len(h.stages) \in 1 .. MaxStages, r.op # "create", Enter(p, r, h)
  PROVE  /\ pc'[p] # "srem"
         /\ pc'[p] = "get_bits" => todo'[p] = Positions(r.item, hnd'[p].stages[at'[p] + 1])
<1>1. r.op \in {"add", "exists", "stats", "delete"}
  BY RequestTypes
<1>2. /\ pc'[p] = EntryLabel[r.op] /\ hnd'[p] = h /\ at'[p] = Len(h.stages) - 1
      /\ todo'[p] = IF r.op \in {"add", "exists"} THEN Positions(r.item, Last(h.stages)) ELSE {}
  BY DEF Enter, TypeOK
<1>3. at'[p] + 1 = Len(h.stages)
  BY <1>2, StoreAssumption
<1>4. pc'[p] # "srem" /\ (pc'[p] = "get_bits" => r.op = "exists")
  BY <1>1, <1>2 DEF EntryLabel
<1> QED BY <1>2, <1>3, <1>4 DEF Last

(* The process that takes the step. *)
LEMMA StepReads ==
  ASSUME TypeOK, Shape, NEW p \in Procs, Step(p), ReadOf(p)
  PROVE  ReadOf(p)'
<1>1. ASSUME NEW r \in Requests, Begin(p, r) PROVE ReadOf(p)'
  <2>1. CASE hnd[p] = Nil
    <3>1. pc'[p] \in {"check", "load_meta"}
      BY <1>1, <2>1 DEF Begin, Goto, TypeOK
    <3> QED BY <3>1 DEF ReadOf
  <2>2. CASE hnd[p] # Nil
    <3>1. r.op # "create" /\ Enter(p, r, hnd[p]) /\ req'[p] = r
      BY <1>1, <2>2 DEF Begin, TypeOK
    <3>2. Len(hnd[p].stages) \in 1 .. MaxStages
      BY <2>2 DEF Shape, ShapeOf
    <3> QED BY <2>2, <3>1, <3>2, EnterReads DEF ReadOf
  <2> QED BY <2>1, <2>2
<1>2. CASE LoadFill(p)
  <2>1. req' = req /\ req[p] \in Requests /\ req[p].op # "create"
    BY <1>2 DEF LoadFill, Shape, ShapeOf, Loading, TypeOK
  <2>2. CASE pc'[p] \in {"load_stage", "done"}
    BY <2>2 DEF ReadOf
  <2>3. CASE pc'[p] \notin {"load_stage", "done"}
    <3>1. PICK h : /\ h = [name |-> req[p].name, par |-> ld[p].par, stages |-> ld[p].stages]
                   /\ Enter(p, req[p], h)
                   /\ ~ (Len(ld[p].stages) < ld[p].count)
      BY <1>2, <2>3 DEF LoadFill, Goto, Finish, TypeOK
    <3>2. h.stages = ld[p].stages
      BY <3>1
    <3>3. h # Nil /\ Len(h.stages) \in 1 .. MaxStages
      <4>1. ld[p] \in Loads /\ Len(ld[p].stages) \in 1 .. ld[p].count
        BY <1>2 DEF LoadFill, Shape, ShapeOf, TypeOK
      <4>2. h \in Handles
        BY <2>1, <3>1, <4>1, RequestTypes DEF Handles, Loads
      <4> QED BY <3>2, <4>1, <4>2, FilterAssumption, StoreAssumption DEF Loads
    <3> QED BY <2>1, <3>1, <3>3, EnterReads DEF ReadOf
  <2> QED BY <2>2, <2>3
<1>3. CASE HitBit(p)
  <2>1. PICK b \in todo[p] :
          /\ b \in bits[hnd[p].name][at[p]]
          /\ todo'[p] = todo[p] \ {b}
          /\ pc'[p] \in {"get_bits", "done"}
    BY <1>3 DEF HitBit, NextBits, GetBit, Finish, Goto, TypeOK
  <2>2. /\ req' = req /\ hnd' = hnd /\ at' = at /\ bits' = bits
        /\ intact' = intact /\ clobbered' = clobbered
    BY <1>3 DEF HitBit, histVars, storeVars
  <2>3. pc[p] = "get_bits" /\ req[p].name = hnd[p].name
    BY <1>3, AtWork DEF HitBit
  <2>4. Sound(p, req[p].name)' <=> Sound(p, req[p].name)
    BY <2>2 DEF Sound
  <2> QED BY <2>1, <2>2, <2>3, <2>4 DEF ReadOf
<1>4. CASE MissBit(p)
  <2>1. CASE pc'[p] = "done"
    BY <2>1 DEF ReadOf
  <2>2. CASE pc'[p] # "done"
    <3>1. /\ pc'[p] = "get_bits" /\ at'[p] = at[p] - 1 /\ hnd' = hnd /\ req' = req
          /\ todo'[p] = Positions(req[p].item, hnd[p].stages[at[p]])
      BY <1>4, <2>2 DEF MissBit, Finish, Goto, TypeOK
    <3>2. at'[p] + 1 = at[p]
      BY <3>1, StoreAssumption DEF TypeOK, StageIdx
    <3> QED BY <3>1, <3>2 DEF ReadOf
  <2> QED BY <2>1, <2>2
<1>5. CASE DropKeys(p)
  <2>1. pc'[p] = "srem" /\ Uses(p, hnd[p].name)
    BY <1>5 DEF DropKeys, Goto, Uses, Shape, ShapeOf, TypeOK
  <2>2. ~ intact'[p]
    BY <1>5, <2>1 DEF DropKeys, Forget
  <2> QED BY <2>1, <2>2 DEF ReadOf
<1>6. CASE CreateStep(p) \/ LoadMeta(p) \/ LoadStage(p) \/ AddStep(p) \/ Unregister(p)
           \/ Fail(p) \/ Return(p)
  <2>1. pc'[p] \notin {"get_bits", "srem"}
    BY <1>6 DEF CreateStep, CheckExisting, WriteMeta, WriteStage0, Register, LoadMeta, LoadStage,
         AddStep, SetNextBit, IncrFill, AppendNewStage, Unregister, Fail, Return, Finish, Goto, TypeOK
  <2> QED BY <2>1 DEF ReadOf
<1> QED BY <1>1, <1>2, <1>3, <1>4, <1>5, <1>6 DEF Step, Serve, LoadStep, ExistsStep, DropStep

(* The others: bits are only lost in a DEL, which makes them lose the filter. *)
LEMMA OthersRead ==
  ASSUME TypeOK, TypeOK', Shape, NEW p \in Procs, NEW q \in Procs \ {p}, Step(p), ReadOf(q)
  PROVE  ReadOf(q)'
<1>1. Untouched(q)
  BY OthersUntouched
<1>2. CASE ~ intact'[q]
  BY <1>2 DEF ReadOf, Sound
<1>3. CASE Spared(q)
  <2>1. intact'[q] = intact[q]
    BY <1>3 DEF Spared
  <2>2. ASSUME pc[q] = "get_bits", Sound(q, req[q].name)'
        PROVE  (Positions(req[q].item, hnd[q].stages[at[q] + 1]) \ todo[q]
                  \subseteq bits[req[q].name][at[q]])'
    <3>1. PICK n, i : n = req[q].name /\ i = at[q]
      OBVIOUS
    <3>2. n \in Names /\ Uses(q, n) /\ i \in StageIdx
      BY <2>2, <3>1, AtWork DEF Uses, TypeOK, Shape, ShapeOf
    <3>3. Extends(n) /\ intact[q] /\ ~ clobbered'[n]
      BY <1>1, <1>3, <2>1, <2>2, <3>1, <3>2 DEF Spared, Sound, Untouched
    <3>4. ~ clobbered[n] /\ bits[n][i] \subseteq bits'[n][i]
      BY <3>2, <3>3 DEF Extends
    <3>5. Positions(req[q].item, hnd[q].stages[i + 1]) \ todo[q] \subseteq bits[n][i]
      BY <2>2, <3>1, <3>3, <3>4 DEF ReadOf, Sound
    <3>6. /\ req'[q] = req[q] /\ at'[q] = i /\ hnd'[q] = hnd[q] /\ todo'[q] = todo[q]
          /\ req[q].name = n
      BY <1>1, <3>1 DEF Untouched
    <3>7. Positions(req[q].item, hnd[q].stages[i + 1]) \ todo[q] \subseteq bits'[n][i]
      BY <3>4, <3>5
    <3> QED BY <3>6, <3>7
  <2> QED BY <1>1, <2>1, <2>2 DEF ReadOf, Untouched
<1> QED BY <1>2, <1>3, OthersSpared

LEMMA StepRInv ==
  ASSUME RInv, Next
  PROVE  RInv'
<1>1. IInv /\ IInv' /\ TypeOK /\ TypeOK' /\ Shape
  BY StepIInv DEF RInv, IInv
<1>2. PICK p \in Procs : Step(p)
  BY NextIsStep
<1>3. \A q \in Procs : ReadOf(q)'
  BY <1>1, <1>2, StepReads, OthersRead DEF RInv
<1> QED BY <1>1, <1>3 DEF RInv

-----------------------------------------------------------------------------
(* What a step leaves of the set.                                          *)

StoredSame(n) == meta'[n] = meta[n] /\ stageMeta'[n] = stageMeta[n] /\ bits'[n] = bits[n]

LEMMA SameMembers ==
  ASSUME NEW n \in Names, StoredSame(n)
  PROVE  HeldItems(n)' = HeldItems(n) /\ setMembers'[n] = setMembers[n]
<1>1. \A x \in Items : Held(n, x)' <=> Held(n, x)
  BY DEF StoredSame, Held
<1> QED BY <1>1 DEF StoredSame, HeldItems, setMembers

(* The step touches only filter n. *)
LEMMA OneFilter ==
  ASSUME NEW n \in Names, \A m \in Names \ {n} : StoredSame(m)
  PROVE  setMembers' = [setMembers EXCEPT ![n] = IF meta'[n] = Nil THEN Nil ELSE HeldItems(n)']
<1>1. setMembers'[n] = IF meta'[n] = Nil THEN Nil ELSE HeldItems(n)'
  BY DEF setMembers
<1>2. \A m \in Names \ {n} : setMembers'[m] = setMembers[m]
  BY SameMembers
<1> QED BY <1>1, <1>2 DEF setMembers

(* The step touches only filter n and takes nothing from it. *)
Grows(n) ==
  /\ \A m \in Names \ {n} : StoredSame(m)
  /\ meta'[n] = Nil <=> meta[n] = Nil
  /\ HeldItems(n) \subseteq HeldItems(n)'

LEMMA GainStep ==
  ASSUME NEW n \in Names, Grows(n), NEW S, S = HeldItems(n)'
  PROVE  Set!Gain(n, S)
<1>1. setMembers' = [setMembers EXCEPT ![n] = IF meta'[n] = Nil THEN Nil ELSE HeldItems(n)']
  BY OneFilter DEF Grows
<1>2. CASE meta[n] = Nil
  <2>1. setMembers[n] = Nil BY <1>2 DEF setMembers
  <2> QED BY <1>1, <1>2, <2>1 DEF Grows, Set!Gain
<1>3. CASE meta[n] # Nil
  <2>1. setMembers[n] = HeldItems(n) BY <1>3 DEF setMembers
  <2>2. setMembers[n] # Nil BY <2>1, SetAssumption DEF HeldItems
  <2>3. setMembers[n] \cup S = S BY <2>1 DEF Grows
  <2> QED BY <1>1, <1>3, <2>2, <2>3 DEF Grows, Set!Gain
<1> QED BY <1>2, <1>3

(* The callers that do not take the step. *)
LEMMA SamePhase ==
  ASSUME NEW q \in Procs, Untouched(q), intact'[q] = intact[q]
  PROVE  setPhase'[q] = setPhase[q]
BY DEF Untouched, setPhase, Waiting, Unbound

LEMMA SameSure ==
  ASSUME NEW q \in Procs, Untouched(q), due'[q] = due[q],
         req[q] # Nil => clobbered'[req[q].name] = clobbered[req[q].name]
  PROVE  setSure'[q] = setSure[q]
BY DEF Untouched, setSure

LEMMA OneCaller ==
  ASSUME TypeOK, NEW p \in Procs, Step(p), ~ DropKeys(p)
  PROVE  /\ setPhase' = [setPhase EXCEPT ![p] = setPhase'[p]]
         /\ clobbered' = clobbered => setSure' = [setSure EXCEPT ![p] = setSure'[p]]
<1>1. \A q \in Procs \ {p} : setPhase'[q] = setPhase[q]
  BY OthersUntouched, OthersHistory, SamePhase
<1>2. clobbered' = clobbered => \A q \in Procs \ {p} : setSure'[q] = setSure[q]
  BY OthersUntouched, OthersHistory, SameSure
<1>3. setPhase = [q \in Procs |-> setPhase[q]] /\ setPhase' = [q \in Procs |-> setPhase'[q]]
  BY DEF setPhase
<1>4. setSure = [q \in Procs |-> setSure[q]] /\ setSure' = [q \in Procs |-> setSure'[q]]
  BY DEF setSure
<1>5. setPhase' = [setPhase EXCEPT ![p] = setPhase'[p]]
  BY <1>1, <1>3
<1>6. clobbered' = clobbered => setSure' = [setSure EXCEPT ![p] = setSure'[p]]
  BY <1>2, <1>4
<1> QED BY <1>5, <1>6

(* A step that no caller could notice. *)
LEMMA Unnoticed ==
  ASSUME TypeOK, NEW p \in Procs, Step(p), ~ DropKeys(p),
         UNCHANGED <<meta, stageMeta, bits, clobbered, req, res>>,
         setPhase'[p] = setPhase[p], setSure'[p] = setSure[p]
  PROVE  UNCHANGED Set!aVars
<1>1. \A n \in Names : StoredSame(n)
  BY DEF StoredSame
<1>2. setMembers' = setMembers
  <2>1. \A n \in Names : setMembers'[n] = setMembers[n]
    BY <1>1, SameMembers
  <2> QED BY <2>1 DEF setMembers
<1>3. setPhase' = setPhase
  <2>1. setPhase' = [setPhase EXCEPT ![p] = setPhase[p]]
    BY OneCaller
  <2> QED BY <2>1 DEF setPhase
<1>4. setSure' = setSure
  <2>1. setSure' = [setSure EXCEPT ![p] = setSure[p]]
    BY OneCaller
  <2> QED BY <2>1 DEF setSure
<1> QED BY <1>2, <1>3, <1>4 DEF Set!aVars

(* The step that gives a request its outcome. *)
LEMMA AnswerStep ==
  ASSUME TypeOK, NEW p \in Procs, Step(p), ~ DropKeys(p),
         NEW r \in Requests, r = req[p], req' = req,
         res[p] = "none", NEW o \in Set!Answers, res' = [res EXCEPT ![p] = o],
         clobbered' = clobbered, r.op = "exists" => due'[p] = due[p],
         Grows(r.name), r.op # "add" => \A n \in Names : StoredSame(n),
         Set!Truthful(p, r.name, o)
  PROVE  Set!Next
<1>1. r # Nil /\ r.name \in Names
  BY RequestTypes
<1>2. Set!WaitsOn(p, r.name)
  BY <1>1 DEF Set!WaitsOn
<1>3. setPhase'[p] = "new"
  <2>1. res'[p] # "none"
    BY DEF TypeOK, Set!Answers
  <2> QED BY <2>1 DEF setPhase, Waiting
<1>4. setPhase' = [setPhase EXCEPT ![p] = "new"]
  BY <1>3, OneCaller
<1>5. setSure' = setSure
  <2>1. setSure'[p] = setSure[p]
    BY DEF setSure
  <2>2. setSure' = [setSure EXCEPT ![p] = setSure[p]]
    BY <2>1, OneCaller
  <2> QED BY <2>2 DEF setSure
<1>6. PICK S \in SUBSET Items : S = HeldItems(r.name)'
  BY DEF HeldItems
<1>7. IF r.op = "add" THEN Set!Gain(r.name, S) ELSE UNCHANGED setMembers
  <2>1. CASE r.op = "add"
    BY <1>1, <1>6, <2>1, GainStep
  <2>2. CASE r.op # "add"
    <3>1. \A n \in Names : setMembers'[n] = setMembers[n]
      BY <2>2, SameMembers
    <3> QED BY <2>2, <3>1 DEF setMembers
  <2> QED BY <2>1, <2>2
<1>8. Set!Answer(p, r.name, o, S)
  BY <1>2, <1>4, <1>5, <1>7 DEF Set!Answer
<1> QED BY <1>1, <1>6, <1>8 DEF Set!Next

-----------------------------------------------------------------------------
(* What the mapped state says of the state.                                *)

LEMMA BoundIsIntact ==
  ASSUME NEW p \in Procs, setPhase[p] = "bound"
  PROVE  intact[p]
BY DEF setPhase

LEMMA NotNew ==
  ASSUME NEW p \in Procs, Waiting(p), ~ Unbound(p)
  PROVE  setPhase[p] # "new"
BY DEF setPhase

LEMMA HeldIsMember ==
  ASSUME NEW n \in Names, NEW x \in Items, Held(n, x)
  PROVE  x \in Set!MembersOf(n)
<1>1. setMembers[n] = HeldItems(n) /\ x \in HeldItems(n)
  BY DEF Held, HeldItems, setMembers
<1> QED BY <1>1, SetAssumption DEF HeldItems, Set!MembersOf

LEMMA MembersAreHeld ==
  ASSUME NEW n \in Names
  PROVE  /\ setMembers[n] = Nil <=> meta[n] = Nil
         /\ Set!MembersOf(n) = HeldItems(n)
<1>1. meta[n] = Nil => HeldItems(n) = {}
  BY DEF HeldItems, Held
<1>2. HeldItems(n) # Nil
  BY SetAssumption DEF HeldItems
<1> QED BY <1>1, <1>2 DEF setMembers, Set!MembersOf

-----------------------------------------------------------------------------
(* Every step is one of the set's, or unnoticed.                           *)

LEMMA BeginMaps ==
  ASSUME RInv, NEW p \in Procs, NEW r \in Requests, Begin(p, r)
  PROVE  Set!Next
<1>0. TypeOK /\ Shape /\ AckedItemsHeld
  BY DEF RInv, IInv
<1>1. /\ req[p] = Nil /\ res[p] = "none" /\ r # Nil /\ r.name \in Names
      /\ r.op \in {"create", "add", "exists", "stats", "delete"}
      /\ p \notin Embedders => hnd[p] = Nil
  BY <1>0, RequestTypes DEF Begin, Shape, ShapeOf, Pending
<1>2. /\ req' = [req EXCEPT ![p] = r]
      /\ UNCHANGED <<meta, stageMeta, bits, clobbered, acked, intact>>
      /\ due'[p] = Promise(p, r)
      /\ Step(p) /\ ~ DropKeys(p)
  BY <1>0 DEF Begin, DropKeys, Step, storeVars, TypeOK
<1>3. req'[p] = r
  BY <1>0, <1>2 DEF TypeOK
<1>4. setMembers' = setMembers
  <2>1. \A n \in Names : setMembers'[n] = setMembers[n]
    BY <1>2, SameMembers DEF StoredSame
  <2> QED BY <2>1 DEF setMembers
<1>5. /\ \/ res' = res
         \/ p \in Embedders /\ r.op = "stats" /\ res' = [res EXCEPT ![p] = "ok"]
      /\ p \notin Embedders => pc'[p] \in {"check", "load_meta"} /\ hnd'[p] = Nil
  <2>1. CASE hnd[p] = Nil
    BY <1>0, <1>1, <2>1 DEF Begin, Goto, TypeOK
  <2>2. CASE hnd[p] # Nil
    <3>1. p \in Embedders /\ res' = [res EXCEPT ![p] = IF r.op = "stats" THEN "ok" ELSE res[p]]
      BY <1>1, <2>2 DEF Begin, Enter
    <3>2. r.op # "stats" => res' = res
      BY <1>0, <3>1 DEF TypeOK
    <3> QED BY <3>1, <3>2
  <2> QED BY <2>1, <2>2
<1>6. setPhase'[p] = IF p \in Embedders /\ res'[p] = "none" THEN "lost" ELSE "new"
  BY <1>1, <1>3, <1>5 DEF setPhase, Waiting, Unbound
<1>7. setSure'[p] = Set!Sure(p, r)
  <2>1. ASSUME p \notin Embedders, r.op = "exists", ~ clobbered[r.name]
        PROVE  due'[p] = Set!MembersOf(r.name)
    <3>1. due'[p] = acked[r.name] \cup HeldItems(r.name)
      BY <1>1, <1>2, <2>1 DEF Promise
    <3>2. acked[r.name] \subseteq HeldItems(r.name)
      BY <1>0, <1>1, <2>1 DEF AckedItemsHeld, HeldItems, TypeOK
    <3> QED BY <1>1, <3>1, <3>2, MembersAreHeld
  <2> QED BY <1>1, <1>2, <1>3, <2>1 DEF setSure, Set!Sure
<1>8. /\ setPhase' = [setPhase EXCEPT ![p] = IF p \in Embedders /\ res'[p] = "none" THEN "lost" ELSE "new"]
      /\ setSure' = [setSure EXCEPT ![p] = Set!Sure(p, r)]
  BY <1>0, <1>2, <1>6, <1>7, OneCaller
<1>9. Set!Invoke(p, r)
  BY <1>1, <1>2, <1>4, <1>5, <1>8 DEF Set!Invoke
<1> QED BY <1>9 DEF Set!Next

LEMMA CheckMaps ==
  ASSUME RInv, NEW p \in Procs, CheckExisting(p) \/ Register(p)
  PROVE  Set!Next \/ UNCHANGED Set!aVars
<1>0. TypeOK /\ Shape
  BY DEF RInv, IInv
<1>1. /\ req[p] \in Requests /\ req[p].op = "create" /\ res[p] = "none" /\ hnd[p] = Nil
      /\ req[p] # Nil /\ req[p].name \in Names
  BY <1>0, RequestTypes DEF CheckExisting, Register, Shape, ShapeOf, Pending, Creating, TypeOK
<1>2. /\ req' = req /\ UNCHANGED <<meta, stageMeta, bits, clobbered, intact, due>>
      /\ Step(p) /\ ~ DropKeys(p)
  BY DEF CheckExisting, Register, SAdd, DropKeys, Step, Serve, CreateStep, storeVars, histVars
<1>3. \A n \in Names : StoredSame(n)
  BY <1>2 DEF StoredSame
<1>4. Grows(req[p].name)
  BY <1>1, <1>2, <1>3, SameMembers DEF Grows
<1>5. CASE res' = res
  <2>1. CheckExisting(p) /\ pc'[p] = "write_meta" /\ hnd' = hnd /\ pc[p] = "check"
    BY <1>0, <1>1, <1>5 DEF CheckExisting, Register, Finish, Goto, TypeOK
  <2>2. setPhase'[p] = setPhase[p]
    BY <1>2, <1>5, <2>1 DEF setPhase, Waiting, Unbound
  <2>3. setSure'[p] = setSure[p]
    BY <1>2 DEF setSure
  <2> QED BY <1>0, <1>2, <1>5, <2>2, <2>3, Unnoticed
<1>6. CASE res' # res
  <2>1. PICK o \in Set!Answers : res' = [res EXCEPT ![p] = o] /\ Set!Truthful(p, req[p].name, o)
    <3>1. CASE Register(p)
      <4>1. setPhase[p] # "new"
        BY <1>1, <3>1, NotNew DEF Register, Waiting, Unbound
      <4> QED BY <1>1, <3>1, <4>1 DEF Register, Finish, Set!Answers, Set!Truthful
    <3>2. CASE CheckExisting(p)
      <4>1. meta[req[p].name] # Nil => setMembers[req[p].name] # Nil
        BY <1>1, MembersAreHeld
      <4> QED BY <1>1, <1>6, <3>2, <4>1 DEF CheckExisting, Finish, Goto, Set!Answers, Set!Truthful
    <3> QED BY <3>1, <3>2
  <2> QED BY <1>0, <1>1, <1>2, <1>3, <1>4, <2>1, AnswerStep
<1> QED BY <1>5, <1>6

(* New: the filter hash makes the filter, or breaks the one it overwrites; *)
(* so does the hash of stage 0.                                            *)
LEMMA CreateMaps ==
  ASSUME RInv, RInv', NEW p \in Procs, WriteMeta(p) \/ WriteStage0(p)
  PROVE  Set!Next
<1>0. TypeOK /\ TypeOK' /\ Shape /\ StoreTypeOK
  BY DEF RInv, IInv, TypeOK
<1>1. /\ req[p] \in Requests /\ req[p].op = "create" /\ res[p] = "none" /\ hnd[p] = Nil
      /\ req[p] # Nil /\ req[p].name \in Names /\ req[p].par \in Params
  BY <1>0, RequestTypes DEF WriteMeta, WriteStage0, Shape, ShapeOf, Pending, Creating, TypeOK
<1>2. PICK n : n = req[p].name
  OBVIOUS
<1>3. /\ req' = req /\ res' = res /\ hnd' = hnd /\ due' = due /\ bits' = bits
      /\ Step(p) /\ ~ DropKeys(p)
  BY DEF WriteMeta, WriteStage0, HSetMeta, HSetStage, Goto, DropKeys, Step, Serve, CreateStep
<1>4. \A m \in Names \ {n} : StoredSame(m)
  BY <1>0, <1>1, <1>2 DEF StoredSame, WriteMeta, WriteStage0, HSetMeta, HSetStage, computeStage, StoreTypeOK
<1>5. PICK S \in SUBSET Items : S = HeldItems(n)'
  BY DEF HeldItems
<1>6. setMembers' = [setMembers EXCEPT ![n] = IF meta'[n] = Nil THEN Nil ELSE S]
  BY <1>1, <1>2, <1>4, <1>5, OneFilter
<1>7. Set!WaitsOn(p, n)
  BY <1>1, <1>2 DEF Set!WaitsOn
<1>8. setPhase' = [setPhase EXCEPT ![p] = IF setPhase[p] = "new" THEN "bound" ELSE setPhase[p]]
  <2>1. CASE WriteMeta(p)
    <3>1. pc[p] = "write_meta" /\ pc'[p] = "write_stage0" /\ intact'[p]
      BY <1>0, <2>1 DEF WriteMeta, Goto, TypeOK
    <3>2. setPhase'[p] = IF setPhase[p] = "new" THEN "bound" ELSE setPhase[p]
      BY <1>1, <1>3, <3>1 DEF setPhase, Waiting, Unbound
    <3> QED BY <1>0, <1>3, <3>2, OneCaller
  <2>2. CASE WriteStage0(p)
    <3>1. pc[p] = "write_stage0" /\ pc'[p] = "register" /\ intact' = intact
      BY <1>0, <2>2 DEF WriteStage0, Goto, TypeOK
    <3>2. setPhase'[p] = setPhase[p] /\ setPhase[p] # "new"
      BY <1>1, <1>3, <3>1 DEF setPhase, Waiting, Unbound
    <3> QED BY <1>0, <1>3, <3>2, OneCaller
  <2> QED BY <2>1, <2>2
<1>9. clobbered' = clobbered => setSure' = setSure
  <2>1. clobbered' = clobbered => setSure'[p] = setSure[p]
    BY <1>3 DEF setSure
  <2>2. clobbered' = clobbered => setSure' = [setSure EXCEPT ![p] = setSure[p]]
    BY <1>0, <1>3, <2>1, OneCaller
  <2> QED BY <2>2 DEF setSure
<1>10. ASSUME clobbered' = [clobbered EXCEPT ![n] = TRUE]
       PROVE  setSure' = [q \in Procs |-> IF req[q] # Nil /\ req[q].name = n THEN {} ELSE setSure[q]]
  <2>1. \A q \in Procs : (req[q] # Nil => req[q].name \in Names)
    BY <1>0, RequestTypes DEF TypeOK
  <2>2. \A q \in Procs : req[q] # Nil => clobbered'[req[q].name] = (req[q].name = n \/ clobbered[req[q].name])
    BY <1>0, <1>1, <1>2, <1>10, <2>1 DEF TypeOK
  <2> QED BY <1>3, <2>2 DEF setSure
<1>11. \/ /\ setMembers' = [setMembers EXCEPT ![n] = Set!MembersOf(n) \cup S]
           /\ UNCHANGED <<clobbered, setSure>>
       \/ /\ Set!Gain(n, S)
           /\ UNCHANGED <<clobbered, setSure>>
       \/ /\ setMembers' = [setMembers EXCEPT ![n] = IF setMembers[n] = Nil THEN Nil ELSE S]
           /\ clobbered' = [clobbered EXCEPT ![n] = TRUE]
           /\ setSure' = [q \in Procs |-> IF req[q] # Nil /\ req[q].name = n THEN {} ELSE setSure[q]]
  <2>0. (setMembers[n] = Nil <=> meta[n] = Nil) /\ Set!MembersOf(n) = HeldItems(n)
    BY <1>1, <1>2, MembersAreHeld
  <2>1. CASE WriteMeta(p)
    <3>1. /\ clobbered' = [clobbered EXCEPT ![n] = clobbered[n] \/ meta[n] # Nil]
          /\ meta'[n] # Nil
      <4>1. clobbered' = [clobbered EXCEPT ![n] = clobbered[n] \/ meta[n] # Nil]
        BY <1>2, <2>1 DEF WriteMeta
      <4>2. meta'[n] = [par |-> req[p].par, stage_count |-> 1]
        BY <1>0, <1>1, <1>2, <2>1 DEF WriteMeta, HSetMeta, StoreTypeOK
      <4>3. meta'[n] \in Meta
        BY <1>1, <4>2, StoreAssumption DEF Meta
      <4> QED BY <4>1, <4>3, StoreAssumption
    <3>2. CASE meta[n] = Nil
      <4>1. clobbered' = clobbered
        BY <1>0, <3>1, <3>2 DEF TypeOK
      <4>2. Set!MembersOf(n) = {}
        BY <2>0, <3>2 DEF HeldItems, Held
      <4> QED BY <1>6, <1>9, <3>1, <4>1, <4>2
    <3>3. CASE meta[n] # Nil
      BY <1>6, <1>10, <2>0, <3>1, <3>3
    <3> QED BY <3>2, <3>3
  <2>2. CASE WriteStage0(p)
    <3>1. /\ clobbered' = [clobbered EXCEPT ![n] = clobbered[n] \/ stageMeta[n][0] # Nil]
          /\ meta' = meta
          /\ \A i \in StageIdx : i # 0 => stageMeta'[n][i] = stageMeta[n][i]
      BY <1>0, <1>1, <1>2, <2>2 DEF WriteStage0, HSetStage, computeStage, StoreTypeOK
    <3>2. CASE stageMeta[n][0] = Nil
      <4>1. clobbered' = clobbered
        BY <1>0, <3>1, <3>2 DEF TypeOK
      <4>2. \A x \in Items : Held(n, x) => Held(n, x)'
        <5> SUFFICES ASSUME NEW x \in Items, Held(n, x) PROVE Held(n, x)'
          OBVIOUS
        <5>1. PICK i \in 0 .. meta[n].stage_count - 1 :
                 stageMeta[n][i] # Nil /\ Positions(x, stageMeta[n][i]) \subseteq bits[n][i]
          BY DEF Held
        <5>2. meta[n] # Nil /\ i \in StageIdx /\ i # 0
          BY <1>0, <1>1, <1>2, <3>2, <5>1, ChainTypes DEF Held
        <5>3. stageMeta'[n][i] = stageMeta[n][i]
          BY <3>1, <5>2
        <5> QED BY <1>3, <3>1, <5>1, <5>2, <5>3 DEF Held
      <4>3. Grows(n)
        BY <1>4, <3>1, <4>2 DEF Grows, HeldItems
      <4> QED BY <1>1, <1>2, <1>5, <1>9, <4>1, <4>3, GainStep
    <3>3. CASE stageMeta[n][0] # Nil
      BY <1>6, <1>10, <2>0, <3>1, <3>3
    <3> QED BY <3>2, <3>3
  <2> QED BY <2>1, <2>2
<1>12. Set!Create(p, n, S)
  BY <1>1, <1>2, <1>3, <1>7, <1>8, <1>11 DEF Set!Create
<1> QED BY <1>1, <1>2, <1>12 DEF Set!Next

(* Load reads, and binds the request to the filter it finds.               *)
LEMMA LoadMaps ==
  ASSUME RInv, NEW p \in Procs, LoadStep(p)
  PROVE  Set!Next \/ UNCHANGED Set!aVars
<1>0. TypeOK /\ Shape /\ Known(p)
  BY KnownParts DEF RInv, IInv
<1>1. /\ req[p] \in Requests /\ req[p].op # "create" /\ res[p] = "none"
      /\ req[p] # Nil /\ req[p].name \in Names /\ pc[p] \in Loading
      /\ hnd[p] # Nil => req[p].op = "add"
      /\ req[p].op \in {"add", "exists"} => req[p].item \in Items
  BY <1>0, RequestTypes DEF LoadStep, LoadMeta, LoadStage, LoadFill, Shape, ShapeOf, Pending, Loading, TypeOK
<1>2. /\ req' = req /\ UNCHANGED <<meta, stageMeta, bits, clobbered, due>>
      /\ Step(p) /\ ~ DropKeys(p)
  BY <1>1 DEF LoadStep, LoadMeta, LoadStage, LoadFill, DropKeys, Loading, Step, Serve, storeVars, histVars
<1>3. /\ \A n \in Names : StoredSame(n)
      /\ Grows(req[p].name)
  <2>1. \A n \in Names : StoredSame(n)
    BY <1>2 DEF StoredSame
  <2> QED BY <1>1, <1>2, <2>1, SameMembers DEF Grows
<1>4. setSure'[p] = setSure[p]
  BY <1>2 DEF setSure
<1>5. setPhase'[p] = setPhase[p] /\ res' = res => UNCHANGED Set!aVars
  BY <1>0, <1>2, <1>4, Unnoticed
<1>6. ASSUME NEW o \in Set!Answers, res' = [res EXCEPT ![p] = o], Set!Truthful(p, req[p].name, o)
      PROVE  Set!Next
  BY <1>0, <1>1, <1>2, <1>3, <1>6, AnswerStep
<1>7. CASE LoadMeta(p)
  <2>1. CASE meta[req[p].name] = Nil
    <3>1. setMembers[req[p].name] = Nil
      BY <1>1, <2>1 DEF setMembers
    <3>2. Set!Truthful(p, req[p].name, "not_found")
      BY <1>1, <3>1 DEF Set!Truthful
    <3>3. res' = [res EXCEPT ![p] = "not_found"]
      BY <1>7, <2>1 DEF LoadMeta, Finish
    <3> QED BY <1>6, <3>2, <3>3 DEF Set!Answers
  <2>2. CASE meta[req[p].name] # Nil
    <3>1. /\ pc[p] = "load_meta" /\ pc'[p] = "load_stage" /\ res' = res /\ hnd' = hnd
          /\ intact'[p] = ((hnd[p] = Nil) \/ intact[p])
      BY <1>0, <1>7, <2>2 DEF LoadMeta, Goto, TypeOK
    <3>2. CASE hnd[p] # Nil \/ p \in Embedders
      <4>1. setPhase'[p] = setPhase[p]
        BY <1>1, <1>2, <3>1, <3>2 DEF setPhase, Waiting, Unbound
      <4> QED BY <1>5, <3>1, <4>1
    <3>3. CASE hnd[p] = Nil /\ p \notin Embedders
      <4>1. setPhase[p] = "new" /\ setPhase'[p] = "bound"
        BY <1>1, <1>2, <3>1, <3>3 DEF setPhase, Waiting, Unbound
      <4>2. setPhase' = [setPhase EXCEPT ![p] = "bound"]
        BY <1>0, <1>2, <4>1, OneCaller
      <4>3. setMembers' = setMembers
        <5>1. \A n \in Names : setMembers'[n] = setMembers[n]
          BY <1>3, SameMembers
        <5> QED BY <5>1 DEF setMembers
      <4>4. setSure' = setSure
        <5>1. setSure' = [setSure EXCEPT ![p] = setSure[p]]
          BY <1>0, <1>2, <1>4, OneCaller
        <5> QED BY <5>1 DEF setSure
      <4>5. setMembers[req[p].name] # Nil
        BY <1>1, <2>2, MembersAreHeld
      <4>6. Set!Bind(p, req[p].name)
        BY <1>1, <1>2, <3>1, <4>1, <4>2, <4>3, <4>4, <4>5 DEF Set!Bind, Set!WaitsOn
      <4> QED BY <1>1, <4>6 DEF Set!Next
    <3> QED BY <3>2, <3>3
  <2> QED BY <2>1, <2>2
<1>8. CASE LoadStage(p) \/ LoadFill(p)
  <2>1. pc[p] \in {"load_stage", "load_fill"} /\ intact' = intact
    BY <1>8 DEF LoadStage, LoadFill, histVars
  <2>2. setPhase[p] # "new"
    BY <1>1, <2>1, NotNew DEF Waiting, Unbound
  <2>3. CASE res' = res
    <3>1. ~ Unbound(p) /\ ~ Unbound(p)'
      <4>1. pc'[p] \in {"load_stage", "load_fill", "set_bits", "get_bits", "del", "done"}
        <5>1. req[p].op \in {"add", "exists", "stats", "delete"}
          BY <1>1, RequestTypes
        <5> QED BY <1>0, <1>8, <5>1 DEF LoadStage, LoadFill, Enter, EntryLabel, Finish, Goto, TypeOK
      <4> QED BY <2>1, <4>1 DEF Unbound
    <3>2. setPhase'[p] = setPhase[p]
      BY <1>1, <1>2, <2>1, <2>3, <3>1 DEF setPhase, Waiting
    <3> QED BY <1>5, <2>3, <3>2
  <2>4. CASE res' # res
    <3>1. PICK o \in {"ok", "error"} :
            /\ res' = [res EXCEPT ![p] = o]
            /\ o = "ok" => req[p].op = "stats" \/ hnd[p] # Nil
      <4>1. CASE LoadStage(p)
        BY <2>4, <4>1 DEF LoadStage, Finish, Goto
      <4>2. CASE LoadFill(p) /\ hnd[p] # Nil
        BY <2>4, <4>2 DEF LoadFill, Finish, Goto
      <4>3. CASE LoadFill(p) /\ hnd[p] = Nil
        <5>1. res' = [res EXCEPT ![p] = IF req[p].op = "stats" THEN "ok" ELSE res[p]]
          BY <2>4, <4>3 DEF LoadFill, Enter, Goto
        <5>2. req[p].op = "stats"
          BY <1>0, <2>4, <5>1 DEF TypeOK
        <5> QED BY <5>1, <5>2
      <4> QED BY <1>8, <4>1, <4>2, <4>3
    <3>2. CASE o = "error" \/ req[p].op = "stats"
      BY <1>6, <2>2, <3>1, <3>2 DEF Set!Answers, Set!Truthful
    <3>3. CASE o = "ok" /\ req[p].op # "stats"
      <4>1. req[p].op = "add" /\ hnd[p] # Nil
        BY <1>1, <3>1, <3>3
      <4>2. Set!Good(p, req[p].name) => req[p].item \in Set!MembersOf(req[p].name)
        <5>1. Set!Good(p, req[p].name) => Sound(p, req[p].name)
          BY BoundIsIntact DEF Set!Good, Sound
        <5>2. Sound(p, req[p].name) => Held(req[p].name, req[p].item)
          BY <1>0, <1>1, <4>1 DEF Known, AddOf, Stored, Loading
        <5> QED BY <1>1, <4>1, <5>1, <5>2, HeldIsMember
      <4>3. Set!Truthful(p, req[p].name, "ok")
        BY <2>2, <4>1, <4>2 DEF Set!Truthful
      <4> QED BY <1>6, <3>1, <3>3, <4>3 DEF Set!Answers
    <3> QED BY <3>1, <3>2, <3>3
  <2> QED BY <2>3, <2>4
<1> QED BY <1>7, <1>8 DEF LoadStep

(* An append counts a stage that was not counted: what was held still is.  *)
LEMMA AppendGrows ==
  ASSUME TypeOK, NEW n \in Names, NEW idx \in Nat, idx + 1 \in 1 .. MaxStages, NEW st,
         AppendStage(n, idx, st)
  PROVE  Grows(n)
<1>1. CASE ~ AppendWins(n, idx)
  <2>1. UNCHANGED <<meta, stageMeta, bits>>
    BY <1>1 DEF AppendStage, storeVars
  <2>2. \A m \in Names : StoredSame(m)
    BY <2>1 DEF StoredSame
  <2> QED BY <2>1, <2>2, SameMembers DEF Grows
<1>2. CASE AppendWins(n, idx)
  <2>1. /\ meta' = [meta EXCEPT ![n].stage_count = @ + 1]
        /\ stageMeta' = [stageMeta EXCEPT ![n][idx] = st]
        /\ bits' = bits
    BY <1>2 DEF AppendStage
  <2>2. meta[n] # Nil /\ meta[n] \in Meta /\ meta[n].stage_count = idx
    BY <1>2 DEF AppendWins, TypeOK, StoreTypeOK
  <2>3. meta'[n] = [par |-> meta[n].par, stage_count |-> idx + 1]
    BY <2>1, <2>2 DEF TypeOK, StoreTypeOK, Meta
  <2>4. meta'[n].stage_count = idx + 1
    BY <2>3
  <2>5. \A i \in 0 .. idx - 1 : stageMeta'[n][i] = stageMeta[n][i]
    <3>1. idx \in 1 .. MaxStages
      BY <2>2 DEF Meta
    <3> SUFFICES ASSUME NEW i \in 0 .. idx - 1 PROVE stageMeta'[n][i] = stageMeta[n][i]
      OBVIOUS
    <3>2. i # idx
      BY <3>1, StoreAssumption
    <3> QED BY <2>1, <3>2 DEF TypeOK, StoreTypeOK
  <2>6. meta'[n] # Nil
    BY <2>2, <2>3, StoreAssumption DEF Meta
  <2>7. \A x \in Items : Held(n, x) => Held(n, x)'
    <3> SUFFICES ASSUME NEW x \in Items, Held(n, x) PROVE Held(n, x)'
      OBVIOUS
    <3>1. PICK i \in 0 .. idx - 1 :
             stageMeta[n][i] # Nil /\ Positions(x, stageMeta[n][i]) \subseteq bits[n][i]
      BY <2>2 DEF Held
    <3>2. stageMeta'[n][i] = stageMeta[n][i] /\ i \in 0 .. meta'[n].stage_count - 1
      BY <2>4, <2>5, <3>1
    <3> QED BY <2>1, <2>6, <3>1, <3>2 DEF Held
  <2>8. \A m \in Names \ {n} : StoredSame(m)
    BY <2>1 DEF StoredSame, TypeOK, StoreTypeOK
  <2> QED BY <2>2, <2>6, <2>7, <2>8 DEF Grows, HeldItems
<1> QED BY <1>1, <1>2

(* A SETBIT can only add to what is held.                                  *)
LEMMA SetBitGrows ==
  ASSUME TypeOK, NEW n \in Names, NEW i \in StageIdx, NEW b, SetBit(n, i, b)
  PROVE  Grows(n)
<1>1. /\ meta' = meta /\ stageMeta' = stageMeta
      /\ \A j \in StageIdx : bits[n][j] \subseteq bits'[n][j]
      /\ \A m \in Names \ {n} : bits'[m] = bits[m]
  BY DEF SetBit, TypeOK, StoreTypeOK
<1>2. \A x \in Items : Held(n, x) => Held(n, x)'
  <2> SUFFICES ASSUME NEW x \in Items, Held(n, x) PROVE Held(n, x)'
    OBVIOUS
  <2>1. PICK j \in 0 .. meta[n].stage_count - 1 :
           stageMeta[n][j] # Nil /\ Positions(x, stageMeta[n][j]) \subseteq bits[n][j]
    BY DEF Held
  <2>2. j \in StageIdx /\ meta[n] # Nil
    BY <2>1, ChainTypes DEF Held, TypeOK
  <2> QED BY <1>1, <2>1, <2>2 DEF Held
<1> QED BY <1>1, <1>2 DEF Grows, StoredSame, HeldItems

(* Add puts its item into the set on the way, and reports what is there.   *)
LEMMA AddMaps ==
  ASSUME RInv, RInv', NEW p \in Procs, AddStep(p)
  PROVE  Set!Next \/ UNCHANGED Set!aVars
<1>0. TypeOK /\ Shape /\ Known(p)
  BY KnownParts DEF RInv, IInv
<1>1. PICK n : n = req[p].name
  OBVIOUS
<1>2. /\ req[p] \in Requests /\ req[p].op = "add" /\ res[p] = "none"
      /\ req[p] # Nil /\ n \in Names /\ pc[p] \in Adding /\ req[p].item \in Items
      /\ hnd[p].name = n /\ hnd[p] # Nil /\ Len(hnd[p].stages) \in 1 .. MaxStages
  BY <1>0, <1>1, RequestTypes, AtWork
     DEF AddStep, SetNextBit, IncrFill, AppendNewStage, Shape, ShapeOf, Pending, Adding, TypeOK
<1>3. /\ req' = req /\ clobbered' = clobbered
      /\ Step(p) /\ ~ DropKeys(p)
  BY <1>2 DEF AddStep, SetNextBit, IncrFill, AppendNewStage, DropKeys, Adding, Step, Serve, histVars
<1>4. Grows(n)
  <2>1. CASE SetNextBit(p)
    <3>1. PICK b : SetBit(n, at[p], b)
      BY <1>2, <2>1 DEF SetNextBit
    <3> QED BY <1>0, <1>2, <3>1, SetBitGrows DEF TypeOK
  <2>2. CASE IncrFill(p)
    <3>1. \A m \in Names : StoredSame(m)
      BY <2>2 DEF IncrFill, Incr, StoredSame
    <3>2. meta' = meta
      BY <2>2 DEF IncrFill, Incr
    <3> QED BY <1>2, <3>1, <3>2, SameMembers DEF Grows
  <2>3. CASE AppendNewStage(p)
    <3>1. AppendStage(n, Len(hnd[p].stages), computeStage(hnd[p].par, Len(hnd[p].stages)))
      BY <1>2, <2>3 DEF AppendNewStage
    <3>2. Len(hnd[p].stages) \in Nat /\ Len(hnd[p].stages) + 1 \in 1 .. MaxStages
      <4>1. Sizable(hnd[p].par, Len(hnd[p].stages)) /\ hnd[p].par \in Params
        BY <1>0, <1>2, <2>3, HandleTypes DEF AppendNewStage, Shape, ShapeOf, TypeOK
      <4>2. Len(hnd[p].stages) \in Nat
        BY <1>2, StoreAssumption
      <4> QED BY <4>1, <4>2, SizableInRange
    <3> QED BY <1>0, <1>2, <3>1, <3>2, AppendGrows
  <2> QED BY <2>1, <2>2, <2>3 DEF AddStep
<1>5. setSure' = setSure
  <2>1. setSure'[p] = setSure[p]
    BY <1>2, <1>3 DEF setSure
  <2>2. setSure' = [setSure EXCEPT ![p] = setSure[p]]
    BY <1>0, <1>3, <2>1, OneCaller
  <2> QED BY <2>2 DEF setSure
<1>6. setPhase[p] # "new" /\ ~ Unbound(p)
  BY <1>2, NotNew DEF Waiting, Unbound, Adding
<1>7. ASSUME res' = res, intact'[p] = intact[p], pc'[p] \in Adding \/ pc'[p] = "load_meta", hnd'[p] = hnd[p]
      PROVE  Set!Next
  <2>1. setPhase'[p] = setPhase[p]
    <3>1. ~ Unbound(p)'
      BY <1>2, <1>7 DEF Unbound, Adding
    <3> QED BY <1>2, <1>3, <1>6, <1>7, <3>1 DEF setPhase, Waiting
  <2>2. setPhase' = setPhase
    <3>1. setPhase' = [setPhase EXCEPT ![p] = setPhase[p]]
      BY <1>0, <1>3, <2>1, OneCaller
    <3> QED BY <3>1 DEF setPhase
  <2>3. PICK S \in SUBSET Items : S = HeldItems(n)'
    BY DEF HeldItems
  <2>4. Set!Gain(n, S)
    BY <1>2, <1>4, <2>3, GainStep
  <2>5. Set!Insert(p, n, S)
    BY <1>1, <1>2, <1>3, <1>5, <1>6, <1>7, <2>2, <2>4 DEF Set!Insert, Set!WaitsOn
  <2> QED BY <1>2, <2>5 DEF Set!Next
<1>8. ASSUME NEW o \in {"ok", "error"}, res' = [res EXCEPT ![p] = o],
             o = "ok" /\ Sound(p, n) => Held(n, req[p].item)
      PROVE  Set!Next
  <2>1. Set!Good(p, n) => Sound(p, n)
    BY BoundIsIntact DEF Set!Good, Sound
  <2>2. o = "ok" /\ Set!Good(p, n) => req[p].item \in Set!MembersOf(n)
    BY <1>2, <1>8, <2>1, HeldIsMember
  <2>3. Set!Truthful(p, n, o)
    BY <1>2, <1>6, <2>2 DEF Set!Truthful
  <2> QED BY <1>0, <1>1, <1>2, <1>3, <1>4, <1>8, <2>3, AnswerStep DEF Set!Answers
<1>9. pc[p] \in {"incr", "append"} /\ Sound(p, n) => Held(n, req[p].item)
  BY <1>0, <1>1, <1>2 DEF Known, AddOf, Stored
<1>10. CASE SetNextBit(p)
  <2>1. res' = res /\ intact' = intact /\ hnd' = hnd /\ pc'[p] \in Adding
    BY <1>0, <1>10 DEF SetNextBit, Goto, Adding, histVars, TypeOK
  <2> QED BY <1>7, <2>1
<1>11. CASE IncrFill(p)
  <2>1. intact' = intact /\ hnd' = hnd /\ pc[p] = "incr"
    BY <1>11 DEF IncrFill, histVars
  <2>2. \/ res' = res /\ pc'[p] = "append"
        \/ \E o \in {"ok", "error"} : res' = [res EXCEPT ![p] = o]
    BY <1>0, <1>11 DEF IncrFill, Goto, Finish, TypeOK
  <2> QED BY <1>7, <1>8, <1>9, <2>1, <2>2 DEF Adding
<1>12. CASE AppendNewStage(p)
  <2>1. pc[p] = "append"
    BY <1>12 DEF AppendNewStage
  <2>2. \/ res' = res /\ pc'[p] = "load_meta" /\ hnd' = hnd /\ intact' = intact
        \/ \E o \in {"ok", "error"} : res' = [res EXCEPT ![p] = o]
    BY <1>0, <1>12 DEF AppendNewStage, Goto, Finish, TypeOK
  <2>3. CASE res' = res /\ pc'[p] = "load_meta" /\ hnd' = hnd /\ intact' = intact
    BY <1>7, <2>3
  <2>4. ASSUME NEW o \in {"ok", "error"}, res' = [res EXCEPT ![p] = o]
        PROVE  Set!Next
    BY <1>8, <1>9, <2>1, <2>4
  <2> QED BY <2>2, <2>3, <2>4
<1> QED BY <1>10, <1>11, <1>12 DEF AddStep

(* Exists reports present what is in a stage of its copy of the chain, and *)
(* absent what it need not report.                                         *)
LEMMA ExistsMaps ==
  ASSUME RInv, RInv', NEW p \in Procs, ExistsStep(p)
  PROVE  Set!Next \/ UNCHANGED Set!aVars
<1>0. TypeOK /\ Shape /\ Known(p) /\ Known(p)' /\ ReadOf(p) /\ StoreTypeOK
  BY KnownParts DEF RInv, IInv, Known, Copies, AddsProgress, Lookups, TypeOK
<1>1. PICK n, x, hs, i : n = req[p].name /\ x = req[p].item /\ hs = hnd[p].stages /\ i = at[p]
  OBVIOUS
<1>2. /\ req[p] \in Requests /\ req[p].op = "exists" /\ res[p] = "none" /\ pc[p] = "get_bits"
      /\ req[p] # Nil /\ n \in Names /\ x \in Items
      /\ hnd[p].name = n /\ hnd[p] # Nil /\ Len(hs) \in 1 .. MaxStages
      /\ i \in StageIdx /\ i < Len(hs) /\ hs \in Seq(Stages)
  BY <1>0, <1>1, AtWork, HandleTypes DEF ExistsStep, HitBit, MissBit, Shape, ShapeOf, Pending, TypeOK
<1>3. /\ req' = req /\ UNCHANGED <<meta, stageMeta, bits, clobbered, due, intact, hnd>>
      /\ Step(p) /\ ~ DropKeys(p)
  BY <1>2 DEF ExistsStep, HitBit, MissBit, DropKeys, Step, Serve, storeVars, histVars
<1>4. /\ \A m \in Names : StoredSame(m)
      /\ Grows(n)
  <2>1. \A m \in Names : StoredSame(m)
    BY <1>3 DEF StoredSame
  <2> QED BY <1>2, <1>3, <2>1, SameMembers DEF Grows
<1>5. setPhase[p] # "new" /\ ~ Unbound(p)
  BY <1>2, NotNew DEF Waiting, Unbound
<1>6. CASE res' = res
  <2>1. pc'[p] = "get_bits"
    BY <1>0, <1>2, <1>6 DEF ExistsStep, HitBit, MissBit, Finish, Goto, TypeOK
  <2>2. setPhase'[p] = setPhase[p]
    BY <1>2, <1>3, <1>5, <1>6, <2>1 DEF setPhase, Waiting, Unbound
  <2>3. setSure'[p] = setSure[p]
    BY <1>3 DEF setSure
  <2> QED BY <1>0, <1>3, <1>6, <2>2, <2>3, Unnoticed
<1>7. ASSUME NEW o \in Set!Answers, res' = [res EXCEPT ![p] = o], Set!Truthful(p, n, o)
      PROVE  Set!Next
  BY <1>0, <1>1, <1>2, <1>3, <1>4, <1>7, AnswerStep
<1>8. CASE HitBit(p) /\ res' # res
  <2>1. /\ res' = [res EXCEPT ![p] = "present"]
        /\ \E b \in todo[p] : b \in bits[n][i] /\ todo[p] = {b}
    BY <1>1, <1>2, <1>8 DEF HitBit, NextBits, GetBit, Finish, Goto, Done
  <2>2. ASSUME Sound(p, n) PROVE Held(n, x)
    <3>1. Positions(x, hs[i + 1]) \subseteq bits[n][i]
      BY <1>0, <1>1, <1>2, <2>1, <2>2 DEF ReadOf
    <3>2. Matches(n, hs)
      BY <1>0, <1>1, <1>2, <2>2 DEF Known, CopyOf
    <3>3. i + 1 \in 1 .. Len(hs) /\ (i + 1) - 1 = i
      BY <1>2, StoreAssumption DEF StageIdx
    <3>4. stageMeta[n][i] = hs[i + 1]
      BY <3>2, <3>3 DEF Matches
    <3>5. meta[n] # Nil /\ i \in 0 .. meta[n].stage_count - 1
      <4>1. meta[n] # Nil /\ Len(hs) <= meta[n].stage_count
        BY <3>2 DEF Matches
      <4>2. meta[n].stage_count \in 1 .. MaxStages
        BY <1>0, <1>2, <4>1, ChainTypes
      <4> QED BY <1>2, <4>1, <4>2, StoreAssumption DEF StageIdx
    <3>6. hs[i + 1] # Nil
      BY <1>2, <3>3, StoreAssumption
    <3> QED BY <3>1, <3>4, <3>5, <3>6 DEF Held
  <2>3. Set!Good(p, n) => x \in Set!MembersOf(n)
    <3>1. Set!Good(p, n) => Sound(p, n)
      BY BoundIsIntact DEF Set!Good, Sound
    <3> QED BY <1>2, <2>2, <3>1, HeldIsMember
  <2>4. Set!Truthful(p, n, "present")
    BY <1>1, <1>2, <1>5, <2>3 DEF Set!Truthful
  <2> QED BY <1>7, <2>1, <2>4 DEF Set!Answers
<1>9. CASE MissBit(p) /\ res' # res
  <2>1. res' = [res EXCEPT ![p] = "absent"] /\ res'[p] = "absent" /\ pc'[p] = "done"
    BY <1>0, <1>9 DEF MissBit, Finish, Goto, TypeOK
  <2>2. ~ clobbered[n] => x \notin due[p]
    <3>1. ~ MustFind(p)'
      BY <1>0, <2>1 DEF Known, LookupOf
    <3> QED BY <1>1, <1>2, <1>3, <2>1, <3>1 DEF MustFind
  <2>3. x \notin setSure[p]
    BY <1>1, <2>2 DEF setSure
  <2>4. Set!Truthful(p, n, "absent")
    BY <1>1, <1>2, <1>5, <2>3 DEF Set!Truthful
  <2> QED BY <1>7, <2>1, <2>4 DEF Set!Answers
<1> QED BY <1>6, <1>8, <1>9 DEF ExistsStep

(* Drop takes the filter away with its DEL.                                *)
LEMMA DropMaps ==
  ASSUME RInv, NEW p \in Procs, DropKeys(p)
  PROVE  Set!Next
<1>0. TypeOK /\ Shape
  BY DEF RInv, IInv
<1>1. PICK n : n = hnd[p].name
  OBVIOUS
<1>2. /\ req[p] \in Requests /\ req[p].op = "delete" /\ res[p] = "none" /\ pc[p] = "del"
      /\ req[p] # Nil /\ req[p].name = n /\ n \in Names
  BY <1>0, <1>1, RequestTypes DEF DropKeys, Shape, ShapeOf, Pending, TypeOK
<1>3. /\ Del(n, DropStages(hnd[p]), DropShards(hnd[p])) /\ Forget(n)
      /\ req' = req /\ res' = res /\ hnd' = hnd
      /\ pc' = [pc EXCEPT ![p] = "srem"]
      /\ Step(p)
  BY <1>1 DEF DropKeys, Goto, Step, Serve, DropStep
<1>4. Set!WaitsOn(p, n) /\ setPhase[p] # "new"
  <2>1. setPhase[p] # "new"
    BY <1>2, NotNew DEF Waiting, Unbound
  <2> QED BY <1>2, <2>1 DEF Set!WaitsOn
<1>5. setMembers' = [setMembers EXCEPT ![n] = Nil]
  <2>1. \A m \in Names \ {n} : StoredSame(m)
    BY <1>0, <1>2, <1>3 DEF Del, StoredSame, TypeOK, StoreTypeOK
  <2>2. meta'[n] = Nil
    BY <1>0, <1>2, <1>3 DEF Del, TypeOK, StoreTypeOK
  <2> QED BY <1>2, <2>1, <2>2, OneFilter
<1>6. clobbered' = [clobbered EXCEPT ![n] = FALSE]
  BY <1>3 DEF Forget
<1>7. ASSUME NEW q \in Procs
      PROVE  setPhase'[q] = IF Set!WaitsOn(q, n) /\ setPhase[q] = "bound" THEN "lost" ELSE setPhase[q]
  <2>1. Unbound(q)' <=> Unbound(q)
    BY <1>0, <1>2, <1>3 DEF Unbound, TypeOK
  <2>2. CASE ~ Waiting(q) \/ q \in Embedders \/ Unbound(q)
    BY <1>3, <2>1, <2>2 DEF setPhase, Waiting
  <2>3. CASE Waiting(q) /\ q \notin Embedders /\ ~ Unbound(q)
    <3>1. /\ setPhase[q] = IF intact[q] THEN "bound" ELSE "lost"
          /\ setPhase'[q] = IF intact'[q] THEN "bound" ELSE "lost"
      BY <1>3, <2>1, <2>3 DEF setPhase, Waiting
    <3>2. intact'[q] = (intact[q] /\ ~ Uses(q, n))
      BY <1>3 DEF Forget
    <3>3. Uses(q, n) <=> Set!WaitsOn(q, n)
      BY <1>0, <2>3 DEF Uses, Set!WaitsOn, Waiting, Shape, ShapeOf
    <3> QED BY <3>1, <3>2, <3>3
  <2> QED BY <2>2, <2>3
<1>8. ASSUME NEW q \in Procs
      PROVE  setSure'[q] = IF req[q] # Nil /\ req[q].name = n THEN {} ELSE setSure[q]
  <2>1. CASE req[q] # Nil /\ req[q].name = n
    <3>1. due'[q] = {}
      BY <1>3, <2>1 DEF Forget, Uses
    <3> QED BY <1>3, <2>1, <3>1 DEF setSure
  <2>2. CASE req[q] # Nil /\ req[q].name # n
    <3>1. req[q].name \in Names /\ ~ Uses(q, n)
      BY <1>0, <2>2, RequestTypes DEF Uses, Shape, ShapeOf, TypeOK
    <3>2. due'[q] = due[q] /\ clobbered'[req[q].name] = clobbered[req[q].name]
      BY <1>0, <1>3, <1>6, <2>2, <3>1 DEF Forget, TypeOK
    <3> QED BY <1>3, <2>2, <3>2 DEF setSure
  <2>3. CASE req[q] = Nil
    BY <1>3, <2>3 DEF setSure
  <2> QED BY <2>1, <2>2, <2>3
<1>9. /\ setPhase' = [q \in Procs |-> IF Set!WaitsOn(q, n) /\ setPhase[q] = "bound" THEN "lost" ELSE setPhase[q]]
      /\ setSure' = [q \in Procs |-> IF req[q] # Nil /\ req[q].name = n THEN {} ELSE setSure[q]]
  BY <1>7, <1>8 DEF setPhase, setSure
<1>10. Set!Delete(p, n)
  BY <1>2, <1>3, <1>4, <1>5, <1>6, <1>9 DEF Set!Delete
<1> QED BY <1>2, <1>10 DEF Set!Next

(* What ends a request: the SREM of a delete, a failure, the return.       *)
LEMMA EndMaps ==
  ASSUME RInv, NEW p \in Procs, Unregister(p) \/ Fail(p) \/ Return(p)
  PROVE  Set!Next
<1>0. TypeOK /\ Shape /\ ReadOf(p)
  BY DEF RInv, IInv
<1>1. /\ UNCHANGED <<meta, stageMeta, bits, clobbered>>
      /\ ~ Return(p) => UNCHANGED <<req, intact, due>>
      /\ Step(p) /\ ~ DropKeys(p)
  <2>1. pc'[p] # "srem"
    BY <1>0 DEF Unregister, Fail, Return, Finish, TypeOK
  <2>2. ~ DropKeys(p)
    BY <1>0, <2>1 DEF DropKeys, Goto, TypeOK
  <2>3. Step(p)
    BY DEF Step, Serve, DropStep
  <2> QED BY <2>2, <2>3 DEF Unregister, Fail, Return, SRem, storeVars, histVars
<1>2. /\ req[p] \in Requests /\ req[p] # Nil /\ req[p].name \in Names
  BY <1>0, RequestTypes DEF Unregister, Fail, Return, Shape, ShapeOf, TypeOK
<1>3. \A n \in Names : StoredSame(n)
  BY <1>1 DEF StoredSame
<1>4. Grows(req[p].name) /\ setMembers' = setMembers
  <2>1. \A n \in Names : setMembers'[n] = setMembers[n]
    BY <1>3, SameMembers
  <2>2. setMembers' = setMembers
    BY <2>1 DEF setMembers
  <2>3. PICK n \in Names : n = req[p].name
    BY <1>2
  <2>4. Grows(n)
    BY <1>1, <1>3, SameMembers DEF Grows
  <2> QED BY <2>2, <2>3, <2>4
<1>5. ASSUME NEW o \in Set!Answers, res[p] = "none", req' = req, due' = due,
             res' = [res EXCEPT ![p] = o], Set!Truthful(p, req[p].name, o)
      PROVE  Set!Next
  BY <1>0, <1>1, <1>2, <1>3, <1>4, <1>5, AnswerStep
<1>6. CASE Unregister(p)
  <2>1. /\ pc[p] = "srem" /\ res[p] = "none" /\ req[p].op = "delete" /\ ~ intact[p]
        /\ res' = [res EXCEPT ![p] = "ok"]
    BY <1>0, <1>6 DEF Unregister, Finish, Shape, ShapeOf, Pending, ReadOf
  <2>2. setPhase[p] = "lost"
    BY <1>2, <2>1 DEF setPhase, Waiting, Unbound
  <2>3. Set!Truthful(p, req[p].name, "ok")
    BY <2>1, <2>2 DEF Set!Truthful
  <2>4. req' = req /\ due' = due
    BY <1>6 DEF Unregister, histVars
  <2> QED BY <1>5, <2>1, <2>3, <2>4 DEF Set!Answers
<1>7. CASE Fail(p)
  <2>1. res' = [res EXCEPT ![p] = "error"] /\ req' = req /\ due' = due /\ intact' = intact
    BY <1>7 DEF Fail, Finish, histVars
  <2>2. CASE res[p] = "none"
    BY <1>5, <2>1, <2>2 DEF Set!Answers, Set!Truthful
  <2>3. CASE res[p] # "none"
    <3>1. setPhase'[p] = setPhase[p] /\ setSure'[p] = setSure[p]
      BY <1>0, <1>1, <2>1, <2>3 DEF setPhase, setSure, Waiting, TypeOK
    <3>2. /\ setPhase' = [setPhase EXCEPT ![p] = setPhase[p]]
          /\ setSure' = [setSure EXCEPT ![p] = setSure[p]]
      BY <1>0, <1>1, <3>1, OneCaller
    <3>3. setPhase' = setPhase /\ setSure' = setSure
      <4>1. setPhase' = setPhase BY <3>2 DEF setPhase
      <4>2. setSure' = setSure BY <3>2 DEF setSure
      <4> QED BY <4>1, <4>2
    <3>4. Set!LoseAnswer(p)
      BY <1>1, <1>4, <2>1, <2>3, <3>3 DEF Set!LoseAnswer
    <3> QED BY <3>4 DEF Set!Next
  <2> QED BY <2>2, <2>3
<1>8. CASE Return(p)
  <2>1. /\ res[p] # "none"
        /\ req' = [req EXCEPT ![p] = Nil] /\ res' = [res EXCEPT ![p] = "none"]
    BY <1>0, <1>8 DEF Return, Shape, Pending
  <2>2. setPhase'[p] = setPhase[p] /\ setSure'[p] = {}
    BY <1>0, <2>1 DEF setPhase, setSure, Waiting, TypeOK
  <2>3. /\ setPhase' = [setPhase EXCEPT ![p] = setPhase[p]]
        /\ setSure' = [setSure EXCEPT ![p] = {}]
    BY <1>0, <1>1, <2>2, OneCaller
  <2>4. setPhase' = setPhase
    BY <2>3 DEF setPhase
  <2>5. Set!Return(p)
    BY <1>1, <1>4, <2>1, <2>3, <2>4 DEF Set!Return
  <2> QED BY <2>5 DEF Set!Next
<1> QED BY <1>6, <1>7, <1>8

-----------------------------------------------------------------------------

LEMMA StepMaps ==
  ASSUME RInv, RInv', NEW p \in Procs, Step(p)
  PROVE  Set!Next \/ UNCHANGED Set!aVars
BY BeginMaps, CheckMaps, CreateMaps, LoadMaps, AddMaps, ExistsMaps, DropMaps, EndMaps
   DEF Step, Serve, CreateStep, DropStep

LEMMA InitMaps == Init => Set!Init
<1> SUFFICES ASSUME Init PROVE Set!Init
  OBVIOUS
<1>1. setMembers \in [Names -> {Nil, {}}]
  <2> SUFFICES ASSUME NEW n \in Names PROVE setMembers[n] \in {Nil, {}}
    BY DEF setMembers
  <2>1. CASE meta[n] = Nil
    BY <2>1 DEF setMembers
  <2>2. CASE meta[n] # Nil
    <3>1. HeldItems(n) = {}
      <4> SUFFICES ASSUME NEW x \in Items, Held(n, x) PROVE FALSE
        BY DEF HeldItems
      <4>1. PICK i \in 0 .. meta[n].stage_count - 1 :
              stageMeta[n][i] # Nil /\ Positions(x, stageMeta[n][i]) \subseteq bits[n][i]
        BY DEF Held
      <4>2. TypeOK
        BY InitType
      <4>3. i \in StageIdx
        BY <2>2, <4>2, ChainTypes DEF TypeOK
      <4>4. stageMeta[n][i] \in Stages /\ bits[n][i] = {}
        BY <4>1, <4>2, <4>3 DEF Init, TypeOK, StoreTypeOK
      <4> QED BY <4>1, <4>4, PositionsType
    <3> QED BY <2>2, <3>1 DEF setMembers
  <2> QED BY <2>1, <2>2
<1>2. setPhase = [p \in Procs |-> "new"] /\ setSure = [p \in Procs |-> {}]
  BY DEF Init, setPhase, setSure, Waiting
<1> QED BY <1>1, <1>2 DEF Init, Set!Init

(* The filters of the service are sets that lose nothing: BloomFilter,     *)
(* with any number of requests in progress, calls failing and filters      *)
(* created and deleted under each other, implements ApproximateSet.        *)
THEOREM FiltersAreSets == Spec => ImplementsSet
<1>1. Init => RInv
  BY InitIInv DEF Init, RInv, ReadOf
<1>2. RInv /\ [Next]_vars => RInv'
  <2>1. ASSUME RInv, UNCHANGED vars PROVE RInv'
    <3>1. IInv'
      BY <2>1, UnchangedIInv DEF RInv
    <3>2. \A p \in Procs : ReadOf(p)'
      BY <2>1 DEF RInv, ReadOf, Sound, vars, storeVars, procVars, histVars
    <3> QED BY <3>1, <3>2 DEF RInv
  <2> QED BY <2>1, StepRInv
<1>3. RInv /\ RInv' /\ [Next]_vars => [Set!Next]_(Set!aVars)
  <2>1. ASSUME UNCHANGED vars PROVE UNCHANGED Set!aVars
    BY <2>1 DEF vars, storeVars, procVars, histVars, Set!aVars, setMembers, setPhase, setSure,
       HeldItems, Held, Waiting, Unbound
  <2>2. ASSUME RInv, RInv', Next PROVE Set!Next \/ UNCHANGED Set!aVars
    BY <2>2, NextIsStep, StepMaps
  <2> QED BY <2>1, <2>2
<1> QED BY <1>1, <1>2, <1>3, InitMaps, PTL DEF Spec, ImplementsSet, Set!Spec

-----------------------------------------------------------------------------
(* The API.                                                                *)

allVars == <<vars, apiVars>>

(* The outcomes an operation may have. *)
OutcomesOf(op) ==
  IF op = "create" THEN {"ok", "exists", "error"}
  ELSE IF op = "exists" THEN {"present", "absent", "not_found", "error"}
  ELSE {"ok", "not_found", "error"}

(* A request in the service is one on the filter routes, and has an        *)
(* outcome of its operation.                                               *)
CallOf(p) ==
  /\ call[p] # Nil => call[p] \in Calls
  /\ call[p] # Nil /\ call[p].traced => call[p].id = "trace"
  /\ req[p] # Nil <=> call[p] # Nil /\ call[p].route = "filters"
  /\ req[p] # Nil => call[p].status = Nil
  /\ panicked[p] => req[p] # Nil /\ pc[p] = "done" /\ res[p] = "error"
  /\ pc[p] = "done" => res[p] \in OutcomesOf(req[p].op)

CallsTyped ==
  /\ call \in [Procs -> Calls \cup {Nil}]
  /\ panicked \in [Procs -> BOOLEAN]
  /\ DOMAIN sent = Procs

ApiInv == CallsTyped /\ \A p \in Procs : CallOf(p)

-----------------------------------------------------------------------------
(* The chain of middlewares.                                               *)

LEMMA ChainOrder ==
  /\ Installed("recoveryHandler")
  /\ Inside("recoveryHandler", "RequestLogger")
  /\ Inside("recoveryHandler", "HTTPMetrics")
  /\ Inside("RequestLogger", "CorrelationID")
  /\ Inside("CorrelationID", "otelgin")
<1>1. /\ DOMAIN Chain = 1 .. 7
      /\ Chain[1] = "otelgin" /\ Chain[2] = "CorrelationID" /\ Chain[3] = "HTTPMetrics"
      /\ Chain[4] = "RequestLogger" /\ Chain[5] = "recoveryHandler"
  BY DEF Chain
<1>2. 1 < 2 /\ 2 < 4 /\ 3 < 5 /\ 4 < 5 /\ {1, 2, 3, 4, 5} \subseteq 1 .. 7
  OBVIOUS
<1>3. Inside("CorrelationID", "otelgin") BY <1>1, <1>2 DEF Inside
<1>4. Inside("RequestLogger", "CorrelationID") BY <1>1, <1>2 DEF Inside
<1>5. Inside("recoveryHandler", "HTTPMetrics") BY <1>1, <1>2 DEF Inside
<1>6. Inside("recoveryHandler", "RequestLogger") BY <1>1, <1>2 DEF Inside
<1>7. Installed("recoveryHandler") BY <1>1, <1>2 DEF Installed
<1> QED BY <1>3, <1>4, <1>5, <1>6, <1>7

-----------------------------------------------------------------------------
(* The API runs the filters.                                               *)

LEMMA ApiStepServes == ApiNext => [Next]_vars
<1> SUFFICES ASSUME NEW p \in Procs,
             AnswerAtOnce(p) \/ Admit(p) \/ Readyz(p) \/ Pong(p) \/ Command(p)
               \/ CallFails(p) \/ Expire(p) \/ Panic(p) \/ Respond(p)
    PROVE  Next \/ UNCHANGED vars
  BY DEF ApiNext
<1>1. CASE AnswerAtOnce(p) \/ Readyz(p) \/ Pong(p)
  BY <1>1 DEF AnswerAtOnce, Readyz, Pong, Settle
<1>2. CASE Admit(p)
  BY <1>2 DEF Admit, Next
<1>3. CASE Command(p)
  BY <1>3 DEF Command, Next, Serve
<1>4. CASE CallFails(p) \/ Expire(p) \/ Panic(p)
  BY <1>4 DEF CallFails, Expire, Panic, Settle, Next
<1>5. CASE Respond(p)
  BY <1>5 DEF Respond, Next, Serve
<1> QED BY <1>1, <1>2, <1>3, <1>4, <1>5

(* Behind the API the filters behave as BloomFilter says: no middleware,   *)
(* handler, deadline or panic does anything to them that their operations  *)
(* and failures do not (handler.go, middleware.go).                        *)
THEOREM ApiServesFilters == ApiSpec => Spec
<1>1. ApiInit => Init
  BY DEF ApiInit
<1>2. [ApiNext]_<<vars, apiVars>> => [Next]_vars
  BY ApiStepServes
<1> QED BY <1>1, <1>2, PTL DEF ApiSpec, Spec

-----------------------------------------------------------------------------
(* The calls in progress.                                                  *)

LEMMA RoutesDistinct ==
  /\ "filters" \in Routes /\ "readyz" \in Routes /\ DOMAIN AtOnce \subseteq Routes
  /\ \A route \in DOMAIN AtOnce : route # "filters" /\ AtOnce[route] \in {200, 400, 404}
BY DEF Routes, AtOnce

LEMMA IdFits ==
  ASSUME NEW traced \in BOOLEAN, NEW given \in BOOLEAN
  PROVE  /\ CorrelationID(traced, given) \in {"trace", "client", "fresh"}
         /\ traced => CorrelationID(traced, given) = "trace"
BY ChainOrder DEF CorrelationID

LEMMA ReceiveFits ==
  ASSUME ApiInv, NEW p \in Procs, NEW route \in Routes,
         NEW status \in {Nil, 200, 400, 404, 503}, Receive(p, route, status)
  PROVE  /\ CallsTyped'
         /\ call'[p] \in Calls /\ call'[p].route = route /\ call'[p].status = status
         /\ call'[p].traced => call'[p].id = "trace"
         /\ panicked' = panicked
         /\ req[p] = Nil
         /\ \A q \in Procs \ {p} : call'[q] = call[q]
<1>1. PICK traced \in BOOLEAN, given \in BOOLEAN :
        call' = [call EXCEPT ![p] =
          [route |-> route, traced |-> traced, id |-> CorrelationID(traced, given),
           status |-> status]]
  BY DEF Receive
<1>2. PICK id \in {"trace", "client", "fresh"} :
        id = CorrelationID(traced, given) /\ (traced => id = "trace")
  BY IdFits
<1>3. PICK c \in Calls : c = [route |-> route, traced |-> traced, id |-> id, status |-> status]
  <2>1. [route |-> route, traced |-> traced, id |-> id, status |-> status] \in Calls
    BY DEF Calls
  <2> QED BY <2>1
<1>4. call' = [call EXCEPT ![p] = c]
  BY <1>1, <1>2, <1>3
<1>5. call'[p] = c /\ \A q \in Procs \ {p} : call'[q] = call[q]
  BY <1>4 DEF ApiInv, CallsTyped
<1>6. call[p] = Nil /\ panicked' = panicked /\ sent' = [sent EXCEPT ![p] = Nil]
  BY DEF Receive
<1>7. CallsTyped'
  BY <1>4, <1>6 DEF ApiInv, CallsTyped
<1> QED BY <1>2, <1>3, <1>5, <1>6, <1>7 DEF ApiInv, CallOf

(* A step of a request in progress leaves the request, and ends it with    *)
(* an outcome of its operation.                                            *)
LEMMA WorkFits ==
  ASSUME TypeOK, Shape, NEW p \in Procs,
         CreateStep(p) \/ LoadStep(p) \/ AddStep(p) \/ ExistsStep(p) \/ DropStep(p) \/ Fail(p),
         pc[p] = "done" => res[p] \in OutcomesOf(req[p].op)
  PROVE  /\ req' = req /\ req[p] # Nil
         /\ pc'[p] = "done" => res'[p] \in OutcomesOf(req[p].op)
<1> USE DEF TypeOK, Shape, ShapeOf, Pending, Finish, Goto, Creating, Loading, Adding, OutcomesOf
<1>1. CASE CreateStep(p)
  BY <1>1 DEF CreateStep, CheckExisting, WriteMeta, WriteStage0, Register
<1>2. CASE LoadMeta(p) \/ LoadStage(p)
  BY <1>2 DEF LoadMeta, LoadStage
<1>3. CASE LoadFill(p)
  <2>1. /\ req[p] \in Requests /\ req[p] # Nil /\ req[p].op # "create"
        /\ req' = req /\ res[p] = "none"
    BY <1>3, FilterAssumption DEF LoadFill
  <2>2. req[p].op \in {"add", "exists", "stats", "delete"}
    BY <2>1, RequestTypes
  <2>3. CASE hnd[p] # Nil
    BY <1>3, <2>1, <2>3 DEF LoadFill
  <2>4. CASE hnd[p] = Nil
    <3>1. \/ pc'[p] = "load_stage"
          \/ /\ pc'[p] = EntryLabel[req[p].op]
             /\ res'[p] = IF req[p].op = "stats" THEN "ok" ELSE "none"
      BY <1>3, <2>1, <2>4 DEF LoadFill, Enter
    <3>2. CASE req[p].op = "stats"
      <4>1. pc'[p] = "done" => res'[p] = "ok"
        BY <3>1, <3>2
      <4> QED BY <2>1, <3>2, <4>1
    <3>3. CASE req[p].op # "stats"
      <4>1. pc'[p] # "done"
        BY <2>2, <3>1, <3>3 DEF EntryLabel
      <4> QED BY <2>1, <4>1
    <3> QED BY <3>2, <3>3
  <2> QED BY <2>3, <2>4
<1>4. CASE AddStep(p)
  BY <1>4 DEF AddStep, SetNextBit, IncrFill, AppendNewStage
<1>5. CASE ExistsStep(p)
  BY <1>5 DEF ExistsStep, HitBit, MissBit
<1>6. CASE DropStep(p)
  BY <1>6 DEF DropStep, DropKeys, Unregister
<1>7. CASE Fail(p)
  BY <1>7 DEF Fail
<1> QED BY <1>1, <1>2, <1>3, <1>4, <1>5, <1>6, <1>7 DEF LoadStep

(* Of the other processes nothing changes. *)
LEMMA OtherCalls ==
  ASSUME NEW q \in Procs, CallOf(q), Untouched(q),
         call'[q] = call[q], panicked'[q] = panicked[q]
  PROVE  CallOf(q)'
BY DEF CallOf, Untouched

(* A step of p leaves the other processes alone, if it is one of the       *)
(* filters or of none of their variables.                                  *)
LEMMA OthersAlone ==
  ASSUME TypeOK, NEW p \in Procs, NEW q \in Procs \ {p}, Step(p) \/ UNCHANGED vars
  PROVE  Untouched(q)
<1>1. CASE Step(p)
  BY <1>1, OthersUntouched
<1>2. CASE UNCHANGED vars
  BY <1>2 DEF Untouched, vars, procVars
<1> QED BY <1>1, <1>2

(* No step of the API breaks ApiInv.                                       *)
LEMMA ApiStepInv ==
  ASSUME TypeOK, Shape, ApiInv, NEW p \in Procs,
         AnswerAtOnce(p) \/ Admit(p) \/ Readyz(p) \/ Pong(p) \/ Command(p)
           \/ CallFails(p) \/ Expire(p) \/ Panic(p) \/ Respond(p)
  PROVE  ApiInv'
<1>0. CallsTyped /\ CallOf(p) /\ (\A q \in Procs : CallOf(q)) /\ (pc[p] = "idle" <=> req[p] = Nil)
  BY DEF ApiInv, Shape, ShapeOf
<1>1. Step(p) \/ UNCHANGED vars
  <2>1. CASE Admit(p)
    BY <2>1 DEF Admit, BeginCreate, BeginItemOp, BeginNameOp, Step, Requests
  <2>2. CASE AnswerAtOnce(p) \/ Readyz(p) \/ Pong(p)
    BY <2>2 DEF AnswerAtOnce, Readyz, Pong, Settle
  <2>3. CASE Command(p)
    BY <2>3 DEF Command, Step, Serve
  <2>4. CASE CallFails(p) \/ Expire(p) \/ Panic(p)
    BY <2>4 DEF CallFails, Expire, Panic, Settle, Step
  <2>5. CASE Respond(p)
    BY <2>5 DEF Respond, Step, Serve
  <2> QED BY <2>1, <2>2, <2>3, <2>4, <2>5
<1>2. \A q \in Procs \ {p} : Untouched(q)
  BY <1>1, OthersAlone
<1>3. ASSUME CallsTyped', CallOf(p)',
             \A q \in Procs \ {p} : call'[q] = call[q] /\ panicked'[q] = panicked[q]
      PROVE  ApiInv'
  BY <1>0, <1>2, <1>3, OtherCalls DEF ApiInv
<1>4. CASE AnswerAtOnce(p) \/ Readyz(p)
  <2>1. PICK route \in Routes, status \in {Nil, 200, 400, 404} :
          Receive(p, route, status) /\ route # "filters"
    BY <1>4, RoutesDistinct DEF AnswerAtOnce, Readyz
  <2>2. UNCHANGED vars
    BY <1>4 DEF AnswerAtOnce, Readyz
  <2>3. CallOf(p)'
    BY <1>0, <2>1, <2>2, ReceiveFits DEF CallOf, vars, procVars
  <2> QED BY <1>0, <1>3, <2>1, <2>3, ReceiveFits
<1>5. CASE Admit(p)
  <2>1. Receive(p, "filters", Nil)
    BY <1>5 DEF Admit
  <2>2. PICK r \in Requests : Begin(p, r)
    BY <1>5 DEF Admit, BeginCreate, BeginItemOp, BeginNameOp, Requests
  <2>3. req'[p] = r /\ r # Nil
    BY <2>2, RequestTypes DEF Begin, TypeOK
  <2>4. pc'[p] = "done" => res'[p] \in OutcomesOf(r.op)
    <3>1. pc[p] = "idle" /\ res[p] = "none"
      BY <2>2 DEF Begin, Shape, Pending
    <3>2. CASE hnd[p] = Nil
      BY <2>2, <3>2 DEF Begin, Goto, TypeOK
    <3>3. CASE hnd[p] # Nil
      BY <1>0, <3>1, <3>3, ApiAssumption DEF Shape, ShapeOf
    <3> QED BY <3>2, <3>3
  <2>5. CallOf(p)'
    <3>1. /\ call'[p] \in Calls /\ call'[p].route = "filters" /\ call'[p].status = Nil
          /\ call'[p].traced => call'[p].id = "trace"
          /\ panicked' = panicked /\ req[p] = Nil
      BY <2>1, ReceiveFits, RoutesDistinct
    <3>2. call'[p] # Nil /\ ~ panicked'[p]
      BY <1>0, <3>1, ApiAssumption DEF CallOf
    <3> QED BY <2>3, <2>4, <3>1, <3>2 DEF CallOf
  <2> QED BY <1>0, <1>3, <2>1, <2>5, ReceiveFits, RoutesDistinct
<1>6. ASSUME UNCHANGED <<vars, panicked, sent>>, Pinging(p), NEW status \in {200, 503},
             Settle(p, status)
      PROVE  ApiInv'
  <2>1. PICK c \in Calls : c = call[p] /\ c.route = "readyz"
    BY <1>0, <1>6 DEF Pinging, CallOf
  <2>2. PICK d \in Calls : d = [route |-> c.route, traced |-> c.traced, id |-> c.id, status |-> status]
    <3>1. [route |-> c.route, traced |-> c.traced, id |-> c.id, status |-> status] \in Calls
      BY <2>1 DEF Calls
    <3> QED BY <3>1
  <2>3. call' = [call EXCEPT ![p] = d]
    <3>1. call' = [call EXCEPT ![p] = [c EXCEPT !.status = status]]
      BY <1>6, <2>1 DEF Settle
    <3>2. [c EXCEPT !.status = status] = d
      BY <2>1, <2>2 DEF Calls
    <3> QED BY <3>1, <3>2
  <2>4. call'[p] = d /\ \A q \in Procs \ {p} : call'[q] = call[q]
    BY <1>0, <2>3 DEF CallsTyped
  <2>5. call[p] # Nil
    BY <1>6 DEF Pinging
  <2>6. CallsTyped' /\ req' = req /\ pc' = pc /\ res' = res /\ panicked' = panicked
    BY <1>0, <1>6, <2>3 DEF CallsTyped, vars, procVars
  <2>7. CallOf(p)'
    BY <1>0, <2>1, <2>2, <2>4, <2>5, <2>6 DEF CallOf
  <2> QED BY <1>3, <2>4, <2>6, <2>7
<1>7. CASE Pong(p)
  BY <1>6, <1>7 DEF Pong, Settle
<1>8. CASE Command(p) \/ (Fail(p) /\ UNCHANGED apiVars)
  <2>1. /\ req' = req /\ req[p] # Nil
        /\ pc'[p] = "done" => res'[p] \in OutcomesOf(req[p].op)
    BY <1>0, <1>8, WorkFits DEF Command, CallOf
  <2>2. UNCHANGED apiVars
    BY <1>8 DEF Command
  <2>3. panicked[p] => pc'[p] = "done" /\ res'[p] = "error"
    <3>1. panicked[p] => pc[p] = "done" /\ res[p] = "error"
      BY <1>0 DEF CallOf
    <3> QED BY <1>8, <3>1 DEF Command, CreateStep, CheckExisting, WriteMeta, WriteStage0, Register,
            LoadStep, LoadMeta, LoadStage, LoadFill, AddStep, SetNextBit, IncrFill, AppendNewStage,
            ExistsStep, HitBit, MissBit, DropStep, DropKeys, Unregister, Fail
  <2>4. CallOf(p)' /\ CallsTyped'
    BY <1>0, <2>1, <2>2, <2>3 DEF CallOf, CallsTyped, apiVars
  <2> QED BY <1>3, <2>2, <2>4 DEF apiVars
<1>9. CASE CallFails(p) \/ Expire(p)
  BY <1>6, <1>8, <1>9 DEF CallFails, Expire, Settle
<1>10. CASE Panic(p)
  <2>1. /\ req' = req /\ req[p] # Nil
        /\ pc'[p] = "done" => res'[p] \in OutcomesOf(req[p].op)
    BY <1>0, <1>10, WorkFits DEF Panic, CallOf
  <2>2. /\ pc'[p] = "done" /\ res'[p] = "error"
        /\ panicked' = [panicked EXCEPT ![p] = TRUE] /\ call' = call /\ sent' = sent
    BY <1>10 DEF Panic, Fail, Finish, TypeOK
  <2>3. CallOf(p)' /\ CallsTyped'
    BY <1>0, <2>1, <2>2 DEF CallOf, CallsTyped
  <2> QED BY <1>0, <1>3, <2>2, <2>3 DEF CallsTyped
<1>11. CASE Respond(p)
  <2>1. /\ call' = [call EXCEPT ![p] = Nil]
        /\ panicked' = [panicked EXCEPT ![p] = FALSE]
        /\ sent' = [sent EXCEPT ![p] = Response(p)]
        /\ call[p] # Nil
    BY <1>11 DEF Respond, Answered
  <2>2. req'[p] = Nil /\ pc'[p] # "done"
    <3>1. CASE call[p].route = "filters"
      BY <1>11, <3>1 DEF Respond, Return, TypeOK
    <3>2. CASE call[p].route # "filters"
      BY <1>0, <1>11, <3>2 DEF Respond, CallOf, vars, procVars
    <3> QED BY <3>1, <3>2
  <2>3. CallOf(p)' /\ CallsTyped'
    BY <1>0, <2>1, <2>2 DEF CallOf, CallsTyped
  <2> QED BY <1>0, <1>3, <2>1, <2>3 DEF CallsTyped
<1> QED BY <1>4, <1>5, <1>7, <1>8, <1>9, <1>10, <1>11

LEMMA ApiInitInv == ApiInit => ApiInv
BY DEF ApiInit, Init, ApiInv, CallsTyped, CallOf

LEMMA ApiInvariance == ApiSpec => [](TypeOK /\ Shape /\ ApiInv)
<1>1. ASSUME TypeOK, Shape, ApiInv, [ApiNext]_<<vars, apiVars>> PROVE ApiInv'
  <2>1. CASE UNCHANGED <<vars, apiVars>>
    BY <1>1, <2>1 DEF ApiInv, CallsTyped, CallOf, vars, procVars, apiVars
  <2>2. CASE ApiNext
    BY <1>1, <2>2, ApiStepInv DEF ApiNext
  <2> QED BY <1>1, <2>1, <2>2
<1> QED BY <1>1, ApiInitInv, ApiServesFilters, TypeAndShape, PTL DEF ApiSpec

-----------------------------------------------------------------------------
(* The responses.                                                          *)

(* What a response leaves is right, and so are the counters. *)
GoodResponse(x) ==
  /\ x.status # Nil
  /\ x.line = [status |-> x.status, id |-> x.id]
  /\ x.point = x.status
  /\ x.traced => x.id = "trace"
  /\ x.op # Nil =>
       /\ ~ x.panicked => (x.op.ok <=> x.status < 400)
       /\ x.items <=> x.op.op = "add" /\ x.status = 200

(* The status of a filter operation, by its outcome. *)
LEMMA FilterStatus ==
  ASSUME TypeOK, ApiInv, NEW p \in Procs, Answered(p), call[p].route = "filters"
  PROVE  /\ req[p] # Nil /\ pc[p] = "done" /\ res[p] \in OutcomesOf(req[p].op)
         /\ req[p].op \in {"create", "add", "exists", "stats", "delete"}
         /\ panicked[p] => Status(p) = 500 /\ res[p] = "error"
         /\ res[p] = "exists" => Status(p) = 409
         /\ res[p] = "not_found" => Status(p) = 404
         /\ res[p] = "error" => Status(p) = 500
         /\ res[p] \in {"ok", "present", "absent"} =>
              /\ Status(p) \in {200, 201, 204}
              /\ req[p].op = "add" => Status(p) = 200
<1>1. /\ call[p] # Nil /\ req[p] # Nil /\ call[p].status = Nil /\ pc[p] = "done"
      /\ res[p] \in OutcomesOf(req[p].op) /\ (panicked[p] => res[p] = "error")
  BY DEF ApiInv, CallOf, Answered
<1>2. req[p].op \in {"create", "add", "exists", "stats", "delete"}
  BY <1>1, RequestTypes DEF TypeOK
<1>3. DOMAIN errorToHTTP = {"exists", "not_found", "error"}
  BY DEF errorToHTTP
<1>4. Status(p) = IF panicked[p] THEN 500
                  ELSE IF res[p] \in {"exists", "not_found", "error"} THEN errorToHTTP[res[p]]
                  ELSE SuccessStatus[req[p].op]
  BY <1>1, <1>3, ChainOrder DEF Status
<1>5. /\ errorToHTTP["exists"] = 409 /\ errorToHTTP["not_found"] = 404
      /\ errorToHTTP["error"] = 500
  BY DEF errorToHTTP
<1>6. /\ SuccessStatus[req[p].op] \in {200, 201, 204}
      /\ req[p].op = "add" => SuccessStatus[req[p].op] = 200
  BY <1>2 DEF SuccessStatus
<1> QED BY <1>1, <1>2, <1>4, <1>5, <1>6

LEMMA ResponseIsGood ==
  ASSUME TypeOK, Shape, ApiInv, NEW p \in Procs, Answered(p)
  PROVE  GoodResponse(Response(p))
<1>1. /\ call[p] \in Calls /\ (call[p].traced => call[p].id = "trace")
      /\ panicked[p] \in BOOLEAN
      /\ call[p].route # "filters" => call[p].status # Nil
  BY DEF Answered, ApiInv, CallsTyped, CallOf, Shape, ShapeOf
<1>2. Status(p) # Nil
  <2>1. CASE call[p].route = "filters"
    BY <2>1, FilterStatus, StoreAssumption DEF OutcomesOf
  <2>2. CASE call[p].route # "filters"
    BY <1>1, <2>2 DEF Status
  <2> QED BY <2>1, <2>2
<1>3. PICK s : s = Status(p)
  OBVIOUS
<1>4. /\ Response(p).status = s /\ Response(p).id = call[p].id
      /\ Response(p).line = [status |-> s, id |-> call[p].id]
      /\ Response(p).point = s
      /\ Response(p).traced = call[p].traced
      /\ Response(p).panicked = panicked[p]
      /\ Response(p).op = OpPoint(p) /\ Response(p).items = ItemsPoint(p)
  BY <1>3, ChainOrder DEF Response, Resumes
<1>5. ASSUME OpPoint(p) # Nil
      PROVE  /\ ~ panicked[p] => (OpPoint(p).ok <=> s < 400)
             /\ ItemsPoint(p) <=> OpPoint(p).op = "add" /\ s = 200
  <2>1. call[p].route = "filters"
    BY <1>5 DEF OpPoint
  <2>2. /\ OpPoint(p).op = req[p].op
        /\ ~ panicked[p] => (OpPoint(p).ok <=> res[p] \notin {"exists", "not_found", "error"})
    BY <2>1 DEF OpPoint, errorToHTTP
  <2>3. ItemsPoint(p) <=> req[p].op = "add" /\ res[p] = "ok"
    BY <2>1 DEF ItemsPoint
  <2> QED BY <1>3, <2>1, <2>2, <2>3, FilterStatus DEF OutcomesOf
<1> QED BY <1>1, <1>2, <1>3, <1>4, <1>5 DEF GoodResponse

Accounts == \A p \in Procs : sent[p] # Nil => GoodResponse(sent[p])

LEMMA AccountsKept == ApiSpec => []Accounts
<1>1. ApiInit => Accounts
  BY DEF ApiInit, Accounts
<1>2. ASSUME TypeOK, Shape, ApiInv, Accounts, ApiNext PROVE Accounts'
  <2>1. PICK p \in Procs :
          AnswerAtOnce(p) \/ Admit(p) \/ Readyz(p) \/ Pong(p) \/ Command(p)
            \/ CallFails(p) \/ Expire(p) \/ Panic(p) \/ Respond(p)
    BY <1>2 DEF ApiNext
  <2>2. DOMAIN sent = Procs
    BY <1>2 DEF ApiInv, CallsTyped
  <2>3. CASE AnswerAtOnce(p) \/ Admit(p) \/ Readyz(p)
    <3>1. sent' = [sent EXCEPT ![p] = Nil]
      BY <2>3 DEF AnswerAtOnce, Admit, Readyz, Receive
    <3> QED BY <1>2, <2>2, <3>1 DEF Accounts
  <2>4. CASE Pong(p) \/ Command(p) \/ CallFails(p) \/ Expire(p) \/ Panic(p)
    <3>1. sent' = sent
      BY <2>4 DEF Pong, Command, CallFails, Expire, Panic, Settle, apiVars
    <3> QED BY <1>2, <3>1 DEF Accounts
  <2>5. CASE Respond(p)
    <3>1. PICK x : x = Response(p)
      OBVIOUS
    <3>2. GoodResponse(x) /\ sent' = [sent EXCEPT ![p] = x]
      BY <1>2, <2>5, <3>1, ResponseIsGood DEF Respond
    <3> QED BY <1>2, <2>2, <3>2 DEF Accounts
  <2> QED BY <2>1, <2>3, <2>4, <2>5
<1>3. Accounts /\ UNCHANGED <<vars, apiVars>> => Accounts'
  BY DEF Accounts, apiVars
<1> QED BY <1>1, <1>2, <1>3, ApiInvariance, PTL DEF ApiSpec

(* Every response, after a panic too, is in the log and in the latency     *)
(* metric with its own status, under one correlation id (router.go,        *)
(* middleware.go).                                                         *)
THEOREM EveryResponseAccounted == ApiSpec => []ResponsesAccounted
<1>1. Accounts => ResponsesAccounted
  BY DEF Accounts, GoodResponse, ResponsesAccounted
<1> QED BY <1>1, AccountsKept, PTL

(* The operation and item counters say what the responses say (service.go  *)
(* finishSpan and Add, handler.go errorToHTTP).                            *)
THEOREM CountersAgree == ApiSpec => []CountersMatchResponses
<1>1. Accounts => CountersMatchResponses
  BY DEF Accounts, GoodResponse, CountersMatchResponses
<1> QED BY <1>1, AccountsKept, PTL

-----------------------------------------------------------------------------
(* The set, as HTTP clients see it.                                        *)

(* The statuses lose nothing of the outcomes of the service. *)
LEMMA StatusTellsOutcome ==
  ASSUME TypeOK, Shape, ApiInv
  PROVE  httpReply = res
<1>1. ASSUME NEW p \in Procs, pc[p] = "done" PROVE ReplyOf(p) = res[p]
  <2>1. Answered(p) /\ call[p].route = "filters"
    BY <1>1 DEF Answered, Shape, ShapeOf, ApiInv, CallOf
  <2>2. res[p] \in {"exists", "not_found", "error"} => ReplyOf(p) = res[p]
    BY <2>1, FilterStatus DEF ReplyOf
  <2>3. res[p] \notin {"exists", "not_found", "error"} =>
          /\ Status(p) \in {200, 201, 204}
          /\ res[p] = IF req[p].op = "exists" THEN res[p] ELSE "ok"
    BY <2>1, FilterStatus DEF OutcomesOf
  <2>4. Status(p) \in {200, 201, 204} =>
          ReplyOf(p) = IF req[p].op = "exists" THEN res[p] ELSE "ok"
    BY DEF ReplyOf
  <2> QED BY <2>2, <2>3, <2>4
<1>2. ASSUME NEW p \in Procs, pc[p] # "done" PROVE res[p] = "none"
  BY <1>2 DEF Shape, Pending
<1>3. \A p \in Procs : httpReply[p] = res[p]
  BY <1>1, <1>2 DEF httpReply
<1> QED BY <1>3 DEF httpReply, TypeOK

Told == httpReply = res

LEMMA SameSet ==
  ASSUME httpReply = res, httpReply' = res'
  PROVE  /\ Set!Next => ApiSet!Next
         /\ UNCHANGED Set!aVars => UNCHANGED ApiSet!aVars
<1>1. ASSUME NEW p, NEW n PROVE ApiSet!WaitsOn(p, n) <=> Set!WaitsOn(p, n)
  BY DEF ApiSet!WaitsOn, Set!WaitsOn
<1>2. ASSUME NEW p, NEW r PROVE Set!Invoke(p, r) => ApiSet!Invoke(p, r)
  BY DEF ApiSet!Invoke, Set!Invoke, ApiSet!Sure, Set!Sure, ApiSet!MembersOf, Set!MembersOf
<1>3. ASSUME NEW p, NEW n PROVE Set!Bind(p, n) => ApiSet!Bind(p, n)
  BY <1>1 DEF ApiSet!Bind, Set!Bind
<1>4. ASSUME NEW p, NEW n PROVE Set!Delete(p, n) => ApiSet!Delete(p, n)
  BY DEF ApiSet!Delete, Set!Delete, ApiSet!WaitsOn, Set!WaitsOn
<1>5. ASSUME NEW p, NEW n, NEW S PROVE Set!Insert(p, n, S) => ApiSet!Insert(p, n, S)
  BY <1>1 DEF ApiSet!Insert, Set!Insert, ApiSet!Gain, Set!Gain
<1>6. ASSUME NEW p, NEW n, NEW S PROVE Set!Create(p, n, S) => ApiSet!Create(p, n, S)
  BY <1>1 DEF ApiSet!Create, Set!Create, ApiSet!Gain, Set!Gain, ApiSet!MembersOf, Set!MembersOf
<1>7. ASSUME NEW p, NEW n, NEW o, NEW S PROVE Set!Answer(p, n, o, S) => ApiSet!Answer(p, n, o, S)
  BY <1>1 DEF ApiSet!Answer, Set!Answer, ApiSet!Gain, Set!Gain, ApiSet!Truthful, Set!Truthful,
     ApiSet!Good, Set!Good, ApiSet!MembersOf, Set!MembersOf
<1>8. ASSUME NEW p PROVE /\ Set!LoseAnswer(p) => ApiSet!LoseAnswer(p)
                         /\ Set!Return(p) => ApiSet!Return(p)
  BY DEF ApiSet!LoseAnswer, Set!LoseAnswer, ApiSet!Return, Set!Return
<1>9. Set!Next => ApiSet!Next
  BY <1>2, <1>3, <1>4, <1>5, <1>6, <1>7, <1>8 DEF Set!Next, ApiSet!Next, Set!Answers, ApiSet!Answers
<1>10. UNCHANGED Set!aVars => UNCHANGED ApiSet!aVars
  BY DEF Set!aVars, ApiSet!aVars
<1> QED BY <1>9, <1>10

(* Zero false negatives at the wire: for every number of goroutines, names *)
(* and items, and whatever fails, the statuses and the "exists" flags that *)
(* clients get are true of the sets under the names.                       *)
THEOREM ApiIsASet == ApiSpec => ApiImplementsSet
<1>1. ApiSpec => Set!Spec
  BY ApiServesFilters, FiltersAreSets DEF ImplementsSet
<1>2. TypeOK /\ Shape /\ ApiInv => Told
  BY StatusTellsOutcome DEF Told
<1>3. Told /\ Set!Init => ApiSet!Init
  BY DEF Told, Set!Init, ApiSet!Init
<1>4. Told /\ Told' /\ [Set!Next]_(Set!aVars) => [ApiSet!Next]_(ApiSet!aVars)
  BY SameSet DEF Told
<1> QED BY <1>1, <1>2, <1>3, <1>4, ApiInvariance, PTL DEF Set!Spec, ApiSet!Spec, ApiImplementsSet
=============================================================================
