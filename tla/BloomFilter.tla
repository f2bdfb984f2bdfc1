----------------------------- MODULE BloomFilter -----------------------------
(***************************************************************************)
(* The scalable bloom filter of pkg/bloom/filter.go as its callers run it: *)
(* any number of goroutines, in any number of server instances, each       *)
(* serving one request at a time against the shared store.  Every store    *)
(* command is a step of its own; what a goroutine does between two         *)
(* commands touches only its own memory and is part of the step before.    *)
(*                                                                         *)
(* internal/service loads a fresh Filter for every request.  The processes *)
(* in Embedders model the other documented use, a program that imports     *)
(* pkg/bloom and keeps one Filter across requests.                         *)
(***************************************************************************)
EXTENDS BitStore

CONSTANTS
  Items,            \* the items callers add and look up
  Procs,            \* the goroutines
  Embedders,        \* those that keep their Filter from one request to the next
  FaultProne,       \* those whose store calls may fail, time out or be cut off
  Issues,           \* the operations each process may issue
  Seed,             \* for each name, the parameters of the filter there initially
  MaxAdds,          \* bound: Add requests in a behaviour
  Positions(_, _),  \* the bits of an item in a stage (hash.go, shard.go)
  ShardCount(_),    \* the number of shards a stage's m bits need
  Capacity(_),      \* the capacity of a stage (StageCapacity)
  StageLimit(_)     \* computeStage fails with ErrSizeOverflow from this index on

CreateRequests == [op : {"create"}, name : Names, par : Params]
ItemRequests   == [op : {"add", "exists"}, name : Names, item : Items]
NameRequests   == [op : {"stats", "delete"}, name : Names]
Requests       == CreateRequests \cup ItemRequests \cup NameRequests

(* A Filter value.  The Fill of its stages is read only by Stats and by    *)
(* Add right after INCR returned it, so it is kept in ld, for Stats alone. *)
Handles == [name : Names, par : Params, stages : Seq(Stages)]

(* A Load in progress: the filter hash it read, and what it has of the     *)
(* stages so far.                                                          *)
Loads == [par : Params, count : 1 .. MaxStages, stages : Seq(Stages), fills : Seq(Nat)]

ASSUME FilterAssumption ==
  /\ Embedders \subseteq Procs
  /\ FaultProne \subseteq Procs
  /\ Issues \in [Procs -> SUBSET {"create", "add", "exists", "stats", "delete"}]
  /\ Seed \in [Names -> Params \cup {Nil}]
  /\ MaxAdds \in Nat
  /\ \A st \in Stages :
       /\ Capacity(st) \in Nat \ {0}
       /\ ShardCount(st) \in Nat \ {0}
       /\ \A x \in Items :
            /\ Positions(x, st) \in (SUBSET Bits) \ {{}}
            /\ \A b \in Positions(x, st) : b[1] < ShardCount(st)
  /\ \A par \in Params : StageLimit(par) \in 0 .. MaxStages
  /\ \A n \in Names : Seed[n] # Nil => StageLimit(Seed[n]) > 0
  /\ Nil \notin Requests
  /\ Nil \notin Handles
  /\ Nil \notin Loads

VARIABLES
  pc,    \* the store command each process issues next
  req,   \* the request it serves, Nil when it serves none
  ld,    \* the Load it is in, Nil when in none
  hnd,   \* its Filter, Nil when it has none
  at,    \* the index of the stage Add or Exists works on
  todo,  \* the bits of that stage still to be set or read
  res    \* the outcome of its request

procVars == <<pc, req, ld, hnd, at, todo, res>>

(***************************************************************************)
(* History: what callers have been told, which no code reads.  A process   *)
(* is intact from the read of the filter hash in Load (or its write in     *)
(* New) until the filter is deleted, or until it takes for the new stage   *)
(* one that another process wrote with other parameters.                   *)
(***************************************************************************)
VARIABLES
  acked,      \* per name, the items an Add reported as stored since the last DEL
  clobbered,  \* per name, whether since then a creation overwrote a filter or stage 0
  intact,     \* per process, whether its Filter still is the one in the store
  due,        \* per process, the items its Filter must report: those stored when
              \* the Load that gave it began, and its own acknowledged ones
  floor,      \* per process, the fill counters when its Stats request began
  adds        \* the number of Add requests so far

histVars == <<acked, clobbered, intact, due, floor, adds>>

vars == <<storeVars, procVars, histVars>>

-----------------------------------------------------------------------------

(* Some stage of filter n, on the chain a Load would read, has every bit   *)
(* of item x.                                                              *)
Held(n, x) ==
  /\ meta[n] # Nil
  /\ \E i \in 0 .. meta[n].stage_count - 1 :
       /\ stageMeta[n][i] # Nil
       /\ Positions(x, stageMeta[n][i]) \subseteq bits[n][i]

HeldItems(n) == {x \in Items : Held(n, x)}

(* The stage computeStage returns for a filter's parameters and an index,  *)
(* and whether it returns one.                                             *)
computeStage(par, idx) == [par |-> par, index |-> idx]

Sizable(par, idx) == idx < StageLimit(par)

Last(stages) == stages[Len(stages)]

(* SetBits and GetBits go shard by shard, the shards in map order: the     *)
(* bits that may come next are those of the shard begun, if one is.        *)
NextBits(all, left) ==
  LET begun == {b \in left : \E c \in all \ left : c[1] = b[1]}
  IN  IF begun # {} THEN begun ELSE left

(* A batch taken for done when its first command is. *)
DoneWithShard(left, b) == \A c \in left : c[1] = b[1]

(* The batches are done when b was the last bit left. *)
Done(left, b) == left = {b}

(* The process ends its request with outcome r. *)
Finish(p, r) ==
  /\ pc' = [pc EXCEPT ![p] = "done"]
  /\ res' = [res EXCEPT ![p] = r]

Goto(p, label) ==
  /\ pc' = [pc EXCEPT ![p] = label]
  /\ UNCHANGED res

EntryLabel == [add |-> "set_bits", exists |-> "get_bits", stats |-> "done", delete |-> "del"]

(* Request r goes to work on Filter h: Add on its last stage, Exists from  *)
(* its last stage down, Stats and Delete on all of it at once.             *)
Enter(p, r, h) ==
  /\ hnd' = [hnd EXCEPT ![p] = h]
  /\ pc' = [pc EXCEPT ![p] = EntryLabel[r.op]]
  /\ res' = [res EXCEPT ![p] = IF r.op = "stats" THEN "ok" ELSE @]
  /\ at' = [at EXCEPT ![p] = Len(h.stages) - 1]
  /\ todo' = [todo EXCEPT ![p] =
       IF r.op \in {"add", "exists"} THEN Positions(r.item, Last(h.stages)) ELSE {}]

(* Whether process q works on filter n. *)
Uses(q, n) ==
  \/ hnd[q] # Nil /\ hnd[q].name = n
  \/ req[q] # Nil /\ req[q].name = n

-----------------------------------------------------------------------------

(* History: what a Filter loaded for request r must report, if an Exists   *)
(* will ever ask it.                                                       *)
Promise(p, r) ==
  IF hnd[p] # Nil THEN due[p]
  ELSE IF r.op = "exists" \/ (p \in Embedders /\ r.op # "create")
  THEN acked[r.name] \cup HeldItems(r.name)
  ELSE {}

(* A request arrives.  A process that keeps a Filter uses it; any other    *)
(* one starts with the check of New or with Load.                          *)
Begin(p, r) ==
  /\ pc[p] = "idle"
  /\ r.op \in Issues[p]
  /\ r.op = "add" => adds < MaxAdds
  /\ req' = [req EXCEPT ![p] = r]
  /\ IF hnd[p] = Nil
     THEN /\ Goto(p, IF r.op = "create" THEN "check" ELSE "load_meta")
          /\ UNCHANGED <<hnd, at, todo>>
     ELSE /\ r.op # "create"
          /\ r.name = hnd[p].name
          /\ Enter(p, r, hnd[p])
  /\ due' = [due EXCEPT ![p] = Promise(p, r)]
  /\ floor' = [floor EXCEPT ![p] =
       IF r.op = "stats" THEN fill[r.name] ELSE [i \in StageIdx |-> 0]]
  /\ adds' = IF r.op = "add" THEN adds + 1 ELSE adds
  /\ UNCHANGED <<storeVars, ld, acked, clobbered, intact>>

BeginCreate(p) == \E r \in CreateRequests : Begin(p, r)
BeginItemOp(p) == \E r \in ItemRequests : Begin(p, r)
BeginNameOp(p) == \E r \in NameRequests : Begin(p, r)

(* New: the HGETALL that looks for a filter of that name, and the sizing   *)
(* of stage 0, which runs only when there is none.                         *)
CheckExisting(p) ==
  /\ pc[p] = "check"
  /\ IF meta[req[p].name] # Nil THEN Finish(p, "exists")
     ELSE IF Sizable(req[p].par, 0) THEN Goto(p, "write_meta")
     ELSE Finish(p, "error")
  /\ UNCHANGED <<storeVars, req, ld, hnd, at, todo, histVars>>

(* New: the HSET of the filter hash, whatever it holds by now. *)
WriteMeta(p) ==
  /\ pc[p] = "write_meta"
  /\ HSetMeta(req[p].name, req[p].par)
  /\ Goto(p, "write_stage0")
  /\ clobbered' = [clobbered EXCEPT ![req[p].name] = @ \/ meta[req[p].name] # Nil]
  /\ intact' = [intact EXCEPT ![p] = TRUE]
  /\ UNCHANGED <<req, ld, hnd, at, todo, acked, due, floor, adds>>

(* New: the HSET of stage 0. *)
WriteStage0(p) ==
  LET n == req[p].name
  IN  /\ pc[p] = "write_stage0"
      /\ HSetStage(n, computeStage(req[p].par, 0))
      /\ Goto(p, "register")
      /\ clobbered' = [clobbered EXCEPT ![n] = @ \/ stageMeta[n][0] # Nil]
      /\ UNCHANGED <<req, ld, hnd, at, todo, acked, intact, due, floor, adds>>

(* New: the SADD that registers the name, and the Filter it returns. *)
Register(p) ==
  LET r == req[p]
  IN  /\ pc[p] = "register"
      /\ SAdd(r.name)
      /\ Finish(p, "ok")
      /\ hnd' = [hnd EXCEPT ![p] =
           [name |-> r.name, par |-> r.par, stages |-> <<computeStage(r.par, 0)>>]]
      /\ UNCHANGED <<req, ld, at, todo, histVars>>

-----------------------------------------------------------------------------

(* Load, for a request or for the reload of a Filter the process has: the  *)
(* HGETALL of the filter hash.                                             *)
LoadMeta(p) ==
  LET m == meta[req[p].name]
  IN  /\ pc[p] = "load_meta"
      /\ IF m = Nil
         THEN /\ Finish(p, "not_found")
              /\ UNCHANGED <<ld, intact>>
         ELSE /\ Goto(p, "load_stage")
              /\ ld' = [ld EXCEPT ![p] =
                   [par |-> m.par, count |-> m.stage_count, stages |-> <<>>, fills |-> <<>>]]
              /\ intact' = [intact EXCEPT ![p] = (hnd[p] = Nil) \/ @]
      /\ UNCHANGED <<storeVars, req, hnd, at, todo, acked, clobbered, due, floor, adds>>

(* Load: the HGETALL of the next stage's hash; mapToStage cannot parse an  *)
(* empty one.                                                              *)
LoadStage(p) ==
  LET st == stageMeta[req[p].name][Len(ld[p].stages)]
  IN  /\ pc[p] = "load_stage"
      /\ IF st = Nil
         THEN /\ Finish(p, "error")
              /\ UNCHANGED ld
         ELSE /\ Goto(p, "load_fill")
              /\ ld' = [ld EXCEPT ![p].stages = Append(@, st)]
      /\ UNCHANGED <<storeVars, req, hnd, at, todo, histVars>>

(* Load before it read the counter: the seed in the stage hash. *)
FillSeed(n, i) == 0

(* What a GET of stage i's counter gives Load. *)
FillOf(n, i) == fill[n][i]

(* Load: the GET of that stage's counter, and the end of Load after the    *)
(* last stage.  A reload replaces the stages of the Filter and nothing     *)
(* else, and ends Add.                                                     *)
LoadFill(p) ==
  LET l == ld[p]
      i == Len(l.stages) - 1
  IN  /\ pc[p] = "load_fill"
      /\ ld' = [ld EXCEPT ![p].fills =
           IF req[p].op = "stats" THEN Append(@, FillOf(req[p].name, i)) ELSE @]
      /\ IF Len(l.stages) < l.count
         THEN /\ Goto(p, "load_stage")
              /\ UNCHANGED <<hnd, at, todo>>
         ELSE IF hnd[p] = Nil
         THEN Enter(p, req[p],
                [name |-> req[p].name, par |-> l.par, stages |-> l.stages])
         ELSE /\ hnd' = [hnd EXCEPT ![p].stages = l.stages]
              /\ Finish(p, "ok")
              /\ UNCHANGED <<at, todo>>
      /\ UNCHANGED <<storeVars, req, histVars>>

-----------------------------------------------------------------------------

(* Add: one SETBIT of the batches of the current stage. *)
SetNextBit(p) ==
  LET n == hnd[p].name
      all == Positions(req[p].item, hnd[p].stages[at[p] + 1])
  IN  /\ pc[p] = "set_bits"
      /\ \E b \in NextBits(all, todo[p]) :
           /\ SetBit(n, at[p], b)
           /\ todo' = [todo EXCEPT ![p] = @ \ {b}]
           /\ Goto(p, IF Done(todo[p], b) THEN "incr" ELSE "set_bits")
      /\ UNCHANGED <<req, ld, hnd, at, histVars>>

(* That test one item early, and one item late. *)
FullEarly(st, count) == count >= Capacity(st) - 1
FullLate(st, count) == count > Capacity(st)

(* The test that makes Add grow the filter: the counter it got back has    *)
(* reached the capacity of the stage.                                      *)
Full(st, count) == count >= Capacity(st)

(* Add: the INCR of the stage's counter; a full stage calls for the next   *)
(* one, if that can be sized.                                              *)
IncrFill(p) ==
  LET h == hnd[p]
  IN  /\ pc[p] = "incr"
      /\ Incr(h.name, at[p])
      /\ IF ~ Full(Last(h.stages), fill[h.name][at[p]] + 1) THEN Finish(p, "ok")
         ELSE IF Sizable(h.par, Len(h.stages)) THEN Goto(p, "append")
         ELSE Finish(p, "error")
      /\ UNCHANGED <<req, ld, hnd, at, todo, histVars>>

(* appendNewStage: the compare-and-append.  A reply beyond the stage this  *)
(* process asked for means that others grew the filter further: reload.    *)
(* Otherwise it takes its own stage for the one that is there.             *)
AppendNewStage(p) ==
  LET h == hnd[p]
      idx == Len(h.stages)
      st == computeStage(h.par, idx)
      newCount == AppendReply(h.name, idx)
  IN  /\ pc[p] = "append"
      /\ AppendStage(h.name, idx, st)
      /\ IF newCount = Nil
         THEN Finish(p, "error") /\ UNCHANGED <<hnd, intact, due>>
         ELSE IF newCount > idx + 1
         THEN Goto(p, "load_meta") /\ UNCHANGED <<hnd, intact, due>>
         ELSE /\ Finish(p, "ok")
              /\ hnd' = [hnd EXCEPT ![p].stages = Append(@, st)]
              /\ intact' = [intact EXCEPT ![p] = @ /\ stageMeta'[h.name][idx] = st]
              /\ due' = [due EXCEPT ![p] = IF intact'[p] THEN @ ELSE {}]
      /\ UNCHANGED <<req, ld, at, todo, acked, clobbered, floor, adds>>

-----------------------------------------------------------------------------

(* Exists: one GETBIT that finds its bit set; the last of a stage's bits   *)
(* is a hit.                                                               *)
HitBit(p) ==
  LET h == hnd[p]
      all == Positions(req[p].item, h.stages[at[p] + 1])
  IN  /\ pc[p] = "get_bits"
      /\ \E b \in NextBits(all, todo[p]) :
           /\ GetBit(h.name, at[p], b)
           /\ todo' = [todo EXCEPT ![p] = @ \ {b}]
           /\ IF Done(todo[p], b) THEN Finish(p, "present") ELSE Goto(p, "get_bits")
      /\ UNCHANGED <<storeVars, req, ld, hnd, at, histVars>>

(* The loop of Exists stopping short of stage 0. *)
NoStageBelowOne(i) == i <= 1

(* Exists goes from the newest stage down to stage 0. *)
NoStageBelow(i) == i = 0

(* Exists: one GETBIT that finds its bit clear: on to the stage below.     *)
MissBit(p) ==
  LET h == hnd[p]
      all == Positions(req[p].item, h.stages[at[p] + 1])
  IN  /\ pc[p] = "get_bits"
      /\ \E b \in NextBits(all, todo[p]) : ~ GetBit(h.name, at[p], b)
      /\ IF NoStageBelow(at[p])
         THEN /\ Finish(p, "absent")
              /\ UNCHANGED <<at, todo>>
         ELSE /\ Goto(p, "get_bits")
              /\ at' = [at EXCEPT ![p] = @ - 1]
              /\ todo' = [todo EXCEPT ![p] = Positions(req[p].item, h.stages[at[p]])]
      /\ UNCHANGED <<storeVars, req, ld, hnd, histVars>>

-----------------------------------------------------------------------------

(* The stages Drop deletes and how many shards of each: those of its own   *)
(* copy of the filter.                                                     *)
DropStages(h) == 0 .. Len(h.stages) - 1

(* Shards counted without rounding up. *)
DropShardsFloor(h) == [i \in DropStages(h) |-> ShardCount(h.stages[i + 1]) - 1]

DropShards(h) == [i \in DropStages(h) |-> ShardCount(h.stages[i + 1])]

(* History: the filter n is gone, and with it what was promised of it.     *)
Forget(n) ==
  /\ acked' = [acked EXCEPT ![n] = {}]
  /\ clobbered' = [clobbered EXCEPT ![n] = FALSE]
  /\ intact' = [q \in Procs |-> intact[q] /\ ~ Uses(q, n)]
  /\ due' = [q \in Procs |-> IF Uses(q, n) THEN {} ELSE due[q]]
  /\ floor' = [q \in Procs |-> IF Uses(q, n) THEN [i \in StageIdx |-> 0] ELSE floor[q]]

(* Drop: the one DEL of every key it knows of. *)
DropKeys(p) ==
  LET h == hnd[p]
  IN  /\ pc[p] = "del"
      /\ Del(h.name, DropStages(h), DropShards(h))
      /\ Goto(p, "srem")
      /\ Forget(h.name)
      /\ UNCHANGED <<req, ld, hnd, at, todo, adds>>

(* Drop: the SREM from the registry. *)
Unregister(p) ==
  /\ pc[p] = "srem"
  /\ SRem(hnd[p].name)
  /\ Finish(p, "ok")
  /\ UNCHANGED <<req, ld, hnd, at, todo, histVars>>

-----------------------------------------------------------------------------

(* The next store command fails, or the request's deadline passes or its   *)
(* server dies before it; at "done", the last command took effect but its  *)
(* reply was lost.  A keeper of a Filter gives it up then.                 *)
Fail(p) ==
  /\ p \in FaultProne
  /\ pc[p] # "idle"
  /\ res[p] # "error"
  /\ Finish(p, "error")
  /\ hnd' = [hnd EXCEPT ![p] = IF pc[p] = "done" THEN Nil ELSE @]
  /\ UNCHANGED <<storeVars, req, ld, at, todo, histVars>>

(* Whether the process still has its Filter after the request. *)
Keeps(p) == p \in Embedders /\ hnd[p] # Nil /\ req[p].op # "delete"

(* History: an Add reported as done is acknowledged, unless the filter it  *)
(* worked on was deleted meanwhile.                                        *)
Stores(p) == req[p].op = "add" /\ res[p] = "ok" /\ intact[p]

(* The caller gets the outcome.                                            *)
Return(p) ==
  LET r == req[p]
  IN  /\ pc[p] = "done"
      /\ pc' = [pc EXCEPT ![p] = "idle"]
      /\ req' = [req EXCEPT ![p] = Nil]
      /\ ld' = [ld EXCEPT ![p] = Nil]
      /\ hnd' = [hnd EXCEPT ![p] = IF Keeps(p) THEN @ ELSE Nil]
      /\ at' = [at EXCEPT ![p] = 0]
      /\ todo' = [todo EXCEPT ![p] = {}]
      /\ res' = [res EXCEPT ![p] = "none"]
      /\ acked' = IF Stores(p)
                  THEN [acked EXCEPT ![r.name] = @ \cup {r.item}]
                  ELSE acked
      /\ intact' = [intact EXCEPT ![p] = @ /\ Keeps(p)]
      /\ due' = [due EXCEPT ![p] =
           IF ~ Keeps(p) THEN {} ELSE IF Stores(p) THEN @ \cup {r.item} ELSE @]
      /\ floor' = [floor EXCEPT ![p] = [i \in StageIdx |-> 0]]
      /\ UNCHANGED <<storeVars, clobbered, adds>>

-----------------------------------------------------------------------------

Init ==
  /\ meta = [n \in Names |->
       IF Seed[n] = Nil THEN Nil ELSE [par |-> Seed[n], stage_count |-> 1]]
  /\ stageMeta = [n \in Names |-> [i \in StageIdx |->
       IF Seed[n] # Nil /\ i = 0 THEN computeStage(Seed[n], 0) ELSE Nil]]
  /\ fill = [n \in Names |-> [i \in StageIdx |-> 0]]
  /\ bits = [n \in Names |-> [i \in StageIdx |-> {}]]
  /\ registry = {n \in Names : Seed[n] # Nil}
  /\ pc = [p \in Procs |-> "idle"]
  /\ req = [p \in Procs |-> Nil]
  /\ ld = [p \in Procs |-> Nil]
  /\ hnd = [p \in Procs |-> Nil]
  /\ at = [p \in Procs |-> 0]
  /\ todo = [p \in Procs |-> {}]
  /\ res = [p \in Procs |-> "none"]
  /\ acked = [n \in Names |-> {}]
  /\ clobbered = [n \in Names |-> FALSE]
  /\ intact = [p \in Procs |-> FALSE]
  /\ due = [p \in Procs |-> {}]
  /\ floor = [p \in Procs |-> [i \in StageIdx |-> 0]]
  /\ adds = 0

CreateStep(p) == CheckExisting(p) \/ WriteMeta(p) \/ WriteStage0(p) \/ Register(p)
LoadStep(p) == LoadMeta(p) \/ LoadStage(p) \/ LoadFill(p)
AddStep(p) == SetNextBit(p) \/ IncrFill(p) \/ AppendNewStage(p)
ExistsStep(p) == HitBit(p) \/ MissBit(p)
DropStep(p) == DropKeys(p) \/ Unregister(p)

(* What a process does to finish the request it serves. *)
Serve(p) ==
  CreateStep(p) \/ LoadStep(p) \/ AddStep(p) \/ ExistsStep(p) \/ DropStep(p) \/ Return(p)

Next ==
  \E p \in Procs :
    \/ BeginCreate(p) \/ BeginItemOp(p) \/ BeginNameOp(p)
    \/ Serve(p)
    \/ Fail(p)

Spec == Init /\ [][Next]_vars

(* A goroutine that serves a request is scheduled again and again, and the *)
(* store answers.  Nobody has to issue a request.                          *)
FairSpec == Spec /\ \A p \in Procs : WF_vars(Serve(p))
=============================================================================
