-------------------------- MODULE FilterProperties --------------------------
(***************************************************************************)
(* What the filters of BloomFilter promise.  Most promises are kept only   *)
(* as long as the filter was not created twice over itself (clobbered) or  *)
(* deleted under a request (~ intact); the runs that drop these conditions *)
(* show what happens then.                                                 *)
(***************************************************************************)
EXTENDS BloomFilter, FiniteSets

Labels == {"idle", "check", "write_meta", "write_stage0", "register", "load_meta",
           "load_stage", "load_fill", "set_bits", "incr", "append", "get_bits",
           "del", "srem", "done"}

Outcomes == {"none", "ok", "exists", "not_found", "error", "present", "absent"}

(* Every variable has its type: in particular a filter never has more      *)
(* stages than computeStage can size, and no stage is read or written      *)
(* outside its chain (filter.go Load, Add, appendNewStage).                *)
TypeOK ==
  /\ StoreTypeOK
  /\ pc \in [Procs -> Labels]
  /\ req \in [Procs -> Requests \cup {Nil}]
  /\ ld \in [Procs -> Loads \cup {Nil}]
  /\ hnd \in [Procs -> Handles \cup {Nil}]
  /\ at \in [Procs -> StageIdx]
  /\ todo \in [Procs -> SUBSET Bits]
  /\ res \in [Procs -> Outcomes]
  /\ acked \in [Names -> SUBSET Items]
  /\ clobbered \in [Names -> BOOLEAN]
  /\ intact \in [Procs -> BOOLEAN]
  /\ due \in [Procs -> SUBSET Items]
  /\ floor \in [Procs -> [StageIdx -> Nat]]
  /\ adds \in 0 .. MaxAdds

-----------------------------------------------------------------------------

(* Zero false negatives, in the store: an item whose Add reported success  *)
(* stays in the filter however many processes add, grow the filter, fail   *)
(* half way or re-create it after a delete (Add, appendNewStage, Drop).    *)
AckedItemsHeld ==
  \A n \in Names : ~ clobbered[n] => \A x \in acked[n] : Held(n, x)

(* Zero false negatives, as a caller sees them: an Exists (Load, then the  *)
(* stages from newest to oldest) never answers "absent" for an item that   *)
(* was acknowledged, or that an earlier Exists could report present,       *)
(* before the request arrived, whatever the filter grew to between the     *)
(* Load and the reads.  A program that keeps its Filter is promised what   *)
(* was stored when it loaded it and what it has added through it since,    *)
(* though it may miss what others add to stages it does not know of.       *)
NoFalseNegatives ==
  \A p \in Procs :
    res[p] = "absent" /\ ~ clobbered[req[p].name] => req[p].item \notin due[p]

(* The same without the exception for a filter created over itself: what   *)
(* the documentation promises of every filter.                             *)
NoFalseNegativesEver ==
  \A p \in Procs : res[p] = "absent" => req[p].item \notin due[p]

-----------------------------------------------------------------------------

(* A race to append a stage leaves one chain: stages 0 .. stage_count - 1  *)
(* are the ones computeStage gives for the filter's parameters, each under *)
(* its own index, and nothing lies beyond (appendNewStage, the Lua         *)
(* compare-and-append).                                                    *)
ChainIntact ==
  \A n \in Names : meta[n] # Nil =>
    \A i \in StageIdx :
      stageMeta[n][i] = IF i < meta[n].stage_count
                        THEN computeStage(meta[n].par, i) ELSE Nil

(* "stage i capacity = n * 2^i; error budget tightened by r so the chain's   *)
(* total FPP <= p": the stages a filter has grown are sized from its own    *)
(* parameters, also under a name that was deleted and created again.       *)
GrownStagesFit ==
  \A n \in Names : meta[n] # Nil =>
    \A i \in 1 .. meta[n].stage_count - 1 : stageMeta[n][i].par = meta[n].par

(* A stage is closed only when it is full: every stage but the last one    *)
(* has counted at least its capacity (Add tests the reply of INCR).        *)
FullBeforeGrow ==
  \A n \in Names : meta[n] # Nil =>
    \A i \in 0 .. meta[n].stage_count - 2 : fill[n][i] >= Capacity(stageMeta[n][i])

(* Without failures a stage takes at most one item over its capacity for   *)
(* each other process that was adding when it filled up, so its false      *)
(* positive rate stays near the one it was sized for (Add, appendNewStage).*)
(* The stage that can have no successor is excepted: an Add that cannot    *)
(* grow the filter fails, but has counted its item.                        *)
OverfillBound ==
  \A n \in Names : meta[n] # Nil =>
    \A i \in 0 .. meta[n].stage_count - 1 : Sizable(meta[n].par, i + 1) =>
      fill[n][i] < Capacity(stageMeta[n][i]) + Cardinality(Procs)

(* Stage i is the last of filter n and full, and a next one can be sized. *)
Overdue(n, i) ==
  /\ meta[n] # Nil
  /\ meta[n].stage_count = i + 1
  /\ fill[n][i] >= Capacity(stageMeta[n][i])
  /\ Sizable(meta[n].par, i + 1)

(* A stage that filled up gets its successor, whoever lost the race.       *)
FullStageGrows ==
  \A n \in Names : \A i \in StageIdx :
    Overdue(n, i) ~> (meta[n] # Nil /\ meta[n].stage_count > i + 1)

-----------------------------------------------------------------------------

(* The stages a filter has grown are there for as long as the filter is,   *)
(* through deletes by processes that know fewer stages and appends by      *)
(* processes that know a filter now gone (Del, AppendStage).               *)
GrownStagesPresent ==
  \A n \in Names : meta[n] # Nil =>
    \A i \in 1 .. meta[n].stage_count - 1 : stageMeta[n][i] # Nil

(* Without failures a filter hash without its stage 0, which every Load    *)
(* reports as an internal error, exists only while a New is between its    *)
(* two HSETs.                                                              *)
HalfMadeOnlyWhileCreating ==
  \A n \in Names : meta[n] # Nil /\ stageMeta[n][0] = Nil =>
    \E q \in Procs : pc[q] = "write_stage0" /\ req[q].name = n

(* A deleted filter comes back only through New: an append by a process    *)
(* that loaded it before finds no stage_count and fails.                   *)
OnlyCreateRevives ==
  [][\A n \in Names : meta[n] = Nil /\ meta'[n] # Nil =>
       \E q \in Procs : pc[q] = "write_meta" /\ req[q].name = n]_vars

(* Without store failures an internal error (HTTP 500) has one of three    *)
(* causes: the filter was deleted under the request, it is between the two *)
(* HSETs of its creation, or no further stage can be sized.  Losing the    *)
(* race to append is never one of them.                                    *)
ErrorsExplained ==
  [][\A p \in Procs :
       pc[p] # "done" /\ pc'[p] = "done" /\ res'[p] = "error" =>
         \/ req[p].op # "create" /\ ~ intact[p]
         \/ \E q \in Procs : pc[q] = "write_stage0" /\ req[q].name = req[p].name
         \/ pc[p] = "check" /\ ~ Sizable(req[p].par, 0)
         \/ pc[p] = "incr" /\ ~ Sizable(hnd[p].par, Len(hnd[p].stages))]_vars

-----------------------------------------------------------------------------

StageCount(n) == IF meta[n] = Nil THEN 0 ELSE meta[n].stage_count

NoKeys(n, i) ==
  /\ stageMeta[n][i] = Nil
  /\ fill[n][i] = 0
  /\ bits[n][i] = {}

(* When one process works at a time, the store holds no key that is not    *)
(* part of a filter's chain, so that a filter created under an old name    *)
(* starts empty, even if requests failed half way (New, Drop).             *)
NoOrphans ==
  \A n \in Names : \A i \in StageIdx : i >= StageCount(n) => NoKeys(n, i)

(* "Drop removes the filter and all its data from the store": right after  *)
(* its DEL no key of the filter is left.                                   *)
DropRemovesAll ==
  [][\A p \in Procs : pc[p] = "del" /\ pc'[p] = "srem" =>
       \A i \in StageIdx : NoKeys(hnd[p].name, i)']_vars

(* The registry, whose size the filter.count gauge reports as the number   *)
(* of live filters, lists exactly them whenever no request is in progress. *)
RegistryIsLive ==
  (\A p \in Procs : pc[p] = "idle") => registry = {n \in Names : meta[n] # Nil}

(* Stats reports real load: for every stage at least what was counted when *)
(* the request began and at most what is counted now (Load reads :fill).   *)
StatsSeeRecordedLoad ==
  \A p \in Procs :
    pc[p] = "done" /\ res[p] = "ok" /\ req[p].op = "stats" /\ intact[p] =>
      /\ \A i \in 1 .. Len(ld[p].fills) :
           floor[p][i - 1] <= ld[p].fills[i] /\ ld[p].fills[i] <= fill[req[p].name][i - 1]
      /\ \A i \in StageIdx : floor[p][i] > 0 => i < Len(ld[p].fills)
=============================================================================
