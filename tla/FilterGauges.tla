----------------------------- MODULE FilterGauges -----------------------------
(***************************************************************************)
(* The per-filter gauges beside the filters they observe: one collection   *)
(* goroutine of one server, whose callback (obs/metrics.go ObserveFilters) *)
(* calls FilterSamples of internal/service, which lists the registry and   *)
(* loads name after name while the processes of BloomFilter go on.  Each   *)
(* store command is a step.  The collector writes nothing to the store.    *)
(***************************************************************************)
EXTENDS BloomFilter, FiniteSetsExt

CONSTANTS
  MaxGauges,    \* the values of OBS_MAX_FILTER_GAUGES considered; 0 is no cap
  ScrapeFaults  \* whether the collector's store calls may fail

ASSUME GaugeAssumption == MaxGauges \subseteq Nat /\ ScrapeFaults \in BOOLEAN

VARIABLES
  maxGauges,  \* the cap the server runs with
  gpc,      \* the store command the collector issues next
  kept,     \* the names FilterSamples kept under the cap
  queue,    \* those it has yet to load
  cur,      \* the name it is loading
  gld,      \* of that Load: the stage count, the stages read, the items counted
  count,    \* what filter.count reports
  samples   \* what filter.items reports per name, Nil for no series

gaugeVars == <<maxGauges, gpc, kept, queue, cur, gld, count, samples>>

(* History: the filters that were whole when the registry was listed and   *)
(* have not been deleted since, the items acknowledged by then, the        *)
(* filters whose own Load had a store call fail, and the number of live    *)
(* filters when the registry was listed, Nil if filters were being created *)
(* or deleted then or the list failed.                                     *)
VARIABLES whole, owed, failed, live

gaugeHist == <<whole, owed, failed, live>>

-----------------------------------------------------------------------------

(* Filter n has all its stages.                                            *)
Whole(n) ==
  meta[n] # Nil /\ \A i \in 0 .. meta[n].stage_count - 1 : stageMeta[n][i] # Nil

(* The lists the truncation may leave: members come in any order. *)
Kept(names) ==
  IF maxGauges > 0 /\ Cardinality(names) > maxGauges
  THEN kSubset(maxGauges, names)
  ELSE {names}

(* Whether some request is creating or deleting a filter. *)
Changing == \E p \in Procs : req[p] # Nil /\ req[p].op \in {"create", "delete"}

(* The number of names that the cap leaves. *)
CappedTotal(names, left) == Cardinality(left)

(* The true total, before the cap. *)
Total(names, left) == Cardinality(names)

(* A list that fails is reported as no filters at all. *)
CountOnError == 0

NoSamples == [n \in Names |-> Nil]

(* What a sample of each filter must count.  A creation over a filter has  *)
(* taken the grown stages off its chain, and with them what they counted.  *)
Unclobbered == [n \in Names |-> IF clobbered[n] THEN {} ELSE acked[n]]

(* ListFilters: the SMEMBERS of the registry.                              *)
List ==
  /\ gpc = "idle"
  /\ \E names \in Kept(registry) :
       /\ kept' = names
       /\ queue' = names
       /\ count' = Total(registry, names)
  /\ gpc' = IF registry = {} THEN "idle" ELSE "next"
  /\ samples' = NoSamples
  /\ whole' = {n \in registry : Whole(n)}
  /\ owed' = Unclobbered
  /\ failed' = {}
  /\ live' = IF Changing THEN Nil ELSE Cardinality({n \in Names : meta[n] # Nil})
  /\ UNCHANGED <<maxGauges, cur, gld>>

ListFails ==
  /\ gpc = "idle"
  /\ ScrapeFaults
  /\ kept' = {}
  /\ queue' = {}
  /\ count' = CountOnError
  /\ samples' = NoSamples
  /\ whole' = {n \in registry : Whole(n)}
  /\ owed' = Unclobbered
  /\ failed' = {}
  /\ live' = Nil
  /\ UNCHANGED <<maxGauges, gpc, cur, gld>>

(* A collection that gives up at the first filter it cannot load.          *)
StopAtMiss(q) == {}

(* The loop goes on with the other names. *)
SkipMiss(q) == q

(* The loop's next name, or its end. *)
Proceed(q) == queue' = q /\ gpc' = IF q = {} THEN "idle" ELSE "next"

(* Load: the HGETALL of the next name's hash; a miss skips the name.       *)
SampleMeta ==
  /\ gpc = "next"
  /\ \E n \in queue :
       /\ cur' = n
       /\ IF meta[n] = Nil
          THEN Proceed(SkipMiss(queue \ {n})) /\ UNCHANGED gld
          ELSE /\ gpc' = "stage"
               /\ queue' = queue \ {n}
               /\ gld' = [count |-> meta[n].stage_count, read |-> 0, items |-> 0]
  /\ UNCHANGED <<maxGauges, kept, count, samples, gaugeHist>>

(* Load: the HGETALL of a stage; an empty one is a parse error, a skip.    *)
SampleStage ==
  /\ gpc = "stage"
  /\ IF stageMeta[cur][gld.read] = Nil
     THEN Proceed(SkipMiss(queue)) /\ gld' = Nil
     ELSE gpc' = "fill" /\ UNCHANGED <<queue, gld>>
  /\ UNCHANGED <<maxGauges, kept, cur, count, samples, gaugeHist>>

(* Load: the GET of the stage's counter; the last one makes the sample,    *)
(* whose items are the counters' sum (estimate.go Items).                  *)
SampleFill ==
  LET items == gld.items + FillOf(cur, gld.read)
  IN  /\ gpc = "fill"
      /\ IF gld.read + 1 < gld.count
         THEN /\ gld' = [gld EXCEPT !.read = @ + 1, !.items = items]
              /\ gpc' = "stage"
              /\ UNCHANGED <<queue, samples>>
         ELSE /\ samples' = [samples EXCEPT ![cur] = items]
              /\ gld' = Nil
              /\ Proceed(queue)
      /\ UNCHANGED <<maxGauges, kept, cur, count, gaugeHist>>

(* A Load that fails skips its name. *)
SampleFails ==
  /\ ScrapeFaults
  /\ \/ /\ gpc = "next"
        /\ \E n \in queue : Proceed(SkipMiss(queue \ {n})) /\ failed' = failed \cup {n}
     \/ /\ gpc \in {"stage", "fill"}
        /\ Proceed(SkipMiss(queue))
        /\ failed' = failed \cup {cur}
  /\ gld' = Nil
  /\ UNCHANGED <<maxGauges, kept, cur, count, samples, whole, owed, live>>

Collect == List \/ ListFails \/ SampleMeta \/ SampleStage \/ SampleFill \/ SampleFails

-----------------------------------------------------------------------------

GaugeInit ==
  /\ Init
  /\ maxGauges \in MaxGauges
  /\ gpc = "idle"
  /\ kept = {}
  /\ queue = {}
  /\ cur = Nil
  /\ gld = Nil
  /\ count = Cardinality(registry)
  /\ samples = NoSamples
  /\ whole = {}
  /\ owed = [n \in Names |-> {}]
  /\ failed = {}
  /\ live = Nil

(* A step of the filters' processes; a delete or a creation over a filter  *)
(* ends what the collection owes it.                                       *)
FilterStep ==
  /\ Next
  /\ whole' = {n \in whole : meta'[n] # Nil /\ ~ clobbered'[n]}
  /\ owed' = [n \in Names |-> IF n \in whole' THEN owed[n] ELSE {}]
  /\ UNCHANGED <<gaugeVars, failed, live>>

GaugeNext ==
  \/ FilterStep
  \/ Collect /\ UNCHANGED vars

GaugeSpec == GaugeInit /\ [][GaugeNext]_<<vars, gaugeVars, gaugeHist>>

-----------------------------------------------------------------------------

(* "a filter deleted mid-scrape is skipped, never fatal": however the      *)
(* other filters come and go during a collection, and whatever fails while *)
(* they are loaded, every filter that was whole when the registry was      *)
(* listed and is still there has its sample, unless its own Load failed.   *)
WholeFiltersSampled ==
  gpc = "idle" => \A n \in (kept \cap whole) \ failed : samples[n] # Nil

(* "the number of live filters ... is always the true pre-cap total": as   *)
(* long as one process at a time creates and deletes filters, what the     *)
(* registry lists between its requests are the filters that are there,     *)
(* however many of them the cap leaves a series.                           *)
CountIsTrueTotal == live # Nil => count = live

(* A sample counts every item acknowledged before the collection began,    *)
(* though adders grow the filter while its stages are read: the fill       *)
(* counters are read, not the seed in the stage hash.  Nothing is owed of  *)
(* a filter that was created over, whose count is that of its new chain.   *)
SamplesCountAcked ==
  \A n \in whole : samples[n] # Nil => samples[n] >= Cardinality(owed[n])
=============================================================================
