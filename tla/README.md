# Toybloom in TLA+

Toybloom is a REST service and a Go library for scalable bloom filters whose
bitmaps live in a Valkey server. A filter is a chain of stages; items are added
to the last stage, and when that is full a larger one is appended. There is no
lock anywhere: any number of goroutines, in any number of server instances,
work on the same keys, one store command at a time. This directory holds TLA+
modules translated from that code, the configurations that model-check them
with TLC, and theorems about them that TLAPS checks.

To check a run: `tlc -config Growth.cfg MCBloomFilter.tla`. To check the
proofs: `tlapm FilterProofs.tla`, and the same for `ChainProofs.tla`,
`RefinementProofs.tla`, `GaugeProofs.tla`, `AddressingProofs.tla`,
`SizingProofs.tla`, `MemStoreProofs.tla` and `ServerProofs.tla`.

## The system

| Component | State it keeps | Operations | Talks to |
|---|---|---|---|
| Scalable filter, `pkg/bloom/filter.go` | the `Filter` value: parameters and a private copy of the stage list | `New`, `Load`, `Add`, `Exists`, `Stats`, `Drop`, and inside `Add` `appendNewStage` and `reload` | the store, one command per call |
| Sizing, hashing, sharding, estimates, `pkg/bloom/{sizing,hash,shard,estimate}.go` | none | `OptimalM`, `OptimalK`, `StageError`, `StageCapacity`, `positions`, `shardFor`, `groupByShard`, `Items`, `FillRatio`, `EstimatedFPP` | called by the filter |
| Store contract, `pkg/store/store.go` | the keys `bf:<name>:meta`, `:s<i>:meta`, `:s<i>:meta:fill`, `:s<i>:sh<j>`, and `bf:registry` | `SetBits`, `GetBits`, `HGetAll`, `HSet`, `Incr`, `Get`, `SAdd`, `SRem`, `SMembers`, `Del`, `AppendStage` | implemented by `ValkeyStore` (production) and `MemStore` (tests) |
| Service, `internal/service/service.go` | none: it loads a fresh `Filter` per request | `Create`, `Add`, `Exists`, `Stats`, `Delete`, `FilterSamples` | filter, store |
| HTTP API, `internal/api`, with the generated router `gen` | per request: correlation id, logger, deadline | middlewares in a fixed order, one handler per endpoint, panic recovery, probes | service, `Ping` of the store |
| Observability, `internal/obs` | telemetry providers with batched data | `Setup`, `Shutdown`, the gauge callback, which calls `FilterSamples` | service |
| Server, `cmd/server/main.go` | the process | start, listen, signal, drain, flush | all of the above |

What makes this code hard:

* **Interleaving.** Every operation is several store commands. `New` is a
  check and three writes; `Load` is two reads per stage; `Add` is a pipeline of
  SETBITs, an INCR and maybe a script; `Drop` is a DEL and an SREM. Only the
  single command, the one DEL of many keys and the Lua script are atomic.
* **Stale copies.** Add, Exists and Drop work from the stage list their Load
  returned, which other processes may have outgrown, deleted or replaced.
* **Partial failure.** A command may fail, the request deadline
  (`middleware.go:99`) may pass or the server may die between any two of them,
  and a command can take effect although its caller sees an error.
* **Growth.** Several adders see the same full stage; one append may win and
  the others have to end on the same chain, by a reload or with a stage equal
  to the winner's.
* **Answers.** A request can be overtaken by a creation, a delete, its deadline
  or a panic; its status is chosen from an error that several layers mapped, and
  the log line and the counters are written by layers that see neither.
* **Telemetry.** A collection reads the registry and then filter after filter
  while these come and go; telemetry is batched, and an exit that does not
  flush loses what is buffered.

What makes each part correct:

* filter: no false negatives; one well-formed chain of stages; growth when and
  only when a stage is full; no key left behind by a delete; internal errors
  for a reason;
* sizing: capacities double, `m` and `k` meet the stage's error budget, what
  does not fit in a word is refused;
* hashing and sharding: the shards are one bitmap of exactly the positions of
  the items, and a delete finds every one of them;
* stores: both have the effects and answers the filter relies on;
* service and gauges: statistics and samples show real load, a collection
  survives filters that vanish, the registry lists the live filters;
* API: every request is answered; a status is true of the filter at some time
  during the request; the log, the metrics and the counters tell what the
  client was told;
* server: a clean stop loses nothing, and a signal ends the process.

## The modules

| Module | What it is |
|---|---|
| `BitStore` | the store: one operator per command of `store.go`, with the effect `valkey.go` gives it |
| `BloomFilter` | `filter.go` run by concurrent processes as the service runs it: one action per store command |
| `FilterProperties` | the properties of the filter |
| `FilterInvariant` | the inductive invariant of the proofs |
| `ApproximateSet` | the abstract specification: what a caller may be told by a set that loses nothing |
| `FilterRefinement` | the mapping under which `BloomFilter` implements it |
| `FilterApi`, `MCFilterApi` | the HTTP API around the processes of `BloomFilter` |
| `MCBloomFilter` | the small instances TLC checks |
| `FilterProofs` | proofs: type correctness and what a process knows at each label; the inductive invariant and zero false negatives |
| `ChainProofs` | proofs: grown stages, revival, half-made filters, causes of errors; one chain, full stages, bounded overfill and statistics where nobody creates or deletes |
| `RefinementProofs` | proofs: filters are sets; the API serves the filters, is a set to its clients, and accounts for what it sends |
| `GaugeProofs` | proofs: whole filters have samples, samples count every item, the registry under one manager, the count |
| `FilterGauges`, `MCFilterGauges` | `FilterSamples` and the gauge callback, a collector beside the processes of `BloomFilter` (which it EXTENDS) |
| `Addressing`, `MCAddressing` | `hash.go`, `shard.go` and the shard count of `Drop`, in one stage |
| `AddressingProofs` | proofs: sharding is exact; what `BloomFilter` assumes of bits and shards |
| `Sizing`, `MCSizing` | `sizing.go` and `computeStage` along a growing filter |
| `SizingProofs` | proofs: capacities double, stages meet their budget, an overflow is final |
| `MemStore`, `MCMemStore` | the in-memory store, with the keys of `filter.go`, mapped to `BitStore` |
| `MemStoreProofs` | proofs: the in-memory store keeps the contract; which names keep keys apart |
| `ServerLifecycle`, `MCServerLifecycle` | `main.go` with the providers of `obs/provider.go` |
| `ServerProofs` | proof: a clean stop loses nothing |

`BloomFilter` takes positions, shard counts, capacities and the limit of sizing
as parameters; `Addressing` and `Sizing` are the code behind them.
`AddressesFit` proves the part of `FilterAssumption` about bits and shards, and
`OverflowIsFinal` is what makes one `StageLimit` per filter the right
parameter. `MemStore` instantiates `BitStore` on its maps, so that the commands
the filter modules are built from are the contract it is shown to keep.

### BitStore

The state is what the server holds: `meta[n]` (filter hash), `stageMeta[n][i]`
(stage hash), `fill[n][i]` (the `:fill` counter; 0 is no key), `bits[n][i]`
(the set bits of all shards of the stage, as `<<shard, offset>>`), `registry`.
`Nil` is an absent hash. A stage hash holds `m`, `k` and `capacity`, which are
functions of the filter's parameters and the index of the stage; the model
keeps those two instead.

HSet is always called with all fields of its hash, so it replaces the hash. The
script's reply (`AppendReply`) and its effect (`AppendStage`) are two operators
of one atomic step. `SetBits` and `GetBits` are pipelines, whose commands may
interleave with those of others, so the model's step is one SETBIT or GETBIT.

### BloomFilter

A process is one goroutine that serves one request at a time. `pc` names the
store command it issues next, `req` the request, `ld` a Load in progress, `hnd`
its `Filter`, `at` the index of the stage Add or Exists works on, `todo` the
bits still to set or read, `res` the outcome. What a goroutine does between two
commands touches only its own memory and belongs to the step before it.

| Code | Actions |
|---|---|
| `filterService.*`, handlers | `BeginCreate`, `BeginItemOp`, `BeginNameOp`, `Return` |
| `New` | `CheckExisting`, `WriteMeta`, `WriteStage0`, `Register` |
| `Load`, `reload` | `LoadMeta`, `LoadStage`, `LoadFill` (the last one also enters the operation, or ends a reload) |
| `Add`, `appendNewStage` | `SetNextBit`, `IncrFill`, `AppendNewStage` |
| `Exists` | `HitBit`, `MissBit` |
| `Drop` | `DropKeys`, `Unregister` |
| a store error, a deadline, a crash | `Fail` |

`Exists` reads whole shards in `GetBits` and then looks at the bits in order; the
model goes to the next stage at the first clear bit. Bits are never cleared
except by DEL, so reading on after a clear bit cannot change the answer for
that stage, and leaving the rest out only lets the next stage be read earlier.

`Embedders` are processes that keep their `Filter` between requests, as the
package documentation of `pkg/bloom` invites programs to do. `FaultProne` are
those whose calls may fail. A failed call ends the request; at label `done` the
last command took effect and its reply was lost.

The parameters `Positions`, `ShardCount`, `Capacity` and `StageLimit` stand for
`hash.go`, `shard.go` and `sizing.go`; `FilterAssumption` states all the model
needs of them (an item has at least one bit, all of them in the stage's shards;
a capacity is positive; sizes run out at some index). TLC evaluates it for the
instance of every run.

The history variables are read by no code. `acked` is what callers have been
told is stored. `clobbered` records that a creation wrote over a filter hash or
a stage 0 that was already there. `intact[p]` is true while the filter process
`p` loaded is still the one in the store; a DEL makes it false for everyone at
work on that name, empties `acked` and withdraws `due`: the items a process's
`Filter` must report, which are those held by the store when the Load that gave
it began, whoever added them, and for a kept `Filter` also those added through
it since. `floor` is the load a Stats request must at least see.

### ApproximateSet and FilterRefinement

`ApproximateSet` has per name a set of items, or none, and per caller a request
and a reply. A request binds to the filter it finds, may be answered at any
time, and `Truthful` says which answers are true: "not found" when there is no
filter, "exists" when there is one, "ok" to an Add only when the item is in the
set, "absent" only for an item that was not in the set when the request came.
Items may join a set by the way: those are the false positives. Only a delete,
or a creation that runs into the filter, takes items away.

The mapping takes for the set under a name the items all of whose bits are set
in some stage on the chain, `HeldItems`. A SETBIT is then an `Insert` of what
it completes, the DEL of a Drop the `Delete`, the first HSET of New the
`Create`; reads are stutters or a `Bind`, and outcomes are `Answer`s. An Exists
is linearized nowhere in particular, since it looks at stages one by one: that
is why the abstract answer "absent" is about the set at the invocation.

### FilterApi

| Code | Definitions |
|---|---|
| `NewRouter`, `r.Use(...)` | `Chain`, the order; `Inside`, `Resumes`, what the order means for a panic and for ids |
| `CorrelationID`, `RequestLogger` on the way in | `Receive` |
| probes, unmatched routes, the wrappers of `gen.go`, the validator, `ShouldBindJSON` | `AnswerAtOnce`, `Readyz`, `Pong` |
| a valid request | `Admit`, then `Command`: the steps of `BloomFilter` |
| a store call that fails, hangs to the deadline, or panics | `CallFails`, `Expire`, `Panic` |
| `mapErr`, `errorToHTTP`, `mapError`, the handlers | `errorToHTTP`, `SuccessStatus`, `Status` |
| `finishSpan`, `RecordItemsAdded`, `RequestLogger`, `HTTPMetrics` on the way out | `OpPoint`, `ItemsPoint`, `Response`, `Respond` |

A process is a goroutine of net/http. `call` is the HTTP request it has,
`panicked` whether its handler did, `sent` what its last request left behind:
the response with its id, the log line, the metric point, the counters. A panic
passes through every middleware installed inside the recovery without its
second half; a middleware sees the trace, the id or the logger only if the one
that makes it is installed outside. The order is one sequence, `Chain`, so that
another order is another model. A refused request has the one status 400,
whichever of the wrapper, the validator and the binding refuses it; an empty
path segment or a value with a slash is an unmatched route.

### MCBloomFilter

Items and parameters are numbers. The bits of an item are computed by the
code's double hashing over bitmaps of 3 to 5 bits in shards of 2, so that
different items share bits, an item's bits differ from stage to stage, and one
item's bits can lie in two shards, whose commands go out in either order.

### FilterGauges

One collector, `List`, then per name `SampleMeta`, and per stage `SampleStage`
and `SampleFill`; `ListFails` and `SampleFails` are store errors. `kept` is
what the cap leaves of the registry, any subset of the right size because
SMEMBERS has no order. A sample is `Items`, the sum of the counters
(`estimate.go:57-63`). The filters' processes are those of `BloomFilter`,
unchanged. History: `whole`, the filters that had all their stages when the
registry was listed and were neither deleted nor created over since, `owed`,
the items of each acknowledged by then (none for a filter that has been created
over, which lost its grown stages and with them what they counted), `failed`, the filters whose own Load had a
call fail, and `live`, the number of filters at that time, unless a request was
creating or deleting one. The cap is fixed when the server starts; runs consider several.

### Addressing and Sizing

`Addressing` has one stage of `m` bits and `k` hashes. `position` multiplies and
adds modulo `2^Width`; the digest is a parameter, `Sum64`. `BeginAdd` and
`SetShard` are Add's loop over the groups, in any order; `Drop` deletes the
shards its formula counts. The run uses words of 4 bits and shards of 4.

`Sizing` creates a filter of every `n` and appends stages until one cannot be
sized. Words have `Width` bits. The bits per item of stage `i`, a constant of
`p` and `i`, and ln 2 are rationals; ceiling, rounding, the comparison with
`float64(math.MaxUint64)`, which is `2^64`, and the conversion are those of the
code. A conversion of a value out of range gives one of the results Go's
targets give. Rounding of floating-point products is left out: over 10-bit
words they would be exact. `SizingAssumption` says what the modules need of the
rationals, for any width: a stage needs more than 4 bits per item and not fewer
than the stage before (the budgets of `StageError` are below 0.1 and shrink),
and ln 2 is at least a half.

### MemStore

Four maps, one step per method, since each holds the mutex throughout; that
makes a batch of bits atomic here, where Valkey's pipeline is not. Keys are
sequences of segments, so that the key functions of `filter.go` can be stated.
`MemAssumption` says that stages and shards are numbered from 0 and that the
segments the code formats for two of them differ.
`New`, `Load`, `Add`, `appendNewStage`, `Exists` and `Drop` are the calls
`filter.go` makes, in any order, as concurrent operations could make them.
`Conforms` says that every step is a command of `BitStore` on
the filter the maps stand for, or reads it, and returns what that would.

### ServerLifecycle

| Code | Actions |
|---|---|
| `main` | `NotifyContext`, `Setup`, `Connect`, `Spawn`, `AwaitSignal`, `Shutdown`, `Drained`, `DrainTimeout`, `Flush`, `Stop` |
| the goroutine of `ListenAndServe` | `Listen`, `ListenerExit` |
| request goroutines | `Accept`, `Complete` |
| batch processors | `ExportBatch` |
| the operating system | `Signal` |

`buffer` holds requests and log messages recorded and not yet exported. A
request's telemetry is recorded before its connection counts as idle, because
the middleware runs inside the handler. Once the providers are shut down,
recording has no effect. A signal is fatal before `NotifyContext` and after
`stop()`. Two things the code admits: a signal during start-up is only seen at
`<-ctx.Done()`, and a listener that has yet to bind when the server shuts down
returns `ErrServerClosed`.

## Runs

All passing runs are exhaustive for their instance.

| Run | Instance | What it shows |
|---|---|---|
| `Growth` | 2 adders, one of which may fail anywhere, a reader of items and statistics, 3 adds, 2 stages, the first for 2 items | types; no false negatives; one chain; no stage closed early; statistics lie between the load at the request and the load now; the filter is a set |
| `Overfill` | 2 adders and a keeper of its `Filter`, 4 adds, 3 stages, fair | a stage that can have a successor overfills by less than the number of processes; acknowledged items are in the store, also across a reload; a full stage grows; losing the append race is no error |
| `Lifecycle` | a keeper, a reader, a creator, a deleter on one name | the inductive invariant of the proofs; deletes and stale appends never take a stage from under a live filter or revive a dead one; every internal error has a cause |
| `Solo` | one goroutine of the API, every route, refused requests, store calls that hang, fail or panic anywhere, 2 parameters, 3 adds, fair deadlines | no key outside a chain; a delete removes everything; statuses are true, every response is in the log and the metrics, every request is answered |
| `Gauges` | two names, an adder, a process that creates and deletes, a collector with failing calls, a cap of one or none | filters that are there throughout get their series, unless their own Load fails; a sample counts every item acknowledged before it; the count is that of the live filters before the cap |
| `Sharding` | 3 items, 8 sizes, one digest of 0, positions that wrap | the shards are one exact bitmap; Drop leaves none |
| `Sizes` | every `n` below 2^9, two error rates, 10-bit words | capacities double, sizes meet the budget, the first overflow is final |
| `Memory` | a filter of 2 stages and 2 shards, all calls in any order | `MemStore` keeps the contract |
| `Shutdown` | 3 requests, signals at any time, failures of every call, fair | a clean stop loses nothing; signals and listener failures end the process |

Bounds. `MaxStages` 2 is enough for one race to append, 3 for an append that
finds the filter two stages ahead and reloads (`Overfill`: a
capacity of 1 and then 2 lets 4 adds reach stage 2). `MaxAdds` ends a run's
growth; requests of other kinds are not bounded, so creations and deletes
repeat. `Solo`
has 3, enough to fill a first stage for one or two items and find it full again
after a failed append. The API's own state is one request per goroutine and no
goroutine reads another's, so one goroutine shows what the middlewares do; what
many do to each other at the store is the matter of the other runs, and the
theorems below are about any number. One name suffices because no command touches keys of two names, except
the registry. Stage 0 of capacity 1 makes every race happen with the fewest
items. With two adders and a reader there are both a winner and a loser of an
append while a lookup is in progress. The gauges need two names, so that one
can vanish while the other waits. 4-bit words and shards of 4 give stages whose
last shard is full, partly filled, and the only one. In 10-bit words every
filter of the instance reaches an overflow, some in the capacity and some in
the size, and one size is exactly `2^10`. `MaxFill` 1 is enough for the
in-memory counters, which have no threshold. Runs in which only adders exist
stop when `MaxAdds` is used up, and a server or a growing filter comes to an
end; these say `CHECK_DEADLOCK FALSE`.

Fairness. `FairSpec` assumes `WF_vars(Serve(p))`: a goroutine that serves a
request goes on serving it, since the Go scheduler runs it and the store
answers. Nothing makes a request arrive, and nothing makes a call fail or
succeed. It is used by `Overfill`, where no call fails; with failures a full
stage may rightly stay last until the next Add reaches it.

`ApiFairSpec` assumes much less: that the deadline of a request passes
(`Expire`) and that a handler whose calls have ended returns (`Respond`). No
store call is fair, so `RequestsAnswered` holds although Valkey may never answer
again. That a call returns when its context ends is what the Valkey client does
with a context and `Timeout` rests on.

`ServerLifecycle!FairSpec` assumes weak fairness of `main` and of the listener's
goroutine while the process lives. Every wait of `main` ends by itself: the
client dials with a timeout, the drain has `ShutdownTimeout` and the flush five
seconds. No fairness is given to requests, which may hang for ever, to signals
or to exports.

### What the code does that its documentation does not say

Three runs check what a document or a comment says and end in a counterexample.

| Run | What is said | What happens |
|---|---|---|
| `CreateRace` | "Deterministic membership: zero false negatives guaranteed" (`docs/PRD.md:43`) | two creations pass the check of `New`; the later writes over a filter in use and an acknowledged item is absent |
| `RegistryRace` | "true live count" (`service.go:169`) | a filter created between DEL and SREM is unregistered for good |
| `StaleAppend` | "stage i capacity = n*2^i; error budget tightened by r=0.9 so the chain's total FPP <= p" (`docs/HLD.md:59-60`) | an append that began before a delete gives the filter created since a stage of the old size |

Other disagreements are modelled, and have no run of their own:

* A stage appended between the Load and the DEL of a delete survives it, against
  "Drop removes the filter and all its data from the store" (`filter.go:320`);
  `DropRemovesAll` holds for one process at a time.
* A delete whose SREM fails leaves the name registered, and a retry finds no
  filter and never reaches the SREM.
* A kept `Filter` never reads stages that others have grown since it was
  loaded, against "False means the item was definitely never added"
  (`filter.go:271-272`); `NoFalseNegatives` promises its owner what was stored
  when it was loaded and what was added through it. The service loads a `Filter`
  per request.
* A collection whose SMEMBERS fails reports a count of 0 (`service.go:167`).
* A panic inside a service call leaves the named error nil, so `finishSpan`
  counts a successful operation while the client gets a 500; its comment says
  "tagged with success/failure". `CountersMatchResponses` makes this exception.
* An Add that stored its item and then failed to count it or to grow answers
  an error, and `items_added` does not count the item.
* "generated per request (or propagated from the `X-Correlation-ID` request
  header)" (`api/openapi.yaml:10`): with a trace the id is always the trace's and
  the client's header is dropped (`middleware.go:40-41`).
* "Every response body is a uniform envelope" (`api/openapi.yaml:8`): a route
  that does not match gets gin's plain 404, and a panic outside the recovery
  none.
* A value that is empty or contains a slash can be added, but `CheckItem` has it
  in the path, where no route matches it.
* A valid create of sizes that overflow is answered 500; the specification lists
  201, 400 and 409. A `p` near the smallest float passes the validator and
  underflows to 0 as a stage's error budget: creating, or an Add that fills a
  stage and has stored its item, is then answered 400 (`ErrInvalidP`, `mapErr`).
  The model has one status for all sizing failures, 500.
* `m` is a `uint64` cast to `int64` (`handler.go:121`): `n` of 10^18 and `p` of
  0.01 are accepted and answered with a negative `m`.
* A step `h2` that is a multiple of `m` puts all positions of an item on one
  bit, against "Forcing `h2 = 1` keeps the sequence non-degenerate"
  (`docs/Journal/M2.md:19`).
* A size of exactly `2^64` passes the overflow test of `OptimalM`
  (`sizing.go:58`) and is converted out of range; the same test in
  `StageCapacity` does no harm, because `OptimalM` then refuses the stage.
* The exits of a failed start, listener or drain skip `providers.Shutdown`,
  which "MUST be called before the process exits or batched telemetry is lost"
  (`obs/provider.go:65-66`).
* The stage hash of a filter `a` and the filter hash of a filter `a:s0` are one
  key; the API admits no colons, the library does.

The other properties of the filter are stated with the condition these runs
need broken: `~ clobbered[n]` where a creation may write over a filter, and
`intact[p]` for a filter deleted under a request.

## Theorems

Proved for every number of processes, names, items, parameters and stages, and
every assignment of bits, from `StoreAssumption` and `FilterAssumption` only
and, where they are used, the assumptions of the module (`SetAssumption`,
`ApiAssumption`, `GaugeAssumption`, those of `Addressing` and
`ServerLifecycle`). Some are about instances that the condition in the table
describes: `Settled` says that nobody creates or deletes filters, `OneManager(q)`
that only `q` does and that no store call of the filters' processes fails,
`Alone(q)` that `q` is the only process and keeps no `Filter`, `OneSegment` that
every name is one segment. The theorems about `Sizing` hold for every width of
the words, all `n` and all error rates for which `SizingAssumption` holds.

| Theorem | Statement |
|---|---|
| `TypeCorrect` (`FilterProofs`) | `Spec => []TypeOK` |
| `Invariance` (`FilterProofs`) | `Spec => []IInv` |
| `AckedItemsStayHeld` (`FilterProofs`) | `Spec => []AckedItemsHeld` |
| `ExistsFindsAcked` (`FilterProofs`) | `Spec => []NoFalseNegatives` |
| `GrownStagesStay` (`ChainProofs`) | `Spec => []GrownStagesPresent` |
| `OnlyNewRevives` (`ChainProofs`) | `Spec => OnlyCreateRevives` |
| `HalfMadeIsBeingMade` (`ChainProofs`) | `FaultProne = {}` implies `Spec => []HalfMadeOnlyWhileCreating` |
| `ErrorsHaveCauses` (`ChainProofs`) | `FaultProne = {}` implies `Spec => ErrorsExplained` |
| `RacesLeaveOneChain` (`ChainProofs`) | `Settled` implies `Spec => []ChainIntact` |
| `StagesFillBeforeTheNext` (`ChainProofs`) | `Settled` implies `Spec => []FullBeforeGrow` |
| `OverfillIsBounded` (`ChainProofs`) | `Settled`, `FaultProne = {}` and a finite set of processes imply `Spec => []OverfillBound` |
| `StatsLieBetween` (`ChainProofs`) | `Settled` and `Embedders = {}` imply `Spec => []StatsSeeRecordedLoad` |
| `FailuresLeaveNoOrphans` (`ChainProofs`) | `Alone(q)` implies `Spec => []NoOrphans` |
| `DropIsComplete` (`ChainProofs`) | `Alone(q)` implies `Spec => DropRemovesAll` |
| `FiltersAreSets` (`RefinementProofs`) | `Spec => ImplementsSet` |
| `ApiServesFilters` (`RefinementProofs`) | `ApiSpec => Spec` |
| `EveryResponseAccounted`, `CountersAgree` (`RefinementProofs`) | `ApiSpec => []ResponsesAccounted`, `ApiSpec => []CountersMatchResponses` |
| `ApiIsASet` (`RefinementProofs`) | `ApiSpec => ApiImplementsSet` |
| `WholeFiltersHaveSamples` (`GaugeProofs`) | `GaugeSpec => []WholeFiltersSampled` |
| `SamplesCountEveryItem` (`GaugeProofs`) | `GaugeSpec => []SamplesCountAcked` |
| `OneManagerListsAll` (`GaugeProofs`) | `OneManager(q)` implies `Spec => []RegistryIsLive` |
| `CountIsTrue` (`GaugeProofs`) | `OneManager(q)` implies `GaugeSpec => []CountIsTrueTotal` |
| `BitmapsExact`, `ShardingExact` (`AddressingProofs`) | `Spec => []AInv`, `Spec => []FlatView` |
| `AddressesFit` (`AddressingProofs`) | an item has a bit, and every bit of it is in a shard that Drop counts |
| `CapacitiesAreDoubled`, `StagesMeetBudget` (`SizingProofs`) | `Spec => []CapacitiesDouble`, `Spec => []SizedToBudget` |
| `OverflowStays` (`SizingProofs`) | `Spec => []OverflowIsFinal` |
| `MemStoreConforms` (`MemStoreProofs`) | `OneSegment` implies `Spec => Conforms` |
| `KeysApart`, `ColonsCollide` (`MemStoreProofs`) | `OneSegment` keeps all keys apart; without it two filters can have one key |
| `CleanStop` (`ServerProofs`) | `Spec => []CleanStopLosesNothing` |

**The argument for zero false negatives.** That an acknowledged item is held
is not inductive: when an Add returns, nothing in `AckedItemsHeld` says that its
bits are in the store. `IInv` adds what a process knows on the way:

* `Shape`: what each label implies about `req`, `hnd`, `ld`, `at`.
* `Copies`: the `Filter`, or partial Load, of an intact process on an
  unclobbered name is a prefix of the chain in the store.
* `AddsProgress`: an Add has set the bits it no longer has to do, and from its
  INCR on the filter holds its item.
* `Lookups`: an Exists that must find its item has it in a stage it has yet to
  read; a `Filter` that is kept has every item it must report in a stage it
  knows, and a Load in progress is going to read those stages (`PromiseOf`).

Every step either leaves filter `n` alone, or *extends* it (bits are only
gained, the chain grows only at its end), or deletes it, which withdraws what
was promised, or clobbers it. The proof of each action says which and applies
one frame lemma to all the processes that did not move; what remains is the
process that did.

`GrownStagesStay` needs that a process never knows more stages than it could
have read, so that a DEL takes the filter hash with the stages it deletes.
`HalfMadeIsBeingMade` needs that no request is cut off between the two HSETs.
`ErrorsHaveCauses` adds `Backed`: what an intact process has read is still there,
the filter hash of its `Filter` and every grown stage its Load has yet to read.
The reload after a lost append therefore finds all it asks for, and an error
leaves only the delete, the creation and the overflow that the property names.

`ShardingExact` rests on `AInv`: the bitmaps are the bits of the items added,
and of the shards of the item being added that are written. That `shardFor` can
be undone (`s * ShardBits + o` is the position) turns it into the flat view, and
that every position is below `m` makes Drop's rounding up cover every shard.
`CleanStop` needs `LInv`: from the end of the drain on nothing is accepted or in
flight, because `main` closed the listener first, and every finished request is
in the buffer or exported.

**The refinement.** `RInv` adds to `IInv` which bits a lookup has already found,
so that "present" is true of the set, and that a delete past its DEL has lost
its filter. The proof goes action by action: each lemma names the abstract
action that the step is, or says that it stutters. What the store can lose or
gain is again one of few cases (nothing, bits, a stage, everything), and
`setSure`, `setPhase` and the promise of the other processes follow from it.

**The API.** `ApiServesFilters` shows that every action of `FilterApi` is a step of
`BloomFilter` or leaves it alone, which carries everything proved of the filters
over. For `ApiIsASet` the reply is what the client reads from the status; the
proof follows `FiltersAreSets` with the two facts that outcome and status
determine each other and that a panicked or expired call reads as "error". The
two properties about telemetry need that a request's status, once settled, is
one its route can have.

**One chain.** Where nobody creates or deletes, `OneChain` is inductive: the stages
are those `computeStage` gives, every closed one is full, every copy a process
has is a prefix of them, and a process about to append has seen its stage full.
The compare-and-append then either finds exactly that prefix or changes
nothing. The counters of a Stats request are bounded below because counters
only grow (`Grows`) and above because they are read from the store; that only
stages of the chain have counters (`Counted`) covers the stages grown since.

**How far a stage overfills.** A counter passes its capacity by one item per
process that has not seen it full. While the stage is the last of the chain,
the processes that have sent an INCR since it was full are about to append
(`Appending`), each at most once, because an append ends in a chain with a later
stage or with an error. Once it has a successor, the items over the capacity
are at most the processes less those whose copy still ends there (`Lagging`),
each of which may add one more before it reloads. Both counts are sets of
processes, which a step changes by at most one. Two conditions turned out to be
needed. A stage that can have no successor overfills without bound, one item
for each Add that then fails: the property excepts it (`Sizable`). And an INCR
whose reply is lost leaves an item behind that no process answers for, so that
`FaultProne` is empty.

**One process at a time.** Its commands may fail anywhere. `NoOrphans` is not inductive:
`AloneInv` adds that the bits of a stage lie in the shards its size calls for
(`BitsInShards`), that New writes only where nothing is, and that the copy an Add
or a Drop works on is the whole chain. The DEL then names every key there is.

**The registry and the gauges.** With one manager the registry differs from the
live filters in at most the name the manager is at work on, between the HSET
and the SADD or between the DEL and the SREM (`Listed`). `RegistryRace` shows that
two managers break this. `CountIsTrue` follows at the moment of the list, when
`live` says that the manager is not at work. `WholeFiltersHaveSamples` has the
invariant that a filter owed a sample is still queued, is the one being loaded
and has all the stages the collector has yet to read, or has its sample.

**What a sample counts.** The acknowledged items are a set, the counters are
numbers, and two Adds of one item count twice. `Tallies` gives every stage a set
of marks no larger than its counter: an Add's own from its INCR until it is
acknowledged, the item's from then on. An INCR makes room for one mark, and an
acknowledgement turns the mark of an Add into that of its item or drops it. `Sampling`
does the same for a collection: the marks counted so far are no more than the
sum so far, and those of the other items owed are in stages it has yet to read;
counters grow in between, sets of marks need not. No hypothesis is needed. The
proof showed what the property may not say: a creation over a filter cuts
grown stages off its chain, and a collection owes nothing of such a filter
(`Unclobbered`).

**Sizing.** A power of two is the number of subsets of `1 .. j`, which is what the
prover has instead of induction on `j`: `PowerDoubles` and `PowerMonotone` compare
sets of subsets. `SizeInv` says that every stage of the chain fits, has the
capacity `n * 2^i`, a size that is a conversion of the bits it needs and the
hash count of these, and that after an overflow the next stage does not fit.
More than 4 bits per item keep the capacity of a stage that fits so low that the
next one can be counted (`RoomToDouble`), so that only the bits of a stage can
overflow first; and what does not fit does not when it is doubled (`NeverAgain`).

**The two stores.** `MemStoreConforms` is a refinement with the mapping `metaOf`,
`stagesOf`, `fillOf`, `bitsOf`. Each method writes one key (DEL those that `DropKeys`
names), and `KeysApart` says that no other part of the contract's state is read
from that key; `MapsOK` says that a hash has either no field or all of them, so
that HSET over it replaces it and the append copies the rest. `ColonsCollide`
shows what `OneSegment` is for.

**Only model-checked:** `FullStageGrows`, `StopIsBounded`, `ListenFailureStops` and
`RequestsAnswered`, because liveness under fairness is beyond the prover. Every
invariant and every other action property of the passing runs has a theorem,
with the hypotheses in the table; for what the theorems exclude (failing calls
in `FaultProne`, several managers, names of several segments) there are the runs
and the section on what the code does otherwise.

## Not modelled

* `pkg/store/instrument.go`, tracing spans: no state that anything reads.
* `internal/core/config`: read once from the environment; the values are
  parameters of the modules.
* Log wording and formats, JSON layout, the static documentation pages, the
  wire types and the embedded specification in `gen.go`: data. What the API
  modules keep of them is the status, the correlation id and `exists`.
* `FillRatio` and `EstimatedFPP`: floating-point formulas without state over what
  Stats returns. The false positive rate itself is a probability, which neither
  tool has.
* Rounding in `sizing.go` and ratios other than the defaults, which no caller
  can set.
* The Valkey client's connections and retries, `Ping` beyond its answer, and
  the server behind it: a command is one atomic step that takes effect or not.
* Container and dashboard configuration and the k6 load scripts.
* Start-up: that a failed start loses the log record that says why
  (`main.go:60`) is an exit that skips the flush; `ServerLifecycle` has it and no
  property forbids it.
