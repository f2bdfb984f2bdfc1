---------------------------- MODULE MCBloomFilter ----------------------------
(***************************************************************************)
(* Small instances of BloomFilter for TLC.  Items and parameters are       *)
(* numbers and the bits of an item come from the code's double hashing     *)
(* over a bitmap of 3 to 5 bits in shards of 2, so that items share bits,  *)
(* stages differ and one item's bits can lie in two shards.                *)
(***************************************************************************)
EXTENDS FilterRefinement, TLC

CONSTANTS a1, a2, r1, c1, c2, d1, k1, f1

MCShardBits == 2

(* Parameter par asks for par items: capacities par, 2*par, 4*par, ...     *)
MCCapacity(st) == st.par * 2 ^ st.index

(* The bits of a stage; larger parameters and later stages have more. *)
MCBitsOf(st) == 2 + st.par + (st.index % 2)

MCShardCount(st) == (MCBitsOf(st) + MCShardBits - 1) \div MCShardBits

(* Two bits per item: (x + i * h2) mod m for i = 0, 1 and h2 = 1. *)
MCPositions(x, st) ==
  {LET g == (x + i) % MCBitsOf(st) IN <<g \div MCShardBits, g % MCShardBits>> : i \in 0 .. 1}

MCBits == (0 .. 2) \X (0 .. MCShardBits - 1)

(* The stages that can be sized: all that the bound allows. *)
MCStageLimit(par) == MaxStages

(* A filter already created under every name, for one item or for two, or none. *)
SeedOne == [n \in Names |-> 1]
SeedTwo == [n \in Names |-> 2]
SeedNone == [n \in Names |-> Nil]

(* Who issues what. *)
Roles ==
  (a1 :> {"add"}) @@ (a2 :> {"add"}) @@ (r1 :> {"exists"}) @@
  (c1 :> {"create"}) @@ (c2 :> {"create"}) @@ (d1 :> {"delete"}) @@
  (k1 :> {"add", "exists"}) @@ (f1 :> {"create", "add", "exists", "stats", "delete"})

MCIssues == [p \in Procs |-> Roles[p]]

(* Nothing but additions, by servers and keepers of a Filter alike. *)
AddIssues == [p \in Procs |-> {"add"}]

(* Readers of items and of statistics. *)
ReadIssues == [p \in Procs |-> IF p = r1 THEN {"exists", "stats"} ELSE Roles[p]]

(* Adders do the same things, so they may be renamed. *)
AdderSymmetry == Permutations({a1, a2})
=============================================================================
