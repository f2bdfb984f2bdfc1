---------------------------- MODULE MCFilterGauges ----------------------------
(* FilterGauges over the instances of MCBloomFilter, with two names.       *)
EXTENDS MCBloomFilter, FilterGauges

(* One filter exists already, one does not yet. *)
SeedUsers == [n \in Names |-> IF n = "users" THEN 1 ELSE Nil]

(* One process adds items, the other creates and deletes filters. *)
GaugeIssues == [p \in Procs |-> IF p = f1 THEN {"create", "delete"} ELSE Roles[p]]
=============================================================================
