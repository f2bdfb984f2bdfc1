-------------------------- MODULE FilterRefinement --------------------------
(***************************************************************************)
(* BloomFilter implements ApproximateSet: the set under a name is the      *)
(* items the chain in the store holds.                                     *)
(***************************************************************************)
EXTENDS FilterInvariant

(* Nil is no set of items. *)
ASSUME SetAssumption == \A S \in SUBSET Items : S # Nil

setMembers == [n \in Names |-> IF meta[n] = Nil THEN Nil ELSE HeldItems(n)]

(* A request is waiting while it has no outcome yet. *)
Waiting(p) == req[p] # Nil /\ res[p] = "none"

(* It has yet to read, or to write, the filter hash. *)
Unbound(p) == pc[p] \in {"check", "write_meta"} \/ (pc[p] = "load_meta" /\ hnd[p] = Nil)

setPhase == [p \in Procs |->
  IF ~ Waiting(p) THEN "new"
  ELSE IF p \in Embedders THEN "lost"
  ELSE IF Unbound(p) THEN "new"
  ELSE IF intact[p] THEN "bound" ELSE "lost"]

setSure == [p \in Procs |->
  IF req[p] = Nil \/ p \in Embedders THEN {}
  ELSE IF req[p].op # "exists" \/ clobbered[req[p].name] THEN {} ELSE due[p]]

Set == INSTANCE ApproximateSet WITH
  Keepers <- Embedders, members <- setMembers, broken <- clobbered,
  phase <- setPhase, sure <- setSure, reply <- res

(* A lookup has found the bits it no longer has to read, and a delete past *)
(* its DEL has lost its filter.                                            *)
ReadOf(p) ==
  /\ pc[p] = "get_bits" /\ Sound(p, req[p].name) =>
       Positions(req[p].item, hnd[p].stages[at[p] + 1]) \ todo[p] \subseteq bits[req[p].name][at[p]]
  /\ pc[p] = "srem" => ~ intact[p]

RInv == IInv /\ \A p \in Procs : ReadOf(p)

(* To the callers of the service a filter is a set that loses no item,     *)
(* whatever the interleaving of Adds, lookups, growth, creations, deletes  *)
(* and failures: what an Add reports stored and an Exists reports present  *)
(* is in the set, what an Exists reports absent was not there when it      *)
(* came, ErrNotFound and ErrFilterExists are true at the time, and only a  *)
(* creation or a delete of the name takes items away.                      *)
ImplementsSet == Set!Spec
=============================================================================
