--------------------------- MODULE FilterInvariant ---------------------------
(***************************************************************************)
(* The inductive invariant behind "zero false negatives".  An acknowledged *)
(* item is held by some stage of the chain; that fact survives because     *)
(* bitmaps only gain bits and the chain only grows at its end until a DEL, *)
(* which also withdraws what was promised, or a creation over the filter,  *)
(* which clobbered records.  The rest says how a process gets from the     *)
(* store to such a fact (an Add), or from such a fact to an answer (an     *)
(* Exists), by way of its own copy of the chain.                           *)
(***************************************************************************)
EXTENDS FilterProperties

Creating == {"check", "write_meta", "write_stage0", "register"}
Loading  == {"load_meta", "load_stage", "load_fill"}
Adding   == {"set_bits", "incr", "append"}

(* What a process knows at each of its labels. *)
ShapeOf(p) ==
  /\ pc[p] = "idle" <=> req[p] = Nil
  /\ pc[p] = "idle" /\ p \notin Embedders => hnd[p] = Nil
  /\ hnd[p] # Nil => Len(hnd[p].stages) \in 1 .. MaxStages
  /\ hnd[p] # Nil /\ req[p] # Nil => req[p].name = hnd[p].name
  /\ pc[p] \in Creating => req[p].op = "create" /\ hnd[p] = Nil
  /\ pc[p] \in Loading => req[p].op # "create" /\ (hnd[p] # Nil => req[p].op = "add")
  /\ pc[p] = "load_stage" => ld[p] # Nil /\ Len(ld[p].stages) < ld[p].count
  /\ pc[p] = "load_fill" => ld[p] # Nil /\ Len(ld[p].stages) \in 1 .. ld[p].count
  /\ pc[p] \in Adding => hnd[p] # Nil /\ req[p].op = "add"
  /\ pc[p] \in {"set_bits", "incr"} => at[p] = Len(hnd[p].stages) - 1
  /\ pc[p] = "append" => Sizable(hnd[p].par, Len(hnd[p].stages))
  /\ pc[p] = "get_bits" => hnd[p] # Nil /\ req[p].op = "exists" /\ at[p] < Len(hnd[p].stages)
  /\ pc[p] \in {"del", "srem"} => hnd[p] # Nil /\ req[p].op = "delete"

(* A request has an outcome when it is done, and not before. *)
Pending(p) ==
  /\ pc[p] # "done" <=> res[p] = "none"
  /\ res[p] = "absent" => req[p].op = "exists"

Shape == \A p \in Procs : ShapeOf(p) /\ Pending(p)

(* The stages are, in the store, the first ones of filter n. *)
Matches(n, stages) ==
  /\ meta[n] # Nil
  /\ Len(stages) <= meta[n].stage_count
  /\ \A i \in 1 .. Len(stages) : stageMeta[n][i - 1] = stages[i]

Sound(p, n) == intact[p] /\ ~ clobbered[n]

(* A process that is intact has a true copy of the chain, or of the part   *)
(* of it that it has loaded or created so far.                             *)
CopyOf(p) ==
  /\ hnd[p] # Nil /\ Sound(p, hnd[p].name) => Matches(hnd[p].name, hnd[p].stages)
  /\ pc[p] \in {"load_stage", "load_fill"} /\ Sound(p, req[p].name) =>
       /\ Matches(req[p].name, ld[p].stages)
       /\ ld[p].count <= meta[req[p].name].stage_count
       /\ hnd[p] # Nil => Len(hnd[p].stages) <= ld[p].count
  /\ pc[p] \in {"write_stage0", "register"} /\ Sound(p, req[p].name) =>
       meta[req[p].name] # Nil
  /\ pc[p] = "register" /\ Sound(p, req[p].name) =>
       stageMeta[req[p].name][0] = computeStage(req[p].par, 0)

Copies == \A p \in Procs : CopyOf(p)

Stored(p) ==
  \/ pc[p] \in {"incr", "append"}
  \/ pc[p] \in Loading /\ hnd[p] # Nil
  \/ pc[p] = "done" /\ res[p] = "ok"

(* Item x is in one of the stages of this copy of the chain of filter n,   *)
(* up to index last.                                                       *)
InCopy(n, stages, last, x) ==
  \E i \in 0 .. last : Positions(x, stages[i + 1]) \subseteq bits[n][i]

(* An Add has set the bits it no longer has to do; from its INCR on the    *)
(* filter holds its item.                                                  *)
AddOf(p) ==
  pc[p] # "idle" /\ req[p].op = "add" /\ Sound(p, req[p].name) =>
    /\ pc[p] = "set_bits" =>
         Positions(req[p].item, hnd[p].stages[at[p] + 1]) \ todo[p] \subseteq bits[req[p].name][at[p]]
    /\ Stored(p) =>
         /\ Held(req[p].name, req[p].item)
         /\ hnd[p] # Nil =>
              InCopy(hnd[p].name, hnd[p].stages, Len(hnd[p].stages) - 1, req[p].item)

AddsProgress == \A p \in Procs : AddOf(p)

HeldIn(n, i, x) ==
  /\ stageMeta[n][i] # Nil
  /\ Positions(x, stageMeta[n][i]) \subseteq bits[n][i]

(* A Filter has every item it must report, in a stage it knows of; so has  *)
(* the chain that a Load in progress is going to read.                     *)
PromiseOf(p) ==
  /\ pc[p] \in Creating => due[p] = {}
  /\ hnd[p] # Nil /\ ~ clobbered[hnd[p].name] => \A x \in due[p] :
       intact[p] /\ InCopy(hnd[p].name, hnd[p].stages, Len(hnd[p].stages) - 1, x)
  /\ hnd[p] = Nil /\ pc[p] = "load_meta" /\ ~ clobbered[req[p].name] => \A x \in due[p] :
       Held(req[p].name, x)
  /\ hnd[p] = Nil /\ pc[p] \in {"load_stage", "load_fill"} /\ ~ clobbered[req[p].name] =>
       \A x \in due[p] :
         intact[p] /\ \E i \in 0 .. ld[p].count - 1 : HeldIn(req[p].name, i, x)

MustFind(p) ==
  /\ pc[p] # "idle"
  /\ req[p].op = "exists"
  /\ req[p].item \in due[p]
  /\ ~ clobbered[req[p].name]

(* An Exists that must find its item has it in a stage it has yet to read. *)
LookupOf(p) ==
  /\ pc[p] = "get_bits" => todo[p] \subseteq Positions(req[p].item, hnd[p].stages[at[p] + 1])
  /\ MustFind(p) =>
       /\ pc[p] = "get_bits" => InCopy(req[p].name, hnd[p].stages, at[p], req[p].item)
       /\ res[p] # "absent"

Lookups == \A p \in Procs : PromiseOf(p) /\ LookupOf(p)

(* No item is lost and no lookup goes wrong: the invariant as a whole, of  *)
(* New, Load, Add, Exists and Drop together.                               *)
IInv == TypeOK /\ Shape /\ Copies /\ AckedItemsHeld /\ AddsProgress /\ Lookups
=============================================================================
