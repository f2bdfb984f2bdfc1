---------------------------- MODULE ApproximateSet ----------------------------
(***************************************************************************)
(* What the filters promise the callers of the service, without stages,    *)
(* bits or store commands: per name a set that Add puts items into and     *)
(* that may gain other items by the way (the false positives), and answers *)
(* that are true of the set at some time during the request.               *)
(*                                                                         *)
(* A request is bound to the filter it finds; when that is deleted under   *)
(* it, it is lost and may answer anything but that no filter is there.  A  *)
(* creation may break the filter it meets: nothing is promised of it until *)
(* it is deleted.                                                          *)
(***************************************************************************)
CONSTANTS Nil, Names, Items, Procs,
  Keepers,   \* callers with a Filter of their own, to whom less is promised
  Requests   \* records with op and name, and item where the op has one

VARIABLES
  members,  \* per name, the items a lookup finds; Nil when there is no filter
  broken,   \* per name, whether a creation ran into an existing filter
  req,      \* the request of each caller, Nil when it has none
  phase,    \* whether that is new, bound to the filter or has lost it
  sure,     \* the items it must not call absent: the members when it came
  reply     \* the answer to it, "none" before there is one

aVars == <<members, broken, req, phase, sure, reply>>

(* Caller p waits for the answer to a request on n. *)
WaitsOn(p, n) == req[p] # Nil /\ req[p].name = n /\ reply[p] = "none"

Init ==
  /\ members \in [Names -> {Nil, {}}]
  /\ broken = [n \in Names |-> FALSE]
  /\ req = [p \in Procs |-> Nil]
  /\ phase = [p \in Procs |-> "new"]
  /\ sure = [p \in Procs |-> {}]
  /\ reply = [p \in Procs |-> "none"]

MembersOf(n) == IF members[n] = Nil THEN {} ELSE members[n]

(* What must be found by a lookup that comes now. *)
Sure(p, r) ==
  IF r.op = "exists" /\ p \notin Keepers /\ ~ broken[r.name] THEN MembersOf(r.name) ELSE {}

(* A request comes; who has a Filter has its statistics at once. *)
Invoke(p, r) ==
  /\ req[p] = Nil
  /\ req' = [req EXCEPT ![p] = r]
  /\ \/ UNCHANGED reply
     \/ p \in Keepers /\ r.op = "stats" /\ reply' = [reply EXCEPT ![p] = "ok"]
  /\ phase' = [phase EXCEPT ![p] = IF p \in Keepers /\ reply'[p] = "none" THEN "lost" ELSE "new"]
  /\ sure' = [sure EXCEPT ![p] = Sure(p, r)]
  /\ UNCHANGED <<members, broken>>

(* A request finds the filter it is about. *)
Bind(p, n) ==
  /\ WaitsOn(p, n)
  /\ req[p].op # "create"
  /\ phase[p] = "new"
  /\ members[n] # Nil
  /\ phase' = [phase EXCEPT ![p] = "bound"]
  /\ UNCHANGED <<members, broken, req, sure, reply>>

(* The filter of n, if there is one, gains the items of S. *)
Gain(n, S) ==
  members' = [members EXCEPT ![n] = IF @ = Nil THEN Nil ELSE @ \cup S]

Insert(p, n, S) ==
  /\ WaitsOn(p, n)
  /\ req[p].op = "add"
  /\ phase[p] # "new"
  /\ Gain(n, S)
  /\ UNCHANGED <<broken, req, phase, sure, reply>>

(* A creation makes the filter, or breaks the one that is there. *)
Create(p, n, S) ==
  /\ WaitsOn(p, n)
  /\ req[p].op = "create"
  /\ \/ /\ members' = [members EXCEPT ![n] = MembersOf(n) \cup S]
        /\ UNCHANGED <<broken, sure>>
     \/ /\ Gain(n, S)
        /\ UNCHANGED <<broken, sure>>
     \/ /\ members' = [members EXCEPT ![n] = IF @ = Nil THEN Nil ELSE S]
        /\ broken' = [broken EXCEPT ![n] = TRUE]
        /\ sure' = [q \in Procs |-> IF req[q] # Nil /\ req[q].name = n THEN {} ELSE sure[q]]
  /\ phase' = [phase EXCEPT ![p] = IF @ = "new" THEN "bound" ELSE @]
  /\ UNCHANGED <<req, reply>>

(* A delete takes the filter away, from all who are bound to it. *)
Delete(p, n) ==
  /\ WaitsOn(p, n)
  /\ req[p].op = "delete"
  /\ phase[p] # "new"
  /\ members' = [members EXCEPT ![n] = Nil]
  /\ broken' = [broken EXCEPT ![n] = FALSE]
  /\ phase' = [q \in Procs |-> IF WaitsOn(q, n) /\ phase[q] = "bound" THEN "lost" ELSE phase[q]]
  /\ sure' = [q \in Procs |-> IF req[q] # Nil /\ req[q].name = n THEN {} ELSE sure[q]]
  /\ UNCHANGED <<req, reply>>

(* The request is bound to a filter of which something is promised. *)
Good(p, n) == phase[p] = "bound" /\ ~ broken[n]

(* What an answer must be true of. *)
Truthful(p, n, o) ==
  \/ o = "error"
  \/ o = "exists" /\ req[p].op = "create" /\ members[n] # Nil
  \/ o = "not_found" /\ req[p].op # "create" /\ members[n] = Nil
  \/ o = "ok" /\ req[p].op \in {"create", "stats"} /\ phase[p] # "new"
  \/ o = "ok" /\ req[p].op = "delete" /\ phase[p] = "lost"
  \/ /\ \/ o = "ok" /\ req[p].op = "add"
        \/ o = "present" /\ req[p].op = "exists"
     /\ phase[p] # "new"
     /\ Good(p, n) => req[p].item \in MembersOf(n)
  \/ o = "absent" /\ req[p].op = "exists" /\ phase[p] # "new" /\ req[p].item \notin sure[p]

(* An answer; that of an Add may come with items. *)
Answer(p, n, o, S) ==
  /\ WaitsOn(p, n)
  /\ Truthful(p, n, o)
  /\ reply' = [reply EXCEPT ![p] = o]
  /\ phase' = [phase EXCEPT ![p] = "new"]
  /\ IF req[p].op = "add" THEN Gain(n, S) ELSE UNCHANGED members
  /\ UNCHANGED <<broken, req, sure>>

(* An answer that does not reach the caller. *)
LoseAnswer(p) ==
  /\ reply[p] # "none"
  /\ reply' = [reply EXCEPT ![p] = "error"]
  /\ UNCHANGED <<members, broken, req, phase, sure>>

Return(p) ==
  /\ reply[p] # "none"
  /\ req' = [req EXCEPT ![p] = Nil]
  /\ reply' = [reply EXCEPT ![p] = "none"]
  /\ sure' = [sure EXCEPT ![p] = {}]
  /\ UNCHANGED <<members, broken, phase>>

Answers == {"ok", "exists", "not_found", "error", "present", "absent"}

Next ==
  \E p \in Procs :
    \/ \E r \in Requests : Invoke(p, r)
    \/ \E n \in Names :
         \/ Bind(p, n)
         \/ Delete(p, n)
         \/ \E S \in SUBSET Items :
              \/ Insert(p, n, S)
              \/ Create(p, n, S)
              \/ \E o \in Answers : Answer(p, n, o, S)
    \/ LoseAnswer(p)
    \/ Return(p)

Spec == Init /\ [][Next]_aVars
=============================================================================
