----------------------------- MODULE ServerProofs -----------------------------
(***************************************************************************)
(* Proofs about the server's start and stop: a clean stop loses nothing.   *)
(***************************************************************************)
EXTENDS ServerLifecycle, TLAPS

(* The listener starts once main waits for a signal and is open only until *)
(* srv.Shutdown; past the drain nothing is in flight; up to the flush all  *)
(* that was served is buffered or exported.                                *)
LInv ==
  /\ listener # "none" => main \in {"wait", "shutdown", "draining", "flush", "end"}
  /\ listener = "listening" => main \in {"wait", "shutdown"}
  /\ main \in {"flush", "end"} => inflight = {}
  /\ flush # "no" <=> main = "end"
  /\ flush = "no" => finished \subseteq buffer \cup exported
  /\ flush = "ok" => finished \subseteq exported
  /\ exit = "clean" => main = "end"

(* Every step keeps the invariant.                                         *)
LEMMA LInvStep == LInv /\ [Next]_vars => LInv'
<1> SUFFICES ASSUME LInv, [Next]_vars PROVE LInv'
  OBVIOUS
<1> USE DEF LInv
<1>1. CASE UNCHANGED vars
  BY <1>1 DEF vars
<1>2. ASSUME Alive, Main PROVE LInv'
  <2>1. CASE NotifyContext \/ Setup \/ Connect \/ Spawn
    BY <1>2, <2>1 DEF NotifyContext, Setup, Connect, Spawn, Emit, Alive
  <2>2. CASE AwaitSignal \/ Shutdown
    BY <1>2, <2>2 DEF AwaitSignal, Shutdown, Emit, Alive
  <2>3. CASE Drained \/ DrainTimeout
    BY <1>2, <2>3 DEF Drained, Quiescent, DrainTimeout, Emit, Alive
  <2>4. CASE Flush \/ Stop
    BY <1>2, <2>4 DEF Flush, Stop, Alive
  <2> QED
    BY <1>2, <2>1, <2>2, <2>3, <2>4 DEF Main
<1>3. ASSUME Alive, Listener PROVE LInv'
  <2>1. CASE Listen
    BY <1>3, <2>1 DEF Listen, ShuttingDown, Emit, Alive
  <2>2. CASE ListenerExit
    BY <1>3, <2>2 DEF ListenerExit, Alive
  <2> QED
    BY <1>3, <2>1, <2>2 DEF Listener
<1>4. ASSUME Alive, NEW r \in Requests, Accept(r) \/ Complete(r) PROVE LInv'
  BY <1>4 DEF Accept, Complete, Emit, Alive
<1>5. CASE Alive /\ (ExportBatch \/ Signal)
  BY <1>5 DEF ExportBatch, Signal, Alive
<1> QED
  BY <1>1, <1>2, <1>3, <1>4, <1>5 DEF Next

(* The invariant holds of every reachable state.                           *)
THEOREM Lifecycle == Spec => []LInv
<1>1. Init => LInv
  BY DEF Init, LInv
<1> QED
  BY <1>1, LInvStep, PTL DEF Spec

(* A process that stops cleanly after a successful flush has answered      *)
(* every request it accepted and exported the telemetry of each, for any   *)
(* number of requests and wherever the signals fall (main.go).             *)
THEOREM CleanStop == Spec => []CleanStopLosesNothing
<1>1. LInv => CleanStopLosesNothing
  BY DEF LInv, CleanStopLosesNothing
<1> QED
  BY <1>1, Lifecycle, PTL
=============================================================================
