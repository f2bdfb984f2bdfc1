--------------------------- MODULE ServerLifecycle ---------------------------
(***************************************************************************)
(* One server process from start to exit: cmd/server/main.go with the      *)
(* telemetry providers of internal/obs/provider.go.  Four parties run at   *)
(* once: main, the goroutine in ListenAndServe, the request goroutines of  *)
(* net/http, and the exporters' batch timers; signals arrive at any time.  *)
(* An exporter is configured ("otlp" or "stdout"); with "none" nothing is  *)
(* buffered and there is nothing to lose.                                  *)
(***************************************************************************)
EXTENDS FiniteSets

CONSTANT Requests   \* the requests that may arrive

Messages == {"startup failed", "listening", "shutting down", "server error", "shutdown failed"}

ASSUME LifecycleAssumption == Requests \cap Messages = {}

VARIABLES
  main,      \* what main does next
  exit,      \* how the process ended, "none" while it runs
  ctxDone,   \* whether the context of NotifyContext is cancelled
  caught,    \* whether signals are caught rather than fatal
  listener,  \* the goroutine in ListenAndServe
  inflight,  \* requests being served
  finished,  \* requests served
  buffer,    \* telemetry recorded and not yet exported
  exported,  \* telemetry exported
  flush      \* the outcome of Providers.Shutdown, "no" before it is called

vars == <<main, exit, ctxDone, caught, listener, inflight, finished, buffer, exported, flush>>

Alive == exit = "none"

ProvidersUp == main \notin {"start", "setup_obs"}

(* srv.Shutdown has been called. *)
ShuttingDown == main \in {"draining", "flush", "end"}

Init ==
  /\ main = "start"
  /\ exit = "none"
  /\ ctxDone = FALSE
  /\ caught = FALSE
  /\ listener = "none"
  /\ inflight = {}
  /\ finished = {}
  /\ buffer = {}
  /\ exported = {}
  /\ flush = "no"

(* A span, a data point or a log record of the bridged logger: it goes to  *)
(* the batch processors, and nowhere once they are shut down.              *)
Emit(rs) == buffer' = IF flush = "no" THEN buffer \cup rs ELSE buffer

-----------------------------------------------------------------------------
(* main *)

NotifyContext ==
  /\ main = "start"
  /\ main' = "setup_obs"
  /\ caught' = TRUE
  /\ UNCHANGED <<exit, ctxDone, listener, inflight, finished, buffer, exported, flush>>

(* obs.Setup; its failure is logged to stdout. *)
Setup ==
  /\ main = "setup_obs"
  /\ \/ main' = "connect" /\ UNCHANGED exit
     \/ exit' = "error" /\ UNCHANGED main
  /\ UNCHANGED <<ctxDone, caught, listener, inflight, finished, buffer, exported, flush>>

(* The instruments, the Valkey client and the gauge callback; a failure is *)
(* logged through the providers and ends the process.                      *)
Connect ==
  /\ main = "connect"
  /\ \/ main' = "spawn" /\ UNCHANGED <<exit, buffer>>
     \/ exit' = "error" /\ Emit({"startup failed"}) /\ UNCHANGED main
  /\ UNCHANGED <<ctxDone, caught, listener, inflight, finished, exported, flush>>

Spawn ==
  /\ main = "spawn"
  /\ main' = "wait"
  /\ listener' = "starting"
  /\ UNCHANGED <<exit, ctxDone, caught, inflight, finished, buffer, exported, flush>>

(* <-ctx.Done(), then stop(). *)
AwaitSignal ==
  /\ main = "wait"
  /\ ctxDone
  /\ main' = "shutdown"
  /\ caught' = FALSE
  /\ Emit({"shutting down"})
  /\ UNCHANGED <<exit, ctxDone, listener, inflight, finished, exported, flush>>

(* srv.Shutdown closes the listener, and waits. *)
Shutdown ==
  /\ main = "shutdown"
  /\ main' = "draining"
  /\ listener' = IF listener = "listening" THEN "closed" ELSE listener
  /\ UNCHANGED <<exit, ctxDone, caught, inflight, finished, buffer, exported, flush>>

(* A Shutdown that does not wait, as Close. *)
QuiescentAtOnce == TRUE

Quiescent == inflight = {}

Drained ==
  /\ main = "draining"
  /\ Quiescent
  /\ main' = "flush"
  /\ UNCHANGED <<exit, ctxDone, caught, listener, inflight, finished, buffer, exported, flush>>

(* A drain without a deadline. *)
NoDrainTimeout == FALSE /\ UNCHANGED vars

(* ShutdownTimeout passes with requests still in flight. *)
DrainTimeout ==
  /\ main = "draining"
  /\ inflight # {}
  /\ Emit({"shutdown failed"})
  /\ exit' = "error"
  /\ UNCHANGED <<main, ctxDone, caught, listener, inflight, finished, exported, flush>>

(* providers.Shutdown: the exporters take what is buffered, or the five    *)
(* seconds pass first.                                                     *)
Flush ==
  /\ main = "flush"
  /\ main' = "end"
  /\ \/ flush' = "ok" /\ exported' = exported \cup buffer /\ buffer' = {}
     \/ flush' = "failed" /\ UNCHANGED <<exported, buffer>>
  /\ UNCHANGED <<exit, ctxDone, caught, listener, inflight, finished>>

(* main returns. *)
Stop ==
  /\ main = "end"
  /\ exit' = "clean"
  /\ UNCHANGED <<main, ctxDone, caught, listener, inflight, finished, buffer, exported, flush>>

Main ==
  \/ NotifyContext \/ Setup \/ Connect \/ Spawn \/ AwaitSignal
  \/ Shutdown \/ Drained \/ DrainTimeout \/ Flush \/ Stop

-----------------------------------------------------------------------------
(* the other goroutines, and the operating system *)

(* ListenAndServe binds the port or fails to, or finds the server shutting *)
(* down and returns ErrServerClosed.                                       *)
Listen ==
  /\ listener = "starting"
  /\ IF ShuttingDown
     THEN listener' = "closed" /\ Emit({"listening"})
     ELSE \/ listener' = "listening" /\ Emit({"listening"})
          \/ listener' = "failed" /\ Emit({"listening", "server error"})
  /\ UNCHANGED <<main, exit, ctxDone, caught, inflight, finished, exported, flush>>

(* A goroutine that logs the error and returns. *)
ListenerReturns == listener = "failed" /\ UNCHANGED vars

ListenerExit ==
  /\ listener = "failed"
  /\ exit' = "error"
  /\ UNCHANGED <<main, ctxDone, caught, listener, inflight, finished, buffer, exported, flush>>

Listener == Listen \/ ListenerExit

Accept(r) ==
  /\ listener = "listening"
  /\ r \notin inflight \cup finished
  /\ inflight' = inflight \cup {r}
  /\ UNCHANGED <<main, exit, ctxDone, caught, listener, finished, buffer, exported, flush>>

(* The handler returns through the middleware, which records the request,  *)
(* before the connection counts as idle.                                   *)
Complete(r) ==
  /\ r \in inflight
  /\ inflight' = inflight \ {r}
  /\ finished' = finished \cup {r}
  /\ Emit({r})
  /\ UNCHANGED <<main, exit, ctxDone, caught, listener, exported, flush>>

(* A batch timer: what is buffered goes out. *)
ExportBatch ==
  /\ ProvidersUp
  /\ flush = "no"
  /\ buffer # {}
  /\ exported' = exported \cup buffer
  /\ buffer' = {}
  /\ UNCHANGED <<main, exit, ctxDone, caught, listener, inflight, finished, flush>>

(* SIGINT or SIGTERM. *)
Signal ==
  /\ IF caught THEN ctxDone' = TRUE /\ UNCHANGED exit
     ELSE exit' = "killed" /\ UNCHANGED ctxDone
  /\ UNCHANGED <<main, caught, listener, inflight, finished, buffer, exported, flush>>

Next ==
  /\ Alive
  /\ \/ Main
     \/ Listener
     \/ \E r \in Requests : Accept(r) \/ Complete(r)
     \/ ExportBatch
     \/ Signal

Spec == Init /\ [][Next]_vars

(* main and the listener's goroutine are scheduled, and every call main    *)
(* waits in has a deadline or dials with one; a request may hang for ever. *)
FairSpec == Spec /\ WF_vars(Alive /\ Main) /\ WF_vars(Alive /\ Listener)

-----------------------------------------------------------------------------

(* "Drain the HTTP server first so in-flight requests finish and their     *)
(* spans/metrics are recorded, THEN flush": a process that stops cleanly   *)
(* has answered every request it accepted and exported the telemetry of    *)
(* each, whenever the signal came (main.go, Providers.Shutdown).           *)
CleanStopLosesNothing ==
  exit = "clean" /\ flush = "ok" => inflight = {} /\ finished \subseteq exported

(* A signal, even one that comes during start-up, ends the process in the  *)
(* end, however long requests hang (ShutdownTimeout).                      *)
StopIsBounded == ctxDone ~> ~ Alive

(* A server that cannot listen does not linger without a port.             *)
ListenFailureStops == listener = "failed" ~> ~ Alive
=============================================================================
