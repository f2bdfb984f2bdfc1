------------------------------ MODULE FilterApi ------------------------------
(***************************************************************************)
(* The HTTP API around the filters of BloomFilter: every process is a      *)
(* goroutine that net/http gives one request at a time.  A request passes  *)
(* the middlewares of router.go, is answered by one of them, by the        *)
(* generated router or by a handler, and passes the middlewares' second    *)
(* halves in the reverse order.  What a goroutine does on the way in is    *)
(* part of the step that receives the request, what it does on the way out *)
(* part of the step that answers it.                                       *)
(*                                                                         *)
(* A store call may hang: nothing here says that the store answers.        *)
(***************************************************************************)
EXTENDS FilterRefinement

VARIABLES
  call,      \* the HTTP request each process has, Nil when it has none
  panicked,  \* whether its handler panicked
  sent       \* what its last request left: the response, the log line, the metrics

apiVars == <<call, panicked, sent>>

-----------------------------------------------------------------------------

(* Recovery before the logger and the metrics. *)
ChainRecoveryFirst ==
  <<"otelgin", "recoveryHandler", "CorrelationID", "HTTPMetrics", "RequestLogger",
    "Timeout", "BodyLimit">>

(* Requests without a deadline. *)
ChainNoTimeout ==
  <<"otelgin", "CorrelationID", "HTTPMetrics", "RequestLogger", "recoveryHandler", "BodyLimit">>

(* The middlewares in the order NewRouter installs them, outermost first.  *)
Chain ==
  <<"otelgin", "CorrelationID", "HTTPMetrics", "RequestLogger", "recoveryHandler",
    "Timeout", "BodyLimit">>

Installed(m) == \E i \in DOMAIN Chain : Chain[i] = m

(* Middleware m runs inside middleware o: after its first half and before  *)
(* its second.                                                             *)
Inside(m, o) == \E i, j \in DOMAIN Chain : j < i /\ Chain[i] = m /\ Chain[j] = o

(* The second half of middleware m runs unless a panic passes through it.  *)
Resumes(p, m) == panicked[p] => Inside("recoveryHandler", m)

(* The correlation id: that of the trace otelgin started, the one the      *)
(* client gave, or a new one.                                              *)
CorrelationID(traced, given) ==
  IF traced /\ Inside("CorrelationID", "otelgin") THEN "trace"
  ELSE IF given THEN "client" ELSE "fresh"

(* What is answered without a call of the service: the liveness probe, a   *)
(* path no route matches, and a request that the generated wrapper, the    *)
(* validator or the binding of its body refuses.                           *)
AtOnce == [healthz |-> 200, unmatched |-> 404, malformed |-> 400]

Routes == DOMAIN AtOnce \cup {"readyz", "filters"}

Calls == [route : Routes, traced : BOOLEAN, id : {"trace", "client", "fresh"},
          status : {Nil, 200, 400, 404, 503}]

ASSUME ApiAssumption == Embedders = {} /\ Nil \notin Calls

(* A request for a route arrives; its status if that is settled already.   *)
Receive(p, route, status) ==
  /\ call[p] = Nil
  /\ \E traced, given \in BOOLEAN :
       call' = [call EXCEPT ![p] =
         [route |-> route, traced |-> traced, id |-> CorrelationID(traced, given),
          status |-> status]]
  /\ sent' = [sent EXCEPT ![p] = Nil]
  /\ UNCHANGED panicked

AnswerAtOnce(p) ==
  /\ \E route \in DOMAIN AtOnce : Receive(p, route, AtOnce[route])
  /\ UNCHANGED vars

(* A well-formed request on a filter: the handler calls the service. *)
Admit(p) ==
  /\ Receive(p, "filters", Nil)
  /\ BeginCreate(p) \/ BeginItemOp(p) \/ BeginNameOp(p)

(* The readiness probe calls Ping of the store. *)
Readyz(p) ==
  /\ Receive(p, "readyz", Nil)
  /\ UNCHANGED vars

Pinging(p) == call[p] # Nil /\ call[p].route = "readyz" /\ call[p].status = Nil

Settle(p, status) ==
  /\ Pinging(p)
  /\ call' = [call EXCEPT ![p].status = status]
  /\ UNCHANGED <<vars, panicked, sent>>

Pong(p) == Settle(p, 200)

-----------------------------------------------------------------------------

(* A store command of the request. *)
Command(p) ==
  /\ CreateStep(p) \/ LoadStep(p) \/ AddStep(p) \/ ExistsStep(p) \/ DropStep(p)
  /\ UNCHANGED apiVars

(* A store call fails, or its reply is lost. *)
CallFails(p) ==
  \/ Fail(p) /\ UNCHANGED apiVars
  \/ p \in FaultProne /\ Settle(p, 503)

(* The deadline of the request's context passes during a store call.       *)
Expire(p) ==
  /\ Installed("Timeout")
  /\ \/ pc[p] # "done" /\ Fail(p) /\ UNCHANGED apiVars
     \/ p \in FaultProne /\ Settle(p, 503)

(* A store call of the service panics.                                     *)
Panic(p) ==
  /\ pc[p] # "done"
  /\ Fail(p)
  /\ panicked' = [panicked EXCEPT ![p] = TRUE]
  /\ UNCHANGED <<call, sent>>

-----------------------------------------------------------------------------

(* The two sentinels confused. *)
errorToHTTPSwapped == [exists |-> 404, not_found |-> 409, error |-> 500]

(* The error of the service and its status; the validator in front leaves  *)
(* ErrInvalidArgument no cause but a p_i that underflows to 0.             *)
errorToHTTP == [exists |-> 409, not_found |-> 404, error |-> 500]

SuccessStatus == [create |-> 201, add |-> 200, exists |-> 200, stats |-> 200, delete |-> 204]

(* The handler has returned or panicked. *)
Answered(p) == call[p] # Nil /\ (call[p].status # Nil \/ pc[p] = "done")

(* The status the client gets; none when a panic reaches net/http.         *)
Status(p) ==
  IF call[p].status # Nil THEN call[p].status
  ELSE IF panicked[p] THEN IF Installed("recoveryHandler") THEN 500 ELSE Nil
  ELSE IF res[p] \in DOMAIN errorToHTTP THEN errorToHTTP[res[p]]
  ELSE SuccessStatus[req[p].op]

(* finishSpan counts the operation by the error the service returns, which *)
(* is none when it panics.                                                 *)
OpPoint(p) ==
  IF call[p].route # "filters" THEN Nil
  ELSE [op |-> req[p].op, ok |-> panicked[p] \/ res[p] \notin DOMAIN errorToHTTP]

(* Add of the service counts the item before it knows of any error. *)
ItemsPointEarly(p) == call[p].route = "filters" /\ req[p].op = "add"

(* Whether items_added goes up: when the filter's Add succeeded. *)
ItemsPoint(p) == call[p].route = "filters" /\ req[p].op = "add" /\ res[p] = "ok"

(* The envelope and the X-Correlation-ID header have the request's id, the *)
(* log line the one that the logger was made with.                         *)
Response(p) ==
  [status |-> Status(p), id |-> call[p].id, traced |-> call[p].traced,
   panicked |-> panicked[p], op |-> OpPoint(p), items |-> ItemsPoint(p),
   line |-> IF Resumes(p, "RequestLogger")
            THEN [status |-> Status(p),
                  id |-> IF Inside("RequestLogger", "CorrelationID") THEN call[p].id ELSE Nil]
            ELSE Nil,
   point |-> IF Resumes(p, "HTTPMetrics") THEN Status(p) ELSE Nil]

(* The response goes out, the line to the log and the points to the meter. *)
Respond(p) ==
  /\ Answered(p)
  /\ IF call[p].route = "filters" THEN Return(p) ELSE UNCHANGED vars
  /\ call' = [call EXCEPT ![p] = Nil]
  /\ sent' = [sent EXCEPT ![p] = Response(p)]
  /\ panicked' = [panicked EXCEPT ![p] = FALSE]

-----------------------------------------------------------------------------

ApiInit ==
  /\ Init
  /\ call = [p \in Procs |-> Nil]
  /\ panicked = [p \in Procs |-> FALSE]
  /\ sent = [p \in Procs |-> Nil]

ApiNext ==
  \E p \in Procs :
    \/ AnswerAtOnce(p) \/ Admit(p) \/ Readyz(p)
    \/ Pong(p) \/ Command(p)
    \/ CallFails(p) \/ Expire(p) \/ Panic(p)
    \/ Respond(p)

ApiSpec == ApiInit /\ [][ApiNext]_<<vars, apiVars>>

(* Timers fire and handlers return; no store call has to return by itself. *)
ApiFairSpec ==
  /\ ApiSpec
  /\ \A p \in Procs : WF_<<vars, apiVars>>(Expire(p)) /\ WF_<<vars, apiVars>>(Respond(p))

-----------------------------------------------------------------------------

(* The client's reading of the status and of "exists" in the body. *)
ReplyOf(p) ==
  LET s == Status(p)
  IN  CASE s = 409 -> "exists"
        [] s = 404 -> "not_found"
        [] s \in {200, 201, 204} -> IF req[p].op = "exists" THEN res[p] ELSE "ok"
        [] OTHER -> "error"

httpReply == [p \in Procs |-> IF pc[p] = "done" THEN ReplyOf(p) ELSE "none"]

ApiSet == INSTANCE ApproximateSet WITH
  Keepers <- Embedders, members <- setMembers, broken <- clobbered,
  phase <- setPhase, sure <- setSure, reply <- httpReply

(* To HTTP clients, too, a filter is a set that loses no item: 404 and 409 *)
(* are true at some time during the request, 201 and 204 are given only    *)
(* for what was done, an Add answered 200 is in the set and an item        *)
(* answered "exists": false was not there when the request came, through   *)
(* failures, deadlines and panics (handler.go, service.go mapErr).         *)
ApiImplementsSet == ApiSet!Spec

(* "Order matters": whatever answers a request, and also when a handler    *)
(* panics, the client gets a response, the log line and the metric point   *)
(* have its status, and the log line, the header and the body have one id, *)
(* that of the trace where there is one (router.go NewRouter,              *)
(* middleware.go).                                                         *)
ResponsesAccounted ==
  \A p \in Procs : sent[p] # Nil =>
    /\ sent[p].status # Nil
    /\ sent[p].line = [status |-> sent[p].status, id |-> sent[p].id]
    /\ sent[p].point = sent[p].status
    /\ sent[p].traced => sent[p].id = "trace"

(* The counters of the service tell what the clients were told: an         *)
(* operation counts as a success if and only if its status is below 400,   *)
(* and an item as added if and only if its Add was answered 200, though    *)
(* the service counts before the handler picks the status.  The exception  *)
(* is a panic, which finishSpan counts as a success (service.go            *)
(* finishSpan, Add).                                                       *)
CountersMatchResponses ==
  \A p \in Procs : sent[p] # Nil /\ sent[p].op # Nil =>
    /\ ~ sent[p].panicked => (sent[p].op.ok <=> sent[p].status < 400)
    /\ sent[p].items <=> sent[p].op.op = "add" /\ sent[p].status = 200

(* "so a slow Valkey can't hang a handler": every request is answered,     *)
(* though store calls may hang, fail or panic (middleware.go Timeout).     *)
RequestsAnswered == \A p \in FaultProne : call[p] # Nil ~> call[p] = Nil
=============================================================================
