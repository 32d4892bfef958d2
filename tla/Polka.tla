------------------------------- MODULE Polka --------------------------------
(***************************************************************************)
(* The HTTP pipeline of packages/polka/src: what happens to a request from *)
(* the moment the application has its routes, through the middlewares of   *)
(* its route, to the response or to the error nobody catches.              *)
(*                                                                         *)
(* A request runs without a pause up to the next await, so the outcomes of *)
(* the stages between two awaits are a set of records the request may      *)
(* become (Parsing, Authenticating, Handling, ...).  polka 0.5 calls the   *)
(* middlewares and does not look at the promises they return.  External:   *)
(* the functions of the application, which may fulfil or reject, the       *)
(* rate limiter with its counter in Redis, and serve-static.               *)
(***************************************************************************)
EXTENDS Integers, FiniteSets

CONSTANTS
  Requests,       \* the requests that come in
  Routes,         \* the targets of requests: what a route configures
  Limit,          \* rateLimit.limit of a route that has one
  MaxWindows      \* bound: windows of the rate limiter

ASSUME RoutesAssumption ==
  /\ Routes \subseteq [kind : {"route", "static", "unmatched"}, serde : BOOLEAN,
                       authentication : BOOLEAN, ctx : BOOLEAN,
                       rateLimit : BOOLEAN, schema : BOOLEAN]
  /\ IsFiniteSet(Requests)
  /\ Limit \in Nat
  /\ MaxWindows \in Nat

VARIABLES
  request,        \* the state of each request
  hits,           \* points consumed in the window, for the key of each route
  window,         \* the number of the window, for the key of each route
  newrelic,       \* the newrelic module is loaded
  noMatchHandler, \* the application registered noMatch()
  stopping,       \* the context was told to dispose(1)
  exited

polkaVars == <<request, hits, window, newrelic, noMatchHandler, stopping, exited>>

-----------------------------------------------------------------------------
(* Errors.  A fault names the stage that failed and what it failed with.   *)
(* "denied" and "refused" are ResponseErrors of authentication and of the  *)
(* controller, "mute" is one whose details cannot be serialised; "invalid" *)
(* is a ZodError, "schema" any other failure of a schema, of which         *)
(* fromZodError makes an exception of its own.  "falsy" is a failure with  *)
(* a falsy value, which is no error for polka's next().                    *)

StageFaults ==
  {"body", "denied", "session", "ctx", "count", "limited", "store", "invalid", "schema"}
ControllerFaults == {"refused", "mute", "controller", "unsendable"}
StaticFaults == {"file", "nomatch", "stream"}
Faults == StageFaults \cup ControllerFaults \cup StaticFaults

OK == 200
CREATED == 201          \* stands for the status of the controller's response
BAD_REQUEST == 400
FORBIDDEN == 403        \* stands for the status of the application's ResponseErrors
TOO_MANY_REQUESTS == 429
INTERNAL_SERVER_ERROR == 500
NOT_IMPLEMENTED == 501
NoStatus == 0
Statuses == {NoStatus, OK, CREATED, BAD_REQUEST, FORBIDDEN, TOO_MANY_REQUESTS,
             INTERNAL_SERVER_ERROR, NOT_IMPLEMENTED}

(* What is thrown as a ResponseError carries its own status. *)
IsResponseError(fault) ==
  fault \in {"denied", "refused", "mute", "limited", "store", "invalid"}

StatusCode(fault) ==
  CASE fault \in {"limited", "store"} -> TOO_MANY_REQUESTS
    [] fault = "invalid" -> BAD_REQUEST
    [] OTHER -> FORBIDDEN

(* send(): the status line and the body go out together, once.             *)
Sent(rq, status) == [rq EXCEPT !.pc = "answered", !.status = status]

(* onError.  Both branches read req.trace, and sending the details of a    *)
(* ResponseError serialises them, so it may throw itself.  Called from     *)
(* an async middleware that makes its promise reject; called from a        *)
(* callback (sync) the exception is nobody's.                              *)
OnErrorSwallows(rq, fault, sync) ==          \* mutant: a failing send is ignored
  IF fault # "mute" /\ rq.traced
  THEN [Sent(rq, IF IsResponseError(fault) THEN StatusCode(fault)
                                           ELSE INTERNAL_SERVER_ERROR) EXCEPT !.fault = fault]
  ELSE [rq EXCEPT !.pc = "dropped", !.fault = fault]

OnError(rq, fault, sync) ==
  LET failed == [rq EXCEPT !.fault = fault] IN
  IF fault = "mute" \/ ~rq.traced
  THEN [failed EXCEPT !.pc = IF sync THEN "thrown" ELSE "rejected"]
  ELSE Sent(failed, IF IsResponseError(fault) THEN StatusCode(fault)
                                              ELSE INTERNAL_SERVER_ERROR)

-----------------------------------------------------------------------------
(* The stages of a route.  Each is the set of what a request may become    *)
(* when it is entered: it waits, it has an answer, or its promise rejected. *)

Calling(rq) == {[rq EXCEPT !.pc = "controller", !.called = TRUE]}

Validating(rq) ==
  Calling(rq) \cup
    (IF rq.route.schema THEN {OnError(rq, fault, FALSE) : fault \in {"invalid", "schema"}} ELSE {})

(* The handler calls next() with a falsy value that its try block caught:  *)
(* it is the last middleware, so that nothing is called, and nobody        *)
(* answers.                                                                *)
Hanging(rq) == [rq EXCEPT !.pc = "hanging", !.fault = "falsy"]

(* The point is consumed under the key that count() returns, or throws     *)
(* for.  One key for each route.                                           *)
Limiting(rq) ==
  IF rq.route.rateLimit
  THEN {[rq EXCEPT !.pc = "consuming"], OnError(rq, "count", FALSE), Hanging(rq)}
  ELSE Validating(rq)

(* The context function runs before the try block of the handler. *)
Handling(rq) ==
  Limiting(rq) \cup
    (IF rq.route.ctx THEN {[rq EXCEPT !.pc = "rejected", !.fault = "ctx"]} ELSE {})

Authenticating(rq) ==
  IF rq.route.authentication THEN {[rq EXCEPT !.pc = "authenticating"]} ELSE Handling(rq)

Parsing(rq) ==
  IF rq.route.serde THEN {[rq EXCEPT !.pc = "parsing"]} ELSE Authenticating(rq)

(* reqEnricher: from here on the request has a trace. *)
Enriching(rq) == Parsing([rq EXCEPT !.traced = TRUE])

(* onNoMatch: 501, or the promise of the handler, which nobody looks at.    *)
NotMatching(rq) ==
  IF noMatchHandler THEN {[rq EXCEPT !.pc = "nomatch"]} ELSE {Sent(rq, NOT_IMPLEMENTED)}

Receiving(rq) ==
  CASE rq.route.kind = "route" -> Enriching(rq)
    [] rq.route.kind = "static" -> {[rq EXCEPT !.pc = "serving"]}
    [] rq.route.kind = "unmatched" -> NotMatching(rq)

-----------------------------------------------------------------------------
(* What a step of request r does to the process.  A rejection nobody       *)
(* handles becomes an uncaught exception unless newrelic listens to it; an *)
(* uncaught exception makes the context dispose(1).                        *)
StopsProcessAlways(rq) == rq.pc \in {"thrown", "rejected"}      \* mutant: no listener

StopsProcess(rq) == rq.pc = "thrown" \/ (rq.pc = "rejected" /\ ~newrelic)

Becomes(r, rq) ==
  /\ request' = [request EXCEPT ![r] = rq]
  /\ stopping' = (stopping \/ StopsProcess(rq))

Rest == <<hits, window, newrelic, noMatchHandler, exited>>

At(r, pc) == ~exited /\ request[r].pc = pc

Proceeds(r, outcomes) ==
  /\ \E rq \in outcomes : Becomes(r, rq)
  /\ UNCHANGED Rest

Fails(r, fault, sync) == Proceeds(r, {OnError(request[r], fault, sync)})

-----------------------------------------------------------------------------
NoRoute == [kind |-> "unmatched", serde |-> FALSE, authentication |-> FALSE, ctx |-> FALSE,
            rateLimit |-> FALSE, schema |-> FALSE]

NewRequest(route) ==
  [pc |-> "sent", route |-> route, traced |-> FALSE, called |-> FALSE,
   fault |-> "none", status |-> NoStatus, window |-> 0]

Init ==
  /\ request = [r \in Requests |-> [NewRequest(NoRoute) EXCEPT !.pc = "none"]]
  /\ hits = [route \in Routes |-> 0]
  /\ window = [route \in Routes |-> 0]
  /\ newrelic \in BOOLEAN
  /\ noMatchHandler \in BOOLEAN
  /\ stopping = FALSE
  /\ exited = FALSE

(* A client sends a request; the server's `request' event runs the         *)
(* handler of the application up to its first await.                       *)
Send(r, route) ==
  /\ At(r, "none")
  /\ request' = [request EXCEPT ![r] = NewRequest(route)]
  /\ UNCHANGED <<stopping, Rest>>

Receive(r) == At(r, "sent") /\ Proceeds(r, Receiving(request[r]))

(* A body parser calls next from the events of the request's stream. *)
Parsed(r) == At(r, "parsing") /\ Proceeds(r, Authenticating(request[r]))

BodyFails(r) == At(r, "parsing") /\ Fails(r, "body", TRUE)

Authenticated(r) == At(r, "authenticating") /\ Proceeds(r, Handling(request[r]))

AuthenticationFailsOpen(r, fault) ==      \* mutant: next() where next(err) is due
  /\ At(r, "authenticating")
  /\ fault \in {"denied", "session", "mute"}
  /\ Proceeds(r, Handling([request[r] EXCEPT !.fault = fault]))

(* authentication rejects with a falsy value: next() calls the handler, as *)
(* if it had fulfilled.                                                    *)
AuthenticationFailsFalsy(r) == At(r, "authenticating") /\ Proceeds(r, Handling(request[r]))

AuthenticationFails(r, fault) ==
  /\ At(r, "authenticating")
  /\ fault \in {"denied", "session", "mute"}
  /\ Fails(r, fault, FALSE)

(* The rate limiter counts the point in Redis; its reply comes later, or   *)
(* the connection fails, before or after the point was counted.            *)
Consume(r) ==
  LET route == request[r].route IN
  /\ At(r, "consuming")
  /\ hits' = [hits EXCEPT ![route] = @ + 1]
  /\ request' = [request EXCEPT ![r].pc = IF hits[route] < Limit THEN "admitted" ELSE "over",
                                ![r].window = window[route]]
  /\ UNCHANGED <<window, newrelic, noMatchHandler, stopping, exited>>

NextWindow(route) ==
  /\ ~exited
  /\ hits[route] > 0
  /\ window[route] < MaxWindows
  /\ hits' = [hits EXCEPT ![route] = 0]
  /\ window' = [window EXCEPT ![route] = @ + 1]
  /\ UNCHANGED <<request, newrelic, noMatchHandler, stopping, exited>>

Admitted(r) == At(r, "admitted") /\ Proceeds(r, Validating(request[r]))

RefusedGoesOn(r) ==      \* mutant: the catch answers and does not throw
  At(r, "over") /\ Proceeds(r, Validating([request[r] EXCEPT !.status = TOO_MANY_REQUESTS]))

Refused(r) == At(r, "over") /\ Fails(r, "limited", FALSE)

StoreFails(r) ==
  /\ At(r, "consuming") \/ At(r, "admitted") \/ At(r, "over")
  /\ Fails(r, "store", FALSE)

-----------------------------------------------------------------------------
(* The controller's promise.  A stream is piped: the status of the         *)
(* response is not used, and an error of the stream has no listener.       *)
ControllerReturns(r) == At(r, "controller") /\ Proceeds(r, {Sent(request[r], CREATED)})

ControllerStreams(r) ==
  At(r, "controller") /\ Proceeds(r, {[request[r] EXCEPT !.pc = "piping"]})

ControllerFails(r, fault) ==
  /\ At(r, "controller")
  /\ fault \in ControllerFaults
  /\ Fails(r, fault, FALSE)

ControllerFailsFalsy(r) == At(r, "controller") /\ Proceeds(r, {Hanging(request[r])})

StreamEnds(r) == At(r, "piping") /\ Proceeds(r, {Sent(request[r], OK)})

StreamFails(r) ==
  At(r, "piping") /\ Proceeds(r, {[request[r] EXCEPT !.pc = "thrown", !.fault = "stream"]})

NoMatchReturns(r) == At(r, "nomatch") /\ Proceeds(r, {Sent(request[r], CREATED)})

NoMatchStreams(r) ==
  At(r, "nomatch") /\ Proceeds(r, {[request[r] EXCEPT !.pc = "piping"]})

NoMatchFails(r) ==
  At(r, "nomatch") /\ Proceeds(r, {[request[r] EXCEPT !.pc = "rejected", !.fault = "nomatch"]})

(* app.static(): the file, the next handler, or an error that serve-static *)
(* forwards; no route has given the request a trace.                       *)
FileServed(r) == At(r, "serving") /\ Proceeds(r, {Sent(request[r], OK)})

FileMissing(r) == At(r, "serving") /\ Proceeds(r, NotMatching(request[r]))

FileFails(r) == At(r, "serving") /\ Fails(r, "file", TRUE)

(* The context has disposed its modules, or its timer fired. *)
ProcessExits ==
  /\ stopping
  /\ ~exited
  /\ exited' = TRUE
  /\ UNCHANGED <<request, hits, window, newrelic, noMatchHandler, stopping>>

-----------------------------------------------------------------------------
ControllerStep(r) ==
  \/ ControllerReturns(r)
  \/ ControllerStreams(r)
  \/ \E fault \in ControllerFaults : ControllerFails(r, fault)
  \/ ControllerFailsFalsy(r)

(* The steps of a request that are not its client's and not its controller's. *)
PipelineStep(r) ==
  \/ Receive(r)
  \/ Parsed(r) \/ BodyFails(r)
  \/ Authenticated(r) \/ AuthenticationFailsFalsy(r)
  \/ \E fault \in Faults : AuthenticationFails(r, fault)
  \/ Consume(r) \/ Admitted(r) \/ Refused(r) \/ StoreFails(r)
  \/ StreamEnds(r) \/ StreamFails(r)
  \/ NoMatchReturns(r) \/ NoMatchStreams(r) \/ NoMatchFails(r)
  \/ FileServed(r) \/ FileMissing(r) \/ FileFails(r)

EnvironmentStep ==
  \/ \E r \in Requests, route \in Routes : Send(r, route)
  \/ \E route \in Routes : NextWindow(route)
  \/ ProcessExits

Next ==
  \/ EnvironmentStep
  \/ \E r \in Requests : PipelineStep(r) \/ ControllerStep(r)

Spec == Init /\ [][Next]_polkaVars

-----------------------------------------------------------------------------
RequestRecord ==
  [pc : {"none", "sent", "parsing", "authenticating", "consuming", "admitted", "over",
         "controller", "piping", "nomatch", "serving", "hanging", "answered", "rejected", "thrown"},
   route : Routes \cup {NoRoute}, traced : BOOLEAN, called : BOOLEAN,
   fault : Faults \cup {"none", "falsy"}, status : Statuses, window : Nat]

(* Every variable has its type.                                            *)
TypeOK ==
  /\ request \in [Requests -> RequestRecord]
  /\ hits \in [Routes -> Nat]
  /\ window \in [Routes -> Nat]
  /\ newrelic \in BOOLEAN
  /\ noMatchHandler \in BOOLEAN
  /\ stopping \in BOOLEAN
  /\ exited \in BOOLEAN

(* Of the requests whose points were counted in one window of the rate     *)
(* limiter, at most `limit' reach the controller, however they interleave. *)
LimitKept ==
  \A route \in Routes : \A w \in 0 .. window[route] :
    route.rateLimit =>
      Cardinality({r \in Requests : /\ request[r].route = route
                                    /\ request[r].window = w
                                    /\ request[r].called}) <= Limit

(* What the stages a request went through make of it.                      *)
Decided(rq) ==
  /\ rq.fault \in StageFaults => ~rq.called
  /\ rq.route.kind = "route" /\ rq.status = CREATED => rq.called
  /\ rq.pc = "hanging" <=> rq.fault = "falsy"
  /\ rq.fault = "falsy" => rq.status = NoStatus
  /\ rq.pc = "answered" =>
       /\ rq.fault = "none" => rq.status \in {OK, CREATED, NOT_IMPLEMENTED}
       /\ rq.fault \in {"denied", "refused"} => rq.status = FORBIDDEN
       /\ rq.fault = "invalid" => rq.status = BAD_REQUEST
       /\ rq.fault \in {"limited", "store"} => rq.status = TOO_MANY_REQUESTS
       /\ rq.fault \in {"body", "session", "count", "schema", "controller", "unsendable"}
            => rq.status = INTERNAL_SERVER_ERROR
       /\ rq.fault \notin {"ctx", "mute", "file", "nomatch", "stream"}

(* A stage that fails with an error ends the pipeline and decides the      *)
(* answer: the controller is never called, and the status is the           *)
(* application's own for its ResponseErrors, 400 for what the schema       *)
(* refuses, 429 for the rate limiter, also when its store failed, and 500  *)
(* otherwise, a schema that fails by itself included (onError, handler).   *)
(* A request answered as its controller wished has passed every stage.  A  *)
(* failure with a falsy value is the exception: of authentication it is    *)
(* taken for success and the controller may be called, of the controller   *)
(* or of rateLimit.count it leaves the request without an answer, which    *)
(* nothing else does.                                                      *)
StageDecides == \A r \in Requests : Decided(request[r])

(* Every request is answered once or its error reaches the process, and    *)
(* only such an error stops the process, with newrelic only an exception   *)
(* that was thrown outside of every promise: see Responder.                *)
Outcome(pc) == IF pc \in {"none", "answered", "rejected", "thrown"} THEN pc ELSE "open"

R == INSTANCE Responder WITH
       Answers <- Statuses \ {NoStatus},
       NoAnswer <- NoStatus,
       state <- [r \in Requests |-> Outcome(request[r].pc)],
       answer <- [r \in Requests |-> request[r].status],
       tolerant <- newrelic,
       stops <- stopping,
       over <- exited

ImplementsResponder == R!RSpec

(* The functions of the application, Redis and the streams settle; then    *)
(* every request that came in is answered or reported, unless the process  *)
(* exits first, or the request is left hanging: only its handler does      *)
(* that, with a falsy value for its failure.                               *)
Ended(r) == request[r].pc \in {"answered", "rejected", "thrown"}

LeftHanging(r) == request[r].fault = "falsy"

EveryRequestEnds ==
  \A r \in Requests : (request[r].pc = "sent") ~> (Ended(r) \/ LeftHanging(r) \/ exited)
=============================================================================
