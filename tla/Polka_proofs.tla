---------------------------- MODULE Polka_proofs ----------------------------
(***************************************************************************)
(* Theorems about Polka, for any requests, routes and limit.               *)
(***************************************************************************)
EXTENDS Polka, FiniteSetTheorems, TLAPS

(* What can be said of one request: it has a status when it is answered    *)
(* and only then, it has a fault only when it has ended, its controller is *)
(* called in its turn, and the answer is the one of the stage that failed. *)
Early ==
  {"none", "sent", "parsing", "authenticating", "consuming", "admitted", "over", "nomatch",
   "serving"}
Waits == Early \cup {"controller", "piping"}

RequestOK(rq) ==
  /\ rq \in RequestRecord
  /\ Decided(rq)
  /\ rq.pc \in Waits => rq.fault = "none"
  /\ rq.pc = "answered" <=> rq.status # NoStatus
  /\ rq.pc \in Early => ~rq.called
  /\ rq.pc = "controller" => rq.called
  /\ rq.pc \in {"nomatch", "serving"} => rq.route.kind # "route"
  /\ rq.pc \in {"parsing", "authenticating", "consuming", "admitted", "over"}
       => rq.route.kind = "route"
  /\ rq.pc = "serving" => ~rq.traced
  /\ rq.pc # "none" => rq.route \in Routes

(* A request takes part in the count of its rate limiter once its point    *)
(* was granted.  GoesTo relates a request to what a step makes of it.      *)
Granted(rq) == rq.route.rateLimit /\ (rq.called \/ rq.pc = "admitted")

GoesTo(rq, x) ==
  /\ RequestOK(x)
  /\ x.pc \notin {"none", "sent"}
  /\ x.route = rq.route
  /\ x.window = rq.window
  /\ Granted(x) => Granted(rq)

-----------------------------------------------------------------------------
(* What the operators of the pipeline make of a request.                   *)
LEMMA OnErrorOK ==
  ASSUME NEW rq, RequestOK(rq), rq.pc \in Waits \ {"none"}, NEW fault \in Faults,
         NEW sync \in BOOLEAN,
         fault \in StageFaults => ~rq.called,
         fault \in {"ctx", "file", "nomatch", "stream"} => ~rq.traced
  PROVE  GoesTo(rq, OnError(rq, fault, sync))
<1> DEFINE status == IF IsResponseError(fault) THEN StatusCode(fault)
                                              ELSE INTERNAL_SERVER_ERROR
           failed == [rq EXCEPT !.fault = fault]
           answered == Sent(failed, status)
           lost(pc) == [failed EXCEPT !.pc = pc]
<1>1. rq \in RequestRecord /\ rq.status = NoStatus /\ rq.route \in Routes
  BY DEF RequestOK, RequestRecord, Waits, Early
<1>2. status \in {FORBIDDEN, BAD_REQUEST, TOO_MANY_REQUESTS, INTERNAL_SERVER_ERROR}
  BY DEF StatusCode
<1>3. /\ failed \in RequestRecord /\ failed.fault = fault
      /\ failed.called = rq.called /\ failed.route = rq.route /\ failed.status = NoStatus
      /\ failed.window = rq.window
  BY <1>1 DEF RequestRecord
<1> HIDE DEF failed
<1>4. CASE fault = "mute" \/ ~rq.traced
  <2>1. OnError(rq, fault, sync) = lost(IF sync THEN "thrown" ELSE "rejected")
    BY <1>4 DEF OnError, failed
  <2>2. ASSUME NEW pc \in {"thrown", "rejected"} PROVE GoesTo(rq, lost(pc))
    <3>1. lost(pc) \in RequestRecord /\ lost(pc).fault = fault /\ lost(pc).pc = pc
      BY <1>3 DEF RequestRecord
    <3>2. /\ lost(pc).status = NoStatus /\ lost(pc).called = rq.called
          /\ lost(pc).route = rq.route /\ lost(pc).window = rq.window
      BY <1>3 DEF RequestRecord
    <3> HIDE DEF lost
    <3>3. Decided(lost(pc))
      BY <3>1, <3>2 DEF Decided, NoStatus, CREATED, Faults, StageFaults, ControllerFaults,
         StaticFaults
    <3> QED BY <1>1, <3>1, <3>2, <3>3 DEF GoesTo, Granted, RequestOK, Waits, Early
  <2> HIDE DEF lost
  <2>3. (IF sync THEN "thrown" ELSE "rejected") \in {"thrown", "rejected"} OBVIOUS
  <2> QED BY <2>1, <2>2, <2>3
<1>5. CASE ~(fault = "mute" \/ ~rq.traced)
  <2>1. OnError(rq, fault, sync) = answered
    BY <1>5 DEF OnError, failed
  <2>2. /\ answered \in RequestRecord /\ answered.fault = fault /\ answered.pc = "answered"
        /\ answered.status = status
    BY <1>3, <1>2 DEF RequestRecord, Statuses, Sent
  <2>3. /\ answered.called = rq.called /\ answered.route = rq.route
        /\ answered.window = rq.window
    BY <1>3 DEF RequestRecord, Sent
  <2>4. fault \notin {"ctx", "mute", "file", "nomatch", "stream"} BY <1>5
  <2> HIDE DEF answered
  <2>5. status # CREATED /\ status # NoStatus
    BY <1>2 DEF NoStatus, CREATED, BAD_REQUEST, FORBIDDEN, TOO_MANY_REQUESTS,
                INTERNAL_SERVER_ERROR
  <2>6. Decided(answered)
    BY <2>2, <2>3, <2>4, <2>5 DEF Decided, StatusCode, IsResponseError, Faults, StageFaults,
       ControllerFaults, StaticFaults
  <2> QED
    BY <1>1, <2>1, <2>2, <2>3, <2>5, <2>6 DEF GoesTo, Granted, RequestOK, Waits, Early
<1> QED BY <1>4, <1>5

(* A step that gives a request without an answer another place in the     *)
(* pipeline, outside of the error paths.                                   *)
LEMMA MovedOK ==
  ASSUME NEW rq, RequestOK(rq), rq.pc \in Early \ {"none"}, NEW pc,
         pc \in {"parsing", "authenticating", "consuming", "serving", "nomatch"},
         pc \in {"nomatch", "serving"} => rq.route.kind # "route",
         pc \in {"parsing", "authenticating", "consuming"} => rq.route.kind = "route",
         pc = "serving" => ~rq.traced
  PROVE  GoesTo(rq, [rq EXCEPT !.pc = pc])
<1> DEFINE x == [rq EXCEPT !.pc = pc]
<1>1. /\ rq \in RequestRecord /\ rq.status = NoStatus /\ rq.fault = "none" /\ ~rq.called
      /\ rq.route \in Routes
  BY DEF RequestOK, RequestRecord, Waits, Early
<1>2. /\ x \in RequestRecord /\ x.pc = pc /\ x.fault = "none" /\ x.status = NoStatus
      /\ ~x.called /\ x.route = rq.route /\ x.window = rq.window /\ x.traced = rq.traced
  BY <1>1 DEF RequestRecord
<1> HIDE DEF x
<1>3. Decided(x) BY <1>2 DEF Decided, NoStatus, CREATED, StageFaults
<1>4. GoesTo(rq, x) BY <1>1, <1>2, <1>3 DEF GoesTo, Granted, RequestOK, Waits, Early
<1> QED BY <1>4 DEF x

LEMMA SentOK ==
  ASSUME NEW rq, RequestOK(rq), rq.pc \in Waits \ {"none"},
         NEW status \in {OK, CREATED, NOT_IMPLEMENTED},
         status = CREATED => rq.called \/ rq.route.kind # "route"
  PROVE  GoesTo(rq, Sent(rq, status))
<1> DEFINE x == Sent(rq, status)
<1>1. /\ rq \in RequestRecord /\ rq.fault = "none" /\ rq.route \in Routes
  BY DEF RequestOK, RequestRecord, Waits, Early
<1>2. /\ x \in RequestRecord /\ x.pc = "answered" /\ x.fault = "none" /\ x.status = status
      /\ x.called = rq.called /\ x.route = rq.route /\ x.window = rq.window
  BY <1>1 DEF RequestRecord, Sent, Statuses
<1>3. status # NoStatus BY DEF NoStatus, OK, CREATED, NOT_IMPLEMENTED
<1> HIDE DEF x
<1>4. Decided(x) BY <1>2 DEF Decided, StageFaults
<1>5. GoesTo(rq, x)
  BY <1>1, <1>2, <1>3, <1>4 DEF GoesTo, Granted, RequestOK, Waits, Early
<1> QED BY <1>5 DEF x

(* A stream takes the place of the answer. *)
LEMMA PipedOK ==
  ASSUME NEW rq, RequestOK(rq), rq.pc \in Waits \ {"none"}
  PROVE  GoesTo(rq, [rq EXCEPT !.pc = "piping"])
<1> DEFINE x == [rq EXCEPT !.pc = "piping"]
<1>1. /\ rq \in RequestRecord /\ rq.status = NoStatus /\ rq.fault = "none"
      /\ rq.route \in Routes
  BY DEF RequestOK, RequestRecord, Waits, Early
<1>2. /\ x \in RequestRecord /\ x.pc = "piping" /\ x.fault = "none" /\ x.status = NoStatus
      /\ x.called = rq.called /\ x.route = rq.route /\ x.window = rq.window
  BY <1>1 DEF RequestRecord
<1> HIDE DEF x
<1>3. Decided(x) BY <1>2 DEF Decided, NoStatus, CREATED, StageFaults
<1>4. GoesTo(rq, x) BY <1>1, <1>2, <1>3 DEF GoesTo, Granted, RequestOK, Waits, Early
<1> QED BY <1>4 DEF x

(* A failure with a falsy value: nobody is told, nobody answers. *)
LEMMA HangingOK ==
  ASSUME NEW rq, RequestOK(rq), rq.pc \in Waits \ {"none"}
  PROVE  GoesTo(rq, Hanging(rq))
<1> DEFINE x == Hanging(rq)
<1>1. /\ rq \in RequestRecord /\ rq.status = NoStatus /\ rq.fault = "none"
      /\ rq.route \in Routes
  BY DEF RequestOK, RequestRecord, Waits, Early
<1>2. /\ x \in RequestRecord /\ x.pc = "hanging" /\ x.fault = "falsy" /\ x.status = NoStatus
      /\ x.called = rq.called /\ x.route = rq.route /\ x.window = rq.window
  BY <1>1 DEF RequestRecord, Hanging
<1> HIDE DEF x
<1>3. Decided(x)
  BY <1>2 DEF Decided, NoStatus, CREATED, StageFaults
<1>4. GoesTo(rq, x) BY <1>1, <1>2, <1>3 DEF GoesTo, Granted, RequestOK, Waits, Early
<1> QED BY <1>4 DEF x

(* An error that no onError is told of. *)
LEMMA LostOK ==
  ASSUME NEW rq, RequestOK(rq), rq.pc \in Waits \ {"none"},
         NEW pc \in {"rejected", "thrown"}, NEW fault \in {"ctx", "nomatch", "stream"},
         fault = "ctx" => ~rq.called
  PROVE  GoesTo(rq, [rq EXCEPT !.pc = pc, !.fault = fault])
<1> DEFINE x == [rq EXCEPT !.pc = pc, !.fault = fault]
<1>1. /\ rq \in RequestRecord /\ rq.status = NoStatus /\ rq.route \in Routes
  BY DEF RequestOK, RequestRecord, Waits, Early
<1>2. /\ x \in RequestRecord /\ x.pc = pc /\ x.fault = fault /\ x.status = NoStatus
      /\ x.called = rq.called /\ x.route = rq.route /\ x.window = rq.window
  BY <1>1 DEF RequestRecord, Faults, StageFaults, StaticFaults
<1> HIDE DEF x
<1>3. Decided(x) BY <1>2 DEF Decided, NoStatus, CREATED, StageFaults
<1>4. GoesTo(rq, x)
  BY <1>1, <1>2, <1>3 DEF GoesTo, Granted, RequestOK, Waits, Early
<1> QED BY <1>4 DEF x

-----------------------------------------------------------------------------
(* The stages: whatever a request may become is in order, and a limited    *)
(* route calls the controller only for a request whose point was granted.  *)
LEMMA ValidatingOK ==
  ASSUME NEW rq, RequestOK(rq), rq.pc \in Early \ {"none"}, rq.route.kind = "route",
         rq.pc = "admitted" \/ ~rq.route.rateLimit,
         NEW x \in Validating(rq)
  PROVE  GoesTo(rq, x)
<1>1. CASE x \in Calling(rq)
  <2>1. /\ rq \in RequestRecord /\ rq.status = NoStatus /\ rq.fault = "none"
        /\ rq.route \in Routes
    BY DEF RequestOK, RequestRecord, Waits, Early
  <2>2. x = [rq EXCEPT !.pc = "controller", !.called = TRUE] BY <1>1 DEF Calling
  <2>3. /\ x \in RequestRecord /\ x.pc = "controller" /\ x.fault = "none"
        /\ x.status = NoStatus /\ x.called /\ x.route = rq.route /\ x.window = rq.window
    BY <2>1, <2>2 DEF RequestRecord
  <2>4. Decided(x) BY <2>3 DEF Decided, NoStatus, CREATED, StageFaults
  <2> QED BY <2>1, <2>3, <2>4 DEF GoesTo, Granted, RequestOK, Waits, Early
<1>2. ASSUME NEW fault \in {"invalid", "schema"}, x = OnError(rq, fault, FALSE)
      PROVE  GoesTo(rq, x)
  <2>1. rq.pc \in Waits \ {"none"} /\ ~rq.called BY DEF RequestOK, Waits
  <2>2. fault \in Faults BY DEF Faults, StageFaults
  <2> QED BY <1>2, <2>1, <2>2, OnErrorOK
<1> QED BY <1>1, <1>2 DEF Validating

LEMMA LimitingOK ==
  ASSUME NEW rq, RequestOK(rq), rq.pc \in Early \ {"none"}, rq.route.kind = "route",
         NEW x \in Limiting(rq)
  PROVE  GoesTo(rq, x)
<1>1. CASE ~rq.route.rateLimit BY <1>1, ValidatingOK DEF Limiting
<1>2. CASE x = [rq EXCEPT !.pc = "consuming"] BY <1>2, MovedOK
<1>3. CASE x = OnError(rq, "count", FALSE)
  <2>1. rq.pc \in Waits \ {"none"} /\ ~rq.called BY DEF RequestOK, Waits
  <2>2. "count" \in Faults BY DEF Faults, StageFaults
  <2> QED BY <1>3, <2>1, <2>2, OnErrorOK
<1>4. CASE x = Hanging(rq) BY <1>4, HangingOK DEF RequestOK, Waits
<1> QED BY <1>1, <1>2, <1>3, <1>4 DEF Limiting

LEMMA HandlingOK ==
  ASSUME NEW rq, RequestOK(rq), rq.pc \in Early \ {"none"}, rq.route.kind = "route",
         NEW x \in Handling(rq)
  PROVE  GoesTo(rq, x)
<1>1. CASE x \in Limiting(rq) BY <1>1, LimitingOK
<1>2. CASE x = [rq EXCEPT !.pc = "rejected", !.fault = "ctx"]
  <2>1. rq.pc \in Waits \ {"none"} /\ ~rq.called BY DEF RequestOK, Waits
  <2> QED BY <1>2, <2>1, LostOK
<1> QED BY <1>1, <1>2 DEF Handling

LEMMA AuthenticatingOK ==
  ASSUME NEW rq, RequestOK(rq), rq.pc \in Early \ {"none"}, rq.route.kind = "route",
         NEW x \in Authenticating(rq)
  PROVE  GoesTo(rq, x)
BY HandlingOK, MovedOK DEF Authenticating

LEMMA EnrichingOK ==
  ASSUME NEW rq, RequestOK(rq), rq.pc = "sent", rq.route.kind = "route",
         NEW x \in Enriching(rq)
  PROVE  GoesTo(rq, x)
<1> DEFINE traced == [rq EXCEPT !.traced = TRUE]
<1>1. /\ rq \in RequestRecord /\ rq.status = NoStatus /\ rq.fault = "none" /\ ~rq.called
      /\ rq.route \in Routes
  BY DEF RequestOK, RequestRecord, Waits, Early
<1>2. /\ traced \in RequestRecord /\ traced.pc = "sent" /\ traced.fault = "none"
      /\ traced.status = NoStatus /\ ~traced.called /\ traced.route = rq.route
      /\ traced.window = rq.window
  BY <1>1 DEF RequestRecord
<1>3. x \in Parsing(traced) BY DEF Enriching
<1> HIDE DEF traced
<1>4. Decided(traced) BY <1>2 DEF Decided, NoStatus, CREATED, StageFaults
<1>5. RequestOK(traced) BY <1>1, <1>2, <1>4 DEF RequestOK, Waits, Early
<1>6. traced.pc \in Early \ {"none"} BY <1>2 DEF Early
<1>7. GoesTo(traced, x)
  BY <1>1, <1>2, <1>3, <1>5, <1>6, AuthenticatingOK, MovedOK DEF Parsing
<1>8. ~Granted(traced) BY <1>2 DEF Granted
<1> QED BY <1>1, <1>2, <1>7, <1>8 DEF GoesTo

LEMMA NotMatchingOK ==
  ASSUME NEW rq, RequestOK(rq), rq.pc \in Early \ {"none"}, rq.route.kind # "route",
         NEW x \in NotMatching(rq)
  PROVE  GoesTo(rq, x)
<1>1. rq.pc \in Waits \ {"none"} BY DEF Waits
<1>2. NOT_IMPLEMENTED # CREATED BY DEF NOT_IMPLEMENTED, CREATED
<1>3. CASE x = [rq EXCEPT !.pc = "nomatch"] BY <1>3, MovedOK
<1>4. CASE x = Sent(rq, NOT_IMPLEMENTED) BY <1>1, <1>2, <1>4, SentOK
<1> QED BY <1>3, <1>4 DEF NotMatching

LEMMA ReceivingOK ==
  ASSUME NEW rq, RequestOK(rq), rq.pc = "sent", ~rq.traced, NEW x \in Receiving(rq)
  PROVE  GoesTo(rq, x)
<1>1. rq.pc \in Early \ {"none"} BY DEF Early
<1>2. rq.route.kind \in {"route", "static", "unmatched"}
  BY RoutesAssumption DEF RequestOK
<1>3. CASE rq.route.kind = "route"
  BY <1>1, <1>3, EnrichingOK DEF Receiving
<1>4. CASE rq.route.kind = "static"
  <2>1. x = [rq EXCEPT !.pc = "serving"] BY <1>4 DEF Receiving
  <2> QED BY <1>1, <1>4, <2>1, MovedOK
<1>5. CASE rq.route.kind = "unmatched"
  BY <1>1, <1>5, NotMatchingOK DEF Receiving
<1> QED BY <1>2, <1>3, <1>4, <1>5

-----------------------------------------------------------------------------
(* The invariant of the pipeline, request by request.                      *)
Inv ==
  /\ TypeOK
  /\ \A r \in Requests : /\ RequestOK(request[r])
                         /\ request[r].pc = "sent" => ~request[r].traced

(* Every step of a request but the counting of its point is of this form.  *)
Advance(r) ==
  /\ ~exited
  /\ request[r].pc \in Waits \ {"none"}
  /\ \E x : GoesTo(request[r], x) /\ Becomes(r, x)
  /\ UNCHANGED Rest

LEMMA ProceedsAdvances ==
  ASSUME NEW r \in Requests, NEW pc, At(r, pc), pc \in Waits \ {"none"},
         NEW outcomes, Proceeds(r, outcomes),
         \A x \in outcomes : GoesTo(request[r], x)
  PROVE  Advance(r)
BY DEF At, Proceeds, Advance

LEMMA FailsAdvances ==
  ASSUME Inv, NEW r \in Requests, NEW pc, At(r, pc), pc \in Waits \ {"none"},
         NEW fault \in Faults, NEW sync \in BOOLEAN, Fails(r, fault, sync),
         fault \in StageFaults => ~request[r].called,
         fault \in {"ctx", "file", "nomatch", "stream"} => ~request[r].traced
  PROVE  Advance(r)
<1> DEFINE x == OnError(request[r], fault, sync)
<1>1. RequestOK(request[r]) /\ request[r].pc \in Waits \ {"none"} BY DEF Inv, At
<1>2. GoesTo(request[r], x) BY <1>1, OnErrorOK
<1>3. Proceeds(r, {x}) BY DEF Fails
<1> HIDE DEF x
<1> QED BY <1>2, <1>3, ProceedsAdvances

LEMMA StepsAdvance ==
  ASSUME Inv, NEW r \in Requests, PipelineStep(r) \/ ControllerStep(r), ~Consume(r)
  PROVE  Advance(r)
<1> DEFINE rq == request[r]
<1>1. /\ RequestOK(rq)
      /\ rq.pc = "sent" => ~rq.traced
      /\ rq.pc \in {"parsing", "authenticating", "admitted", "over", "consuming"}
           => rq.route.kind = "route"
  BY DEF Inv, RequestOK
<1>3. CASE Receive(r)
  <2>1. At(r, "sent") /\ Proceeds(r, Receiving(rq)) BY <1>3 DEF Receive
  <2>2. \A x \in Receiving(rq) : GoesTo(rq, x) BY <1>1, <2>1, ReceivingOK DEF At
  <2> QED BY <2>1, <2>2, ProceedsAdvances DEF Waits, Early
<1>4. CASE Parsed(r)
  <2>1. At(r, "parsing") /\ Proceeds(r, Authenticating(rq)) BY <1>4 DEF Parsed
  <2>2. \A x \in Authenticating(rq) : GoesTo(rq, x)
    BY <1>1, <2>1, AuthenticatingOK DEF At, Early
  <2> QED BY <2>1, <2>2, ProceedsAdvances DEF Waits, Early
<1>5. CASE BodyFails(r)
  <2>1. At(r, "parsing") /\ Fails(r, "body", TRUE) BY <1>5 DEF BodyFails
  <2>2. ~rq.called BY <1>1, <2>1 DEF At, RequestOK, Early
  <2> QED BY <2>1, <2>2, FailsAdvances DEF Waits, Early, Faults, StageFaults
<1>6. CASE Authenticated(r)
  <2>1. At(r, "authenticating") /\ Proceeds(r, Handling(rq)) BY <1>6 DEF Authenticated
  <2>2. \A x \in Handling(rq) : GoesTo(rq, x)
    BY <1>1, <2>1, HandlingOK DEF At, Early
  <2> QED BY <2>1, <2>2, ProceedsAdvances DEF Waits, Early
<1>7. ASSUME NEW fault \in Faults, AuthenticationFails(r, fault) PROVE Advance(r)
  <2>1. At(r, "authenticating") /\ Fails(r, fault, FALSE) /\ fault \in {"denied", "session", "mute"}
    BY <1>7 DEF AuthenticationFails
  <2>2. ~rq.called BY <1>1, <2>1 DEF At, RequestOK, Early
  <2> QED BY <2>1, <2>2, FailsAdvances DEF Waits, Early
<1>8. CASE Admitted(r)
  <2>1. At(r, "admitted") /\ Proceeds(r, Validating(rq)) BY <1>8 DEF Admitted
  <2>2. \A x \in Validating(rq) : GoesTo(rq, x)
    BY <1>1, <2>1, ValidatingOK DEF At, Early
  <2> QED BY <2>1, <2>2, ProceedsAdvances DEF Waits, Early
<1>9. CASE Refused(r)
  <2>1. At(r, "over") /\ Fails(r, "limited", FALSE) BY <1>9 DEF Refused
  <2>2. ~rq.called BY <1>1, <2>1 DEF At, RequestOK, Early
  <2> QED BY <2>1, <2>2, FailsAdvances DEF Waits, Early, Faults, StageFaults
<1>10. CASE StoreFails(r)
  <2>1. PICK pc \in {"consuming", "admitted", "over"} : At(r, pc) /\ Fails(r, "store", FALSE)
    BY <1>10 DEF StoreFails
  <2>2. ~rq.called BY <1>1, <2>1 DEF At, RequestOK, Early
  <2> QED BY <2>1, <2>2, FailsAdvances DEF Waits, Early, Faults, StageFaults
<1>11. CASE StreamEnds(r)
  <2>1. At(r, "piping") /\ Proceeds(r, {Sent(rq, OK)}) BY <1>11 DEF StreamEnds
  <2>2. GoesTo(rq, Sent(rq, OK)) BY <1>1, <2>1, SentOK DEF At, Waits, OK, CREATED
  <2> QED BY <2>1, <2>2, ProceedsAdvances DEF Waits, Early
<1>12. CASE StreamFails(r)
  <2>1. At(r, "piping") /\ Proceeds(r, {[rq EXCEPT !.pc = "thrown", !.fault = "stream"]})
    BY <1>12 DEF StreamFails
  <2>2. GoesTo(rq, [rq EXCEPT !.pc = "thrown", !.fault = "stream"])
    BY <1>1, <2>1, LostOK DEF At, Waits
  <2> QED BY <2>1, <2>2, ProceedsAdvances DEF Waits, Early
<1>13. CASE NoMatchReturns(r)
  <2>1. At(r, "nomatch") /\ Proceeds(r, {Sent(rq, CREATED)}) BY <1>13 DEF NoMatchReturns
  <2>2. rq.route.kind # "route" BY <1>1, <2>1 DEF At, RequestOK
  <2>3. GoesTo(rq, Sent(rq, CREATED)) BY <1>1, <2>1, <2>2, SentOK DEF At, Waits, Early
  <2> QED BY <2>1, <2>3, ProceedsAdvances DEF Waits, Early
<1>14. CASE NoMatchStreams(r)
  <2>1. At(r, "nomatch") /\ Proceeds(r, {[rq EXCEPT !.pc = "piping"]})
    BY <1>14 DEF NoMatchStreams
  <2>2. GoesTo(rq, [rq EXCEPT !.pc = "piping"]) BY <1>1, <2>1, PipedOK DEF At, Waits, Early
  <2> QED BY <2>1, <2>2, ProceedsAdvances DEF Waits, Early
<1>15. CASE NoMatchFails(r)
  <2>1. At(r, "nomatch") /\ Proceeds(r, {[rq EXCEPT !.pc = "rejected", !.fault = "nomatch"]})
    BY <1>15 DEF NoMatchFails
  <2>2. GoesTo(rq, [rq EXCEPT !.pc = "rejected", !.fault = "nomatch"])
    BY <1>1, <2>1, LostOK DEF At, Waits, Early
  <2> QED BY <2>1, <2>2, ProceedsAdvances DEF Waits, Early
<1>16. CASE FileServed(r)
  <2>1. At(r, "serving") /\ Proceeds(r, {Sent(rq, OK)}) BY <1>16 DEF FileServed
  <2>2. GoesTo(rq, Sent(rq, OK)) BY <1>1, <2>1, SentOK DEF At, Waits, Early, OK, CREATED
  <2> QED BY <2>1, <2>2, ProceedsAdvances DEF Waits, Early
<1>17. CASE FileMissing(r)
  <2>1. At(r, "serving") /\ Proceeds(r, NotMatching(rq)) BY <1>17 DEF FileMissing
  <2>2. rq.route.kind # "route" BY <1>1, <2>1 DEF At, RequestOK
  <2>3. \A x \in NotMatching(rq) : GoesTo(rq, x)
    BY <1>1, <2>1, <2>2, NotMatchingOK DEF At, Early
  <2> QED BY <2>1, <2>3, ProceedsAdvances DEF Waits, Early
<1>18. CASE FileFails(r)
  <2>1. At(r, "serving") /\ Fails(r, "file", TRUE) BY <1>18 DEF FileFails
  <2>2. ~rq.called /\ ~rq.traced BY <1>1, <2>1 DEF At, RequestOK, Early
  <2> QED BY <2>1, <2>2, FailsAdvances DEF Waits, Early, Faults, StaticFaults
<1>19. CASE ControllerReturns(r)
  <2>1. At(r, "controller") /\ Proceeds(r, {Sent(rq, CREATED)}) BY <1>19 DEF ControllerReturns
  <2>2. GoesTo(rq, Sent(rq, CREATED)) BY <1>1, <2>1, SentOK DEF At, RequestOK, Waits
  <2> QED BY <2>1, <2>2, ProceedsAdvances DEF Waits, Early
<1>20. CASE ControllerStreams(r)
  <2>1. At(r, "controller") /\ Proceeds(r, {[rq EXCEPT !.pc = "piping"]})
    BY <1>20 DEF ControllerStreams
  <2>2. GoesTo(rq, [rq EXCEPT !.pc = "piping"]) BY <1>1, <2>1, PipedOK DEF At, Waits
  <2> QED BY <2>1, <2>2, ProceedsAdvances DEF Waits, Early
<1>21. ASSUME NEW fault \in ControllerFaults, ControllerFails(r, fault) PROVE Advance(r)
  <2>1. At(r, "controller") /\ Fails(r, fault, FALSE) BY <1>21 DEF ControllerFails
  <2>2. /\ fault \in Faults /\ fault \notin StageFaults
        /\ fault \notin {"ctx", "file", "nomatch", "stream"}
    BY DEF Faults, ControllerFaults, StageFaults
  <2> QED BY <2>1, <2>2, FailsAdvances DEF Waits
<1>22. CASE AuthenticationFailsFalsy(r)
  <2>1. At(r, "authenticating") /\ Proceeds(r, Handling(rq))
    BY <1>22 DEF AuthenticationFailsFalsy
  <2>2. \A x \in Handling(rq) : GoesTo(rq, x)
    BY <1>1, <2>1, HandlingOK DEF At, Early
  <2> QED BY <2>1, <2>2, ProceedsAdvances DEF Waits, Early
<1>23. CASE ControllerFailsFalsy(r)
  <2>1. At(r, "controller") /\ Proceeds(r, {Hanging(rq)}) BY <1>23 DEF ControllerFailsFalsy
  <2>2. GoesTo(rq, Hanging(rq)) BY <1>1, <2>1, HangingOK DEF At, Waits
  <2> QED BY <2>1, <2>2, ProceedsAdvances DEF Waits, Early
<1> QED
  BY <1>3, <1>4, <1>5, <1>6, <1>7, <1>8, <1>9, <1>10, <1>11, <1>12, <1>13, <1>14, <1>15,
     <1>16, <1>17, <1>18, <1>19, <1>20, <1>21, <1>22, <1>23 DEF PipelineStep, ControllerStep

LEMMA AdvancePreserves ==
  ASSUME Inv, NEW r \in Requests, Advance(r)
  PROVE  Inv'
<1>1. PICK x : GoesTo(request[r], x) /\ Becomes(r, x) /\ UNCHANGED Rest BY DEF Advance
<1>2. /\ RequestOK(x) /\ x.pc # "sent" /\ x \in RequestRecord
      /\ request' = [request EXCEPT ![r] = x]
      /\ stopping' \in BOOLEAN
  BY <1>1 DEF GoesTo, Becomes, RequestOK, StopsProcess, Inv, TypeOK
<1>3. TypeOK' BY <1>1, <1>2 DEF Inv, TypeOK, Rest
<1>4. ASSUME NEW q \in Requests
      PROVE  RequestOK(request'[q]) /\ (request'[q].pc = "sent" => ~request'[q].traced)
  <2>1. request'[q] = IF q = r THEN x ELSE request[q] BY <1>2 DEF Inv, TypeOK
  <2> QED BY <1>2, <2>1 DEF Inv
<1> QED BY <1>3, <1>4 DEF Inv, RequestOK

LEMMA SendPreserves ==
  ASSUME Inv, NEW r \in Requests, NEW route \in Routes, Send(r, route)
  PROVE  Inv'
<1> DEFINE x == NewRequest(route)
<1>1. /\ x \in RequestRecord /\ x.pc = "sent" /\ ~x.traced /\ ~x.called /\ x.fault = "none"
      /\ x.status = NoStatus /\ x.route = route
  BY DEF NewRequest, RequestRecord, Statuses
<1>2. request' = [request EXCEPT ![r] = x] /\ UNCHANGED <<stopping, Rest>> BY DEF Send
<1> HIDE DEF x
<1>3. Decided(x) BY <1>1 DEF Decided, NoStatus, CREATED, StageFaults
<1>4. RequestOK(x) BY <1>1, <1>3 DEF RequestOK, Waits, Early
<1>5. TypeOK' BY <1>1, <1>2 DEF Inv, TypeOK, Rest
<1>6. ASSUME NEW q \in Requests
      PROVE  RequestOK(request'[q]) /\ (request'[q].pc = "sent" => ~request'[q].traced)
  <2>1. request'[q] = IF q = r THEN x ELSE request[q] BY <1>2 DEF Inv, TypeOK
  <2> QED BY <1>1, <1>4, <2>1 DEF Inv
<1> QED BY <1>5, <1>6 DEF Inv, RequestOK

(* Counting a point puts the request among those admitted or over the limit. *)
LEMMA ConsumeCounts ==
  ASSUME Inv, NEW r \in Requests, Consume(r)
  PROVE  \E x : /\ request' = [request EXCEPT ![r] = x]
                /\ RequestOK(x) /\ x \in RequestRecord /\ ~x.called
                /\ x.route = request[r].route /\ x.route \in Routes
                /\ x.window = window[x.route]
                /\ x.pc = IF hits[x.route] < Limit THEN "admitted" ELSE "over"
<1> DEFINE rq == request[r]
           pc == IF hits[rq.route] < Limit THEN "admitted" ELSE "over"
           x == [rq EXCEPT !.pc = pc, !.window = window[rq.route]]
<1>1. RequestOK(rq) /\ rq.pc = "consuming" /\ rq \in RequestRecord /\ rq.route \in Routes
  BY DEF Inv, Consume, At, RequestOK
<1>2. /\ rq.status = NoStatus /\ rq.fault = "none" /\ ~rq.called
      /\ rq.route.kind = "route"
  BY <1>1 DEF RequestOK, RequestRecord, Waits, Early
<1>3. window[rq.route] \in Nat /\ pc \in {"admitted", "over"} BY <1>1 DEF Inv, TypeOK
<1>4. /\ x \in RequestRecord /\ x.pc = pc /\ x.fault = "none" /\ x.status = NoStatus
      /\ ~x.called /\ x.route = rq.route /\ x.window = window[rq.route]
  BY <1>1, <1>2, <1>3 DEF RequestRecord
<1>5. request' = [request EXCEPT ![r] = x]
  <2>1. request' = [request EXCEPT ![r].pc = pc, ![r].window = window[rq.route]]
    BY DEF Consume
  <2>2. request = [q \in Requests |-> request[q]] BY DEF Inv, TypeOK
  <2> QED BY <2>1, <2>2
<1> HIDE DEF x
<1>6. Decided(x) BY <1>4 DEF Decided, NoStatus, CREATED, StageFaults
<1>7. RequestOK(x) BY <1>1, <1>2, <1>3, <1>4, <1>6 DEF RequestOK, Waits, Early
<1> WITNESS x
<1> QED BY <1>1, <1>4, <1>5, <1>7

LEMMA ConsumePreserves ==
  ASSUME Inv, NEW r \in Requests, Consume(r)
  PROVE  Inv'
<1>1. PICK x : /\ request' = [request EXCEPT ![r] = x]
               /\ RequestOK(x) /\ x \in RequestRecord
               /\ x.route = request[r].route /\ x.route \in Routes
               /\ x.pc = IF hits[x.route] < Limit THEN "admitted" ELSE "over"
  BY ConsumeCounts
<1>2. x.pc # "sent" BY <1>1
<1>3. /\ hits' \in [Routes -> Nat]
      /\ UNCHANGED <<window, newrelic, noMatchHandler, stopping, exited>>
  <2>1. hits' = [hits EXCEPT ![request[r].route] = @ + 1] BY DEF Consume
  <2>2. hits \in [Routes -> Nat] BY DEF Inv, TypeOK
  <2>3. UNCHANGED <<window, newrelic, noMatchHandler, stopping, exited>> BY DEF Consume
  <2>4. request[r].route \in Routes /\ hits[request[r].route] + 1 \in Nat
    BY <1>1, <2>2 DEF RequestOK
  <2>5. hits' \in [Routes -> Nat] BY <2>1, <2>2, <2>4
  <2> QED BY <2>3, <2>5
<1>4. TypeOK' BY <1>1, <1>3 DEF Inv, TypeOK
<1>5. ASSUME NEW q \in Requests
      PROVE  RequestOK(request'[q]) /\ (request'[q].pc = "sent" => ~request'[q].traced)
  <2>1. request'[q] = IF q = r THEN x ELSE request[q] BY <1>1 DEF Inv, TypeOK
  <2> QED BY <1>1, <1>2, <2>1 DEF Inv
<1> QED BY <1>4, <1>5 DEF Inv, RequestOK

(* The invariant holds initially and every step preserves it.              *)
THEOREM InvInductive == Spec => []Inv
<1>1. Init => Inv
  <2> SUFFICES ASSUME Init PROVE Inv OBVIOUS
  <2> DEFINE x == [NewRequest(NoRoute) EXCEPT !.pc = "none"]
  <2>1. /\ x \in RequestRecord /\ x.pc = "none" /\ ~x.called /\ x.fault = "none"
        /\ x.status = NoStatus
    BY DEF NewRequest, RequestRecord, Statuses
  <2>2. request = [r \in Requests |-> x] BY DEF Init
  <2> HIDE DEF x
  <2>3. RequestOK(x) BY <2>1 DEF RequestOK, Decided, NoStatus, CREATED, StageFaults, Waits, Early
  <2>4. TypeOK BY <2>1, <2>2 DEF Init, TypeOK
  <2> QED BY <2>1, <2>2, <2>3, <2>4 DEF Inv
<1>2. Inv /\ [Next]_polkaVars => Inv'
  <2> SUFFICES ASSUME Inv, [Next]_polkaVars PROVE Inv' OBVIOUS
  <2>1. CASE UNCHANGED polkaVars
    <3>1. TypeOK' BY <2>1 DEF Inv, TypeOK, polkaVars
    <3> QED BY <2>1, <3>1 DEF Inv, RequestOK, polkaVars
  <2>2. ASSUME NEW r \in Requests, NEW route \in Routes, Send(r, route) PROVE Inv'
    BY <2>2, SendPreserves
  <2>3. ASSUME NEW route \in Routes, NextWindow(route) PROVE Inv'
    <3>1. TypeOK' BY <2>3 DEF Inv, TypeOK, NextWindow
    <3> QED BY <2>3, <3>1 DEF Inv, NextWindow, RequestOK
  <2>4. CASE ProcessExits
    <3>1. TypeOK' BY <2>4 DEF Inv, TypeOK, ProcessExits
    <3> QED BY <2>4, <3>1 DEF Inv, ProcessExits, RequestOK
  <2>5. ASSUME NEW r \in Requests, PipelineStep(r) \/ ControllerStep(r) PROVE Inv'
    BY <2>5, StepsAdvance, AdvancePreserves, ConsumePreserves
  <2> QED BY <2>1, <2>2, <2>3, <2>4, <2>5 DEF Next, EnvironmentStep
<1> QED BY <1>1, <1>2, PTL DEF Spec

(* The type invariant of the pipeline, for any set of requests and routes. *)
THEOREM PolkaTypes == Spec => []TypeOK
<1>1. Inv => TypeOK BY DEF Inv
<1> QED BY <1>1, InvInductive, PTL

(* Whatever stage fails, it alone decides the answer, and the controller   *)
(* is not called: however many requests are on their way, on any routes.   *)
THEOREM StagesDecide == Spec => []StageDecides
<1>1. Inv => StageDecides BY DEF Inv, StageDecides, RequestOK
<1> QED BY <1>1, InvInductive, PTL

-----------------------------------------------------------------------------
(* The pipeline implements Responder.                                      *)
LEMMA AdvanceMaps ==
  ASSUME Inv, NEW r \in Requests, Advance(r)
  PROVE  [R!RNext]_(R!responderVars)
<1> DEFINE st == [q \in Requests |-> Outcome(request[q].pc)]
           an == [q \in Requests |-> request[q].status]
<1>1. PICK x : GoesTo(request[r], x) /\ Becomes(r, x) /\ UNCHANGED Rest BY DEF Advance
<1>2. /\ RequestOK(request[r]) /\ RequestOK(x) /\ x \in RequestRecord
      /\ x.pc # "none" /\ request[r].pc \in Waits \ {"none"} /\ ~exited
  BY <1>1 DEF GoesTo, RequestOK, Inv, Advance
<1>3. /\ request' = [request EXCEPT ![r] = x]
      /\ stopping' = (stopping \/ StopsProcess(x))
      /\ UNCHANGED <<newrelic, exited>>
  BY <1>1 DEF Becomes, Rest
<1>4. /\ st' = [st EXCEPT ![r] = Outcome(x.pc)]
      /\ an' = [an EXCEPT ![r] = x.status]
  BY <1>3 DEF Inv, TypeOK
<1>5. st[r] = "open" /\ an[r] = NoStatus
  BY <1>2 DEF Outcome, Waits, Early, RequestOK
<1>6. st \in [Requests -> {"none", "open", "answered", "rejected", "thrown"}]
  BY DEF Outcome
<1>7. an \in [Requests -> Statuses] BY DEF Inv, TypeOK, RequestRecord
<1>8. stopping \in BOOLEAN /\ newrelic \in BOOLEAN BY DEF Inv, TypeOK
<1> HIDE DEF st, an
<1>9. CASE x.pc \in Waits \cup {"hanging"}
  <2>1. Outcome(x.pc) = "open" /\ x.status = NoStatus /\ ~StopsProcess(x)
    BY <1>2, <1>9 DEF Outcome, Waits, Early, RequestOK, StopsProcess
  <2>2. st' = st /\ an' = an BY <1>4, <1>5, <1>6, <1>7, <2>1
  <2> QED BY <1>3, <1>8, <2>1, <2>2 DEF st, an, R!responderVars
<1>10. CASE x.pc = "answered"
  <2>1. Outcome(x.pc) = "answered" /\ x.status \in Statuses \ {NoStatus} /\ ~StopsProcess(x)
    BY <1>2, <1>10 DEF Outcome, RequestOK, RequestRecord, StopsProcess
  <2>2. st' = [st EXCEPT ![r] = "answered"] /\ an' = [an EXCEPT ![r] = x.status]
    BY <1>4, <2>1
  <2>3. stopping' = stopping BY <1>3, <1>8, <2>1
  <2>4. R!Answer(r, x.status) BY <1>3, <1>5, <2>2, <2>3 DEF st, an, R!Answer
  <2> QED BY <1>2, <2>1, <2>4 DEF R!RNext
<1>11. CASE x.pc = "rejected"
  <2>1. Outcome(x.pc) = "rejected" /\ x.status = NoStatus /\ StopsProcess(x) = ~newrelic
    BY <1>2, <1>8, <1>11 DEF Outcome, RequestOK, StopsProcess
  <2>2. st' = [st EXCEPT ![r] = "rejected"] /\ an' = an BY <1>4, <1>5, <1>7, <2>1
  <2>3. R!Reject(r) BY <1>3, <1>5, <2>1, <2>2 DEF st, an, R!Reject
  <2> QED BY <1>2, <2>3 DEF R!RNext
<1>12. CASE x.pc = "thrown"
  <2>1. Outcome(x.pc) = "thrown" /\ x.status = NoStatus /\ StopsProcess(x)
    BY <1>2, <1>12 DEF Outcome, RequestOK, StopsProcess
  <2>2. st' = [st EXCEPT ![r] = "thrown"] /\ an' = an BY <1>4, <1>5, <1>7, <2>1
  <2>3. R!Throw(r) BY <1>3, <1>5, <2>1, <2>2 DEF st, an, R!Throw
  <2> QED BY <1>2, <2>3 DEF R!RNext
<1> QED BY <1>2, <1>9, <1>10, <1>11, <1>12 DEF RequestRecord, Waits, Early

LEMMA ConsumeMaps ==
  ASSUME Inv, NEW r \in Requests, Consume(r)
  PROVE  [R!RNext]_(R!responderVars)
<1> DEFINE st == [q \in Requests |-> Outcome(request[q].pc)]
           an == [q \in Requests |-> request[q].status]
<1>1. PICK x : /\ request' = [request EXCEPT ![r] = x]
               /\ RequestOK(x) /\ x \in RequestRecord
               /\ x.pc = IF hits[x.route] < Limit THEN "admitted" ELSE "over"
  BY ConsumeCounts
<1>2. request[r].pc = "consuming" /\ RequestOK(request[r]) /\ x.pc \in {"admitted", "over"}
  BY <1>1 DEF Consume, At, Inv
<1>3. Outcome(x.pc) = Outcome(request[r].pc) /\ x.status = request[r].status
  BY <1>1, <1>2 DEF Outcome, RequestOK, RequestRecord
<1>4. ASSUME NEW q \in Requests
      PROVE  /\ Outcome(request'[q].pc) = Outcome(request[q].pc)
             /\ request'[q].status = request[q].status
  <2>1. request'[q] = IF q = r THEN x ELSE request[q] BY <1>1 DEF Inv, TypeOK
  <2> QED BY <1>3, <2>1
<1>5. st' = st /\ an' = an BY <1>4
<1>6. UNCHANGED <<newrelic, stopping, exited>> BY DEF Consume
<1> QED BY <1>5, <1>6 DEF R!responderVars

LEMMA SendMaps ==
  ASSUME Inv, NEW r \in Requests, NEW route \in Routes, Send(r, route)
  PROVE  [R!RNext]_(R!responderVars)
<1> DEFINE st == [q \in Requests |-> Outcome(request[q].pc)]
           an == [q \in Requests |-> request[q].status]
           x == NewRequest(route)
<1>1. x.pc = "sent" /\ x.status = NoStatus BY DEF NewRequest
<1>2. /\ request' = [request EXCEPT ![r] = x]
      /\ ~exited /\ request[r].pc = "none" /\ RequestOK(request[r])
      /\ UNCHANGED <<stopping, newrelic, exited>>
  BY DEF Send, At, Rest, Inv
<1> HIDE DEF x
<1>3. st' = [st EXCEPT ![r] = "open"] BY <1>1, <1>2 DEF Inv, TypeOK, Outcome
<1>4. request[r].status = NoStatus
  BY <1>2 DEF RequestOK, RequestRecord
<1>5. ASSUME NEW q \in Requests PROVE request'[q].status = request[q].status
  <2>1. request'[q] = IF q = r THEN x ELSE request[q] BY <1>2 DEF Inv, TypeOK
  <2> QED BY <1>1, <1>4, <2>1
<1>6. an' = an BY <1>5
<1>7. st[r] = "none" BY <1>2 DEF Outcome
<1>8. R!Open(r) BY <1>2, <1>3, <1>6, <1>7 DEF R!Open
<1> QED BY <1>2, <1>8 DEF R!RNext

(* Every behaviour of the pipeline, seen from outside of it, is one of     *)
(* Responder: one answer at most, and the process stops only for an error  *)
(* that reaches it.                                                        *)
THEOREM RefinesResponder == Spec => ImplementsResponder
<1>1. Init => R!RInit
  BY DEF Init, R!RInit, NewRequest, Outcome
<1>2. Inv /\ [Next]_polkaVars => [R!RNext]_(R!responderVars)
  <2> SUFFICES ASSUME Inv, [Next]_polkaVars PROVE [R!RNext]_(R!responderVars) OBVIOUS
  <2>1. CASE UNCHANGED polkaVars BY <2>1 DEF polkaVars, R!responderVars
  <2>2. ASSUME NEW r \in Requests, NEW route \in Routes, Send(r, route)
        PROVE  [R!RNext]_(R!responderVars)
    BY <2>2, SendMaps
  <2>3. ASSUME NEW route \in Routes, NextWindow(route) PROVE UNCHANGED R!responderVars
    BY <2>3 DEF NextWindow, R!responderVars
  <2>4. CASE ProcessExits BY <2>4 DEF ProcessExits, R!RNext, R!Exit
  <2>5. ASSUME NEW r \in Requests, PipelineStep(r) \/ ControllerStep(r)
        PROVE  [R!RNext]_(R!responderVars)
    BY <2>5, StepsAdvance, AdvanceMaps, ConsumeMaps
  <2> QED BY <2>1, <2>2, <2>3, <2>4, <2>5 DEF Next, EnvironmentStep
<1> QED BY <1>1, <1>2, InvInductive, PTL DEF Spec, ImplementsResponder, R!RSpec

-----------------------------------------------------------------------------
(* The rate limiter.  The requests whose points were granted in a window   *)
(* are never more than the points counted in it, nor than the limit; a     *)
(* request belongs to a window that has begun.                             *)
Slots(route, w) ==
  {r \in Requests : request[r].route = route /\ request[r].window = w /\ Granted(request[r])}

LimiterInv ==
  /\ \A r \in Requests :
       request[r].pc # "none" => request[r].window <= window[request[r].route]
  /\ \A route \in Routes : route.rateLimit =>
       /\ \A w \in 0 .. window[route] : Cardinality(Slots(route, w)) <= Limit
       /\ Cardinality(Slots(route, window[route])) <= hits[route]

LEMMA SlotsFinite ==
  ASSUME NEW route, NEW w
  PROVE  IsFiniteSet(Slots(route, w)) /\ Cardinality(Slots(route, w)) \in Nat
<1>1. Slots(route, w) \subseteq Requests BY DEF Slots
<1> QED BY <1>1, RoutesAssumption, FS_Subset, FS_CardinalityType

(* A step that grants no point leaves the limiter in order. *)
LEMMA NothingGranted ==
  ASSUME Inv, LimiterInv, Inv', UNCHANGED <<hits, window>>,
         \A r \in Requests : request'[r].pc # "none" =>
           request'[r].window <= window[request'[r].route],
         \A route \in Routes, w \in Nat : Slots(route, w)' \subseteq Slots(route, w)
  PROVE  LimiterInv'
<1>1. ASSUME NEW route \in Routes, NEW w \in Nat
      PROVE  Cardinality(Slots(route, w)') <= Cardinality(Slots(route, w))
  BY SlotsFinite, FS_Subset
<1>2. \A route \in Routes, w \in Nat : /\ Cardinality(Slots(route, w)) \in Nat
                                      /\ Cardinality(Slots(route, w)') \in Nat
  BY <1>1, SlotsFinite, FS_Subset, FS_CardinalityType
<1>3. window \in [Routes -> Nat] /\ hits \in [Routes -> Nat] /\ Limit \in Nat
  BY RoutesAssumption DEF Inv, TypeOK
<1>4. ASSUME NEW route \in Routes, route.rateLimit
      PROVE  /\ \A w \in 0 .. window[route] : Cardinality(Slots(route, w)') <= Limit
             /\ Cardinality(Slots(route, window[route])') <= hits[route]
  BY <1>1, <1>2, <1>3, <1>4 DEF LimiterInv
<1> QED BY <1>4 DEF LimiterInv

LEMMA AdvanceLimited ==
  ASSUME Inv, LimiterInv, Inv', NEW r \in Requests, Advance(r)
  PROVE  LimiterInv'
<1>1. PICK x : GoesTo(request[r], x) /\ Becomes(r, x) /\ UNCHANGED Rest BY DEF Advance
<1>2. /\ x.route = request[r].route /\ x.window = request[r].window
      /\ Granted(x) => Granted(request[r])
      /\ request[r].pc # "none"
  BY <1>1 DEF GoesTo, Advance, Waits
<1>3. UNCHANGED <<hits, window>> BY <1>1 DEF Rest
<1>4. \A q \in Requests : request'[q] = IF q = r THEN x ELSE request[q]
  BY <1>1 DEF Becomes, Inv, TypeOK
<1>5. \A q \in Requests :
        request'[q].pc # "none" => request'[q].window <= window[request'[q].route]
  BY <1>2, <1>4 DEF LimiterInv
<1>6. \A route \in Routes, w \in Nat : Slots(route, w)' \subseteq Slots(route, w)
  <2> SUFFICES ASSUME NEW route \in Routes, NEW w \in Nat, NEW q \in Requests,
                      request'[q].route = route, request'[q].window = w, Granted(request'[q])
               PROVE  /\ request[q].route = route /\ request[q].window = w
                      /\ Granted(request[q])
    BY DEF Slots
  <2> QED BY <1>2, <1>4
<1> QED BY <1>3, <1>5, <1>6, NothingGranted

LEMMA SendLimited ==
  ASSUME Inv, LimiterInv, Inv', NEW r \in Requests, NEW route \in Routes, Send(r, route)
  PROVE  LimiterInv'
<1> DEFINE x == NewRequest(route)
<1>1. /\ x.route = route /\ x.window = 0 /\ ~x.called /\ x.pc = "sent" BY DEF NewRequest
<1>2. request' = [request EXCEPT ![r] = x] BY DEF Send
<1>3. UNCHANGED <<hits, window>> BY DEF Send, Rest
<1> HIDE DEF x
<1>4. \A q \in Requests : request'[q] = IF q = r THEN x ELSE request[q]
  BY <1>2 DEF Inv, TypeOK
<1>5. ~Granted(x) BY <1>1 DEF Granted
<1>6. window[route] \in Nat BY DEF Inv, TypeOK
<1>7. \A q \in Requests :
        request'[q].pc # "none" => request'[q].window <= window[request'[q].route]
  BY <1>1, <1>4, <1>6 DEF LimiterInv
<1>8. \A rt \in Routes, w \in Nat : Slots(rt, w)' \subseteq Slots(rt, w)
  <2> SUFFICES ASSUME NEW rt \in Routes, NEW w \in Nat, NEW q \in Requests,
                      request'[q].route = rt, request'[q].window = w, Granted(request'[q])
               PROVE  /\ request[q].route = rt /\ request[q].window = w
                      /\ Granted(request[q])
    BY DEF Slots
  <2> QED BY <1>4, <1>5
<1> QED BY <1>3, <1>7, <1>8, NothingGranted

LEMMA OneMore ==
  ASSUME NEW S, IsFiniteSet(S), NEW e, NEW T, T \subseteq S \cup {e}
  PROVE  Cardinality(T) <= Cardinality(S) + 1
<1>1. /\ IsFiniteSet(S \cup {e}) /\ Cardinality(S) \in Nat
      /\ Cardinality(S \cup {e}) = IF e \in S THEN Cardinality(S) ELSE Cardinality(S) + 1
  BY FS_AddElement, FS_CardinalityType
<1>2. /\ Cardinality(T) <= Cardinality(S \cup {e}) /\ Cardinality(T) \in Nat
  BY <1>1, FS_Subset, FS_CardinalityType
<1> QED BY <1>1, <1>2

LEMMA ConsumeLimited ==
  ASSUME Inv, LimiterInv, Inv', NEW r \in Requests, Consume(r)
  PROVE  LimiterInv'
<1>1. PICK x : /\ request' = [request EXCEPT ![r] = x]
               /\ RequestOK(x) /\ x \in RequestRecord /\ ~x.called
               /\ x.route = request[r].route /\ x.route \in Routes
               /\ x.window = window[x.route]
               /\ x.pc = IF hits[x.route] < Limit THEN "admitted" ELSE "over"
  BY ConsumeCounts
<1> DEFINE rt == x.route
           w0 == x.window
<1>2. /\ rt \in Routes /\ w0 = window[rt] /\ w0 \in Nat /\ hits[rt] \in Nat /\ Limit \in Nat
      /\ window \in [Routes -> Nat] /\ hits \in [Routes -> Nat]
  BY <1>1, RoutesAssumption DEF Inv, TypeOK
<1>3. window' = window /\ hits' = [hits EXCEPT ![rt] = @ + 1] BY <1>1 DEF Consume
<1>4. \A q \in Requests : request'[q] = IF q = r THEN x ELSE request[q]
  BY <1>1 DEF Inv, TypeOK
<1>5. \A q \in Requests :
        request'[q].pc # "none" => request'[q].window <= window[request'[q].route]
  BY <1>1, <1>2, <1>4 DEF LimiterInv
<1>6. ASSUME NEW route \in Routes, NEW w \in Nat, route # rt \/ w # w0 \/ hits[rt] >= Limit
      PROVE  Slots(route, w)' \subseteq Slots(route, w)
  <2> SUFFICES ASSUME NEW q \in Requests,
                      request'[q].route = route, request'[q].window = w, Granted(request'[q])
               PROVE  /\ request[q].route = route /\ request[q].window = w
                      /\ Granted(request[q])
    BY DEF Slots
  <2>1. CASE q # r BY <1>4, <2>1
  <2>2. CASE q = r
    <3>1. route = rt /\ w = w0 /\ Granted(x) BY <1>1, <1>4, <2>2
    <3>2. hits[rt] < Limit BY <1>1, <3>1 DEF Granted
    <3> QED BY <1>2, <1>6, <3>1, <3>2
  <2> QED BY <2>1, <2>2
<1>7. Slots(rt, w0)' \subseteq Slots(rt, w0) \cup {r}
  BY <1>4 DEF Slots
<1>8. ASSUME NEW route \in Routes, NEW w \in Nat
      PROVE  /\ Cardinality(Slots(route, w)) \in Nat /\ Cardinality(Slots(route, w)') \in Nat
             /\ Slots(route, w)' \subseteq Slots(route, w)
                  => Cardinality(Slots(route, w)') <= Cardinality(Slots(route, w))
  <2>1. Slots(route, w)' \subseteq Requests BY DEF Slots
  <2> QED BY <2>1, SlotsFinite, RoutesAssumption, FS_Subset, FS_CardinalityType
<1>9. Cardinality(Slots(rt, w0)') <= Cardinality(Slots(rt, w0)) + 1
  BY <1>7, SlotsFinite, OneMore
<1> HIDE DEF rt, w0
<1>10. ASSUME NEW route \in Routes, route.rateLimit
       PROVE  /\ \A w \in 0 .. window[route] : Cardinality(Slots(route, w)') <= Limit
              /\ Cardinality(Slots(route, window[route])') <= hits'[route]
  <2>1. /\ \A w \in 0 .. window[route] : Cardinality(Slots(route, w)) <= Limit
        /\ Cardinality(Slots(route, window[route])) <= hits[route]
    BY <1>10 DEF LimiterInv
  <2>2. /\ window[route] \in Nat /\ hits[route] \in Nat
        /\ hits'[route] = IF route = rt THEN hits[rt] + 1 ELSE hits[route]
    BY <1>2, <1>3
  <2>3. ASSUME NEW w \in 0 .. window[route]
        PROVE  /\ Cardinality(Slots(route, w)') <= Limit
               /\ w = window[route] => Cardinality(Slots(route, w)') <= hits'[route]
    <3>1. w \in Nat BY <2>2
    <3>2. CASE route # rt \/ w # w0 \/ hits[rt] >= Limit
      <4>1. Cardinality(Slots(route, w)') <= Cardinality(Slots(route, w))
        BY <1>6, <1>8, <3>1, <3>2
      <4>2. /\ Cardinality(Slots(route, w)) \in Nat /\ Cardinality(Slots(route, w)') \in Nat
            /\ Cardinality(Slots(route, w)) <= Limit
            /\ w = window[route] => Cardinality(Slots(route, w)) <= hits[route]
        BY <1>8, <2>1, <3>1
      <4>3. hits[route] <= hits'[route] BY <1>2, <2>2
      <4> QED BY <1>2, <2>2, <4>1, <4>2, <4>3
    <3>3. CASE route = rt /\ w = w0 /\ hits[rt] < Limit
      <4>1. Cardinality(Slots(rt, w0)) <= hits[rt] BY <1>2, <2>1, <3>3
      <4>2. /\ Cardinality(Slots(rt, w0)) \in Nat /\ Cardinality(Slots(rt, w0)') \in Nat
        BY <1>2, <1>8
      <4> QED BY <1>2, <1>9, <2>2, <3>3, <4>1, <4>2
    <3> QED BY <1>2, <3>2, <3>3
  <2>4. PICK w \in 0 .. window[route] : w = window[route] BY <2>2
  <2>5. Slots(route, window[route])' = Slots(route, w)' BY <1>3, <2>4
  <2> QED BY <2>3, <2>4, <2>5
<1> QED BY <1>3, <1>5, <1>10 DEF LimiterInv

LEMMA NextWindowLimited ==
  ASSUME Inv, LimiterInv, NEW rt \in Routes, NextWindow(rt)
  PROVE  LimiterInv'
<1>1. /\ request' = request /\ hits' = [hits EXCEPT ![rt] = 0]
      /\ window' = [window EXCEPT ![rt] = @ + 1]
  BY DEF NextWindow
<1>2. window \in [Routes -> Nat] /\ hits \in [Routes -> Nat] /\ Limit \in Nat
  BY RoutesAssumption DEF Inv, TypeOK
<1>3. \A q \in Requests : /\ request[q].window \in Nat
                          /\ request[q].pc # "none" => request[q].route \in Routes
  BY DEF Inv, TypeOK, RequestRecord, RequestOK
<1>4. \A route \in Routes : window'[route] = IF route = rt THEN window[rt] + 1 ELSE window[route]
  BY <1>1, <1>2
<1>5. \A q \in Requests : request[q].pc # "none" => request[q].window <= window'[request[q].route]
  BY <1>2, <1>3, <1>4 DEF LimiterInv
<1>6. \A route, w : Slots(route, w)' = Slots(route, w) BY <1>1 DEF Slots
<1>7. Slots(rt, window[rt] + 1) = {}
  <2> SUFFICES ASSUME NEW q \in Slots(rt, window[rt] + 1) PROVE FALSE OBVIOUS
  <2>1. /\ q \in Requests /\ request[q].route = rt /\ request[q].window = window[rt] + 1
        /\ Granted(request[q])
    BY DEF Slots
  <2>2. request[q].pc # "none" BY <2>1 DEF Granted, Inv, RequestOK, Early
  <2> QED BY <1>2, <2>1, <2>2 DEF LimiterInv
<1>8. Cardinality(Slots(rt, window[rt] + 1)) = 0 BY <1>7, FS_EmptySet
<1>9. ASSUME NEW route \in Routes, route.rateLimit
      PROVE  /\ \A w \in 0 .. window'[route] : Cardinality(Slots(route, w)) <= Limit
             /\ Cardinality(Slots(route, window'[route])) <= hits'[route]
  <2>1. CASE route # rt BY <1>1, <1>2, <1>4, <1>9, <2>1 DEF LimiterInv
  <2>2. CASE route = rt
    <3>1. window'[rt] = window[rt] + 1 /\ hits'[rt] = 0 /\ window[rt] \in Nat
      BY <1>1, <1>2
    <3>2. \A w \in 0 .. window[rt] + 1 : w \in 0 .. window[rt] \/ w = window[rt] + 1
      BY <3>1
    <3> QED BY <1>2, <1>8, <1>9, <2>2, <3>1, <3>2 DEF LimiterInv
  <2> QED BY <2>1, <2>2
<1> QED BY <1>1, <1>5, <1>6, <1>9 DEF LimiterInv

(* So does the invariant of the rate limiter.                              *)
THEOREM LimiterInductive == Spec => []LimiterInv
<1>1. Init => LimiterInv
  <2> SUFFICES ASSUME Init PROVE LimiterInv OBVIOUS
  <2>1. \A r \in Requests : request[r].pc = "none" /\ ~Granted(request[r])
    BY DEF Init, NewRequest, Granted
  <2>2. \A route, w : Slots(route, w) = {} BY <2>1 DEF Slots
  <2>3. \A route, w : Cardinality(Slots(route, w)) = 0 BY <2>2, FS_EmptySet
  <2> QED BY <2>1, <2>3, RoutesAssumption DEF Init, LimiterInv
<1>2. Inv /\ Inv' /\ LimiterInv /\ [Next]_polkaVars => LimiterInv'
  <2> SUFFICES ASSUME Inv, Inv', LimiterInv, [Next]_polkaVars PROVE LimiterInv' OBVIOUS
  <2>1. CASE UNCHANGED <<request, hits, window>>
    <3>1. \A route, w : Slots(route, w)' = Slots(route, w) BY <2>1 DEF Slots
    <3> QED BY <2>1, <3>1 DEF LimiterInv
  <2>2. ASSUME NEW r \in Requests, NEW route \in Routes, Send(r, route) PROVE LimiterInv'
    BY <2>2, SendLimited
  <2>3. ASSUME NEW route \in Routes, NextWindow(route) PROVE LimiterInv'
    BY <2>3, NextWindowLimited
  <2>4. ASSUME NEW r \in Requests, PipelineStep(r) \/ ControllerStep(r) PROVE LimiterInv'
    BY <2>4, StepsAdvance, AdvanceLimited, ConsumeLimited
  <2>5. CASE ProcessExits BY <2>1, <2>5 DEF ProcessExits
  <2>6. CASE UNCHANGED polkaVars BY <2>1, <2>6 DEF polkaVars
  <2> QED BY <2>2, <2>3, <2>4, <2>5, <2>6 DEF Next, EnvironmentStep
<1> QED BY <1>1, <1>2, InvInductive, PTL DEF Spec

(* However many requests a rate limiter counts at once, and however they   *)
(* wait for its replies, no window lets more than `limit' of them reach    *)
(* the controller.                                                         *)
THEOREM RateLimited == Spec => []LimitKept
<1>1. Inv /\ LimiterInv => LimitKept
  <2> SUFFICES ASSUME Inv, LimiterInv,
                      NEW route \in Routes, NEW w \in 0 .. window[route], route.rateLimit
               PROVE  Cardinality({r \in Requests : /\ request[r].route = route
                                                    /\ request[r].window = w
                                                    /\ request[r].called}) <= Limit
    BY DEF LimitKept
  <2> DEFINE called == {r \in Requests : /\ request[r].route = route
                                         /\ request[r].window = w
                                         /\ request[r].called}
  <2>1. called \subseteq Slots(route, w) BY DEF Slots, Granted
  <2>2. Cardinality(Slots(route, w)) <= Limit BY DEF LimiterInv
  <2>3. Cardinality(called) <= Cardinality(Slots(route, w)) /\ Cardinality(called) \in Nat
    <3> HIDE DEF called
    <3> QED BY <2>1, SlotsFinite, FS_Subset, FS_CardinalityType
  <2> QED BY <2>2, <2>3, SlotsFinite, RoutesAssumption
<1> QED BY <1>1, InvInductive, LimiterInductive, PTL
=============================================================================
