------------------------------- MODULE Axios --------------------------------
(***************************************************************************)
(* packages/axios/src/index.ts: one axios instance per service, which all  *)
(* callers share with its default headers; trace(), which writes one of    *)
(* these headers; and requests, which with newrelic loaded go through      *)
(* backOff and its retries, and without it straight to the instance.       *)
(*                                                                         *)
(* A call is service(s, flags).trace(ctx).get(..) as one expression, or    *)
(* the same without trace().  backOff awaits before every attempt, also    *)
(* before the first one, and an attempt reads the default headers when it  *)
(* is sent.  External: axios, the network and the service.                 *)
(***************************************************************************)
EXTENDS Integers, Sequences, SequencesExt

CONSTANTS
  Calls,          \* the calls callers make
  Services,       \* the names given to the constructor, in order
  Configured,     \* the names the configuration defines
  Traces,         \* trace ids
  NoTrace,
  Flags,          \* the sets of RequestFlags callers pass
  MaxAttempts     \* numOfAttempts, 5 in the code

ASSUME AxiosAssumption ==
  /\ Services \in Seq(STRING)
  /\ NoTrace \notin Traces
  /\ \A flags \in Flags : flags \subseteq {"Ignore4XX", "InstrumentUrl", "NoRetry"}
  /\ MaxAttempts \in Nat \ {0}

VARIABLES
  nr,             \* newrelic is loaded
  loadState,      \* "new", "loaded", "failed", "disposed"
  instances,      \* the services that have an instance
  defaults,       \* the trace header in the defaults of each instance
  call

axiosVars == <<nr, loadState, instances, defaults, call>>

(* What an attempt came back with: a status, 0 when there was no response, *)
(* or an error that is not an axios error.                                 *)
NoResponse == 0
NotAxios == -1
Replies == {NotAxios, NoResponse, 200, 404, 503}

NewCall == [pc |-> "idle", service |-> "", flags |-> {}, own |-> NoTrace, carried |-> <<>>,
            reply |-> NoResponse, faults |-> 0, noticed |-> 0, crossed |-> FALSE]

AxiosInit ==
  /\ nr \in BOOLEAN
  /\ loadState = "new"
  /\ instances = {}
  /\ defaults = [s \in Range(Services) |-> NoTrace]
  /\ call = [c \in Calls |-> NewCall]

(* load(): a service without a definition throws, the ones before stay.    *)
Load ==
  /\ loadState = "new"
  /\ instances' = {Services[k] : k \in {k \in DOMAIN Services :
                                         \A j \in 1 .. k : Services[j] \in Configured}}
  /\ loadState' = IF Range(Services) \subseteq Configured THEN "loaded" ELSE "failed"
  /\ UNCHANGED <<nr, defaults, call>>

(* dispose() forgets the instances; calls under way hold their own.        *)
DisposeAxios ==
  /\ loadState \in {"loaded", "failed"}
  /\ loadState' = "disposed"
  /\ instances' = {}
  /\ UNCHANGED <<nr, defaults, call>>

-----------------------------------------------------------------------------
(* An attempt goes out with the header the defaults have at that moment.   *)
Transmitted(k, header) ==
  [k EXCEPT !.pc = "sent", !.carried = Append(@, header)]

(* `crossed' is history: the header of the service was written by somebody *)
(* else while this call could still send an attempt.                       *)
CrossedBy(c, s) ==
  [d \in Calls |-> IF d # c /\ call[d].service = s /\ call[d].pc \notin {"fulfilled", "rejected"}
                   THEN [call[d] EXCEPT !.crossed = TRUE]
                   ELSE call[d]]

TraceLate(c, s, trace, flags) ==      \* mutant: the header is written after the request
  LET header == IF trace = NoTrace THEN defaults[s] ELSE trace
      new == [NewCall EXCEPT !.service = s, !.flags = flags, !.own = trace]
  IN /\ call[c].pc = "idle"
     /\ s \in instances
     /\ defaults' = [defaults EXCEPT ![s] = header]
     /\ call' = [(IF trace = NoTrace THEN call ELSE CrossedBy(c, s)) EXCEPT
                   ![c] = IF nr THEN [new EXCEPT !.pc = "delayed"]
                                ELSE Transmitted(new, defaults[s])]
     /\ UNCHANGED <<nr, loadState, instances>>

Request(c, s, trace, flags) ==
  LET header == IF trace = NoTrace THEN defaults[s] ELSE trace
      new == [NewCall EXCEPT !.service = s, !.flags = flags, !.own = trace]
  IN /\ call[c].pc = "idle"
     /\ s \in instances
     /\ defaults' = [defaults EXCEPT ![s] = header]
     /\ call' = [(IF trace = NoTrace THEN call ELSE CrossedBy(c, s)) EXCEPT
                   ![c] = IF nr THEN [new EXCEPT !.pc = "delayed"]
                                ELSE Transmitted(new, header)]
     /\ UNCHANGED <<nr, loadState, instances>>

(* service() throws for a service without an instance.                     *)
ServiceMissing(c, s) ==
  /\ call[c].pc = "idle"
  /\ s \notin instances
  /\ call' = [call EXCEPT ![c].pc = "rejected", ![c].reply = NotAxios]
  /\ UNCHANGED <<nr, loadState, instances, defaults>>

(* backOff's delay is over.                                                *)
Attempt(c) ==
  /\ call[c].pc = "delayed"
  /\ call' = [call EXCEPT ![c] = Transmitted(@, defaults[call[c].service])]
  /\ UNCHANGED <<nr, loadState, instances, defaults>>

-----------------------------------------------------------------------------
(* The answer of the service, of a proxy before it, or none: the request   *)
(* or its answer is lost, or the service applies it after the timeout.     *)
(* `faults' counts the answers that are 5xx.                               *)
Reply(c, reply) ==
  /\ call[c].pc = "sent"
  /\ call' = [call EXCEPT ![c].pc = "replied", ![c].reply = reply,
                          ![c].faults = @ + (IF reply >= 500 THEN 1 ELSE 0)]
  /\ UNCHANGED <<nr, loadState, instances, defaults>>

-----------------------------------------------------------------------------
(* The options of backOff and the catch behind it.                         *)
RetriesLost(k) ==      \* mutant: a request without a response is sent again
  /\ nr
  /\ "NoRetry" \notin k.flags
  /\ k.reply # NotAxios
  /\ k.reply >= 500 \/ k.reply = NoResponse
  /\ Len(k.carried) < MaxAttempts

Retries(k) ==
  /\ nr
  /\ "NoRetry" \notin k.flags
  /\ k.reply # NotAxios
  /\ k.reply >= 500
  /\ Len(k.carried) < MaxAttempts

Notices(k) ==
  /\ nr
  /\ k.reply # NotAxios
  /\ \/ k.reply >= 500
     \/ k.reply >= 400 /\ k.reply < 500 /\ "Ignore4XX" \notin k.flags

Fulfil(c) ==
  /\ call[c].pc = "replied"
  /\ call[c].reply = 200
  /\ call' = [call EXCEPT ![c].pc = "fulfilled"]
  /\ UNCHANGED <<nr, loadState, instances, defaults>>

RetryNoticed(c) ==      \* mutant: every 5xx is noticed
  /\ call[c].pc = "replied"
  /\ call[c].reply # 200
  /\ Retries(call[c])
  /\ call' = [call EXCEPT ![c].pc = "delayed", ![c].noticed = @ + 1]
  /\ UNCHANGED <<nr, loadState, instances, defaults>>

Retry(c) ==
  /\ call[c].pc = "replied"
  /\ call[c].reply # 200
  /\ Retries(call[c])
  /\ call' = [call EXCEPT ![c].pc = "delayed"]
  /\ UNCHANGED <<nr, loadState, instances, defaults>>

Reject(c) ==
  /\ call[c].pc = "replied"
  /\ call[c].reply # 200
  /\ ~Retries(call[c])
  /\ call' = [call EXCEPT ![c].pc = "rejected",
                          ![c].noticed = @ + (IF Notices(call[c]) THEN 1 ELSE 0)]
  /\ UNCHANGED <<nr, loadState, instances, defaults>>

-----------------------------------------------------------------------------
CallStep(c) ==
  \/ Attempt(c)
  \/ \E reply \in Replies : Reply(c, reply)
  \/ Fulfil(c) \/ Retry(c) \/ Reject(c)

CallMade(c) ==
  \/ \E s \in Range(Services), trace \in Traces \cup {NoTrace}, flags \in Flags :
       Request(c, s, trace, flags)
  \/ \E s \in Range(Services) : ServiceMissing(c, s)

AxiosNext == Load \/ DisposeAxios \/ \E c \in Calls : CallMade(c) \/ CallStep(c)

AxiosSpec == AxiosInit /\ [][AxiosNext]_axiosVars

-----------------------------------------------------------------------------
CallRecord ==
  [pc : {"idle", "delayed", "sent", "replied", "fulfilled", "rejected"},
   service : Range(Services) \cup {""}, flags : Flags \cup {{}},
   own : Traces \cup {NoTrace}, carried : Seq(Traces \cup {NoTrace}),
   reply : Replies, faults : Nat, noticed : Nat, crossed : BOOLEAN]

(* Every variable has its type.                                            *)
AxiosTypeOK ==
  /\ nr \in BOOLEAN
  /\ loadState \in {"new", "loaded", "failed", "disposed"}
  /\ instances \subseteq Range(Services)
  /\ defaults \in [Range(Services) -> Traces \cup {NoTrace}]
  /\ call \in [Calls -> CallRecord]

(* A call is sent again only for each 5xx it was answered with, so that a  *)
(* service applies it once for a lost answer, a timeout or a 4xx; nothing  *)
(* is sent again with NoRetry (retry), nor without newrelic, where the     *)
(* request goes past backOff (the test of nr in the proxy).                *)
RepeatedOnlyAfter5XX ==
  \A c \in Calls :
    /\ Len(call[c].carried) <= 1 + call[c].faults
    /\ "NoRetry" \in call[c].flags \/ ~nr => Len(call[c].carried) <= 1
    /\ Len(call[c].carried) <= MaxAttempts

(* New Relic hears of a call once, when it is over, and exactly when it    *)
(* has failed with a 5xx in the end, or with a 4xx that the caller did not *)
(* ask to ignore: a 5xx that a retry made good, and a failure without a    *)
(* response, are not noticed (the catch behind backOff).                   *)
NoticedOnceAtTheEnd ==
  \A c \in Calls :
    call[c].noticed = IF /\ call[c].pc = "rejected" /\ nr
                         /\ \/ call[c].reply >= 500
                            \/ call[c].reply \in 400 .. 499 /\ "Ignore4XX" \notin call[c].flags
                      THEN 1 ELSE 0

(* A call carries its own trace as long as nobody else writes the shared   *)
(* header before its last attempt; without newrelic always.                *)
OwnTrace(c) == \A k \in DOMAIN call[c].carried : call[c].carried[k] = call[c].own

TraceKept ==
  \A c \in Calls : call[c].own # NoTrace /\ (~nr \/ ~call[c].crossed) => OwnTrace(c)

(* "To propagate trace IDs for distributed tracing": what the README says  *)
(* of trace(), of every call.                                              *)
TracePropagates == \A c \in Calls : call[c].own # NoTrace => OwnTrace(c)
=============================================================================
