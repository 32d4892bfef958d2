------------------------------ MODULE Requests ------------------------------
(***************************************************************************)
(* The composition of Polka and Axios: the controller of a request makes   *)
(* one call of another service with the request's trace, as the controller *)
(* of packages/test/src/api/router.ts does, and its promise follows the    *)
(* promise of the call.  newrelic is loaded for both or for none.  The     *)
(* context loads axios before the server listens, and disposes it when the *)
(* process stops.                                                          *)
(***************************************************************************)
EXTENDS Polka, Axios

CONSTANTS
  Service,        \* the service the controllers call
  TraceOf         \* [Requests -> Traces]: the request's header, or nanoid()

ASSUME RequestsAssumption ==
  /\ Calls = Requests
  /\ Service \in Range(Services)
  /\ TraceOf \in [Requests -> Traces]

requestsVars == <<polkaVars, axiosVars>>

RequestsInit == Init /\ AxiosInit /\ nr = newrelic

(* The server listens once axios is loaded. *)
Listening == loadState # "new"

-----------------------------------------------------------------------------
(* The controller of request r, up to the await of its call. *)
ControllerCalls(r) ==
  /\ At(r, "controller")
  /\ \/ \E flags \in Flags : Request(r, Service, TraceOf[r], flags)
     \/ ServiceMissing(r, Service)
  /\ UNCHANGED polkaVars

(* It goes on when the call has settled; it does not catch its error.      *)
ControllerGoesOn(r) ==
  /\ \/ call[r].pc = "fulfilled" /\ ControllerStep(r)
     \/ call[r].pc = "rejected" /\ ControllerFails(r, "controller")
  /\ UNCHANGED axiosVars

Serves(r) == Listening /\ PipelineStep(r) /\ UNCHANGED axiosVars

CallsOn(r) == ~exited /\ CallStep(r) /\ UNCHANGED polkaVars

Environment == Listening /\ EnvironmentStep /\ UNCHANGED axiosVars

Loads == Load /\ UNCHANGED polkaVars

Disposes == stopping /\ ~exited /\ DisposeAxios /\ UNCHANGED polkaVars

RequestsNext ==
  \/ Loads \/ Disposes \/ Environment
  \/ \E r \in Requests : Serves(r) \/ ControllerCalls(r) \/ ControllerGoesOn(r) \/ CallsOn(r)

RequestsSpec == RequestsInit /\ [][RequestsNext]_requestsVars

(* The event loop runs what is due; the functions of the application,      *)
(* Redis, the files and the called service settle (the last by the timeout *)
(* of axios' configuration); a stopping process exits.                     *)
RequestsFairness ==
  /\ WF_requestsVars(ProcessExits /\ UNCHANGED axiosVars)
  /\ \A r \in Requests :
       /\ WF_requestsVars(Serves(r))
       /\ WF_requestsVars(ControllerCalls(r) \/ ControllerGoesOn(r))
       /\ WF_requestsVars(CallsOn(r))

FairRequestsSpec == RequestsSpec /\ RequestsFairness

-----------------------------------------------------------------------------
TypesOK == TypeOK /\ AxiosTypeOK
=============================================================================
