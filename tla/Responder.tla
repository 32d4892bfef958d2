----------------------------- MODULE Responder ------------------------------
(***************************************************************************)
(* What the HTTP pipeline promises of every request, with its stages left  *)
(* out: a request that came in is answered once and for all, or it is lost *)
(* to an error that reaches the process.  Such an error makes the process  *)
(* stop, unless it is a rejection and the process tolerates rejections;    *)
(* nothing else does, and nothing happens after the process has exited.    *)
(***************************************************************************)
CONSTANTS
  Requests,
  Answers,        \* what a request may be answered with
  NoAnswer

VARIABLES
  state,          \* [Requests -> {"none", "open", "answered", "rejected", "thrown"}]
  answer,         \* [Requests -> Answers \cup {NoAnswer}]
  tolerant,       \* rejections that nobody handles are only reported
  stops,          \* the process has begun to stop
  over            \* the process has exited

responderVars == <<state, answer, tolerant, stops, over>>

RInit ==
  /\ state = [r \in Requests |-> "none"]
  /\ answer = [r \in Requests |-> NoAnswer]
  /\ tolerant \in BOOLEAN
  /\ stops = FALSE
  /\ over = FALSE

Open(r) ==
  /\ state[r] = "none"
  /\ state' = [state EXCEPT ![r] = "open"]
  /\ UNCHANGED <<answer, tolerant, stops, over>>

Answer(r, a) ==
  /\ state[r] = "open"
  /\ answer' = [answer EXCEPT ![r] = a]
  /\ state' = [state EXCEPT ![r] = "answered"]
  /\ UNCHANGED <<tolerant, stops, over>>

(* A promise rejects, or an exception is thrown, and nobody catches it. *)
Reject(r) ==
  /\ state[r] = "open"
  /\ state' = [state EXCEPT ![r] = "rejected"]
  /\ stops' = (stops \/ ~tolerant)
  /\ UNCHANGED <<answer, tolerant, over>>

Throw(r) ==
  /\ state[r] = "open"
  /\ state' = [state EXCEPT ![r] = "thrown"]
  /\ stops' = TRUE
  /\ UNCHANGED <<answer, tolerant, over>>

Exit ==
  /\ stops
  /\ over' = TRUE
  /\ UNCHANGED <<state, answer, tolerant, stops>>

RNext ==
  /\ ~over
  /\ \/ \E r \in Requests : \/ Open(r) \/ Reject(r) \/ Throw(r)
                          \/ \E a \in Answers : Answer(r, a)
     \/ Exit

RSpec == RInit /\ [][RNext]_responderVars
=============================================================================
