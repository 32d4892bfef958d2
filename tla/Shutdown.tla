------------------------------ MODULE Shutdown ------------------------------
(***************************************************************************)
(* What the Cortec context promises about ending the process, with the     *)
(* modules, the order of their disposal and the timers left out: there is  *)
(* a gate; a request to stop passes it only when it is open, closes it,    *)
(* and from then on its exit code is one the process may end with; loading *)
(* opens the gate again.  Nothing happens after the process has ended.     *)
(***************************************************************************)
EXTENDS Integers, Sequences

CONSTANTS Codes        \* the exit codes that are passed to dispose()

VARIABLES
  open,                \* a request to stop is accepted
  accepted,            \* Seq(Codes): the codes of the accepted requests
  ended                \* the code the process ended with, NotEnded before

NotEnded == -1

abstractVars == <<open, accepted, ended>>

AInit == open = TRUE /\ accepted = <<>> /\ ended = NotEnded

(* A request arrives while the gate is open. *)
Accept(c) ==
  /\ open
  /\ open' = FALSE
  /\ accepted' = Append(accepted, c)
  /\ UNCHANGED ended

(* Loading opens the gate. *)
Reopen ==
  /\ open' = TRUE
  /\ UNCHANGED <<accepted, ended>>

(* Only the code of an accepted request ends the process, and only when it *)
(* is not negative.                                                        *)
End(c) ==
  /\ \E k \in DOMAIN accepted : accepted[k] = c
  /\ c >= 0
  /\ ended' = c
  /\ UNCHANGED <<open, accepted>>

ANext ==
  /\ ended = NotEnded
  /\ \/ \E c \in Codes : Accept(c) \/ End(c)
     \/ Reopen

ASpec == AInit /\ [][ANext]_abstractVars
=============================================================================
