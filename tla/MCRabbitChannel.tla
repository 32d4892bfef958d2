-------------------------- MODULE MCRabbitChannel --------------------------
(* Small instances of RabbitChannel.                                       *)
EXTENDS RabbitChannel

CONSTANTS d1, d2, q1, q2

MCQueueOf == [d \in Deliveries |-> q1]

(* No dispose(), channels are lost with their connections, and the last    *)
(* connection stays.                                                       *)
StableNext ==
  /\ Next
  /\ disposal'.pc = "no"
  /\ open \ open' \subseteq up \ up'
  /\ up \ up' \subseteq 1..(MaxChannels - 1)

StableSpec == Init /\ [][StableNext]_vars /\ Fairness
=============================================================================
