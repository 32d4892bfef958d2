-------------------------- MODULE MCDynamicConfig --------------------------
(* A small instance of DynamicConfig: parsing changes one configuration    *)
(* and leaves another, a false value, as it is.                            *)
EXTENDS DynamicConfig

MCParse == [v \in Valid |-> IF v = "a" THEN "parsed a" ELSE v]
=============================================================================
