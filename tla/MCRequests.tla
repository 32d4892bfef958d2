----------------------------- MODULE MCRequests -----------------------------
(* Small instances of Requests: a route with every stage, one with none,   *)
(* a mounted directory and a path without a route.                         *)
EXTENDS Requests

FullRoute == [kind |-> "route", serde |-> TRUE, authentication |-> TRUE, ctx |-> TRUE,
              rateLimit |-> TRUE, schema |-> TRUE]
BareRoute == [NoRoute EXCEPT !.kind = "route"]
Static == [NoRoute EXCEPT !.kind = "static"]

MCRoutes == {FullRoute, Static, NoRoute}
BareRoutes == {BareRoute}
MCServices == <<"echo">>
MCFlags == {{}, {"NoRetry", "Ignore4XX"}}
NoFlags == {{}}
MCTraceOf == [r \in Requests |-> r]
=============================================================================
