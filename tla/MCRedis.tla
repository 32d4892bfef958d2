------------------------------ MODULE MCRedis -------------------------------
(* Objects of up to two fields and three levels, with colliding keys, one  *)
(* with a dot and the empty one.                                           *)
EXTENDS Redis

MCKeys == {<<"a">>, <<"a", "b">>, <<"b">>, <<"">>}
MCScalars == {Scalar(kind) : kind \in {"text", "undefined"}}
MoreScalars == MCScalars \cup {Scalar("number"), Scalar("NaN")}

AtMostOne(values) == {Object(<<>>)} \cup {Object(<<Field(k, v)>>) : k \in MCKeys, v \in values}

Inner == AtMostOne(MCScalars)
Middle == AtMostOne(MCScalars \cup Inner)

MCDocuments ==
  AtMostOne(MCScalars \cup Middle) \cup
  {Object(<<Field(k, v), Field(j, w)>>) : <<k, j>> \in {e \in MCKeys \X MCKeys : e[1] # e[2]},
                                          v \in MCScalars \cup Middle, w \in MCScalars \cup Inner}
MCUpdates == AtMostOne(MoreScalars)

MCValues == MoreScalars \cup MCDocuments \cup MCUpdates
MCDepth == [value \in MCValues |-> IF value \in MoreScalars THEN 0
                                   ELSE IF value \in Inner \cup MCUpdates THEN 1
                                   ELSE IF value \in Middle THEN 2 ELSE 3]
=============================================================================
