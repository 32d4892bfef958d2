------------------------------- MODULE Redis --------------------------------
(***************************************************************************)
(* packages/redis/src/main.ts: the transformers that make an object a      *)
(* Redis hash and a hash an object again.  (Connecting and closing the     *)
(* caches is in Clients.)                                                  *)
(*                                                                         *)
(* An object is the sequence of its fields in the order of Object.keys.    *)
(* null, a Date and {} are the same to objectToArray: an object without    *)
(* fields.  A key is a sequence of parts, the string that joins them with  *)
(* dots, so "a.b" as one key and b inside a are the same once joined.      *)
(* External: ioredis and the commands of Redis.                            *)
(***************************************************************************)
EXTENDS Integers, Sequences, SequencesExt

CONSTANTS
  Keys,           \* keys of objects
  Values,         \* the objects, what they have in them, and scalars
  Depth,          \* how many objects there are below each other in a value
  MaxDepth,       \* bound: the depth of a value
  MaxFields,      \* bound: the fields of an object
  Documents,      \* the objects that are written first
  Updates,        \* the objects that are written afterwards
  MaxWrites       \* bound: calls of hset

None == "none"
Field(key, value) == <<key, value>>

(* A scalar is a name for one of its kind. *)
Kinds == {"text", "number", "NaN", "undefined"}
Scalar(kind) == [scalar |-> kind, fields |-> <<>>]
Object(fields) == [scalar |-> None, fields |-> fields]
IsObject(value) == value.scalar = None

(* A key has one part at least, and no object is inside itself (the code   *)
(* would not return from one that is).                                     *)
ASSUME RedisAssumption ==
  /\ Keys \subseteq Seq(STRING) \ {<<>>}
  /\ MaxDepth \in Nat /\ MaxFields \in Nat
  /\ Depth \in [Values -> 0 .. MaxDepth]
  /\ \A value \in Values :
       \/ value.scalar \in Kinds /\ value = Scalar(value.scalar)
       \/ /\ value = Object(value.fields)
          /\ value.fields \in Seq(Keys \X Values) /\ Len(value.fields) <= MaxFields
          /\ \A n \in DOMAIN value.fields : Depth[value.fields[n][2]] < Depth[value]
  /\ \A object \in Documents \cup Updates : object \in Values /\ IsObject(object)

VARIABLES
  hash,           \* key -> what Redis stores, a string
  before,         \* history: the hash before the last hset
  written,        \* history: the object of the last hset
  outcome,        \* what the last hset came to: "none", "ok", "rejected"
  writes

vars == <<hash, before, written, outcome, writes>>

-----------------------------------------------------------------------------
(* fast-safe-stringify of a scalar, as ioredis writes it, and parseJSON of *)
(* what comes back.  undefined is written as the empty string, which is    *)
(* not JSON and stays what it is; NaN is written as null.                  *)
Stringify(kind) ==
  CASE kind = "text" -> "json of text"
    [] kind = "number" -> "json of number"
    [] kind = "NaN" -> "json of null"
    [] kind = "undefined" -> "nothing"

ParseJSON(data) ==
  CASE data = "json of text" -> "text"
    [] data = "json of number" -> "number"
    [] data = "json of null" -> "null"
    [] data = "nothing" -> "empty text"

(* objectToArray(obj, prefix, arr).  A prefix that is the empty string is  *)
(* taken for none.                                                         *)
NoPrefix == <<>>
Empty == <<"">>

PrefixedAlways(prefix, key) ==      \* mutant: the empty string is a prefix too
  IF prefix = NoPrefix THEN key ELSE prefix \o key

Prefixed(prefix, key) == IF prefix \in {NoPrefix, Empty} THEN key ELSE prefix \o key

ObjectToArray[call \in Values \X Seq(STRING)] ==
  LET fields == call[1].fields
  IN  FlattenSeq([n \in DOMAIN fields |->
        LET key == Prefixed(call[2], fields[n][1])
            value == fields[n][2]
        IN  IF IsObject(value) THEN ObjectToArray[<<value, key>>]
                               ELSE <<<<key, Stringify(value.scalar)>>>>])

(* HSET of Redis: the pairs are set one after the other. *)
SetFields(h, pairs) ==
  LET changed == {pairs[k][1] : k \in DOMAIN pairs}
      LastOf(key) == CHOOSE k \in DOMAIN pairs :
                       /\ pairs[k][1] = key
                       /\ \A j \in DOMAIN pairs : pairs[j][1] = key => j <= k
  IN [key \in DOMAIN h \cup changed |->
       IF key \in changed THEN pairs[LastOf(key)][2] ELSE h[key]]

(* The reply transformer of hgetall: arrayToObject. *)
HGetAll == [key \in DOMAIN hash |-> ParseJSON(hash[key])]

-----------------------------------------------------------------------------
Init ==
  /\ hash = <<>>
  /\ before = <<>>
  /\ written = Object(<<>>)
  /\ outcome = "none"
  /\ writes = 0

(* hset(key, object): an object that gives no pair makes a command without *)
(* fields, which Redis rejects.                                            *)
HSet(object) ==
  LET pairs == ObjectToArray[<<object, NoPrefix>>] IN
  /\ writes < MaxWrites
  /\ writes' = writes + 1
  /\ before' = hash
  /\ written' = object
  /\ hash' = IF pairs = <<>> THEN hash ELSE SetFields(hash, pairs)
  /\ outcome' = IF pairs = <<>> THEN "rejected" ELSE "ok"

Next == \E object \in IF writes = 0 THEN Documents ELSE Updates : HSet(object)

Spec == Init /\ [][Next]_vars

-----------------------------------------------------------------------------
(* A reference for the transformers.  A leaf of an object is a path of     *)
(* positions that ends at a scalar; its name joins the keys on the path,   *)
(* where an empty key adds nothing to what is below it when it comes first. *)
Positions == UNION {[1 .. n -> 1 .. MaxFields] : n \in 1 .. MaxDepth}

(* The values on the way along a path, the object itself first. *)
Along(object, path) ==
  LET v[n \in 0 .. Len(path)] ==
        IF n = 0 THEN object
        ELSE IF path[n] \in DOMAIN v[n - 1].fields THEN v[n - 1].fields[path[n]][2]
             ELSE Object(<<>>)
  IN v

IsLeaf(object, path) == ~IsObject(Along(object, path)[Len(path)])

KeysAlong(object, path) ==
  [n \in 1 .. Len(path) |-> Along(object, path)[n - 1].fields[path[n]][1]]

Name(keys) ==
  LET first == CHOOSE n \in 1 .. Len(keys) :
                 /\ keys[n] # Empty \/ n = Len(keys)
                 /\ \A m \in 1 .. n - 1 : keys[m] = Empty
  IN FlattenSeq(SubSeq(keys, first, Len(keys)))

NameOf(object, path) == Name(KeysAlong(object, path))

Later(p, q) ==      \* p comes after q in the object
  \E n \in 1 .. Len(p) : /\ n <= Len(q) /\ p[n] > q[n]
                         /\ \A m \in 1 .. n - 1 : p[m] = q[m]

Survives(kind) ==
  CASE kind = "NaN" -> "null" [] kind = "undefined" -> "empty text" [] OTHER -> kind

(* What hgetall gives back after hset(object): each leaf of the object     *)
(* under its name, the last one where names collide, text and numbers as   *)
(* they were; the fields written earlier that the object does not name;    *)
(* and nothing else (objectToArray, arrayToObject).  An object without a   *)
(* leaf changes nothing.                                                   *)
RoundTrip ==
  LET leaves == {p \in Positions : IsLeaf(written, p)}
      names == {NameOf(written, p) : p \in leaves}
  IN outcome # "none" =>
     /\ (outcome = "rejected") = (leaves = {})
     /\ DOMAIN HGetAll = DOMAIN before \cup names
     /\ \A key \in DOMAIN before \ names : hash[key] = before[key]
     /\ \A p \in leaves :
          (\A q \in leaves : NameOf(written, q) = NameOf(written, p) => ~Later(q, p))
            => HGetAll[NameOf(written, p)] = Survives(Along(written, p)[Len(p)].scalar)
=============================================================================
