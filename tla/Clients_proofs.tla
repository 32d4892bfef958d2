--------------------------- MODULE Clients_proofs ---------------------------
(***************************************************************************)
(* Theorems about Clients, for any number of identities, of calls of       *)
(* load() and of calls of dispose().                                       *)
(***************************************************************************)
EXTENDS Clients, SequenceTheorems, TLAPS

(* What the theorems need of a module: the order of the operations of its  *)
(* load(), and that dispose() comes to everything it stores.               *)
OpNames == {"read", "create", "open", "fetch", "listen", "ping", "float", "store"}
Ops == [op : OpNames, id : Slots]

Opener == {"create", "open", "listen"}
Failing == {"read", "open", "fetch", "listen", "ping"}
Verifying == {"open", "listen", "ping"}

Stores(program, id) == \E s \in DOMAIN program : program[s] = Op("store", id)

AllStored(program) ==
  \A p \in DOMAIN program : program[p].op \in Opener => Stores(program, program[p].id)

(* Only postgres and opensearch store after their ping.                    *)
Excused(name) == name \in {"postgres", "opensearch", "testable opensearch"}

(* What is opened before an operation that may fail is stored before it,   *)
(* unless that is its own ping and the module is one of those excused.     *)
StoreFirst(program, name) ==
  \A p, q \in DOMAIN program :
    p < q /\ program[p].op \in Opener /\ program[q].op \in Failing =>
      \/ \E s \in DOMAIN program : s < q /\ program[s] = Op("store", program[p].id)
      \/ Excused(name) /\ program[q] = Op("ping", program[p].id)

GoodProgram(program, name) ==
  program \in Seq(Ops) /\ AllStored(program) /\ StoreFirst(program, name)

Verifies(program) ==
  \A p \in DOMAIN program : program[p].op = "store" =>
    \E v \in DOMAIN program : program[v].op \in Verifying /\ program[v].id = program[p].id

-----------------------------------------------------------------------------
(* The operations of one identity after the other.                         *)
Place(n, id, k) == (id - 1) * n + k
Places(n) == 1 .. n * NumIds
IdAt(n, p) == ((p - 1) \div n) + 1
StepAt(n, p) == ((p - 1) % n) + 1

LEMMA PlaceOf ==
  ASSUME NEW n \in {1, 2, 3, 4}, NEW p \in Places(n)
  PROVE  /\ IdAt(n, p) \in Identities /\ StepAt(n, p) \in 1 .. n
         /\ p = Place(n, IdAt(n, p), StepAt(n, p))
<1>1. CASE n = 1 BY <1>1, ClientsAssumption DEF Place, Places, IdAt, StepAt, Identities
<1>2. CASE n = 2 BY <1>2, ClientsAssumption DEF Place, Places, IdAt, StepAt, Identities
<1>3. CASE n = 3 BY <1>3, ClientsAssumption DEF Place, Places, IdAt, StepAt, Identities
<1>4. CASE n = 4 BY <1>4, ClientsAssumption DEF Place, Places, IdAt, StepAt, Identities
<1> QED BY <1>1, <1>2, <1>3, <1>4

LEMMA PlaceIs ==
  ASSUME NEW n \in {1, 2, 3, 4}, NEW id \in Identities, NEW k \in 1 .. n
  PROVE  /\ Place(n, id, k) \in Places(n)
         /\ IdAt(n, Place(n, id, k)) = id
         /\ StepAt(n, Place(n, id, k)) = k
<1>1. CASE n = 1 BY <1>1, ClientsAssumption DEF Place, Places, IdAt, StepAt, Identities
<1>2. CASE n = 2 BY <1>2, ClientsAssumption DEF Place, Places, IdAt, StepAt, Identities
<1>3. CASE n = 3 BY <1>3, ClientsAssumption DEF Place, Places, IdAt, StepAt, Identities
<1>4. CASE n = 4 BY <1>4, ClientsAssumption DEF Place, Places, IdAt, StepAt, Identities
<1> QED BY <1>1, <1>2, <1>3, <1>4

LEMMA PlaceOrder ==
  ASSUME NEW n \in {1, 2, 3, 4}, NEW i \in Identities, NEW j \in Identities,
         NEW k \in 1 .. n, NEW m \in 1 .. n
  PROVE  Place(n, i, k) < Place(n, j, m) <=> i < j \/ (i = j /\ k < m)
<1>1. CASE n = 1 BY <1>1, ClientsAssumption DEF Place, Identities
<1>2. CASE n = 2 BY <1>2, ClientsAssumption DEF Place, Identities
<1>3. CASE n = 3 BY <1>3, ClientsAssumption DEF Place, Identities
<1>4. CASE n = 4 BY <1>4, ClientsAssumption DEF Place, Identities
<1> QED BY <1>1, <1>2, <1>3, <1>4

LEMMA ForEachFields ==
  ASSUME NEW steps \in Seq(OpNames), Len(steps) \in {1, 2, 3, 4}
  PROVE  /\ ForEach(steps) \in Seq(Ops)
         /\ \A p \in DOMAIN ForEach(steps) :
              \E id \in Identities, k \in 1 .. Len(steps) :
                p = Place(Len(steps), id, k) /\ ForEach(steps)[p] = Op(steps[k], id)
         /\ \A id \in Identities, k \in 1 .. Len(steps) :
              /\ Place(Len(steps), id, k) \in DOMAIN ForEach(steps)
              /\ ForEach(steps)[Place(Len(steps), id, k)] = Op(steps[k], id)
<1> DEFINE f == ForEach(steps)
<1>0. PICK n \in {1, 2, 3, 4} : n = Len(steps) OBVIOUS
<1>1. f = [p \in Places(n) |-> Op(steps[StepAt(n, p)], IdAt(n, p))]
  BY <1>0 DEF ForEach, Places, StepAt, IdAt
<1>2. DOMAIN f = Places(n) BY <1>1
<1>3. \A p \in Places(n) : f[p] = Op(steps[StepAt(n, p)], IdAt(n, p)) BY <1>1
<1>4. ASSUME NEW p \in Places(n)
      PROVE  \E id \in Identities, k \in 1 .. n : p = Place(n, id, k) /\ f[p] = Op(steps[k], id)
  BY <1>3, PlaceOf
<1>5. ASSUME NEW id \in Identities, NEW k \in 1 .. n
      PROVE  Place(n, id, k) \in Places(n) /\ f[Place(n, id, k)] = Op(steps[k], id)
  BY <1>3, PlaceIs
<1>6. \A k \in 1 .. n : steps[k] \in OpNames BY <1>0
<1>7. ASSUME NEW p \in Places(n) PROVE f[p] \in Ops
  <2>1. PICK id \in Identities, k \in 1 .. n : f[p] = Op(steps[k], id) BY <1>4
  <2> QED BY <1>6, <2>1 DEF Op, Ops, Slots
<1>8. f \in Seq(Ops)
  <2>1. PICK size \in Nat : Places(n) = 1 .. size BY ClientsAssumption DEF Places
  <2> QED BY <1>1, <1>7, <2>1
<1> QED BY <1>0, <1>2, <1>4, <1>5, <1>8

(* It is enough to look at the operations of one identity.                 *)
LEMMA ForEachGood ==
  ASSUME NEW steps \in Seq(OpNames), Len(steps) \in {1, 2, 3, 4}, NEW name,
         NEW s \in 1 .. Len(steps), steps[s] = "store",
         \A k, j \in 1 .. Len(steps) :
           k < j /\ steps[k] \in Opener /\ steps[j] \in Failing =>
             s < j \/ (Excused(name) /\ steps[j] = "ping")
  PROVE  GoodProgram(ForEach(steps), name)
<1> DEFINE n == Len(steps)
           f == ForEach(steps)
<1>1. \A id \in Identities : /\ Place(n, id, s) \in DOMAIN f
                             /\ f[Place(n, id, s)] = Op("store", id)
  BY ForEachFields
<1>2. AllStored(f)
  <2> SUFFICES ASSUME NEW p \in DOMAIN f PROVE Stores(f, f[p].id) BY DEF AllStored
  <2>1. f[p].id \in Identities BY ForEachFields DEF Op
  <2> QED BY <1>1, <2>1 DEF Stores
<1>3. StoreFirst(f, name)
  <2> SUFFICES ASSUME NEW p \in DOMAIN f, NEW q \in DOMAIN f, p < q,
                      f[p].op \in Opener, f[q].op \in Failing
               PROVE  \/ \E r \in DOMAIN f : r < q /\ f[r] = Op("store", f[p].id)
                      \/ Excused(name) /\ f[q] = Op("ping", f[p].id)
    BY DEF StoreFirst
  <2>1. PICK i \in Identities, k \in 1 .. n : p = Place(n, i, k) /\ f[p] = Op(steps[k], i)
    BY ForEachFields
  <2>2. PICK j \in Identities, m \in 1 .. n : q = Place(n, j, m) /\ f[q] = Op(steps[m], j)
    BY ForEachFields
  <2>3. i < j \/ (i = j /\ k < m) BY <2>1, <2>2, PlaceOrder
  <2>4. f[p].op = steps[k] /\ f[p].id = i /\ f[q].op = steps[m] BY <2>1, <2>2 DEF Op
  <2>5. CASE i < j
    <3>1. Place(n, i, s) < q BY <2>2, <2>5, PlaceOrder
    <3> QED BY <1>1, <2>4, <3>1
  <2>6. CASE i = j /\ k < m
    <3>1. s < m \/ (Excused(name) /\ steps[m] = "ping") BY <2>4, <2>6
    <3>2. CASE s < m
      <4>1. Place(n, i, s) < q BY <2>2, <2>6, <3>2, PlaceOrder
      <4> QED BY <1>1, <2>4, <4>1
    <3>3. CASE Excused(name) /\ steps[m] = "ping" BY <2>2, <2>4, <2>6, <3>3
    <3> QED BY <3>1, <3>2, <3>3
  <2> QED BY <2>3, <2>5, <2>6
<1> QED BY <1>2, <1>3, ForEachFields DEF GoodProgram

LEMMA ForEachVerifies ==
  ASSUME NEW steps \in Seq(OpNames), Len(steps) \in {1, 2, 3, 4},
         \E v \in 1 .. Len(steps) : steps[v] \in Verifying
  PROVE  Verifies(ForEach(steps))
<1> DEFINE f == ForEach(steps)
<1> PICK v \in 1 .. Len(steps) : steps[v] \in Verifying OBVIOUS
<1> SUFFICES ASSUME NEW p \in DOMAIN f
             PROVE  \E w \in DOMAIN f : f[w].op \in Verifying /\ f[w].id = f[p].id
  BY DEF Verifies
<1>1. f[p].id \in Identities BY ForEachFields DEF Op
<1>2. /\ Place(Len(steps), f[p].id, v) \in DOMAIN f
      /\ f[Place(Len(steps), f[p].id, v)] = Op(steps[v], f[p].id)
  BY <1>1, ForEachFields
<1> QED BY <1>2 DEF Op

(* One program after another, as a testable module and redis have it.      *)
LEMMA ConcatGood ==
  ASSUME NEW a, NEW b, NEW name,
         GoodProgram(a, name), GoodProgram(b, name)
  PROVE  GoodProgram(a \o b, name)
<1> DEFINE f == a \o b
<1>0. a \in Seq(Ops) /\ b \in Seq(Ops) BY DEF GoodProgram
<1>1. /\ f \in Seq(Ops) /\ DOMAIN f = 1 .. Len(a) + Len(b)
      /\ DOMAIN a = 1 .. Len(a) /\ DOMAIN b = 1 .. Len(b)
      /\ Len(a) \in Nat /\ Len(b) \in Nat
  BY <1>0, ConcatProperties
<1>2. \A p \in DOMAIN a : p \in DOMAIN f /\ f[p] = a[p]
  BY <1>0, <1>1, ConcatProperties
<1>3. \A p \in DOMAIN b : p + Len(a) \in DOMAIN f /\ f[p + Len(a)] = b[p]
  BY <1>0, <1>1, ConcatProperties
<1>4. \A p \in DOMAIN f : p \in DOMAIN a \/ (p - Len(a) \in DOMAIN b /\ f[p] = b[p - Len(a)])
  BY <1>0, <1>1, ConcatProperties
<1> HIDE DEF f
<1>5. \A id : Stores(a, id) \/ Stores(b, id) => Stores(f, id)
  BY <1>2, <1>3 DEF Stores
<1>6. AllStored(f)
  <2> SUFFICES ASSUME NEW p \in DOMAIN f, f[p].op \in Opener PROVE Stores(f, f[p].id)
    BY DEF AllStored
  <2>1. CASE p \in DOMAIN a BY <1>2, <1>5, <2>1 DEF GoodProgram, AllStored
  <2>2. CASE p - Len(a) \in DOMAIN b /\ f[p] = b[p - Len(a)]
    BY <1>5, <2>2 DEF GoodProgram, AllStored
  <2> QED BY <1>4, <2>1, <2>2
<1>7. StoreFirst(f, name)
  <2> SUFFICES ASSUME NEW p \in DOMAIN f, NEW q \in DOMAIN f, p < q,
                      f[p].op \in Opener, f[q].op \in Failing
               PROVE  \/ \E r \in DOMAIN f : r < q /\ f[r] = Op("store", f[p].id)
                      \/ Excused(name) /\ f[q] = Op("ping", f[p].id)
    BY DEF StoreFirst
  <2>1. CASE p \in DOMAIN a /\ q \in DOMAIN a
    <3>1. \/ \E r \in DOMAIN a : r < q /\ a[r] = Op("store", a[p].id)
          \/ Excused(name) /\ a[q] = Op("ping", a[p].id)
      BY <1>2, <2>1 DEF GoodProgram, StoreFirst
    <3> QED BY <1>2, <2>1, <3>1
  <2>2. CASE p \in DOMAIN a /\ q \notin DOMAIN a
    <3>1. PICK r \in DOMAIN a : a[r] = Op("store", a[p].id)
      BY <1>2, <2>2 DEF GoodProgram, AllStored, Stores
    <3> QED BY <1>1, <1>2, <2>2, <3>1
  <2>3. CASE p \notin DOMAIN a
    <3> DEFINE i == p - Len(a)
               j == q - Len(a)
    <3>1. i \in DOMAIN b /\ j \in DOMAIN b /\ i < j /\ f[p] = b[i] /\ f[q] = b[j]
      BY <1>1, <1>4, <2>3
    <3> HIDE DEF i
    <3>2. \/ \E r \in DOMAIN b : r < j /\ b[r] = Op("store", b[i].id)
          \/ Excused(name) /\ b[j] = Op("ping", b[i].id)
      BY <3>1 DEF GoodProgram, StoreFirst
    <3>3. ASSUME NEW r \in DOMAIN b, r < j, b[r] = Op("store", b[i].id)
          PROVE  \E t \in DOMAIN f : t < q /\ f[t] = Op("store", f[p].id)
      BY <1>1, <1>3, <3>1, <3>3
    <3> QED BY <3>1, <3>2, <3>3
  <2> QED BY <2>1, <2>2, <2>3
<1> QED BY <1>1, <1>6, <1>7 DEF GoodProgram, f

LEMMA ConcatVerifies ==
  ASSUME NEW a \in Seq(Ops), NEW b \in Seq(Ops),
         \A p \in DOMAIN a : a[p].op = "store" =>
            \E v \in DOMAIN (a \o b) : (a \o b)[v].op \in Verifying /\ (a \o b)[v].id = a[p].id,
         Verifies(b)
  PROVE  Verifies(a \o b)
<1> DEFINE f == a \o b
<1>1. DOMAIN f = 1 .. Len(a) + Len(b) /\ Len(a) \in Nat /\ Len(b) \in Nat
      /\ DOMAIN a = 1 .. Len(a) /\ DOMAIN b = 1 .. Len(b)
  BY ConcatProperties
<1>2. \A p \in DOMAIN a : f[p] = a[p] BY <1>1, ConcatProperties
<1>3. \A p \in DOMAIN b : p + Len(a) \in DOMAIN f /\ f[p + Len(a)] = b[p]
  BY <1>1, ConcatProperties
<1>4. \A p \in DOMAIN f : p \in DOMAIN a \/ (p - Len(a) \in DOMAIN b /\ f[p] = b[p - Len(a)])
  BY <1>1, ConcatProperties
<1> HIDE DEF f
<1> SUFFICES ASSUME NEW p \in DOMAIN f, f[p].op = "store"
             PROVE  \E v \in DOMAIN f : f[v].op \in Verifying /\ f[v].id = f[p].id
  BY DEF Verifies, f
<1>5. CASE p \in DOMAIN a BY <1>2, <1>5 DEF f
<1>6. CASE p \notin DOMAIN a
  <2>1. PICK v \in DOMAIN b : b[v].op \in Verifying /\ b[v].id = f[p].id
    BY <1>4, <1>6 DEF Verifies
  <2> QED BY <1>3, <2>1
<1> QED BY <1>5, <1>6

-----------------------------------------------------------------------------
(* The modules.  Only elastic and bullmq store without asking.             *)
Unasking(name) == name \in {"elastic", "bullmq"}

GroupsOK(m) ==
  /\ m.groups \in Seq(SUBSET Slots) /\ Len(m.groups) >= 1 /\ m.settled \in BOOLEAN
  /\ \A p \in DOMAIN m.program : m.program[p].op = "store" =>
       \/ \E g \in DOMAIN m.groups : m.program[p].id \in m.groups[g]
       \/ m.name = "testable rabbitmq" /\ m.program[p].id = Container /\ m.settled = TRUE

GoodModule(m) ==
  /\ GoodProgram(m.program, m.name)
  /\ ~Unasking(m.name) => Verifies(m.program)
  /\ GroupsOK(m)

GoodSteps(steps, name) ==
  /\ steps \in Seq(OpNames) /\ Len(steps) \in {1, 2, 3, 4}
  /\ \E s \in 1 .. Len(steps) :
       /\ steps[s] = "store"
       /\ \A k, j \in 1 .. Len(steps) :
            k < j /\ steps[k] \in Opener /\ steps[j] \in Failing =>
              s < j \/ (Excused(name) /\ steps[j] = "ping")
  /\ Unasking(name) \/ \E v \in 1 .. Len(steps) : steps[v] \in Verifying

LEMMA ForEachModule ==
  ASSUME NEW steps, NEW name, GoodSteps(steps, name), NEW settled \in BOOLEAN
  PROVE  GoodModule(Module(name, ForEach(steps), <<Identities>>, settled))
<1> USE DEF GoodSteps
<1> DEFINE m == Module(name, ForEach(steps), <<Identities>>, settled)
<1>1. /\ m.program = ForEach(steps) /\ m.name = name /\ m.settled = settled
      /\ m.groups = <<Identities>>
  BY DEF Module
<1> HIDE DEF m
<1>3. GoodProgram(m.program, name) BY <1>1, ForEachGood
<1>4. ~Unasking(name) => Verifies(m.program) BY <1>1, ForEachVerifies
<1>5. \A p \in DOMAIN m.program : m.program[p].id \in Identities
  BY <1>1, ForEachFields DEF Op
<1>6. GroupsOK(m)
  <2>1. Identities \in SUBSET Slots BY DEF Slots
  <2>2. /\ m.groups \in Seq(SUBSET Slots) /\ Len(m.groups) = 1
        /\ 1 \in DOMAIN m.groups /\ m.groups[1] = Identities
    BY <1>1, <2>1
  <2>3. \A p \in DOMAIN m.program : m.program[p].id \in m.groups[1] BY <1>5, <2>2
  <2>4. m.settled \in BOOLEAN BY <1>1
  <2>5. Len(m.groups) >= 1 BY <2>2
  <2> QED BY <2>2, <2>3, <2>4, <2>5, Zenon DEF GroupsOK
<1> QED BY <1>1, <1>3, <1>4, <1>6 DEF GoodModule, m

LEMMA MongodbGood == GoodModule(mongodb)
<1> DEFINE steps == <<"open", "store", "ping">>
<1>1. steps \in Seq(OpNames) /\ Len(steps) = 3
  BY DEF OpNames
<1>2. steps[1] = "open" /\ steps[2] = "store" /\ steps[3] = "ping"
  OBVIOUS
<1>3. mongodb = Module("mongodb", ForEach(steps), <<Identities>>, TRUE) BY DEF mongodb
<1> HIDE DEF steps
<1>4. GoodSteps(steps, "mongodb")
  <2>1. \A k, j \in 1 .. Len(steps) :
          k < j /\ steps[k] \in Opener /\ steps[j] \in Failing =>
            2 < j \/ (Excused("mongodb") /\ steps[j] = "ping")
    BY <1>1, <1>2 DEF Opener, Failing, Excused
  <2>2. Unasking("mongodb") \/ \E v \in 1 .. Len(steps) : steps[v] \in Verifying
    BY <1>1, <1>2 DEF Unasking, Verifying
  <2>3. 2 \in 1 .. Len(steps) BY <1>1
  <2> QED BY <1>1, <1>2, <2>1, <2>2, <2>3 DEF GoodSteps
<1> QED BY <1>3, <1>4, ForEachModule

LEMMA PostgresGood == GoodModule(postgres)
<1> DEFINE steps == <<"read", "create", "ping", "store">>
<1>1. steps \in Seq(OpNames) /\ Len(steps) = 4
  BY DEF OpNames
<1>2. steps[1] = "read" /\ steps[2] = "create" /\ steps[3] = "ping" /\ steps[4] = "store"
  OBVIOUS
<1>3. postgres = Module("postgres", ForEach(steps), <<Identities>>, TRUE) BY DEF postgres
<1> HIDE DEF steps
<1>4. GoodSteps(steps, "postgres")
  <2>1. \A k, j \in 1 .. Len(steps) :
          k < j /\ steps[k] \in Opener /\ steps[j] \in Failing =>
            4 < j \/ (Excused("postgres") /\ steps[j] = "ping")
    BY <1>1, <1>2 DEF Opener, Failing, Excused
  <2>2. Unasking("postgres") \/ \E v \in 1 .. Len(steps) : steps[v] \in Verifying
    BY <1>1, <1>2 DEF Unasking, Verifying
  <2>3. 4 \in 1 .. Len(steps) BY <1>1
  <2> QED BY <1>1, <1>2, <2>1, <2>2, <2>3 DEF GoodSteps
<1> QED BY <1>3, <1>4, ForEachModule

LEMMA CassandraGood == GoodModule(cassandra)
<1> DEFINE steps == <<"read", "open", "store">>
<1>1. steps \in Seq(OpNames) /\ Len(steps) = 3
  BY DEF OpNames
<1>2. steps[1] = "read" /\ steps[2] = "open" /\ steps[3] = "store"
  OBVIOUS
<1>3. cassandra = Module("cassandra", ForEach(steps), <<Identities>>, TRUE) BY DEF cassandra
<1> HIDE DEF steps
<1>4. GoodSteps(steps, "cassandra")
  <2>1. \A k, j \in 1 .. Len(steps) :
          k < j /\ steps[k] \in Opener /\ steps[j] \in Failing =>
            3 < j \/ (Excused("cassandra") /\ steps[j] = "ping")
    BY <1>1, <1>2 DEF Opener, Failing, Excused
  <2>2. Unasking("cassandra") \/ \E v \in 1 .. Len(steps) : steps[v] \in Verifying
    BY <1>1, <1>2 DEF Unasking, Verifying
  <2>3. 3 \in 1 .. Len(steps) BY <1>1
  <2> QED BY <1>1, <1>2, <2>1, <2>2, <2>3 DEF GoodSteps
<1> QED BY <1>3, <1>4, ForEachModule

LEMMA ElasticGood == GoodModule(elastic)
<1> DEFINE steps == <<"read", "create", "float", "store">>
<1>1. steps \in Seq(OpNames) /\ Len(steps) = 4
  BY DEF OpNames
<1>2. steps[1] = "read" /\ steps[2] = "create" /\ steps[3] = "float" /\ steps[4] = "store"
  OBVIOUS
<1>3. elastic = Module("elastic", ForEach(steps), <<Identities>>, FALSE) BY DEF elastic
<1> HIDE DEF steps
<1>4. GoodSteps(steps, "elastic")
  <2>1. \A k, j \in 1 .. Len(steps) :
          k < j /\ steps[k] \in Opener /\ steps[j] \in Failing =>
            4 < j \/ (Excused("elastic") /\ steps[j] = "ping")
    BY <1>1, <1>2 DEF Opener, Failing, Excused
  <2>2. Unasking("elastic") \/ \E v \in 1 .. Len(steps) : steps[v] \in Verifying
    BY <1>1, <1>2 DEF Unasking, Verifying
  <2>3. 4 \in 1 .. Len(steps) BY <1>1
  <2> QED BY <1>1, <1>2, <2>1, <2>2, <2>3 DEF GoodSteps
<1> QED BY <1>3, <1>4, ForEachModule

LEMMA OpensearchGood == GoodModule(opensearch)
<1> DEFINE steps == <<"read", "create", "ping", "store">>
<1>1. steps \in Seq(OpNames) /\ Len(steps) = 4
  BY DEF OpNames
<1>2. steps[1] = "read" /\ steps[2] = "create" /\ steps[3] = "ping" /\ steps[4] = "store"
  OBVIOUS
<1>3. opensearch = Module("opensearch", ForEach(steps), <<Identities>>, FALSE) BY DEF opensearch
<1> HIDE DEF steps
<1>4. GoodSteps(steps, "opensearch")
  <2>1. \A k, j \in 1 .. Len(steps) :
          k < j /\ steps[k] \in Opener /\ steps[j] \in Failing =>
            4 < j \/ (Excused("opensearch") /\ steps[j] = "ping")
    BY <1>1, <1>2 DEF Opener, Failing, Excused
  <2>2. Unasking("opensearch") \/ \E v \in 1 .. Len(steps) : steps[v] \in Verifying
    BY <1>1, <1>2 DEF Unasking, Verifying
  <2>3. 4 \in 1 .. Len(steps) BY <1>1
  <2> QED BY <1>1, <1>2, <2>1, <2>2, <2>3 DEF GoodSteps
<1> QED BY <1>3, <1>4, ForEachModule

LEMMA BullmqGood == GoodModule(bullmq)
<1> DEFINE steps == <<"read", "create", "store">>
<1>1. steps \in Seq(OpNames) /\ Len(steps) = 3
  BY DEF OpNames
<1>2. steps[1] = "read" /\ steps[2] = "create" /\ steps[3] = "store"
  OBVIOUS
<1>3. bullmq = Module("bullmq", ForEach(steps), <<Identities>>, TRUE) BY DEF bullmq
<1> HIDE DEF steps
<1>4. GoodSteps(steps, "bullmq")
  <2>1. \A k, j \in 1 .. Len(steps) :
          k < j /\ steps[k] \in Opener /\ steps[j] \in Failing =>
            3 < j \/ (Excused("bullmq") /\ steps[j] = "ping")
    BY <1>1, <1>2 DEF Opener, Failing, Excused
  <2>2. Unasking("bullmq") \/ \E v \in 1 .. Len(steps) : steps[v] \in Verifying
    BY <1>1, <1>2 DEF Unasking, Verifying
  <2>3. 3 \in 1 .. Len(steps) BY <1>1
  <2> QED BY <1>1, <1>2, <2>1, <2>2, <2>3 DEF GoodSteps
<1> QED BY <1>3, <1>4, ForEachModule

LEMMA GoodStepsProgram ==
  ASSUME NEW steps, NEW name, GoodSteps(steps, name)
  PROVE  GoodProgram(ForEach(steps), name)
BY ForEachGood DEF GoodSteps

(* The clients of temporal are closed before its workers.                  *)
LEMMA TemporalGood == GoodModule(temporal)
<1> DEFINE steps == <<"fetch", "open", "store">>
<1>1. steps \in Seq(OpNames) /\ Len(steps) = 3
  BY DEF OpNames
<1>2. steps[1] = "fetch" /\ steps[2] = "open" /\ steps[3] = "store"
  OBVIOUS
<1>3. /\ temporal.name = "temporal" /\ temporal.program = ForEach(steps)
      /\ temporal.settled = FALSE /\ temporal.groups = <<Identities \ Workers, Workers>>
  BY DEF temporal, Module
<1> HIDE DEF steps
<1>4. GoodSteps(steps, "temporal")
  <2>1. \A k, j \in 1 .. Len(steps) :
          k < j /\ steps[k] \in Opener /\ steps[j] \in Failing => 3 < j
    BY <1>1, <1>2 DEF Opener, Failing
  <2>2. \E v \in 1 .. Len(steps) : steps[v] \in Verifying
    BY <1>1, <1>2 DEF Verifying
  <2>3. 3 \in 1 .. Len(steps) BY <1>1
  <2> QED BY <1>1, <1>2, <2>1, <2>2, <2>3 DEF GoodSteps
<1>5. GoodProgram(temporal.program, temporal.name) /\ Verifies(temporal.program)
  BY <1>1, <1>2, <1>3, <1>4, GoodStepsProgram, ForEachVerifies DEF Verifying
<1>6. Workers \subseteq Identities BY ClientsAssumption DEF Workers, Identities
<1>7. GroupsOK(temporal)
  <2>1. \A p \in DOMAIN temporal.program : temporal.program[p].id \in Identities
    BY <1>1, <1>3, ForEachFields DEF Op
  <2>2. Identities \ Workers \in SUBSET Slots /\ Workers \in SUBSET Slots
    BY <1>6 DEF Slots
  <2>3. /\ temporal.groups \in Seq(SUBSET Slots) /\ Len(temporal.groups) = 2
        /\ temporal.groups[1] = Identities \ Workers /\ temporal.groups[2] = Workers
    BY <1>3, <2>2
  <2>4. DOMAIN temporal.groups = 1 .. 2 /\ Len(temporal.groups) >= 1 BY <2>3
  <2>5. temporal.settled \in BOOLEAN BY <1>3
  <2>6. \A p \in DOMAIN temporal.program :
          \E g \in DOMAIN temporal.groups : temporal.program[p].id \in temporal.groups[g]
    BY <2>1, <2>3, <2>4
  <2> QED BY <2>3, <2>4, <2>5, <2>6, Zenon DEF GroupsOK
<1> QED BY <1>5, <1>7 DEF GoodModule

LEMMA ServerGood == GoodModule(server)
<1> DEFINE f == <<Op("read", 1), Op("store", 1), Op("listen", 1)>>
<1>1. /\ server.name = "server" /\ server.program = f /\ server.settled = FALSE
      /\ server.groups = <<{1}>>
  BY DEF server, Module
<1>2. 1 \in Slots BY ClientsAssumption DEF Slots, Identities
<1>3. f \in Seq(Ops) /\ DOMAIN f = 1 .. 3 BY <1>2 DEF Op, Ops, OpNames
<1>4. /\ f[1] = Op("read", 1) /\ f[2] = Op("store", 1) /\ f[3] = Op("listen", 1)
      /\ f[1].op = "read" /\ f[2].op = "store" /\ f[3].op = "listen"
      /\ f[2].id = 1 /\ f[3].id = 1
  BY DEF Op
<1> HIDE DEF f
<1>5. AllStored(f) BY <1>3, <1>4 DEF AllStored, Stores, Opener
<1>6. StoreFirst(f, "server")
  BY <1>3, <1>4 DEF StoreFirst, Opener, Failing
<1>7. Verifies(f) BY <1>3, <1>4 DEF Verifies, Verifying
<1>8. GroupsOK(server)
  <2>1. server.groups \in Seq(SUBSET Slots) /\ Len(server.groups) = 1 /\ server.groups[1] = {1}
    BY <1>1, <1>2
  <2>2. \A p \in DOMAIN server.program : server.program[p].op = "store" =>
          server.program[p].id \in server.groups[1]
    BY <1>1, <1>3, <1>4, <2>1
  <2>3. 1 \in DOMAIN server.groups /\ Len(server.groups) >= 1 BY <2>1
  <2>4. server.settled \in BOOLEAN BY <1>1
  <2> QED BY <2>1, <2>2, <2>3, <2>4, Zenon DEF GroupsOK
<1> QED BY <1>1, <1>3, <1>5, <1>6, <1>7, <1>8 DEF GoodModule, GoodProgram

(* All caches of redis are stored before the first is pinged.              *)
LEMMA CachesGood ==
  ASSUME NEW name
  PROVE  /\ GoodProgram(ForEach(<<"create", "store">>) \o ForEach(<<"ping">>), name)
         /\ Verifies(ForEach(<<"create", "store">>) \o ForEach(<<"ping">>))
         /\ \A p \in DOMAIN (ForEach(<<"create", "store">>) \o ForEach(<<"ping">>)) :
              (ForEach(<<"create", "store">>) \o ForEach(<<"ping">>))[p].id \in Identities
<1> DEFINE both == <<"create", "store">>
           ping == <<"ping">>
<1>1. /\ both \in Seq(OpNames) /\ Len(both) = 2 /\ both[1] = "create" /\ both[2] = "store"
      /\ ping \in Seq(OpNames) /\ Len(ping) = 1 /\ ping[1] = "ping"
  BY DEF OpNames
<1> HIDE DEF both, ping
<1> DEFINE a == ForEach(both)
           b == ForEach(ping)
<1>2. GoodProgram(a, name)
  <2>1. \A k, j \in 1 .. Len(both) :
          ~(k < j /\ both[k] \in Opener /\ both[j] \in Failing)
    BY <1>1 DEF Opener, Failing
  <2>2. 2 \in 1 .. Len(both) BY <1>1
  <2> QED BY <1>1, <2>1, <2>2, ForEachGood
<1>3. \A p \in DOMAIN b : b[p].op = "ping" /\ b[p].id \in Identities
  BY <1>1, ForEachFields DEF Op
<1>4. a \in Seq(Ops) /\ b \in Seq(Ops) BY <1>1, ForEachFields
<1>5. GoodProgram(b, name)
  BY <1>3, <1>4 DEF GoodProgram, AllStored, StoreFirst, Opener
<1>6. \A id \in Identities : \E v \in DOMAIN b : b[v].op = "ping" /\ b[v].id = id
  <2> SUFFICES ASSUME NEW id \in Identities
               PROVE  \E v \in DOMAIN b : b[v].op = "ping" /\ b[v].id = id
    OBVIOUS
  <2>1. 1 \in 1 .. Len(ping) BY <1>1
  <2>2. Place(Len(ping), id, 1) \in DOMAIN b /\ b[Place(Len(ping), id, 1)] = Op(ping[1], id)
    BY <1>1, <2>1, ForEachFields
  <2> QED BY <1>1, <2>2 DEF Op
<1>7. \A p \in DOMAIN a : a[p].id \in Identities BY <1>1, ForEachFields DEF Op
<1> HIDE DEF a, b
<1>8. /\ DOMAIN (a \o b) = 1 .. Len(a) + Len(b) /\ Len(a) \in Nat /\ Len(b) \in Nat
      /\ DOMAIN a = 1 .. Len(a) /\ DOMAIN b = 1 .. Len(b)
  BY <1>4, ConcatProperties
<1>9. \A v \in DOMAIN b : v + Len(a) \in DOMAIN (a \o b) /\ (a \o b)[v + Len(a)] = b[v]
  BY <1>4, <1>8, ConcatProperties
<1>10. \A p \in DOMAIN (a \o b) : (a \o b)[p].id \in Identities
  BY <1>3, <1>4, <1>7, <1>8, ConcatProperties
<1>11. GoodProgram(a \o b, name) BY <1>2, <1>5, ConcatGood
<1>12. Verifies(b) BY <1>3 DEF Verifies
<1>13. \A id \in Identities :
         \E v \in DOMAIN (a \o b) : (a \o b)[v].op \in Verifying /\ (a \o b)[v].id = id
  <2> SUFFICES ASSUME NEW id \in Identities
               PROVE  \E v \in DOMAIN (a \o b) : /\ (a \o b)[v].op \in Verifying
                                                 /\ (a \o b)[v].id = id
    OBVIOUS
  <2>1. PICK v \in DOMAIN b : b[v].op = "ping" /\ b[v].id = id BY <1>6
  <2>2. PICK w : w = v + Len(a) OBVIOUS
  <2>3. w \in DOMAIN (a \o b) /\ (a \o b)[w] = b[v] BY <1>9, <2>2
  <2> QED BY <2>1, <2>3 DEF Verifying
<1>14. Verifies(a \o b) BY <1>10, <1>13 DEF Verifies
<1> QED BY <1>10, <1>11, <1>14 DEF a, b, both, ping

LEMMA RedisGood == GoodModule(redis)
<1> DEFINE f == ForEach(<<"create", "store">>) \o ForEach(<<"ping">>)
<1>1. /\ redis.name = "redis" /\ redis.program = f /\ redis.settled = TRUE
      /\ redis.groups = <<Identities>>
  BY DEF redis, Module
<1>2. /\ GoodProgram(f, "redis") /\ Verifies(f)
      /\ \A p \in DOMAIN f : f[p].id \in Identities
  BY CachesGood, Zenon
<1> HIDE DEF f
<1>3. GroupsOK(redis)
  <2>1. Identities \in SUBSET Slots BY DEF Slots
  <2>2. /\ redis.groups \in Seq(SUBSET Slots) /\ Len(redis.groups) >= 1
        /\ 1 \in DOMAIN redis.groups /\ redis.groups[1] = Identities
    BY <1>1, <2>1
  <2>3. \A p \in DOMAIN redis.program : redis.program[p].id \in redis.groups[1]
    BY <1>1, <1>2, <2>2
  <2>4. redis.settled \in BOOLEAN BY <1>1
  <2> QED BY <2>2, <2>3, <2>4, Zenon DEF GroupsOK
<1> QED BY <1>1, <1>2, <1>3 DEF GoodModule

(* A testable module: its container, then its super class.                 *)
Prelude == <<Op("open", Container), Op("store", Container)>>

LEMMA PreludeGood ==
  ASSUME NEW name
  PROVE  /\ GoodProgram(Prelude, name) /\ Prelude \in Seq(Ops)
         /\ Verifies(Prelude)
         /\ \A p \in DOMAIN Prelude : Prelude[p].id = Container
<1>1. Container \in Slots BY DEF Slots
<1>2. Prelude \in Seq(Ops) /\ DOMAIN Prelude = 1 .. 2
  BY <1>1 DEF Prelude, Op, Ops, OpNames
<1>3. /\ Prelude[2] = Op("store", Container)
      /\ Prelude[1].op = "open" /\ Prelude[1].id = Container
      /\ Prelude[2].op = "store" /\ Prelude[2].id = Container
  BY DEF Prelude, Op
<1>4. AllStored(Prelude) BY <1>2, <1>3 DEF AllStored, Stores, Opener
<1>5. StoreFirst(Prelude, name) BY <1>2, <1>3 DEF StoreFirst, Opener, Failing
<1>6. Verifies(Prelude) BY <1>2, <1>3 DEF Verifies, Verifying
<1> QED BY <1>2, <1>3, <1>4, <1>5, <1>6 DEF GoodProgram

LEMMA PreludeFirst ==
  ASSUME NEW name, NEW program, GoodProgram(program, name), Verifies(program),
         \A p \in DOMAIN program : program[p].id \in Identities
  PROVE  /\ GoodProgram(Prelude \o program, name)
         /\ Verifies(Prelude \o program)
         /\ \A p \in DOMAIN (Prelude \o program) : (Prelude \o program)[p].id \in Slots
<1>1. Prelude \in Seq(Ops) /\ program \in Seq(Ops) BY PreludeGood DEF GoodProgram
<1> DEFINE f == Prelude \o program
<1>2. GoodProgram(f, name) BY PreludeGood, ConcatGood
<1>3. \A p \in DOMAIN Prelude : p \in DOMAIN f /\ f[p] = Prelude[p]
  BY <1>1, ConcatProperties
<1>4. \A p \in DOMAIN Prelude : Prelude[p].op = "store" =>
        \E v \in DOMAIN f : f[v].op \in Verifying /\ f[v].id = Prelude[p].id
  <2> SUFFICES ASSUME NEW p \in DOMAIN Prelude, Prelude[p].op = "store"
               PROVE  \E v \in DOMAIN f : f[v].op \in Verifying /\ f[v].id = Prelude[p].id
    OBVIOUS
  <2>1. PICK v \in DOMAIN Prelude : /\ Prelude[v].op \in Verifying
                                    /\ Prelude[v].id = Prelude[p].id
    BY PreludeGood DEF Verifies
  <2> QED BY <1>3, <2>1
<1>5. Verifies(f) BY <1>1, <1>4, ConcatVerifies
<1>6. \A p \in DOMAIN f : f[p] \in Ops BY <1>2 DEF GoodProgram
<1> QED BY <1>2, <1>5, <1>6 DEF Ops

LEMMA TestableGood ==
  ASSUME NEW name, NEW m, GoodProgram(m.program, name), Verifies(m.program),
         \A p \in DOMAIN m.program : m.program[p].id \in Identities,
         m.groups = <<Identities>>, m.settled \in BOOLEAN
  PROVE  GoodModule(Testable(name, m))
<1> DEFINE t == Testable(name, m)
<1>1. /\ t.name = name /\ t.program = Prelude \o m.program /\ t.settled = m.settled
      /\ t.groups = Append(<<Identities>>, {Container})
  BY DEF Testable, Module, Prelude
<1> HIDE DEF t
<1>2. Identities \in SUBSET Slots /\ {Container} \in SUBSET Slots BY DEF Slots
<1>3. /\ t.groups \in Seq(SUBSET Slots) /\ Len(t.groups) = 2
      /\ t.groups[1] = Identities /\ t.groups[2] = {Container}
  BY <1>1, <1>2
<1>4. DOMAIN t.groups = 1 .. 2 /\ Len(t.groups) >= 1 BY <1>3
<1>5. /\ GoodProgram(t.program, name) /\ Verifies(t.program)
      /\ \A p \in DOMAIN t.program : t.program[p].id \in Slots
  BY <1>1, PreludeFirst
<1>6. \A p \in DOMAIN t.program :
        \E g \in DOMAIN t.groups : t.program[p].id \in t.groups[g]
  BY <1>3, <1>4, <1>5 DEF Slots
<1>7. t.settled \in BOOLEAN BY <1>1
<1>8. GroupsOK(t) BY <1>3, <1>4, <1>6, <1>7, Zenon DEF GroupsOK
<1> QED BY <1>1, <1>5, <1>8 DEF GoodModule, t

LEMMA TestableMongodbGood == GoodModule(testableMongodb)
<1> DEFINE steps == <<"open", "store", "ping">>
<1>1. steps \in Seq(OpNames) /\ Len(steps) = 3 BY DEF OpNames
<1>2. steps[1] = "open" /\ steps[2] = "store" /\ steps[3] = "ping" OBVIOUS
<1>3. /\ mongodb.program = ForEach(steps) /\ mongodb.groups = <<Identities>>
      /\ mongodb.settled = TRUE
  BY DEF mongodb, Module
<1> HIDE DEF steps
<1>4. \A k, j \in 1 .. Len(steps) :
        k < j /\ steps[k] \in Opener /\ steps[j] \in Failing => 2 < j
  BY <1>1, <1>2 DEF Opener, Failing
<1>5. 1 \in 1 .. Len(steps) /\ 2 \in 1 .. Len(steps) /\ steps[1] \in Verifying
  BY <1>1, <1>2 DEF Verifying
<1>6. GoodProgram(mongodb.program, "testable mongodb")
  BY <1>1, <1>2, <1>3, <1>4, <1>5, ForEachGood
<1>7. Verifies(mongodb.program) BY <1>1, <1>3, <1>5, ForEachVerifies
<1>8. \A p \in DOMAIN mongodb.program : mongodb.program[p].id \in Identities
  BY <1>1, <1>3, ForEachFields DEF Op
<1>9. mongodb.settled \in BOOLEAN BY <1>3
<1> QED BY <1>3, <1>6, <1>7, <1>8, <1>9, TestableGood DEF testableMongodb

LEMMA TestableOpensearchGood == GoodModule(testableOpensearch)
<1> DEFINE steps == <<"read", "create", "ping", "store">>
<1>1. steps \in Seq(OpNames) /\ Len(steps) = 4 BY DEF OpNames
<1>2. steps[1] = "read" /\ steps[2] = "create" /\ steps[3] = "ping" /\ steps[4] = "store"
  OBVIOUS
<1>3. /\ opensearch.program = ForEach(steps) /\ opensearch.groups = <<Identities>>
      /\ opensearch.settled = FALSE
  BY DEF opensearch, Module
<1> HIDE DEF steps
<1>4. \A k, j \in 1 .. Len(steps) :
        k < j /\ steps[k] \in Opener /\ steps[j] \in Failing =>
          4 < j \/ (Excused("testable opensearch") /\ steps[j] = "ping")
  BY <1>1, <1>2 DEF Opener, Failing, Excused
<1>5. 3 \in 1 .. Len(steps) /\ 4 \in 1 .. Len(steps) /\ steps[3] \in Verifying
  BY <1>1, <1>2 DEF Verifying
<1>6. GoodProgram(opensearch.program, "testable opensearch")
  BY <1>1, <1>2, <1>3, <1>4, <1>5, ForEachGood
<1>7. Verifies(opensearch.program) BY <1>1, <1>3, <1>5, ForEachVerifies
<1>8. \A p \in DOMAIN opensearch.program : opensearch.program[p].id \in Identities
  BY <1>1, <1>3, ForEachFields DEF Op
<1>9. opensearch.settled \in BOOLEAN BY <1>3
<1> QED BY <1>3, <1>6, <1>7, <1>8, <1>9, TestableGood DEF testableOpensearch

LEMMA TestableRedisGood == GoodModule(testableRedis)
<1>1. /\ redis.program = ForEach(<<"create", "store">>) \o ForEach(<<"ping">>)
      /\ redis.groups = <<Identities>> /\ redis.settled = TRUE
  BY DEF redis, Module
<1>2. /\ GoodProgram(redis.program, "testable redis") /\ Verifies(redis.program)
      /\ \A p \in DOMAIN redis.program : redis.program[p].id \in Identities
  BY <1>1, CachesGood, Zenon
<1>3. redis.settled \in BOOLEAN BY <1>1
<1> QED BY <1>1, <1>2, <1>3, TestableGood DEF testableRedis

(* The container of the testable RabbitMQ is in no group.                  *)
LEMMA TestableRabbitmqGood == GoodModule(testableRabbitmq)
<1> DEFINE steps == <<"open", "store", "ping">>
           t == testableRabbitmq
<1>1. steps \in Seq(OpNames) /\ Len(steps) = 3 BY DEF OpNames
<1>2. steps[1] = "open" /\ steps[2] = "store" /\ steps[3] = "ping" OBVIOUS
<1>3. /\ t.name = "testable rabbitmq" /\ t.program = Prelude \o ForEach(steps)
      /\ t.settled = TRUE /\ t.groups = [id \in Identities |-> {id}]
  BY DEF testableRabbitmq, Module, Prelude
<1> HIDE DEF steps, t
<1>4. \A k, j \in 1 .. Len(steps) :
        k < j /\ steps[k] \in Opener /\ steps[j] \in Failing => 2 < j
  BY <1>1, <1>2 DEF Opener, Failing
<1>5. 1 \in 1 .. Len(steps) /\ 2 \in 1 .. Len(steps) /\ steps[1] \in Verifying
  BY <1>1, <1>2 DEF Verifying
<1>6. GoodProgram(ForEach(steps), t.name)
  BY <1>1, <1>2, <1>4, <1>5, ForEachGood
<1>7. Verifies(ForEach(steps)) BY <1>1, <1>5, ForEachVerifies
<1>8. \A p \in DOMAIN ForEach(steps) : ForEach(steps)[p].id \in Identities
  BY <1>1, ForEachFields DEF Op
<1>9. /\ GoodProgram(t.program, t.name) /\ Verifies(t.program)
      /\ \A p \in DOMAIN t.program : t.program[p].id \in Slots
  <2>1. PICK f : f = ForEach(steps) OBVIOUS
  <2>2. /\ GoodProgram(f, t.name) /\ Verifies(f)
        /\ \A p \in DOMAIN f : f[p].id \in Identities
    BY <1>6, <1>7, <1>8, <2>1
  <2>3. t.program = Prelude \o f BY <1>3, <2>1
  <2> QED BY <2>2, <2>3, PreludeFirst
<1>10. GroupsOK(t)
  <2>1. \A id \in Identities : {id} \in SUBSET Slots BY DEF Slots
  <2>2. t.groups \in Seq(SUBSET Slots) /\ Len(t.groups) = NumIds /\ DOMAIN t.groups = Identities
    <3>1. t.groups \in [1 .. NumIds -> SUBSET Slots] BY <1>3, <2>1 DEF Identities
    <3>2. NumIds \in Nat BY ClientsAssumption
    <3> QED BY <3>1, <3>2 DEF Identities
  <2>3. Len(t.groups) >= 1 BY <2>2, ClientsAssumption
  <2>4. \A id \in Identities : id \in t.groups[id] BY <1>3
  <2>5. \A id \in Slots : \/ \E g \in DOMAIN t.groups : id \in t.groups[g]
                          \/ id = Container
    BY <2>2, <2>4 DEF Slots
  <2>6. t.settled \in BOOLEAN BY <1>3
  <2> QED BY <1>3, <1>9, <2>2, <2>3, <2>5, <2>6, Zenon DEF GroupsOK
<1>11. ~Unasking(t.name) => Verifies(t.program) BY <1>9
<1> QED BY <1>9, <1>10, <1>11 DEF GoodModule, t

LEMMA ModulesGood == \A m \in Modules : GoodModule(m)
BY ClientsAssumption, MongodbGood, PostgresGood, CassandraGood, ElasticGood, OpensearchGood,
   BullmqGood, TemporalGood, ServerGood, RedisGood, TestableMongodbGood,
   TestableOpensearchGood, TestableRedisGood, TestableRabbitmqGood
   DEF AllModules

-----------------------------------------------------------------------------
(* A call of load() is somewhere in its program; it ends early only at an  *)
(* operation that may fail; and the servers of the operations it has       *)
(* passed have answered.                                                   *)
LoadOK(l) ==
  /\ loads[l].pc \in 1 .. Len(Program) + 1
  /\ loads[l].state = "fulfilled" => loads[l].pc = Len(Program) + 1
  /\ loads[l].state # "fulfilled" => /\ loads[l].pc \in DOMAIN Program
                                     /\ Program[loads[l].pc].op \in Failing
  /\ loads[l].state = "stuck" => Program[loads[l].pc].op = "listen"
  /\ \A p \in DOMAIN Program : p < loads[l].pc /\ Program[p].op \in Verifying =>
       <<l, Program[p].id>> \in verified

LoadsOK == \A l \in DOMAIN loads : LoadOK(l)

(* Only what a program stores is stored.                                   *)
StoredOK == \A id \in Slots : stored[id] # 0 => Stores(Program, id)

LoadInv == TypeOK /\ GoodModule(module) /\ LoadsOK /\ StoredOK

(* As long as every load() came when nothing was open or loading: only the *)
(* latest may be under way, what is open is its own and was opened by an   *)
(* operation it has passed, and what it has passed storing is its own too. *)
Latest == Len(loads)

OpenedByLatest(c) ==
  /\ c[1] = Latest
  /\ \E p \in DOMAIN Program :
       p < loads[Latest].pc /\ Program[p].op \in Opener /\ Program[p].id = c[2]

Undisturbed ==
  ~hasty =>
    /\ \A l \in DOMAIN loads : loads[l].state = "waiting" => l = Latest
    /\ \A c \in open : OpenedByLatest(c)
    /\ Latest > 0 => \A s \in DOMAIN Program :
         s < loads[Latest].pc /\ Program[s].op = "store" => stored[Program[s].id] = Latest

(* Of a disposal that no load() disturbs: what is open and lost to it was  *)
(* named in DisposeCloses, and what else is open it is closing, or will    *)
(* come to.                                                                *)
Excepted(c) == c \in failed \/ Unverified(c) \/ NeverStopped(c)

DisposalOK(d) ==
  /\ disposals[d].epoch <= Latest
  /\ disposals[d].state = "rejected" => ~module.settled
  /\ ~hasty /\ disposals[d].calm /\ disposals[d].epoch = Latest =>
       /\ ~Loading
       /\ \A c \in open :
            \/ Excepted(c)
            \/ disposals[d].state # "fulfilled" /\ (c \in disposals[d].closing \/ LaterGroup(d, c))

DisposalsOK == \A d \in DOMAIN disposals : DisposalOK(d)

ClientsInv == LoadInv /\ Undisturbed /\ DisposalsOK

-----------------------------------------------------------------------------
LoadStates == {"waiting", "fulfilled", "rejected", "stuck"}
LoadRecords == [pc : Nat, state : LoadStates]

LEMMA ProgramTypes ==
  ASSUME GoodModule(module)
  PROVE  /\ Program \in Seq(Ops) /\ Len(Program) \in Nat
         /\ DOMAIN Program = 1 .. Len(Program)
         /\ \A p \in DOMAIN Program : /\ Program[p].op \in OpNames /\ Program[p].id \in Slots
                                      /\ Program[p] = Op(Program[p].op, Program[p].id)
<1>1. Program \in Seq(Ops) BY DEF GoodModule, GoodProgram, Program
<1>2. /\ Len(Program) \in Nat /\ DOMAIN Program = 1 .. Len(Program)
      /\ \A p \in DOMAIN Program : Program[p] \in Ops
  BY <1>1
<1> QED BY <1>1, <1>2 DEF Ops, Op

LEMMA LoadTypes ==
  ASSUME TypeOK
  PROVE  /\ loads \in Seq(LoadRecords) /\ Len(loads) \in 0 .. MaxLoads
         /\ DOMAIN loads = 1 .. Len(loads)
         /\ \A l \in DOMAIN loads : /\ loads[l].pc \in Nat /\ loads[l].state \in LoadStates
                                    /\ l \in 1 .. MaxLoads
<1>1. loads \in Seq(LoadRecords) /\ Len(loads) <= MaxLoads
  BY DEF TypeOK, LoadRecords, LoadStates
<1>2. /\ Len(loads) \in Nat /\ DOMAIN loads = 1 .. Len(loads)
      /\ \A l \in DOMAIN loads : loads[l] \in LoadRecords
  BY <1>1
<1> QED BY <1>1, <1>2, ClientsAssumption DEF LoadRecords

(* What a call of load() does between two awaits: it comes to operation    *)
(* `to', and stores and opens what the operations before `to' say.         *)
RanTo(l, from, to, opened) ==
  /\ \A p \in DOMAIN Program : from <= p /\ p < to => ~Awaited(p)
  /\ loads' \in Seq(LoadRecords)
  /\ Len(loads') = IF l \in DOMAIN loads THEN Len(loads) ELSE Len(loads) + 1
  /\ DOMAIN loads' = DOMAIN loads \cup {l}
  /\ \A i \in DOMAIN loads : i # l => loads'[i] = loads[i]
  /\ loads'[l].pc = to
  /\ loads'[l].state # "stuck"
  /\ loads'[l].state = "fulfilled" => to = Len(Program) + 1
  /\ loads'[l].state # "fulfilled" => to \in DOMAIN Program /\ Program[to].op \in Failing
  /\ stored' \in [Slots -> 0 .. MaxLoads]
  /\ \A id \in Slots : stored'[id] = stored[id] \/ (stored'[id] = l /\ Stores(Program, id))
  /\ \A s \in DOMAIN Program :
       from <= s /\ s < to /\ Program[s].op = "store" => stored'[Program[s].id] = l
  /\ open' \subseteq Handles /\ opened \subseteq open'
  /\ \A c \in open' :
       \/ c \in opened
       \/ /\ c[1] = l
          /\ \E p \in DOMAIN Program :
               p < to /\ Program[p].op = "create" /\ Program[p].id = c[2]
  /\ floating' \subseteq Handles

LEMMA RunDoes ==
  ASSUME LoadInv, NEW l \in 1 .. Len(loads) + 1, l <= MaxLoads,
         NEW from \in 1 .. Len(Program) + 1, NEW opened \in SUBSET Handles,
         Run(l, from, loads, opened)
  PROVE  \E to \in from .. Len(Program) + 1 : RanTo(l, from, to, opened)
<1>1. /\ Program \in Seq(Ops) /\ Len(Program) \in Nat /\ DOMAIN Program = 1 .. Len(Program)
      /\ \A p \in DOMAIN Program : /\ Program[p].op \in OpNames /\ Program[p].id \in Slots
                                   /\ Program[p] = Op(Program[p].op, Program[p].id)
  BY ProgramTypes DEF LoadInv
<1>2. /\ loads \in Seq(LoadRecords) /\ Len(loads) \in 0 .. MaxLoads
      /\ DOMAIN loads = 1 .. Len(loads)
      /\ \A i \in DOMAIN loads : loads[i] \in LoadRecords
  BY LoadTypes, ClientsAssumption DEF LoadInv
<1>3. PICK to \in Stops(from) :
        /\ loads' = [i \in DOMAIN loads \cup {l} |->
                       IF i = l THEN [pc |-> to, state |-> StateAt(to)] ELSE loads[i]]
        /\ stored' = [id \in Slots |-> IF id \in Done("store", from, to) THEN l ELSE stored[id]]
        /\ open' = opened \cup {<<l, id>> : id \in Done("create", from, to)}
        /\ floating' = floating \cup {<<l, id>> : id \in Done("float", from, to)}
  BY DEF Run
<1>4. /\ to \in from .. Len(Program) + 1
      /\ \A p \in from .. to - 1 : ~Awaited(p)
      /\ to > Len(Program) \/ Awaited(to) \/ Program[to].op = "read"
  BY <1>3 DEF Stops
<1>5. to \in Nat /\ from \in Nat BY <1>1, <1>4
<1>6. \A p \in DOMAIN Program : from <= p /\ p < to => ~Awaited(p) BY <1>1, <1>4, <1>5
<1>7. /\ StateAt(to) \in {"fulfilled", "waiting", "rejected"}
      /\ StateAt(to) = "fulfilled" => to = Len(Program) + 1
      /\ StateAt(to) # "fulfilled" => to \in DOMAIN Program /\ Program[to].op \in Failing
  BY <1>1, <1>4, <1>5 DEF StateAt, Awaited, Failing
<1>8. [pc |-> to, state |-> StateAt(to)] \in LoadRecords
  BY <1>5, <1>7 DEF LoadRecords, LoadStates
<1>9. /\ DOMAIN loads' = DOMAIN loads \cup {l}
      /\ loads'[l] = [pc |-> to, state |-> StateAt(to)]
      /\ \A i \in DOMAIN loads : i # l => loads'[i] = loads[i]
  BY <1>3
<1>10. /\ loads' \in Seq(LoadRecords)
       /\ Len(loads') = IF l \in DOMAIN loads THEN Len(loads) ELSE Len(loads) + 1
  <2> DEFINE n == IF l \in DOMAIN loads THEN Len(loads) ELSE Len(loads) + 1
  <2>1. n \in Nat /\ DOMAIN loads \cup {l} = 1 .. n
    <3>1. CASE l \in DOMAIN loads
      <4>1. DOMAIN loads \cup {l} = 1 .. Len(loads) BY <1>2, <3>1
      <4> QED BY <1>2, <3>1, <4>1
    <3>2. CASE l \notin DOMAIN loads
      <4>1. l = Len(loads) + 1 BY <1>2, <3>2
      <4>2. 1 .. Len(loads) \cup {l} = 1 .. Len(loads) + 1 BY <1>2, <4>1
      <4> QED BY <1>2, <3>2, <4>2
    <3> QED BY <3>1, <3>2
  <2> HIDE DEF n
  <2>2. \A i \in 1 .. n : loads'[i] \in LoadRecords BY <1>2, <1>8, <1>9, <2>1
  <2>3. loads' = [i \in 1 .. n |-> loads'[i]] BY <1>3, <2>1
  <2>4. loads' \in Seq(LoadRecords) BY <2>1, <2>2, <2>3
  <2>5. Len(loads') = n BY <2>1, <2>3
  <2> QED BY <2>4, <2>5 DEF n
<1>11. \A op : \A id \in Slots : id \in Done(op, from, to) <=>
         \E p \in DOMAIN Program : from <= p /\ p < to /\ Program[p].op = op /\ Program[p].id = id
  <2> SUFFICES ASSUME NEW op, NEW id \in Slots
               PROVE  id \in Done(op, from, to) <=>
                        \E p \in DOMAIN Program :
                          from <= p /\ p < to /\ Program[p].op = op /\ Program[p].id = id
    OBVIOUS
  <2>1. ASSUME id \in Done(op, from, to)
        PROVE  \E p \in DOMAIN Program :
                 from <= p /\ p < to /\ Program[p].op = op /\ Program[p].id = id
    <3>1. PICK p \in from .. to - 1 : Program[p] = Op(op, id) BY <2>1 DEF Done
    <3>2. p \in DOMAIN Program /\ from <= p /\ p < to BY <1>1, <1>4, <1>5
    <3> QED BY <3>1, <3>2 DEF Op
  <2>2. ASSUME NEW p \in DOMAIN Program, from <= p, p < to, Program[p].op = op,
               Program[p].id = id
        PROVE  id \in Done(op, from, to)
    <3>1. p \in from .. to - 1 BY <1>1, <1>5, <2>2
    <3>2. Program[p] = Op(op, id) BY <1>1, <2>2
    <3> QED BY <3>1, <3>2 DEF Done
  <2> QED BY <2>1, <2>2
<1>12. \A id \in Slots : <<l, id>> \in Handles BY <1>2 DEF Handles
<1>13. \A op : Done(op, from, to) \subseteq Slots BY DEF Done
<1>14. open' \subseteq Handles /\ floating' \subseteq Handles
  BY <1>3, <1>12, <1>13 DEF LoadInv, TypeOK
<1>15. /\ stored' \in [Slots -> 0 .. MaxLoads]
       /\ \A id \in Slots : stored'[id] = IF id \in Done("store", from, to) THEN l ELSE stored[id]
  BY <1>2, <1>3 DEF LoadInv, TypeOK
<1>16. \A id \in Slots : id \in Done("store", from, to) => Stores(Program, id)
  BY <1>1, <1>11 DEF Stores
<1>17. \A c \in open' :
         \/ c \in opened
         \/ /\ c[1] = l
            /\ \E p \in DOMAIN Program :
                 p < to /\ Program[p].op = "create" /\ Program[p].id = c[2]
  BY <1>3, <1>11, <1>13
<1>18. \A s \in DOMAIN Program :
         from <= s /\ s < to /\ Program[s].op = "store" => stored'[Program[s].id] = l
  BY <1>1, <1>11, <1>15
<1>19. opened \subseteq open' BY <1>3
<1>20. \A id \in Slots : stored'[id] = stored[id] \/ (stored'[id] = l /\ Stores(Program, id))
  BY <1>15, <1>16
<1>21. /\ loads'[l].pc = to
       /\ loads'[l].state # "stuck"
       /\ loads'[l].state = "fulfilled" => to = Len(Program) + 1
       /\ loads'[l].state # "fulfilled" => /\ to \in DOMAIN Program
                                           /\ Program[to].op \in Failing
  BY <1>7, <1>9
<1>22. RanTo(l, from, to, opened)
  BY <1>6, <1>9, <1>10, <1>14, <1>15, <1>17, <1>18, <1>19, <1>20, <1>21 DEF RanTo
<1> QED BY <1>4, <1>22

(* A run keeps the invariant of the loads if what it starts from is kept.  *)
LEMMA RunKeeps ==
  ASSUME LoadInv, NEW l \in 1 .. Len(loads) + 1, l <= MaxLoads,
         NEW from \in 1 .. Len(Program) + 1, NEW opened \in SUBSET Handles,
         Run(l, from, loads, opened),
         UNCHANGED <<module, disposals, failed, uncaught>>, hasty' \in BOOLEAN,
         verified \subseteq verified', verified' \subseteq Handles,
         \A p \in DOMAIN Program : p < from /\ Program[p].op \in Verifying =>
           <<l, Program[p].id>> \in verified'
  PROVE  LoadInv'
<1>1. /\ Len(Program) \in Nat /\ DOMAIN Program = 1 .. Len(Program)
  BY ProgramTypes DEF LoadInv
<1>2. /\ Len(loads) \in 0 .. MaxLoads /\ DOMAIN loads = 1 .. Len(loads)
  BY LoadTypes DEF LoadInv
<1>3. PICK to \in from .. Len(Program) + 1 : RanTo(l, from, to, opened) BY RunDoes
<1> USE DEF RanTo
<1>4. Program' = Program BY DEF Program
<1>5. TypeOK'
  <2>1. Len(loads') <= MaxLoads BY <1>2, <1>3
  <2>2. /\ module \in Modules /\ failed \subseteq Handles /\ uncaught \in BOOLEAN
        /\ disposals \in Seq([group : DOMAIN module.groups, closing : SUBSET Handles,
                              state : {"closing", "fulfilled", "rejected"},
                              calm : BOOLEAN, epoch : 0 .. MaxLoads])
    BY DEF LoadInv, TypeOK
  <2>3. loads' \in Seq([pc : Nat, state : {"waiting", "fulfilled", "rejected", "stuck"}])
    BY <1>3 DEF LoadRecords, LoadStates
  <2> QED BY <1>3, <2>1, <2>2, <2>3 DEF TypeOK
<1>6. ASSUME NEW i \in DOMAIN loads' PROVE LoadOK(i)'
  <2>1. CASE i = l
    <3>1. \A p \in DOMAIN Program : p < to /\ Program[p].op \in Verifying =>
            <<l, Program[p].id>> \in verified'
      <4> SUFFICES ASSUME NEW p \in DOMAIN Program, p < to, Program[p].op \in Verifying
                   PROVE  <<l, Program[p].id>> \in verified'
        OBVIOUS
      <4>1. Awaited(p) BY DEF Awaited, Verifying
      <4>2. ~(from <= p) BY <1>3, <4>1
      <4> QED BY <1>1, <4>2
    <3>2. to \in 1 .. Len(Program) + 1 BY <1>1
    <3> QED BY <1>3, <1>4, <2>1, <3>1, <3>2 DEF LoadOK
  <2>2. CASE i # l
    <3>1. i \in DOMAIN loads /\ loads'[i] = loads[i] BY <1>3, <2>2
    <3>2. LoadOK(i) BY <3>1 DEF LoadInv, LoadsOK
    <3> QED BY <1>4, <3>1, <3>2 DEF LoadOK
  <2> QED BY <2>1, <2>2
<1>7. LoadsOK' BY <1>6 DEF LoadsOK
<1>8. StoredOK' BY <1>3, <1>4 DEF StoredOK, LoadInv
<1>9. GoodModule(module)' BY DEF LoadInv
<1> QED BY <1>5, <1>7, <1>8, <1>9 DEF LoadInv

(* How a call of load() goes on from the operation it awaits.              *)
GoesOn(l, opened) ==
  /\ l \in DOMAIN loads /\ loads[l].state = "waiting"
  /\ opened \in SUBSET Handles
  /\ Run(l, loads[l].pc + 1, loads, opened)
  /\ \/ verified' = verified /\ Program[loads[l].pc].op \notin Verifying
     \/ verified' = verified \cup {Client(l)}
  /\ UNCHANGED <<module, disposals, failed, uncaught, hasty>>

LEMMA StepGoesOn ==
  ASSUME LoadInv, NEW l \in DOMAIN loads, Opens(l) \/ Answers(l) \/ Fetched(l)
  PROVE  /\ Client(l) \in Handles
         /\ \E opened : /\ GoesOn(l, opened)
                        /\ open \subseteq opened
                        /\ \A c \in opened : \/ c \in open
                                             \/ /\ c = Client(l)
                                                /\ Program[loads[l].pc].op \in Opener
<1>1. loads[l].state = "waiting" /\ Program[loads[l].pc].op \in {"open", "listen", "ping", "fetch"}
  BY DEF Opens, Answers, Fetched, Waiting
<1>2. loads[l].pc \in DOMAIN Program BY <1>1 DEF LoadInv, LoadsOK, LoadOK
<1>3. Client(l) \in Handles
  <2>1. Program[loads[l].pc].id \in Slots BY <1>2, ProgramTypes DEF LoadInv
  <2>2. l \in 1 .. MaxLoads BY LoadTypes DEF LoadInv
  <2> QED BY <2>1, <2>2 DEF Client, Handles
<1>4. open \in SUBSET Handles BY DEF LoadInv, TypeOK
<1>5. CASE Opens(l)
  <2>1. GoesOn(l, open \cup {Client(l)}) BY <1>1, <1>3, <1>4, <1>5 DEF Opens, GoesOn
  <2>2. Program[loads[l].pc].op \in Opener BY <1>5 DEF Opens, Waiting, Opener
  <2> QED BY <1>3, <2>1, <2>2
<1>6. CASE Answers(l)
  <2>1. GoesOn(l, open) BY <1>1, <1>4, <1>6 DEF Answers, GoesOn
  <2> QED BY <1>3, <2>1
<1>7. CASE Fetched(l)
  <2>1. Program[loads[l].pc].op \notin Verifying BY <1>7 DEF Fetched, Waiting, Verifying
  <2>2. GoesOn(l, open) BY <1>1, <1>4, <1>7, <2>1 DEF Fetched, GoesOn
  <2> QED BY <1>3, <2>2
<1> QED BY <1>5, <1>6, <1>7

LEMMA GoesOnKeeps ==
  ASSUME LoadInv, NEW l, NEW opened, GoesOn(l, opened), Client(l) \in Handles
  PROVE  LoadInv' /\ Len(loads') = Len(loads)
<1>1. /\ Len(Program) \in Nat /\ DOMAIN Program = 1 .. Len(Program)
  BY ProgramTypes DEF LoadInv
<1>2. /\ Len(loads) \in 0 .. MaxLoads /\ DOMAIN loads = 1 .. Len(loads)
  BY LoadTypes DEF LoadInv
<1>3. l \in 1 .. Len(loads) + 1 /\ l <= MaxLoads BY <1>2, ClientsAssumption DEF GoesOn
<1>4. LoadOK(l) /\ loads[l].pc \in DOMAIN Program BY DEF LoadInv, LoadsOK, LoadOK, GoesOn
<1>5. loads[l].pc + 1 \in 1 .. Len(Program) + 1 BY <1>1, <1>4
<1>6. verified \subseteq verified' /\ verified' \subseteq Handles
  BY DEF GoesOn, LoadInv, TypeOK
<1>7. \A p \in DOMAIN Program : p < loads[l].pc + 1 /\ Program[p].op \in Verifying =>
        <<l, Program[p].id>> \in verified'
  <2> SUFFICES ASSUME NEW p \in DOMAIN Program, p < loads[l].pc + 1, Program[p].op \in Verifying
               PROVE  <<l, Program[p].id>> \in verified'
    OBVIOUS
  <2>1. p < loads[l].pc \/ p = loads[l].pc BY <1>1, <1>4
  <2>2. CASE p < loads[l].pc BY <1>4, <1>6, <2>2 DEF LoadOK
  <2>3. CASE p = loads[l].pc BY <2>3 DEF GoesOn, Client
  <2> QED BY <2>1, <2>2, <2>3
<1>8. hasty' \in BOOLEAN BY DEF GoesOn, LoadInv, TypeOK
<1>9. LoadInv' BY <1>3, <1>5, <1>6, <1>7, <1>8, RunKeeps DEF GoesOn
<1>10. \E to : RanTo(l, loads[l].pc + 1, to, opened) BY <1>3, <1>5, RunDoes DEF GoesOn
<1> QED BY <1>9, <1>10 DEF RanTo, GoesOn

LEMMA CallLoadKeeps ==
  ASSUME LoadInv, CallLoad
  PROVE  LoadInv'
<1>1. /\ Len(Program) \in Nat /\ DOMAIN Program = 1 .. Len(Program)
  BY ProgramTypes DEF LoadInv
<1>2. Len(loads) \in 0 .. MaxLoads
  BY LoadTypes DEF LoadInv
<1>3. Len(loads) + 1 \in 1 .. Len(loads) + 1 /\ Len(loads) + 1 <= MaxLoads
  BY <1>2, ClientsAssumption DEF CallLoad
<1>4. 1 \in 1 .. Len(Program) + 1 BY <1>1
<1>5. \A p \in DOMAIN Program : ~(p < 1) BY <1>1
<1>6. open \in SUBSET Handles /\ verified \subseteq Handles BY DEF LoadInv, TypeOK
<1>7. hasty' \in BOOLEAN BY DEF CallLoad, LoadInv, TypeOK
<1> QED BY <1>3, <1>4, <1>5, <1>6, <1>7, RunKeeps DEF CallLoad

-----------------------------------------------------------------------------
(* The other steps of a load, and those of a disposal.                     *)
DisposalRecords ==
  [group : DOMAIN module.groups, closing : SUBSET Handles,
   state : {"closing", "fulfilled", "rejected"}, calm : BOOLEAN, epoch : 0 .. MaxLoads]

LEMMA DisposalTypes ==
  ASSUME TypeOK
  PROVE  /\ disposals \in Seq(DisposalRecords) /\ Len(disposals) \in Nat
         /\ DOMAIN disposals = 1 .. Len(disposals)
         /\ \A d \in DOMAIN disposals : disposals[d] \in DisposalRecords
<1>1. disposals \in Seq(DisposalRecords) BY DEF TypeOK, DisposalRecords
<1> QED BY <1>1

LEMMA SeqExcept ==
  ASSUME NEW S, NEW s \in Seq(S), NEW i \in DOMAIN s, NEW x \in S
  PROVE  /\ [s EXCEPT ![i] = x] \in Seq(S)
         /\ Len([s EXCEPT ![i] = x]) = Len(s)
         /\ DOMAIN [s EXCEPT ![i] = x] = DOMAIN s
         /\ [s EXCEPT ![i] = x][i] = x
         /\ \A j \in DOMAIN s : j # i => [s EXCEPT ![i] = x][j] = s[j]
OBVIOUS

LEMMA Unloading ==
  ASSUME LoadInv, UNCHANGED <<module, loads, stored>>, verified \subseteq verified', TypeOK'
  PROVE  LoadInv'
<1>1. Program' = Program BY DEF Program
<1>2. LoadsOK' BY <1>1 DEF LoadInv, LoadsOK, LoadOK
<1>3. StoredOK' BY <1>1 DEF LoadInv, StoredOK
<1>4. GoodModule(module)' BY DEF LoadInv
<1> QED BY <1>2, <1>3, <1>4 DEF LoadInv

LEMMA FailureKeeps ==
  ASSUME LoadInv, NEW l \in DOMAIN loads, LoadRejects(l) \/ ListenFails(l)
  PROVE  LoadInv'
<1>1. PICK end \in {"rejected", "stuck"} :
        /\ loads' = [loads EXCEPT ![l] = [loads[l] EXCEPT !.state = end]]
        /\ end = "stuck" => Program[loads[l].pc].op = "listen"
  BY DEF LoadRejects, ListenFails, Waiting
<1>2. /\ loads[l].state = "waiting"
      /\ UNCHANGED <<module, disposals, stored, open, verified, floating, failed, hasty>>
      /\ uncaught' \in BOOLEAN
  BY DEF LoadRejects, ListenFails, Waiting, LoadInv, TypeOK
<1>3. loads \in Seq(LoadRecords) /\ loads[l] \in LoadRecords
  BY LoadTypes DEF LoadInv
<1>4. [loads[l] EXCEPT !.state = end] \in LoadRecords BY <1>3 DEF LoadRecords, LoadStates
<1>5. /\ loads' \in Seq(LoadRecords) /\ Len(loads') = Len(loads) /\ DOMAIN loads' = DOMAIN loads
      /\ loads'[l] = [loads[l] EXCEPT !.state = end]
      /\ \A i \in DOMAIN loads : i # l => loads'[i] = loads[i]
  BY <1>1, <1>3, <1>4, SeqExcept
<1>6. loads'[l].pc = loads[l].pc /\ loads'[l].state = end
  BY <1>3, <1>5 DEF LoadRecords
<1>7. TypeOK' BY <1>2, <1>5 DEF LoadInv, TypeOK, LoadRecords, LoadStates
<1>8. Program' = Program BY <1>2 DEF Program
<1>9. ASSUME NEW i \in DOMAIN loads' PROVE LoadOK(i)'
  <2>1. LoadOK(i) BY <1>5 DEF LoadInv, LoadsOK
  <2>2. CASE i = l BY <1>1, <1>2, <1>6, <1>8, <2>1, <2>2 DEF LoadOK
  <2>3. CASE i # l BY <1>2, <1>5, <1>8, <2>1, <2>3 DEF LoadOK
  <2> QED BY <2>2, <2>3
<1>10. LoadsOK' BY <1>9 DEF LoadsOK
<1>11. StoredOK' BY <1>2, <1>8 DEF LoadInv, StoredOK
<1>12. GoodModule(module)' BY <1>2 DEF LoadInv
<1> QED BY <1>7, <1>10, <1>11, <1>12 DEF LoadInv

LEMMA FloatKeeps ==
  ASSUME LoadInv, NEW c \in floating, FloatAnswers(c) \/ FloatRejects(c)
  PROVE  LoadInv'
<1>1. c \in Handles BY DEF LoadInv, TypeOK
<1>2. TypeOK' BY <1>1 DEF LoadInv, TypeOK, FloatAnswers, FloatRejects
<1> QED BY <1>2, Unloading DEF FloatAnswers, FloatRejects

LEMMA GroupTypes ==
  ASSUME LoadInv
  PROVE  /\ DOMAIN module.groups = 1 .. Len(module.groups)
         /\ Len(module.groups) \in Nat /\ Len(module.groups) >= 1
         /\ \A g \in DOMAIN module.groups : /\ module.groups[g] \in SUBSET Slots
                                            /\ StoredOf(module.groups[g]) \in SUBSET Handles
         /\ module.settled \in BOOLEAN
<1>1. /\ module.groups \in Seq(SUBSET Slots) /\ Len(module.groups) >= 1
      /\ module.settled \in BOOLEAN
  BY DEF LoadInv, GoodModule, GroupsOK
<1>2. /\ DOMAIN module.groups = 1 .. Len(module.groups) /\ Len(module.groups) \in Nat
      /\ \A g \in DOMAIN module.groups : module.groups[g] \in SUBSET Slots
  BY <1>1
<1>3. stored \in [Slots -> 0 .. MaxLoads] BY DEF LoadInv, TypeOK
<1>4. \A g \in DOMAIN module.groups : StoredOf(module.groups[g]) \in SUBSET Handles
  BY <1>2, <1>3, ClientsAssumption DEF StoredOf, Handles
<1> QED BY <1>1, <1>2, <1>4

LEMMA DisposeKeeps ==
  ASSUME LoadInv, Dispose
  PROVE  LoadInv'
<1> DEFINE new == [group |-> 1, closing |-> StoredOf(module.groups[1]), state |-> "closing",
                   calm |-> ~Loading, epoch |-> Len(loads)]
<1>1. 1 \in DOMAIN module.groups /\ StoredOf(module.groups[1]) \in SUBSET Handles
  BY GroupTypes
<1>2. Len(loads) \in 0 .. MaxLoads BY LoadTypes DEF LoadInv
<1>3. (~Loading) \in BOOLEAN OBVIOUS
<1>4. new \in DisposalRecords BY <1>1, <1>2, <1>3 DEF DisposalRecords
<1>5. disposals' = Append(disposals, new) BY DEF Dispose
<1> HIDE DEF new
<1>6. disposals' \in Seq(DisposalRecords) BY <1>4, <1>5, DisposalTypes DEF LoadInv
<1>7. TypeOK' BY <1>6 DEF LoadInv, TypeOK, Dispose, DisposalRecords
<1> QED BY <1>7, Unloading DEF Dispose

(* A step of a disposal leaves everything but its own record and, when a   *)
(* close() comes to its end, what is open and what failed.                 *)
Moves(d, x) ==
  /\ disposals' = [disposals EXCEPT ![d] = x]
  /\ x \in DisposalRecords
  /\ x.calm = disposals[d].calm /\ x.epoch = disposals[d].epoch
  /\ open' \subseteq open /\ failed \subseteq failed' /\ failed' \subseteq Handles
  /\ UNCHANGED <<module, loads, stored, verified, floating, uncaught, hasty>>

LEMMA ClosedMoves ==
  ASSUME LoadInv, NEW d \in DOMAIN disposals, NEW c, Closed(d, c) \/ CloseFails(d, c)
  PROVE  \E x : /\ Moves(d, x)
                /\ x.group = disposals[d].group
                /\ x.closing = disposals[d].closing \ {c}
                /\ \/ x.state = disposals[d].state
                   \/ x.state = "rejected" /\ ~module.settled
                /\ c \notin open' \/ c \in failed'
<1>1. disposals[d] \in DisposalRecords BY DisposalTypes DEF LoadInv
<1>2. c \in Handles BY <1>1 DEF Closed, CloseFails, DisposalRecords
<1>3. CASE Closed(d, c)
  <2> DEFINE x == [disposals[d] EXCEPT !.closing = @ \ {c}]
  <2>1. disposals' = [disposals EXCEPT ![d] = x] BY <1>3 DEF Closed
  <2>2. x \in DisposalRecords BY <1>1 DEF DisposalRecords
  <2>3. /\ x.group = disposals[d].group /\ x.closing = disposals[d].closing \ {c}
        /\ x.state = disposals[d].state
        /\ x.calm = disposals[d].calm /\ x.epoch = disposals[d].epoch
    BY <1>1 DEF DisposalRecords
  <2> HIDE DEF x
  <2>4. Moves(d, x) BY <1>3, <2>1, <2>2, <2>3 DEF Moves, Closed, LoadInv, TypeOK
  <2> QED BY <1>3, <2>3, <2>4 DEF Closed
<1>4. CASE CloseFails(d, c)
  <2> DEFINE x == [disposals[d] EXCEPT !.closing = @ \ {c},
                                       !.state = IF module.settled THEN @ ELSE "rejected"]
  <2>1. disposals' = [disposals EXCEPT ![d] = x] BY <1>4 DEF CloseFails
  <2>2. x \in DisposalRecords BY <1>1 DEF DisposalRecords
  <2>3. /\ x.group = disposals[d].group /\ x.closing = disposals[d].closing \ {c}
        /\ x.state = IF module.settled THEN disposals[d].state ELSE "rejected"
        /\ x.calm = disposals[d].calm /\ x.epoch = disposals[d].epoch
    BY <1>1 DEF DisposalRecords
  <2> HIDE DEF x
  <2>4. Moves(d, x) BY <1>2, <1>4, <2>1, <2>2, <2>3 DEF Moves, CloseFails, LoadInv, TypeOK
  <2> QED BY <1>4, <2>3, <2>4 DEF CloseFails
<1> QED BY <1>3, <1>4

LEMMA GroupMoves ==
  ASSUME LoadInv, NEW d \in DOMAIN disposals, GroupClosed(d)
  PROVE  /\ disposals[d].state = "closing" /\ disposals[d].closing = {}
         /\ UNCHANGED <<open, failed>>
         /\ \E x : /\ Moves(d, x)
                   /\ \/ /\ disposals[d].group = Len(module.groups)
                         /\ x.state = "fulfilled"
                      \/ /\ disposals[d].group + 1 \in DOMAIN module.groups
                         /\ x.state = "closing" /\ x.group = disposals[d].group + 1
                         /\ x.closing = StoredOf(module.groups[x.group])
<1>1. disposals[d] \in DisposalRecords BY DisposalTypes DEF LoadInv
<1>2. disposals[d].group \in DOMAIN module.groups BY <1>1 DEF DisposalRecords
<1>3. /\ disposals[d].state = "closing" /\ disposals[d].closing = {}
      /\ UNCHANGED <<open, failed>>
  BY DEF GroupClosed
<1> DEFINE next == disposals[d].group + 1
<1>4. CASE next <= Len(module.groups)
  <2> DEFINE x == [disposals[d] EXCEPT !.group = next, !.closing = StoredOf(module.groups[next])]
  <2>1. disposals' = [disposals EXCEPT ![d] = x] BY <1>4 DEF GroupClosed
  <2>2. next \in DOMAIN module.groups BY <1>2, <1>4, GroupTypes
  <2>3. StoredOf(module.groups[next]) \in SUBSET Handles BY <2>2, GroupTypes
  <2>4. x \in DisposalRecords BY <1>1, <2>2, <2>3 DEF DisposalRecords
  <2>5. /\ x.group = next /\ x.closing = StoredOf(module.groups[next])
        /\ x.state = "closing"
        /\ x.calm = disposals[d].calm /\ x.epoch = disposals[d].epoch
    BY <1>1, <1>3 DEF DisposalRecords
  <2> HIDE DEF x
  <2>6. Moves(d, x) BY <2>1, <2>4, <2>5 DEF Moves, GroupClosed, LoadInv, TypeOK
  <2> QED BY <1>3, <2>2, <2>5, <2>6
<1>5. CASE ~(next <= Len(module.groups))
  <2> DEFINE x == [disposals[d] EXCEPT !.state = "fulfilled"]
  <2>1. disposals' = [disposals EXCEPT ![d] = x] BY <1>5 DEF GroupClosed
  <2>2. disposals[d].group = Len(module.groups) BY <1>2, <1>5, GroupTypes
  <2>3. x \in DisposalRecords BY <1>1 DEF DisposalRecords
  <2>4. /\ x.state = "fulfilled"
        /\ x.calm = disposals[d].calm /\ x.epoch = disposals[d].epoch
    BY <1>1 DEF DisposalRecords
  <2> HIDE DEF x
  <2>5. Moves(d, x) BY <2>1, <2>3, <2>4 DEF Moves, GroupClosed, LoadInv, TypeOK
  <2> QED BY <1>3, <2>2, <2>4, <2>5
<1> QED BY <1>4, <1>5

LEMMA MovesKeeps ==
  ASSUME LoadInv, NEW d \in DOMAIN disposals, NEW x, Moves(d, x)
  PROVE  LoadInv'
<1>1. disposals' \in Seq(DisposalRecords)
  BY DisposalTypes, SeqExcept DEF LoadInv, Moves
<1>2. TypeOK' BY <1>1 DEF LoadInv, TypeOK, Moves, DisposalRecords
<1> QED BY <1>2, Unloading DEF Moves

-----------------------------------------------------------------------------
(* A client that is open while nothing disturbed the loads is stored, will *)
(* be, or is lost to a ping that was rejected.                             *)
LEMMA OpenIsKept ==
  ASSUME LoadInv, Undisturbed, ~hasty, NEW c \in open
  PROVE  /\ c[1] \in DOMAIN loads /\ c[2] \in Slots /\ c = <<c[1], c[2]>>
         /\ Stores(Program, c[2])
         /\ Kept(c) \/ ToBeStored(c) \/ Unverified(c)
<1>1. /\ Len(Program) \in Nat /\ DOMAIN Program = 1 .. Len(Program)
      /\ \A p \in DOMAIN Program : Program[p] = Op(Program[p].op, Program[p].id)
  BY ProgramTypes DEF LoadInv
<1>2. c \in Handles BY DEF LoadInv, TypeOK
<1>3. c[1] \in 1 .. MaxLoads /\ c[2] \in Slots /\ c = <<c[1], c[2]>> BY <1>2 DEF Handles
<1>4. c[1] = Latest BY DEF Undisturbed, OpenedByLatest
<1>5. PICK p \in DOMAIN Program :
        p < loads[Latest].pc /\ Program[p].op \in Opener /\ Program[p].id = c[2]
  BY DEF Undisturbed, OpenedByLatest
<1>6. Latest \in DOMAIN loads /\ Latest > 0
  <2>1. Len(loads) \in 0 .. MaxLoads /\ DOMAIN loads = 1 .. Len(loads)
    BY LoadTypes DEF LoadInv
  <2> QED BY <1>3, <1>4, <2>1, ClientsAssumption DEF Latest
<1>7. LoadOK(Latest) BY <1>6 DEF LoadInv, LoadsOK
<1>8. \A s \in DOMAIN Program :
        s < loads[Latest].pc /\ Program[s] = Op("store", c[2]) => Kept(c)
  BY <1>4, <1>6 DEF Undisturbed, Kept, Op
<1>9. PICK s \in DOMAIN Program : Program[s] = Op("store", c[2])
  BY <1>5 DEF LoadInv, GoodModule, GoodProgram, AllStored, Stores, Program
<1>10. Stores(Program, c[2]) BY <1>9 DEF Stores
<1>11. Kept(c) \/ ToBeStored(c) \/ Unverified(c)
  <2> DEFINE pc == loads[Latest].pc
             state == loads[Latest].state
  <2>1. pc \in 1 .. Len(Program) + 1 BY <1>7 DEF LoadOK
  <2>2. CASE state = "fulfilled"
    <3>1. s < pc BY <1>1, <1>7, <2>2 DEF LoadOK
    <3> QED BY <1>8, <1>9, <3>1
  <2>3. CASE state = "waiting"
    <3>1. CASE s < pc BY <1>8, <1>9, <3>1
    <3>2. CASE ~(s < pc)
      <4>1. s \in pc .. Len(Program) BY <1>1, <2>1, <3>2
      <4> QED BY <1>4, <1>9, <2>3, <4>1 DEF ToBeStored
    <3> QED BY <3>1, <3>2
  <2>4. CASE state \in {"rejected", "stuck"}
    <3>1. pc \in DOMAIN Program /\ Program[pc].op \in Failing BY <1>7, <2>4 DEF LoadOK
    <3>2. \/ \E r \in DOMAIN Program : r < pc /\ Program[r] = Op("store", c[2])
          \/ Excused(module.name) /\ Program[pc] = Op("ping", c[2])
      BY <1>5, <3>1 DEF LoadInv, GoodModule, GoodProgram, StoreFirst, Program
    <3>3. CASE \E r \in DOMAIN Program : r < pc /\ Program[r] = Op("store", c[2])
      BY <1>8, <3>3
    <3>4. CASE Excused(module.name) /\ Program[pc] = Op("ping", c[2])
      <4>1. state # "stuck" BY <1>7, <3>4 DEF LoadOK, Op
      <4>2. state = "rejected" BY <2>4, <4>1
      <4> QED BY <1>4, <3>4, <4>2 DEF Unverified, Excused
    <3> QED BY <3>2, <3>3, <3>4
  <2>5. state \in LoadStates BY <1>6, LoadTypes DEF LoadInv
  <2> QED BY <2>2, <2>3, <2>4, <2>5 DEF LoadStates
<1> QED BY <1>3, <1>4, <1>6, <1>10, <1>11

(* Undisturbed through the steps of a load.                                *)
LEMMA GoesOnUndisturbed ==
  ASSUME LoadInv, Undisturbed, NEW l, NEW opened, GoesOn(l, opened), open \subseteq opened,
         \A c \in opened : \/ c \in open
                           \/ c = Client(l) /\ Program[loads[l].pc].op \in Opener
  PROVE  Undisturbed'
<1> SUFFICES ASSUME ~hasty'
             PROVE  /\ \A i \in DOMAIN loads' : loads'[i].state = "waiting" => i = Latest'
                    /\ \A c \in open' : OpenedByLatest(c)'
                    /\ (Latest > 0)' => (\A s \in DOMAIN Program :
                         s < loads[Latest].pc /\ Program[s].op = "store" =>
                           stored[Program[s].id] = Latest)'
  BY DEF Undisturbed
<1>1. ~hasty /\ UNCHANGED module BY DEF GoesOn
<1>2. /\ Len(Program) \in Nat /\ DOMAIN Program = 1 .. Len(Program)
      /\ \A p \in DOMAIN Program : Program[p].id \in Slots
  BY ProgramTypes DEF LoadInv
<1>3. Len(loads) \in 0 .. MaxLoads /\ DOMAIN loads = 1 .. Len(loads)
  BY LoadTypes DEF LoadInv
<1>4. l \in DOMAIN loads /\ l = Latest BY <1>1 DEF GoesOn, Undisturbed
<1>5. LoadOK(l) /\ loads[l].pc \in DOMAIN Program /\ Program[loads[l].pc].op \in Failing
  BY DEF LoadInv, LoadsOK, LoadOK, GoesOn
<1> DEFINE from == loads[l].pc + 1
<1>6. from \in 1 .. Len(Program) + 1 BY <1>2, <1>5
<1>7. PICK to \in from .. Len(Program) + 1 : RanTo(l, from, to, opened)
  <2>1. l \in 1 .. Len(loads) + 1 /\ l <= MaxLoads BY <1>3, <1>4, ClientsAssumption
  <2> QED BY <1>6, <2>1, RunDoes DEF GoesOn
<1>8. Latest' = Latest /\ DOMAIN loads' = DOMAIN loads /\ loads'[l].pc = to
  BY <1>4, <1>7 DEF RanTo, Latest
<1>9. Program' = Program BY <1>1 DEF Program
<1>10. ASSUME NEW i \in DOMAIN loads', loads'[i].state = "waiting"
       PROVE  i = Latest'
  <2>1. CASE i = l BY <1>4, <1>8, <2>1
  <2>2. CASE i # l BY <1>1, <1>7, <1>8, <1>10, <2>2 DEF RanTo, Undisturbed
  <2> QED BY <2>1, <2>2
<1>11. ASSUME NEW c \in open'
       PROVE  OpenedByLatest(c)'
  <2>1. c \in opened \/ (c[1] = l /\ \E p \in DOMAIN Program :
                           p < to /\ Program[p].op = "create" /\ Program[p].id = c[2])
    BY <1>7 DEF RanTo
  <2>2. loads[l].pc < to /\ to \in Nat BY <1>2, <1>5, <1>7
  <2>3. CASE c \in open
    <3>1. OpenedByLatest(c) BY <1>1, <2>3 DEF Undisturbed
    <3>2. PICK p \in DOMAIN Program :
            p < loads[Latest].pc /\ Program[p].op \in Opener /\ Program[p].id = c[2]
      BY <3>1 DEF OpenedByLatest
    <3>3. p < to BY <1>2, <1>4, <1>5, <2>2, <3>2
    <3> QED BY <1>4, <1>8, <1>9, <3>1, <3>2, <3>3 DEF OpenedByLatest
  <2>4. CASE c = Client(l) /\ Program[loads[l].pc].op \in Opener
    <3>1. c[1] = l /\ c[2] = Program[loads[l].pc].id BY <2>4 DEF Client
    <3> QED BY <1>4, <1>5, <1>8, <1>9, <2>2, <2>4, <3>1 DEF OpenedByLatest
  <2>5. CASE c[1] = l /\ \E p \in DOMAIN Program :
               p < to /\ Program[p].op = "create" /\ Program[p].id = c[2]
    BY <1>4, <1>8, <1>9, <2>5 DEF OpenedByLatest, Opener
  <2> QED BY <2>1, <2>3, <2>4, <2>5
<1>12. ASSUME NEW s \in DOMAIN Program, s < to, Program[s].op = "store"
       PROVE  stored'[Program[s].id] = Latest
  <2>1. s < loads[l].pc \/ s = loads[l].pc \/ from <= s BY <1>2, <1>5
  <2>2. CASE s < loads[l].pc
    <3>1. Latest > 0 BY <1>3, <1>4
    <3>2. stored[Program[s].id] = Latest BY <1>1, <1>4, <1>12, <2>2, <3>1 DEF Undisturbed
    <3> QED BY <1>2, <1>4, <1>7, <3>2 DEF RanTo
  <2>3. CASE s = loads[l].pc BY <1>5, <1>12, <2>3 DEF Failing
  <2>4. CASE from <= s BY <1>4, <1>7, <1>12, <2>4 DEF RanTo
  <2> QED BY <2>1, <2>2, <2>3, <2>4
<1> QED BY <1>4, <1>8, <1>9, <1>10, <1>11, <1>12

LEMMA CallLoadUndisturbed ==
  ASSUME LoadInv, Undisturbed, CallLoad
  PROVE  Undisturbed'
<1> SUFFICES ASSUME ~hasty'
             PROVE  /\ \A i \in DOMAIN loads' : loads'[i].state = "waiting" => i = Latest'
                    /\ \A c \in open' : OpenedByLatest(c)'
                    /\ (Latest > 0)' => (\A s \in DOMAIN Program :
                         s < loads[Latest].pc /\ Program[s].op = "store" =>
                           stored[Program[s].id] = Latest)'
  BY DEF Undisturbed
<1>1. open = {} /\ ~Loading /\ UNCHANGED module BY DEF CallLoad
<1>2. /\ Len(Program) \in Nat /\ DOMAIN Program = 1 .. Len(Program)
  BY ProgramTypes DEF LoadInv
<1>3. Len(loads) \in 0 .. MaxLoads /\ DOMAIN loads = 1 .. Len(loads)
  BY LoadTypes DEF LoadInv
<1> DEFINE l == Len(loads) + 1
<1>4. PICK to \in 1 .. Len(Program) + 1 : RanTo(l, 1, to, open)
  <2>1. l \in 1 .. Len(loads) + 1 /\ l <= MaxLoads BY <1>3, ClientsAssumption DEF CallLoad
  <2>2. 1 \in 1 .. Len(Program) + 1 BY <1>2
  <2>3. open \in SUBSET Handles BY DEF LoadInv, TypeOK
  <2> QED BY <2>1, <2>2, <2>3, RunDoes DEF CallLoad
<1>5. l \notin DOMAIN loads BY <1>3
<1>6. Latest' = l /\ DOMAIN loads' = DOMAIN loads \cup {l} /\ loads'[l].pc = to
  BY <1>4, <1>5 DEF RanTo, Latest
<1>7. Program' = Program BY <1>1 DEF Program
<1>8. ASSUME NEW i \in DOMAIN loads', loads'[i].state = "waiting"
      PROVE  i = Latest'
  <2>1. ASSUME i # l PROVE FALSE
    <3>1. i \in DOMAIN loads /\ loads'[i] = loads[i] BY <1>4, <1>6, <2>1 DEF RanTo
    <3> QED BY <1>1, <1>8, <3>1 DEF Loading
  <2> QED BY <1>6, <2>1
<1>9. ASSUME NEW c \in open' PROVE OpenedByLatest(c)'
  <2>1. c[1] = l /\ \E p \in DOMAIN Program :
                      p < to /\ Program[p].op = "create" /\ Program[p].id = c[2]
    BY <1>1, <1>4 DEF RanTo
  <2> QED BY <1>6, <1>7, <2>1 DEF OpenedByLatest, Opener
<1>10. ASSUME NEW s \in DOMAIN Program, s < to, Program[s].op = "store"
       PROVE  stored'[Program[s].id] = l
  <2>1. 1 <= s BY <1>2
  <2> QED BY <1>4, <1>10, <2>1 DEF RanTo
<1> QED BY <1>6, <1>7, <1>8, <1>9, <1>10

(* And through the others, which open and store nothing.                   *)
LEMMA OthersUndisturbed ==
  ASSUME LoadInv, Undisturbed, UNCHANGED <<module, stored, hasty>>, open' \subseteq open,
         Len(loads') = Len(loads), DOMAIN loads' = DOMAIN loads,
         \A i \in DOMAIN loads : /\ loads'[i].pc = loads[i].pc
                                 /\ loads'[i].state = "waiting" => loads[i].state = "waiting"
  PROVE  Undisturbed'
<1>1. Program' = Program /\ Latest' = Latest BY DEF Program, Latest
<1>2. Latest > 0 => Latest \in DOMAIN loads
  <2>1. Len(loads) \in 0 .. MaxLoads /\ DOMAIN loads = 1 .. Len(loads)
    BY LoadTypes DEF LoadInv
  <2> QED BY <2>1, ClientsAssumption DEF Latest
<1>3. ASSUME ~hasty, NEW c \in open PROVE Latest \in DOMAIN loads
  BY <1>3, OpenIsKept DEF Undisturbed, OpenedByLatest
<1>4. ASSUME ~hasty PROVE \A i \in DOMAIN loads' : loads'[i].state = "waiting" => i = Latest'
  BY <1>1, <1>4 DEF Undisturbed
<1>5. ASSUME ~hasty, NEW c \in open' PROVE OpenedByLatest(c)'
  <2>1. OpenedByLatest(c) /\ Latest \in DOMAIN loads BY <1>3, <1>5 DEF Undisturbed
  <2> QED BY <1>1, <2>1 DEF OpenedByLatest
<1>6. ASSUME ~hasty, Latest > 0
      PROVE  \A s \in DOMAIN Program : s < loads'[Latest].pc /\ Program[s].op = "store" =>
               stored'[Program[s].id] = Latest
  BY <1>2, <1>6 DEF Undisturbed
<1> QED BY <1>1, <1>4, <1>5, <1>6 DEF Undisturbed

-----------------------------------------------------------------------------
(* The disposals.  A load under way, or a new one, takes the premise from  *)
(* every disposal there is.                                                *)
LEMMA LoadingDisposals ==
  ASSUME LoadInv, DisposalsOK, Loading, UNCHANGED <<module, disposals, hasty>>,
         Len(loads') = Len(loads)
  PROVE  DisposalsOK'
<1>1. Latest' = Latest BY DEF Latest
<1> SUFFICES ASSUME NEW d \in DOMAIN disposals PROVE DisposalOK(d)'
  BY DEF DisposalsOK
<1>2. DisposalOK(d) BY DEF DisposalsOK
<1> QED BY <1>1, <1>2 DEF DisposalOK

LEMMA CallLoadDisposals ==
  ASSUME LoadInv, DisposalsOK, CallLoad
  PROVE  DisposalsOK'
<1>1. /\ Len(Program) \in Nat /\ DOMAIN Program = 1 .. Len(Program)
  BY ProgramTypes DEF LoadInv
<1>2. Len(loads) \in 0 .. MaxLoads /\ DOMAIN loads = 1 .. Len(loads)
  BY LoadTypes DEF LoadInv
<1>3. Latest' = Latest + 1 /\ Latest \in Nat
  <2>1. PICK to \in 1 .. Len(Program) + 1 : RanTo(Len(loads) + 1, 1, to, open)
    <3>1. Len(loads) + 1 \in 1 .. Len(loads) + 1 /\ Len(loads) + 1 <= MaxLoads
      BY <1>2, ClientsAssumption DEF CallLoad
    <3>2. 1 \in 1 .. Len(Program) + 1 BY <1>1
    <3>3. open \in SUBSET Handles BY DEF LoadInv, TypeOK
    <3> QED BY <3>1, <3>2, <3>3, RunDoes DEF CallLoad
  <2>2. Len(loads) + 1 \notin DOMAIN loads BY <1>2
  <2> QED BY <1>2, <2>1, <2>2, ClientsAssumption DEF RanTo, Latest
<1> SUFFICES ASSUME NEW d \in DOMAIN disposals PROVE DisposalOK(d)'
  BY DEF DisposalsOK, CallLoad
<1>4. DisposalOK(d) BY DEF DisposalsOK
<1>5. disposals[d].epoch \in 0 .. MaxLoads
  BY DisposalTypes DEF LoadInv, DisposalRecords
<1>6. disposals[d].epoch # Latest' /\ disposals[d].epoch <= Latest'
  BY <1>3, <1>4, <1>5, ClientsAssumption DEF DisposalOK
<1> QED BY <1>4, <1>6 DEF DisposalOK, CallLoad

(* What is lost stays lost.                                                *)
LEMMA ExceptedStays ==
  ASSUME NEW c, Excepted(c), UNCHANGED <<module, loads>>, failed \subseteq failed'
  PROVE  Excepted(c)'
BY DEF Excepted, Unverified, NeverStopped, Program

LEMMA IdleDisposals ==
  ASSUME LoadInv, DisposalsOK, UNCHANGED <<module, loads, disposals, open, failed, hasty>>
  PROVE  DisposalsOK'
<1> SUFFICES ASSUME NEW d \in DOMAIN disposals PROVE DisposalOK(d)'
  BY DEF DisposalsOK
<1>1. DisposalOK(d) BY DEF DisposalsOK
<1>2. Latest' = Latest /\ Loading' = Loading BY DEF Latest, Loading
<1>3. \A c : Excepted(c) => Excepted(c)' BY ExceptedStays
<1> QED BY <1>1, <1>2, <1>3 DEF DisposalOK, LaterGroup

(* When a group is read from what is stored, everything open is in it, in  *)
(* a group that was closed before, or in a later one.                      *)
LEMMA StoredInGroup ==
  ASSUME LoadInv, Undisturbed, ~hasty, ~Loading, NEW c \in open
  PROVE  \/ Excepted(c)
         \/ \E g \in DOMAIN module.groups :
              c[2] \in module.groups[g] /\ c \in StoredOf(module.groups[g])
<1>1. /\ c[1] \in DOMAIN loads /\ c[2] \in Slots /\ c = <<c[1], c[2]>>
      /\ Stores(Program, c[2])
      /\ Kept(c) \/ ToBeStored(c) \/ Unverified(c)
  BY OpenIsKept
<1>2. ~ToBeStored(c) BY <1>1 DEF ToBeStored, Loading
<1>3. CASE Unverified(c) BY <1>3 DEF Excepted
<1>4. CASE Kept(c)
  <2>1. PICK s \in DOMAIN Program : Program[s] = Op("store", c[2]) BY <1>1 DEF Stores
  <2>2. Program[s].op = "store" /\ Program[s].id = c[2] BY <2>1 DEF Op
  <2>3. \/ \E g \in DOMAIN module.groups : c[2] \in module.groups[g]
        \/ module.name = "testable rabbitmq" /\ c[2] = Container
    BY <2>2 DEF LoadInv, GoodModule, GroupsOK, Program
  <2>4. c[1] \in 1 .. MaxLoads BY <1>1, LoadTypes DEF LoadInv
  <2>5. stored[c[2]] # 0 /\ c = <<stored[c[2]], c[2]>> BY <1>1, <1>4, <2>4, ClientsAssumption DEF Kept
  <2>6. ASSUME NEW g \in DOMAIN module.groups, c[2] \in module.groups[g]
        PROVE  c \in StoredOf(module.groups[g])
    BY <2>5, <2>6 DEF StoredOf
  <2> QED BY <2>3, <2>6 DEF Excepted, NeverStopped
<1> QED BY <1>1, <1>2, <1>3, <1>4

LEMMA DisposeDisposals ==
  ASSUME LoadInv, Undisturbed, DisposalsOK, Dispose
  PROVE  DisposalsOK'
<1> DEFINE new == [group |-> 1, closing |-> StoredOf(module.groups[1]), state |-> "closing",
                   calm |-> ~Loading, epoch |-> Len(loads)]
<1> PICK n : n = Len(disposals) + 1 OBVIOUS
<1>1. /\ UNCHANGED <<module, loads, stored, open, verified, floating, failed, uncaught, hasty>>
      /\ disposals' = Append(disposals, new)
  BY DEF Dispose
<1>2. Len(loads) \in 0 .. MaxLoads BY LoadTypes DEF LoadInv
<1>3. new \in DisposalRecords
  <2>1. 1 \in DOMAIN module.groups /\ StoredOf(module.groups[1]) \in SUBSET Handles
    BY GroupTypes
  <2>2. (~Loading) \in BOOLEAN OBVIOUS
  <2> QED BY <1>2, <2>1, <2>2 DEF DisposalRecords
<1>4. /\ new.group = 1 /\ new.closing = StoredOf(module.groups[1]) /\ new.state = "closing"
      /\ new.calm = ~Loading /\ new.epoch = Latest
  BY DEF Latest
<1> HIDE DEF new
<1>5. /\ DOMAIN disposals' = DOMAIN disposals \cup {n}
      /\ disposals'[n] = new
      /\ \A d \in DOMAIN disposals : disposals'[d] = disposals[d]
      /\ DOMAIN disposals = 1 .. Len(disposals)
  BY <1>1, <1>3, DisposalTypes DEF LoadInv
<1>6. Latest' = Latest /\ Loading' = Loading /\ Latest \in Nat
  BY <1>1, <1>2, ClientsAssumption DEF Latest, Loading
<1>7. \A c : Excepted(c) => Excepted(c)' BY <1>1, ExceptedStays
<1>8. ASSUME NEW d \in DOMAIN disposals PROVE DisposalOK(d)'
  <2>1. DisposalOK(d) /\ disposals'[d] = disposals[d] BY <1>5 DEF DisposalsOK
  <2> QED BY <1>1, <1>6, <1>7, <2>1 DEF DisposalOK, LaterGroup
<1>9. DisposalOK(n)'
  <2>1. ASSUME ~hasty, ~Loading, NEW c \in open
        PROVE  Excepted(c)' \/ c \in new.closing \/ LaterGroup(n, c)'
    <3>1. CASE Excepted(c) BY <1>7, <3>1
    <3>2. CASE \E g \in DOMAIN module.groups :
                 c[2] \in module.groups[g] /\ c \in StoredOf(module.groups[g])
      <4>1. PICK g \in DOMAIN module.groups :
              c[2] \in module.groups[g] /\ c \in StoredOf(module.groups[g])
        BY <3>2
      <4>2. g = 1 \/ g > 1 BY GroupTypes
      <4>3. CASE g = 1 BY <1>4, <4>1, <4>3
      <4>4. CASE g > 1 BY <1>1, <1>4, <1>5, <4>1, <4>4 DEF LaterGroup
      <4> QED BY <4>2, <4>3, <4>4
    <3> QED BY <2>1, <3>1, <3>2, StoredInGroup
  <2>2. disposals'[n].calm => ~Loading BY <1>4, <1>5, Zenon
  <2>3. /\ disposals'[n].state = "closing" /\ disposals'[n].epoch <= Latest'
        /\ disposals'[n].closing = new.closing
    BY <1>4, <1>5, <1>6
  <2> QED BY <1>1, <1>6, <2>1, <2>2, <2>3 DEF DisposalOK
<1> QED BY <1>5, <1>8, <1>9 DEF DisposalsOK

(* A step of disposal d, by what it does to its own record.                *)
LEMMA MovesDisposals ==
  ASSUME LoadInv, DisposalsOK, NEW d \in DOMAIN disposals, NEW x, Moves(d, x),
         x.state = "rejected" => disposals[d].state = "rejected" \/ ~module.settled,
         ~hasty /\ disposals[d].calm /\ disposals[d].epoch = Latest =>
           \A c \in open' :
             \/ Excepted(c)'
             \/ x.state # "fulfilled" /\ (\/ c \in x.closing
                                          \/ \E g \in DOMAIN module.groups :
                                               g > x.group /\ c[2] \in module.groups[g])
  PROVE  DisposalsOK'
<1>1. /\ UNCHANGED <<module, loads, stored, verified, floating, uncaught, hasty>>
      /\ open' \subseteq open /\ failed \subseteq failed'
      /\ x.calm = disposals[d].calm /\ x.epoch = disposals[d].epoch
  BY DEF Moves
<1>2. /\ DOMAIN disposals' = DOMAIN disposals /\ disposals'[d] = x
      /\ \A e \in DOMAIN disposals : e # d => disposals'[e] = disposals[e]
  BY DisposalTypes, SeqExcept DEF LoadInv, Moves
<1>3. Latest' = Latest /\ Loading' = Loading BY <1>1 DEF Latest, Loading
<1>4. \A c : Excepted(c) => Excepted(c)' BY <1>1, ExceptedStays
<1>5. ASSUME NEW e \in DOMAIN disposals, e # d PROVE DisposalOK(e)'
  <2>1. DisposalOK(e) /\ disposals'[e] = disposals[e] BY <1>2, <1>5 DEF DisposalsOK
  <2> QED BY <1>1, <1>3, <1>4, <2>1 DEF DisposalOK, LaterGroup
<1>6. DisposalOK(d)'
  <2>1. DisposalOK(d) BY DEF DisposalsOK
  <2> QED BY <1>1, <1>2, <1>3, <2>1 DEF DisposalOK, LaterGroup
<1> QED BY <1>2, <1>5, <1>6 DEF DisposalsOK

LEMMA ClosedDisposals ==
  ASSUME LoadInv, DisposalsOK, NEW d \in DOMAIN disposals, NEW c, Closed(d, c) \/ CloseFails(d, c)
  PROVE  DisposalsOK'
<1>1. PICK x : /\ Moves(d, x)
               /\ x.group = disposals[d].group
               /\ x.closing = disposals[d].closing \ {c}
               /\ \/ x.state = disposals[d].state
                  \/ x.state = "rejected" /\ ~module.settled
               /\ c \notin open' \/ c \in failed'
  BY ClosedMoves
<1>2. DisposalOK(d) BY DEF DisposalsOK
<1>3. \A e : Excepted(e) => Excepted(e)' BY <1>1, ExceptedStays DEF Moves
<1>4. ASSUME ~hasty /\ disposals[d].calm /\ disposals[d].epoch = Latest, NEW e \in open'
      PROVE  \/ Excepted(e)'
             \/ x.state # "fulfilled" /\ (\/ e \in x.closing
                                          \/ \E g \in DOMAIN module.groups :
                                               g > x.group /\ e[2] \in module.groups[g])
  <2>1. e \in open BY <1>1, <1>4 DEF Moves
  <2>2. CASE e = c
    <3>1. e \in failed' BY <1>1, <1>4, <2>2
    <3> QED BY <3>1 DEF Excepted
  <2>3. CASE e # c
    <3>1. \/ Excepted(e)
          \/ /\ disposals[d].state # "fulfilled"
             /\ e \in disposals[d].closing \/ LaterGroup(d, e)
      BY <1>2, <1>4, <2>1 DEF DisposalOK
    <3>2. disposals[d].state # "fulfilled" => x.state # "fulfilled" BY <1>1
    <3> QED BY <1>1, <1>3, <2>3, <3>1, <3>2 DEF LaterGroup
  <2> QED BY <2>2, <2>3
<1> QED BY <1>1, <1>4, MovesDisposals

LEMMA GroupDisposals ==
  ASSUME LoadInv, Undisturbed, DisposalsOK, NEW d \in DOMAIN disposals, GroupClosed(d)
  PROVE  DisposalsOK'
<1>1. PICK x : /\ Moves(d, x)
               /\ \/ /\ disposals[d].group = Len(module.groups)
                     /\ x.state = "fulfilled"
                  \/ /\ disposals[d].group + 1 \in DOMAIN module.groups
                     /\ x.state = "closing" /\ x.group = disposals[d].group + 1
                     /\ x.closing = StoredOf(module.groups[x.group])
  BY GroupMoves
<1>2. /\ disposals[d].state = "closing" /\ disposals[d].closing = {}
      /\ UNCHANGED <<open, failed>>
  BY GroupMoves
<1>3. DisposalOK(d) BY DEF DisposalsOK
<1>4. \A e : Excepted(e) => Excepted(e)' BY <1>1, <1>2, ExceptedStays DEF Moves
<1>5. disposals[d].group \in DOMAIN module.groups BY DisposalTypes DEF LoadInv, DisposalRecords
<1>6. ASSUME ~hasty /\ disposals[d].calm /\ disposals[d].epoch = Latest, NEW e \in open'
      PROVE  \/ Excepted(e)'
             \/ x.state # "fulfilled" /\ (\/ e \in x.closing
                                          \/ \E g \in DOMAIN module.groups :
                                               g > x.group /\ e[2] \in module.groups[g])
  <2>1. e \in open /\ ~Loading BY <1>2, <1>3, <1>6 DEF DisposalOK
  <2>2. Excepted(e) \/ LaterGroup(d, e) BY <1>2, <1>3, <1>6, <2>1 DEF DisposalOK
  <2>3. CASE LaterGroup(d, e)
    <3>1. PICK g \in DOMAIN module.groups : g > disposals[d].group /\ e[2] \in module.groups[g]
      BY <2>3 DEF LaterGroup
    <3>2. /\ x.state = "closing" /\ x.group = disposals[d].group + 1
          /\ x.closing = StoredOf(module.groups[x.group])
      BY <1>1, <1>5, <3>1, GroupTypes
    <3>3. g = x.group \/ g > x.group BY <1>5, <3>1, <3>2, GroupTypes
    <3>4. CASE g = x.group
      <4>1. /\ e[2] \in module.groups[g] /\ e[2] \in Slots /\ e = <<e[1], e[2]>>
            /\ e[1] \in DOMAIN loads
            /\ Kept(e) \/ ToBeStored(e) \/ Unverified(e)
        BY <1>6, <2>1, <3>1, OpenIsKept
      <4>2. ~ToBeStored(e) BY <2>1, <4>1 DEF ToBeStored, Loading
      <4>3. CASE Unverified(e) BY <1>4, <4>3 DEF Excepted
      <4>4. CASE Kept(e)
        <5>1. e[1] \in 1 .. MaxLoads BY <4>1, LoadTypes DEF LoadInv
        <5>2. stored[e[2]] # 0 /\ e = <<stored[e[2]], e[2]>>
          BY <4>1, <4>4, <5>1, ClientsAssumption DEF Kept
        <5>3. e \in StoredOf(module.groups[g]) BY <4>1, <5>2 DEF StoredOf
        <5> QED BY <3>2, <3>4, <5>3
      <4> QED BY <4>1, <4>2, <4>3, <4>4
    <3>5. CASE g > x.group BY <3>1, <3>2, <3>5
    <3> QED BY <3>3, <3>4, <3>5
  <2> QED BY <1>4, <2>2, <2>3
<1> QED BY <1>1, <1>6, MovesDisposals

-----------------------------------------------------------------------------
LEMMA InitClients == Init => ClientsInv
<1> SUFFICES ASSUME Init PROVE ClientsInv OBVIOUS
<1>1. GoodModule(module) BY ModulesGood DEF Init
<1>2. Len(loads) = 0 /\ DOMAIN loads = {} /\ DOMAIN disposals = {} BY DEF Init
<1>3. TypeOK
  <2>1. loads \in Seq(LoadRecords) /\ disposals \in Seq(DisposalRecords)
    BY EmptySeq DEF Init
  <2>2. stored \in [Slots -> 0 .. MaxLoads] BY ClientsAssumption DEF Init
  <2>3. Len(loads) <= MaxLoads BY <1>2, ClientsAssumption
  <2>4. /\ module \in Modules /\ open = {} /\ verified = {} /\ floating = {} /\ failed = {}
        /\ uncaught = FALSE /\ hasty = FALSE
    BY DEF Init
  <2> QED BY <2>1, <2>2, <2>3, <2>4 DEF TypeOK, LoadRecords, LoadStates, DisposalRecords
<1>4. LoadInv BY <1>1, <1>2, <1>3 DEF Init, LoadInv, LoadsOK, StoredOK
<1>5. Undisturbed BY <1>2 DEF Init, Undisturbed, Latest
<1>6. DisposalsOK BY <1>2 DEF DisposalsOK
<1> QED BY <1>4, <1>5, <1>6 DEF ClientsInv

LEMMA NextClients == ClientsInv /\ [Next]_vars => ClientsInv'
<1> SUFFICES ASSUME ClientsInv, [Next]_vars PROVE ClientsInv' OBVIOUS
<1> USE DEF ClientsInv
<1>1. CASE CallLoad
  BY <1>1, CallLoadKeeps, CallLoadUndisturbed, CallLoadDisposals
<1>2. CASE Dispose
  <2>1. Undisturbed' BY <1>2, OthersUndisturbed DEF Dispose
  <2> QED BY <1>2, <2>1, DisposeKeeps, DisposeDisposals
<1>3. ASSUME NEW l \in DOMAIN loads, Opens(l) \/ Answers(l) \/ Fetched(l)
      PROVE  ClientsInv'
  <2>1. PICK opened : /\ GoesOn(l, opened)
                      /\ open \subseteq opened
                      /\ \A c \in opened : \/ c \in open
                                           \/ /\ c = Client(l)
                                              /\ Program[loads[l].pc].op \in Opener
    BY <1>3, StepGoesOn
  <2>2. Client(l) \in Handles BY <1>3, StepGoesOn
  <2>3. LoadInv' /\ Len(loads') = Len(loads) BY <2>1, <2>2, GoesOnKeeps
  <2>4. Undisturbed' BY <2>1, GoesOnUndisturbed
  <2>5. Loading BY <2>1 DEF GoesOn, Loading
  <2>6. DisposalsOK' BY <2>1, <2>3, <2>5, LoadingDisposals DEF GoesOn
  <2> QED BY <2>3, <2>4, <2>6
<1>4. ASSUME NEW l \in DOMAIN loads, LoadRejects(l) \/ ListenFails(l)
      PROVE  ClientsInv'
  <2>1. LoadInv' BY <1>4, FailureKeeps
  <2>2. loads[l].state = "waiting" BY <1>4 DEF LoadRejects, ListenFails, Waiting
  <2>3. PICK end \in {"rejected", "stuck"} : loads' = [loads EXCEPT ![l].state = end]
    BY <1>4 DEF LoadRejects, ListenFails
  <2>4. loads \in Seq(LoadRecords) BY LoadTypes DEF LoadInv
  <2>5. /\ Len(loads') = Len(loads) /\ DOMAIN loads' = DOMAIN loads
        /\ \A i \in DOMAIN loads : /\ loads'[i].pc = loads[i].pc
                                   /\ loads'[i].state = "waiting" => loads[i].state = "waiting"
    BY <2>3, <2>4 DEF LoadRecords
  <2>6. Undisturbed' BY <1>4, <2>5, OthersUndisturbed DEF LoadRejects, ListenFails
  <2>7. Loading BY <2>2 DEF Loading
  <2>8. DisposalsOK' BY <1>4, <2>5, <2>7, LoadingDisposals DEF LoadRejects, ListenFails
  <2> QED BY <2>1, <2>6, <2>8
<1>5. ASSUME NEW c \in floating, FloatAnswers(c) \/ FloatRejects(c)
      PROVE  ClientsInv'
  <2>1. LoadInv' BY <1>5, FloatKeeps
  <2>2. Undisturbed' BY <1>5, OthersUndisturbed DEF FloatAnswers, FloatRejects
  <2>3. DisposalsOK' BY <1>5, IdleDisposals DEF FloatAnswers, FloatRejects
  <2> QED BY <2>1, <2>2, <2>3
<1>6. ASSUME NEW d \in DOMAIN disposals, NEW c, Closed(d, c) \/ CloseFails(d, c)
      PROVE  ClientsInv'
  <2>1. PICK x : Moves(d, x) BY <1>6, ClosedMoves
  <2>2. LoadInv' BY <2>1, MovesKeeps
  <2>3. Undisturbed' BY <2>1, OthersUndisturbed DEF Moves
  <2>4. DisposalsOK' BY <1>6, ClosedDisposals
  <2> QED BY <2>2, <2>3, <2>4
<1>7. ASSUME NEW d \in DOMAIN disposals, GroupClosed(d)
      PROVE  ClientsInv'
  <2>1. PICK x : Moves(d, x) BY <1>7, GroupMoves
  <2>2. LoadInv' BY <2>1, MovesKeeps
  <2>3. Undisturbed' BY <2>1, OthersUndisturbed DEF Moves
  <2>4. DisposalsOK' BY <1>7, GroupDisposals
  <2> QED BY <2>2, <2>3, <2>4
<1>8. CASE UNCHANGED vars
  <2>1. TypeOK' BY <1>8 DEF vars, LoadInv, TypeOK
  <2>2. LoadInv' BY <1>8, <2>1, Unloading DEF vars
  <2>3. Undisturbed' BY <1>8, OthersUndisturbed DEF vars
  <2>4. DisposalsOK' BY <1>8, IdleDisposals DEF vars
  <2> QED BY <2>2, <2>3, <2>4
<1> QED BY <1>1, <1>2, <1>3, <1>4, <1>5, <1>6, <1>7, <1>8 DEF Next, LoadStep, DisposeStep

LEMMA ClientsInvariant == Spec => []ClientsInv
BY InitClients, NextClients, PTL DEF Spec

(* The container that no group has belongs to a module whose dispose()     *)
(* does not reject.                                                        *)
LEMMA SettledRabbitmq == module \in Modules /\ module.name = "testable rabbitmq" => module.settled
<1>1. \A n, p, g, t : Module(n, p, g, t).name = n /\ Module(n, p, g, t).settled = t
  BY DEF Module
<1>2. /\ mongodb.name = "mongodb" /\ postgres.name = "postgres"
      /\ cassandra.name = "cassandra" /\ elastic.name = "elastic"
      /\ opensearch.name = "opensearch" /\ redis.name = "redis" /\ bullmq.name = "bullmq"
      /\ temporal.name = "temporal" /\ server.name = "server"
  BY <1>1, Zenon DEF mongodb, postgres, cassandra, elastic, opensearch, redis, bullmq, temporal,
                     server
<1>3. /\ testableMongodb.name = "testable mongodb" /\ testableRedis.name = "testable redis"
      /\ testableOpensearch.name = "testable opensearch"
  <2>1. \A n, m : Testable(n, m).name = n BY <1>1 DEF Testable
  <2> QED BY <2>1 DEF testableMongodb, testableRedis, testableOpensearch
<1>4. testableRabbitmq.settled = TRUE BY DEF testableRabbitmq, Module
<1>5. ASSUME NEW m \in AllModules, m.name = "testable rabbitmq"
      PROVE  m = testableRabbitmq
  <2>1. m \in {mongodb, postgres, cassandra, elastic, opensearch, redis, bullmq, temporal,
               server, testableMongodb, testableRedis, testableOpensearch, testableRabbitmq}
    BY DEF AllModules
  <2> QED BY <1>2, <1>3, <1>5, <2>1
<1> QED BY <1>4, <1>5, ClientsAssumption

(* The variables keep their types, whichever module it is, however many    *)
(* calls of load() and dispose() there are and wherever they overlap.      *)
THEOREM TypesKept == Spec => []TypeOK
<1>1. ClientsInv => TypeOK BY DEF ClientsInv, LoadInv
<1> QED BY <1>1, ClientsInvariant, PTL

(* A client that is open is stored, or will be, unless its ping was        *)
(* rejected before the module stored it or a load() came too early.        *)
THEOREM NothingIsLost == Spec => []NothingLost
<1>1. ClientsInv => NothingLost BY OpenIsKept DEF ClientsInv, NothingLost
<1> QED BY <1>1, ClientsInvariant, PTL

(* A disposal that no load() disturbs closes everything but what the       *)
(* property names, also while other disposals run beside it.               *)
THEOREM DisposalCloses == Spec => []DisposeCloses
<1>1. ClientsInv => DisposeCloses
  <2> SUFFICES ASSUME ClientsInv, NEW d \in DOMAIN disposals,
                      ~hasty, disposals[d].calm, disposals[d].epoch = Len(loads)
               PROVE  /\ disposals[d].state = "fulfilled" =>
                           \A c \in open : c \in failed \/ Unverified(c) \/ NeverStopped(c)
                      /\ disposals[d].state = "rejected" =>
                           /\ ~module.settled
                           /\ \A c \in open : \/ c \in failed \/ Unverified(c)
                                              \/ c \in disposals[d].closing
                                              \/ LaterGroup(d, c)
    BY DEF DisposeCloses
  <2>1. DisposalOK(d) BY DEF ClientsInv, DisposalsOK
  <2>2. ~module.settled => \A c : ~NeverStopped(c)
    BY SettledRabbitmq DEF NeverStopped, ClientsInv, LoadInv, TypeOK
  <2> QED BY <2>1, <2>2 DEF DisposalOK, Excepted, Latest
<1> QED BY <1>1, ClientsInvariant, PTL

(* A load() that fulfilled has heard from the server of every client it    *)
(* stored, but for the modules that do not ask, or do not wait.            *)
THEOREM LoadsAreVerified == Spec => []LoadedIsVerified
<1>1. ClientsInv => LoadedIsVerified
  <2> SUFFICES ASSUME ClientsInv, NEW l \in DOMAIN loads, loads[l].state = "fulfilled",
                      module.name \notin {"elastic", "bullmq"}, NEW id \in Slots, stored[id] = l
               PROVE  <<l, id>> \in verified
    BY DEF LoadedIsVerified
  <2>1. Stores(Program, id)
    <3>1. l # 0 BY LoadTypes, ClientsAssumption DEF ClientsInv, LoadInv
    <3> QED BY <3>1 DEF ClientsInv, LoadInv, StoredOK
  <2>2. PICK s \in DOMAIN Program : Program[s] = Op("store", id) BY <2>1 DEF Stores
  <2>3. Program[s].op = "store" /\ Program[s].id = id BY <2>2 DEF Op
  <2>4. PICK v \in DOMAIN Program : Program[v].op \in Verifying /\ Program[v].id = id
    BY <2>3 DEF ClientsInv, LoadInv, GoodModule, Unasking, Verifies, Program
  <2>5. LoadOK(l) /\ loads[l].pc = Len(Program) + 1
    BY DEF ClientsInv, LoadInv, LoadsOK, LoadOK
  <2>6. v < loads[l].pc BY <2>5, ProgramTypes DEF ClientsInv, LoadInv
  <2> QED BY <2>4, <2>5, <2>6 DEF LoadOK
<1> QED BY <1>1, ClientsInvariant, PTL
=============================================================================
