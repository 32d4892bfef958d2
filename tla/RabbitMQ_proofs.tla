--------------------------- MODULE RabbitMQ_proofs ---------------------------
(***************************************************************************)
(* Theorems about RabbitMQ, for any number of identities, retries, retry   *)
(* loops and connections.                                                  *)
(***************************************************************************)
EXTENDS RabbitMQ, TLAPS

(* What a task that waits may look like.                                   *)
TaskOK(r) ==
  /\ r \in TaskRecord
  /\ r # Idle => r.attempt <= MaxRetries
  /\ r.pc = "sleeping" => r.attempt < MaxRetries

TasksOK == tasks \in [Tasks -> TaskRecord] /\ \A t \in Tasks : TaskOK(tasks[t])

(* The connections: whose they are, and what refers to them.               *)
ConnRecord == {[pc |-> "none"]} \cup [pc : {"up", "closed"}, id : Ids, listening : BOOLEAN]

ConnsOK ==
  /\ conns \in [Conns -> ConnRecord]
  /\ connections \in [Ids -> Conns \cup {None}]
  /\ \A id \in Ids : connections[id] # None =>
       conns[connections[id]].pc # "none" /\ conns[connections[id]].id = id

DisposalOK ==
  disposal \in {[pc |-> "no"]} \cup [pc : {"next"}, id : 1..(Identities + 1)] \cup
               [pc : {"waiting"}, id : Ids, conn : Conns]

-----------------------------------------------------------------------------
(* The records of tasks.                                                   *)
LEMMA TaskFields ==
  ASSUME NEW r \in TaskRecord
  PROVE  /\ r # Idle => r.id \in Ids /\ r.attempt \in Nat
         /\ r.pc \in {"dialing", "sleeping", "creating"} => r # Idle
         /\ r.pc = "creating" => r.conn \in Conns
         /\ r # Idle => r.pc \in {"dialing", "sleeping", "creating"}
BY DEF TaskRecord, Idle

LEMMA DialingOK ==
  ASSUME NEW id \in Ids, NEW attempt \in Nat, attempt <= MaxRetries
  PROVE  TaskOK(Dialing(id, attempt)) /\ Dialing(id, attempt).pc = "dialing"
BY RabbitAssumption DEF TaskOK, Dialing, TaskRecord, Idle

LEMMA CreatingOK ==
  ASSUME NEW id \in Ids, NEW attempt \in Nat, attempt <= MaxRetries, NEW k \in Conns
  PROVE  TaskOK([pc |-> "creating", id |-> id, attempt |-> attempt, conn |-> k])
BY RabbitAssumption DEF TaskOK, TaskRecord, Idle

LEMMA IdleOK == TaskOK(Idle) /\ Idle.pc = "idle"
BY DEF TaskOK, TaskRecord, Idle

LEMMA AfterFailureOK ==
  ASSUME TasksOK, NEW t \in Tasks, Active(t)
  PROVE  TaskOK(AfterFailure(t)) /\ AfterFailure(t).pc \in {"idle", "sleeping"}
<1>1. tasks[t].id \in Ids /\ tasks[t].attempt \in Nat
  BY TaskFields DEF TasksOK, Active
<1>2. CASE GivesUp(t) BY <1>2, IdleOK DEF AfterFailure
<1>3. CASE ~GivesUp(t)
  <2>1. tasks[t].attempt < MaxRetries BY <1>1, <1>3, RabbitAssumption DEF GivesUp
  <2> DEFINE r == [pc |-> "sleeping", id |-> tasks[t].id, attempt |-> tasks[t].attempt]
  <2>2. AfterFailure(t) = r BY <1>3 DEF AfterFailure
  <2>3. r \in TaskRecord BY <1>1 DEF TaskRecord
  <2> QED BY <1>1, <2>1, <2>2, <2>3, RabbitAssumption DEF TaskOK
<1> QED BY <1>2, <1>3

LEMMA AfterSuccessOK ==
  ASSUME begun \in 0..Identities, NEW t \in Tasks
  PROVE  TaskOK(AfterSuccess(t)) /\ AfterSuccess(t).pc \in {"idle", "dialing"}
<1>1. CASE t = Loader /\ begun < Identities
  <2>1. begun + 1 \in Ids BY <1>1, RabbitAssumption DEF Ids
  <2> QED BY <1>1, <2>1, DialingOK, RabbitAssumption DEF AfterSuccess
<1>2. CASE ~(t = Loader /\ begun < Identities) BY <1>2, IdleOK DEF AfterSuccess
<1> QED BY <1>1, <1>2

(* A step that gives some task a new record that is well formed.           *)
LEMMA UpdateOK ==
  ASSUME TasksOK, NEW t \in Tasks, NEW r, TaskOK(r), tasks' = [tasks EXCEPT ![t] = r]
  PROVE  TasksOK'
<1>1. \A s \in Tasks : tasks'[s] = IF s = t THEN r ELSE tasks[s] BY DEF TasksOK
<1>2. \A s \in Tasks : TaskOK(tasks'[s]) BY <1>1 DEF TasksOK
<1>3. tasks' \in [Tasks -> TaskRecord] BY DEF TasksOK, TaskOK
<1>4. \A s \in Tasks : TaskOK(tasks[s])' BY <1>2 DEF TaskOK
<1> QED BY <1>3, <1>4 DEF TasksOK

(* What the settling of a pending create() does to the tasks.              *)
LEMMA SettleOK ==
  ASSUME TasksOK, begun \in 0..Identities, NEW t \in Tasks, Active(t),
         NEW others, tasks' = [others EXCEPT ![t] = AfterFailure(t)] \/
                     tasks' = [others EXCEPT ![t] = AfterSuccess(t)],
         others \in [Tasks -> TaskRecord], \A s \in Tasks : TaskOK(others[s])
  PROVE  TasksOK'
<1>1. PICK r : TaskOK(r) /\ tasks' = [others EXCEPT ![t] = r]
  BY AfterFailureOK, AfterSuccessOK
<1>2. \A s \in Tasks : TaskOK(tasks'[s]) BY <1>1
<1>3. tasks' \in [Tasks -> TaskRecord] BY <1>1 DEF TaskOK
<1>4. \A s \in Tasks : TaskOK(tasks[s])' BY <1>2 DEF TaskOK
<1> QED BY <1>3, <1>4 DEF TasksOK

LEMMA InterruptTasks ==
  ASSUME TasksOK, begun \in 0..Identities, NEW k \in Conns, NEW others, NEW reset,
         others \in [Tasks -> TaskRecord], \A s \in Tasks : TaskOK(others[s]),
         Interrupt(k, others, reset)
  PROVE  TasksOK'
<1>1. CASE tasks' = others
  <2>1. \A s \in Tasks : TaskOK(tasks[s])' BY <1>1 DEF TaskOK
  <2> QED BY <1>1, <2>1 DEF TasksOK
<1>2. CASE tasks' # others
  <2>1. PICK t \in Creating(k) : Reject(t, others) \/ Succeed(t, others)
    BY <1>2 DEF Interrupt
  <2>2. t \in Tasks /\ Active(t)
    BY <2>1, TaskFields DEF Creating, TasksOK, Active
  <2> QED BY <2>1, <2>2, SettleOK DEF Reject, Succeed
<1> QED BY <1>1, <1>2

-----------------------------------------------------------------------------
(* Every step keeps the tasks.                                             *)
LEMMA StepTasks ==
  ASSUME TasksOK, ConnsOK, begun \in 0..Identities, [Next]_vars PROVE TasksOK'
<1>1. CASE Load
  <2>1. 1 \in Ids BY <1>1, RabbitAssumption DEF Load, Ids
  <2>2. TaskOK(Dialing(1, 0)) BY <2>1, DialingOK, RabbitAssumption
  <2> QED BY <1>1, <2>2, UpdateOK DEF Load, Tasks
<1>2. ASSUME NEW t \in Tasks, Wake(t) PROVE TasksOK'
  <2> DEFINE r == Dialing(tasks[t].id, tasks[t].attempt + 1)
  <2>1. tasks[t].pc = "sleeping" /\ tasks' = [tasks EXCEPT ![t] = r]
    BY <1>2 DEF Wake, TasksOK
  <2>2. tasks[t].id \in Ids /\ tasks[t].attempt \in Nat /\ tasks[t].attempt < MaxRetries
    BY <2>1, TaskFields DEF TasksOK, TaskOK
  <2>3. TaskOK(r) BY <2>2, DialingOK, RabbitAssumption
  <2> HIDE DEF r
  <2> QED BY <2>1, <2>3, UpdateOK
<1>3. ASSUME NEW t \in Tasks, tasks[t].pc \in {"dialing", "creating"},
             Reject(t, tasks) \/ Succeed(t, tasks)
      PROVE TasksOK'
  <2>1. Active(t) BY <1>3, TaskFields DEF TasksOK, Active
  <2> QED BY <1>3, <2>1, SettleOK DEF Reject, Succeed, TasksOK
<1>4. ASSUME NEW t \in Tasks, NEW k \in Conns, Dialed(t, k) PROVE TasksOK'
  <2> DEFINE r == [pc |-> "creating", id |-> tasks[t].id, attempt |-> tasks[t].attempt,
                   conn |-> k]
  <2>1. tasks[t].pc = "dialing" /\ tasks' = [tasks EXCEPT ![t] = r]
    BY <1>4 DEF Dialed, TasksOK
  <2>2. tasks[t].id \in Ids /\ tasks[t].attempt \in Nat /\ tasks[t].attempt <= MaxRetries
    BY <2>1, TaskFields DEF TasksOK, TaskOK
  <2>3. TaskOK(r) BY <2>2, CreatingOK
  <2> HIDE DEF r
  <2> QED BY <2>1, <2>3, UpdateOK
<1>5. ASSUME NEW k \in Conns, NEW loop \in Loops, ConnectionCloses(k, loop)
      PROVE TasksOK'
  <2> DEFINE others == [tasks EXCEPT ![loop] = Dialing(conns[k].id, 0)]
  <2>1. conns[k].id \in Ids BY <1>5 DEF ConnectionCloses, ConnsOK, ConnRecord, Up
  <2>2. TaskOK(Dialing(conns[k].id, 0)) BY <2>1, DialingOK, RabbitAssumption
  <2>3. others \in [Tasks -> TaskRecord] BY <2>2 DEF TaskOK, TasksOK
  <2>4. \A s \in Tasks : TaskOK(others[s]) BY <2>2 DEF TasksOK
  <2>5. Interrupt(k, others, [channel EXCEPT ![conns[k].id] = None])
    BY <1>5 DEF ConnectionCloses
  <2> HIDE DEF others
  <2> QED BY <2>3, <2>4, <2>5, InterruptTasks
<1>6. ASSUME NEW k \in Conns, ClosesUnheard(k) PROVE TasksOK'
  BY <1>6, InterruptTasks DEF ClosesUnheard, TasksOK
<1>7. CASE UNCHANGED tasks BY <1>7 DEF TasksOK, TaskOK
<1> QED
  BY <1>1, <1>2, <1>3, <1>4, <1>5, <1>6, <1>7
     DEF Next, TaskStep, ConnStep, DialFails, Created, CreateFails, Dispose, CloseNext, Closed, vars

(* Every step keeps the connections.                                       *)
LEMMA StepConns ==
  ASSUME TasksOK, ConnsOK, DisposalOK, [Next]_vars PROVE ConnsOK'
<1> USE RabbitAssumption DEF Conns, None
<1>1. ASSUME NEW t \in Tasks, NEW k \in Conns, Dialed(t, k) PROVE ConnsOK'
  <2>1. tasks[t].id \in Ids BY <1>1, TaskFields DEF Dialed, TasksOK
  <2>2. conns' = [conns EXCEPT ![k] = [pc |-> "up", id |-> tasks[t].id, listening |-> TRUE]]
    BY <1>1 DEF Dialed
  <2>3. connections' = [connections EXCEPT ![tasks[t].id] = k] BY <1>1 DEF Dialed
  <2>4. \A id \in Ids : connections[id] # k BY <1>1 DEF Dialed, ConnsOK
  <2>5. conns' \in [Conns -> ConnRecord] BY <2>1, <2>2 DEF ConnsOK, ConnRecord
  <2>6. connections' \in [Ids -> Conns \cup {None}] BY <2>1, <2>3 DEF ConnsOK
  <2>7. ASSUME NEW id \in Ids, connections'[id] # None
        PROVE  conns'[connections'[id]].pc # "none" /\ conns'[connections'[id]].id = id
    BY <2>1, <2>2, <2>3, <2>4, <2>7 DEF ConnsOK
  <2> QED BY <2>5, <2>6, <2>7 DEF ConnsOK
<1>2. ASSUME NEW k \in Conns, NEW loop \in Loops, ConnectionCloses(k, loop) PROVE ConnsOK'
  <2> DEFINE id == conns[k].id
  <2>1. Up(k) /\ id \in Ids BY <1>2 DEF ConnectionCloses, ConnsOK, ConnRecord, Up
  <2>2. connections' = [connections EXCEPT ![id] = None] BY <1>2 DEF ConnectionCloses
  <2>3. conns' = [j \in Conns |->
                    CASE j = k -> [pc |-> "closed", id |-> id, listening |-> FALSE]
                      [] j = connections[id] /\ j # k -> [conns[j] EXCEPT !.listening = FALSE]
                      [] OTHER -> conns[j]]
    BY <1>2 DEF ConnectionCloses
  <2>4. ASSUME NEW j \in Conns
        PROVE  /\ conns'[j] \in ConnRecord
               /\ conns[j].pc # "none" => conns'[j].pc # "none" /\ conns'[j].id = conns[j].id
    <3>1. CASE j = k
      <4>1. conns'[j] = [pc |-> "closed", id |-> id, listening |-> FALSE] BY <2>3, <3>1
      <4> QED BY <2>1, <3>1, <4>1 DEF ConnRecord
    <3>2. CASE j # k /\ j = connections[id]
      <4>1. conns'[j] = [conns[j] EXCEPT !.listening = FALSE] BY <2>3, <3>2
      <4>2. conns[j] \in [pc : {"up", "closed"}, id : Ids, listening : BOOLEAN]
        BY <2>1, <3>2 DEF ConnsOK, ConnRecord
      <4> QED BY <4>1, <4>2 DEF ConnRecord
    <3>3. CASE j # k /\ j # connections[id]
      <4>1. conns'[j] = conns[j] BY <2>3, <3>3
      <4> QED BY <4>1 DEF ConnsOK
    <3> QED BY <3>1, <3>2, <3>3
  <2>5. conns' \in [Conns -> ConnRecord] BY <2>3, <2>4
  <2>6. connections' \in [Ids -> Conns \cup {None}] BY <2>1, <2>2 DEF ConnsOK
  <2>7. ASSUME NEW i \in Ids, connections'[i] # None
        PROVE  conns'[connections'[i]].pc # "none" /\ conns'[connections'[i]].id = i
    <3>1. connections'[i] = connections[i] /\ connections[i] \in Conns
      BY <2>1, <2>2, <2>7 DEF ConnsOK
    <3> QED BY <2>4, <2>7, <3>1 DEF ConnsOK
  <2> QED BY <2>5, <2>6, <2>7 DEF ConnsOK
<1>3. ASSUME NEW k \in Conns, ClosesUnheard(k) PROVE ConnsOK'
  <2>1. conns[k] \in [pc : {"up", "closed"}, id : Ids, listening : BOOLEAN]
    BY <1>3 DEF ClosesUnheard, Up, ConnsOK, ConnRecord
  <2>2. conns' = [conns EXCEPT ![k].pc = "closed"] /\ connections' = connections
    BY <1>3 DEF ClosesUnheard
  <2> QED BY <2>1, <2>2 DEF ConnsOK, ConnRecord
<1>4. CASE CloseNext
  <2> DEFINE k == connections[disposal.id]
  <2>1. connections' = connections BY <1>4 DEF CloseNext
  <2>2. CASE k = None BY <1>4, <2>1, <2>2 DEF CloseNext, ConnsOK
  <2>3. CASE k # None
    <3>1. disposal.id \in Ids BY <1>4 DEF CloseNext, DisposalOK, Ids
    <3>2. k \in Conns /\ conns[k] \in [pc : {"up", "closed"}, id : Ids, listening : BOOLEAN]
      BY <2>3, <3>1 DEF ConnsOK, ConnRecord
    <3>3. conns' = [conns EXCEPT ![k].listening = FALSE] BY <1>4, <2>3 DEF CloseNext
    <3> HIDE DEF k
    <3> QED BY <2>1, <3>2, <3>3 DEF ConnsOK, ConnRecord
  <2> QED BY <2>2, <2>3
<1>5. CASE UNCHANGED <<conns, connections>> BY <1>5 DEF ConnsOK
<1> QED
  BY <1>1, <1>2, <1>3, <1>4, <1>5
     DEF Next, TaskStep, ConnStep, Load, Wake, DialFails, Created, CreateFails, Dispose, Closed,
         vars

(* Every step keeps where load() and dispose() are, and dispose() does not *)
(* begin anew.                                                             *)
LEMMA StepBegun ==
  ASSUME begun \in 0..Identities, ConnsOK, DisposalOK, [Next]_vars
  PROVE  begun' \in 0..Identities /\ DisposalOK' /\ (disposal.pc # "no" => disposal'.pc # "no")
<1> USE RabbitAssumption
<1>1. ASSUME begun' = begun \/ (begun < Identities /\ begun' = begun + 1), disposal' = disposal
      PROVE  begun' \in 0..Identities /\ DisposalOK' /\ disposal'.pc = disposal.pc
  BY <1>1 DEF DisposalOK
<1>2. CASE Load BY <1>1, <1>2 DEF Load
<1>3. ASSUME NEW t \in Tasks, TaskStep(t)
      PROVE  (begun' = begun \/ (begun < Identities /\ begun' = begun + 1)) /\ disposal' = disposal
  BY <1>3 DEF TaskStep, Wake, DialFails, Created, CreateFails, Dialed, Succeed, Reject
<1>4. ASSUME NEW k \in Conns, ConnStep(k)
      PROVE  (begun' = begun \/ (begun < Identities /\ begun' = begun + 1)) /\ disposal' = disposal
  BY <1>4 DEF ConnStep, ConnectionCloses, ClosesUnheard, Interrupt, Succeed, Reject
<1>5. CASE Dispose BY <1>5 DEF Dispose, DisposalOK
<1>6. CASE CloseNext
  <2>1. disposal \in [pc : {"next"}, id : 1..(Identities + 1)] /\ disposal.id \in Ids
    BY <1>6 DEF CloseNext, DisposalOK, Ids
  <2>2. CASE connections[disposal.id] = None
    <3>1. disposal' = [disposal EXCEPT !.id = @ + 1] /\ begun' = begun
      BY <1>6, <2>2 DEF CloseNext
    <3> QED BY <2>1, <3>1 DEF DisposalOK, Ids
  <2>3. CASE connections[disposal.id] # None
    <3>1. /\ disposal' = [pc |-> "waiting", id |-> disposal.id,
                          conn |-> connections[disposal.id]]
          /\ begun' = begun
      BY <1>6, <2>3 DEF CloseNext
    <3>2. connections[disposal.id] \in Conns BY <2>1, <2>3 DEF ConnsOK, None
    <3> QED BY <2>1, <3>1, <3>2 DEF DisposalOK
  <2> QED BY <2>2, <2>3
<1>7. CASE Closed
  <2>1. disposal.id \in Ids /\ disposal' = [pc |-> "next", id |-> disposal.id + 1]
    BY <1>7 DEF Closed, DisposalOK
  <2> QED BY <1>7, <2>1 DEF Closed, DisposalOK, Ids
<1>8. CASE UNCHANGED vars BY <1>1, <1>8 DEF vars
<1> QED BY <1>1, <1>2, <1>3, <1>4, <1>5, <1>6, <1>7, <1>8 DEF Next

-----------------------------------------------------------------------------
(* Who looks after an identity: a connection with a listener, or a task    *)
(* that will dial.  (A task in create() does so by its connection, or has  *)
(* been replaced by the loop that took its listener away.)                 *)
Listening(j, id) == Up(j) /\ conns[j].id = id /\ conns[j].listening

Dials(t, id) == tasks[t].pc \in {"dialing", "sleeping"} /\ tasks[t].id = id

Cared(id) == (\E j \in Conns : Listening(j, id)) \/ (\E t \in Tasks : Dials(t, id))

Watched == disposal.pc = "no" /\ ~ending => \A id \in 1..begun : Cared(id)

(* A task that ends without the context being disposed sleeps before the   *)
(* next attempt, or has dialed; if it is load()'s, the next identity is    *)
(* dialed.                                                                 *)
LEMMA RejectCares ==
  ASSUME NEW t \in Tasks, NEW others \in [Tasks -> TaskRecord], Reject(t, others), ~ending'
  PROVE  /\ tasks'[t].pc = "sleeping" /\ tasks'[t].id = tasks[t].id
         /\ \A s \in Tasks \ {t} : tasks'[s] = others[s]
         /\ begun' = begun
<1>1. ~GivesUp(t)
  <2>1. ending' = (ending \/ GivesUp(t)) BY DEF Reject
  <2> QED BY <2>1, Zenon
<1> QED BY <1>1 DEF Reject, AfterFailure

LEMMA SucceedCares ==
  ASSUME NEW t \in Tasks, NEW others \in [Tasks -> TaskRecord], Succeed(t, others),
         begun \in 0..Identities
  PROVE  /\ \A s \in Tasks \ {t} : tasks'[s] = others[s]
         /\ \/ begun' = begun
            \/ begun' = begun + 1 /\ tasks'[t].pc = "dialing" /\ tasks'[t].id = begun'
<1>1. CASE t = Loader /\ begun < Identities
  BY <1>1, RabbitAssumption DEF Succeed, AfterSuccess, Dialing
<1>2. CASE ~(t = Loader /\ begun < Identities) BY <1>2 DEF Succeed
<1> QED BY <1>1, <1>2

(* When its connection closes, a create() that was pending ends its task,  *)
(* which was not one that dials; what the other tasks do stays.            *)
LEMMA InterruptCares ==
  ASSUME NEW k \in Conns, NEW others \in [Tasks -> TaskRecord], NEW reset,
         Interrupt(k, others, reset), ~ending', begun \in 0..Identities,
         \A t \in Creating(k) : others[t] = tasks[t]
  PROVE  /\ \A s \in Tasks :
              others[s].pc \in {"dialing", "sleeping"} => tasks'[s] = others[s]
         /\ \/ begun' = begun
            \/ /\ begun' = begun + 1
               /\ \E s \in Tasks : tasks'[s].pc = "dialing" /\ tasks'[s].id = begun'
<1>1. CASE Creating(k) = {} /\ tasks' = others /\ begun' = begun
  BY <1>1
<1>2. ASSUME NEW t \in Creating(k), Reject(t, others)
      PROVE  /\ \A s \in Tasks \ {t} : tasks'[s] = others[s]
             /\ begun' = begun
  BY <1>2, RejectCares DEF Creating
<1>3. ASSUME NEW t \in Creating(k), Succeed(t, others)
      PROVE  /\ \A s \in Tasks \ {t} : tasks'[s] = others[s]
             /\ \/ begun' = begun
                \/ begun' = begun + 1 /\ tasks'[t].pc = "dialing" /\ tasks'[t].id = begun'
  BY <1>3, SucceedCares DEF Creating
<1>4. \A t \in Creating(k) : t \in Tasks /\ others[t].pc = "creating" BY DEF Creating
<1>5. CASE \E t \in Creating(k) : Reject(t, others) \/ Succeed(t, others)
  BY <1>2, <1>3, <1>4, <1>5
<1> QED BY <1>1, <1>5 DEF Interrupt

(* Every step keeps somebody caring for each identity.                     *)
LEMMA StepWatched ==
  ASSUME TasksOK, ConnsOK, DisposalOK, begun \in 0..Identities, Watched, [Next]_vars
  PROVE  Watched'
<1> USE RabbitAssumption
<1> SUFFICES ASSUME (disposal.pc = "no")', (~ending)' PROVE \A id \in 1..begun' : Cared(id)'
  BY DEF Watched
<1>1. disposal.pc = "no" BY StepBegun
<1>2. ending => ending'
  BY DEF Next, TaskStep, ConnStep, Load, Wake, Dialed, DialFails, Created, CreateFails, Dispose,
         CloseNext, Closed, ConnectionCloses, ClosesUnheard, Interrupt, Succeed, Reject, vars
<1>3. \A id \in 1..begun : Cared(id) BY <1>1, <1>2, Zenon DEF Watched
<1>4. CASE UNCHANGED <<conns, tasks, begun>>
  BY <1>3, <1>4 DEF Cared, Listening, Dials, Up
<1>5. CASE Load
  BY <1>5 DEF Load, Cared, Dials, Dialing, TasksOK, Tasks
<1>6. ASSUME NEW t \in Tasks, Wake(t) PROVE \A id \in 1..begun' : Cared(id)'
  BY <1>3, <1>6 DEF Wake, Cared, Listening, Dials, Up, Dialing, TasksOK
<1>7. ASSUME NEW t \in Tasks, Reject(t, tasks), conns' = conns
      PROVE  \A id \in 1..begun' : Cared(id)'
  BY <1>3, <1>7, RejectCares DEF Cared, Listening, Dials, Up, TasksOK
<1>8. ASSUME NEW t \in Tasks, Created(t) PROVE \A id \in 1..begun' : Cared(id)'
  <2>1. conns' = conns /\ tasks[t].pc = "creating" /\ Succeed(t, tasks) BY <1>8 DEF Created
  <2>2. /\ \A s \in Tasks \ {t} : tasks'[s] = tasks[s]
        /\ \/ begun' = begun
           \/ begun' = begun + 1 /\ tasks'[t].pc = "dialing" /\ tasks'[t].id = begun'
    BY <2>1, SucceedCares DEF TasksOK
  <2> QED BY <1>3, <2>1, <2>2 DEF Cared, Listening, Dials, Up
<1>9. ASSUME NEW t \in Tasks, NEW k \in Conns, Dialed(t, k)
      PROVE  \A id \in 1..begun' : Cared(id)'
  <2>1. /\ conns[k].pc = "none" /\ begun' = begun
        /\ conns' = [conns EXCEPT ![k] = [pc |-> "up", id |-> tasks[t].id, listening |-> TRUE]]
        /\ \A s \in Tasks \ {t} : tasks'[s] = tasks[s]
    BY <1>9 DEF Dialed, TasksOK
  <2>0. PICK own : own = tasks[t].id OBVIOUS
  <2>2. Listening(k, own)' BY <2>0, <2>1 DEF Listening, Up, ConnsOK
  <2>3. ASSUME NEW j \in Conns, NEW id, Listening(j, id) PROVE Listening(j, id)'
    BY <2>1, <2>3 DEF Listening, Up, ConnsOK
  <2>4. ASSUME NEW id \in 1..begun PROVE Cared(id)'
    <3>1. CASE Dials(t, id) BY <2>0, <2>2, <3>1 DEF Cared, Dials
    <3>2. CASE ~Dials(t, id) BY <1>3, <2>1, <2>3, <3>2 DEF Cared, Dials
    <3> QED BY <3>1, <3>2
  <2> QED BY <2>1, <2>4
<1>10. ASSUME NEW k \in Conns, NEW loop \in Loops, ConnectionCloses(k, loop)
       PROVE  \A id \in 1..begun' : Cared(id)'
  <2>0. PICK own : own = conns[k].id OBVIOUS
  <2> DEFINE others == [tasks EXCEPT ![loop] = Dialing(own, 0)]
  <2>1. Up(k) /\ own = conns[k].id /\ own \in Ids
    BY <1>10, <2>0 DEF ConnectionCloses, ConnsOK, ConnRecord, Up
  <2>2. loop \in Tasks /\ tasks[loop] = Idle BY <1>10 DEF ConnectionCloses, Tasks
  <2>3. Interrupt(k, others, [channel EXCEPT ![own] = None])
    BY <1>10, <2>1 DEF ConnectionCloses
  <2>4. others \in [Tasks -> TaskRecord] BY <2>1, <2>2, DialingOK DEF TasksOK, TaskOK
  <2>5. \A t \in Creating(k) : others[t] = tasks[t]
    BY <2>2 DEF Creating, Idle, TasksOK
  <2>6. others[loop].pc = "dialing" /\ others[loop].id = own BY <2>2 DEF TasksOK, Dialing
  <2>7. \A s \in Tasks \ {loop} : others[s] = tasks[s] BY DEF TasksOK
  <2> HIDE DEF others
  <2>8. /\ \A s \in Tasks :
             others[s].pc \in {"dialing", "sleeping"} => tasks'[s] = others[s]
        /\ \/ begun' = begun
           \/ /\ begun' = begun + 1
              /\ \E s \in Tasks : tasks'[s].pc = "dialing" /\ tasks'[s].id = begun'
    BY <2>3, <2>4, <2>5, InterruptCares
  <2>9. Dials(loop, own)' BY <2>2, <2>6, <2>8 DEF Dials
  <2>10. ASSUME NEW s \in Tasks, NEW id, Dials(s, id) PROVE Dials(s, id)'
    BY <2>2, <2>7, <2>8, <2>10 DEF Dials, Idle
  <2>11. ASSUME NEW j \in Conns, NEW id, id # own, Listening(j, id) PROVE Listening(j, id)'
    <3>1. j # k /\ j # connections[own]
      BY <2>1, <2>11 DEF Listening, ConnsOK, None, Conns
    <3>2. conns'[j] = conns[j] BY <1>10, <2>1, <3>1 DEF ConnectionCloses
    <3> QED BY <2>11, <3>2 DEF Listening, Up
  <2>12. ASSUME NEW id \in 1..begun PROVE Cared(id)'
    <3>1. CASE id = own BY <2>2, <2>9, <3>1 DEF Cared
    <3>2. CASE id # own BY <1>3, <2>10, <2>11, <3>2 DEF Cared
    <3> QED BY <3>1, <3>2
  <2> QED BY <2>8, <2>12 DEF Cared, Dials
<1>11. ASSUME NEW k \in Conns, ClosesUnheard(k) PROVE \A id \in 1..begun' : Cared(id)'
  <2>1. /\ \A s \in Tasks : tasks[s].pc \in {"dialing", "sleeping"} => tasks'[s] = tasks[s]
        /\ \/ begun' = begun
           \/ /\ begun' = begun + 1
              /\ \E s \in Tasks : tasks'[s].pc = "dialing" /\ tasks'[s].id = begun'
    BY <1>11, InterruptCares DEF ClosesUnheard, TasksOK
  <2>2. ASSUME NEW j \in Conns, NEW id, Listening(j, id) PROVE Listening(j, id)'
    BY <1>11, <2>2 DEF ClosesUnheard, Listening, Up, ConnsOK
  <2> QED BY <1>3, <2>1, <2>2 DEF Cared, Dials
<1>12. CASE Dispose \/ CloseNext \/ Closed
  BY <1>1, <1>12, StepBegun DEF Dispose, CloseNext, Closed
<1> QED
  BY <1>4, <1>5, <1>6, <1>7, <1>8, <1>9, <1>10, <1>11, <1>12
     DEF Next, TaskStep, ConnStep, DialFails, CreateFails, vars

-----------------------------------------------------------------------------
(* Whatever connections are lost and whichever retry loops overlap: from   *)
(* the moment load() comes to an identity, it has a connection whose loss  *)
(* will be noticed, or somebody is connecting it, until the module or the  *)
(* context is disposed.                                                    *)
THEOREM Reconnects == Spec => []NeverAbandoned
<1> DEFINE IInv == /\ TasksOK /\ ConnsOK /\ DisposalOK
                   /\ begun \in 0..Identities
                   /\ Watched
<1>1. Init => IInv
  <2> SUFFICES ASSUME Init PROVE IInv OBVIOUS
  <2>1. TasksOK BY IdleOK DEF Init, TasksOK, TaskOK
  <2>2. ConnsOK BY DEF Init, ConnsOK, ConnRecord, None
  <2>3. DisposalOK BY DEF Init, DisposalOK
  <2>4. begun = 0 BY DEF Init
  <2> QED BY <2>1, <2>2, <2>3, <2>4, RabbitAssumption DEF Watched
<1>2. IInv /\ [Next]_vars => IInv'
  BY StepTasks, StepConns, StepBegun, StepWatched
<1>3. IInv => NeverAbandoned
  <2> SUFFICES ASSUME IInv PROVE NeverAbandoned OBVIOUS
  <2>1. \A t \in Tasks, id \in Ids : Dials(t, id) => Active(t)
    BY TaskFields DEF Dials, Active, TasksOK
  <2> QED
    BY <2>1, RabbitAssumption DEF NeverAbandoned, Watched, Cared, Listening, Dials, Ids
<1> QED BY <1>1, <1>2, <1>3, PTL DEF Spec
-----------------------------------------------------------------------------
(* Types.  What the invariant above has not: the channels, and the flags.  *)
FlagsOK ==
  /\ channel \in [Ids -> Conns \cup {None}]
  /\ ending \in BOOLEAN /\ overlapped \in BOOLEAN /\ calm \in BOOLEAN

Basics == TasksOK /\ ConnsOK /\ DisposalOK /\ begun \in 0..Identities /\ FlagsOK

LEMMA InterruptFlags ==
  ASSUME ConnsOK, FlagsOK, NEW k \in Conns, conns[k].id \in Ids, NEW others,
         NEW reset \in [Ids -> Conns \cup {None}], Interrupt(k, others, reset)
  PROVE  /\ channel' \in [Ids -> Conns \cup {None}]
         /\ ending' \in BOOLEAN /\ overlapped' \in BOOLEAN
<1>1. [reset EXCEPT ![conns[k].id] = k] \in [Ids -> Conns \cup {None}] OBVIOUS
<1>2. CASE UNCHANGED <<begun, ending, overlapped>> /\ channel' = reset
  BY <1>2 DEF FlagsOK
<1>3. ASSUME NEW t \in Creating(k), overlapped' = TRUE,
             Reject(t, others), channel' \in {reset, [reset EXCEPT ![conns[k].id] = k]}
      PROVE  /\ channel' \in [Ids -> Conns \cup {None}]
             /\ ending' \in BOOLEAN /\ overlapped' \in BOOLEAN
  BY <1>1, <1>3 DEF Reject, FlagsOK
<1>4. ASSUME NEW t \in Creating(k), overlapped' = TRUE,
             Succeed(t, others), channel' = [reset EXCEPT ![conns[k].id] = k]
      PROVE  /\ channel' \in [Ids -> Conns \cup {None}]
             /\ ending' \in BOOLEAN /\ overlapped' \in BOOLEAN
  BY <1>1, <1>4 DEF Succeed, FlagsOK
<1> QED BY <1>2, <1>3, <1>4 DEF Interrupt

LEMMA StepFlags == ASSUME Basics, [Next]_vars PROVE FlagsOK'
<1> USE DEF Basics
<1>1. ASSUME NEW k \in Conns, Up(k) PROVE conns[k].id \in Ids
  BY <1>1 DEF ConnsOK, ConnRecord, Up
<1>2. ASSUME NEW k \in Conns, NEW loop \in Loops, ConnectionCloses(k, loop) PROVE FlagsOK'
  <2>1. conns[k].id \in Ids BY <1>1, <1>2 DEF ConnectionCloses
  <2>2. [channel EXCEPT ![conns[k].id] = None] \in [Ids -> Conns \cup {None}]
    BY DEF FlagsOK
  <2>3. calm' \in BOOLEAN BY <1>2 DEF ConnectionCloses
  <2> QED BY <1>2, <2>1, <2>2, <2>3, InterruptFlags DEF ConnectionCloses, FlagsOK
<1>3. ASSUME NEW k \in Conns, ClosesUnheard(k) PROVE FlagsOK'
  <2>1. conns[k].id \in Ids BY <1>1, <1>3 DEF ClosesUnheard
  <2> QED BY <1>3, <2>1, InterruptFlags DEF ClosesUnheard, FlagsOK
<1>4. ASSUME NEW t \in Tasks, TaskStep(t) PROVE FlagsOK'
  <2>1. tasks[t].pc = "creating" => tasks[t].id \in Ids /\ tasks[t].conn \in Conns
    BY TaskFields DEF TasksOK
  <2> QED
    BY <1>4, <2>1 DEF TaskStep, Wake, Dialed, DialFails, Created, CreateFails, Succeed, Reject, FlagsOK
<1>5. CASE Load BY <1>5 DEF Load, FlagsOK
<1>6. CASE Dispose BY <1>6 DEF Dispose, FlagsOK
<1>7. CASE CloseNext \/ Closed \/ UNCHANGED vars
  BY <1>7 DEF CloseNext, Closed, FlagsOK, vars
<1> QED BY <1>2, <1>3, <1>4, <1>5, <1>6, <1>7 DEF Next, ConnStep

LEMMA BasicsInductive == (Init => Basics) /\ (Basics /\ [Next]_vars => Basics')
<1>1. ASSUME Init PROVE Basics
  <2>1. TasksOK BY <1>1, IdleOK DEF Init, TasksOK, TaskOK
  <2>2. ConnsOK BY <1>1 DEF Init, ConnsOK, ConnRecord, None
  <2>3. DisposalOK /\ begun \in 0..Identities BY <1>1, RabbitAssumption DEF Init, DisposalOK
  <2>4. FlagsOK BY <1>1 DEF Init, FlagsOK
  <2> QED BY <2>1, <2>2, <2>3, <2>4 DEF Basics
<1>2. ASSUME Basics, [Next]_vars PROVE Basics'
  BY <1>2, StepTasks, StepConns, StepBegun, StepFlags DEF Basics
<1> QED BY <1>1, <1>2

(* The variables of the module keep their types, and async-retry keeps to  *)
(* its limit.                                                              *)
THEOREM TypesKept == Spec => []TypeOK
<1>1. Basics => TypeOK
  <2> SUFFICES ASSUME Basics PROVE TypeOK OBVIOUS
  <2>1. \A t \in Tasks : Active(t) => tasks[t].attempt <= MaxRetries
    BY DEF Basics, TasksOK, TaskOK, Active
  <2> QED BY <2>1 DEF Basics, TypeOK, TasksOK, ConnsOK, ConnRecord, DisposalOK, FlagsOK
<1> QED BY <1>1, BasicsInductive, PTL DEF Spec
-----------------------------------------------------------------------------
(* As long as create() is not disturbed, an identity has one task or one   *)
(* connection, never two of either, and nothing exists for an identity     *)
(* load() has not come to.                                                 *)
OneTask == \A s, t \in Tasks :
             Active(s) /\ Active(t) /\ tasks[s].id = tasks[t].id => s = t

DialsAlone == \A t \in Tasks, k \in Conns :
                tasks[t].pc \in {"dialing", "sleeping"} /\ Up(k) => conns[k].id # tasks[t].id

OnlyBegun == /\ \A t \in Tasks : Active(t) => tasks[t].id <= begun
             /\ \A k \in Conns : Up(k) => conns[k].id <= begun

CreatesOnUp == \A t \in Tasks :
                 tasks[t].pc = "creating" =>
                   Up(tasks[t].conn) /\ conns[tasks[t].conn].id = tasks[t].id

UpIsStored == \A k \in Conns : Up(k) => connections[conns[k].id] = k

UpListens == disposal.pc = "no" => \A k \in Conns : Up(k) => conns[k].listening

Unattended(id) == \A t \in Tasks : Active(t) => tasks[t].id # id

ChannelSet ==
  disposal.pc = "no" /\ ~ending =>
    \A id \in 1..begun : Unattended(id) =>
      channel[id] # None /\ channel[id] = connections[id] /\ Up(channel[id])

Sole == /\ OneTask /\ DialsAlone /\ OnlyBegun /\ CreatesOnUp /\ UpIsStored /\ UpListens
        /\ ChannelSet

LEMMA UpFields ==
  ASSUME ConnsOK, NEW k \in Conns, Up(k)
  PROVE  conns[k] \in [pc : {"up", "closed"}, id : Ids, listening : BOOLEAN]
BY DEF ConnsOK, ConnRecord, Up

(* load() begins, or a task fails, wakes up or has its channel: the tasks  *)
(* change, the connections do not.                                         *)
LEMMA SoleLoad == ASSUME Basics, Sole, Load PROVE Sole'
<1>1. /\ begun = 0 /\ begun' = 1
      /\ tasks' = [tasks EXCEPT ![Loader] = Dialing(1, 0)]
      /\ UNCHANGED <<connections, channel, disposal, ending, conns>>
  BY DEF Load
<1>2. \A t \in Tasks : ~Active(t)
  BY <1>1, TaskFields DEF Sole, OnlyBegun, Active, Basics, TasksOK, Ids
<1>3. \A k \in Conns : ~Up(k)
  BY <1>1, UpFields DEF Sole, OnlyBegun, Basics, Ids
<1>4. \A t \in Tasks : tasks'[t] = IF t = Loader THEN Dialing(1, 0) ELSE tasks[t]
  BY <1>1 DEF Basics, TasksOK
<1>5. \A t \in Tasks : Active(t)' => t = Loader
  BY <1>2, <1>4 DEF Active
<1>6. tasks'[Loader].id = 1 /\ tasks'[Loader].pc = "dialing" /\ Loader \in Tasks
  BY <1>4 DEF Dialing, Tasks
<1>7. \A k \in Conns : ~Up(k)' BY <1>1, <1>3 DEF Up
<1>8. Active(Loader)' BY <1>4, <1>6 DEF Active, Idle
<1>9. OneTask' /\ DialsAlone' /\ UpIsStored' /\ UpListens'
  BY <1>5, <1>7 DEF OneTask, DialsAlone, UpIsStored, UpListens
<1>10. OnlyBegun' BY <1>1, <1>5, <1>6, <1>7 DEF OnlyBegun
<1>11. CreatesOnUp'
  BY <1>2, <1>4, <1>6, TaskFields DEF CreatesOnUp, Basics, TasksOK, Active
<1>12. ChannelSet' BY <1>1, <1>6, <1>8 DEF ChannelSet, Unattended
<1> QED BY <1>9, <1>10, <1>11, <1>12 DEF Sole

(* A step of task t after which it is idle, sleeps or dials, for the same  *)
(* identity or for the next one load() comes to.                           *)
LEMMA SoleWaits ==
  ASSUME Basics, Sole, NEW t \in Tasks, Active(t),
         NEW r, tasks' = [tasks EXCEPT ![t] = r], TaskOK(r),
         UNCHANGED <<connections, disposal, conns>>,
         \/ /\ r # Idle => /\ r.id = tasks[t].id
                           /\ r.pc \in {"dialing", "sleeping"}
                           /\ tasks[t].pc \in {"dialing", "sleeping"}
            /\ begun' = begun /\ channel' = channel
            /\ r = Idle => ending'
         \/ /\ tasks[t].pc = "creating"
            /\ channel' = [channel EXCEPT ![tasks[t].id] = tasks[t].conn]
            /\ \/ r = Idle /\ begun' = begun
               \/ begun' = begun + 1 /\ r.pc = "dialing" /\ r.id = begun',
         ending => ending'
  PROVE  Sole'
<1>0. /\ begun \in Nat
      /\ tasks[t].id \in Ids /\ (r # Idle => r.id \in Ids)
      /\ \A s \in Tasks : tasks'[s] = IF s = t THEN r ELSE tasks[s]
  BY TaskFields, RabbitAssumption DEF Basics, TasksOK, Active, TaskOK
<1>1. \A k \in Conns : Up(k)' = Up(k) BY DEF Up
<1>2. \A s \in Tasks \ {t} : /\ tasks'[s] = tasks[s] /\ Active(s)' = Active(s)
                             /\ Active(s) => tasks[s].id # tasks[t].id
  BY <1>0 DEF Active, Sole, OneTask
<1>3. \A s \in Tasks : Active(s) => tasks[s].id <= begun BY DEF Sole, OnlyBegun
<1>4. (Active(t)' <=> r # Idle) /\ tasks'[t] = r BY <1>0 DEF Active
<1>5. r # Idle => \/ r.id = tasks[t].id /\ begun' = begun
                     /\ tasks[t].pc \in {"dialing", "sleeping"}
                  \/ r.id = begun + 1 /\ begun' = begun + 1
  OBVIOUS
<1>6. begun' = begun \/ (begun' = begun + 1 /\ r # Idle /\ r.id = begun') BY DEF Idle
<1>7. \A s \in Tasks : Active(s) => tasks[s].id \in Nat
  BY TaskFields DEF Basics, TasksOK, Active, Ids
<1>8. \A k \in Conns : Up(k) => conns[k].id \in Nat /\ conns[k].id <= begun
  BY UpFields DEF Basics, Sole, OnlyBegun, Ids
<1>9. OneTask'
  <2>1. ASSUME NEW s \in Tasks \ {t}, Active(s)', r # Idle PROVE tasks'[s].id # r.id
    <3>1. Active(s) /\ tasks'[s] = tasks[s] /\ tasks[s].id # tasks[t].id BY <1>2, <2>1
    <3>2. tasks[s].id <= begun /\ tasks[s].id \in Nat BY <1>3, <1>7, <3>1
    <3> QED BY <1>0, <1>5, <2>1, <3>1, <3>2
  <2>2. ASSUME NEW s \in Tasks \ {t}, NEW u \in Tasks \ {t}, Active(s)', Active(u)',
               tasks'[s].id = tasks'[u].id
        PROVE  s = u
    BY <1>2, <2>2 DEF OneTask, Sole
  <2> QED BY <1>4, <2>1, <2>2 DEF OneTask
<1>10. DialsAlone'
  <2>1. ASSUME NEW s \in Tasks \ {t}, NEW k \in Conns,
               tasks'[s].pc \in {"dialing", "sleeping"}, Up(k)'
        PROVE  conns'[k].id # tasks'[s].id
    BY <1>1, <1>2, <2>1 DEF DialsAlone, Sole
  <2>2. ASSUME NEW k \in Conns, r.pc \in {"dialing", "sleeping"}, Up(k)
        PROVE  conns[k].id # r.id
    BY <1>0, <1>5, <1>8, <2>2 DEF DialsAlone, Sole, Idle
  <2> QED BY <1>1, <1>4, <2>1, <2>2 DEF DialsAlone
<1>11. OnlyBegun'
  <2>1. begun <= begun' /\ begun' \in Nat BY <1>0, <1>6
  <2>2. ASSUME NEW s \in Tasks \ {t}, Active(s)' PROVE tasks'[s].id <= begun'
    BY <1>0, <1>2, <1>3, <1>7, <2>1, <2>2
  <2>3. ASSUME Active(t)' PROVE tasks'[t].id <= begun'
    <3>1. tasks'[t] = r /\ r # Idle BY <1>4, <2>3
    <3>2. tasks[t].id <= begun /\ tasks[t].id \in Nat BY <1>3, <1>7
    <3> QED BY <1>0, <1>5, <2>1, <3>1, <3>2
  <2>4. ASSUME NEW k \in Conns, Up(k)' PROVE conns'[k].id <= begun'
    BY <1>0, <1>1, <1>8, <2>1, <2>4
  <2> QED BY <2>2, <2>3, <2>4 DEF OnlyBegun
<1>12. r.pc # "creating" BY DEF Idle
<1>13. CreatesOnUp'
  <2>1. ASSUME NEW s \in Tasks, (tasks[s].pc = "creating")'
        PROVE  (Up(tasks[s].conn) /\ conns[tasks[s].conn].id = tasks[s].id)'
    <3>1. s # t BY <1>4, <1>12, <2>1
    <3>2. tasks'[s] = tasks[s] BY <1>2, <3>1
    <3> QED BY <2>1, <3>2 DEF CreatesOnUp, Sole, Up
  <2> QED BY <2>1 DEF CreatesOnUp
<1>14. UpIsStored' /\ UpListens' BY <1>1 DEF UpIsStored, UpListens, Sole
<1>15. ChannelSet'
  <2> SUFFICES ASSUME (disposal.pc = "no")', (~ending)', NEW id \in 1..begun', Unattended(id)'
               PROVE  (channel[id] # None /\ channel[id] = connections[id] /\ Up(channel[id]))'
    BY DEF ChannelSet
  <2>1. disposal.pc = "no" /\ ~ending OBVIOUS
  <2>2. CASE id # tasks[t].id
    <3>1. id \in 1..begun
      <4>1. CASE begun' = begun BY <4>1
      <4>2. CASE begun' = begun + 1 /\ r # Idle /\ r.id = begun'
        <5>1. id # r.id BY <1>4, <4>2 DEF Unattended
        <5> QED BY <1>0, <4>2, <5>1
      <4> QED BY <1>6, <4>1, <4>2
    <3>2. Unattended(id)
      BY <1>2, <2>2 DEF Unattended
    <3>3. channel[id] # None /\ channel[id] = connections[id] /\ Up(channel[id])
      BY <2>1, <3>1, <3>2 DEF Sole, ChannelSet
    <3>4. channel'[id] = channel[id]
      <4>1. id \in Ids BY <3>1, RabbitAssumption DEF Basics, Ids
      <4> QED BY <1>0, <2>2, <4>1 DEF Basics, FlagsOK
    <3> QED BY <3>3, <3>4 DEF Up
  <2>3. CASE id = tasks[t].id
    <3>1. tasks[t].pc = "creating" /\ channel' = [channel EXCEPT ![id] = tasks[t].conn]
      BY <1>0, <1>4, <2>3 DEF Unattended
    <3>2. tasks[t].conn \in Conns BY <3>1, TaskFields DEF Basics, TasksOK
    <3>3. Up(tasks[t].conn) /\ conns[tasks[t].conn].id = id
      BY <2>3, <3>1 DEF Sole, CreatesOnUp
    <3>4. connections[id] = tasks[t].conn BY <3>2, <3>3 DEF Sole, UpIsStored
    <3>5. channel'[id] = tasks[t].conn BY <1>0, <2>3, <3>1 DEF Basics, FlagsOK
    <3> QED BY <3>2, <3>3, <3>4, <3>5 DEF Up, Conns, None
  <2> QED BY <2>2, <2>3
<1> QED BY <1>9, <1>10, <1>11, <1>13, <1>14, <1>15 DEF Sole
LEMMA SoleTask ==
  ASSUME Basics, Sole, NEW t \in Tasks,
         Wake(t) \/ DialFails(t) \/ Created(t)
  PROVE  Sole'
<1>1. CASE Wake(t)
  <2> DEFINE r == Dialing(tasks[t].id, tasks[t].attempt + 1)
  <2>1. tasks[t].pc = "sleeping" /\ tasks' = [tasks EXCEPT ![t] = r]
    BY <1>1 DEF Wake, Basics, TasksOK
  <2>2. Active(t) BY <2>1, TaskFields DEF Basics, TasksOK, Active
  <2>3. TaskOK(r) /\ r.pc = "dialing" /\ r.id = tasks[t].id /\ r # Idle
    <3>1. tasks[t].id \in Ids /\ tasks[t].attempt \in Nat /\ tasks[t].attempt < MaxRetries
      BY <2>1, TaskFields DEF Basics, TasksOK, TaskOK
    <3> QED BY <3>1, DialingOK, RabbitAssumption DEF Dialing, Idle
  <2>4. UNCHANGED <<connections, channel, begun, disposal, ending, conns>> BY <1>1 DEF Wake
  <2> HIDE DEF r
  <2> QED BY <2>1, <2>2, <2>3, <2>4, SoleWaits
<1>2. CASE DialFails(t)
  <2> DEFINE r == AfterFailure(t)
  <2>1. /\ tasks[t].pc = "dialing" /\ tasks' = [tasks EXCEPT ![t] = r]
        /\ UNCHANGED <<connections, channel, begun, disposal, conns>>
        /\ ending' = (ending \/ GivesUp(t))
    BY <1>2 DEF DialFails, Reject
  <2>2. Active(t) BY <2>1, TaskFields DEF Basics, TasksOK, Active
  <2>3. TaskOK(r) BY <2>2, AfterFailureOK DEF Basics
  <2>4. r # Idle => r.id = tasks[t].id /\ r.pc = "sleeping" BY DEF AfterFailure
  <2>5. (r = Idle => ending') /\ (ending => ending')
    <3>1. r = Idle => GivesUp(t) BY DEF AfterFailure, Idle
    <3> QED BY <2>1, <3>1, Zenon
  <2> HIDE DEF r
  <2> QED BY <2>1, <2>2, <2>3, <2>4, <2>5, SoleWaits
<1>3. CASE Created(t)
  <2> DEFINE r == AfterSuccess(t)
  <2>1. /\ tasks[t].pc = "creating" /\ tasks' = [tasks EXCEPT ![t] = r]
        /\ channel' = [channel EXCEPT ![tasks[t].id] = tasks[t].conn]
        /\ UNCHANGED <<connections, disposal, ending, conns>>
        /\ begun' = IF t = Loader /\ begun < Identities THEN begun + 1 ELSE begun
    BY <1>3 DEF Created, Succeed
  <2>2. Active(t) BY <2>1, TaskFields DEF Basics, TasksOK, Active
  <2>3. TaskOK(r) BY AfterSuccessOK DEF Basics
  <2>4. \/ r = Idle /\ begun' = begun
        \/ begun' = begun + 1 /\ r.pc = "dialing" /\ r.id = begun'
    BY <2>1 DEF AfterSuccess, Dialing
  <2> HIDE DEF r
  <2> QED BY <2>1, <2>2, <2>3, <2>4, SoleWaits
<1> QED BY <1>1, <1>2, <1>3

(* A connection opens for a task that dials: no other one is up for its    *)
(* identity.                                                               *)
LEMMA SoleDialed ==
  ASSUME Basics, Sole, NEW t \in Tasks, NEW k \in Conns, Dialed(t, k)
  PROVE  Sole'
<1> DEFINE r == [pc |-> "creating", id |-> tasks[t].id, attempt |-> tasks[t].attempt,
                 conn |-> k]
<1>1. /\ tasks[t].pc = "dialing" /\ conns[k].pc = "none"
      /\ conns' = [conns EXCEPT ![k] = [pc |-> "up", id |-> tasks[t].id, listening |-> TRUE]]
      /\ connections' = [connections EXCEPT ![tasks[t].id] = k]
      /\ tasks' = [tasks EXCEPT ![t] = r]
      /\ UNCHANGED <<channel, begun, disposal, ending, overlapped>>
  BY DEF Dialed, Basics, TasksOK
<1>2. Active(t) /\ tasks[t].id \in Ids
  BY <1>1, TaskFields DEF Basics, TasksOK, Active
<1>3. /\ r.pc = "creating" /\ r.id = tasks[t].id /\ r.conn = k /\ r # Idle
  BY DEF Idle
<1>4. \A s \in Tasks : tasks'[s] = IF s = t THEN r ELSE tasks[s]
  BY <1>1 DEF Basics, TasksOK
<1> HIDE DEF r
<1>5. \A s \in Tasks : /\ Active(s)' <=> Active(s)
                       /\ Active(s) => tasks'[s].id = tasks[s].id
  BY <1>2, <1>3, <1>4 DEF Active
<1>6. ~Up(k) /\ Up(k)' /\ conns'[k].id = tasks[t].id /\ conns'[k].listening
  BY <1>1 DEF Up, Basics, ConnsOK
<1>7. \A j \in Conns \ {k} : conns'[j] = conns[j] /\ (Up(j)' <=> Up(j))
  BY <1>1 DEF Up, Basics, ConnsOK
<1>8. \A j \in Conns : Up(j) => conns[j].id # tasks[t].id
  BY <1>1 DEF Sole, DialsAlone
<1>9. OneTask' BY <1>5 DEF Sole, OneTask
<1>10. DialsAlone'
  <2>1. ASSUME NEW s \in Tasks, NEW j \in Conns, tasks'[s].pc \in {"dialing", "sleeping"}, Up(j)'
        PROVE  conns'[j].id # tasks'[s].id
    <3>1. s # t /\ tasks'[s] = tasks[s] BY <1>3, <1>4, <2>1
    <3>2. CASE j = k
      <4>1. Active(s) BY <2>1, <3>1, TaskFields DEF Active, Basics, TasksOK
      <4> QED BY <1>2, <1>6, <3>1, <3>2, <4>1 DEF Sole, OneTask
    <3>3. CASE j # k BY <1>7, <2>1, <3>1, <3>3 DEF Sole, DialsAlone
    <3> QED BY <3>2, <3>3
  <2> QED BY <2>1 DEF DialsAlone
<1>11. OnlyBegun'
  BY <1>1, <1>2, <1>5, <1>6, <1>7 DEF Sole, OnlyBegun
<1>12. CreatesOnUp'
  <2>1. ASSUME NEW s \in Tasks, (tasks[s].pc = "creating")'
        PROVE  (Up(tasks[s].conn) /\ conns[tasks[s].conn].id = tasks[s].id)'
    <3>1. CASE s = t BY <1>3, <1>4, <1>6, <3>1
    <3>2. CASE s # t
      <4>1. tasks'[s] = tasks[s] /\ tasks[s].conn \in Conns
        BY <1>4, <2>1, <3>2, TaskFields DEF Basics, TasksOK
      <4>2. Up(tasks[s].conn) /\ conns[tasks[s].conn].id = tasks[s].id
        BY <2>1, <4>1 DEF Sole, CreatesOnUp
      <4>3. tasks[s].conn # k BY <1>6, <4>2
      <4>4. conns'[tasks[s].conn] = conns[tasks[s].conn] BY <1>7, <4>1, <4>3
      <4> QED BY <4>1, <4>2, <4>4 DEF Up
    <3> QED BY <3>1, <3>2
  <2> QED BY <2>1 DEF CreatesOnUp
<1>13. UpIsStored'
  <2>1. ASSUME NEW j \in Conns, Up(j)' PROVE connections'[conns'[j].id] = j
    <3>1. CASE j = k BY <1>1, <1>2, <1>6, <3>1 DEF Basics, ConnsOK
    <3>2. CASE j # k
      <4>1. Up(j) /\ conns'[j] = conns[j] /\ conns[j].id \in Ids
        BY <1>7, <2>1, <3>2, UpFields DEF Basics
      <4> QED BY <1>1, <1>8, <4>1 DEF Sole, UpIsStored, Basics, ConnsOK
    <3> QED BY <3>1, <3>2
  <2> QED BY <2>1 DEF UpIsStored
<1>14. UpListens' BY <1>1, <1>6, <1>7 DEF Sole, UpListens
<1>15. ChannelSet'
  <2> SUFFICES ASSUME (disposal.pc = "no")', (~ending)', NEW id \in 1..begun', Unattended(id)'
               PROVE  (channel[id] # None /\ channel[id] = connections[id] /\ Up(channel[id]))'
    BY DEF ChannelSet
  <2>1. Unattended(id) /\ id # tasks[t].id BY <1>2, <1>5 DEF Unattended
  <2>2. channel[id] # None /\ channel[id] = connections[id] /\ Up(channel[id])
    BY <1>1, <2>1 DEF Sole, ChannelSet
  <2>3. id \in Ids /\ channel[id] \in Conns
    BY <1>1, <2>2, RabbitAssumption DEF Basics, FlagsOK, Ids
  <2>4. connections'[id] = connections[id] BY <1>1, <2>1, <2>3 DEF Basics, ConnsOK
  <2>5. conns'[channel[id]] = conns[channel[id]] BY <1>6, <1>7, <2>2, <2>3
  <2> QED BY <1>1, <2>2, <2>4, <2>5 DEF Up
<1> QED BY <1>9, <1>10, <1>11, <1>12, <1>13, <1>14, <1>15 DEF Sole

(* A connection closes while no create() is pending on it: it is the one   *)
(* that is stored, nobody else is connecting its identity, and the new     *)
(* loop is the only one that does.                                         *)
LEMMA SoleCloses ==
  ASSUME Basics, Sole, NEW k \in Conns, NEW loop \in Loops, ConnectionCloses(k, loop),
         ~overlapped'
  PROVE  Sole'
<1>0. PICK own : own = conns[k].id OBVIOUS
<1> DEFINE r == Dialing(own, 0)
<1>1. /\ Up(k) /\ own \in Ids /\ loop \in Tasks /\ tasks[loop] = Idle
      /\ connections[own] = k
  BY <1>0, UpFields DEF ConnectionCloses, Basics, Sole, UpIsStored, Tasks
<1>2. /\ Creating(k) = {}
      /\ tasks' = [tasks EXCEPT ![loop] = r]
      /\ channel' = [channel EXCEPT ![own] = None]
      /\ connections' = [connections EXCEPT ![own] = None]
      /\ UNCHANGED <<begun, ending, disposal>>
  BY <1>0 DEF ConnectionCloses, Interrupt
<1>3. \A j \in Conns : j # k => conns'[j] = conns[j]
  BY <1>0, <1>1 DEF ConnectionCloses
<1>4. ~Up(k)' BY DEF ConnectionCloses, Up
<1>5. \A j \in Conns : Up(j)' => j # k /\ Up(j) /\ conns'[j] = conns[j]
  BY <1>3, <1>4 DEF Up
<1>6. r.pc = "dialing" /\ r.id = own /\ r # Idle BY DEF Dialing, Idle
<1>7. \A s \in Tasks : tasks'[s] = IF s = loop THEN r ELSE tasks[s]
  BY <1>2 DEF Basics, TasksOK
<1> HIDE DEF r
<1>8. ASSUME NEW s \in Tasks, Active(s) PROVE s # loop /\ tasks[s].id # own
  <2>1. CASE tasks[s].pc \in {"dialing", "sleeping"}
    BY <1>0, <1>1, <1>8, <2>1 DEF Sole, DialsAlone, Active
  <2>2. CASE tasks[s].pc = "creating"
    <3>1. tasks[s].conn \in Conns /\ Up(tasks[s].conn)
          /\ conns[tasks[s].conn].id = tasks[s].id
      BY <2>2, TaskFields DEF Sole, CreatesOnUp, Basics, TasksOK
    <3>2. connections[tasks[s].id] = tasks[s].conn BY <3>1 DEF Sole, UpIsStored
    <3>3. tasks[s].conn # k BY <1>2, <2>2 DEF Creating
    <3> QED BY <1>1, <1>8, <3>2, <3>3 DEF Active
  <2> QED BY <1>8, <2>1, <2>2, TaskFields DEF Basics, TasksOK, Active
<1>9. \A s \in Tasks : Active(s)' => \/ s = loop /\ tasks'[s] = r
                                     \/ s # loop /\ Active(s) /\ tasks'[s] = tasks[s]
  BY <1>7 DEF Active
<1>10. \A j \in Conns : Up(j)' => conns[j].id # own
  BY <1>1, <1>5 DEF Sole, UpIsStored
<1>11. OneTask' BY <1>6, <1>8, <1>9 DEF Sole, OneTask
<1>12. DialsAlone'
  BY <1>5, <1>6, <1>7, <1>10 DEF Sole, DialsAlone
<1>13. OnlyBegun'
  BY <1>0, <1>1, <1>2, <1>5, <1>6, <1>9 DEF Sole, OnlyBegun
<1>14. CreatesOnUp'
  <2>1. ASSUME NEW s \in Tasks, (tasks[s].pc = "creating")'
        PROVE  (Up(tasks[s].conn) /\ conns[tasks[s].conn].id = tasks[s].id)'
    <3>1. tasks'[s] = tasks[s] /\ tasks[s].conn \in Conns
      BY <1>6, <1>7, <2>1, TaskFields DEF Basics, TasksOK
    <3>2. tasks[s].conn # k BY <1>2, <2>1, <3>1 DEF Creating
    <3> QED BY <1>3, <2>1, <3>1, <3>2 DEF Sole, CreatesOnUp, Up
  <2> QED BY <2>1 DEF CreatesOnUp
<1>15. UpIsStored'
  <2>1. ASSUME NEW j \in Conns, Up(j)' PROVE connections'[conns'[j].id] = j
    <3>1. Up(j) /\ conns'[j] = conns[j] /\ conns[j].id \in Ids /\ conns[j].id # own
      BY <1>5, <1>10, <2>1, UpFields DEF Basics
    <3> QED BY <1>2, <3>1 DEF Sole, UpIsStored, Basics, ConnsOK
  <2> QED BY <2>1 DEF UpIsStored
<1>16. UpListens' BY <1>2, <1>5 DEF Sole, UpListens
<1>17. ChannelSet'
  <2> SUFFICES ASSUME (disposal.pc = "no")', (~ending)', NEW id \in 1..begun', Unattended(id)'
               PROVE  (channel[id] # None /\ channel[id] = connections[id] /\ Up(channel[id]))'
    BY DEF ChannelSet
  <2>1. id # own BY <1>1, <1>6, <1>7 DEF Unattended, Active
  <2>2. Unattended(id) BY <1>7, <1>8 DEF Unattended, Active
  <2>3. channel[id] # None /\ channel[id] = connections[id] /\ Up(channel[id])
    BY <1>2, <2>2 DEF Sole, ChannelSet
  <2>4. id \in Ids /\ channel[id] \in Conns
    BY <1>2, <2>3, RabbitAssumption DEF Basics, FlagsOK, Ids
  <2>5. conns[channel[id]].id = id
    BY <2>3, <2>4 DEF Basics, ConnsOK
  <2>6. channel[id] # k BY <1>0, <2>1, <2>5
  <2>7. channel'[id] = channel[id] /\ connections'[id] = connections[id]
    BY <1>2, <2>1, <2>4 DEF Basics, ConnsOK, FlagsOK
  <2> QED BY <1>3, <2>3, <2>4, <2>6, <2>7 DEF Up
<1> QED BY <1>11, <1>12, <1>13, <1>14, <1>15, <1>16, <1>17 DEF Sole

(* From dispose() on, connections lose their listener and then close.      *)
LEMMA SoleUnheard ==
  ASSUME Basics, Sole, NEW k \in Conns, ClosesUnheard(k), ~overlapped'
  PROVE  Sole'
<1>1. /\ Up(k) /\ disposal.pc # "no"
      /\ Creating(k) = {} /\ tasks' = tasks
      /\ UNCHANGED <<begun, ending, disposal, connections, channel>>
  BY DEF ClosesUnheard, Interrupt, Sole, UpListens
<1>2. \A j \in Conns : /\ Up(j)' => j # k /\ Up(j)
                       /\ j # k => conns'[j] = conns[j]
  BY DEF ClosesUnheard, Up, Basics, ConnsOK
<1>3. CreatesOnUp'
  <2>1. ASSUME NEW s \in Tasks, tasks[s].pc = "creating"
        PROVE  (Up(tasks[s].conn) /\ conns[tasks[s].conn].id = tasks[s].id)'
    <3>1. tasks[s].conn \in Conns BY <2>1, TaskFields DEF Basics, TasksOK
    <3>2. tasks[s].conn # k BY <1>1, <2>1 DEF Creating
    <3> QED BY <1>1, <1>2, <2>1, <3>1, <3>2 DEF Sole, CreatesOnUp, Up
  <2> QED BY <1>1, <2>1 DEF CreatesOnUp
<1>4. OneTask' BY <1>1 DEF Sole, OneTask, Active
<1>5. DialsAlone' BY <1>1, <1>2 DEF Sole, DialsAlone
<1>6. OnlyBegun' BY <1>1, <1>2 DEF Sole, OnlyBegun, Active
<1>7. UpIsStored' BY <1>1, <1>2 DEF Sole, UpIsStored
<1>8. UpListens' /\ ChannelSet' BY <1>1 DEF UpListens, ChannelSet
<1> QED BY <1>3, <1>4, <1>5, <1>6, <1>7, <1>8 DEF Sole

LEMMA SoleDisposes ==
  ASSUME Basics, Sole, Dispose \/ CloseNext \/ Closed PROVE Sole'
<1>1. UNCHANGED <<connections, tasks, begun, ending>> /\ disposal'.pc # "no"
  <2>1. CASE Dispose BY <2>1 DEF Dispose
  <2>2. CASE CloseNext \/ Closed
    <3>1. [Next]_vars /\ disposal.pc # "no" BY <2>2 DEF CloseNext, Closed, Next
    <3> QED BY <2>2, <3>1, StepBegun DEF CloseNext, Closed, Basics
  <2> QED BY <2>1, <2>2
<1>2. \A j \in Conns : conns'[j].id = conns[j].id /\ (Up(j)' <=> Up(j))
  <2>1. CASE conns' = conns BY <2>1 DEF Up
  <2>2. CASE CloseNext /\ conns' # conns
    <3>1. PICK k : conns' = [conns EXCEPT ![k].listening = FALSE] BY <2>2 DEF CloseNext
    <3> QED BY <3>1 DEF Basics, ConnsOK, Up
  <2> QED BY <2>1, <2>2 DEF Dispose, Closed
<1>3. OneTask' BY <1>1 DEF Sole, OneTask, Active
<1>4. DialsAlone' BY <1>1, <1>2 DEF Sole, DialsAlone
<1>5. OnlyBegun' BY <1>1, <1>2 DEF Sole, OnlyBegun, Active
<1>6. CreatesOnUp' BY <1>1, <1>2, TaskFields DEF Sole, CreatesOnUp, Basics, TasksOK
<1>7. UpIsStored' BY <1>1, <1>2 DEF Sole, UpIsStored
<1>8. UpListens' /\ ChannelSet' BY <1>1 DEF UpListens, ChannelSet
<1> QED BY <1>3, <1>4, <1>5, <1>6, <1>7, <1>8 DEF Sole

LEMMA StepSole ==
  ASSUME Basics, overlapped \/ Sole, [Next]_vars PROVE (overlapped \/ Sole)'
<1>1. CASE overlapped'  BY <1>1
<1>2. CASE ~overlapped'
  <2>1. ~overlapped
    <3>1. overlapped' = overlapped \/ overlapped' = TRUE
      BY DEF Next, TaskStep, ConnStep, Load, Wake, Dialed, DialFails, Created, CreateFails,
          Dispose, CloseNext, Closed, ConnectionCloses, ClosesUnheard, Interrupt, vars
    <3> QED BY <1>2, <3>1
  <2>2. Sole BY <2>1
  <2>3. CASE UNCHANGED vars
    BY <2>2, <2>3 DEF vars, Sole, OneTask, DialsAlone, OnlyBegun, CreatesOnUp, UpIsStored,
        UpListens, ChannelSet, Unattended, Active, Up
  <2>4. ASSUME NEW t \in Tasks PROVE ~CreateFails(t) BY <1>2 DEF CreateFails
  <2>5. Next => Sole'
    BY <1>2, <2>2, <2>4, SoleLoad, SoleTask, SoleDialed, SoleCloses, SoleUnheard, SoleDisposes
       DEF Next, TaskStep, ConnStep
  <2> QED BY <2>3, <2>5
<1> QED BY <1>1, <1>2

LEMMA InitSole == ASSUME Init PROVE Sole
<1>1. \A t \in Tasks : tasks[t] = Idle BY DEF Init
<1>2. \A k \in Conns : ~Up(k) BY DEF Init, Up
<1>3. ChannelSet BY RabbitAssumption DEF Init, ChannelSet
<1> QED
  BY <1>1, <1>2, <1>3, IdleOK
     DEF Sole, OneTask, DialsAlone, OnlyBegun, CreatesOnUp, UpIsStored, UpListens, Active

(* However connections are lost and retried: while no create() failed or   *)
(* lost its connection, each connection that is up is the one stored for   *)
(* its identity, so there is one at most, an identity nobody is connecting *)
(* has its channel on that connection, and a connection is dialed only for *)
(* an identity that has none up, which is what the bindings of             *)
(* RabbitChannel rest on.                                                  *)
THEOREM OneConnectionKept == Spec => []OneConnection
<1>1. Init => Basics /\ (overlapped \/ Sole) BY BasicsInductive, InitSole
<1>2. Basics /\ (overlapped \/ Sole) /\ [Next]_vars => (Basics /\ (overlapped \/ Sole))'
  BY BasicsInductive, StepSole
<1>3. Basics /\ (overlapped \/ Sole) => OneConnection
  BY DEF OneConnection, Sole, UpIsStored, ChannelSet, Unattended, DialsAlone
<1> QED BY <1>1, <1>2, <1>3, PTL DEF Spec

-----------------------------------------------------------------------------
(* A disposal that finds nobody connecting, and is let alone: connections  *)
(* are up only for the identities dispose() has not come to, and the one   *)
(* it waits for is the one that is stored.                                 *)
Quiet ==
  /\ \A t \in Tasks : ~Active(t)
  /\ \A k \in Conns : Up(k) => conns[k].id >= disposal.id
  /\ disposal.pc = "waiting" => connections[disposal.id] = disposal.conn

Orderly == calm /\ ~overlapped /\ disposal.pc # "no" => Quiet

LEMMA QuietNext == ASSUME Basics, Sole, Quiet, CloseNext \/ Closed PROVE Quiet'
<1> DEFINE id == disposal.id
<1>0. id \in Ids /\ id \in Nat BY DEF Basics, DisposalOK, CloseNext, Closed, Ids
<1>1. UNCHANGED <<connections, tasks>> BY DEF CloseNext, Closed
<1>2. \A t \in Tasks : ~Active(t)' BY <1>1 DEF Quiet, Active
<1>3. \A k \in Conns : Up(k) => /\ connections[conns[k].id] = k
                                /\ conns[k].id \in Nat /\ conns[k].id >= id
  BY UpFields DEF Quiet, Sole, UpIsStored, Basics, Ids
<1>4. CASE CloseNext /\ connections[id] = None
  <2>1. disposal'.pc = "next" /\ disposal'.id = id + 1 /\ conns' = conns
    BY <1>4 DEF CloseNext, Basics, DisposalOK
  <2>2. \A k \in Conns : Up(k) => conns[k].id # id
    BY <1>3, <1>4 DEF None, Conns
  <2>3. \A k \in Conns : Up(k) => conns[k].id >= id + 1 BY <1>0, <1>3, <2>2
  <2> QED BY <1>2, <2>1, <2>3 DEF Quiet, Up
<1>5. CASE CloseNext /\ connections[id] # None
  <2>1. /\ disposal' = [pc |-> "waiting", id |-> id, conn |-> connections[id]]
        /\ conns' = [conns EXCEPT ![connections[id]].listening = FALSE]
    BY <1>5 DEF CloseNext
  <2>2. \A k \in Conns : conns'[k].id = conns[k].id /\ (Up(k)' <=> Up(k))
    BY <2>1 DEF Basics, ConnsOK, Up
  <2>3. disposal'.id = id /\ disposal'.conn = connections[id] BY <2>1
  <2> QED BY <1>1, <1>2, <1>3, <2>2, <2>3 DEF Quiet
<1>6. CASE Closed
  <2>1. disposal' = [pc |-> "next", id |-> id + 1] /\ conns' = conns BY <1>6 DEF Closed
  <2>2. \A k \in Conns : Up(k) => conns[k].id # id
    BY <1>3, <1>6 DEF Closed, Quiet
  <2>3. \A k \in Conns : Up(k) => conns[k].id >= id + 1 BY <1>0, <1>3, <2>2
  <2> QED BY <1>2, <2>1, <2>3 DEF Quiet, Up
<1> QED BY <1>4, <1>5, <1>6

LEMMA StepOrderly ==
  ASSUME Basics, overlapped \/ Sole, Orderly, [Next]_vars PROVE Orderly'
<1> SUFFICES ASSUME calm', ~overlapped', (disposal.pc # "no")' PROVE Quiet'
  BY DEF Orderly
<1>1. ~overlapped
  <2>1. overlapped' = overlapped \/ overlapped' = TRUE
    BY DEF Next, TaskStep, ConnStep, Load, Wake, Dialed, DialFails, Created, CreateFails,
        Dispose, CloseNext, Closed, ConnectionCloses, ClosesUnheard, Interrupt, vars
  <2> QED BY <2>1
<1>2. CASE Dispose
  <2>1. /\ disposal' = [pc |-> "next", id |-> 1] /\ UNCHANGED <<tasks, conns>>
        /\ \A t \in Tasks : ~Active(t)
    <3>1. calm' = \A t \in Tasks : ~Active(t) BY <1>2 DEF Dispose
    <3>2. \A t \in Tasks : ~Active(t) BY <3>1, Zenon
    <3> QED BY <1>2, <3>2 DEF Dispose
  <2>2. \A k \in Conns : Up(k) => conns[k].id >= 1 BY UpFields DEF Basics, Ids
  <2> QED BY <2>1, <2>2 DEF Quiet, Active, Up
<1>3. CASE ~Dispose
  <2>1. disposal.pc # "no"
    <3>1. disposal.pc = "no" => disposal' = disposal
      BY <1>3 DEF Next, TaskStep, ConnStep, Load, Wake, Dialed, DialFails, Created, CreateFails,
          CloseNext, Closed, ConnectionCloses, ClosesUnheard, vars
    <3> QED BY <3>1
  <2>2. calm
    BY <1>3 DEF Next, TaskStep, ConnStep, Load, Wake, Dialed, DialFails, Created, CreateFails,
        CloseNext, Closed, ConnectionCloses, ClosesUnheard, vars, Basics, FlagsOK
  <2>3. Quiet /\ Sole BY <1>1, <2>1, <2>2 DEF Orderly
  <2>4. ~Load BY <2>1 DEF Load
  <2>5. ASSUME NEW t \in Tasks, TaskStep(t) PROVE FALSE
    <3>1. tasks[t].pc \in {"dialing", "sleeping", "creating"}
      BY <2>5 DEF TaskStep, Wake, Dialed, DialFails, Created, CreateFails
    <3> QED BY <2>3, <3>1, TaskFields DEF Quiet, Active, Basics, TasksOK
  <2>6. ASSUME NEW k \in Conns, NEW loop \in Loops PROVE ~ConnectionCloses(k, loop)
    BY <2>1 DEF ConnectionCloses
  <2>7. ASSUME NEW k \in Conns, ClosesUnheard(k) PROVE Quiet'
    <3>1. UNCHANGED <<tasks, connections, disposal>>
      BY <2>7 DEF ClosesUnheard, Interrupt
    <3>2. \A j \in Conns : conns'[j].id = conns[j].id /\ (Up(j)' => Up(j))
      BY <2>7 DEF ClosesUnheard, Up, Basics, ConnsOK
    <3> QED BY <2>3, <3>1, <3>2 DEF Quiet, Active
  <2>8. CASE CloseNext \/ Closed BY <2>3, <2>8, QuietNext
  <2>9. CASE UNCHANGED vars BY <2>3, <2>9 DEF vars, Quiet, Active, Up
  <2> QED BY <1>3, <2>4, <2>5, <2>6, <2>7, <2>8, <2>9 DEF Next, ConnStep
<1> QED BY <1>2, <1>3

(* A dispose() that begins when nothing is connecting, and during which no *)
(* connection is lost or begun, returns with every connection closed: the  *)
(* broker sees none of them again.                                         *)
THEOREM DisposalCloses == Spec => []DisposeClosesAll
<1> DEFINE IInv == Basics /\ (overlapped \/ Sole) /\ Orderly
<1>1. Init => IInv
  <2>1. Init => Orderly BY DEF Init, Orderly
  <2> QED BY <2>1, BasicsInductive, InitSole
<1>2. IInv /\ [Next]_vars => IInv'
  BY BasicsInductive, StepSole, StepOrderly
<1>3. IInv => DisposeClosesAll
  <2> SUFFICES ASSUME IInv, calm, ~overlapped, disposal.pc = "next", disposal.id > Identities,
                      NEW k \in Conns, Up(k)
               PROVE  FALSE
    BY DEF DisposeClosesAll
  <2>1. conns[k].id >= disposal.id BY DEF Orderly, Quiet
  <2>2. conns[k].id \in Ids /\ disposal.id \in Nat BY UpFields DEF Basics, DisposalOK
  <2> QED BY <2>1, <2>2, RabbitAssumption DEF Ids
<1> QED BY <1>1, <1>2, <1>3, PTL DEF Spec
=============================================================================
