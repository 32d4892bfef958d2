------------------------------ MODULE RabbitMQ ------------------------------
(***************************************************************************)
(* CortecRabbitMQ of packages/rabbitmq/src/main.ts: load() connects one    *)
(* identity after the other, the 'close' handler of a connection starts a  *)
(* reconnect() that retries, and dispose() closes the connections.         *)
(*                                                                         *)
(* A task is a call of connect(): load()'s own, or that of a retry loop.   *)
(* It dials, attaches the 'close' handler, stores the connection, and      *)
(* waits for create() of the channel, of which only the end matters here:  *)
(* module RabbitChannel has the rest.  External: amqplib's connections.    *)
(* When one closes, its handler runs first, and the promises that were     *)
(* pending on it settle before anything else happens.                      *)
(***************************************************************************)
EXTENDS Integers

CONSTANTS
  Identities,     \* bound: the identities of the configuration are 1..Identities
  MaxRetries,     \* async-retry's limit, 10 by default
  Loops,          \* bound: retry loops at a time
  MaxConns        \* bound: connections

Conns == 1..MaxConns
Ids == 1..Identities
None == 0
Loader == "load"
Tasks == {Loader} \cup Loops

ASSUME RabbitAssumption ==
  /\ Identities \in Nat /\ MaxRetries \in Nat /\ MaxConns \in Nat
  /\ Loader \notin Loops

VARIABLES
  connections,    \* $connections: identity -> connection, None when deleted
  channel,        \* the connection of each identity's channel, None after reset()
  tasks,          \* where each task is
  begun,          \* the identities load() has come to are 1..begun
  disposal,       \* where dispose() is
  ending,         \* ctx.dispose(1) was called, or load() failed, which calls it
  conns,          \* external: the connections of amqplib
  overlapped,     \* history: a create() failed, or lost its connection
  calm            \* history: no connect() was under way at dispose(), or began since

vars == <<connections, channel, tasks, begun, disposal, ending, conns, overlapped, calm>>

Idle == [pc |-> "idle"]
Dialing(id, attempt) == [pc |-> "dialing", id |-> id, attempt |-> attempt]
Active(t) == tasks[t] # Idle

Up(k) == conns[k].pc = "up"

Init ==
  /\ connections = [id \in Ids |-> None]
  /\ channel = [id \in Ids |-> None]
  /\ tasks = [t \in Tasks |-> Idle]
  /\ begun = 0
  /\ disposal = [pc |-> "no"]
  /\ ending = FALSE
  /\ conns = [k \in Conns |-> [pc |-> "none"]]
  /\ overlapped = FALSE
  /\ calm = TRUE

-----------------------------------------------------------------------------
(* The end of a task.  load() goes on with the next identity; a rejection  *)
(* makes load() fail, and a loop sleep or, after its last retry, give up.  *)

Load ==
  /\ begun = 0 /\ Identities > 0
  /\ begun' = 1
  /\ tasks' = [tasks EXCEPT ![Loader] = Dialing(1, 0)]
  /\ calm' = (calm /\ disposal.pc = "no")
  /\ UNCHANGED <<connections, channel, disposal, ending, conns, overlapped>>

AfterSuccess(t) ==
  IF t = Loader /\ begun < Identities THEN Dialing(begun + 1, 0) ELSE Idle

GivesUpLate(t) == t = Loader \/ tasks[t].attempt > MaxRetries      \* mutant: off by one

GivesUp(t) == t = Loader \/ tasks[t].attempt >= MaxRetries

RetriesForever(t) ==      \* mutant: the attempts are not counted
  IF t = Loader THEN Idle ELSE [pc |-> "sleeping", id |-> tasks[t].id, attempt |-> 0]

AfterFailure(t) ==
  IF GivesUp(t) THEN Idle
  ELSE [pc |-> "sleeping", id |-> tasks[t].id, attempt |-> tasks[t].attempt]

Succeed(t, others) ==
  /\ tasks' = [others EXCEPT ![t] = AfterSuccess(t)]
  /\ begun' = IF t = Loader /\ begun < Identities THEN begun + 1 ELSE begun
  /\ UNCHANGED ending

RejectSilently(t, others) ==      \* mutant: a loop that gives up does not dispose
  /\ tasks' = [others EXCEPT ![t] = AfterFailure(t)]
  /\ ending' = (ending \/ t = Loader)
  /\ UNCHANGED begun

Reject(t, others) ==
  /\ tasks' = [others EXCEPT ![t] = AfterFailure(t)]
  /\ ending' = (ending \/ GivesUp(t))
  /\ UNCHANGED begun

(* async-retry calls connect() again after a while.                        *)
Wake(t) ==
  /\ tasks[t].pc = "sleeping"
  /\ tasks' = [tasks EXCEPT ![t] = Dialing(@.id, @.attempt + 1)]
  /\ UNCHANGED <<connections, channel, begun, disposal, ending, conns, overlapped, calm>>

-----------------------------------------------------------------------------
(* connect(): the connection opens, its handler is attached, it is stored  *)
(* in the place of any other, and create() begins.                         *)

DialedNotStored(t, k) ==      \* mutant: the connection is not stored
  /\ tasks[t].pc = "dialing"
  /\ conns[k].pc = "none" /\ \A j \in Conns : j < k => conns[j].pc # "none"
  /\ conns' = [conns EXCEPT ![k] = [pc |-> "up", id |-> tasks[t].id, listening |-> TRUE]]
  /\ tasks' = [tasks EXCEPT ![t] = [pc |-> "creating", id |-> @.id, attempt |-> @.attempt,
                                    conn |-> k]]
  /\ UNCHANGED <<connections, channel, begun, disposal, ending, overlapped, calm>>

Dialed(t, k) ==
  /\ tasks[t].pc = "dialing"
  /\ conns[k].pc = "none" /\ \A j \in Conns : j < k => conns[j].pc # "none"
  /\ conns' = [conns EXCEPT ![k] = [pc |-> "up", id |-> tasks[t].id, listening |-> TRUE]]
  /\ connections' = [connections EXCEPT ![tasks[t].id] = k]
  /\ tasks' = [tasks EXCEPT ![t] = [pc |-> "creating", id |-> @.id, attempt |-> @.attempt,
                                    conn |-> k]]
  /\ UNCHANGED <<channel, begun, disposal, ending, overlapped, calm>>

DialFails(t) ==
  /\ tasks[t].pc = "dialing"
  /\ Reject(t, tasks)
  /\ UNCHANGED <<connections, channel, disposal, conns, overlapped, calm>>

(* create() fulfils, with the channel set; or it rejects although its      *)
(* connection is up, because a consumer could not be bound.                *)
Created(t) ==
  /\ tasks[t].pc = "creating"
  /\ channel' = [channel EXCEPT ![tasks[t].id] = tasks[t].conn]
  /\ Succeed(t, tasks)
  /\ UNCHANGED <<connections, disposal, conns, overlapped, calm>>

CreateFails(t) ==
  /\ tasks[t].pc = "creating"
  /\ channel' \in {channel, [channel EXCEPT ![tasks[t].id] = tasks[t].conn]}
  /\ Reject(t, tasks)
  /\ overlapped' = TRUE
  /\ UNCHANGED <<connections, disposal, conns, calm>>

-----------------------------------------------------------------------------
(* A create() that is pending on connection k when it closes.  It rejects; *)
(* or, when it was at the prefetch count, whose rejection it catches, it   *)
(* sets the channel, dead as it is, and then fulfils or rejects.  others   *)
(* and reset are the tasks and the channels as the handler has left them.  *)

Creating(k) == {t \in Tasks : tasks[t].pc = "creating" /\ tasks[t].conn = k}

Interrupt(k, others, reset) ==
  LET dead == [reset EXCEPT ![conns[k].id] = k]
  IN  \/ /\ Creating(k) = {}
         /\ tasks' = others /\ channel' = reset
         /\ UNCHANGED <<begun, ending, overlapped>>
      \/ \E t \in Creating(k) :
           /\ \/ Reject(t, others) /\ channel' \in {reset, dead}
              \/ Succeed(t, others) /\ channel' = dead
           /\ overlapped' = TRUE

(* A connection closes.  reconnect() resets the channel, forgets the       *)
(* connection that is stored, whichever it is, and starts a loop.          *)
ConnectionCloses(k, loop) ==
  LET id == conns[k].id
  IN  /\ Up(k) /\ conns[k].listening
      /\ tasks[loop] = Idle
      /\ conns' = [j \in Conns |->
                     CASE j = k -> [pc |-> "closed", id |-> id, listening |-> FALSE]
                       [] j = connections[id] /\ j # k -> [conns[j] EXCEPT !.listening = FALSE]
                       [] OTHER -> conns[j]]
      /\ connections' = [connections EXCEPT ![id] = None]
      /\ Interrupt(k, [tasks EXCEPT ![loop] = Dialing(id, 0)], [channel EXCEPT ![id] = None])
      /\ calm' = (calm /\ disposal.pc = "no")
      /\ UNCHANGED disposal

(* Nobody listens: only what was pending on it settles.                    *)
ClosesUnheard(k) ==
  /\ Up(k) /\ ~conns[k].listening
  /\ conns' = [conns EXCEPT ![k].pc = "closed"]
  /\ Interrupt(k, tasks, channel)
  /\ UNCHANGED <<connections, disposal, calm>>

-----------------------------------------------------------------------------
(* dispose(): the channels, then the connections one after the other.      *)
(* That a channel first cancels its subscriptions is left out here.        *)

Dispose ==
  /\ disposal.pc = "no"
  /\ disposal' = [pc |-> "next", id |-> 1]
  /\ channel' = [id \in Ids |-> None]
  /\ calm' = \A t \in Tasks : ~Active(t)
  /\ UNCHANGED <<connections, tasks, begun, ending, conns, overlapped>>

CloseNextReturns ==      \* mutant: returns where it should go on
  /\ disposal.pc = "next" /\ disposal.id <= Identities
  /\ LET k == connections[disposal.id]
     IN  IF k = None
         THEN disposal' = [disposal EXCEPT !.id = Identities + 1] /\ UNCHANGED conns
         ELSE /\ disposal' = [pc |-> "waiting", id |-> disposal.id, conn |-> k]
              /\ conns' = [conns EXCEPT ![k].listening = FALSE]
  /\ UNCHANGED <<connections, channel, tasks, begun, ending, overlapped, calm>>

CloseNext ==
  /\ disposal.pc = "next" /\ disposal.id <= Identities
  /\ LET k == connections[disposal.id]
     IN  IF k = None
         THEN disposal' = [disposal EXCEPT !.id = @ + 1] /\ UNCHANGED conns
         ELSE /\ disposal' = [pc |-> "waiting", id |-> disposal.id, conn |-> k]
              /\ conns' = [conns EXCEPT ![k].listening = FALSE]
  /\ UNCHANGED <<connections, channel, tasks, begun, ending, overlapped, calm>>

(* The connection is closed, now or before.                                *)
Closed ==
  /\ disposal.pc = "waiting" /\ ~Up(disposal.conn)
  /\ disposal' = [pc |-> "next", id |-> disposal.id + 1]
  /\ UNCHANGED <<connections, channel, tasks, begun, ending, conns, overlapped, calm>>

-----------------------------------------------------------------------------
TaskStep(t) ==
  \/ Wake(t) \/ DialFails(t) \/ Created(t) \/ CreateFails(t)
  \/ \E k \in Conns : Dialed(t, k)

ConnStep(k) ==
  \/ \E loop \in Loops : ConnectionCloses(k, loop)
  \/ ClosesUnheard(k)

Next ==
  \/ Load
  \/ \E t \in Tasks : TaskStep(t)
  \/ \E k \in Conns : ConnStep(k)
  \/ Dispose \/ CloseNext \/ Closed

Spec == Init /\ [][Next]_vars

(* Fairness: the timers of the retries fire, and a connection that is      *)
(* dialed, or a create(), comes to an end.                                 *)
Fairness ==
  \A t \in Tasks :
    /\ WF_vars(Wake(t))
    /\ WF_vars(DialFails(t) \/ \E k \in Conns : Dialed(t, k))
    /\ WF_vars(Created(t) \/ CreateFails(t))

FairSpec == Spec /\ Fairness

-----------------------------------------------------------------------------
TaskRecord ==
  {Idle} \cup [pc : {"dialing", "sleeping"}, id : Ids, attempt : Nat] \cup
  [pc : {"creating"}, id : Ids, attempt : Nat, conn : Conns]

(* Every variable has its type, and async-retry keeps to its limit.        *)
TypeOK ==
  /\ connections \in [Ids -> Conns \cup {None}]
  /\ channel \in [Ids -> Conns \cup {None}]
  /\ tasks \in [Tasks -> TaskRecord]
  /\ \A t \in Tasks : Active(t) => tasks[t].attempt <= MaxRetries
  /\ begun \in 0..Identities
  /\ disposal \in {[pc |-> "no"]} \cup [pc : {"next"}, id : 1..(Identities + 1)] \cup
                  [pc : {"waiting"}, id : Ids, conn : Conns]
  /\ ending \in BOOLEAN /\ overlapped \in BOOLEAN /\ calm \in BOOLEAN
  /\ conns \in [Conns -> {[pc |-> "none"]} \cup
                         [pc : {"up", "closed"}, id : Ids, listening : BOOLEAN]]

(* An identity load() has come to is never given up silently: until the    *)
(* module or the context is disposed, it has a connection whose loss will  *)
(* be noticed, or somebody is connecting it.                               *)
NeverAbandoned ==
  disposal.pc = "no" /\ ~ending =>
    \A id \in 1..begun :
      \/ \E k \in Conns : Up(k) /\ conns[k].id = id /\ conns[k].listening
      \/ \E t \in Tasks : Active(t) /\ tasks[t].id = id

(* As long as no create() failed or lost its connection, an identity has   *)
(* one connection at most, the one that is stored, its channel is on that  *)
(* connection unless somebody is connecting, and nobody dials, or waits to *)
(* dial again, for an identity that has one up.                            *)
OneConnection ==
  ~overlapped =>
    /\ \A k \in Conns : Up(k) /\ disposal.pc = "no" => connections[conns[k].id] = k
    /\ \A id \in 1..begun :
         disposal.pc = "no" /\ ~ending /\ (\A t \in Tasks : Active(t) => tasks[t].id # id) =>
           channel[id] # None /\ channel[id] = connections[id] /\ Up(channel[id])
    /\ \A t \in Tasks, k \in Conns :
         tasks[t].pc \in {"dialing", "sleeping"} /\ Up(k) => conns[k].id # tasks[t].id

(* A disposal during which nothing was connecting leaves no connection up. *)
DisposeClosesAll ==
  calm /\ ~overlapped /\ disposal.pc = "next" /\ disposal.id > Identities =>
    \A k \in Conns : ~Up(k)

(* Every retry loop ends, with a connection or with the process disposed.  *)
RetriesEnd == \A t \in Tasks : Active(t) ~> ~Active(t)
=============================================================================
