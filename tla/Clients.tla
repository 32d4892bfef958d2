------------------------------ MODULE Clients -------------------------------
(***************************************************************************)
(* The modules that hold one client, pool, connection or server for each   *)
(* identity of their configuration: mongodb, postgres, cassandra, elastic, *)
(* opensearch, redis, bullmq, temporal, server, and the testable variants, *)
(* which start a container first.  load() takes one identity after the     *)
(* other; dispose() closes what is stored.                                 *)
(*                                                                         *)
(* The modules differ in the order of a few operations and in how          *)
(* dispose() combines the promises of the closes.  That is what a module's *)
(* record says; `program' is its load() as a sequence of operations:       *)
(*   read    may throw at once (a CA file, a missing cache or handler)     *)
(*   create  constructs a client, which from then on has to be closed      *)
(*   open    awaits a connection        fetch  awaits TLS data             *)
(*   listen  awaits a port              ping   awaits an answer            *)
(*   float   sends a ping and does not await it                            *)
(*   store   this.clients[identity] = client                               *)
(* What is between two awaits happens at once.  External: the servers, and *)
(* the drivers, whose promises fulfil, reject or never settle.             *)
(***************************************************************************)
EXTENDS Integers, Sequences, FiniteSets

CONSTANTS
  NumIds,         \* how many identities are configured
  Modules,        \* the modules to be checked, a set of the records below
  MaxLoads,       \* bound: calls of load()
  MaxDisposals    \* bound: calls of dispose()

Identities == 1 .. NumIds
Container == 0          \* stands beside the identities for the test container

Op(op, id) == [op |-> op, id |-> id]

(* The operations `steps' for one identity after the other. *)
ForEach(steps) ==
  [p \in 1 .. Len(steps) * NumIds |->
     Op(steps[((p - 1) % Len(steps)) + 1], ((p - 1) \div Len(steps)) + 1)]

(* settled: Promise.allSettled, otherwise Promise.all; groups: what        *)
(* dispose() closes together, one group after the other.                   *)
Module(name, program, groups, settled) ==
  [name |-> name, program |-> program, groups |-> groups, settled |-> settled]

mongodbStoresLate == Module("mongodb", ForEach(<<"open", "ping", "store">>),      \* mutant
                            <<Identities>>, TRUE)
mongodb == Module("mongodb", ForEach(<<"open", "store", "ping">>), <<Identities>>, TRUE)

postgres ==
  Module("postgres", ForEach(<<"read", "create", "ping", "store">>), <<Identities>>, TRUE)

cassandra == Module("cassandra", ForEach(<<"read", "open", "store">>), <<Identities>>, TRUE)

elastic ==
  Module("elastic", ForEach(<<"read", "create", "float", "store">>), <<Identities>>, FALSE)

opensearchNotAwaited ==      \* mutant: as in elastic
  Module("opensearch", ForEach(<<"read", "create", "float", "store">>), <<Identities>>, FALSE)
opensearch ==
  Module("opensearch", ForEach(<<"read", "create", "ping", "store">>), <<Identities>>, FALSE)

(* All caches are created before the first is pinged. *)
redis ==
  Module("redis", ForEach(<<"create", "store">>) \o ForEach(<<"ping">>), <<Identities>>, TRUE)

(* Queues, flow producers and workers. *)
bullmq == Module("bullmq", ForEach(<<"read", "create", "store">>), <<Identities>>, TRUE)

(* The workers are the first identities, the clients, which are closed     *)
(* first, the others.                                                      *)
Workers == 1 .. (NumIds \div 2)
temporal ==
  Module("temporal", ForEach(<<"fetch", "open", "store">>),
         <<Identities \ Workers, Workers>>, FALSE)

server == Module("server", <<Op("read", 1), Op("store", 1), Op("listen", 1)>>, <<{1}>>, FALSE)

(* A testable module starts its container, stores it, and goes on as its   *)
(* super class; dispose() stops the container after super.dispose().       *)
Testable(name, module) ==
  Module(name, <<Op("open", Container), Op("store", Container)>> \o module.program,
         Append(module.groups, {Container}), module.settled)

testableMongodb == Testable("testable mongodb", mongodb)
testableRedis == Testable("testable redis", redis)
testableOpensearch == Testable("testable opensearch", opensearch)

(* The connections of RabbitMQ are closed one after the other, errors       *)
(* ignored; what becomes of one that is lost is in module RabbitMQ.  Its   *)
(* testable module has no dispose() of its own.                            *)
testableRabbitmq ==
  Module("testable rabbitmq",
         <<Op("open", Container), Op("store", Container)>> \o ForEach(<<"open", "store", "ping">>),
         [id \in Identities |-> {id}], TRUE)

AllModules ==
  {mongodb, postgres, cassandra, elastic, opensearch, redis, bullmq, temporal, server,
   testableMongodb, testableRedis, testableOpensearch, testableRabbitmq}

ASSUME ClientsAssumption ==
  /\ NumIds \in Nat \ {0}
  /\ Modules \subseteq AllModules
  /\ MaxLoads \in Nat
  /\ MaxDisposals \in Nat

VARIABLES
  module,         \* the module of this behaviour
  loads,          \* the calls of load(): the operation they are at, and their promise
  disposals,      \* the calls of dispose()
  stored,         \* the load() whose client is stored for an identity, 0 for none
  open,           \* <<l, id>>: the client of load l for id is to be closed
  verified,       \* clients whose server has answered
  floating,       \* clients whose ping nobody awaits
  failed,         \* clients whose close() failed
  uncaught,       \* a rejection or an error event reached the process
  hasty           \* history: load() was called while something was open or loading

vars == <<module, loads, disposals, stored, open, verified, floating, failed, uncaught, hasty>>

Slots == Identities \cup {Container}
Program == module.program
Loading == \E l \in DOMAIN loads : loads[l].state = "waiting"

-----------------------------------------------------------------------------
(* load() runs from operation `from' up to the next await, to its end, or  *)
(* to a `read' that throws.                                                *)

Awaited(p) == p \in DOMAIN Program /\ Program[p].op \in {"open", "fetch", "listen", "ping"}

(* Where it may stop. *)
Stops(from) ==
  {to \in from .. Len(Program) + 1 :
     /\ \A p \in from .. to - 1 : ~Awaited(p)
     /\ to > Len(Program) \/ Awaited(to) \/ Program[to].op = "read"}

StateAt(p) ==
  IF p > Len(Program) THEN "fulfilled" ELSE IF Awaited(p) THEN "waiting" ELSE "rejected"

Done(op, from, to) == {id \in Slots : \E p \in from .. to - 1 : Program[p] = Op(op, id)}

Run(l, from, others, opened) ==
  \E to \in Stops(from) :
    /\ loads' = [i \in DOMAIN others \cup {l} |->
                   IF i = l THEN [pc |-> to, state |-> StateAt(to)] ELSE others[i]]
    /\ stored' = [id \in Slots |-> IF id \in Done("store", from, to) THEN l ELSE stored[id]]
    /\ open' = opened \cup {<<l, id>> : id \in Done("create", from, to)}
    /\ floating' = floating \cup {<<l, id>> : id \in Done("float", from, to)}

CallLoad ==
  /\ Len(loads) < MaxLoads
  /\ Run(Len(loads) + 1, 1, loads, open)
  /\ hasty' = (hasty \/ open # {} \/ Loading)
  /\ UNCHANGED <<module, disposals, verified, failed, uncaught>>

Waiting(l, ops) == loads[l].state = "waiting" /\ Program[loads[l].pc].op \in ops

Client(l) == <<l, Program[loads[l].pc].id>>

(* A connection opens, or a port: the server has shown it is there. *)
Opens(l) ==
  /\ Waiting(l, {"open", "listen"})
  /\ Run(l, loads[l].pc + 1, loads, open \cup {Client(l)})
  /\ verified' = verified \cup {Client(l)}
  /\ UNCHANGED <<module, disposals, failed, uncaught, hasty>>

Answers(l) ==
  /\ Waiting(l, {"ping"})
  /\ Run(l, loads[l].pc + 1, loads, open)
  /\ verified' = verified \cup {Client(l)}
  /\ UNCHANGED <<module, disposals, failed, uncaught, hasty>>

Fetched(l) ==
  /\ Waiting(l, {"fetch"})
  /\ Run(l, loads[l].pc + 1, loads, open)
  /\ UNCHANGED <<module, disposals, verified, failed, uncaught, hasty>>

LoadRejects(l) ==
  /\ Waiting(l, {"open", "ping", "fetch"})
  /\ loads' = [loads EXCEPT ![l].state = "rejected"]
  /\ UNCHANGED <<module, disposals, stored, open, verified, floating, failed, uncaught, hasty>>

(* The error event of listen() has no listener, and its promise waits for  *)
(* the callback, which never comes.                                        *)
ListenFails(l) ==
  /\ Waiting(l, {"listen"})
  /\ loads' = [loads EXCEPT ![l].state = "stuck"]
  /\ uncaught' = TRUE
  /\ UNCHANGED <<module, disposals, stored, open, verified, floating, failed, hasty>>

FloatAnswers(c) ==
  /\ c \in floating
  /\ floating' = floating \ {c}
  /\ verified' = verified \cup {c}
  /\ UNCHANGED <<module, loads, disposals, stored, open, failed, uncaught, hasty>>

FloatRejects(c) ==
  /\ c \in floating
  /\ floating' = floating \ {c}
  /\ uncaught' = TRUE
  /\ UNCHANGED <<module, loads, disposals, stored, open, verified, failed, hasty>>

-----------------------------------------------------------------------------
(* dispose().  A group is read from what is stored when its turn comes.    *)
(* calm and epoch are history: no load() was under way when dispose() was  *)
(* called, and how many had been called.                                   *)

StoredOf(group) == {<<stored[id], id>> : id \in {id \in group : stored[id] # 0}}

Dispose ==
  /\ Len(disposals) < MaxDisposals
  /\ disposals' = Append(disposals,
       [group |-> 1, closing |-> StoredOf(module.groups[1]), state |-> "closing",
        calm |-> ~Loading, epoch |-> Len(loads)])
  /\ UNCHANGED <<module, loads, stored, open, verified, floating, failed, uncaught, hasty>>

Closed(d, c) ==
  /\ c \in disposals[d].closing
  /\ disposals' = [disposals EXCEPT ![d].closing = @ \ {c}]
  /\ open' = open \ {c}
  /\ UNCHANGED <<module, loads, stored, verified, floating, failed, uncaught, hasty>>

(* With Promise.all the first failure rejects; the other closes go on.     *)
CloseFails(d, c) ==
  /\ c \in disposals[d].closing
  /\ disposals' = [disposals EXCEPT
       ![d].closing = @ \ {c},
       ![d].state = IF module.settled THEN @ ELSE "rejected"]
  /\ failed' = failed \cup {c}
  /\ UNCHANGED <<module, loads, stored, open, verified, floating, uncaught, hasty>>

GroupClosedEarly(d) ==      \* mutant: the closes are not awaited
  /\ disposals[d].state = "closing"
  /\ disposals' = [disposals EXCEPT ![d].state = "fulfilled"]
  /\ UNCHANGED <<module, loads, stored, open, verified, floating, failed, uncaught, hasty>>

GroupClosedRunsOn(d) ==      \* mutant: does not see that the last group was closed
  /\ disposals[d].state = "closing"
  /\ disposals[d].closing = {}
  /\ disposals' = [disposals EXCEPT ![d].group = @ + 1]
  /\ UNCHANGED <<module, loads, stored, open, verified, floating, failed, uncaught, hasty>>

GroupClosed(d) ==
  LET next == disposals[d].group + 1 IN
  /\ disposals[d].state = "closing"
  /\ disposals[d].closing = {}
  /\ disposals' = [disposals EXCEPT ![d] =
       IF next <= Len(module.groups)
       THEN [@ EXCEPT !.group = next, !.closing = StoredOf(module.groups[next])]
       ELSE [@ EXCEPT !.state = "fulfilled"]]
  /\ UNCHANGED <<module, loads, stored, open, verified, floating, failed, uncaught, hasty>>

-----------------------------------------------------------------------------
Init ==
  /\ module \in Modules
  /\ loads = <<>>
  /\ disposals = <<>>
  /\ stored = [id \in Slots |-> 0]
  /\ open = {}
  /\ verified = {}
  /\ floating = {}
  /\ failed = {}
  /\ uncaught = FALSE
  /\ hasty = FALSE

LoadStep(l) == Opens(l) \/ Answers(l) \/ Fetched(l) \/ LoadRejects(l) \/ ListenFails(l)

DisposeStep(d) ==
  \/ \E c \in disposals[d].closing : Closed(d, c) \/ CloseFails(d, c)
  \/ GroupClosed(d)

Next ==
  \/ CallLoad \/ Dispose
  \/ \E l \in DOMAIN loads : LoadStep(l)
  \/ \E c \in floating : FloatAnswers(c) \/ FloatRejects(c)
  \/ \E d \in DOMAIN disposals : DisposeStep(d)

Spec == Init /\ [][Next]_vars

-----------------------------------------------------------------------------
Handles == (1 .. MaxLoads) \X Slots

TypeOK ==
  /\ module \in Modules
  /\ loads \in Seq([pc : Nat, state : {"waiting", "fulfilled", "rejected", "stuck"}])
  /\ Len(loads) <= MaxLoads
  /\ disposals \in Seq([group : DOMAIN module.groups, closing : SUBSET Handles,
                        state : {"closing", "fulfilled", "rejected"},
                        calm : BOOLEAN, epoch : 0 .. MaxLoads])
  /\ stored \in [Slots -> 0 .. MaxLoads]
  /\ open \subseteq Handles /\ verified \subseteq Handles
  /\ floating \subseteq Handles /\ failed \subseteq Handles
  /\ uncaught \in BOOLEAN /\ hasty \in BOOLEAN

(* Of the clients that are open, each is stored, where dispose() finds it, *)
(* or a load() under way will store it.  The exceptions are the pools of   *)
(* postgres and the clients of opensearch whose ping was rejected, and     *)
(* those that a load() replaces that did not wait for a disposal.          *)
Kept(c) == stored[c[2]] = c[1]

ToBeStored(c) ==
  /\ loads[c[1]].state = "waiting"
  /\ \E p \in loads[c[1]].pc .. Len(Program) : Program[p] = Op("store", c[2])

Unverified(c) ==
  /\ module.name \in {"postgres", "opensearch", "testable opensearch"}
  /\ loads[c[1]].state = "rejected"
  /\ Program[loads[c[1]].pc] = Op("ping", c[2])

NothingLost == ~hasty => \A c \in open : Kept(c) \/ ToBeStored(c) \/ Unverified(c)

(* A disposal that no load() disturbs leaves nothing open but the clients  *)
(* whose close() failed, the lost ones above and the container of the      *)
(* testable RabbitMQ; if it rejects, also those whose close() is still     *)
(* running and those of the groups it never came to: the workers of        *)
(* temporal, the container of opensearch.                                  *)
NeverStopped(c) == module.name = "testable rabbitmq" /\ c[2] = Container

LaterGroup(d, c) == \E g \in DOMAIN module.groups : g > disposals[d].group /\ c[2] \in module.groups[g]

DisposeCloses ==
  \A d \in DOMAIN disposals :
    (~hasty /\ disposals[d].calm /\ disposals[d].epoch = Len(loads)) =>
      /\ disposals[d].state = "fulfilled" =>
           \A c \in open : c \in failed \/ Unverified(c) \/ NeverStopped(c)
      /\ disposals[d].state = "rejected" =>
           /\ ~module.settled
           /\ \A c \in open : \/ c \in failed \/ Unverified(c)
                              \/ c \in disposals[d].closing
                              \/ LaterGroup(d, c)

(* When load() has fulfilled, every client it stored is one whose server   *)
(* has answered.  The exceptions are elastic, whose ping is not awaited,   *)
(* and bullmq, which does not ask.                                         *)
LoadedIsVerified ==
  \A l \in DOMAIN loads :
    loads[l].state = "fulfilled" /\ module.name \notin {"elastic", "bullmq"} =>
      \A id \in Slots : stored[id] = l => <<l, id>> \in verified
=============================================================================
