# Cortec in TLA+

Cortec (`src/packages/*`) is a set of TypeScript packages for Node services: a small context that loads
and disposes modules, and modules that wrap a client or a server (RabbitMQ, MongoDB, Redis, HTTP, ...).
This directory holds TLA+ modules translated from that source, TLC configurations that model-check small
instances, and theorems that TLAPS proves for every value of the constants.

    tlc -config MCCortec.cfg MCCortec        # one run; PROJECT.json lists all of them
    tlapm Cortec_proofs.tla                  # the proofs of one module

`PROJECT.json` maps every definition to the lines it models, and lists the runs, the hazards of the code
with the properties that cover them, the mutants that show a property can fail, and the theorems.

## 1. Inventory

Everything runs on one Node event loop per process: code between two `await`s is atomic, and what
interleaves is the continuations of promises, timers, signals, and the events of sockets. The hard
behaviours below are all of that kind.

| Component | State | Operations | Interacts with | What makes it correct |
|---|---|---|---|---|
| **core** `core/src/index.ts` | `modules` (a Map), `isDisposing`; per call: a copied array, a pTimeout | `use`, `load`, `dispose`, `has/provide/require`; handlers of SIGINT, SIGTERM, uncaughtException | calls every module's `load`/`dispose`; `exit()` | modules come up in order and go down in reverse; one disposal; the process ends, with a code somebody asked for |
| **rabbitmq: RabbitMQChannel** `rabbitmq/src/main.ts:36` | `channel`, `buffer`, `consumers`, `boundConsumers`, `$prefetch` | `sendToQueue`, `consume`, `prefetch`, `create`, `reset`, `dispose`, the delivery callback | amqplib channel; called by CortecRabbitMQ and the application | nothing published is lost, repeated or reordered by the client; every consumer is bound once after every reconnect; a message leaves the queue only when its consumer is done with it |
| **rabbitmq: CortecRabbitMQ** `:213` | `$connections`, `$channel` per identity | `load`, `connect`, `reconnect` (async-retry), `removeConnection`, `dispose` | amqplib connect and the `close` event; `ctx.dispose(1)` | one connection and one retry loop per identity; no connection survives `dispose` |
| **dynamic-config** | `state`, `refreshClear`; in flight: refreshes, updates | `load`, `refresh`, `update`, `config`, `dispose` | mongodb; `setTimeout` | the state converges to the document; one refresh chain; none after `dispose` |
| **axios** | one instance per service, with default headers all callers share; the calls under way | `load`, `service`, `trace`, the request helpers, `backOff` and its retries | HTTP services; newrelic | a call carries its own trace; a call is repeated only where repeating it is meant; a failure is noticed once |
| **polka** `index.ts`, `send.ts`, `Response*.ts` | per request: parsed input, trace, session, context, response; per route: the points of its rate limiter | the middlewares of a route, `onError`, `onNoMatch`, `noMatch`, `static`, `send` | server, redis (rate limiter), newrelic, sentry, the application's functions | every request is answered once, or its error reaches the process; the first stage that fails decides the answer; the rate limit bounds what reaches the controller |
| **server** | the http server | `load` (listen), `dispose` (close) | polka, core | `load` and `dispose` settle |
| **mongodb, postgres, cassandra, elastic, opensearch, redis, bullmq, temporal** | a client, pool or worker per identity | `load` takes one identity after the other, `dispose` closes what is stored | their servers, core | what is open can be found by `dispose`, also after a partial failure; a `load` that fulfils has heard from the server |
| **testable** variants of mongodb, redis, opensearch, rabbitmq | a test container beside the clients | as their super class, with the container first and last; rabbitmq's has no `dispose` of its own | docker | as above, for the container too |
| **redis** hash helpers | none | object to hash and back (command transformers of ioredis) | Redis | the round trip gives back what it can represent, and nothing else |
| **newrelic** | loaded or not | listens to unhandled rejections; `dispose` | polka, axios, core | a rejection it listens to does not end the process |
| **sample application** `test/src` | none | order of the modules; a controller that calls a service with the request's trace | core, polka, axios | requests and calls compose |
| **storage** | files | upload, read, delete | the file system | paths and partial writes |
| **config, logger, sentry, types** | none that changes while serving | read configuration, format | | not modelled, see section 7 |

Hard behaviours, in short (the full list with lines is `hazards` in `PROJECT.json`):

- `load()` and `dispose()` of the context overlap: a failing load disposes while a timed-out module load
  is still running; a signal arrives during a load; `load()` is called again while a disposal runs and
  resets the flag that guards it; a module's promise never settles.
- A RabbitMQ connection closes at any await of `create()` or `bindConsumers`; replies arrive after
  `reset()` replaced the objects they were meant for; acknowledgements go to the channel of the moment.
- Retries overlap with the handler of `close`; disposal overlaps with a retry that waits.
- Periodic refreshes multiply, outlive `dispose`, or stop for ever after one failure.
- The broker cancels a consumer, or closes a channel, and the client takes no notice.
- A request's stages fail in code that is inside or outside of a promise somebody looks at; requests of one
  client wait side by side for the rate limiter.
- Calls of a service share one set of default headers, and every attempt starts after an await.
- A module that opens several clients fails at the second one; `dispose` comes while `load` is still at work.

## 2. Modules

| Module | Models | Notes |
|---|---|---|
| `Shutdown` | what the context promises about ending the process, abstractly | gate, accepted requests, exit |
| `Cortec` | `core/src/index.ts` | implements `Shutdown` |
| `MCCortec` | small instances of `Cortec` | |
| `Cortec_proofs` | theorems about `Cortec` | |
| `RabbitChannel` | `RabbitMQChannel`, `rabbitmq/src/main.ts:36-203` | amqplib and the broker are external |
| `MCRabbitChannel` | small instances of `RabbitChannel` | |
| `RabbitChannel_proofs` | types, publishing, the count, binding; for an application that waits, subscriptions, disposal and answers | |
| `RabbitMQ` | `CortecRabbitMQ`, `rabbitmq/src/main.ts:213-361` | connections and retry loops; `create()` of the channel only by its end, which `RabbitChannel` has in full |
| `RabbitMQ_proofs` | its types and safety invariants | |
| `DynamicConfig` | `dynamic-config/src/index.ts` | MongoDB and other writers of the document are external |
| `MCDynamicConfig` | a small instance of `DynamicConfig` | a parser that changes one configuration |
| `DynamicConfig_proofs` | its types and safety invariants | |
| `Responder` | what an HTTP pipeline promises for each request, abstractly | answered once, or reported; only a report stops the process |
| `Polka` | `polka/src/index.ts`, `send.ts`, `Response*.ts` | implements `Responder`; the application's functions, the limiter's store and serve-static are external |
| `Polka_proofs` | types, the first failing stage, the rate limit, the refinement | |
| `Axios` | `axios/src/index.ts` | the network and the called service are external |
| `Requests` | the composition of `Polka` and `Axios`, as the sample application's controller composes them | a controller's promise follows the promise of its call |
| `MCRequests` | instances of `Requests` | |
| `Requests_proofs` | retries, notices and traces of `Axios`; that the composition keeps what is proved of its parts | |
| `Clients` | `load` and `dispose` of the nine modules that hold clients, and of four testable ones | one state machine, one record per module |
| `Clients_proofs` | its types and safety invariants | |
| `Redis` | the hash transformers, `redis/src/main.ts` | `objectToArray` as a recursive function; ioredis and Redis are external |
| `MCRedis` | the objects that are written | |
| `Redis_proofs` | the round trip, for every set of objects | |

`Cortec`, `RabbitChannel`, `RabbitMQ`, `DynamicConfig`, `Requests` (with `Polka` and `Axios`), `Clients` and `Redis` are checked
each on their own: the context sees a module only through the promises of its `load` and `dispose`, which
`Cortec` lets fulfil, reject, throw or hang in every way.

Operators whose comment starts with *mutant:* are not part of the model: each is the body that a plausible
bug would give the definition that follows it, and is what the mutants of `PROJECT.json` substitute.

### Cortec and the code

| Code | Model |
|---|---|
| `modules` | the sequence of its values in insertion order; `Use` replaces in place, as `Map.set` does |
| a call of `load()` | a record of `loads`: the copied array, the index, `next` (about to call `module.load`), `waiting`, `resolved` |
| `pEachSeries` + `pTimeout` per module | `LoadNext`, `ModuleLoaded`, `ModuleLoadFails`, `LoadTimeout`; a call that timed out stays in `calls` and may still complete |
| the `catch` of `load()` | `FailLoad` and `CallDispose(1, _)` in the same step: `dispose(1)` is not awaited |
| `dispose(code)` up to its first await | `CallDispose`: the guard, the flag, the reversed copy |
| its series | `DisposeNext`, `DisposeSettled`, `DisposeThrows` (a module that throws instead of rejecting), `DisposeDone` |
| its `pTimeout` and `finally` | `DisposeTimeout`, and `Settle`, which exits unless the code is negative; the series goes on after a timeout |
| signal and uncaught-exception handlers | `Signal`, `Uncaught` |

`live` holds the module objects whose `load()` fulfilled and whose `dispose()` has not settled since.
`quiet`, `epoch`, `clean`, `failed` and `signalled` are history: no guard reads them. Log lines and the durations of
the timeouts (a timer may fire at any time while its promise is pending) are abstracted.

### RabbitChannel and the code

| Code | Model |
|---|---|
| `channel` | the number of the connection it was opened on, or `None` |
| a run of `create()` | `creates[k]`: `opening` (createChannel), `prefetching` (prefetch), `attached` or `failed` |
| a run of `bindConsumers` | `binders[b]`: the keys that are left, the queue whose reply is awaited, and the object `boundConsumers` that was evaluated before the await (`gen`) |
| `reset()` in the `close` handler | `ConnectionCloses` |
| the callback of `consume` called with `null` | `BrokerCancels`: the subscription is over (`cancelled`) and nothing else changes, so `boundConsumers` keeps its entry |
| the callback of `consume` with a message | `Deliver` starts a job, `JobSucceeds`, `JobRejects`, `JobFails` end it through `Answer` |
| `dispose()` | `Dispose`, `DisposeContinue`, with the broker's `CancelOk` |

External, modelled from how the code uses it: amqplib (`ChannelOpened`, `PrefetchReplied`, `ConsumeOk`,
`CancelOk`, and `Lose`: what closing does to pending replies) and the broker (subscriptions, which it may cancel by itself,
deliveries, delivery tags that count from 1 on each channel, requeueing). `missed` is history: the channels whose `create()` was past
the count when another came. `Consume` does not call `consume()` while `dispose()` is on: a bound on the environment, not a guard of the code. `Drained` states that continuations of
settled promises run before the event loop takes anything from another connection.

### RabbitMQ and the code

| Code | Model |
|---|---|
| `$connections[identity]`, the channel of an identity | `connections`, `channel`: the number of an amqplib connection, or `None` |
| a call of `connect()`, by `load()` or by a retry loop | a record of `tasks`: `dialing` (`await connect`), `creating` (`await create`), `sleeping` (async-retry's timer), with the attempt |
| `load()` over the identities | `Load`, and `AfterSuccess` for the next identity; `Reject` of the loader makes the context dispose |
| `retry(...)` and its `catch` | `AfterFailure`, `GivesUp`, and `ending`: `ctx.dispose(1)` was called |
| the `close` handler, `reconnect`, `removeConnection` | `ConnectionCloses`: one step, since nothing is awaited before the new attempt dials |
| what was pending on the connection | `Interrupt`, in the same step: the promises amqplib settles on closing run before anything else |
| `dispose()` | `Dispose` (the channels), `CloseNext` and `Closed` per identity |

The duration of a retry's sleep is abstracted, and so is the cancelling of subscriptions in the
channel's `dispose()`, which `RabbitChannel` has. `load()` runs once: a second one, which would replace the
channels, is left out. `overlapped` and `calm` are history.

### DynamicConfig and the code

| Code | Model |
|---|---|
| `state`, `refreshClear` | the same names; `refreshClear` is the chain whose timer was armed last |
| a call of `refresh()` and the timers that follow from it | a chain: `reading`, `read` (the reply is on its way), `armed` |
| `configDef.parse` | `Valid` and `Parse`: what it accepts, and what it makes of it (defaults, transforms) |
| `findOne` found, not found, rejected, and a document `parse` refuses | `Refreshed`, which keeps what parsing returned, `NotFound`, `ReadFails`, `Unparsable`; the last two arm no timer |
| who waits for a refresh (`by`) | `load`, an application that awaits it, or a timer: the rejection of the last is handled by nobody, so `Fail` makes the context dispose, or, with newrelic, ends the chain and no more (`reported`) |
| `update()` | `Update` (after `parse`), `Write` or `WriteFails` (external; a write may be applied and its reply lost), `Updated`, which keeps the caller's value: what `parse` returned is dropped |
| `config` | `Config`, with `Falsy` for what `||` takes for false |
| `dispose()` | `Dispose`: it clears that one timer, and a refresh that waits for the database arms another |

The length of the timeout (`ttl`) is abstracted: a timer may fire at any time. Left out: a source other than
`mongodb`, for which `load()` does nothing, and a context without the mongodb module, for which it throws.
`stored`, `raw`, `reported`, `alone` and `outlives` are history.

### Polka, Axios, Requests and the code

| Code | Model |
|---|---|
| a request and what the middlewares put on `req` and `res` | the record `request[r]`: where it is (`pc`), its route, `traced`, `called`, the `fault` it met, the `status` sent |
| the middlewares up to the next await | `Enriching`, `Parsing`, `Authenticating`, `Handling`, `Limiting`, `Validating`, `Calling`: the set of records a request may become, each stage in terms of the next |
| `next(err)` and `onError` | `OnError`, which may throw itself: without a trace (`req.trace` of a mounted directory) or with details that cannot be serialised |
| `send()` of a `Response`, of a stream | `Sent`, `piping` with `StreamEnds` and `StreamFails` |
| `next(err)` with a falsy `err`, which is no error for polka | `AuthenticationFailsFalsy` (the request goes on to the handler), `ControllerFailsFalsy` and `count` in `Limiting` (`Hanging`: nobody answers) |
| a schema that fails with something else than a ZodError | fault `schema` of `Validating`: `fromZodError` throws, 500 |
| the rate limiter, one key of `count()` for each route | `Consume` (the point is counted), `Admitted`, `Refused`, `StoreFails`, `NextWindow` |
| `onNoMatch`, `noMatch`, `static` | `NotMatching`, `NoMatchReturns/Streams/Fails`, `FileServed/Missing/Fails` |
| a promise nobody looks at, an exception outside of promises | `rejected`, `thrown`; `StopsProcess` says which of them make the context `dispose(1)` |
| `service(name).trace(ctx).get(...)` | `Request`: writes the shared default header and starts `backOff` (or sends at once without newrelic) |
| `backOff`'s delays, `retry`, the `catch` behind it | `Attempt`, `Retry`, `Reject`; `Retries` and `Notices` are the conditions |
| `loadState`, `instances` | `load()` and `dispose()` of axios |
| the controller of `test/src/api/router.ts` | `ControllerCalls`, then `ControllerGoesOn` once the call has settled |

What a request carries (bodies, headers, params) and how long delays are is abstracted; `crossed` and `faults` are
history of a call. Several body parsers of a route are one; a mounted directory has no matching route behind it.

### Clients, Redis and the code

A module of `Clients` is a record: `program` is its `load()` as a sequence of operations (`read` may throw,
`create` constructs a client, `open`/`listen` await a connection or port, `fetch` awaits data, `ping` awaits an
answer, `float` does not await it, `store` assigns to the field `dispose()` reads), `groups` is what
`dispose()` closes together, and `settled` tells `Promise.allSettled` from `Promise.all`. `Run` executes a program up to
its next await; the actions are the answers to those awaits, so that the order of `open`, `store` and `ping`,
in which the modules differ, decides what is lost when one fails. `hasty`, `calm` and `epoch` are history.

In `Redis` a key is a sequence of parts and an object the sequence of its fields, so that `a.b` as one key and `b`
inside `a` collide as they do in the code. `Values` is a set of objects with all that is in them, and `Depth` says of each how
many objects it has below each other; no object is inside itself, as the code would not return from one that is.
`ObjectToArray` is the recursion of the source; `Stringify` and `ParseJSON` say what becomes of a scalar of each kind.
`RoundTrip` compares with a definition that does not recurse: leaves as paths of positions.

## 3. Runs

| Run | Instance | Shows |
|---|---|---|
| `core_teardown` | three modules, one load, every caller of `dispose`, a module that throws and one that replaces another; fairness | `Teardown` (order, and nothing left up), `DisposeExits`, `SignalExits`, `LoadFailureExits`, `TypeOK` |
| `core_reload` | three modules, two loads, `dispose(-1)` | `OneSeriesPerLoad`, `DependenciesUp`, and that the context implements `Shutdown` |
| `core_two_disposals` | violated | "Don't dispose if already disposing" does not hold: `load()` resets the flag during a disposal |
| `rabbit_channel` | two connections of which the last stays, two queues, two messages published, two counts, a broker that cancels; fairness | `PublishedInOrder`, `ConsumersBound`, `PrefetchApplied`, `Flushed`, `Resubscribed`, `TypeOK` |
| `rabbit_serial` | three connections, two queues, two messages consumed, for an application that waits | `OneSubscription`, `DisposeCancels`, `AnsweredByItsConsumer` |
| `rabbit_answer_reconnect` | violated | a consumer that outlives its connection acknowledges another message |
| `rabbit_reconnect` | two identities, four connections lost at any moment, two retry loops of one retry; fairness | `NeverAbandoned`, `OneConnection`, `DisposeClosesAll`, `RetriesEnd`, `TypeOK` |
| `dynamic_config` | two chains of refreshes, one update, a configuration that parsing changes, one that is falsy and one that does not parse, with and without newrelic; fairness | `ServesStored`, `RefreshGoesOn`, `DisposeStops`, `Converges`, `TypeOK` |
| `requests` | two requests of every kind of route, each calling one service that fails in every way, with and without newrelic; fairness | `StageDecides`, `LimitKept`, `RepeatedOnlyAfter5XX`, `NoticedOnceAtTheEnd`, `TraceKept`, `EveryRequestEnds`, `TypesOK`, and that the pipeline implements `Responder` |
| `axios_trace` | violated | of two requests that call one service, one sends the other's trace |
| `clients` | every module, two identities, two loads and two disposals at any moment, any await fails | what is open is known to `dispose()` (`NothingLost`), which closes it (`DisposeCloses`), and a load that fulfilled has heard from its servers (`LoadedIsVerified`), each with the exceptions of section 6; `TypeOK` |
| `redis_hash` | objects of up to two fields and three levels, with dotted, empty and colliding keys, written over one another | `RoundTrip` |

Bounds, and why they are enough:

- *Modules*: the configuration module and two others are enough for an order to be wrong and for a module
  in the middle to hang, throw or come up late. *MaxLoads* is 2 where reloading is the question. The
  number of disposals needs no bound: `OneSeriesPerLoad` bounds it.
- *Connections*: two where calls come at any moment: a reply of the first is late while the second is being set up, and a count passed while one
  is awaited. Three in `rabbit_serial`. *Prefetches* 2: a count can be missed and another one set. The theorems have any number of each. *Deliveries*: two messages are enough for a tag to name the wrong one; *MaxTag* bounds
  redeliveries on one channel.
- *Identities* 2, for `load()` to be at the second while the first is lost, and for `dispose()` to wait for one
  while the other closes. *MaxRetries* 1 (10 in the code): one sleep and the last attempt both happen.
  *Loops* 2: a lost connection can start a retry beside another. A close that would need a third loop waits
  for one to end, so three loops at once are not checked here (the theorem has any number). *MaxConns* 4 ends dialing by
  success; from then on an attempt fails.
- *Chains* 2: one from `load()` and one from the application are enough to overlap. *Updates* 1: a second
  update is another writer, which `Edit` has. *Configs*: one of each kind; *Parse* changes one, so that the raw and the parsed value differ.
- *Requests* 2, one service: two are enough to cross each other's header and to compete for one point (*Limit* 1, and
  *MaxWindows* 1 for one change of window). *MaxAttempts* 2 (5 in the code): one retry and the last attempt both happen.
- *Clients*: two identities (the second fails after the first), two loads and two disposals, so that one of each can
  overlap the other. For temporal the two are one client and one worker.
- *Writes* 2: an object, then another over it. *MaxDepth* 3 levels are enough for a prefix of a prefix, *MaxFields* 2 for a
  collision. The theorem has any number of each.
- `SerialSpec` of `RabbitChannel` (an application that waits for each call and whose consumers do not outlive their
  connection) and `StableSpec` (the last connection stays) restrict the environment only. The violated
  runs show what happens without the restriction.
- Runs set `CHECK_DEADLOCK FALSE`: a process that has exited, or a channel whose connections are used
  up, has no next step.

## 4. Fairness

- `Cortec`: weak fairness of the continuations of settled promises and of the timers, for every call. It is
  what the event loop gives. No fairness is assumed of the modules' own promises, so they may hang.
- `RabbitChannel`: weak fairness of continuations, of the broker's answers on a connection that stays up, and of connecting
  again (`Connect`), which the retry loop of `CortecRabbitMQ.reconnect` provides while the broker is
  reachable. None for the application, for messages or for closes.
- `RabbitMQ`: weak fairness of the retry's timer, and of a dial and a `create()` coming to an end, by success or failure:
  amqplib's sockets time out. None for closes, `load()` or `dispose()`.
- `DynamicConfig`: weak fairness of timers, of the database's answers (or failures) and of what follows them. None for
  calls and other writers.
- `Requests`: weak fairness, for every request, of its own next step, of the controller's call and of the service
  call behind it: continuations run, the application's functions, Redis and the files settle, and a service answers or
  axios' timeout ends the attempt. A process that stops exits. None for clients sending requests, and none for
  the change of the rate limiter's window.

## 5. Proofs

`Cortec_proofs`, for any set of modules, names, codes and any number of loads:

- `TypeCorrect`: `Spec => []TypeOK`, inductive as it stands.
- `GateHolds`: `Spec => []OneSeriesPerLoad`. The strengthening counts: `Len(disposes) <= Len(loads)` while the
  gate is open and one more while it is shut; only `CallDispose` shuts it and only `CallLoad` opens it.
- `TeardownCorrect`: `Spec => []Teardown`, which is `OrderlyTeardown /\ TeardownComplete`. The invariant says, of a disposal that began
  when no load was under way and that no load followed: there is no pending `module.load()`, every load has
  resolved, the modules already passed are down, and its copy is the reverse of the registry as it was then;
  modules registered later were never loaded, so they are not live.
- `DependenciesCorrect`: `Spec => []DependenciesUp`, from an invariant that ties the index of the latest load to the modules that are live
  and says that no earlier disposal is still taking modules down.
- `RefinesShutdown`: `Spec => ImplementsShutdown`, step by step under the invariant that `isDisposing` is the gate and that every disposal
  that can still settle is an accepted request.

`RabbitChannel_proofs`, for any messages, queues, deliveries and number of connections. Three theorems need no
premise on connections or counts:

- `TypesKept`: `Spec => []TypeOK`. `AwaitedUp` is the missing part: a reply that `create()` waits for comes from a
  connection that is up, since a close settles it; without it a channel could open on a connection that is gone.
- `PublishCorrect`: `Spec => []PublishedInOrder`, with `AttachedLast` (the channel of the moment is one `create()` has attached,
  or none) and `NothingBehind` (on a channel that works nothing is buffered), so that a message written at once
  overtakes none.
- `CountApplied`: `Spec => []PrefetchApplied`, for any counts passed at any moment. The invariant follows the count a `create()` has asked for: the one of
  the moment, or an earlier one and its channel is among `missed`; `prefetch()` on an attached channel sets it there.

With one connection at a time (`~Overlapping`), and calls at any moment:

- `BindingHolds`: `Spec => []ConsumersBound`. `LinkInv` orders the connections: the one that is up, and the one whose `create()` is
  under way, is the latest. `RunInv` says of each run of `bindConsumers` that it started once and that it works on the channel of the
  moment, or was overtaken by `reset()` and then writes to the discarded `boundConsumers`. `SubsInv` is the core: what is
  remembered as bound was accepted by the broker (which may have cancelled it since), and a consumer that is not bound yet is ahead of a run that is not
  overtaken (`UnboundAhead`). The loop of `bindConsumers` is a `CHOOSE` of the first queue without an entry; `IterateStops` shows
  where it may stop, from the well-ordering of the indices.

With one connection at a time and an application that waits for each call, whose consumers do not outlive their
connection (`SerialSpec`):

- The lemma `OneConsumer`: `SerialSpec => []OneSubscription`, which the other two rest on and which is no result of its own: waiting for each
  call is the only way the test before the await could be enough. `OneByOne` says that one run at most is under way and that its queue is not
  remembered as bound yet; `SubsAccounted` that each subscription is the one remembered or the one just replied to.
- `DisposalCancels`: `SerialSpec => []DisposeCancels`. `DisposeInv`: while `dispose()` goes on, the subscriptions are among those it
  has still to cancel.
- `AnswersOwn`: `SerialSpec => []AnsweredByItsConsumer`, from `TagsOnce` (on a channel a tag names one message, also among jobs) and
  `JobsUp`.

The premises are not conveniences. With `Overlapping`, TLC finds each of `ConsumersBound`, `OneSubscription`, `DisposeCancels` and
`AnsweredByItsConsumer` violated on an instance of the size of the runs: two `create()` calls share the one `channel` and `boundConsumers`. That
there is one connection at a time is what `OneConnectionKept` below shows of `CortecRabbitMQ` as long as no `create()` failed or lost
its connection: a connection opens from a task that dials, and none dials for an identity that has a connection up. The other premises are discussed in section 6.

`RabbitMQ_proofs`, for any number of identities, retries, loops and connections, also where retry loops overlap:

- `TypesKept`: `Spec => []TypeOK`. `TasksOK` adds that a sleeping task has attempts left, so waking it keeps the limit;
  `ConnsOK` that the connection stored for an identity is that identity's own, so `removeConnection` never
  takes the listener of another.
- `Reconnects`: `Spec => []NeverAbandoned`. It is not inductive: a task in `create()` looks after its
  identity only through its connection. `Watched` says so (a connection up with its listener, or a task that dials
  or sleeps). `InterruptCares` is the lemma about the hard step: a connection closes while a `create()` is pending
  on it, and the loop that starts takes over whatever becomes of that task.
- `OneConnectionKept`: `Spec => []OneConnection`, from `Sole`: an identity has one task, or one connection, or one task in
  `create()` on its one connection (so nobody dials for an identity that has one up, which discharges the premise
  `~Overlapping` of `RabbitChannel`); nothing exists for an identity `load()` has not come to; and until
  `dispose()` every connection has its listener, which is why a loss is never unheard. `SoleCloses` is the step that
  needs all of it: the loop a close starts is alone only because nobody was connecting that identity.
- `DisposalCloses`: `Spec => []DisposeClosesAll`, from `Sole` and `Orderly`: connections are up only for identities
  `dispose()` has not come to, and the one it waits for is the one that is stored.

`DynamicConfig_proofs`, for any configurations, chains and updates:

- `Types`: `Spec => []TypeOK`.
- `Served`: `Spec => []ServesStored`, for any parser, with `DataStored`: every reply on its way and every confirmed write was in the document.
- `KeepsRefreshing`: `Spec => []RefreshGoesOn`, with newrelic or without.
- `DisposalStops`: `Spec => []DisposeStops`, with `LoneChain`: while no calls overlapped there is one chain at most, and if its
  timer is armed it is the one `refreshClear` remembers; and from `dispose()` on the chains that are left are in `outlives`.

`Polka_proofs`, for any requests, routes, limit and number of windows:

- `PolkaTypes`: `Spec => []TypeOK`.
- `StagesDecide`: `Spec => []StageDecides`, which includes that a request hangs exactly when its handler failed with a falsy value. `RequestOK` is the invariant of one request: what each place in the pipeline implies of its fault,
  its trace and whether the controller was called. Steps touch one request, so it is kept request by request.
- `RateLimited`: `Spec => []LimitKept`, from `LimiterInv`: the requests that hold a point of a window are at most `Limit`,
  and those of the present window at most as many as the store has counted.
- `RefinesResponder`: `Spec => ImplementsResponder`: each step of a request answers it, reports its error, or stutters.

`Requests_proofs`, first of `Axios`, for any calls, services and number of attempts: `AxiosInv` has one part per theorem, `Budget` for
`RepeatsBounded` (a call is sent again only after an attempt that is counted and was answered with 5xx), `Noticed` for
`NoticedOnce`, and `Header` for `TraceIsKept` (as long as no other call of the service wrote the shared header since, it has the
trace of the call). Then of the composition: `ComponentsKept` shows that a behaviour of it is, seen from either part, a behaviour
of that part; so `RequestsSafe` and `RequestsRefineResponder` follow from the theorems about the parts without looking at a
step again.

`Clients_proofs`, for each of the thirteen modules, any number of identities and any number of overlapping calls of
`load()` and `dispose()`. The proof is in two halves. `ModulesGood` is about the programs: in every module what is
opened is stored, before the next operation that may fail (except for the ping of the modules that store after
it); what is stored was heard from; and the groups of `dispose()` come to every field. The rest
is about the state machine, for any such program, and looks at no module again:

- `TypesKept`: `Spec => []TypeOK`.
- `LoadsAreVerified`: `Spec => []LoadedIsVerified`, from `LoadOK`: a load stands at an operation that may fail, and every operation it has
  passed was answered.
- `NothingIsLost`: `Spec => []NothingLost`, from `Undisturbed`: as long as no load began too early, the latest load is the only one at work, every
  open client is its own, and it has stored what lies behind it.
- `DisposalCloses`: `Spec => []DisposeCloses`, from `DisposalOK`: of a disposal no load disturbed, each open client is excepted, in
  the group that is being closed, or in a later one.

`Redis_proofs`, for any set of objects, of any depth and width, with any keys:

- `ObjectOfLeaves`: each pair `objectToArray` makes of a value, under any prefix, is that of one of its leaves, each leaf has
  its pair, and behind that pair come those of later leaves only. The prover has no induction over objects; the proof makes
  one over their depth from the least element of a set of numbers (`UpTo`). `Recursion` builds the functions the recursive definitions
  describe, so that `ToArray` and `AlongIs` give their equations. `FlatPlaces` says where each pair of a field is found
  again in what the fields make together. `LeafHere`, `LeafBelow` and `LeafCases` take the leaves of a value apart as the recursion does,
  and `NameFromMore` is the step where prefix and name meet: an empty prefix counts as none, in the code and in the
  reference, also when several empty keys follow one another.
- `RoundTripHolds`: `Spec => []RoundTrip`. Each `hset` establishes it whatever the hash was (`HSetRoundTrip`): the last pair of a
  name stays, and by `ObjectOfLeaves` that is the pair of the last leaf of the name.

The assumptions are the named `ASSUME`s of the modules, which TLC evaluates in every run. TLC checked the invariants above
on the instances of the runs before they were proved.

Only model-checked: liveness, which is out of the prover's reach (`DisposeExits`, `SignalExits`,
`LoadFailureExits`, `Flushed`, `Resubscribed`, `RetriesEnd`, `Converges`, `EveryRequestEnds`). Every other property of a passing
run is a theorem.

## 6. What the model shows of the code

The violated runs, each an entry of `findings`:

- `load()` resets `isDisposing` also while a disposal runs, so a second disposal starts beside the first.
- `ack` and `nack` use the channel of the moment with the tag of an earlier one.
- `trace()` writes the header into the defaults all callers of a service share, so a request carries the trace of another.

Passing runs whose property says what the code does where a doc or a comment says something else, also in `findings`:

- `PublishedInOrder`: the buffer has no bound. A message beyond `bufferSize` is reported as dropped, kept and written.
- `PrefetchApplied`: a count passed while `create()` awaits the reply to an earlier one is set on no channel.
- `RefreshGoesOn`: with newrelic loaded, one timer's refresh that fails ends periodic refreshing, and the process goes on with an old value.
- `StageDecides`: authentication that rejects with a falsy value lets the request pass; the controller is called.
- `EveryRequestEnds`: a controller, or `count()`, that fails with a falsy value leaves the request without answer and report.
- `RepeatedOnlyAfter5XX`: nothing is retried without newrelic, and neither attempts nor delay can be configured.
- `NoticedOnceAtTheEnd`: a 4xx is reported unless the caller asks to ignore it; the flag the README documents does not exist.

Some properties have a premise, or name an exception, that the code does not enforce; what happens outside it is part of the model's
behaviours, and they would not catch it:

- `OneConnection` (no `create()` failed or was interrupted): a connection lost during the `create()` of a retry starts a second loop beside the
  first, and each ends up with a connection of its own, of which `$connections` has one.
- `DisposeClosesAll` (nothing was connecting at `dispose()` or since): a retry that sleeps or dials opens its connection
  after the disposal, and nobody closes it.
- `DisposeStops` (no refresh began beside another; but for a refresh in flight at `dispose()`): `refreshClear` holds the timer armed last, so the
  timer of the other chain goes on, and so does a refresh in flight, which arms timers after the disposal as before.
- `ServesStored` tells what a refresh leaves (the parsed value) from what `update()` leaves (the caller's own) and forbids neither.
- `RefreshGoesOn`, `Converges` (but for a failure newrelic has taken): see above.
- `ConsumersBound`, `Resubscribed` (but for the broker's cancel): a consumer the broker cancels looks bound, and nothing subscribes its queue
  again until the connection closes. A channel the broker closes alone is not opened again either.
- `Teardown`, `DependenciesUp` (a disposal, or load, that nothing disturbs): where they overlap, modules may stay up.
- `Converges` (a configuration JavaScript does not take for false): such a one is served as the default.
- `SignalExits`, `LoadFailureExits` (no disposal with a negative code): such a disposal leaves the gate shut.
- `OneSubscription`, `DisposeCancels` (an application that awaits `consume()`): `bindConsumers` tests `boundConsumers` before
  the await and writes it after, so two calls in a row subscribe a queue twice. The example in the
  README of the package does not await `consume()`.
- `ConsumersBound`, `OneSubscription`, `DisposeCancels`, `AnsweredByItsConsumer` (one connection at a time): where `OneConnection` fails, two `create()`
  calls share one channel object, the later one replaces `channel` under the runs of the earlier.
- `PrefetchApplied` (but for a channel a count came too early for): see above.
- `EveryRequestEnds` (but for a handler's falsy failure): see above. `LimitKept` counts one key of each route: `count()` may return others, each
  with a counter of its own.
- `TraceKept` (no other call of the service wrote the header meanwhile): see the third finding.
- `NothingLost` (no load began beside another, or while something was still open; the ping of postgres or opensearch was not
  rejected): those two store a client after its ping, so one whose ping is rejected is open and forgotten.
- `DisposeCloses`: when a `close()` of temporal's clients rejects, its workers stay; when one of opensearch's does, the
  container of the testable variant stays; the container of the testable RabbitMQ stays always.
- `LoadedIsVerified` leaves out elastic, whose ping is not awaited, and bullmq, which does not ask.
- `RoundTrip` has keys without a meaning of their own: a key `__proto__`, which the assignment in `arrayToObject` loses, is not covered.

Other behaviour a reader of the code may not expect is part of the model, and no property speaks against it:

- A stream is sent with status 200, whatever status its `Response` has; an error of the
  stream has no listener, so it reaches the process and the request is not answered.
- An error of the body parser is answered with 500, any failure of the rate limiter's store with 429, and a schema that fails with something
  else than a ZodError with 500.
- `onError` reads `req.trace`, which a mounted directory's requests do not have, and then throws.

## 7. Not modelled

- `storage`: each operation is one call of the file system with a joined path, and nothing is kept between calls. What
  could go wrong (a reader beside a writer in place, a source stream that fails and leaves `writeStream()` pending
  for ever, in the list of hazards) lies in the file system or in one missing listener.
- `config`, `logger`, `sentry`, `types`: no state that changes; `HttpStatusCodes`: constants, of which `Polka` has
  those the pipeline uses. Of `newrelic`, that it listens to rejections is in `Polka`; its shutdown is a
  module promise like any other in `Cortec`.
- In `Polka`: CORS preflights, helmet and compression, several parsers of a route, a directory mounted in front of a
  matching route, and the registration of routes, which is one synchronous step before the server listens.
- In `Clients`: the seed nodes and the reconnecting of a Redis cluster, which are ioredis' own.
- Several processes: the packages share nothing between processes but their servers, which are external.

## 8. Plan

Done: `Cortec` with `Shutdown`, `RabbitChannel`, `RabbitMQ`, `DynamicConfig`, `Polka` with `Responder`, `Axios`, their composition
`Requests`, `Clients` and `Redis`; the proofs of section 5.

Left, in this order:

1. The composition of `RabbitMQ` with `RabbitChannel` over one identity: consumers whose queue is gone meet the retry loop.
