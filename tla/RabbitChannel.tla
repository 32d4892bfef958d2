---------------------------- MODULE RabbitChannel ----------------------------
(***************************************************************************)
(* RabbitMQChannel of packages/rabbitmq/src/main.ts: publishing with a     *)
(* buffer for the time without a channel, the binding of consumers, their  *)
(* acknowledgements, create() on a new connection, reset() when one        *)
(* closes, and dispose().                                                  *)
(*                                                                         *)
(* A run of create(), of bindConsumers() or of dispose() stops at every    *)
(* await; the broker's reply and the continuation are separate steps.      *)
(* External: the connections and channels of amqplib and the broker behind *)
(* them.  Connection k carries the one channel k that create() opens on it. *)
(* When a connection closes, amqplib rejects what is pending on it and     *)
(* emits 'close', whose handler resets the channel, in one step.  The      *)
(* continuations of settled promises run before anything arrives on        *)
(* another connection.                                                     *)
(***************************************************************************)
EXTENDS Integers, Sequences, SequencesExt

CONSTANTS
  Messages,       \* what the application publishes
  Queues,         \* the queues it consumes
  Deliveries,     \* the messages waiting in these queues
  QueueOf,        \* Deliveries -> Queues
  Prefetches,     \* the counts passed to prefetch()
  Overlapping,    \* whether a connection may open while another is up
  MaxChannels,    \* bound: connections
  MaxTag          \* bound: deliveries on one channel

Channels == 1..MaxChannels
None == 0

ASSUME ChannelAssumption ==
  /\ QueueOf \in [Deliveries -> Queues]
  /\ Prefetches \subseteq Nat \ {0}
  /\ MaxChannels \in Nat /\ MaxTag \in Nat
  /\ Overlapping \in BOOLEAN

VARIABLES
  channel,          \* the channel, None for undefined
  buffer,           \* messages sent while there was no channel
  consumers,        \* the keys of `consumers', in insertion order
  boundConsumers,   \* queue -> the run of bindConsumers whose reply is stored
  generation,       \* the identity of the object boundConsumers refers to
  prefetch,         \* $prefetch, 0 for undefined
  creates,          \* where create() is, for each connection
  binders,          \* where each run of bindConsumers is
  disposal,         \* where dispose() is
  up, open,         \* external: connections that are up, channels that are open
  qos,              \* external: the prefetch count of each channel
  missed,           \* history: channels whose create() was past the count when one came
  subs,             \* external: the subscriptions accepted on the channels
  cancelled,        \* external: those of them that the broker itself has cancelled
  message,          \* external: where each message of the queues is
  unacked,          \* external: deliveries the broker wants an answer for
  lastTag,          \* external: delivery tags count from 1 on every channel
  jobs,             \* consumers at work
  accepted, wire,   \* history: messages taken from the application, and written
  succeeded, rejected   \* history: messages a consumer finished, or rejected

publishing == <<buffer, accepted, wire>>
binding == <<consumers, boundConsumers, generation, binders>>
counts == <<prefetch, qos, missed>>
broker == <<subs, cancelled, message, unacked, lastTag>>
work == <<jobs, succeeded, rejected>>
links == <<up, open, creates>>

vars == <<channel, publishing, binding, counts, disposal, links, broker, work>>

(* Who runs bindConsumers: create() on a connection, or consume().         *)
CreateRun(k) == <<"create", k>>
ConsumeRun(q) == <<"consume", q>>
Runs == {CreateRun(k) : k \in Channels} \cup {ConsumeRun(q) : q \in Queues}
NoRun == <<"none", 0>>
Unbound == [q \in Queues |-> NoRun]

-----------------------------------------------------------------------------
Init ==
  /\ channel = None
  /\ buffer = <<>> /\ accepted = <<>> /\ wire = <<>>
  /\ consumers = <<>> /\ boundConsumers = Unbound /\ generation = 0
  /\ binders = [b \in Runs |-> [pc |-> "idle"]]
  /\ prefetch = 0 /\ qos = [k \in Channels |-> 0] /\ missed = {}
  /\ creates = [k \in Channels |-> "none"]
  /\ disposal = [pc |-> "no"]
  /\ up = {} /\ open = {} /\ subs = {} /\ cancelled = {}
  /\ message = [d \in Deliveries |-> "ready"]
  /\ unacked = {} /\ lastTag = [k \in Channels |-> 0]
  /\ jobs = {} /\ succeeded = {} /\ rejected = {}

(* Continuations that are due and do not belong to connection k.           *)
Drained(k) ==
  /\ \A j \in Channels \ {k} : creates[j] \notin {"opened", "prefetched"}
  /\ \A b \in Runs : binders[b].pc = "replied" => binders[b].chan = k
  /\ disposal.pc = "replied" => disposal.chan = k

-----------------------------------------------------------------------------
(* Publishing.  sendToQueue() on a closed channel throws, and the message  *)
(* is the caller's again; a full buffer is only reported.                  *)

SendToQueue(m) ==
  /\ \A i \in DOMAIN accepted : accepted[i] # m
  /\ \/ /\ channel = None
        /\ buffer' = Append(buffer, m)
        /\ UNCHANGED wire
     \/ /\ channel \in open
        /\ wire' = Append(wire, m)
        /\ UNCHANGED buffer
  /\ accepted' = Append(accepted, m)
  /\ UNCHANGED <<channel, binding, counts, disposal, links, broker, work>>

Prefetch(n) ==
  /\ prefetch' = n
  /\ qos' = IF channel \in open THEN [qos EXCEPT ![channel] = n] ELSE qos
  /\ missed' = (missed \ {channel})
                \cup {k \in Channels : creates[k] \in {"prefetching", "prefetched"}}
  /\ UNCHANGED <<channel, publishing, binding, disposal, links, broker, work>>

-----------------------------------------------------------------------------
(* bindConsumers: the iterations up to the next await, for the keys that   *)
(* are left, the value of this.channel and that of boundConsumers.         *)

IterateAll(keys, chan, bound) ==      \* mutant: no test for a bound consumer
  IF keys = <<>> THEN [pc |-> "done"]
  ELSE IF chan \notin open THEN [pc |-> "failed"]
  ELSE [pc |-> "waiting", queue |-> Head(keys), keys |-> Tail(keys),
        chan |-> chan, gen |-> generation]

Iterate(keys, chan, bound) ==
  LET unbound == {i \in DOMAIN keys : bound[keys[i]] = NoRun}
      next == CHOOSE i \in unbound : \A j \in unbound : i <= j
  IN  IF unbound = {} THEN [pc |-> "done"]
      ELSE IF chan \notin open THEN [pc |-> "failed"]
      ELSE [pc |-> "waiting", queue |-> keys[next],
            keys |-> SubSeq(keys, next + 1, Len(keys)), chan |-> chan, gen |-> generation]

(* consume().  Bound: an application does not call it once it has begun to *)
(* dispose of the channel.                                                 *)
Consume(q) ==
  /\ \A i \in DOMAIN consumers : consumers[i] # q
  /\ disposal.pc = "no"
  /\ consumers' = Append(consumers, q)
  /\ binders' = [binders EXCEPT ![ConsumeRun(q)] =
                   IF channel = None THEN [pc |-> "done"]
                   ELSE Iterate(consumers', channel, boundConsumers)]
  /\ UNCHANGED <<channel, publishing, boundConsumers, generation, counts, disposal, links,
                 broker, work>>

(* External: the broker accepts a subscription.                            *)
ConsumeOk(b) ==
  /\ binders[b].pc = "waiting"
  /\ Drained(binders[b].chan)
  /\ binders' = [binders EXCEPT ![b].pc = "replied"]
  /\ subs' = subs \cup {[by |-> b, queue |-> binders[b].queue, chan |-> binders[b].chan]}
  /\ UNCHANGED <<channel, publishing, consumers, boundConsumers, generation, counts, disposal,
                 links, cancelled, message, unacked, lastTag, work>>

(* The reply is stored in the object the assignment evaluated before the   *)
(* await, which reset() may have replaced since.                           *)
BindContinueLate(b) ==      \* mutant: stores in the object there is after the await
  LET stored == [boundConsumers EXCEPT ![binders[b].queue] = b]
  IN  /\ binders[b].pc = "replied"
      /\ boundConsumers' = stored
      /\ binders' = [binders EXCEPT ![b] = Iterate(binders[b].keys, channel, stored)]
      /\ UNCHANGED <<channel, publishing, consumers, generation, counts, disposal, links,
                     broker, work>>

BindContinue(b) ==
  LET stored == IF binders[b].gen = generation
                THEN [boundConsumers EXCEPT ![binders[b].queue] = b]
                ELSE boundConsumers
  IN  /\ binders[b].pc = "replied"
      /\ boundConsumers' = stored
      /\ binders' = [binders EXCEPT ![b] = Iterate(binders[b].keys, channel, stored)]
      /\ UNCHANGED <<channel, publishing, consumers, generation, counts, disposal, links,
                     broker, work>>

-----------------------------------------------------------------------------
(* create().                                                               *)

(* External: a connection is up, and connect() calls create() with it.     *)
Connect(k) ==
  /\ creates[k] = "none" /\ \A j \in Channels : j < k => creates[j] # "none"
  /\ Overlapping \/ up = {}
  /\ Drained(k)
  /\ up' = up \cup {k}
  /\ creates' = [creates EXCEPT ![k] = "opening"]
  /\ UNCHANGED <<channel, publishing, binding, counts, disposal, open, broker, work>>

(* External: the channel is open, or the prefetch count is set.            *)
ChannelOpened(k) ==
  /\ creates[k] = "opening"
  /\ Drained(k)
  /\ open' = open \cup {k}
  /\ creates' = [creates EXCEPT ![k] = "opened"]
  /\ UNCHANGED <<channel, publishing, binding, counts, disposal, up, broker, work>>

PrefetchReplied(k) ==
  /\ creates[k] = "prefetching"
  /\ Drained(k)
  /\ creates' = [creates EXCEPT ![k] = "prefetched"]
  /\ UNCHANGED <<channel, publishing, binding, counts, disposal, up, open, broker, work>>

SetNoPrefetch(k) ==      \* mutant: the count is not set again on a new channel
  /\ creates[k] = "opened" /\ prefetch # 0
  /\ creates' = [creates EXCEPT ![k] = "prefetched"]
  /\ UNCHANGED <<channel, publishing, binding, counts, disposal, up, open, broker, work>>

SetPrefetch(k) ==
  /\ creates[k] = "opened"
  /\ prefetch # 0
  /\ IF k \in open
     THEN /\ qos' = [qos EXCEPT ![k] = prefetch]
          /\ creates' = [creates EXCEPT ![k] = "prefetching"]
     ELSE /\ creates' = [creates EXCEPT ![k] = "prefetched"]
          /\ UNCHANGED qos
  /\ UNCHANGED <<channel, publishing, binding, prefetch, missed, disposal, up, open, broker,
                 work>>

(* The channel is set, what was buffered is written, the consumers are     *)
(* bound.  Writing to a closed channel throws: create() rejects, the       *)
(* buffer is kept, and the channel is set nevertheless.                    *)
AttachKeepsBuffer(k) ==      \* mutant: the buffer is not cleared
  /\ creates[k] = "prefetched" \/ (creates[k] = "opened" /\ prefetch = 0)
  /\ channel' = k
  /\ creates' = [creates EXCEPT ![k] = "attached"]
  /\ wire' = wire \o buffer
  /\ binders' = [binders EXCEPT ![CreateRun(k)] = Iterate(consumers, k, boundConsumers)]
  /\ UNCHANGED <<accepted, buffer, consumers, boundConsumers, generation, counts, disposal,
                 up, open, broker, work>>

AttachNoFlush(k) ==      \* mutant: the buffer waits for the next connection
  /\ creates[k] = "prefetched" \/ (creates[k] = "opened" /\ prefetch = 0)
  /\ channel' = k
  /\ creates' = [creates EXCEPT ![k] = "attached"]
  /\ binders' = [binders EXCEPT ![CreateRun(k)] = Iterate(consumers, k, boundConsumers)]
  /\ UNCHANGED <<accepted, buffer, wire, consumers, boundConsumers, generation, counts,
                 disposal, up, open, broker, work>>

Attach(k) ==
  /\ creates[k] = "prefetched" \/ (creates[k] = "opened" /\ prefetch = 0)
  /\ channel' = k
  /\ IF buffer # <<>> /\ k \notin open
     THEN /\ creates' = [creates EXCEPT ![k] = "failed"]
          /\ UNCHANGED <<buffer, wire, binders>>
     ELSE /\ creates' = [creates EXCEPT ![k] = "attached"]
          /\ wire' = wire \o buffer
          /\ buffer' = <<>>
          /\ binders' = [binders EXCEPT ![CreateRun(k)] = Iterate(consumers, k, boundConsumers)]
  /\ UNCHANGED <<accepted, consumers, boundConsumers, generation, counts, disposal, up, open,
                 broker, work>>

-----------------------------------------------------------------------------
(* External: what the loss of channel k does.  Pending replies reject: a   *)
(* createChannel() or consume() fails its run, prefetch() and cancel() are *)
(* caught and go on.  The broker forgets the subscriptions and puts back   *)
(* what was not acknowledged.                                              *)
LoseKeepsOpen(k) ==      \* mutant: the channel of a closed connection looks open
  /\ binders' = [b \in Runs |->
                   IF binders[b].pc = "waiting" /\ binders[b].chan = k
                   THEN [pc |-> "failed"] ELSE binders[b]]
  /\ UNCHANGED <<open, creates, disposal, broker>>

Lose(k) ==
  /\ open' = open \ {k}
  /\ binders' = [b \in Runs |->
                   IF binders[b].pc = "waiting" /\ binders[b].chan = k
                   THEN [pc |-> "failed"] ELSE binders[b]]
  /\ creates' = [creates EXCEPT ![k] = CASE @ = "opening" -> "failed"
                                         [] @ = "prefetching" -> "prefetched"
                                         [] OTHER -> @]
  /\ disposal' = IF disposal.pc = "waiting" /\ disposal.chan = k
                 THEN [disposal EXCEPT !.pc = "replied"] ELSE disposal
  /\ subs' = {s \in subs : s.chan # k}
  /\ cancelled' = {s \in cancelled : s.chan # k}
  /\ unacked' = {u \in unacked : u.chan # k}
  /\ message' = [d \in Deliveries |->
                   IF \E u \in unacked : u.chan = k /\ u.d = d THEN "ready" ELSE message[d]]
  /\ UNCHANGED lastTag

(* The connection closes: its 'close' handler calls reset().               *)
ConnectionClosesKeepsBound(k) ==      \* mutant: reset() only drops the channel
  /\ k \in up
  /\ Drained(k)
  /\ up' = up \ {k}
  /\ Lose(k)
  /\ channel' = None
  /\ UNCHANGED <<publishing, consumers, boundConsumers, generation, counts, work>>

ConnectionCloses(k) ==
  /\ k \in up
  /\ Drained(k)
  /\ up' = up \ {k}
  /\ Lose(k)
  /\ channel' = None
  /\ boundConsumers' = Unbound
  /\ generation' = generation + 1
  /\ UNCHANGED <<publishing, consumers, counts, work>>

(* The broker refuses a subscription (no such queue) and closes the channel. *)
ConsumeRefused(b) ==
  /\ binders[b].pc = "waiting"
  /\ Drained(binders[b].chan)
  /\ Lose(binders[b].chan)
  /\ UNCHANGED <<channel, publishing, consumers, boundConsumers, generation, counts, up, work>>

-----------------------------------------------------------------------------
(* Consuming.  A delivery for a queue that has no consumer any more is     *)
(* never answered.                                                         *)

Deliver(s, d) ==
  LET tag == lastTag[s.chan] + 1
  IN  /\ s \in subs \ cancelled
      /\ message[d] = "ready" /\ QueueOf[d] = s.queue
      /\ tag <= MaxTag
      /\ Drained(s.chan)
      /\ message' = [message EXCEPT ![d] = "unacked"]
      /\ unacked' = unacked \cup {[chan |-> s.chan, tag |-> tag, d |-> d]}
      /\ lastTag' = [lastTag EXCEPT ![s.chan] = tag]
      /\ jobs' = IF \E i \in DOMAIN consumers : consumers[i] = s.queue
                 THEN jobs \cup {[chan |-> s.chan, tag |-> tag, d |-> d]} ELSE jobs
      /\ UNCHANGED <<channel, publishing, binding, counts, disposal, links, subs, cancelled,
                     succeeded, rejected>>

(* The broker cancels a subscription (its queue is deleted or moved) with  *)
(* a null message, on which the callback returns: boundConsumers keeps its *)
(* entry.                                                                  *)
BrokerCancels(s) ==
  /\ s \in subs \ cancelled
  /\ Drained(s.chan)
  /\ cancelled' = cancelled \cup {s}
  /\ UNCHANGED <<channel, publishing, binding, counts, disposal, links, subs, message, unacked,
                 lastTag, work>>

(* ack() and nack() go to the channel there is when the consumer is done,  *)
(* with the tag of the delivery.  Without a channel nothing is sent; on a  *)
(* closed one they throw; a tag the channel does not know makes the broker *)
(* close it.                                                               *)
Answer(tag, outcome) ==
  LET answered == {u \in unacked : u.chan = channel /\ u.tag = tag}
  IN  IF channel \notin open
      THEN UNCHANGED <<open, binders, creates, disposal, broker>>
      ELSE IF answered = {} THEN Lose(channel)
      ELSE /\ unacked' = unacked \ answered
           /\ message' = [d \in Deliveries |->
                            IF \E u \in answered : u.d = d THEN outcome ELSE message[d]]
           /\ UNCHANGED <<open, binders, creates, disposal, subs, cancelled, lastTag>>

Finish(j, outcome) ==
  /\ j \in jobs
  /\ jobs' = jobs \ {j}
  /\ Answer(j.tag, outcome)
  /\ UNCHANGED <<channel, publishing, consumers, boundConsumers, generation, counts, up>>

JobSucceeds(j) ==
  Finish(j, "acked") /\ succeeded' = succeeded \cup {j.d} /\ UNCHANGED rejected

(* The consumer throws a RabbitRejectError, or another error.              *)
JobRejects(j) ==
  Finish(j, "dropped") /\ rejected' = rejected \cup {j.d} /\ UNCHANGED succeeded

JobFailsAcked(j) ==      \* mutant: acknowledged whatever the consumer does
  Finish(j, "acked") /\ UNCHANGED <<succeeded, rejected>>

JobFails(j) == Finish(j, "ready") /\ UNCHANGED <<succeeded, rejected>>

-----------------------------------------------------------------------------
(* dispose(): cancels the subscriptions it knows, one after the other.     *)

Cancel(left, chan) ==      \* up to the next await; left is a set of <<queue, run>>
  IF left = {}
  THEN /\ disposal' = [pc |-> "done"]
       /\ boundConsumers' = Unbound /\ generation' = generation + 1
       /\ consumers' = <<>> /\ channel' = None
  ELSE /\ disposal' = IF chan = None THEN [pc |-> "failed"]
                      ELSE [pc |-> IF chan \in open THEN "waiting" ELSE "replied",
                            next |-> CHOOSE x \in left : TRUE, left |-> left, chan |-> chan]
       /\ UNCHANGED <<boundConsumers, generation, consumers, channel>>

DisposeForgets ==      \* mutant: boundConsumers is cleared before it is read
  /\ disposal.pc = "no"
  /\ Cancel({}, channel)
  /\ UNCHANGED <<publishing, binders, counts, links, broker, work>>

Dispose ==
  /\ disposal.pc = "no"
  /\ Cancel(IF channel = None THEN {}
            ELSE {<<q, boundConsumers[q]>> : q \in {x \in Queues : boundConsumers[x] # NoRun}},
            channel)
  /\ UNCHANGED <<publishing, binders, counts, links, broker, work>>

(* External: the subscription is cancelled.                                *)
CancelOk ==
  /\ disposal.pc = "waiting"
  /\ Drained(disposal.chan)
  /\ disposal' = [disposal EXCEPT !.pc = "replied"]
  /\ subs' = {s \in subs : ~(s.chan = disposal.chan /\ <<s.queue, s.by>> = disposal.next)}
  /\ cancelled' = cancelled \cap subs'
  /\ UNCHANGED <<channel, publishing, binding, counts, links, message, unacked, lastTag, work>>

DisposeContinue ==
  /\ disposal.pc = "replied"
  /\ Cancel(disposal.left \ {disposal.next}, channel)
  /\ UNCHANGED <<publishing, binders, counts, links, broker, work>>

-----------------------------------------------------------------------------
Next ==
  \/ \E m \in Messages : SendToQueue(m)
  \/ \E n \in Prefetches : Prefetch(n)
  \/ \E q \in Queues : Consume(q)
  \/ \E b \in Runs : ConsumeOk(b) \/ BindContinue(b) \/ ConsumeRefused(b)
  \/ \E k \in Channels :
       \/ Connect(k) \/ ChannelOpened(k) \/ PrefetchReplied(k)
       \/ SetPrefetch(k) \/ Attach(k) \/ ConnectionCloses(k)
  \/ \E s \in subs, d \in Deliveries : Deliver(s, d)
  \/ \E s \in subs : BrokerCancels(s)
  \/ \E j \in jobs : JobSucceeds(j) \/ JobRejects(j) \/ JobFails(j)
  \/ Dispose \/ CancelOk \/ DisposeContinue

Spec == Init /\ [][Next]_vars

(* Fairness: continuations run, a connection that stays up answers, and    *)
(* the module connects again when a connection is lost.                    *)
Fairness ==
  /\ \A b \in Runs : WF_vars(ConsumeOk(b)) /\ WF_vars(BindContinue(b))
  /\ \A k \in Channels :
       /\ WF_vars(Connect(k)) /\ WF_vars(ChannelOpened(k)) /\ WF_vars(PrefetchReplied(k))
       /\ WF_vars(SetPrefetch(k)) /\ WF_vars(Attach(k))

(* create() and bindConsumers have nothing under way, nor has dispose().   *)
AtRest ==
  /\ disposal.pc = "no"
  /\ \A k \in Channels : creates[k] \in {"none", "attached", "failed"}
  /\ \A b \in Runs : binders[b].pc \notin {"waiting", "replied"}

(* An application that waits: it registers a consumer, and the context     *)
(* disposes the channel, only when nothing is under way.  Its consumers    *)
(* are quick: a connection is lost only when none of its messages is being *)
(* consumed.                                                               *)
SerialNext ==
  /\ Next
  /\ consumers' # consumers \/ disposal' # disposal => AtRest \/ disposal.pc # "no"
  /\ \A j \in jobs' : j.chan \in up'

SerialSpec == Init /\ [][SerialNext]_vars

-----------------------------------------------------------------------------
BinderRecord ==
  [pc : {"idle", "done", "failed"}] \cup
  [pc : {"waiting", "replied"}, queue : Queues, keys : Seq(Queues), chan : Channels, gen : Nat]

DisposalRecord ==
  [pc : {"no", "done", "failed"}] \cup
  [pc : {"waiting", "replied"}, next : Queues \X Runs, left : SUBSET (Queues \X Runs),
   chan : Channels]

(* Every variable has its type.                                            *)
TypeOK ==
  /\ channel \in Channels \cup {None}
  /\ buffer \in Seq(Messages) /\ accepted \in Seq(Messages) /\ wire \in Seq(Messages)
  /\ consumers \in Seq(Queues)
  /\ boundConsumers \in [Queues -> Runs \cup {NoRun}]
  /\ generation \in Nat
  /\ binders \in [Runs -> BinderRecord]
  /\ prefetch \in Prefetches \cup {0}
  /\ qos \in [Channels -> Prefetches \cup {0}] /\ missed \subseteq Channels
  /\ creates \in [Channels -> {"none", "opening", "opened", "prefetching", "prefetched",
                               "attached", "failed"}]
  /\ disposal \in DisposalRecord
  /\ up \subseteq Channels /\ open \subseteq up
  /\ subs \subseteq [by : Runs, queue : Queues, chan : Channels] /\ cancelled \subseteq subs
  /\ message \in [Deliveries -> {"ready", "unacked", "acked", "dropped"}]
  /\ unacked \subseteq [chan : Channels, tag : Nat, d : Deliveries]
  /\ lastTag \in [Channels -> Nat]
  /\ jobs \subseteq [chan : Channels, tag : Nat, d : Deliveries]
  /\ succeeded \subseteq Deliveries /\ rejected \subseteq Deliveries

(* Whatever connections open and close, and whichever create() continues   *)
(* late: what was taken from the application is what was written, in that  *)
(* order and once, followed by what is still buffered.  That holds as well *)
(* of the messages beyond the limit of the buffer, which the code reports  *)
(* as dropped: it keeps them, and writes them.                             *)
PublishedInOrder == accepted = wire \o buffer

(* With one connection at a time: once create() and every run of           *)
(* bindConsumers have come to rest on an open channel, the broker has      *)
(* accepted the subscription that boundConsumers remembers, for every      *)
(* registered consumer, and only the broker's own cancel has ended it; a   *)
(* reply that comes late, for an object reset() has replaced, does not     *)
(* leave a queue that looks bound and is not.  After the broker's cancel,  *)
(* of which the code takes no notice, it does look bound until reset().    *)
ConsumersBound ==
  AtRest /\ channel \in open =>
    \A i \in DOMAIN consumers :
      [by |-> boundConsumers[consumers[i]], queue |-> consumers[i], chan |-> channel] \in subs

(* A queue has one subscription on a channel: a message is handed to one   *)
(* consumer at a time.                                                     *)
OneSubscription ==
  \A s, t \in subs : s.chan = t.chan /\ s.queue = t.queue => s = t

(* When dispose() is through, no subscription is left on the channels that *)
(* are open: nothing is delivered to a consumer that is gone.              *)
DisposeCancels == disposal.pc = "done" => \A s \in subs : s.chan \notin open

(* A message leaves its queue for good only when a consumer that was given *)
(* it finished it, or rejected it with a RabbitRejectError.                *)
AnsweredByItsConsumer ==
  \A d \in Deliveries : /\ message[d] = "acked" => d \in succeeded
                        /\ message[d] = "dropped" => d \in rejected

(* Whatever counts the application passes, and when: an attached channel   *)
(* works with the last one.  The exception is a count that comes while     *)
(* create() awaits the reply to an earlier one: neither it nor prefetch(), *)
(* for which that channel is not there yet, sets it, and the channel works *)
(* with the earlier count until the next prefetch().                       *)
PrefetchApplied ==
  channel \in open /\ prefetch # 0 /\ channel \notin missed => qos[channel] = prefetch

(* A message that waits in the buffer is written once a connection stays.  *)
Flushed ==
  \A m \in Messages :
    (\E i \in DOMAIN buffer : buffer[i] = m) ~> (\E i \in DOMAIN wire : wire[i] = m)

(* A registered consumer ends up, whatever connections were lost and       *)
(* whatever the broker cancelled before, with a subscription on the        *)
(* current channel that stays, unless the broker cancels that one too:     *)
(* nothing subscribes its queue again before the connection closes.        *)
Resubscribed ==
  \A q \in Queues :
    (\E i \in DOMAIN consumers : consumers[i] = q)
      ~> [](\E s \in subs : s.queue = q /\ s.chan = channel)
=============================================================================
