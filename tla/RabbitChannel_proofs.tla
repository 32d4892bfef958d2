------------------------ MODULE RabbitChannel_proofs ------------------------
(***************************************************************************)
(* RabbitChannel, for any messages, queues, deliveries and number of       *)
(* connections.  Whether or not connections overlap: the types, publishing *)
(* that loses, repeats and reorders nothing, and the prefetch counts.      *)
(* With one connection at a time: consumers are bound again.  If the       *)
(* application waits for its calls besides: a queue has one subscription,  *)
(* dispose() leaves none, and a message is answered for by the consumer    *)
(* that was given it.                                                      *)
(***************************************************************************)
EXTENDS RabbitChannel, SequenceTheorems, WellFoundedInduction, TLAPS

(* Indices have a least.                                                   *)
Less == {ss \in Nat \X Nat : ss[1] < ss[2]}
LEMMA Least ==
  ASSUME NEW S \in SUBSET Nat, S # {}
  PROVE  \E i \in S : \A j \in S : i <= j
  <1>1. IsWellFoundedOn(Less, Nat)
    BY NatLessThanWellFounded DEF OpToRel, Less
  <1>2. \E i \in S : \A j \in S : <<j, i>> \notin Less
    BY <1>1, WFMin
  <1>3. \A i, j \in S : <<j, i>> \notin Less => i <= j
    <2> SUFFICES ASSUME NEW i \in S, NEW j \in S, ~(i <= j) PROVE <<j, i>> \in Less
      OBVIOUS
    <2>1. i \in Nat /\ j \in Nat /\ j < i
      OBVIOUS
    <2> QED
      BY <2>1 DEF Less
  <1> QED
    BY <1>2, <1>3, Zenon

-----------------------------------------------------------------------------
(* Where the iterations of bindConsumers leave a run.                      *)
AllBound(r, keys, bound) ==
  r = [pc |-> "done"] /\ \A q \in Range(keys) : bound[q] # NoRun

ClosedOn(r, chan) == r = [pc |-> "failed"] /\ chan \notin open

Subscribes(r, keys, chan, bound) ==
  \E q \in Queues, rest \in Seq(Queues) :
    /\ r = [pc |-> "waiting", queue |-> q, keys |-> rest, chan |-> chan, gen |-> generation]
    /\ chan \in open
    /\ q \in Range(keys) /\ bound[q] = NoRun
    /\ \A p \in Range(keys) : bound[p] = NoRun => p = q \/ p \in Range(rest)

(* Where one go of the loop of bindConsumers ends: at the end of the keys, *)
(* at a channel that is closed, or at the reply of consume() for the first *)
(* queue that is not bound.                                                *)
LEMMA IterateStops ==
  ASSUME NEW keys \in Seq(Queues), NEW chan, NEW bound
  PROVE  \/ AllBound(Iterate(keys, chan, bound), keys, bound)
         \/ ClosedOn(Iterate(keys, chan, bound), chan)
         \/ Subscribes(Iterate(keys, chan, bound), keys, chan, bound)
  <1> DEFINE unbound == {i \in DOMAIN keys : bound[keys[i]] = NoRun}
             next == CHOOSE i \in unbound : \A j \in unbound : i <= j
             rest == SubSeq(keys, next + 1, Len(keys))
  <1>1. Iterate(keys, chan, bound) =
          IF unbound = {} THEN [pc |-> "done"]
          ELSE IF chan \notin open THEN [pc |-> "failed"]
          ELSE [pc |-> "waiting", queue |-> keys[next], keys |-> rest, chan |-> chan,
                gen |-> generation]
    BY DEF Iterate
  <1> HIDE DEF rest
  <1>2. CASE unbound = {}
    BY <1>1, <1>2 DEF AllBound, Range
  <1>3. CASE unbound # {} /\ chan \notin open
    BY <1>1, <1>3 DEF ClosedOn
  <1>4. CASE unbound # {} /\ chan \in open
    <2>1. unbound \in SUBSET Nat
      OBVIOUS
    <2>2. \E i \in unbound : \A j \in unbound : i <= j
      BY <1>4, <2>1, Least
    <2>3. next \in unbound /\ \A j \in unbound : next <= j
      BY <2>2
    <2>4. /\ next \in 1..Len(keys) /\ DOMAIN keys = 1..Len(keys) /\ Len(keys) \in Nat
          /\ keys[next] \in Queues /\ bound[keys[next]] = NoRun
      BY <2>3
    <2> HIDE DEF next
    <2>5. /\ rest \in Seq(Queues) /\ Len(rest) = Len(keys) - next
          /\ \A i \in 1..Len(rest) : rest[i] = keys[next + i]
      <3>1. keys \in Seq(Queues) /\ next + 1 \in 1..(Len(keys) + 1) /\ Len(keys) \in next..Len(keys)
        BY <2>4
      <3>2. /\ rest \in Seq(Queues)
            /\ Len(rest) = IF next + 1 <= Len(keys) THEN Len(keys) - (next + 1) + 1 ELSE 0
            /\ \A i \in 1..(Len(keys) - (next + 1) + 1) : rest[i] = keys[next + 1 + i - 1]
        BY <2>4, <3>1, SubSeqProperties DEF rest
      <3>3. Len(rest) = Len(keys) - next
        <4>1. next \in Int /\ Len(keys) \in Int /\ next <= Len(keys)
          BY <2>4
        <4>2. CASE next + 1 <= Len(keys)
          BY <3>2, <4>1, <4>2
        <4>3. CASE ~(next + 1 <= Len(keys))
          <5>1. Len(rest) = 0 /\ Len(keys) = next
            BY <3>2, <4>1, <4>3
          <5> QED
            BY <4>1, <5>1
        <4> QED
          BY <4>2, <4>3
      <3>4. ASSUME NEW i \in 1..Len(rest) PROVE rest[i] = keys[next + i]
        <4>1. i \in 1..(Len(keys) - (next + 1) + 1) /\ next + 1 + i - 1 = next + i
          BY <2>4, <3>3
        <4> QED
          BY <3>2, <4>1
      <3> QED
        BY <3>2, <3>3, <3>4
    <2>6. DOMAIN rest = 1..(Len(keys) - next)
      BY <2>5
    <2>7. ASSUME NEW p \in Range(keys), bound[p] = NoRun, p # keys[next]
          PROVE  p \in Range(rest)
      <3>1. PICK i \in DOMAIN keys : p = keys[i]
        BY <2>7 DEF Range
      <3>2. i \in 1..Len(keys) /\ next <= i /\ i # next
        BY <2>3, <2>4, <2>7, <3>1
      <3>3. i - next \in DOMAIN rest /\ rest[i - next] = p
        BY <2>4, <2>5, <2>6, <3>1, <3>2
      <3> QED
        BY <3>3 DEF Range
    <2>8. keys[next] \in Range(keys)
      BY <2>4 DEF Range
    <2>9. Iterate(keys, chan, bound)
            = [pc |-> "waiting", queue |-> keys[next], keys |-> rest, chan |-> chan,
               gen |-> generation]
      BY <1>1, <1>4
    <2>10. Subscribes(Iterate(keys, chan, bound), keys, chan, bound)
      BY <1>4, <2>4, <2>5, <2>7, <2>8, <2>9 DEF Subscribes
    <2> QED
      BY <2>10
  <1> QED
    BY <1>2, <1>3, <1>4

-----------------------------------------------------------------------------
(* Every variable has its type.                                            *)

ActiveRecord ==
  [pc : {"waiting", "replied"}, queue : Queues, keys : Seq(Queues), chan : Channels, gen : Nat]

ActiveDisposal ==
  [pc : {"waiting", "replied"}, next : Queues \X Runs, left : SUBSET (Queues \X Runs),
   chan : Channels]

(* The fields of a run of bindConsumers that is under way.                 *)
LEMMA ActiveTyped ==
  ASSUME NEW r \in BinderRecord, r.pc \in {"waiting", "replied"}
  PROVE  r \in ActiveRecord
  BY DEF BinderRecord, ActiveRecord

(* The fields of a disposal that is under way.                             *)
LEMMA DisposalTyped ==
  ASSUME NEW r \in DisposalRecord, r.pc \in {"waiting", "replied"}
  PROVE  r \in ActiveDisposal
  BY DEF DisposalRecord, ActiveDisposal

(* What the loop leaves is a place of bindConsumers.                       *)
LEMMA IterateTyped ==
  ASSUME NEW keys \in Seq(Queues), NEW chan, NEW bound, open \subseteq Channels, generation \in Nat
  PROVE  Iterate(keys, chan, bound) \in BinderRecord
  <1>1. CASE AllBound(Iterate(keys, chan, bound), keys, bound)
    BY <1>1 DEF AllBound, BinderRecord
  <1>2. CASE ClosedOn(Iterate(keys, chan, bound), chan)
    BY <1>2 DEF ClosedOn, BinderRecord
  <1>3. CASE Subscribes(Iterate(keys, chan, bound), keys, chan, bound)
    BY <1>3 DEF Subscribes, BinderRecord
  <1> QED
    BY <1>1, <1>2, <1>3, IterateStops

CreatePlaces == {"none", "opening", "opened", "prefetching", "prefetched", "attached", "failed"}

(* What the loss of a channel does to the types.                           *)
LEMMA LoseTyped ==
  ASSUME TypeOK, NEW k \in Channels, Lose(k)
  PROVE  /\ open' \subseteq open
         /\ binders' \in [Runs -> BinderRecord]
         /\ creates' \in [Channels -> CreatePlaces]
         /\ disposal' \in DisposalRecord
         /\ subs' \subseteq subs /\ unacked' \subseteq unacked /\ lastTag' = lastTag
         /\ cancelled' \subseteq subs'
         /\ message' \in [Deliveries -> {"ready", "unacked", "acked", "dropped"}]
  <1>1. /\ open' \subseteq open /\ subs' \subseteq subs /\ unacked' \subseteq unacked
        /\ lastTag' = lastTag /\ cancelled' \subseteq subs'
    BY DEF Lose, TypeOK
  <1>2. binders' \in [Runs -> BinderRecord]
    <2>1. [pc |-> "failed"] \in BinderRecord
      BY DEF BinderRecord
    <2>2. binders \in [Runs -> BinderRecord]
      BY DEF TypeOK
    <2>3. binders' = [b \in Runs |-> IF binders[b].pc = "waiting" /\ binders[b].chan = k
                                     THEN [pc |-> "failed"] ELSE binders[b]]
      BY DEF Lose
    <2>4. \A b \in Runs : (IF binders[b].pc = "waiting" /\ binders[b].chan = k
                           THEN [pc |-> "failed"] ELSE binders[b]) \in BinderRecord
      BY <2>1, <2>2
    <2> QED
      BY <2>3, <2>4, Zenon
  <1>3. creates' \in [Channels -> CreatePlaces]
    <2>1. creates \in [Channels -> CreatePlaces]
      BY DEF TypeOK, CreatePlaces
    <2>2. creates' = [creates EXCEPT ![k] = CASE creates[k] = "opening" -> "failed"
                                             [] creates[k] = "prefetching" -> "prefetched"
                                             [] OTHER -> creates[k]]
      BY DEF Lose
    <2> QED
      BY <2>1, <2>2 DEF CreatePlaces
  <1>4. disposal' \in DisposalRecord
    <2>1. CASE disposal.pc = "waiting" /\ disposal.chan = k
      <3>1. disposal \in ActiveDisposal
        BY <2>1, DisposalTyped DEF TypeOK
      <3>2. disposal' = [disposal EXCEPT !.pc = "replied"]
        BY <2>1 DEF Lose
      <3> QED
        BY <3>1, <3>2 DEF ActiveDisposal, DisposalRecord
    <2>2. CASE ~(disposal.pc = "waiting" /\ disposal.chan = k)
      BY <2>2 DEF Lose, TypeOK
    <2> QED
      BY <2>1, <2>2
  <1>5. message' \in [Deliveries -> {"ready", "unacked", "acked", "dropped"}]
    BY DEF Lose, TypeOK
  <1> QED
    BY <1>1, <1>2, <1>3, <1>4, <1>5

(* Where Cancel() leaves what it writes.                                   *)
LEMMA CancelTyped ==
  ASSUME TypeOK, NEW left \in SUBSET (Queues \X Runs), Cancel(left, channel)
  PROVE  /\ disposal' \in DisposalRecord
         /\ boundConsumers' \in [Queues -> Runs \cup {NoRun}]
         /\ generation' \in Nat
         /\ consumers' \in Seq(Queues)
         /\ channel' \in {channel, None}
  <1>1. CASE left = {}
    <2>1. /\ disposal' = [pc |-> "done"] /\ boundConsumers' = Unbound
          /\ generation' = generation + 1 /\ consumers' = <<>> /\ channel' = None
      BY <1>1 DEF Cancel
    <2> QED
      BY <2>1 DEF DisposalRecord, Unbound, TypeOK
  <1>2. CASE left # {}
    <2>1. UNCHANGED <<boundConsumers, generation, consumers, channel>>
      BY <1>2 DEF Cancel
    <2>2. disposal' \in DisposalRecord
      <3>1. (CHOOSE x \in left : TRUE) \in Queues \X Runs
        BY <1>2
      <3>2. CASE channel = None
        BY <1>2, <3>2 DEF Cancel, DisposalRecord
      <3>3. CASE channel # None
        <4>1. channel \in Channels
          BY <3>3 DEF TypeOK
        <4> QED
          BY <1>2, <3>1, <3>3, <4>1 DEF Cancel, DisposalRecord
      <3> QED
        BY <3>2, <3>3
    <2> QED
      BY <2>1, <2>2 DEF TypeOK
  <1> QED
    BY <1>1, <1>2

-----------------------------------------------------------------------------
(* The first state has the types.                                          *)
LEMMA InitTyped == Init => TypeOK
  <1> SUFFICES ASSUME Init PROVE TypeOK
    OBVIOUS
  <1>1. /\ channel \in Channels \cup {None}
        /\ buffer \in Seq(Messages) /\ accepted \in Seq(Messages) /\ wire \in Seq(Messages)
        /\ consumers \in Seq(Queues) /\ generation \in Nat
        /\ boundConsumers \in [Queues -> Runs \cup {NoRun}]
    BY DEF Init, Unbound
  <1>2. binders \in [Runs -> BinderRecord]
    BY DEF Init, BinderRecord
  <1>3. disposal \in DisposalRecord
    BY DEF Init, DisposalRecord
  <1>4. /\ prefetch \in Prefetches \cup {0} /\ qos \in [Channels -> Prefetches \cup {0}]
        /\ creates \in [Channels -> CreatePlaces] /\ lastTag \in [Channels -> Nat]
        /\ message \in [Deliveries -> {"ready", "unacked", "acked", "dropped"}]
    BY DEF Init, CreatePlaces
  <1> QED
    BY <1>1, <1>2, <1>3, <1>4 DEF Init, TypeOK, CreatePlaces

(* The parts of the state and their types.                                 *)
PublishTyped ==
  buffer \in Seq(Messages) /\ accepted \in Seq(Messages) /\ wire \in Seq(Messages)

LinksTyped ==
  /\ channel \in Channels \cup {None}
  /\ up \subseteq Channels /\ open \subseteq up
  /\ creates \in [Channels -> CreatePlaces]
  /\ disposal \in DisposalRecord

BindingTyped ==
  /\ consumers \in Seq(Queues)
  /\ boundConsumers \in [Queues -> Runs \cup {NoRun}]
  /\ generation \in Nat
  /\ binders \in [Runs -> BinderRecord]

CountsTyped ==
  /\ prefetch \in Prefetches \cup {0} /\ qos \in [Channels -> Prefetches \cup {0}]
  /\ missed \subseteq Channels

BrokerTyped ==
  /\ subs \subseteq [by : Runs, queue : Queues, chan : Channels] /\ cancelled \subseteq subs
  /\ message \in [Deliveries -> {"ready", "unacked", "acked", "dropped"}]
  /\ unacked \subseteq [chan : Channels, tag : Nat, d : Deliveries]
  /\ lastTag \in [Channels -> Nat]

WorkTyped ==
  /\ jobs \subseteq [chan : Channels, tag : Nat, d : Deliveries]
  /\ succeeded \subseteq Deliveries /\ rejected \subseteq Deliveries

(* TypeOK by groups of variables, so that a step shows only those it       *)
(* changes.                                                                *)
LEMMA TypeParts ==
  TypeOK <=> /\ PublishTyped /\ LinksTyped /\ BindingTyped
             /\ CountsTyped /\ BrokerTyped /\ WorkTyped
  BY DEF TypeOK, PublishTyped, LinksTyped, BindingTyped, CountsTyped, BrokerTyped, WorkTyped,
         CreatePlaces

(* The same for the next state.                                            *)
LEMMA TypePartsNext ==
  TypeOK' <=> /\ PublishTyped' /\ LinksTyped' /\ BindingTyped'
              /\ CountsTyped' /\ BrokerTyped' /\ WorkTyped'
  BY DEF TypeOK, PublishTyped, LinksTyped, BindingTyped, CountsTyped, BrokerTyped, WorkTyped,
         CreatePlaces

(* A part that does not change keeps its types.                            *)
LEMMA PartsKept ==
  ASSUME TypeOK
  PROVE  /\ UNCHANGED publishing => PublishTyped'
         /\ UNCHANGED <<channel, links, disposal>> => LinksTyped'
         /\ UNCHANGED binding => BindingTyped'
         /\ UNCHANGED counts => CountsTyped'
         /\ UNCHANGED broker => BrokerTyped'
         /\ UNCHANGED work => WorkTyped'
  <1> USE TypeParts
  <1>1. UNCHANGED publishing => PublishTyped'
    BY DEF publishing, PublishTyped
  <1>2. UNCHANGED <<channel, links, disposal>> => LinksTyped'
    BY DEF links, LinksTyped
  <1>3. UNCHANGED binding => BindingTyped'
    BY DEF binding, BindingTyped
  <1>4. UNCHANGED counts => CountsTyped'
    BY DEF counts, CountsTyped
  <1>5. UNCHANGED broker => BrokerTyped'
    BY DEF broker, BrokerTyped
  <1>6. UNCHANGED work => WorkTyped'
    BY DEF work, WorkTyped
  <1> QED
    BY <1>1, <1>2, <1>3, <1>4, <1>5, <1>6

-----------------------------------------------------------------------------
(* Types, step by step: the calls of the application;                      *)
LEMMA ApplicationTyped ==
  ASSUME TypeOK,
         \/ \E m \in Messages : SendToQueue(m)
         \/ \E n \in Prefetches : Prefetch(n)
         \/ \E q \in Queues : Consume(q)
  PROVE  TypeOK'
  <1> USE TypeParts, TypePartsNext, PartsKept
  <1>1. ASSUME NEW m \in Messages, SendToQueue(m) PROVE TypeOK'
    <2>1. PublishTyped'
      <3>1. /\ buffer' \in {buffer, Append(buffer, m)} /\ wire' \in {wire, Append(wire, m)}
            /\ accepted' = Append(accepted, m)
        BY <1>1 DEF SendToQueue
      <3>2. \A s \in Seq(Messages) : Append(s, m) \in Seq(Messages)
        BY AppendProperties
      <3> QED
        BY <3>1, <3>2 DEF PublishTyped
    <2> QED
      BY <1>1, <2>1 DEF SendToQueue
  <1>2. ASSUME NEW n \in Prefetches, Prefetch(n) PROVE TypeOK'
    <2>1. CountsTyped'
      BY <1>2 DEF Prefetch, CountsTyped
    <2> QED
      BY <1>2, <2>1 DEF Prefetch
  <1>3. ASSUME NEW q \in Queues, Consume(q) PROVE TypeOK'
    <2>1. consumers' \in Seq(Queues)
      BY <1>3 DEF Consume, BindingTyped
    <2>2. Iterate(consumers', channel, boundConsumers) \in BinderRecord
      BY <2>1, IterateTyped DEF LinksTyped, BindingTyped
    <2>3. [pc |-> "done"] \in BinderRecord
      BY DEF BinderRecord
    <2>4. binders' \in [Runs -> BinderRecord]
      BY <1>3, <2>2, <2>3 DEF Consume, BindingTyped
    <2>5. BindingTyped'
      BY <1>3, <2>1, <2>4 DEF Consume, BindingTyped
    <2> QED
      BY <1>3, <2>5 DEF Consume
  <1> QED
    BY <1>1, <1>2, <1>3

(* the continuations of bindConsumers;                                     *)
LEMMA BindersTyped ==
  ASSUME TypeOK, NEW b \in Runs, ConsumeOk(b) \/ BindContinue(b) \/ ConsumeRefused(b)
  PROVE  TypeOK'
  <1> USE TypeParts, TypePartsNext, PartsKept
  <1>0. binders[b] \in ActiveRecord
    BY ActiveTyped DEF BindingTyped, ConsumeOk, BindContinue, ConsumeRefused
  <1>1. CASE ConsumeOk(b)
    <2>1. [binders[b] EXCEPT !.pc = "replied"] \in BinderRecord
      BY <1>0 DEF ActiveRecord, BinderRecord
    <2>2. BindingTyped'
      BY <1>1, <2>1 DEF ConsumeOk, BindingTyped
    <2>3. BrokerTyped'
      BY <1>0, <1>1 DEF ConsumeOk, BrokerTyped, ActiveRecord
    <2> QED
      BY <1>1, <2>2, <2>3 DEF ConsumeOk
  <1>2. CASE BindContinue(b)
    <2>1. PICK stored : /\ stored \in {[boundConsumers EXCEPT ![binders[b].queue] = b], boundConsumers}
                        /\ boundConsumers' = stored
                        /\ binders' = [binders EXCEPT ![b] = Iterate(binders[b].keys, channel, stored)]
      BY <1>2 DEF BindContinue
    <2>2. boundConsumers' \in [Queues -> Runs \cup {NoRun}]
      BY <1>0, <2>1 DEF BindingTyped, ActiveRecord
    <2>3. binders[b].keys \in Seq(Queues)
      BY <1>0 DEF ActiveRecord
    <2>4. Iterate(binders[b].keys, channel, stored) \in BinderRecord
      BY <2>3, IterateTyped DEF LinksTyped, BindingTyped
    <2>5. BindingTyped'
      BY <1>2, <2>1, <2>2, <2>4 DEF BindContinue, BindingTyped
    <2> QED
      BY <1>2, <2>5 DEF BindContinue
  <1>3. CASE ConsumeRefused(b)
    <2>1. binders[b].chan \in Channels /\ Lose(binders[b].chan)
      BY <1>0, <1>3 DEF ActiveRecord, ConsumeRefused
    <2>2. LinksTyped' /\ BindingTyped' /\ BrokerTyped'
      BY <1>3, <2>1, LoseTyped DEF ConsumeRefused, LinksTyped, BindingTyped, BrokerTyped
    <2> QED
      BY <1>3, <2>2 DEF ConsumeRefused
  <1> QED
    BY <1>1, <1>2, <1>3

(* A reply that create() waits for comes from a connection that is up, so  *)
(* that a channel opens only on such a connection.                         *)
AwaitedUp ==
  \A k \in Channels : creates[k] \in {"opening", "prefetching"} => k \in up

(* the steps of a connection and of create();                              *)
LEMMA CreatesTyped ==
  ASSUME TypeOK, AwaitedUp, NEW k \in Channels,
         \/ Connect(k) \/ ChannelOpened(k) \/ PrefetchReplied(k)
         \/ SetPrefetch(k) \/ Attach(k) \/ ConnectionCloses(k)
  PROVE  TypeOK'
  <1> USE TypeParts, TypePartsNext, PartsKept
  <1>1. CASE Connect(k)
    <2>1. LinksTyped'
      BY <1>1 DEF Connect, LinksTyped, CreatePlaces
    <2> QED
      BY <1>1, <2>1 DEF Connect
  <1>2. CASE ChannelOpened(k)
    <2>1. k \in up
      BY <1>2 DEF ChannelOpened, AwaitedUp
    <2>2. LinksTyped'
      BY <1>2, <2>1 DEF ChannelOpened, LinksTyped, CreatePlaces
    <2> QED
      BY <1>2, <2>2 DEF ChannelOpened
  <1>3. CASE PrefetchReplied(k)
    <2>1. LinksTyped'
      BY <1>3 DEF PrefetchReplied, LinksTyped, CreatePlaces
    <2> QED
      BY <1>3, <2>1 DEF PrefetchReplied
  <1>4. CASE SetPrefetch(k)
    <2>1. LinksTyped'
      BY <1>4 DEF SetPrefetch, LinksTyped, CreatePlaces
    <2>2. CountsTyped'
      BY <1>4 DEF SetPrefetch, CountsTyped
    <2> QED
      BY <1>4, <2>1, <2>2 DEF SetPrefetch
  <1>5. CASE Attach(k)
    <2>1. LinksTyped'
      BY <1>5 DEF Attach, LinksTyped, CreatePlaces
    <2>2. PublishTyped'
      <3>1. /\ buffer' \in {buffer, <<>>} /\ wire' \in {wire, wire \o buffer}
            /\ UNCHANGED accepted
        BY <1>5 DEF Attach
      <3>2. <<>> \in Seq(Messages) /\ \A s, t \in Seq(Messages) : s \o t \in Seq(Messages)
        BY ConcatProperties
      <3> QED
        BY <3>1, <3>2 DEF PublishTyped
    <2>3. Iterate(consumers, k, boundConsumers) \in BinderRecord
      BY IterateTyped DEF LinksTyped, BindingTyped
    <2>4. binders' \in [Runs -> BinderRecord]
      BY <1>5, <2>3 DEF Attach, BindingTyped
    <2>5. BindingTyped'
      BY <1>5, <2>4 DEF Attach, BindingTyped
    <2> QED
      BY <1>5, <2>1, <2>2, <2>5 DEF Attach
  <1>6. CASE ConnectionCloses(k)
    <2>1. Lose(k)
      BY <1>6 DEF ConnectionCloses
    <2>2. open' \subseteq up'
      BY <1>6 DEF ConnectionCloses, Lose, LinksTyped
    <2>3. LinksTyped'
      BY <1>6, <2>1, <2>2, LoseTyped DEF ConnectionCloses, LinksTyped
    <2>4. Unbound \in [Queues -> Runs \cup {NoRun}]
      BY DEF Unbound
    <2>5. BindingTyped' /\ BrokerTyped'
      BY <1>6, <2>1, <2>4, LoseTyped DEF ConnectionCloses, BindingTyped, BrokerTyped
    <2> QED
      BY <1>6, <2>3, <2>5 DEF ConnectionCloses
  <1> QED
    BY <1>1, <1>2, <1>3, <1>4, <1>5, <1>6

(* a delivery;                                                             *)
LEMMA DeliverTyped ==
  ASSUME TypeOK, NEW s \in subs, NEW d \in Deliveries, Deliver(s, d)
  PROVE  TypeOK'
  <1> USE TypeParts, TypePartsNext, PartsKept
  <1> DEFINE tag == lastTag[s.chan] + 1
  <1>1. s.chan \in Channels /\ tag \in Nat
    BY DEF BrokerTyped
  <1>2. [chan |-> s.chan, tag |-> tag, d |-> d] \in [chan : Channels, tag : Nat, d : Deliveries]
    BY <1>1
  <1>3. BrokerTyped'
    BY <1>1, <1>2 DEF Deliver, BrokerTyped
  <1>4. WorkTyped'
    BY <1>2 DEF Deliver, WorkTyped
  <1> QED
    BY <1>3, <1>4 DEF Deliver

(* a cancel of the broker;                                                 *)
LEMMA BrokerCancelsTyped ==
  ASSUME TypeOK, NEW s \in subs, BrokerCancels(s)
  PROVE  TypeOK'
  <1> USE TypeParts, TypePartsNext, PartsKept
  <1>1. BrokerTyped'
    BY DEF BrokerCancels, BrokerTyped
  <1> QED
    BY <1>1 DEF BrokerCancels

(* the end of a consumer, with its ack or nack;                            *)
LEMMA FinishTyped ==
  ASSUME TypeOK, NEW j \in jobs, NEW outcome \in {"acked", "dropped", "ready"}, Finish(j, outcome),
         succeeded' \subseteq Deliveries, rejected' \subseteq Deliveries
  PROVE  TypeOK'
  <1> USE TypeParts, TypePartsNext, PartsKept
  <1>1. jobs' \subseteq jobs /\ UNCHANGED <<channel, publishing, consumers, boundConsumers,
                                            generation, counts, up>> /\ Answer(j.tag, outcome)
    BY DEF Finish
  <1>2. WorkTyped'
    BY <1>1 DEF WorkTyped
  <1>3. CASE channel \notin open
    <2>1. UNCHANGED <<open, binders, creates, disposal, broker>>
      BY <1>1, <1>3 DEF Answer
    <2> QED
      BY <1>1, <1>2, <2>1 DEF binding, links
  <1>4. CASE channel \in open /\ Lose(channel)
    <2>1. channel \in Channels
      BY <1>4 DEF LinksTyped
    <2>2. LinksTyped' /\ BindingTyped' /\ BrokerTyped'
      BY <1>1, <1>4, <2>1, LoseTyped DEF LinksTyped, BindingTyped, BrokerTyped
    <2> QED
      BY <1>1, <1>2, <2>2
  <1>5. CASE channel \in open /\ ~Lose(channel)
    <2>1. PICK answered : /\ unacked' = unacked \ answered
                          /\ message' = [e \in Deliveries |->
                                           IF \E u \in answered : u.d = e THEN outcome ELSE message[e]]
                          /\ UNCHANGED <<open, binders, creates, disposal, subs, cancelled, lastTag>>
      BY <1>1, <1>5 DEF Answer
    <2>2. BrokerTyped'
      BY <2>1 DEF BrokerTyped
    <2> QED
      BY <1>1, <1>2, <2>1, <2>2 DEF binding, links
  <1> QED
    BY <1>3, <1>4, <1>5

(* and dispose().                                                          *)
LEMMA DisposalStepsTyped ==
  ASSUME TypeOK, Dispose \/ CancelOk \/ DisposeContinue
  PROVE  TypeOK'
  <1> USE TypeParts, TypePartsNext, PartsKept
  <1>1. CASE CancelOk
    <2>1. disposal \in ActiveDisposal
      BY <1>1, DisposalTyped DEF CancelOk, LinksTyped
    <2>2. disposal' = [disposal EXCEPT !.pc = "replied"]
      BY <1>1 DEF CancelOk
    <2>3. disposal' \in DisposalRecord
      BY <2>1, <2>2 DEF ActiveDisposal, DisposalRecord
    <2>4. LinksTyped'
      BY <1>1, <2>3 DEF CancelOk, LinksTyped, links
    <2>5. BrokerTyped'
      BY <1>1 DEF CancelOk, BrokerTyped
    <2> QED
      BY <1>1, <2>4, <2>5 DEF CancelOk
  <1>2. CASE Dispose \/ DisposeContinue
    <2>1. PICK left \in SUBSET (Queues \X Runs) : Cancel(left, channel)
      <3>1. CASE Dispose /\ channel = None
        BY <1>2, <3>1 DEF Dispose
      <3>2. CASE Dispose /\ channel # None
        <4>1. Cancel({<<q, boundConsumers[q]>> :
                        q \in {x \in Queues : boundConsumers[x] # NoRun}}, channel)
          BY <3>2 DEF Dispose
        <4>2. {<<q, boundConsumers[q]>> : q \in {x \in Queues : boundConsumers[x] # NoRun}}
                \in SUBSET (Queues \X Runs)
          BY DEF BindingTyped
        <4> QED
          BY <4>1, <4>2
      <3>3. CASE DisposeContinue
        <4>1. disposal \in ActiveDisposal
          BY <3>3, DisposalTyped DEF DisposeContinue, LinksTyped
        <4>2. disposal.left \ {disposal.next} \in SUBSET (Queues \X Runs)
          BY <4>1 DEF ActiveDisposal
        <4> QED
          BY <3>3, <4>2 DEF DisposeContinue
      <3> QED
        BY <1>2, <3>1, <3>2, <3>3
    <2>2. UNCHANGED <<publishing, binders, counts, links, broker, work>>
      BY <1>2 DEF Dispose, DisposeContinue
    <2>3. LinksTyped'
      BY <2>1, <2>2, CancelTyped DEF LinksTyped, links
    <2>4. BindingTyped'
      BY <2>1, <2>2, CancelTyped DEF BindingTyped
    <2> QED
      BY <2>2, <2>3, <2>4
  <1> QED
    BY <1>1, <1>2

-----------------------------------------------------------------------------
(* A reply of createChannel() or prefetch() is awaited only on a           *)
(* connection that is up, since a close settles it.                        *)
LEMMA AwaitedKept ==
  ASSUME TypeOK, AwaitedUp, Next
  PROVE  AwaitedUp'
  <1> USE DEF AwaitedUp
  <1>0. creates \in [Channels -> CreatePlaces] /\ open \subseteq up
    BY DEF TypeOK, CreatePlaces
  <1>1. ASSUME NEW k, Lose(k), UNCHANGED up \/ up' = up \ {k} PROVE AwaitedUp'
    <2>1. \A j \in Channels : \/ j # k /\ creates'[j] = creates[j]
                              \/ creates'[j] \notin {"opening", "prefetching"}
      BY <1>0, <1>1 DEF Lose
    <2> QED
      BY <1>1, <2>1
  <1>2. ASSUME NEW m \in Messages, SendToQueue(m) PROVE AwaitedUp'
    BY <1>2 DEF SendToQueue, links
  <1>3. ASSUME NEW n \in Prefetches, Prefetch(n) PROVE AwaitedUp'
    BY <1>3 DEF Prefetch, links
  <1>4. ASSUME NEW q \in Queues, Consume(q) PROVE AwaitedUp'
    BY <1>4 DEF Consume, links
  <1>5. ASSUME NEW b \in Runs, ConsumeOk(b) \/ BindContinue(b) PROVE AwaitedUp'
    BY <1>5 DEF ConsumeOk, BindContinue, links
  <1>6. ASSUME NEW b \in Runs, ConsumeRefused(b) PROVE AwaitedUp'
    BY <1>1, <1>6 DEF ConsumeRefused
  <1>7. ASSUME NEW k \in Channels, Connect(k) PROVE AwaitedUp'
    BY <1>0, <1>7 DEF Connect
  <1>8. ASSUME NEW k \in Channels, ChannelOpened(k) \/ PrefetchReplied(k) PROVE AwaitedUp'
    BY <1>0, <1>8 DEF ChannelOpened, PrefetchReplied
  <1>9. ASSUME NEW k \in Channels, SetPrefetch(k) PROVE AwaitedUp'
    BY <1>0, <1>9 DEF SetPrefetch
  <1>10. ASSUME NEW k \in Channels, Attach(k) PROVE AwaitedUp'
    BY <1>0, <1>10 DEF Attach
  <1>11. ASSUME NEW k \in Channels, ConnectionCloses(k) PROVE AwaitedUp'
    BY <1>1, <1>11 DEF ConnectionCloses
  <1>12. ASSUME NEW s \in subs, NEW d \in Deliveries, Deliver(s, d) PROVE AwaitedUp'
    BY <1>12 DEF Deliver, links
  <1>13. ASSUME NEW j \in jobs, NEW outcome, Finish(j, outcome) PROVE AwaitedUp'
    <2>1. UNCHANGED up /\ (UNCHANGED creates \/ Lose(channel))
      BY <1>13 DEF Finish, Answer
    <2> QED
      BY <1>1, <2>1
  <1>14. CASE Dispose \/ CancelOk \/ DisposeContinue
    BY <1>14 DEF Dispose, CancelOk, DisposeContinue, links
  <1>15. ASSUME NEW s \in subs, BrokerCancels(s) PROVE AwaitedUp'
    BY <1>15 DEF BrokerCancels, links
  <1> QED
    BY <1>2, <1>3, <1>4, <1>5, <1>6, <1>7, <1>8, <1>9, <1>10, <1>11, <1>12, <1>13, <1>14, <1>15
       DEF Next, JobSucceeds, JobRejects, JobFails

(* Every step keeps the types.                                             *)
LEMMA TypeStep ==
  ASSUME TypeOK, AwaitedUp, Next
  PROVE  TypeOK'
  <1>1. ASSUME NEW b \in Runs, ConsumeOk(b) \/ BindContinue(b) \/ ConsumeRefused(b)
        PROVE  TypeOK'
    BY <1>1, BindersTyped
  <1>2. ASSUME NEW k \in Channels,
               \/ Connect(k) \/ ChannelOpened(k) \/ PrefetchReplied(k)
               \/ SetPrefetch(k) \/ Attach(k) \/ ConnectionCloses(k)
        PROVE  TypeOK'
    BY <1>2, CreatesTyped
  <1>3. ASSUME NEW s \in subs, NEW d \in Deliveries, Deliver(s, d) PROVE TypeOK'
    BY <1>3, DeliverTyped
  <1>4. ASSUME NEW j \in jobs, JobSucceeds(j) \/ JobRejects(j) \/ JobFails(j) PROVE TypeOK'
    <2>1. /\ j.d \in Deliveries /\ succeeded \subseteq Deliveries /\ rejected \subseteq Deliveries
      BY DEF TypeOK
    <2>2. succeeded' \subseteq Deliveries /\ rejected' \subseteq Deliveries
      BY <1>4, <2>1 DEF JobSucceeds, JobRejects, JobFails
    <2> QED
      BY <1>4, <2>2, FinishTyped DEF JobSucceeds, JobRejects, JobFails
  <1> QED
    BY <1>1, <1>2, <1>3, <1>4, ApplicationTyped, BrokerCancelsTyped, DisposalStepsTyped DEF Next

(* The variables keep their types, with no channel open on a connection    *)
(* that is down.                                                           *)
THEOREM TypesKept == Spec => []TypeOK
  <1> DEFINE TypeInv == TypeOK /\ AwaitedUp
  <1>1. Init => TypeInv
    BY InitTyped DEF Init, AwaitedUp
  <1>2. TypeInv /\ [Next]_vars => TypeInv'
    <2>1. TypeInv /\ Next => TypeInv'
      BY TypeStep, AwaitedKept
    <2>2. TypeInv /\ UNCHANGED vars => TypeInv'
      <3> SUFFICES ASSUME TypeInv, UNCHANGED vars PROVE TypeInv'
        OBVIOUS
      <3>1. TypeOK'
        BY TypeParts, TypePartsNext, PartsKept DEF vars
      <3>2. AwaitedUp'
        BY DEF vars, links, AwaitedUp
      <3> QED
        BY <3>1, <3>2
    <2> QED
      BY <2>1, <2>2
  <1>3. TypeInv => TypeOK
    OBVIOUS
  <1> QED
    BY <1>1, <1>2, <1>3, PTL DEF Spec

-----------------------------------------------------------------------------
(* Publishing.  create() makes a channel the current one in its last step, *)
(* so no channel opens while it is current; and an open current channel    *)
(* has nothing buffered behind it, which is why writing directly to it     *)
(* keeps the order.                                                        *)
AttachedLast == channel # None => creates[channel] \in {"attached", "failed"}

NothingBehind == channel \in open => buffer = <<>>

PublishInv == AttachedLast /\ NothingBehind /\ PublishedInOrder

(* CHOOSE gives a value outside of the connections.                        *)
LEMMA NoneIsNoChannel == None \notin Channels
  BY DEF None, Channels

(* What the loss of a channel does to create().                            *)
LEMMA LoseCreates ==
  ASSUME TypeOK, NEW k, Lose(k)
  PROVE  /\ creates' \in [Channels -> CreatePlaces]
         /\ \A j \in Channels :
              \/ creates'[j] = creates[j]
              \/ creates[j] = "opening" /\ creates'[j] = "failed"
              \/ creates[j] = "prefetching" /\ creates'[j] = "prefetched"
  <1>0. creates \in [Channels -> CreatePlaces]
    BY DEF TypeOK, CreatePlaces
  <1>1. creates' = [creates EXCEPT ![k] = CASE creates[k] = "opening" -> "failed"
                                            [] creates[k] = "prefetching" -> "prefetched"
                                            [] OTHER -> creates[k]]
    BY DEF Lose
  <1> QED
    BY <1>0, <1>1 DEF CreatePlaces

(* A step that writes, buffers and attaches nothing keeps the invariant if *)
(* no channel opens but one that create() has not attached yet.            *)
LEMMA Elsewhere ==
  ASSUME TypeOK, PublishInv, UNCHANGED publishing, channel' \in {channel, None},
         \A k \in open' : k \in open \/ (k \in Channels /\ creates[k] = "opening"),
         \A j \in Channels : creates[j] \in {"attached", "failed"} => creates'[j] = creates[j]
  PROVE  PublishInv'
  <1> USE DEF PublishInv
  <1>1. UNCHANGED <<buffer, accepted, wire>>
    BY DEF publishing
  <1>2. AttachedLast'
    BY NoneIsNoChannel DEF AttachedLast, TypeOK
  <1>3. NothingBehind'
    BY <1>1, NoneIsNoChannel DEF NothingBehind, AttachedLast, TypeOK
  <1>4. PublishedInOrder'
    BY <1>1 DEF PublishedInOrder
  <1> QED
    BY <1>2, <1>3, <1>4

(* The same for a step that does not touch the connections either.         *)
LEMMA OtherWork ==
  ASSUME TypeOK, PublishInv, UNCHANGED <<publishing, links>>, channel' \in {channel, None}
  PROVE  PublishInv'
  <1>1. UNCHANGED <<open, creates>>
    BY DEF links
  <1> QED
    BY <1>1, Elsewhere

(* And for one that loses a channel.                                       *)
LEMMA LostWork ==
  ASSUME TypeOK, PublishInv, UNCHANGED publishing, channel' \in {channel, None}, NEW k, Lose(k)
  PROVE  PublishInv'
  <1>1. open' \subseteq open
    BY DEF Lose
  <1> QED
    BY <1>1, LoseCreates, Elsewhere

(* Taking a message from the application.                                  *)
LEMMA SendKeeps ==
  ASSUME TypeOK, PublishInv, NEW m \in Messages, SendToQueue(m)
  PROVE  PublishInv'
  <1> USE DEF PublishInv
  <1>0. UNCHANGED <<channel, open, creates>>
    BY DEF SendToQueue, links
  <1>1. wire \in Seq(Messages) /\ buffer \in Seq(Messages) /\ <<m>> \in Seq(Messages)
    BY DEF TypeOK
  <1>2. accepted' = (wire \o buffer) \o <<m>>
    BY <1>1, AppendIsConcat, ConcatProperties DEF SendToQueue, PublishedInOrder
  <1>3. CASE channel = None /\ buffer' = Append(buffer, m) /\ UNCHANGED wire
    <2>1. buffer' = buffer \o <<m>>
      BY <1>1, <1>3, AppendIsConcat
    <2>2. accepted' = wire' \o buffer'
      BY <1>1, <1>2, <1>3, <2>1, ConcatAssociative
    <2> QED
      BY <1>0, <1>3, <2>2, NoneIsNoChannel
         DEF TypeOK, AttachedLast, NothingBehind, PublishedInOrder
  <1>4. CASE channel \in open /\ wire' = Append(wire, m) /\ UNCHANGED buffer
    <2>1. buffer = <<>> /\ buffer' = <<>>
      BY <1>4 DEF NothingBehind
    <2>2. wire' = wire \o <<m>> /\ wire' \in Seq(Messages)
      BY <1>1, <1>4, AppendIsConcat, AppendProperties
    <2>3. accepted' = wire' \o buffer'
      BY <1>1, <1>2, <2>1, <2>2, ConcatEmptySeq
    <2> QED
      BY <1>0, <2>1, <2>3 DEF AttachedLast, NothingBehind, PublishedInOrder
  <1> QED
    BY <1>3, <1>4 DEF SendToQueue

(* The flush moves the whole buffer behind what was written.               *)
LEMMA AttachKeeps ==
  ASSUME TypeOK, PublishInv, NEW k \in Channels, Attach(k)
  PROVE  PublishInv'
  <1> USE DEF PublishInv
  <1>1. channel' = k /\ UNCHANGED <<accepted, open>>
    BY DEF Attach
  <1>2. CASE buffer # <<>> /\ k \notin open
    <2>1. creates' = [creates EXCEPT ![k] = "failed"] /\ UNCHANGED <<buffer, wire>>
      BY <1>2 DEF Attach
    <2> QED
      BY <1>1, <1>2, <2>1 DEF TypeOK, AttachedLast, NothingBehind, PublishedInOrder
  <1>3. CASE ~(buffer # <<>> /\ k \notin open)
    <2>1. /\ creates' = [creates EXCEPT ![k] = "attached"]
          /\ wire' = wire \o buffer /\ buffer' = <<>>
      BY <1>3 DEF Attach
    <2>2. wire' \o buffer' = wire'
      BY <2>1, ConcatProperties, ConcatEmptySeq DEF TypeOK
    <2> QED
      BY <1>1, <2>1, <2>2 DEF TypeOK, AttachedLast, NothingBehind, PublishedInOrder
  <1> QED
    BY <1>2, <1>3

(* The steps of a connection.                                              *)
LEMMA LinkKeeps ==
  ASSUME TypeOK, PublishInv, NEW k \in Channels,
         Connect(k) \/ ChannelOpened(k) \/ PrefetchReplied(k) \/ SetPrefetch(k)
  PROVE  PublishInv'
  <1>1. creates \in [Channels -> CreatePlaces] /\ open \subseteq Channels
    BY DEF TypeOK, CreatePlaces
  <1>2. /\ UNCHANGED <<channel, publishing>> /\ creates[k] \notin {"attached", "failed"}
        /\ \A j \in Channels : j # k => creates'[j] = creates[j]
        /\ \A j \in open' : j \in open \/ (j = k /\ creates[k] = "opening")
    BY <1>1 DEF Connect, ChannelOpened, PrefetchReplied, SetPrefetch
  <1> QED
    BY <1>2, Elsewhere

(* Every step keeps the invariant of publishing.                           *)
LEMMA PublishStep ==
  ASSUME TypeOK, PublishInv, [Next]_vars
  PROVE  PublishInv'
  <1>1. ASSUME NEW n \in Prefetches, Prefetch(n) PROVE PublishInv'
    BY <1>1, OtherWork DEF Prefetch
  <1>2. ASSUME NEW q \in Queues, Consume(q) PROVE PublishInv'
    BY <1>2, OtherWork DEF Consume
  <1>3. ASSUME NEW b \in Runs, ConsumeOk(b) \/ BindContinue(b) PROVE PublishInv'
    BY <1>3, OtherWork DEF ConsumeOk, BindContinue
  <1>4. ASSUME NEW b \in Runs, ConsumeRefused(b) PROVE PublishInv'
    BY <1>4, LostWork DEF ConsumeRefused
  <1>5. ASSUME NEW k \in Channels, ConnectionCloses(k) PROVE PublishInv'
    BY <1>5, LostWork DEF ConnectionCloses
  <1>6. ASSUME NEW s \in subs, NEW d \in Deliveries, Deliver(s, d) PROVE PublishInv'
    BY <1>6, OtherWork DEF Deliver
  <1>7. ASSUME NEW j \in jobs, NEW outcome, Finish(j, outcome) PROVE PublishInv'
    <2>1. UNCHANGED <<channel, publishing, up>> /\ (UNCHANGED <<open, creates>> \/ Lose(channel))
      BY <1>7 DEF Finish, Answer
    <2> QED
      BY <2>1, LostWork, OtherWork DEF links
  <1>8. CASE Dispose \/ CancelOk \/ DisposeContinue
    <2>1. UNCHANGED <<publishing, links>> /\ channel' \in {channel, None}
      BY <1>8 DEF Dispose, CancelOk, DisposeContinue, Cancel
    <2> QED
      BY <2>1, OtherWork
  <1>9. CASE UNCHANGED vars
    BY <1>9, OtherWork DEF vars
  <1>10. ASSUME NEW s \in subs, BrokerCancels(s) PROVE PublishInv'
    BY <1>10, OtherWork DEF BrokerCancels
  <1> QED
    BY <1>1, <1>2, <1>3, <1>4, <1>5, <1>6, <1>7, <1>8, <1>9, <1>10, SendKeeps, AttachKeeps, LinkKeeps
       DEF Next, JobSucceeds, JobRejects, JobFails

(* So it holds always.                                                     *)
LEMMA PublishAlways == Spec => []PublishInv
  <1>1. Init => PublishInv
    <2> SUFFICES ASSUME Init PROVE PublishInv
      OBVIOUS
    <2>1. channel = None /\ buffer = <<>> /\ accepted = <<>> /\ wire = <<>> /\ open = {}
      BY DEF Init
    <2>2. <<>> \o <<>> = <<>>
      BY ConcatEmptySeq, EmptySeq
    <2> QED
      BY <2>1, <2>2 DEF PublishInv, AttachedLast, NothingBehind, PublishedInOrder
  <1>2. TypeOK /\ PublishInv /\ [Next]_vars => PublishInv'
    BY PublishStep
  <1> QED
    BY <1>1, <1>2, TypesKept, PTL DEF Spec

(* Whatever connections open and close, overlapping or not: what was taken *)
(* from the application is what was written, in that order and once,       *)
(* followed by what is still buffered.                                     *)
THEOREM PublishCorrect == Spec => []PublishedInOrder
  <1>1. PublishInv => PublishedInOrder
    BY DEF PublishInv
  <1> QED
    BY <1>1, PublishAlways, PTL

-----------------------------------------------------------------------------
(* Counts.  What create() has set on a channel is the last count, until    *)
(* one comes that misses the channel.                                      *)
CountSet ==
  /\ \A k \in open \ missed : creates[k] \in {"prefetching", "prefetched"} => qos[k] = prefetch
  /\ PrefetchApplied

(* The count, step by step: nothing opens, and the count is let alone;     *)
LEMMA CountAside ==
  ASSUME TypeOK, CountSet, UNCHANGED counts, open' \subseteq open, channel' \in {channel, None},
         \A k \in open' : creates'[k] = creates[k]
  PROVE  CountSet'
  <1>1. UNCHANGED <<prefetch, qos, missed>>
    BY DEF counts
  <1>2. None \notin open
    BY NoneIsNoChannel DEF TypeOK
  <1> QED
    BY <1>1, <1>2 DEF CountSet, PrefetchApplied

(* a channel is lost;                                                      *)
LEMMA CountLose ==
  ASSUME TypeOK, CountSet, UNCHANGED counts, NEW k, Lose(k), channel' \in {channel, None}
  PROVE  CountSet'
  <1>1. open' = open \ {k} /\ open \subseteq Channels
    BY DEF Lose, TypeOK
  <1>2. \A j \in open' : creates'[j] = creates[j]
    BY <1>1 DEF Lose, TypeOK
  <1> QED
    BY <1>1, <1>2, CountAside

(* create() goes on: it sets the count before it attaches the channel.     *)
LEMMA CountCreate ==
  ASSUME TypeOK, AttachedLast, CountSet, NEW k \in Channels,
         \/ Connect(k) \/ ChannelOpened(k) \/ PrefetchReplied(k)
         \/ SetPrefetch(k) \/ Attach(k)
  PROVE  CountSet'
  <1>0. /\ creates \in [Channels -> CreatePlaces] /\ open \subseteq Channels
        /\ qos \in [Channels -> Prefetches \cup {0}] /\ channel \in Channels \cup {None}
        /\ None \notin Channels
    BY NoneIsNoChannel DEF TypeOK, CreatePlaces
  <1>1. CASE Connect(k)
    BY <1>0, <1>1 DEF Connect, CountSet, PrefetchApplied, counts, AttachedLast
  <1>2. CASE ChannelOpened(k)
    BY <1>0, <1>2 DEF ChannelOpened, CountSet, PrefetchApplied, counts, AttachedLast
  <1>3. CASE PrefetchReplied(k)
    BY <1>0, <1>3 DEF PrefetchReplied, CountSet, PrefetchApplied, counts, AttachedLast
  <1>4. CASE SetPrefetch(k)
    BY <1>0, <1>4 DEF SetPrefetch, CountSet, PrefetchApplied, counts, AttachedLast
  <1>5. CASE Attach(k)
    BY <1>0, <1>5 DEF Attach, CountSet, PrefetchApplied, counts, AttachedLast
  <1> QED
    BY <1>1, <1>2, <1>3, <1>4, <1>5

(* A call of prefetch() sets the channel there is, or misses the one that  *)
(* create() is past the count with.                                        *)
LEMMA CountStep ==
  ASSUME TypeOK, AttachedLast, CountSet, [Next]_vars
  PROVE  CountSet'
  <1>1. CASE UNCHANGED <<channel, counts, links>>
    BY <1>1, CountAside DEF links
  <1>2. ASSUME NEW n \in Prefetches, Prefetch(n) PROVE CountSet'
    <2>1. /\ prefetch' = n /\ UNCHANGED <<channel, open, creates>>
          /\ missed' = (missed \ {channel})
                        \cup {k \in Channels : creates[k] \in {"prefetching", "prefetched"}}
          /\ channel \in open => qos'[channel] = n
      BY <1>2 DEF Prefetch, links, TypeOK
    <2>2. open \subseteq Channels
      BY DEF TypeOK
    <2> QED
      BY <2>1, <2>2 DEF CountSet, PrefetchApplied
  <1>3. ASSUME NEW m \in Messages, SendToQueue(m) PROVE CountSet'
    BY <1>1, <1>3 DEF SendToQueue
  <1>4. ASSUME NEW q \in Queues, Consume(q) PROVE CountSet'
    BY <1>1, <1>4 DEF Consume
  <1>5. ASSUME NEW b \in Runs, ConsumeOk(b) \/ BindContinue(b) PROVE CountSet'
    BY <1>1, <1>5 DEF ConsumeOk, BindContinue
  <1>6. ASSUME NEW b \in Runs, ConsumeRefused(b) PROVE CountSet'
    BY <1>6, CountLose DEF ConsumeRefused
  <1>7. ASSUME NEW k \in Channels, ConnectionCloses(k) PROVE CountSet'
    BY <1>7, CountLose DEF ConnectionCloses
  <1>8. ASSUME NEW s \in subs, NEW d \in Deliveries, Deliver(s, d) PROVE CountSet'
    BY <1>1, <1>8 DEF Deliver
  <1>9. ASSUME NEW j \in jobs, NEW outcome, Finish(j, outcome) PROVE CountSet'
    <2>1. UNCHANGED <<channel, counts, up>> /\ (UNCHANGED <<open, creates>> \/ Lose(channel))
      BY <1>9 DEF Finish, Answer
    <2> QED
      BY <1>1, <2>1, CountLose DEF links
  <1>10. CASE Dispose \/ CancelOk \/ DisposeContinue
    <2>1. UNCHANGED <<counts, open, creates>> /\ channel' \in {channel, None}
      BY <1>10 DEF Dispose, CancelOk, DisposeContinue, Cancel, links
    <2> QED
      BY <2>1, CountAside
  <1>11. CASE UNCHANGED vars
    BY <1>1, <1>11 DEF vars
  <1>12. ASSUME NEW s \in subs, BrokerCancels(s) PROVE CountSet'
    BY <1>1, <1>12 DEF BrokerCancels
  <1> QED
    BY <1>2, <1>3, <1>4, <1>5, <1>6, <1>7, <1>8, <1>9, <1>10, <1>11, <1>12, CountCreate
       DEF Next, JobSucceeds, JobRejects, JobFails

(* Whatever connections open and close, overlapping or not, and whatever   *)
(* counts the application passes at whatever moment: an attached channel   *)
(* works with the last count, unless that came while create() was past its *)
(* own prefetch() with an earlier one.                                     *)
THEOREM CountApplied == Spec => []PrefetchApplied
  <1>1. Init => CountSet
    BY NoneIsNoChannel DEF Init, CountSet, PrefetchApplied
  <1>2. TypeOK /\ PublishInv /\ CountSet /\ [Next]_vars => CountSet'
    BY CountStep DEF PublishInv
  <1>3. CountSet => PrefetchApplied
    BY DEF CountSet
  <1> QED
    BY <1>1, <1>2, <1>3, TypesKept, PublishAlways, PTL DEF Spec

-----------------------------------------------------------------------------
(* Connections.  A channel is open only behind the reply of createChannel(), *)
(* and the connections start one after the other.  With one connection at  *)
(* a time, the one that is up, and the one whose create() is under way, is *)
(* the latest.                                                             *)
Pending == {"opening", "opened", "prefetching", "prefetched"}

OpenedOnce == \A k \in open : creates[k] \notin {"none", "opening"}

StartedInOrder ==
  \A j, k \in Channels : j < k /\ creates[k] # "none" => creates[j] # "none"

Latest ==
  \A k \in Channels : k \in up \/ creates[k] \in Pending =>
    creates[k] # "none" /\ \A j \in Channels : creates[j] # "none" => j <= k

LinkInv == AwaitedUp /\ AttachedLast /\ OpenedOnce /\ StartedInOrder /\ Latest

(* Connections, step by step: a channel is lost, with or without its       *)
(* connection;                                                             *)
LEMMA LoseLinks ==
  ASSUME TypeOK, LinkInv, NEW k, Lose(k), up' \subseteq up, channel' \in {channel, None}
  PROVE  AttachedLast' /\ OpenedOnce' /\ StartedInOrder' /\ Latest'
  <1>1. open' \subseteq open /\ open \subseteq Channels
    BY DEF Lose, TypeOK
  <1>2. AttachedLast'
    BY LoseCreates, NoneIsNoChannel DEF TypeOK, LinkInv, AttachedLast
  <1>3. OpenedOnce'
    BY <1>1, LoseCreates DEF LinkInv, OpenedOnce
  <1>4. StartedInOrder'
    BY LoseCreates DEF LinkInv, StartedInOrder
  <1>5. Latest'
    BY LoseCreates DEF LinkInv, Latest, Pending
  <1> QED
    BY <1>2, <1>3, <1>4, <1>5

(* nothing happens to them;                                                *)
LEMMA StillLinks ==
  ASSUME TypeOK, LinkInv, UNCHANGED links, channel' \in {channel, None}
  PROVE  AttachedLast' /\ OpenedOnce' /\ StartedInOrder' /\ Latest'
  <1>1. UNCHANGED <<up, open, creates>>
    BY DEF links
  <1> QED
    BY <1>1 DEF LinkInv, AttachedLast, OpenedOnce, StartedInOrder, Latest

(* one begins, when none is up and no create() is under way;               *)
LEMMA ConnectLinks ==
  ASSUME TypeOK, LinkInv, ~Overlapping, NEW k \in Channels, Connect(k)
  PROVE  AttachedLast' /\ OpenedOnce' /\ StartedInOrder' /\ Latest'
  <1>1. /\ creates[k] = "none" /\ \A j \in Channels : j < k => creates[j] # "none"
        /\ up = {} /\ up' = {k} /\ UNCHANGED <<channel, open>>
        /\ creates' = [creates EXCEPT ![k] = "opening"]
        /\ \A j \in Channels \ {k} : creates[j] \notin {"opened", "prefetched"}
    BY DEF Connect, Drained
  <1>2. creates \in [Channels -> CreatePlaces] /\ open = {} /\ Channels \subseteq Int
        /\ channel \in Channels \cup {None}
    BY <1>1 DEF TypeOK, CreatePlaces, Channels
  <1>3. \A j \in Channels : creates[j] \notin Pending
    BY <1>1 DEF LinkInv, AwaitedUp, Pending
  <1>4. AttachedLast'
    BY <1>1, <1>2 DEF LinkInv, AttachedLast
  <1>5. OpenedOnce'
    BY <1>1, <1>2 DEF OpenedOnce
  <1>6. StartedInOrder'
    BY <1>1, <1>2 DEF LinkInv, StartedInOrder
  <1>7. ASSUME NEW j \in Channels, creates'[j] # "none"
        PROVE  j <= k
    BY <1>1, <1>2, <1>7 DEF LinkInv, StartedInOrder
  <1>8. Latest'
    BY <1>1, <1>2, <1>3, <1>7 DEF Latest
  <1> QED
    BY <1>4, <1>5, <1>6, <1>8

(* and create() goes on.                                                   *)
LEMMA CreateLinks ==
  ASSUME TypeOK, LinkInv, NEW k \in Channels,
         ChannelOpened(k) \/ PrefetchReplied(k) \/ SetPrefetch(k) \/ Attach(k)
  PROVE  AttachedLast' /\ OpenedOnce' /\ StartedInOrder' /\ Latest'
  <1>0. creates \in [Channels -> CreatePlaces] /\ open \subseteq up /\ up \subseteq Channels
        /\ channel \in Channels \cup {None}
    BY DEF TypeOK, CreatePlaces
  <1>1. PICK place \in CreatePlaces \ {"none", "opening"} :
          creates' = [creates EXCEPT ![k] = place]
    BY DEF ChannelOpened, PrefetchReplied, SetPrefetch, Attach, CreatePlaces
  <1>2. /\ up' = up /\ open' \subseteq open \cup {k}
        /\ creates[k] \in Pending
        /\ channel' = channel \/ (channel' = k /\ place \in {"attached", "failed"})
    BY <1>0, <1>1 DEF ChannelOpened, PrefetchReplied, SetPrefetch, Attach, Pending
  <1>3. AttachedLast'
    BY <1>0, <1>1, <1>2 DEF LinkInv, AttachedLast, Pending
  <1>4. OpenedOnce'
    BY <1>0, <1>1, <1>2 DEF LinkInv, OpenedOnce, Pending
  <1>5. StartedInOrder'
    BY <1>0, <1>1, <1>2 DEF LinkInv, StartedInOrder, Pending
  <1>6. Latest'
    BY <1>0, <1>1, <1>2 DEF LinkInv, Latest, Pending
  <1> QED
    BY <1>3, <1>4, <1>5, <1>6

(* Every step keeps what is said of connections.                           *)
LEMMA LinkStep ==
  ASSUME TypeOK, LinkInv, ~Overlapping, Next
  PROVE  LinkInv'
  <1>0. AwaitedUp'
    BY AwaitedKept DEF LinkInv
  <1> SUFFICES AttachedLast' /\ OpenedOnce' /\ StartedInOrder' /\ Latest'
    BY <1>0 DEF LinkInv
  <1>1. CASE UNCHANGED links /\ channel' \in {channel, None}
    BY <1>1, StillLinks
  <1>2. CASE \E k : Lose(k) /\ up' \subseteq up /\ channel' \in {channel, None}
    BY <1>2, LoseLinks
  <1>3. ASSUME NEW m \in Messages, SendToQueue(m) PROVE UNCHANGED <<links, channel>>
    BY <1>3 DEF SendToQueue
  <1>4. ASSUME NEW n \in Prefetches, Prefetch(n) PROVE UNCHANGED <<links, channel>>
    BY <1>4 DEF Prefetch
  <1>5. ASSUME NEW q \in Queues, Consume(q) PROVE UNCHANGED <<links, channel>>
    BY <1>5 DEF Consume
  <1>6. ASSUME NEW b \in Runs, ConsumeOk(b) \/ BindContinue(b) PROVE UNCHANGED <<links, channel>>
    BY <1>6 DEF ConsumeOk, BindContinue
  <1>7. ASSUME NEW b \in Runs, ConsumeRefused(b)
        PROVE  \E k : Lose(k) /\ up' \subseteq up /\ channel' \in {channel, None}
    BY <1>7 DEF ConsumeRefused
  <1>8. ASSUME NEW k \in Channels, ConnectionCloses(k)
        PROVE  \E l : Lose(l) /\ up' \subseteq up /\ channel' \in {channel, None}
    BY <1>8 DEF ConnectionCloses
  <1>9. ASSUME NEW s \in subs, NEW d \in Deliveries, Deliver(s, d) PROVE UNCHANGED <<links, channel>>
    BY <1>9 DEF Deliver
  <1>10. ASSUME NEW j \in jobs, NEW outcome, Finish(j, outcome)
         PROVE  \/ UNCHANGED <<links, channel>>
                \/ \E k : Lose(k) /\ up' \subseteq up /\ channel' \in {channel, None}
    BY <1>10 DEF Finish, Answer, links
  <1>11. CASE Dispose \/ CancelOk \/ DisposeContinue
    BY <1>1, <1>11 DEF Dispose, CancelOk, DisposeContinue, Cancel
  <1>12. ASSUME NEW s \in subs, BrokerCancels(s) PROVE UNCHANGED <<links, channel>>
    BY <1>12 DEF BrokerCancels
  <1> QED
    BY <1>1, <1>2, <1>3, <1>4, <1>5, <1>6, <1>7, <1>8, <1>9, <1>10, <1>11, <1>12,
       ConnectLinks, CreateLinks DEF Next, JobSucceeds, JobRejects, JobFails

(* One connection is up, and while its create() is under way the channel   *)
(* of the moment is not one that works.                                    *)
LEMMA OneAtATime ==
  ASSUME TypeOK, LinkInv
  PROVE  /\ \A j, k \in up : j = k
         /\ \A k \in Channels : creates[k] \in Pending => channel \notin up
  <1>1. \A j, k \in Channels : j <= k /\ k <= j => j = k
    BY DEF Channels
  <1>2. \A j, k \in up : j = k
    <2> SUFFICES ASSUME NEW j \in up, NEW k \in up PROVE j = k
      OBVIOUS
    <2>1. j \in Channels /\ k \in Channels
      BY DEF TypeOK
    <2>2. j <= k /\ k <= j
      BY <2>1 DEF LinkInv, Latest
    <2> QED
      BY <1>1, <2>1, <2>2
  <1>3. ASSUME NEW k \in Channels, creates[k] \in Pending, channel \in up PROVE FALSE
    <2>1. channel = k
      BY <1>1, <1>3 DEF TypeOK, LinkInv, Latest, Pending
    <2> QED
      BY <1>3, <2>1, NoneIsNoChannel DEF LinkInv, AttachedLast, Pending
  <1> QED
    BY <1>2, <1>3

-----------------------------------------------------------------------------
(* Binding, with one connection at a time.                                 *)
Active(b) == binders[b].pc \in {"waiting", "replied"}
Current(b) == Active(b) /\ binders[b].gen = generation
Binds(b, q) == q = binders[b].queue \/ q \in Range(binders[b].keys)
Sub(b) == [by |-> b, queue |-> binders[b].queue, chan |-> binders[b].chan]

(* A run starts once: with the attachment of its connection, or with the   *)
(* registration of its consumer.                                           *)
CreateRunsOnce ==
  \A k \in Channels : binders[CreateRun(k)].pc # "idle" => creates[k] = "attached"

ConsumeRunsOnce ==
  disposal.pc = "no" =>
    \A q \in Queues : binders[ConsumeRun(q)].pc # "idle" => q \in Range(consumers)

(* A run that waits does so on an open channel, and only a run that was    *)
(* overtaken by reset() writes to another object than the current one, or  *)
(* works on another channel.                                               *)
RunOK(b) ==
  Active(b) =>
    /\ binders[b].gen <= generation
    /\ creates[binders[b].chan] \in {"attached", "failed"}
    /\ binders[b].pc = "waiting" => binders[b].chan \in open
    /\ binders[b].gen = generation => binders[b].chan = channel /\ channel \in up

BoundUp == boundConsumers # Unbound => channel \in up

RunInv == CreateRunsOnce /\ ConsumeRunsOnce /\ BoundUp /\ \A b \in Runs : RunOK(b)

(* Until dispose(): the broker knows what it replied to and what is        *)
(* remembered as bound; and a consumer not bound yet is ahead of a run.    *)
RepliesKnown ==
  \A b \in Runs : binders[b].pc = "replied" /\ binders[b].chan \in open => Sub(b) \in subs

BoundKnown ==
  \A q \in Queues : boundConsumers[q] # NoRun =>
    [by |-> boundConsumers[q], queue |-> q, chan |-> channel] \in subs

UnboundAhead ==
  \A q \in Range(consumers) : boundConsumers[q] = NoRun => \E b \in Runs : Current(b) /\ Binds(b, q)

SubsInv ==
  disposal.pc = "no" => RepliesKnown /\ (channel \in open => BoundKnown /\ UnboundAhead)

BindInv == LinkInv /\ RunInv /\ SubsInv

(* What the steps rely on and leave.                                       *)
LEMMA RunsTyped ==
  ASSUME TypeOK
  PROVE  /\ binders \in [Runs -> BinderRecord]
         /\ \A b \in Runs : Active(b) => binders[b] \in ActiveRecord
         /\ \A k \in Channels : CreateRun(k) \in Runs
         /\ \A q \in Queues : ConsumeRun(q) \in Runs
         /\ \A k, j \in Channels : CreateRun(k) = CreateRun(j) => k = j
         /\ \A q, p \in Queues : ConsumeRun(q) = ConsumeRun(p) => q = p
         /\ \A k \in Channels, q \in Queues : CreateRun(k) # ConsumeRun(q)
  <1>1. binders \in [Runs -> BinderRecord]
    BY DEF TypeOK
  <1>2. \A b \in Runs : Active(b) => binders[b] \in ActiveRecord
    BY <1>1, ActiveTyped DEF Active
  <1> QED
    BY <1>1, <1>2 DEF Runs, CreateRun, ConsumeRun

(* A step of a connection that is not attached yet, or of anybody else.    *)
LEMMA AsideRuns ==
  ASSUME TypeOK, RunInv, SubsInv, AttachedLast, UNCHANGED <<channel, binding, disposal, subs>>,
         up \subseteq up', open \subseteq open', open' \subseteq Channels,
         \A j \in Channels : creates[j] \in {"attached", "failed"} =>
                               creates'[j] = creates[j] /\ (j \in open' => j \in open)
  PROVE  RunInv' /\ SubsInv'
  <1>1. UNCHANGED <<consumers, boundConsumers, generation, binders>>
    BY DEF binding
  <1>2. \A b \in Runs : Active(b) => binders[b].chan \in Channels
    BY RunsTyped DEF ActiveRecord
  <1>3. CreateRunsOnce' /\ ConsumeRunsOnce' /\ BoundUp'
    BY <1>1 DEF RunInv, CreateRunsOnce, ConsumeRunsOnce, BoundUp
  <1>4. \A b \in Runs : RunOK(b)'
    BY <1>1, <1>2 DEF RunInv, RunOK, Active
  <1>5. channel \in open' => channel \in open
    BY NoneIsNoChannel DEF AttachedLast, TypeOK
  <1>6. RepliesKnown => RepliesKnown'
    BY <1>1, <1>2 DEF RepliesKnown, Sub, RunInv, RunOK, Active
  <1>7. /\ BoundKnown => BoundKnown'
        /\ UnboundAhead => UnboundAhead'
    BY <1>1 DEF BoundKnown, UnboundAhead, Current, Active, Binds
  <1> QED
    BY <1>3, <1>4, <1>5, <1>6, <1>7 DEF RunInv, SubsInv

(* The loss of the channel of the connection that is up.                   *)
LEMMA LoseRuns ==
  ASSUME TypeOK, BindInv, NEW k \in up, Lose(k)
  PROVE  /\ open' = {}
         /\ \A b \in Runs : \/ binders'[b] = binders[b] /\ binders[b].pc # "waiting"
                            \/ Active(b) /\ binders'[b] = [pc |-> "failed"]
         /\ disposal.pc = "no" <=> disposal'.pc = "no"
         /\ \A j \in Channels : creates[j] \in {"attached", "failed"} => creates'[j] = creates[j]
  <1>1. open' = open \ {k} /\ open \subseteq up
    BY DEF Lose, TypeOK
  <1>2. open' = {}
    BY <1>1, OneAtATime DEF BindInv
  <1>3. \A b \in Runs : binders[b].pc = "waiting" => binders[b].chan = k
    BY <1>1, OneAtATime DEF BindInv, RunInv, RunOK, Active
  <1>4. \A b \in Runs : binders'[b] = IF binders[b].pc = "waiting" THEN [pc |-> "failed"] ELSE binders[b]
    BY <1>3 DEF Lose
  <1>5. disposal.pc = "no" <=> disposal'.pc = "no"
    <2>1. CASE disposal.pc = "waiting" /\ disposal.chan = k
      <3>1. disposal \in ActiveDisposal
        BY <2>1, DisposalTyped DEF TypeOK
      <3> QED
        BY <2>1, <3>1 DEF Lose, ActiveDisposal
    <2>2. CASE ~(disposal.pc = "waiting" /\ disposal.chan = k)
      BY <2>2 DEF Lose
    <2> QED
      BY <2>1, <2>2
  <1>6. \A j \in Channels : creates[j] \in {"attached", "failed"} => creates'[j] = creates[j]
    BY LoseCreates
  <1> QED
    BY <1>2, <1>4, <1>5, <1>6 DEF Active

(* Binding, step by step: a channel is lost while its connection stays;    *)
LEMMA LostRuns ==
  ASSUME TypeOK, BindInv, NEW k \in up, Lose(k),
         UNCHANGED <<channel, consumers, boundConsumers, generation, up>>
  PROVE  RunInv' /\ SubsInv'
  <1>1. \A b \in Runs : Active(b) => binders[b].chan \in Channels
    BY RunsTyped DEF ActiveRecord
  <1>2. CreateRunsOnce'
    BY LoseRuns, RunsTyped DEF BindInv, RunInv, CreateRunsOnce, Active
  <1>3. ConsumeRunsOnce'
    BY LoseRuns, RunsTyped DEF BindInv, RunInv, ConsumeRunsOnce, Active
  <1>4. \A b \in Runs : RunOK(b)'
    BY <1>1, LoseRuns DEF BindInv, RunInv, RunOK, Active
  <1>5. BoundUp'
    BY DEF BindInv, RunInv, BoundUp
  <1>6. SubsInv'
    BY LoseRuns DEF SubsInv, RepliesKnown
  <1> QED
    BY <1>2, <1>3, <1>4, <1>5, <1>6 DEF RunInv

(* the connection closes, and reset() replaces boundConsumers;             *)
LEMMA ClosesRuns ==
  ASSUME TypeOK, BindInv, NEW k \in Channels, ConnectionCloses(k)
  PROVE  RunInv' /\ SubsInv'
  <1>1. /\ k \in up /\ Lose(k) /\ channel' = None /\ boundConsumers' = Unbound
        /\ generation' = generation + 1 /\ UNCHANGED consumers
    BY DEF ConnectionCloses
  <1>2. \A b \in Runs : Active(b) => binders[b].chan \in Channels /\ binders[b].gen \in Nat
    BY RunsTyped DEF ActiveRecord
  <1>3. generation \in Nat
    BY DEF TypeOK
  <1>4. CreateRunsOnce'
    BY <1>1, LoseRuns, RunsTyped DEF BindInv, RunInv, CreateRunsOnce, Active
  <1>5. ConsumeRunsOnce'
    BY <1>1, LoseRuns, RunsTyped DEF BindInv, RunInv, ConsumeRunsOnce, Active
  <1>6. \A b \in Runs : RunOK(b)'
    BY <1>1, <1>2, <1>3, LoseRuns DEF BindInv, RunInv, RunOK, Active
  <1>7. BoundUp'
    BY <1>1 DEF BoundUp
  <1>8. SubsInv'
    BY <1>1, LoseRuns DEF SubsInv, RepliesKnown
  <1> QED
    BY <1>4, <1>5, <1>6, <1>7, <1>8 DEF RunInv

(* The same, of the record the run is left with.                           *)
Reached(r, keys, chan, bound) ==
  /\ r.pc \in {"done", "failed", "waiting"}
  /\ r.pc = "waiting" => /\ r.chan = chan /\ r.gen = generation /\ chan \in open
                         /\ r.queue \in Range(keys) /\ bound[r.queue] = NoRun
  /\ \A q \in Range(keys) : chan \in open /\ bound[q] = NoRun =>
       r.pc = "waiting" /\ (q = r.queue \/ q \in Range(r.keys))

(* What the loop has reached, for the steps that run it.                   *)
LEMMA IterateReaches ==
  ASSUME NEW keys \in Seq(Queues), NEW chan, NEW bound
  PROVE  Reached(Iterate(keys, chan, bound), keys, chan, bound)
  <1>1. CASE AllBound(Iterate(keys, chan, bound), keys, bound)
    BY <1>1 DEF AllBound, Reached
  <1>2. CASE ClosedOn(Iterate(keys, chan, bound), chan)
    BY <1>2 DEF ClosedOn, Reached
  <1>3. CASE Subscribes(Iterate(keys, chan, bound), keys, chan, bound)
    BY <1>3 DEF Subscribes, Reached
  <1> QED
    BY <1>1, <1>2, <1>3, IterateStops

(* A run that starts, and what the registration of a consumer starts.      *)
Starts(c, r) ==
  /\ c \in Runs /\ binders[c].pc = "idle" /\ binders'[c] = r
  /\ \A b \in Runs \ {c} : binders'[b] = binders[b]

(* What consume() does: it registers the consumer and starts a run.        *)
LEMMA ConsumeStarts ==
  ASSUME TypeOK, BindInv, NEW q \in Queues, Consume(q)
  PROVE  /\ disposal.pc = "no" /\ Range(consumers') = Range(consumers) \cup {q}
         /\ UNCHANGED <<channel, boundConsumers, generation, disposal, up, open, creates, subs>>
         /\ \E r : /\ Starts(ConsumeRun(q), r)
                   /\ r.pc \in {"done", "failed", "waiting"}
                   /\ channel # None => Reached(r, consumers', channel, boundConsumers)
                   /\ r.pc = "waiting" => channel # None
  <1> DEFINE c == ConsumeRun(q)
  <1>0. /\ q \notin Range(consumers) /\ consumers' = Append(consumers, q)
        /\ disposal.pc = "no" /\ UNCHANGED <<channel, boundConsumers, generation, disposal, up, open,
                                             creates, subs>>
    BY DEF Consume, Range, links, broker
  <1>1. consumers' \in Seq(Queues) /\ consumers \in Seq(Queues)
    BY <1>0, AppendProperties DEF TypeOK
  <1>2. Range(consumers') = Range(consumers) \cup {q}
    <2>1. /\ Len(consumers') = Len(consumers) + 1 /\ consumers'[Len(consumers) + 1] = q
          /\ \A i \in 1..Len(consumers) : consumers'[i] = consumers[i]
          /\ DOMAIN consumers = 1..Len(consumers) /\ DOMAIN consumers' = 1..(Len(consumers) + 1)
          /\ Len(consumers) \in Nat
      BY <1>0, <1>1, AppendProperties
    <2> QED
      BY <2>1 DEF Range
  <1>3. PICK r : /\ binders' = [binders EXCEPT ![c] = r]
                 /\ r.pc \in {"done", "failed", "waiting"}
                 /\ channel # None => Reached(r, consumers', channel, boundConsumers)
                 /\ r.pc = "waiting" => channel # None
    <2>1. CASE channel = None
      <3>1. binders' = [binders EXCEPT ![c] = [pc |-> "done"]]
        BY <2>1 DEF Consume
      <3> DEFINE done == [pc |-> "done"]
      <3>2. binders' = [binders EXCEPT ![c] = done] /\ done.pc = "done"
        BY <3>1
      <3> HIDE DEF done, c
      <3> QED
        BY <2>1, <3>2
    <2>2. CASE channel # None
      <3>1. binders' = [binders EXCEPT ![c] = Iterate(consumers', channel, boundConsumers)]
        BY <2>2 DEF Consume
      <3>2. Reached(Iterate(consumers', channel, boundConsumers), consumers', channel, boundConsumers)
        BY <1>1, IterateReaches
      <3> QED
        BY <2>2, <3>1, <3>2 DEF Reached
    <2> QED
      BY <2>1, <2>2
  <1>4. Starts(c, r)
    BY <1>0, <1>3, RunsTyped DEF BindInv, RunInv, ConsumeRunsOnce, Starts
  <1> QED
    BY <1>0, <1>2, <1>3, <1>4

(* A consumer just registered is ahead of the run that consume() starts,   *)
(* or bound when there is nothing left to do.                              *)
LEMMA ConsumeRuns ==
  ASSUME TypeOK, BindInv, NEW q \in Queues, Consume(q)
  PROVE  RunInv' /\ SubsInv'
  <1> DEFINE c == ConsumeRun(q)
  <1>0. /\ disposal.pc = "no" /\ Range(consumers') = Range(consumers) \cup {q}
        /\ UNCHANGED <<channel, boundConsumers, generation, disposal, up, open, creates, subs>>
    BY ConsumeStarts
  <1>3. PICK r : /\ Starts(c, r)
                 /\ r.pc \in {"done", "failed", "waiting"}
                 /\ channel # None => Reached(r, consumers', channel, boundConsumers)
                 /\ r.pc = "waiting" => channel # None
    BY ConsumeStarts
  <1>4. /\ c \in Runs /\ binders[c].pc = "idle" /\ binders'[c] = r
        /\ \A b \in Runs \ {c} : binders'[b] = binders[b]
        /\ \A k \in Channels : CreateRun(k) \in Runs \ {c}
        /\ \A p \in Queues \ {q} : ConsumeRun(p) \in Runs \ {c}
    BY <1>3, RunsTyped DEF Starts
  <1> HIDE DEF c
  <1>5. CreateRunsOnce'
    BY <1>0, <1>4 DEF BindInv, RunInv, CreateRunsOnce
  <1>6. ConsumeRunsOnce'
    BY <1>0, <1>4 DEF BindInv, RunInv, ConsumeRunsOnce
  <1>7. BoundUp'
    BY <1>0 DEF BindInv, RunInv, BoundUp
  <1>8. ASSUME NEW b \in Runs PROVE RunOK(b)'
    <2>1. CASE b # c
      BY <1>0, <1>4, <2>1 DEF BindInv, RunInv, RunOK, Active
    <2>2. CASE b = c
      <3> SUFFICES ASSUME r.pc = "waiting" PROVE RunOK(b)'
        BY <1>3, <1>4, <2>2 DEF RunOK, Active
      <3>1. r.chan = channel /\ r.gen = generation /\ channel \in open /\ generation \in Nat
        BY <1>3 DEF Reached, TypeOK
      <3>2. creates[channel] \in {"attached", "failed"} /\ channel \in up
        BY <1>3, <3>1 DEF TypeOK, BindInv, LinkInv, AttachedLast
      <3> QED
        BY <1>0, <1>4, <2>2, <3>1, <3>2 DEF RunOK
    <2> QED
      BY <2>1, <2>2
  <1>9. SubsInv'
    <2>1. RepliesKnown'
      BY <1>0, <1>3, <1>4 DEF BindInv, SubsInv, RepliesKnown, Sub
    <2>2. channel \in open => BoundKnown'
      BY <1>0 DEF BindInv, SubsInv, BoundKnown
    <2>3. ASSUME channel \in open PROVE UnboundAhead'
      <3>1. Reached(r, consumers', channel, boundConsumers)
        BY <1>3, <2>3, NoneIsNoChannel DEF TypeOK
      <3> QED
        BY <1>0, <1>4, <2>3, <3>1 DEF Reached, UnboundAhead, Current, Active, Binds
    <2> QED
      BY <1>0, <2>1, <2>2, <2>3 DEF SubsInv
  <1> QED
    BY <1>5, <1>6, <1>7, <1>8, <1>9 DEF RunInv

(* The reply of consume() makes the subscription known to the broker.      *)
LEMMA ConsumeOkRuns ==
  ASSUME TypeOK, BindInv, NEW b \in Runs, ConsumeOk(b)
  PROVE  RunInv' /\ SubsInv'
  <1>1. /\ binders[b].pc = "waiting" /\ binders' = [binders EXCEPT ![b].pc = "replied"]
        /\ subs' = subs \cup {Sub(b)}
        /\ UNCHANGED <<channel, consumers, boundConsumers, generation, disposal, up, open, creates>>
    BY DEF ConsumeOk, Sub, links
  <1>2. binders[b] \in ActiveRecord
    BY <1>1, RunsTyped DEF Active
  <1>3. /\ binders'[b].pc = "replied" /\ binders'[b].queue = binders[b].queue
        /\ binders'[b].keys = binders[b].keys /\ binders'[b].chan = binders[b].chan
        /\ binders'[b].gen = binders[b].gen
        /\ \A a \in Runs \ {b} : binders'[a] = binders[a]
    BY <1>1, <1>2, RunsTyped DEF ActiveRecord
  <1>4. /\ \A a \in Runs : Active(a)' <=> Active(a)
        /\ \A a \in Runs : binders'[a].pc = "idle" <=> binders[a].pc = "idle"
        /\ \A a \in Runs : Current(a)' <=> Current(a)
        /\ \A a \in Runs : \A q : Binds(a, q)' <=> Binds(a, q)
    BY <1>1, <1>3 DEF Active, Current, Binds
  <1>5. CreateRunsOnce' /\ ConsumeRunsOnce' /\ BoundUp'
    BY <1>1, <1>4, RunsTyped DEF BindInv, RunInv, CreateRunsOnce, ConsumeRunsOnce, BoundUp
  <1>6. \A a \in Runs : RunOK(a)'
    BY <1>1, <1>3, <1>4 DEF BindInv, RunInv, RunOK
  <1>7. RepliesKnown => RepliesKnown'
    BY <1>1, <1>3 DEF RepliesKnown, Sub
  <1>8. BoundKnown => BoundKnown'
    BY <1>1 DEF BoundKnown
  <1>9. UnboundAhead => UnboundAhead'
    BY <1>1, <1>4 DEF UnboundAhead
  <1> QED
    BY <1>1, <1>5, <1>6, <1>7, <1>8, <1>9 DEF BindInv, RunInv, SubsInv

(* NoRun names no run.                                                     *)
LEMMA RunIsNoNoRun == NoRun \notin Runs
  BY DEF NoRun, Runs, CreateRun, ConsumeRun

(* What a continuation of bindConsumers writes.                            *)
Stored(b) ==
  IF binders[b].gen = generation THEN [boundConsumers EXCEPT ![binders[b].queue] = b]
  ELSE boundConsumers

(* What the continuation does: it writes to the object evaluated before    *)
(* the await, which is the current one unless reset() came between.        *)
LEMMA ContinueWrites ==
  ASSUME TypeOK, NEW b \in Runs, BindContinue(b)
  PROVE  /\ boundConsumers' = Stored(b)
         /\ binders' = [binders EXCEPT ![b] = Iterate(binders[b].keys, channel, Stored(b))]
         /\ Reached(Iterate(binders[b].keys, channel, Stored(b)), binders[b].keys, channel, Stored(b))
         /\ UNCHANGED <<channel, consumers, generation, disposal, up, open, creates, subs>>
         /\ binders[b].pc = "replied" /\ binders[b].queue \in Queues
         /\ \A q \in Queues : Stored(b)[q] = IF Active(b) /\ Current(b) /\ q = binders[b].queue
                                             THEN b ELSE boundConsumers[q]
  <1>1. binders[b].pc = "replied"
    BY DEF BindContinue
  <1>2. binders[b] \in ActiveRecord
    BY <1>1, RunsTyped DEF Active
  <1>3. Reached(Iterate(binders[b].keys, channel, Stored(b)), binders[b].keys, channel, Stored(b))
    BY <1>2, IterateReaches DEF ActiveRecord
  <1>4. \A q \in Queues : Stored(b)[q] = IF Active(b) /\ Current(b) /\ q = binders[b].queue
                                         THEN b ELSE boundConsumers[q]
    BY <1>1 DEF Stored, Current, Active, TypeOK
  <1> QED
    BY <1>1, <1>2, <1>3, <1>4 DEF BindContinue, Stored, links, broker, ActiveRecord

(* The hard step: a queue becomes bound or, behind a reset(), does not;    *)
(* then the run after the attachment has it ahead.                         *)
LEMMA ContinueRuns ==
  ASSUME TypeOK, BindInv, NEW b \in Runs, BindContinue(b)
  PROVE  RunInv' /\ SubsInv'
  <1>1. PICK r : /\ binders' = [binders EXCEPT ![b] = r]
                 /\ Reached(r, binders[b].keys, channel, Stored(b))
    BY ContinueWrites
  <1>2. /\ binders[b].pc = "replied" /\ binders[b].queue \in Queues
        /\ UNCHANGED <<channel, consumers, generation, disposal, up, open, creates, subs>>
        /\ boundConsumers' = Stored(b)
        /\ \A q \in Queues : boundConsumers'[q] = IF Current(b) /\ q = binders[b].queue
                                                  THEN b ELSE boundConsumers[q]
        /\ b # NoRun
    BY ContinueWrites, RunIsNoNoRun DEF Current
  <1>3. /\ binders'[b] = r /\ r.pc \in {"done", "failed", "waiting"}
        /\ \A a \in Runs \ {b} : binders'[a] = binders[a]
    BY <1>1, RunsTyped DEF Reached
  <1>4. CreateRunsOnce' /\ ConsumeRunsOnce'
    BY <1>2, <1>3, RunsTyped DEF BindInv, RunInv, CreateRunsOnce, ConsumeRunsOnce
  <1>5. BoundUp'
    <2>1. CASE binders[b].gen = generation
      BY <1>2, <2>1 DEF BindInv, RunInv, RunOK, Active, BoundUp
    <2>2. CASE binders[b].gen # generation
      BY <1>2, <2>2 DEF BindInv, RunInv, BoundUp, Stored
    <2> QED
      BY <2>1, <2>2
  <1>6. ASSUME NEW a \in Runs PROVE RunOK(a)'
    <2>1. CASE a # b
      BY <1>2, <1>3, <2>1 DEF BindInv, RunInv, RunOK, Active
    <2>2. CASE a = b
      <3> SUFFICES ASSUME r.pc = "waiting" PROVE RunOK(a)'
        BY <1>3, <2>2 DEF RunOK, Active
      <3>1. r.chan = channel /\ r.gen = generation /\ channel \in open /\ generation \in Nat
        BY <1>1 DEF Reached, TypeOK
      <3>2. creates[channel] \in {"attached", "failed"} /\ channel \in up
        BY <3>1, NoneIsNoChannel DEF TypeOK, BindInv, LinkInv, AttachedLast
      <3> QED
        BY <1>2, <1>3, <2>2, <3>1, <3>2 DEF RunOK
    <2> QED
      BY <2>1, <2>2
  <1>7. SubsInv'
    <2> SUFFICES ASSUME disposal.pc = "no" PROVE SubsInv'
      BY <1>2 DEF SubsInv
    <2>0. RepliesKnown /\ (channel \in open => BoundKnown /\ UnboundAhead)
      BY DEF BindInv, SubsInv
    <2>1. RepliesKnown'
      BY <1>2, <1>3, <2>0 DEF RepliesKnown, Sub
    <2>2. ASSUME channel \in open PROVE BoundKnown'
      <3>1. Current(b) => Sub(b) \in subs /\ binders[b].chan = channel
        BY <1>2, <2>0, <2>2 DEF RepliesKnown, Current, BindInv, RunInv, RunOK
      <3> QED
        BY <1>2, <2>0, <2>2, <3>1 DEF BoundKnown, Sub
    <2>3. ASSUME channel \in open PROVE UnboundAhead'
      <3> SUFFICES ASSUME NEW q \in Range(consumers), boundConsumers'[q] = NoRun
                   PROVE  \E a \in Runs : Current(a)' /\ Binds(a, q)'
        BY <1>2 DEF UnboundAhead
      <3>1. q \in Queues
        BY DEF TypeOK, Range
      <3>2. boundConsumers[q] = NoRun /\ ~(Current(b) /\ q = binders[b].queue)
        BY <1>2, <3>1
      <3>3. PICK a \in Runs : Current(a) /\ Binds(a, q)
        BY <2>0, <2>3, <3>2 DEF UnboundAhead
      <3>4. CASE a # b
        BY <1>2, <1>3, <3>3, <3>4 DEF Current, Active, Binds
      <3>5. CASE a = b
        <4>1. q \in Range(binders[b].keys) /\ Stored(b)[q] = NoRun
          BY <1>2, <3>2, <3>3, <3>5 DEF Binds
        <4>2. r.pc = "waiting" /\ (q = r.queue \/ q \in Range(r.keys)) /\ r.gen = generation
          BY <1>1, <2>3, <4>1 DEF Reached
        <4> QED
          BY <1>2, <1>3, <4>2 DEF Current, Active, Binds
      <3> QED
        BY <3>4, <3>5
    <2> QED
      BY <1>2, <2>1, <2>2, <2>3 DEF SubsInv
  <1> QED
    BY <1>4, <1>5, <1>6, <1>7 DEF RunInv

(* Nothing of an earlier channel is current when create() attaches, and    *)
(* all consumers are to be bound.                                          *)
LEMMA AttachStarts ==
  ASSUME TypeOK, BindInv, NEW k \in Channels, Attach(k)
  PROVE  /\ channel \notin up /\ boundConsumers = Unbound /\ \A b \in Runs : ~Current(b)
         /\ binders[CreateRun(k)].pc = "idle" /\ creates[k] \in Pending
         /\ channel' = k /\ UNCHANGED <<consumers, boundConsumers, generation, disposal, up, open, subs>>
         /\ \A j \in Channels : j # k => creates'[j] = creates[j]
         /\ \E r : \/ k \notin open /\ creates'[k] = "failed" /\ UNCHANGED binders
                   \/ /\ creates'[k] = "attached"
                      /\ Starts(CreateRun(k), r)
                      /\ Reached(r, consumers, k, boundConsumers)
  <1>0. /\ channel' = k /\ UNCHANGED <<consumers, boundConsumers, generation, disposal, up, open, subs>>
        /\ creates[k] \in Pending
    BY DEF Attach, Pending, broker
  <1>1. creates \in [Channels -> CreatePlaces] /\ consumers \in Seq(Queues)
    BY DEF TypeOK, CreatePlaces
  <1>2. channel \notin up
    BY <1>0, OneAtATime DEF BindInv
  <1>3. boundConsumers = Unbound /\ \A b \in Runs : ~Current(b)
    BY <1>2 DEF BindInv, RunInv, BoundUp, RunOK, Current
  <1>4. binders[CreateRun(k)].pc = "idle"
    BY <1>0 DEF BindInv, RunInv, CreateRunsOnce, Pending
  <1>5. \A j \in Channels : j # k => creates'[j] = creates[j]
    BY <1>1 DEF Attach
  <1>6. CASE buffer # <<>> /\ k \notin open
    <2>1. creates'[k] = "failed" /\ UNCHANGED binders
      BY <1>1, <1>6 DEF Attach
    <2> QED
      BY <1>0, <1>2, <1>3, <1>4, <1>5, <1>6, <2>1
  <1>7. CASE ~(buffer # <<>> /\ k \notin open)
    <2> DEFINE r == Iterate(consumers, k, boundConsumers)
    <2>1. Reached(r, consumers, k, boundConsumers)
      BY <1>1, IterateReaches
    <2>2. creates'[k] = "attached" /\ binders' = [binders EXCEPT ![CreateRun(k)] = r]
      BY <1>1, <1>7 DEF Attach
    <2>3. Starts(CreateRun(k), r)
      BY <1>4, <2>2, RunsTyped DEF Starts
    <2> QED
      BY <1>0, <1>2, <1>3, <1>4, <1>5, <2>1, <2>2, <2>3
  <1> QED
    BY <1>6, <1>7

(* create() attaches its channel, when nothing is bound, and starts a run  *)
(* over all consumers.                                                     *)
LEMMA AttachRuns ==
  ASSUME TypeOK, BindInv, NEW k \in Channels, Attach(k)
  PROVE  RunInv' /\ SubsInv'
  <1> DEFINE c == CreateRun(k)
  <1>0. /\ channel \notin up /\ boundConsumers = Unbound /\ \A b \in Runs : ~Current(b)
        /\ binders[c].pc = "idle" /\ creates[k] \in Pending
        /\ channel' = k /\ UNCHANGED <<consumers, boundConsumers, generation, disposal, up, open, subs>>
        /\ \A j \in Channels : j # k => creates'[j] = creates[j]
    BY AttachStarts
  <1>1. open \subseteq up /\ generation \in Nat
    BY DEF TypeOK
  <1>2. PICK r : \/ k \notin open /\ creates'[k] = "failed" /\ UNCHANGED binders
                 \/ /\ creates'[k] = "attached" /\ Starts(c, r)
                    /\ Reached(r, consumers, k, boundConsumers)
    BY AttachStarts
  <1>3. /\ c \in Runs /\ \A j \in Channels \ {k} : CreateRun(j) \in Runs \ {c}
        /\ \A q \in Queues : ConsumeRun(q) \in Runs \ {c}
        /\ \A b \in Runs \ {c} : binders'[b] = binders[b]
        /\ \A b \in Runs : Active(b) => creates[binders[b].chan] \in {"attached", "failed"}
                                        /\ binders[b].chan \in Channels
    BY <1>2, RunsTyped DEF BindInv, RunInv, RunOK, ActiveRecord, Starts
  <1> HIDE DEF c
  <1>4. BoundUp'
    BY <1>0 DEF BoundUp
  <1>5. ConsumeRunsOnce'
    BY <1>0, <1>3 DEF BindInv, RunInv, ConsumeRunsOnce
  <1>6. ASSUME NEW b \in Runs \ {c} PROVE RunOK(b)'
    BY <1>0, <1>3 DEF BindInv, RunInv, RunOK, Current, Active, Pending
  <1>7. CASE k \notin open /\ creates'[k] = "failed" /\ UNCHANGED binders
    <2>1. CreateRunsOnce'
      BY <1>0, <1>3, <1>7 DEF BindInv, RunInv, CreateRunsOnce, c
    <2>2. RunOK(c)'
      BY <1>0, <1>7 DEF RunOK, Active
    <2>3. SubsInv'
      BY <1>0, <1>7 DEF BindInv, SubsInv, RepliesKnown, Sub
    <2> QED
      BY <1>4, <1>5, <1>6, <2>1, <2>2, <2>3 DEF RunInv
  <1>8. CASE /\ creates'[k] = "attached"
             /\ Starts(c, r)
             /\ Reached(r, consumers, k, boundConsumers)
    <2>0. binders'[c] = r
      BY <1>8 DEF Starts
    <2>1. CreateRunsOnce'
      BY <1>0, <1>3, <1>8 DEF BindInv, RunInv, CreateRunsOnce
    <2>2. RunOK(c)'
      BY <1>0, <1>1, <1>8, <2>0 DEF RunOK, Active, Reached
    <2>3. RepliesKnown => RepliesKnown'
      BY <1>0, <1>3, <1>8, <2>0 DEF RepliesKnown, Sub, Reached
    <2>4. BoundKnown'
      BY <1>0 DEF BoundKnown, Unbound
    <2>5. k \in open => UnboundAhead'
      BY <1>0, <1>3, <1>8, <2>0 DEF UnboundAhead, Reached, Current, Active, Binds
    <2> QED
      BY <1>0, <1>4, <1>5, <1>6, <2>1, <2>2, <2>3, <2>4, <2>5 DEF RunInv, SubsInv, BindInv
  <1> QED
    BY <1>2, <1>7, <1>8

(* After dispose() nothing is claimed of the subscriptions; the runs go    *)
(* on.                                                                     *)
LEMMA DisposeRuns ==
  ASSUME TypeOK, BindInv, Dispose \/ CancelOk \/ DisposeContinue
  PROVE  RunInv' /\ SubsInv'
  <1>1. UNCHANGED <<binders, up, open, creates>> /\ disposal'.pc # "no"
    <2>1. CASE CancelOk
      <3>1. disposal \in ActiveDisposal
        BY <2>1, DisposalTyped DEF TypeOK, CancelOk
      <3> QED
        BY <2>1, <3>1 DEF CancelOk, ActiveDisposal, binding, links
    <2>2. CASE Dispose \/ DisposeContinue
      BY <2>2 DEF Dispose, DisposeContinue, Cancel, links
    <2> QED
      BY <2>1, <2>2
  <1>2. \/ UNCHANGED <<channel, boundConsumers, generation>>
        \/ channel' = None /\ boundConsumers' = Unbound /\ generation' = generation + 1
    BY DEF Dispose, CancelOk, DisposeContinue, Cancel, binding
  <1>3. \A b \in Runs : Active(b) => binders[b].gen \in Nat
    BY RunsTyped DEF ActiveRecord
  <1>4. generation \in Nat
    BY DEF TypeOK
  <1>5. CreateRunsOnce' /\ ConsumeRunsOnce' /\ BoundUp'
    BY <1>1, <1>2 DEF BindInv, RunInv, CreateRunsOnce, ConsumeRunsOnce, BoundUp
  <1>6. \A b \in Runs : RunOK(b)'
    BY <1>1, <1>2, <1>3, <1>4 DEF BindInv, RunInv, RunOK, Active
  <1> QED
    BY <1>1, <1>5, <1>6 DEF RunInv, SubsInv

(* The steps that do not bind;                                             *)
LEMMA AsideStep ==
  ASSUME TypeOK, BindInv,
         \/ UNCHANGED vars
         \/ \E m \in Messages : SendToQueue(m)
         \/ \E n \in Prefetches : Prefetch(n)
         \/ \E s \in subs, d \in Deliveries : Deliver(s, d)
         \/ \E s \in subs : BrokerCancels(s)
         \/ \E k \in Channels : Connect(k) \/ ChannelOpened(k) \/ PrefetchReplied(k) \/ SetPrefetch(k)
  PROVE  RunInv' /\ SubsInv'
  <1>0. RunInv /\ SubsInv /\ AttachedLast /\ open \subseteq Channels /\ up \subseteq Channels
        /\ creates \in [Channels -> CreatePlaces]
    BY DEF BindInv, LinkInv, TypeOK, CreatePlaces
  <1>1. ASSUME UNCHANGED <<channel, binding, disposal, subs, up, open, creates>>
        PROVE  RunInv' /\ SubsInv'
    BY <1>0, <1>1, AsideRuns
  <1>2. ASSUME NEW k \in Channels,
               Connect(k) \/ ChannelOpened(k) \/ PrefetchReplied(k) \/ SetPrefetch(k)
        PROVE  RunInv' /\ SubsInv'
    <2>1. /\ UNCHANGED <<channel, binding, disposal, subs>> /\ up \subseteq up' /\ open \subseteq open'
          /\ open' \subseteq open \cup {k}
          /\ creates[k] \notin {"attached", "failed"}
          /\ \A j \in Channels : j # k => creates'[j] = creates[j]
      BY <1>0, <1>2 DEF Connect, ChannelOpened, PrefetchReplied, SetPrefetch, broker
    <2> QED
      BY <1>0, <2>1, AsideRuns
  <1>3. CASE UNCHANGED vars
    BY <1>1, <1>3 DEF vars, links, broker
  <1>4. ASSUME NEW m \in Messages, SendToQueue(m) PROVE RunInv' /\ SubsInv'
    BY <1>1, <1>4 DEF SendToQueue, links, broker
  <1>5. ASSUME NEW n \in Prefetches, Prefetch(n) PROVE RunInv' /\ SubsInv'
    BY <1>1, <1>5 DEF Prefetch, links, broker
  <1>6. ASSUME NEW s \in subs, NEW d \in Deliveries, Deliver(s, d) PROVE RunInv' /\ SubsInv'
    BY <1>1, <1>6 DEF Deliver, links
  <1>7. ASSUME NEW s \in subs, BrokerCancels(s) PROVE RunInv' /\ SubsInv'
    BY <1>1, <1>7 DEF BrokerCancels, links
  <1> QED
    BY <1>2, <1>3, <1>4, <1>5, <1>6, <1>7

(* and those that may close the channel.                                   *)
LEMMA LoseStep ==
  ASSUME TypeOK, BindInv,
         \/ \E b \in Runs : ConsumeRefused(b)
         \/ \E j \in jobs, outcome \in {"acked", "dropped", "ready"} : Finish(j, outcome)
  PROVE  RunInv' /\ SubsInv'
  <1>1. ASSUME NEW b \in Runs, ConsumeRefused(b) PROVE RunInv' /\ SubsInv'
    <2>1. binders[b].chan \in up
      BY <1>1 DEF ConsumeRefused, BindInv, RunInv, RunOK, Active, TypeOK
    <2> QED
      BY <1>1, <2>1, LostRuns DEF ConsumeRefused
  <1>2. ASSUME NEW j \in jobs, NEW outcome, Finish(j, outcome) PROVE RunInv' /\ SubsInv'
    <2>1. UNCHANGED <<channel, consumers, boundConsumers, generation, up>>
      BY <1>2 DEF Finish
    <2>2. CASE channel \in open /\ Lose(channel)
      <3>1. channel \in up
        BY <2>2 DEF TypeOK
      <3> QED
        BY <2>1, <2>2, <3>1, LostRuns
    <2>3. CASE ~(channel \in open /\ Lose(channel))
      <3>1. UNCHANGED <<open, binders, creates, disposal, subs>>
        BY <1>2, <2>3 DEF Finish, Answer, broker
      <3>2. AttachedLast /\ open \subseteq Channels
        BY DEF BindInv, LinkInv, TypeOK
      <3> QED
        BY <2>1, <3>1, <3>2, AsideRuns DEF BindInv, binding
    <2> QED
      BY <2>2, <2>3
  <1> QED
    BY <1>1, <1>2

(* Every step keeps the invariant of binding.                              *)
LEMMA BindStep ==
  ASSUME TypeOK, BindInv, ~Overlapping, [Next]_vars
  PROVE  BindInv'
  <1>1. LinkInv'
    <2>1. CASE UNCHANGED vars
      <3>1. UNCHANGED <<links, channel>>
        BY <2>1 DEF vars
      <3>2. AwaitedUp'
        BY <3>1 DEF BindInv, LinkInv, AwaitedUp, links
      <3> QED
        BY <3>1, <3>2, StillLinks DEF BindInv, LinkInv
    <2> QED
      BY <2>1, LinkStep DEF BindInv
  <1>2. RunInv' /\ SubsInv'
    BY AsideStep, LoseStep, ConsumeRuns, ConsumeOkRuns, ContinueRuns, ClosesRuns, AttachRuns,
       DisposeRuns DEF Next, JobSucceeds, JobRejects, JobFails
  <1> QED
    BY <1>1, <1>2 DEF BindInv

(* It holds at first.                                                      *)
LEMMA BindInit == Init => BindInv
  <1> SUFFICES ASSUME Init PROVE BindInv
    OBVIOUS
  <1>1. /\ channel = None /\ consumers = <<>> /\ boundConsumers = Unbound /\ generation = 0
        /\ \A b \in Runs : binders[b].pc = "idle"
        /\ \A k \in Channels : creates[k] = "none"
        /\ disposal.pc = "no" /\ up = {} /\ open = {} /\ subs = {}
    BY DEF Init
  <1>2. LinkInv
    BY <1>1 DEF LinkInv, AwaitedUp, AttachedLast, OpenedOnce, StartedInOrder, Latest, Pending
  <1>3. CreateRunsOnce /\ ConsumeRunsOnce /\ BoundUp
    BY <1>1, RunsTyped, InitTyped DEF CreateRunsOnce, ConsumeRunsOnce, BoundUp
  <1>4. \A b \in Runs : RunOK(b)
    BY <1>1 DEF RunOK, Active
  <1>5. SubsInv
    BY <1>1 DEF SubsInv, RepliesKnown
  <1> QED
    BY <1>2, <1>3, <1>4, <1>5 DEF BindInv, RunInv

(* With one connection at a time, whatever closes at whatever await, and   *)
(* whatever the broker cancels: once create() and bindConsumers rest on a  *)
(* channel that is open, the subscription that boundConsumers remembers of *)
(* every registered consumer was accepted on it, and only the broker's own *)
(* cancel has ended it.                                                    *)
THEOREM BindingHolds == ~Overlapping => (Spec => []ConsumersBound)
  <1> SUFFICES ASSUME ~Overlapping PROVE Spec => []ConsumersBound
    OBVIOUS
  <1>1. Init => BindInv
    BY BindInit
  <1>2. TypeOK /\ BindInv /\ [Next]_vars => BindInv'
    BY BindStep
  <1>3. TypeOK /\ BindInv => ConsumersBound
    <2> SUFFICES ASSUME TypeOK, BindInv, AtRest, channel \in open, NEW i \in DOMAIN consumers
                 PROVE  [by |-> boundConsumers[consumers[i]], queue |-> consumers[i],
                         chan |-> channel] \in subs
      BY DEF ConsumersBound
    <2>1. consumers[i] \in Queues /\ consumers[i] \in Range(consumers)
      BY DEF TypeOK, Range
    <2>2. BoundKnown /\ UnboundAhead
      BY DEF BindInv, SubsInv, AtRest
    <2>3. boundConsumers[consumers[i]] # NoRun
      BY <2>1, <2>2 DEF UnboundAhead, Current, Active, AtRest
    <2> QED
      BY <2>1, <2>2, <2>3 DEF BoundKnown
  <1> QED
    BY <1>1, <1>2, <1>3, TypesKept, PTL DEF Spec

-----------------------------------------------------------------------------
(* An application that waits.  One run of bindConsumers is under way at a  *)
(* time, for a queue that is not bound, and none beside the earlier steps  *)
(* of create() or beside dispose().                                        *)
OneRun == \A a, b \in Runs : Active(a) /\ Active(b) => a = b

CreateAlone ==
  (\E k \in Channels : creates[k] \in Pending) =>
    disposal.pc \notin {"waiting", "replied"} /\ \A b \in Runs : ~Active(b)

OpenIsCurrent == \A b \in Runs : Active(b) /\ binders[b].chan \in open => Current(b)

NotBoundYet == \A b \in Runs : Active(b) => boundConsumers[binders[b].queue] = NoRun

(* The subscriptions are on the open channel, which is the current one; and *)
(* they are those remembered as bound, and the one just replied to.        *)
SubsOpen == \A s \in subs : s.chan \in open

SubsRemembered ==
  \A s \in subs : \/ boundConsumers[s.queue] = s.by
                  \/ binders[s.by].pc = "replied" /\ Sub(s.by) = s

AttachedCurrent ==
  disposal.pc # "done" => \A k \in open : creates[k] \in {"attached", "failed"} => channel = k

(* What dispose() has still to cancel, and what it leaves.                 *)
ToCancel == IF disposal.pc = "waiting" THEN disposal.left ELSE disposal.left \ {disposal.next}

Cancelling ==
  disposal.pc \in {"waiting", "replied"} =>
    /\ \A b \in Runs : ~Active(b)
    /\ creates[disposal.chan] \in {"attached", "failed"}
    /\ disposal.pc = "waiting" => disposal.chan \in open
    /\ \A s \in subs : <<s.queue, s.by>> \in ToCancel

Cancelled ==
  disposal.pc = "done" => consumers = <<>> /\ subs = {} /\ \A b \in Runs : ~Active(b)

OneByOne == OneRun /\ CreateAlone /\ OpenIsCurrent /\ NotBoundYet

SubsAccounted == SubsOpen /\ SubsRemembered /\ AttachedCurrent

DisposeInv == Cancelling /\ Cancelled

SerialInv == OneByOne /\ SubsAccounted /\ DisposeInv

(* The fields of a subscription.                                           *)
LEMMA SubsTyped ==
  ASSUME TypeOK
  PROVE  subs \subseteq [by : Runs, queue : Queues, chan : Channels]
  BY DEF TypeOK

(* One channel is open, and one create() under way.                        *)
LEMMA OneChannel ==
  ASSUME TypeOK, LinkInv
  PROVE  /\ \A j, k \in open : j = k
         /\ \A j, k \in Channels : creates[j] \in Pending /\ (creates[k] \in Pending \/ k \in up) => j = k
  <1>1. \A j, k \in Channels : j <= k /\ k <= j => j = k
    BY DEF Channels
  <1>2. \A j, k \in open : j = k
    BY OneAtATime DEF TypeOK
  <1>3. \A j, k \in Channels : creates[j] \in Pending /\ (creates[k] \in Pending \/ k \in up) => j = k
    BY <1>1 DEF LinkInv, Latest
  <1> QED
    BY <1>2, <1>3

(* Steps of the others, and of create() up to its last.                    *)
LEMMA AsideSerial ==
  ASSUME TypeOK, BindInv, SerialInv, UNCHANGED <<channel, binding, disposal, subs>>,
         open \subseteq open', open' \subseteq Channels,
         \A j \in Channels : /\ creates[j] \in {"attached", "failed"} =>
                                  creates'[j] = creates[j] /\ (j \in open' => j \in open)
                             /\ creates'[j] \in Pending => creates[j] \in Pending
                             /\ creates'[j] \in {"attached", "failed"} => creates'[j] = creates[j]
  PROVE  SerialInv'
  <1> USE DEF SerialInv, OneByOne, SubsAccounted, DisposeInv
  <1>1. UNCHANGED <<consumers, boundConsumers, generation, binders>>
    BY DEF binding
  <1>2. \A b \in Runs : Active(b) => binders[b].chan \in Channels
    BY RunsTyped DEF ActiveRecord
  <1>3. OneRun' /\ NotBoundYet'
    BY <1>1 DEF OneRun, NotBoundYet, Active
  <1>4. CreateAlone'
    BY <1>1 DEF CreateAlone, Active
  <1>5. OpenIsCurrent'
    BY <1>1, <1>2 DEF OpenIsCurrent, Current, Active, BindInv, RunInv, RunOK
  <1>6. SubsOpen' /\ SubsRemembered'
    BY <1>1 DEF SubsOpen, SubsRemembered, Sub
  <1>7. AttachedCurrent'
    BY DEF AttachedCurrent
  <1>8. disposal.pc \in {"waiting", "replied"} => disposal.chan \in Channels
    BY DisposalTyped DEF ActiveDisposal, TypeOK
  <1>9. Cancelling'
    BY <1>1, <1>8 DEF Cancelling, ToCancel, Active
  <1>10. Cancelled'
    BY <1>1 DEF Cancelled, Active
  <1> QED
    BY <1>3, <1>4, <1>5, <1>6, <1>7, <1>9, <1>10

(* Step by step, for an application that waits: a connection begins;       *)
LEMMA ConnectSerial ==
  ASSUME TypeOK, BindInv, SerialInv, ~Overlapping, NEW k \in Channels, Connect(k)
  PROVE  SerialInv'
  <1> USE DEF SerialInv, OneByOne, SubsAccounted, DisposeInv
  <1>1. /\ creates[k] = "none" /\ open = {} /\ creates' = [creates EXCEPT ![k] = "opening"]
        /\ UNCHANGED <<channel, consumers, boundConsumers, generation, binders, disposal, open, subs>>
        /\ \A b \in Runs : binders[b].pc = "replied" => binders[b].chan = k
        /\ disposal.pc = "replied" => disposal.chan = k
    BY DEF Connect, Drained, TypeOK, binding, broker
  <1>2. \A b \in Runs : ~Active(b)
    BY <1>1 DEF BindInv, RunInv, RunOK, Active
  <1>3. disposal.pc \notin {"waiting", "replied"}
    BY <1>1 DEF Cancelling
  <1>4. \A j \in Channels : j # k => creates'[j] = creates[j]
    BY <1>1 DEF TypeOK
  <1>5. OneRun' /\ NotBoundYet' /\ OpenIsCurrent' /\ CreateAlone'
    BY <1>1, <1>2, <1>3 DEF OneRun, NotBoundYet, OpenIsCurrent, CreateAlone, Active
  <1>6. SubsOpen' /\ SubsRemembered' /\ AttachedCurrent'
    BY <1>1 DEF SubsOpen, SubsRemembered, AttachedCurrent, Sub
  <1>7. Cancelling' /\ Cancelled'
    BY <1>1, <1>3 DEF Cancelling, Cancelled, Active
  <1> QED
    BY <1>5, <1>6, <1>7

(* The loss of the channel of the connection that is up.                   *)
LEMMA LostSerial ==
  ASSUME TypeOK, BindInv, SerialInv, NEW k \in up, Lose(k), UNCHANGED consumers,
         UNCHANGED boundConsumers \/ boundConsumers' = Unbound
  PROVE  SerialInv'
  <1> USE DEF SerialInv, OneByOne, SubsAccounted, DisposeInv
  <1>1. /\ open' = {}
        /\ \A b \in Runs : Active(b)' => Active(b) /\ binders'[b] = binders[b]
        /\ \A j \in Channels : creates[j] \in {"attached", "failed"} => creates'[j] = creates[j]
    BY LoseRuns DEF Active
  <1>2. \A j \in Channels : creates'[j] \in Pending => creates[j] \in Pending
    BY LoseCreates DEF Pending
  <1>3. subs' = {}
    <2>1. subs' = {s \in subs : s.chan # k}
      BY DEF Lose
    <2>2. \A s \in subs : s.chan = k
      BY OneAtATime DEF SubsOpen, BindInv, TypeOK
    <2> QED
      BY <2>1, <2>2
  <1>4. /\ disposal'.pc \in {"waiting", "replied"} =>
             disposal.pc \in {"waiting", "replied"} /\ disposal'.pc = "replied"
             /\ disposal'.chan = disposal.chan /\ disposal.chan \in Channels
        /\ disposal'.pc = "done" => disposal.pc = "done"
    <2>1. CASE disposal.pc = "waiting"
      <3>1. disposal.chan = k /\ disposal \in ActiveDisposal
        BY <2>1, OneAtATime, DisposalTyped DEF Cancelling, BindInv, TypeOK
      <3>2. disposal' = [disposal EXCEPT !.pc = "replied"]
        BY <2>1, <3>1 DEF Lose
      <3> QED
        BY <2>1, <3>1, <3>2 DEF ActiveDisposal
    <2>2. CASE disposal.pc # "waiting"
      BY <2>2, DisposalTyped DEF Lose, TypeOK, ActiveDisposal
    <2> QED
      BY <2>1, <2>2
  <1>5. OneRun' /\ CreateAlone' /\ OpenIsCurrent'
    BY <1>1, <1>2, <1>4 DEF OneRun, CreateAlone, OpenIsCurrent
  <1>6. NotBoundYet'
    <2>1. \A b \in Runs : Active(b) => binders[b].queue \in Queues
      BY RunsTyped DEF ActiveRecord
    <2> QED
      BY <1>1, <2>1 DEF NotBoundYet, Unbound
  <1>7. SubsOpen' /\ SubsRemembered' /\ AttachedCurrent'
    BY <1>1, <1>3 DEF SubsOpen, SubsRemembered, AttachedCurrent
  <1>8. Cancelling' /\ Cancelled'
    BY <1>1, <1>3, <1>4 DEF Cancelling, Cancelled
  <1> QED
    BY <1>5, <1>6, <1>7, <1>8

(* A run that starts when nothing is under way.                            *)
LEMMA StartSerial ==
  ASSUME TypeOK, SerialInv, \A b \in Runs : ~Active(b),
         NEW c, NEW r, NEW keys, Starts(c, r),
         r.pc \in {"done", "failed", "waiting"},
         r.pc = "waiting" => Reached(r, keys, channel', boundConsumers),
         UNCHANGED <<boundConsumers, generation, subs>>,
         \A j \in Channels : creates'[j] \notin Pending
  PROVE  OneByOne' /\ SubsRemembered'
  <1> USE DEF SerialInv, OneByOne, SubsAccounted
  <1>1. /\ c \in Runs /\ binders'[c] = r
        /\ \A b \in Runs : Active(b)' => b = c /\ r.pc = "waiting"
    BY DEF Starts, Active
  <1>2. OneRun'
    BY <1>1 DEF OneRun
  <1>3. CreateAlone'
    BY DEF CreateAlone
  <1>4. OpenIsCurrent' /\ NotBoundYet'
    BY <1>1 DEF OpenIsCurrent, NotBoundYet, Current, Reached
  <1>5. SubsRemembered'
    BY SubsTyped DEF SubsRemembered, Active
  <1> QED
    BY <1>2, <1>3, <1>4, <1>5

(* consume() starts the one run;                                           *)
LEMMA ConsumeSerial ==
  ASSUME TypeOK, BindInv, SerialInv, AtRest, NEW q \in Queues, Consume(q)
  PROVE  SerialInv'
  <1>1. PICK r : /\ Starts(ConsumeRun(q), r)
                 /\ r.pc \in {"done", "failed", "waiting"}
                 /\ channel # None => Reached(r, consumers', channel, boundConsumers)
                 /\ r.pc = "waiting" => channel # None
    BY ConsumeStarts
  <1>2. /\ disposal.pc = "no"
        /\ UNCHANGED <<channel, boundConsumers, generation, disposal, up, open, creates, subs>>
    BY ConsumeStarts
  <1>3. \A b \in Runs : ~Active(b)
    BY DEF AtRest, Active
  <1>4. \A j \in Channels : creates'[j] \notin Pending
    BY <1>2 DEF AtRest, Pending
  <1>5. OneByOne' /\ SubsRemembered'
    BY <1>1, <1>2, <1>3, <1>4, StartSerial
  <1>6. SubsOpen' /\ AttachedCurrent'
    BY <1>2 DEF SerialInv, SubsAccounted, SubsOpen, AttachedCurrent
  <1>7. DisposeInv'
    BY <1>2 DEF DisposeInv, Cancelling, Cancelled
  <1> QED
    BY <1>5, <1>6, <1>7 DEF SerialInv, SubsAccounted

(* create() attaches its channel when no other run is left, and no         *)
(* subscription;                                                           *)
LEMMA AttachSerial ==
  ASSUME TypeOK, BindInv, SerialInv, NEW k \in Channels, Attach(k)
  PROVE  SerialInv'
  <1>1. /\ boundConsumers = Unbound /\ creates[k] \in Pending /\ channel' = k
        /\ UNCHANGED <<consumers, boundConsumers, generation, disposal, up, open, subs>>
        /\ \A j \in Channels : j # k => creates'[j] = creates[j]
    BY AttachStarts
  <1>2. PICK r : \/ k \notin open /\ creates'[k] = "failed" /\ UNCHANGED binders
                 \/ /\ creates'[k] = "attached" /\ Starts(CreateRun(k), r)
                    /\ Reached(r, consumers, k, boundConsumers)
    BY AttachStarts
  <1>3. disposal.pc \notin {"waiting", "replied"} /\ \A b \in Runs : ~Active(b)
    BY <1>1 DEF SerialInv, OneByOne, CreateAlone
  <1>4. \A j \in Channels : creates'[j] \notin Pending
    BY <1>1, <1>2, OneChannel DEF BindInv, Pending
  <1>5. subs = {}
    <2> SUFFICES ASSUME NEW s \in subs PROVE FALSE
      OBVIOUS
    <2>1. s.by \in Runs /\ s.queue \in Queues
      BY SubsTyped
    <2> QED
      BY <1>1, <1>3, <2>1, RunIsNoNoRun DEF SerialInv, SubsAccounted, SubsRemembered, Active, Unbound
  <1>6. AttachedCurrent'
    BY <1>1, OneChannel DEF AttachedCurrent, BindInv, TypeOK
  <1>7. CASE k \notin open /\ creates'[k] = "failed" /\ UNCHANGED binders
    <2>1. OneByOne'
      BY <1>3, <1>4, <1>7 DEF OneByOne, OneRun, CreateAlone, OpenIsCurrent, NotBoundYet, Active, SerialInv
    <2>2. SubsOpen' /\ SubsRemembered'
      BY <1>1, <1>5 DEF SubsOpen, SubsRemembered
    <2>3. DisposeInv'
      BY <1>1, <1>3, <1>7 DEF SerialInv, DisposeInv, Cancelling, Cancelled, Active
    <2> QED
      BY <1>6, <2>1, <2>2, <2>3 DEF SerialInv, SubsAccounted
  <1>8. CASE /\ creates'[k] = "attached" /\ Starts(CreateRun(k), r)
             /\ Reached(r, consumers, k, boundConsumers)
    <2>1. OneByOne' /\ SubsRemembered'
      BY <1>1, <1>3, <1>4, <1>8, StartSerial DEF Reached
    <2>2. SubsOpen'
      BY <1>1, <1>5 DEF SubsOpen
    <2>3. Cancelling'
      BY <1>1, <1>3 DEF Cancelling
    <2>4. ASSUME disposal.pc = "done" PROVE \A b \in Runs : ~Active(b)'
      <3>1. Range(consumers) = {}
        BY <2>4 DEF SerialInv, DisposeInv, Cancelled, Range
      <3>2. r.pc # "waiting"
        BY <1>8, <3>1 DEF Reached
      <3> QED
        BY <1>3, <1>8, <3>2 DEF Starts, Reached, Active
    <2>5. Cancelled'
      BY <1>1, <2>4 DEF SerialInv, DisposeInv, Cancelled
    <2> QED
      BY <1>6, <2>1, <2>2, <2>3, <2>5 DEF SerialInv, SubsAccounted, DisposeInv
  <1> QED
    BY <1>2, <1>7, <1>8

(* the reply adds the subscription of the one run, to a queue that has     *)
(* none;                                                                   *)
LEMMA ConsumeOkSerial ==
  ASSUME TypeOK, BindInv, SerialInv, NEW b \in Runs, ConsumeOk(b)
  PROVE  SerialInv'
  <1> USE DEF SerialInv, OneByOne, SubsAccounted, DisposeInv
  <1>1. /\ binders[b].pc = "waiting" /\ binders' = [binders EXCEPT ![b].pc = "replied"]
        /\ subs' = subs \cup {Sub(b)}
        /\ UNCHANGED <<channel, consumers, boundConsumers, generation, disposal, up, open, creates>>
    BY DEF ConsumeOk, Sub, links
  <1>2. Active(b) /\ binders[b] \in ActiveRecord
    BY <1>1, RunsTyped DEF Active
  <1>3. /\ binders'[b].pc = "replied" /\ binders'[b].queue = binders[b].queue
        /\ binders'[b].chan = binders[b].chan /\ binders'[b].gen = binders[b].gen
        /\ \A a \in Runs \ {b} : binders'[a] = binders[a]
    BY <1>1, <1>2, RunsTyped DEF ActiveRecord
  <1>4. \A a \in Runs : (Active(a)' => Active(a)) /\ (Current(a) => Current(a)')
    BY <1>1, <1>2, <1>3 DEF Active, Current
  <1>5. OneRun' /\ CreateAlone'
    BY <1>1, <1>4 DEF OneRun, CreateAlone
  <1>6. OpenIsCurrent' /\ NotBoundYet'
    BY <1>1, <1>3, <1>4 DEF OpenIsCurrent, NotBoundYet
  <1>7. SubsOpen'
    BY <1>1, <1>2 DEF SubsOpen, Sub, BindInv, RunInv, RunOK
  <1>8. SubsRemembered'
    <2>1. Sub(b)' = Sub(b) /\ Sub(b).by = b
      BY <1>3 DEF Sub
    <2>2. ASSUME NEW s \in subs PROVE boundConsumers[s.queue] = s.by
      <3>1. ~(binders[s.by].pc = "replied")
        BY <1>1, <1>2, SubsTyped DEF OneRun, Active
      <3> QED
        BY <3>1 DEF SubsRemembered
    <2> QED
      BY <1>1, <1>3, <2>1, <2>2 DEF SubsRemembered
  <1>9. AttachedCurrent'
    BY <1>1 DEF AttachedCurrent
  <1>10. disposal.pc \notin {"waiting", "replied", "done"}
    BY <1>2 DEF Cancelling, Cancelled
  <1>11. Cancelling' /\ Cancelled'
    BY <1>1, <1>10 DEF Cancelling, Cancelled
  <1> QED
    BY <1>5, <1>6, <1>7, <1>8, <1>9, <1>11

(* the continuation remembers it and goes on to another queue;             *)
LEMMA ContinueSerial ==
  ASSUME TypeOK, BindInv, SerialInv, NEW b \in Runs, BindContinue(b)
  PROVE  SerialInv'
  <1> USE DEF SerialInv, OneByOne, SubsAccounted, DisposeInv
  <1>1. PICK r : /\ binders' = [binders EXCEPT ![b] = r]
                 /\ Reached(r, binders[b].keys, channel, Stored(b))
    BY ContinueWrites
  <1>2. /\ Active(b) /\ binders[b].queue \in Queues
        /\ UNCHANGED <<channel, consumers, generation, disposal, up, open, creates, subs>>
        /\ boundConsumers' = Stored(b)
        /\ \A q \in Queues : boundConsumers'[q] = IF Current(b) /\ q = binders[b].queue
                                                  THEN b ELSE boundConsumers[q]
    BY ContinueWrites DEF Active
  <1>3. /\ binders'[b] = r /\ r.pc \in {"done", "failed", "waiting"}
        /\ \A a \in Runs \ {b} : binders'[a] = binders[a]
    BY <1>1, RunsTyped DEF Reached
  <1>4. \A a \in Runs : Active(a)' => a = b /\ r.pc = "waiting"
    BY <1>2, <1>3 DEF OneRun, Active
  <1>5. OneRun'
    BY <1>4 DEF OneRun
  <1>6. CreateAlone'
    BY <1>2 DEF CreateAlone
  <1>7. OpenIsCurrent' /\ NotBoundYet'
    BY <1>1, <1>2, <1>3, <1>4 DEF OpenIsCurrent, NotBoundYet, Current, Reached
  <1>8. SubsRemembered'
    <2> SUFFICES ASSUME NEW s \in subs PROVE boundConsumers'[s.queue] = s.by
      BY <1>2 DEF SubsRemembered
    <2>1. s.by \in Runs /\ s.queue \in Queues /\ s.chan \in open
      BY SubsTyped DEF SubsOpen
    <2>2. CASE boundConsumers[s.queue] = s.by
      BY <1>2, <2>1, <2>2, RunIsNoNoRun DEF NotBoundYet
    <2>3. CASE binders[s.by].pc = "replied" /\ Sub(s.by) = s
      <3>1. s.by = b
        BY <1>2, <2>1, <2>3 DEF OneRun, Active
      <3>2. s.queue = binders[b].queue /\ s.chan = binders[b].chan
        BY <2>3, <3>1 DEF Sub
      <3>3. Current(b)
        BY <1>2, <2>1, <3>2 DEF OpenIsCurrent
      <3> QED
        BY <1>2, <2>1, <3>1, <3>2, <3>3
    <2> QED
      BY <2>2, <2>3 DEF SubsRemembered
  <1>9. SubsOpen' /\ AttachedCurrent'
    BY <1>2 DEF SubsOpen, AttachedCurrent
  <1>10. disposal.pc \notin {"waiting", "replied", "done"}
    BY <1>2 DEF Cancelling, Cancelled
  <1>11. Cancelling' /\ Cancelled'
    BY <1>2, <1>10 DEF Cancelling, Cancelled
  <1> QED
    BY <1>5, <1>6, <1>7, <1>8, <1>9, <1>11

(* Cancelling, with nothing else under way, and all subscriptions listed.  *)
LEMMA CancelSerial ==
  ASSUME TypeOK, BindInv, SerialInv, NEW left \in SUBSET (Queues \X Runs), Cancel(left, channel),
         UNCHANGED <<binders, links, subs>>,
         disposal.pc # "done",
         \A b \in Runs : ~Active(b),
         \A k \in Channels : creates[k] \notin Pending,
         \A s \in subs : <<s.queue, s.by>> \in left
  PROVE  SerialInv'
  <1> USE DEF SerialInv, OneByOne, SubsAccounted, DisposeInv
  <1>1. UNCHANGED <<up, open, creates>>
    BY DEF links
  <1>2. channel \notin open => open = {}
    <2> SUFFICES ASSUME NEW k \in open PROVE channel = k
      OBVIOUS
    <2>1. k \in Channels /\ creates[k] \in CreatePlaces
      BY DEF TypeOK, CreatePlaces
    <2>2. creates[k] \in {"attached", "failed"}
      BY <2>1 DEF BindInv, LinkInv, OpenedOnce, CreatePlaces, Pending
    <2> QED
      BY <2>2 DEF AttachedCurrent
  <1>3. \A b \in Runs : ~Active(b)'
    BY DEF Active
  <1>4. OneByOne'
    BY <1>1, <1>3 DEF OneRun, CreateAlone, OpenIsCurrent, NotBoundYet
  <1>5. SubsOpen'
    BY <1>1 DEF SubsOpen
  <1>6. CASE left = {}
    <2>1. disposal' = [pc |-> "done"] /\ consumers' = <<>>
      BY <1>6 DEF Cancel
    <2>2. subs' = {} /\ disposal'.pc = "done"
      BY <1>6, <2>1
    <2> QED
      BY <1>3, <1>4, <1>5, <2>1, <2>2 DEF SubsRemembered, AttachedCurrent, Cancelling, Cancelled
  <1>7. CASE left # {}
    <2>0. UNCHANGED <<boundConsumers, generation, consumers, channel>>
      BY <1>7 DEF Cancel
    <2>1. SubsRemembered' /\ AttachedCurrent'
      BY <1>1, <2>0 DEF SubsRemembered, AttachedCurrent, Sub
    <2>2. CASE channel = None
      <3>1. disposal'.pc = "failed"
        BY <1>7, <2>2 DEF Cancel
      <3> QED
        BY <1>4, <1>5, <2>1, <3>1 DEF Cancelling, Cancelled
    <2>3. CASE channel # None
      <3>1. PICK next : disposal' = [pc |-> IF channel \in open THEN "waiting" ELSE "replied",
                                     next |-> next, left |-> left, chan |-> channel]
        BY <1>7, <2>3 DEF Cancel
      <3>2. creates[channel] \in {"attached", "failed"}
        BY <2>3 DEF BindInv, LinkInv, AttachedLast
      <3>3. channel \notin open => subs = {}
        BY <1>2 DEF SubsOpen
      <3>4. Cancelling'
        BY <1>1, <1>3, <3>1, <3>2, <3>3 DEF Cancelling, ToCancel
      <3>5. Cancelled'
        BY <3>1 DEF Cancelled
      <3> QED
        BY <1>4, <1>5, <2>1, <3>4, <3>5
    <2> QED
      BY <2>2, <2>3
  <1> QED
    BY <1>6, <1>7

(* dispose() has all the subscriptions there are to cancel;                *)
LEMMA DisposeSerial ==
  ASSUME TypeOK, BindInv, SerialInv, AtRest, Dispose
  PROVE  SerialInv'
  <1> DEFINE bound == {<<q, boundConsumers[q]>> : q \in {x \in Queues : boundConsumers[x] # NoRun}}
             left == IF channel = None THEN {} ELSE bound
  <1>1. Cancel(left, channel) /\ UNCHANGED <<binders, links, subs>> /\ disposal.pc = "no"
    BY DEF Dispose, broker
  <1>2. left \in SUBSET (Queues \X Runs)
    BY DEF TypeOK
  <1>3. /\ \A b \in Runs : ~Active(b)
        /\ \A k \in Channels : creates[k] \notin Pending /\ creates[k] \in {"none", "attached", "failed"}
    BY DEF AtRest, Active, Pending
  <1>4. ASSUME NEW s \in subs PROVE <<s.queue, s.by>> \in left
    <2>1. s.by \in Runs /\ s.queue \in Queues /\ s.chan \in open /\ s.chan \in Channels
      BY SubsTyped DEF SerialInv, SubsAccounted, SubsOpen
    <2>2. boundConsumers[s.queue] = s.by /\ s.by # NoRun
      BY <1>3, <2>1, RunIsNoNoRun DEF SerialInv, SubsAccounted, SubsRemembered, Active
    <2>3. channel = s.chan
      BY <1>1, <1>3, <2>1 DEF SerialInv, SubsAccounted, AttachedCurrent, BindInv, LinkInv, OpenedOnce
    <2> QED
      BY <2>1, <2>2, <2>3, NoneIsNoChannel
  <1> HIDE DEF left
  <1> QED
    BY <1>1, <1>2, <1>3, <1>4, CancelSerial

(* it goes on to the next, or is done when none is left;                   *)
LEMMA DisposeContinueSerial ==
  ASSUME TypeOK, BindInv, SerialInv, DisposeContinue
  PROVE  SerialInv'
  <1>1. /\ disposal.pc = "replied" /\ Cancel(disposal.left \ {disposal.next}, channel)
        /\ UNCHANGED <<binders, links, subs>>
    BY DEF DisposeContinue, broker
  <1>2. disposal.left \ {disposal.next} \in SUBSET (Queues \X Runs)
    BY <1>1, DisposalTyped DEF TypeOK, ActiveDisposal
  <1>3. /\ \A b \in Runs : ~Active(b)
        /\ \A s \in subs : <<s.queue, s.by>> \in disposal.left \ {disposal.next}
    BY <1>1 DEF SerialInv, DisposeInv, Cancelling, ToCancel
  <1>4. \A k \in Channels : creates[k] \notin Pending
    BY <1>1 DEF SerialInv, OneByOne, CreateAlone
  <1> QED
    BY <1>1, <1>2, <1>3, <1>4, CancelSerial

(* and a reply of cancel() ends one.                                       *)
LEMMA CancelOkSerial ==
  ASSUME TypeOK, BindInv, SerialInv, CancelOk
  PROVE  SerialInv'
  <1> USE DEF SerialInv, OneByOne, SubsAccounted, DisposeInv
  <1>1. /\ disposal.pc = "waiting" /\ disposal' = [disposal EXCEPT !.pc = "replied"]
        /\ subs' = {s \in subs : ~(s.chan = disposal.chan /\ <<s.queue, s.by>> = disposal.next)}
        /\ UNCHANGED <<channel, consumers, boundConsumers, generation, binders, up, open, creates>>
    BY DEF CancelOk, binding, links
  <1>2. disposal \in ActiveDisposal
    BY <1>1, DisposalTyped DEF TypeOK
  <1>3. /\ disposal'.pc = "replied" /\ disposal'.left = disposal.left
        /\ disposal'.next = disposal.next /\ disposal'.chan = disposal.chan
    BY <1>1, <1>2 DEF ActiveDisposal
  <1>4. OneByOne'
    BY <1>1, <1>3 DEF OneRun, CreateAlone, OpenIsCurrent, NotBoundYet, Current, Active
  <1>5. SubsOpen' /\ SubsRemembered'
    BY <1>1 DEF SubsOpen, SubsRemembered, Sub
  <1>6. AttachedCurrent'
    BY <1>1 DEF AttachedCurrent
  <1>7. \A s \in subs : s.chan = disposal.chan
    BY <1>1, OneChannel DEF Cancelling, SubsOpen, BindInv
  <1>8. Cancelling'
    BY <1>1, <1>3, <1>7 DEF Cancelling, ToCancel, Active
  <1>9. Cancelled'
    BY <1>3 DEF Cancelled
  <1> QED
    BY <1>4, <1>5, <1>6, <1>8, <1>9

(* Every step of an application that waits keeps the invariant.            *)
LEMMA SerialStep ==
  ASSUME TypeOK, BindInv, SerialInv, ~Overlapping, [SerialNext]_vars
  PROVE  SerialInv'
  <1>0. /\ open \subseteq Channels /\ up \subseteq Channels /\ open \subseteq up
        /\ creates \in [Channels -> CreatePlaces]
    BY DEF TypeOK, CreatePlaces
  <1>1. ASSUME UNCHANGED <<channel, binding, disposal, subs, open, creates>> PROVE SerialInv'
    BY <1>0, <1>1, AsideSerial DEF Pending
  <1>2. CASE UNCHANGED vars
    BY <1>1, <1>2 DEF vars, links, broker
  <1>3. ASSUME NEW m \in Messages, SendToQueue(m) PROVE SerialInv'
    BY <1>1, <1>3 DEF SendToQueue, links, broker
  <1>4. ASSUME NEW n \in Prefetches, Prefetch(n) PROVE SerialInv'
    BY <1>1, <1>4 DEF Prefetch, links, broker
  <1>5. ASSUME NEW s \in subs, NEW d \in Deliveries, Deliver(s, d) PROVE SerialInv'
    BY <1>1, <1>5 DEF Deliver, links
  <1>6. ASSUME SerialNext, NEW q \in Queues, Consume(q) PROVE SerialInv'
    <2>1. q \in Range(consumers') /\ q \notin Range(consumers)
      BY <1>6, ConsumeStarts DEF Consume, Range
    <2>2. AtRest
      BY <1>6, <2>1 DEF SerialNext, Consume
    <2> QED
      BY <1>6, <2>2, ConsumeSerial
  <1>7. ASSUME NEW k \in Channels, ChannelOpened(k) \/ PrefetchReplied(k) \/ SetPrefetch(k)
        PROVE  SerialInv'
    <2>1. /\ UNCHANGED <<channel, binding, disposal, subs>> /\ open \subseteq open'
          /\ open' \subseteq open \cup {k}
          /\ creates[k] \in Pending /\ creates'[k] \in Pending
          /\ \A j \in Channels : j # k => creates'[j] = creates[j]
      BY <1>0, <1>7 DEF ChannelOpened, PrefetchReplied, SetPrefetch, broker, Pending
    <2> QED
      BY <1>0, <2>1, AsideSerial DEF Pending
  <1>8. ASSUME NEW k \in Channels, ConnectionCloses(k) PROVE SerialInv'
    BY <1>8, LostSerial DEF ConnectionCloses
  <1>9. ASSUME NEW b \in Runs, ConsumeRefused(b) PROVE SerialInv'
    <2>1. binders[b].chan \in up
      BY <1>0, <1>9 DEF ConsumeRefused, BindInv, RunInv, RunOK, Active
    <2> QED
      BY <1>9, <2>1, LostSerial DEF ConsumeRefused
  <1>10. ASSUME NEW j \in jobs, NEW outcome, Finish(j, outcome) PROVE SerialInv'
    <2>1. UNCHANGED <<channel, consumers, boundConsumers, generation, up>>
      BY <1>10 DEF Finish
    <2>2. CASE channel \in open /\ Lose(channel)
      BY <1>0, <2>1, <2>2, LostSerial
    <2>3. CASE ~(channel \in open /\ Lose(channel))
      <3>1. UNCHANGED <<open, binders, creates, disposal, subs>>
        BY <1>10, <2>3 DEF Finish, Answer, broker
      <3> QED
        BY <1>1, <2>1, <3>1 DEF binding
    <2> QED
      BY <2>2, <2>3
  <1>11. ASSUME SerialNext, Dispose PROVE SerialInv'
    <2>1. disposal'.pc # "no" /\ disposal.pc = "no"
      BY <1>11 DEF Dispose, Cancel
    <2>2. AtRest
      BY <1>11, <2>1 DEF SerialNext
    <2> QED
      BY <1>11, <2>2, DisposeSerial
  <1>12. ASSUME NEW s \in subs, BrokerCancels(s) PROVE SerialInv'
    BY <1>1, <1>12 DEF BrokerCancels, links
  <1> QED
    BY <1>2, <1>3, <1>4, <1>5, <1>6, <1>7, <1>8, <1>9, <1>10, <1>11, <1>12, ConsumeOkSerial,
       ContinueSerial, AttachSerial, ConnectSerial, CancelOkSerial, DisposeContinueSerial
       DEF SerialNext, Next, JobSucceeds, JobRejects, JobFails

(* It holds at first.                                                      *)
LEMMA SerialInit == Init => SerialInv
  <1> SUFFICES ASSUME Init PROVE SerialInv
    OBVIOUS
  <1>1. /\ \A b \in Runs : ~Active(b)
        /\ \A k \in Channels : creates[k] \notin Pending
        /\ disposal.pc = "no" /\ open = {} /\ subs = {}
    BY DEF Init, Active, Pending
  <1>2. OneByOne
    BY <1>1 DEF OneByOne, OneRun, CreateAlone, OpenIsCurrent, NotBoundYet
  <1>3. SubsAccounted
    BY <1>1 DEF SubsAccounted, SubsOpen, SubsRemembered, AttachedCurrent
  <1>4. DisposeInv
    BY <1>1 DEF DisposeInv, Cancelling, Cancelled
  <1> QED
    BY <1>2, <1>3, <1>4 DEF SerialInv

(* Waiting restricts the application and adds no behaviour.                *)
LEMMA SerialIsSpec == SerialSpec => Spec
  <1>1. [SerialNext]_vars => [Next]_vars
    BY DEF SerialNext
  <1> QED
    BY <1>1, PTL DEF SerialSpec, Spec

(* So the three invariants hold together.                                  *)
LEMMA SerialAlways == ~Overlapping => (SerialSpec => [](TypeOK /\ BindInv /\ SerialInv))
  <1> SUFFICES ASSUME ~Overlapping PROVE SerialSpec => [](TypeOK /\ BindInv /\ SerialInv)
    OBVIOUS
  <1>1. Init => BindInv /\ SerialInv
    BY BindInit, SerialInit
  <1>2. TypeOK /\ BindInv /\ [Next]_vars => BindInv'
    BY BindStep
  <1>3. TypeOK /\ BindInv /\ SerialInv /\ [SerialNext]_vars => SerialInv'
    BY SerialStep
  <1>4. [SerialNext]_vars => [Next]_vars
    BY DEF SerialNext
  <1> QED
    BY <1>1, <1>2, <1>3, <1>4, TypesKept, SerialIsSpec, PTL DEF SerialSpec

(* With one connection at a time, for an application that waits for each   *)
(* call: no queue has two subscriptions on a channel, also after any       *)
(* number of reconnects.  (Two calls of consume() side by side do leave    *)
(* two: nothing is said of them.)                                          *)
LEMMA OneConsumer == ~Overlapping => (SerialSpec => []OneSubscription)
  <1>1. TypeOK /\ SerialInv => OneSubscription
    <2> SUFFICES ASSUME TypeOK, SerialInv, NEW s \in subs, NEW t \in subs,
                        s.chan = t.chan, s.queue = t.queue
                 PROVE  s = t
      BY DEF OneSubscription
    <2> USE DEF SerialInv, OneByOne, SubsAccounted
    <2>1. /\ s \in [by : Runs, queue : Queues, chan : Channels]
          /\ t \in [by : Runs, queue : Queues, chan : Channels]
      BY SubsTyped
    <2>2. \A u \in {s, t} : binders[u.by].pc = "replied" /\ Sub(u.by) = u =>
                              Active(u.by) /\ boundConsumers[u.queue] = NoRun
      BY <2>1 DEF NotBoundYet, Active, Sub
    <2>3. s.by = t.by
      BY <2>1, <2>2, RunIsNoNoRun DEF SubsRemembered, OneRun
    <2> QED
      BY <2>1, <2>3
  <1> QED
    BY <1>1, SerialAlways, PTL

(* Under the same conditions, a disposal that is through leaves no         *)
(* subscription on an open channel: nobody is delivered to whose module is *)
(* gone.                                                                   *)
THEOREM DisposalCancels == ~Overlapping => (SerialSpec => []DisposeCancels)
  <1>1. SerialInv => DisposeCancels
    BY DEF SerialInv, DisposeInv, Cancelled, DisposeCancels
  <1> QED
    BY <1>1, SerialAlways, PTL

(* A consumer at work has its connection; and a tag on a channel is that   *)
(* of one delivery.                                                        *)
JobsUp == \A j \in jobs : j.chan \in up

TagsOnce ==
  /\ \A u \in unacked \cup jobs : u.tag <= lastTag[u.chan]
  /\ \A u, v \in unacked \cup jobs : u.chan = v.chan /\ u.tag = v.tag => u.d = v.d

AnswerInv == JobsUp /\ TagsOnce /\ AnsweredByItsConsumer

(* The fields of what has been delivered.                                  *)
LEMMA TagsTyped ==
  ASSUME TypeOK
  PROVE  /\ \A u \in unacked \cup jobs : u.chan \in Channels /\ u.tag \in Nat /\ u.d \in Deliveries
         /\ lastTag \in [Channels -> Nat]
         /\ message \in [Deliveries -> {"ready", "unacked", "acked", "dropped"}]
  BY DEF TypeOK

(* Taking messages away keeps the tags apart.                              *)
LEMMA FewerTags ==
  ASSUME TagsOnce, unacked' \subseteq unacked, jobs' \subseteq jobs, UNCHANGED lastTag
  PROVE  TagsOnce'
  BY DEF TagsOnce

(* A channel that is lost puts its messages back and drops none.           *)
LEMMA LoseAnswers ==
  ASSUME TypeOK, AnsweredByItsConsumer, NEW k, Lose(k),
         succeeded \subseteq succeeded', rejected \subseteq rejected'
  PROVE  /\ AnsweredByItsConsumer'
         /\ unacked' \subseteq unacked /\ UNCHANGED lastTag
  <1>1. \A d \in Deliveries : message'[d] = "ready" \/ message'[d] = message[d]
    BY DEF Lose
  <1> QED
    BY <1>1 DEF AnsweredByItsConsumer, Lose

(* A delivery has a tag of its own on its channel.                         *)
LEMMA DeliverAnswers ==
  ASSUME TypeOK, TagsOnce, AnsweredByItsConsumer,
         NEW s \in subs, NEW d \in Deliveries, Deliver(s, d)
  PROVE  TagsOnce' /\ AnsweredByItsConsumer'
  <1> DEFINE new == [chan |-> s.chan, tag |-> lastTag[s.chan] + 1, d |-> d]
  <1>1. /\ unacked' = unacked \cup {new} /\ jobs' \in {jobs, jobs \cup {new}}
        /\ lastTag' = [lastTag EXCEPT ![s.chan] = lastTag[s.chan] + 1]
        /\ message' = [message EXCEPT ![d] = "unacked"]
        /\ UNCHANGED <<succeeded, rejected>>
    BY DEF Deliver
  <1>2. s.chan \in Channels /\ lastTag[s.chan] \in Nat
    BY SubsTyped, TagsTyped
  <1>3. /\ unacked' \cup jobs' \subseteq (unacked \cup jobs) \cup {new}
        /\ new.chan = s.chan /\ new.tag = lastTag[s.chan] + 1 /\ new.d = d
    BY <1>1
  <1> HIDE DEF new
  <1>4. \A c \in Channels : lastTag'[c] = IF c = s.chan THEN lastTag[c] + 1 ELSE lastTag[c]
    BY <1>1, TagsTyped
  <1>5. \A u \in unacked \cup jobs : u.tag <= lastTag'[u.chan] /\ ~(u.chan = new.chan /\ u.tag = new.tag)
    <2> SUFFICES ASSUME NEW u \in unacked \cup jobs
                 PROVE  u.tag <= lastTag'[u.chan] /\ ~(u.chan = new.chan /\ u.tag = new.tag)
      OBVIOUS
    <2>1. u.chan \in Channels /\ u.tag \in Nat /\ lastTag[u.chan] \in Nat
          /\ u.tag <= lastTag[u.chan]
      BY TagsTyped DEF TagsOnce
    <2> QED
      BY <1>2, <1>3, <1>4, <2>1
  <1>6. new.tag <= lastTag'[new.chan]
    BY <1>2, <1>3, <1>4
  <1>7. TagsOnce'
    BY <1>3, <1>5, <1>6 DEF TagsOnce
  <1>8. AnsweredByItsConsumer'
    BY <1>1, TagsTyped DEF AnsweredByItsConsumer
  <1> QED
    BY <1>7, <1>8

(* A consumer at work answers its own delivery: its channel is the current *)
(* one, if that is open.                                                   *)
LEMMA FinishAnswers ==
  ASSUME TypeOK, LinkInv, AnswerInv, NEW j \in jobs, NEW outcome, Finish(j, outcome),
         succeeded \subseteq succeeded', rejected \subseteq rejected',
         outcome = "acked" => j.d \in succeeded',
         outcome = "dropped" => j.d \in rejected'
  PROVE  TagsOnce' /\ AnsweredByItsConsumer'
  <1>1. jobs' \subseteq jobs /\ Answer(j.tag, outcome)
    BY DEF Finish
  <1>2. CASE channel \notin open
    <2>1. UNCHANGED broker
      BY <1>1, <1>2 DEF Answer
    <2> QED
      BY <1>1, <2>1, FewerTags DEF broker, AnswerInv, AnsweredByItsConsumer
  <1>3. CASE channel \in open /\ Lose(channel)
    BY <1>1, <1>3, LoseAnswers, FewerTags DEF AnswerInv
  <1>4. CASE channel \in open /\ ~Lose(channel)
    <2> DEFINE answered == {u \in unacked : u.chan = channel /\ u.tag = j.tag}
    <2>1. /\ unacked' = unacked \ answered /\ UNCHANGED lastTag
          /\ message' = [d \in Deliveries |->
                           IF \E u \in answered : u.d = d THEN outcome ELSE message[d]]
      BY <1>1, <1>4 DEF Answer
    <2>2. j.chan = channel
      BY <1>4, OneAtATime DEF AnswerInv, JobsUp, TypeOK
    <2>3. \A u \in answered : u.d = j.d
      BY <2>2 DEF AnswerInv, TagsOnce
    <2>4. \A d \in Deliveries : message'[d] = message[d] \/ (d = j.d /\ message'[d] = outcome)
      BY <2>1, <2>3
    <2>5. AnsweredByItsConsumer'
      BY <2>4 DEF AnswerInv, AnsweredByItsConsumer
    <2> QED
      BY <1>1, <2>1, <2>5, FewerTags DEF AnswerInv
  <1> QED
    BY <1>2, <1>3, <1>4

(* Every step keeps the invariant of answering: a consumer finishes while  *)
(* its channel is the channel of the moment, and its tag names its own     *)
(* message.                                                                *)
LEMMA AnswerStep ==
  ASSUME TypeOK, LinkInv, AnswerInv, [SerialNext]_vars
  PROVE  AnswerInv'
  <1> USE DEF AnswerInv
  <1>1. JobsUp'
    <2>1. CASE SerialNext
      BY <2>1 DEF SerialNext, JobsUp
    <2>2. CASE UNCHANGED vars
      BY <2>2 DEF vars, work, links, JobsUp
    <2> QED
      BY <2>1, <2>2
  <1> SUFFICES TagsOnce' /\ AnsweredByItsConsumer'
    BY <1>1
  <1>2. ASSUME UNCHANGED <<message, unacked, lastTag, work>>
        PROVE  TagsOnce' /\ AnsweredByItsConsumer'
    BY <1>2 DEF work, TagsOnce, AnsweredByItsConsumer
  <1>3. ASSUME NEW k, Lose(k), UNCHANGED work PROVE TagsOnce' /\ AnsweredByItsConsumer'
    BY <1>3, LoseAnswers, FewerTags DEF work
  <1>4. CASE UNCHANGED vars
    BY <1>2, <1>4 DEF vars, broker
  <1>5. ASSUME NEW m \in Messages, SendToQueue(m) PROVE TagsOnce' /\ AnsweredByItsConsumer'
    BY <1>2, <1>5 DEF SendToQueue, broker
  <1>6. ASSUME NEW n \in Prefetches, Prefetch(n) PROVE TagsOnce' /\ AnsweredByItsConsumer'
    BY <1>2, <1>6 DEF Prefetch, broker
  <1>7. ASSUME NEW q \in Queues, Consume(q) PROVE TagsOnce' /\ AnsweredByItsConsumer'
    BY <1>2, <1>7 DEF Consume, broker
  <1>8. ASSUME NEW b \in Runs, ConsumeOk(b) \/ BindContinue(b)
        PROVE  TagsOnce' /\ AnsweredByItsConsumer'
    BY <1>2, <1>8 DEF ConsumeOk, BindContinue, broker
  <1>9. ASSUME NEW b \in Runs, ConsumeRefused(b) PROVE TagsOnce' /\ AnsweredByItsConsumer'
    BY <1>3, <1>9 DEF ConsumeRefused
  <1>10. ASSUME NEW k \in Channels,
                \/ Connect(k) \/ ChannelOpened(k) \/ PrefetchReplied(k)
                \/ SetPrefetch(k) \/ Attach(k)
         PROVE  TagsOnce' /\ AnsweredByItsConsumer'
    BY <1>2, <1>10 DEF Connect, ChannelOpened, PrefetchReplied, SetPrefetch, Attach, broker
  <1>11. ASSUME NEW k \in Channels, ConnectionCloses(k) PROVE TagsOnce' /\ AnsweredByItsConsumer'
    BY <1>3, <1>11 DEF ConnectionCloses
  <1>12. ASSUME NEW s \in subs, NEW d \in Deliveries, Deliver(s, d)
         PROVE  TagsOnce' /\ AnsweredByItsConsumer'
    BY <1>12, DeliverAnswers
  <1>13. ASSUME NEW j \in jobs, JobSucceeds(j) \/ JobRejects(j) \/ JobFails(j)
         PROVE  TagsOnce' /\ AnsweredByItsConsumer'
    BY <1>13, FinishAnswers DEF JobSucceeds, JobRejects, JobFails
  <1>14. CASE Dispose \/ CancelOk \/ DisposeContinue
    BY <1>2, <1>14 DEF Dispose, CancelOk, DisposeContinue, broker
  <1>15. ASSUME NEW s \in subs, BrokerCancels(s) PROVE TagsOnce' /\ AnsweredByItsConsumer'
    BY <1>2, <1>15 DEF BrokerCancels
  <1> QED
    BY <1>4, <1>5, <1>6, <1>7, <1>8, <1>9, <1>10, <1>11, <1>12, <1>13, <1>14, <1>15
       DEF SerialNext, Next

(* Under the same conditions, when consumers do not outlive their          *)
(* connection: a message is acknowledged only after its own consumer       *)
(* finished it, and dropped only after it rejected it.                     *)
THEOREM AnswersOwn == ~Overlapping => (SerialSpec => []AnsweredByItsConsumer)
  <1> SUFFICES ASSUME ~Overlapping PROVE SerialSpec => []AnsweredByItsConsumer
    OBVIOUS
  <1>1. Init => AnswerInv
    BY DEF Init, AnswerInv, JobsUp, TagsOnce, AnsweredByItsConsumer
  <1>2. TypeOK /\ BindInv /\ AnswerInv /\ [SerialNext]_vars => AnswerInv'
    BY AnswerStep DEF BindInv
  <1>3. AnswerInv => AnsweredByItsConsumer
    BY DEF AnswerInv
  <1> QED
    BY <1>1, <1>2, <1>3, SerialAlways, PTL DEF SerialSpec
=============================================================================
