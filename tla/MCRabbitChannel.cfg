\* Publishing, two counts and consumers, with calls at any moment; of two connections the second stays.
SPECIFICATION StableSpec
CONSTANTS
  Messages = {1, 2}
  Queues = {q1, q2}
  Deliveries = {}
  Prefetches = {1, 2}
  Overlapping = FALSE
  MaxChannels = 2
  MaxTag = 1
  QueueOf <- MCQueueOf
  d1 = d1
  d2 = d2
  q1 = q1
  q2 = q2
INVARIANTS
  TypeOK
  PublishedInOrder
  ConsumersBound
  PrefetchApplied
PROPERTIES
  Flushed
  Resubscribed
\* With its connections used up, the channel stops.
CHECK_DEADLOCK FALSE
