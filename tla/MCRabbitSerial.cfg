\* Two consumers and three connections; the application waits for each call.
SPECIFICATION SerialSpec
CONSTANTS
  Messages = {}
  Queues = {q1, q2}
  Deliveries = {d1, d2}
  Prefetches = {}
  Overlapping = FALSE
  MaxChannels = 3
  MaxTag = 3
  QueueOf <- MCQueueOf
  d1 = d1
  d2 = d2
  q1 = q1
  q2 = q2
INVARIANTS
  OneSubscription
  DisposeCancels
  AnsweredByItsConsumer
\* With its connections used up, the channel stops.
CHECK_DEADLOCK FALSE
