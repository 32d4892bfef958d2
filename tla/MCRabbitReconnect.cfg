\* A consumer that outlives its connection.
SPECIFICATION Spec
CONSTANTS
  Messages = {}
  Queues = {q1}
  Deliveries = {d1, d2}
  Prefetches = {}
  Overlapping = FALSE
  MaxChannels = 2
  MaxTag = 2
  QueueOf <- MCQueueOf
  d1 = d1
  d2 = d2
  q1 = q1
  q2 = q2
INVARIANTS
  AnsweredByItsConsumer
\* With its connections used up, the channel stops.
CHECK_DEADLOCK FALSE
