CONSTANTS
  p1 = p1
  p2 = p2
  c1 = c1
  c2 = c2
  garbage = garbage
  Producers <- MCProducers
  Consumers <- MCConsumers
  ThrId <- MCThrIdUnset
  QSize = 1
  ItemsPerProducer = 1
  PopsPerConsumer = 1
  Idle = 100
  Garbage <- garbage
SPECIFICATION Spec
INVARIANT PopReturnsPushedItem
