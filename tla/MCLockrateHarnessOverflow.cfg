CONSTANTS
  NProducers = 2
  NConsumers = 2
  NMessages = 2
  Randomize = TRUE
  NULL = NULL
SPECIFICATION Spec
INVARIANT SentinelInBounds
