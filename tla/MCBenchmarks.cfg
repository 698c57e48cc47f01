CONSTANTS
  NULL = NULL
SPECIFICATION Spec
INVARIANT TypeOK
INVARIANT QueueIsFifo
INVARIANT ConsumerDrainsBeforeStop
INVARIANT NoUseAfterFree
PROPERTY ReturnedNodeUntouched
PROPERTY Termination
