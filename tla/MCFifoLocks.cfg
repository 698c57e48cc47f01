CONSTANTS
  t1 = t1
  t2 = t2
  t3 = t3
  n1 = n1
  n2 = n2
  n3 = n3
  n4 = n4
  NULL = NULL
  Indeterminate = Indeterminate
SPECIFICATION Spec
INVARIANT TypeOK
INVARIANT MutualExclusion
INVARIANT NodesMemorySafe
PROPERTY StarvationFree
PROPERTY ImplementsFifoMutex
