CONSTANTS
  w1 = w1
  w2 = w2
  c1 = c1
  c2 = c2
  c3 = c3
  m1 = m1
  m2 = m2
  m3 = m3
  NULL = NULL
  Indeterminate = Indeterminate
  Phases <- MCPhases
  Threads <- MCThreads
  ClhNodes <- MCClhNodes
  MpscNodes <- MCMpscNodes
  Tid <- MCTid
  Width = 1
  MaxIndex = 3
  ArraySize = 2
  ArrayWidth = 1
SPECIFICATION Spec
INVARIANT TypeOK
INVARIANT MutualExclusion
INVARIANT LocksMemorySafe
INVARIANT NoErrorPrinted
PROPERTY ImplementsFifoMutex
PROPERTY MainReturns
