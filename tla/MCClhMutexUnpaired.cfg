CONSTANTS
  t1 = t1
  t2 = t2
  t3 = t3
  n1 = n1
  n2 = n2
  n3 = n3
  n4 = n4
  Threads <- MCThreads
  Nodes <- MCNodes
SPECIFICATION SpecWithUnpairedUnlock
INVARIANT MutualExclusion
