\* The threads do stop: the holder waits for itself and every later lock()
\* waits behind it.  The run checks the property that says it should not.
CONSTANTS
  t1 = t1
  t2 = t2
  t3 = t3
  Threads <- MCThreads
  Tid <- MCTid
SPECIFICATION SpecWithReentry
PROPERTY ReentryReturns
CHECK_DEADLOCK FALSE
