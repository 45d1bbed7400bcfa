\* README.md:163, on one thread.
SPECIFICATION Spec
CONSTANTS
  t1 = t1  t2 = t2  i1 = i1  i2 = i2
  Instances <- MCInstances
  Threads <- MCOneThread
  Main = t1
  Callees <- MCCallees
  Outcome <- MCCode
  None = None
  Null = Null
  MaxBody = 1
  MaxDepth = 2
INVARIANT RecompileTakesEdits
CHECK_DEADLOCK FALSE
