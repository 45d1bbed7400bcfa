\* Two threads, two instances that call each other, two levels of calls.
SPECIFICATION Spec
CONSTANTS
  t1 = t1  t2 = t2  i1 = i1  i2 = i2
  Instances <- MCInstances
  Threads <- MCThreads
  Main = t1
  Callees <- MCCallees
  Outcome <- MCOutcome
  None = None
  Null = Null
  MaxBody = 1
  MaxDepth = 2
INVARIANTS TypeOK EntriesAgree FramesLive JumpsLand NoLeak
CHECK_DEADLOCK FALSE
