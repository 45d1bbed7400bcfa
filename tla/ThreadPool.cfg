\* Two workers, two tasks and a group of two, one cleanup before the destructor.
SPECIFICATION FairSpec
CONSTANTS
  w1 = w1  w2 = w2  t1 = t1  t2 = t2  t3 = t3  t4 = t4
  Workers <- MCWorkers
  Tasks <- MCTasks
  Priority <- MCPriority
  Group <- MCGroup
  MaxFlag = 3
  MaxReuse = 1
INVARIANTS TypeOK HeapHoldsQueue FlagCovered SomebodyWakes AtMostOneOvertakes
PROPERTIES MostUrgentFirst TasksRun CleanupEnds
CHECK_DEADLOCK FALSE
