SPECIFICATION Spec
CONSTANTS
  Size = {1, 2}
  half <- MChalf
  Floats <- MCFloats
  NaN <- MCNaN
  Payload = {0, 1}
  Functions <- MCFunctions
  Callees <- MCCallees
  Immediates <- MCImmediates
  MaxInstructions = 2
INVARIANTS TypeOK MeansWhatItSays ArgumentsArrive ObjectsBalanced
CHECK_DEADLOCK FALSE
