SPECIFICATION Spec
CONSTANTS
  Operations = {"while", "return"}
  MaxCalls = 2
  MaxDecisions = 2
  type_size <- MCtype_size
INVARIANT ConditionsEvaluated
CHECK_DEADLOCK FALSE
