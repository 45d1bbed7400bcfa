SPECIFICATION Spec
CONSTANTS
  Operations = {"variable", "return", "scope", "if", "else", "while", "break"}
  MaxCalls = 4
  MaxDecisions = 3
  type_size <- MCtype_size
INVARIANTS TypeOK LoopsNested JumpsBound SlotsDisjoint FaithfulWhenRegular
CHECK_DEADLOCK FALSE
