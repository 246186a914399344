SPECIFICATION Spec
CONSTANTS
  Operand = {"id"}
  Operator = {"*", "+", "<", "=="}
  MaxTokens = 12
  MaxParens = 0
INVARIANTS
  PrecedenceIsKept
CHECK_DEADLOCK FALSE
