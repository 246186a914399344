SPECIFICATION Spec
CONSTANTS
  Operand = {"id", "digit"}
  Operator = {"=", "*", "+", "COMMA"}
  MaxTokens = 9
  MaxParens = 2
INVARIANTS
  TypeOK
  EverythingIsKept
  PrioritiesAreKept
  LeftFirst
  StatementsComplete
PROPERTIES
  LoopsImplementParser
  SolvingEnds
CHECK_DEADLOCK FALSE
