SPECIFICATION Spec
CONSTANTS
  Name = {"x"}
  Type = {}
  Offered = {"fn", "(", ")", "LBRACES", "let", "=", "*", "COMMA", "SEMICOLON", "return"}
  MaxSymbols = 7
  MaxBlocks = 2
  MaxBodies = 1
  MaxArity = 0
  MaxParens = 2
  MaxStrays = 2
  MaxNesting = 1
  MaxPointers = 2
  UnsetPointerLevel = 1
INVARIANTS
  StacksMatch
  NothingLeaks
PROPERTIES
  PrioritiesArePaired
VIEW View
CHECK_DEADLOCK FALSE
