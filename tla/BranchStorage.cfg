SPECIFICATION Spec
CONSTANTS
  Name = {"x"}
  Type = {}
  Offered = {"fn", "(", ")", "LBRACES", "RBRACES", "let", "=", "SEMICOLON", "digit", "if"}
  MaxSymbols = 6
  MaxBlocks = 3
  MaxBodies = 1
  MaxArity = 0
  MaxParens = 0
  MaxStrays = 0
  MaxNesting = 0
  MaxPointers = 0
  UnsetPointerLevel = 0
INVARIANTS
  StorageDominates
VIEW View
CHECK_DEADLOCK FALSE
