SPECIFICATION Spec
CONSTANTS
  Name = {"x"}
  Type = {}
  Offered = {"fn", "(", ")", "LBRACES", "RBRACES", "let", "=", "SEMICOLON", "digit", "if", "while"}
  MaxSymbols = 6
  MaxBlocks = 6
  MaxBodies = 1
  MaxArity = 0
  MaxParens = 0
  MaxStrays = 0
  MaxNesting = 0
  MaxPointers = 0
  UnsetPointerLevel = 0
INVARIANTS
  StorageOfOpenScopeDominates
VIEW View
CHECK_DEADLOCK FALSE
