SPECIFICATION Spec
CONSTANTS
  Name = {"i32"}
  Type = {"i32"}
  Offered = {"fn", "(", ")", "LBRACES", "RBRACES", ":", "COMMA", "->", "return", "SEMICOLON", "digit", "=", "let"}
  MaxSymbols = 6
  MaxBlocks = 4
  MaxBodies = 2
  MaxArity = 2
  MaxParens = 1
  MaxStrays = 0
  MaxNesting = 1
  MaxPointers = 0
  UnsetPointerLevel = 0
INVARIANTS
  TypeOK
  BranchesStayInFunction
PROPERTIES
  CodeIsStructured
  FilledCodeGrowsAtRootOnly
VIEW View
CHECK_DEADLOCK FALSE
