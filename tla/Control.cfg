SPECIFICATION Spec
CONSTANTS
  Name = {"f"}
  Type = {}
  Offered = {"fn", "(", ")", "LBRACES", "RBRACES", "digit", "SEMICOLON", "if", "else", "while", "return", "enter"}
  MaxSymbols = 10
  MaxBlocks = 9
  MaxBodies = 1
  MaxArity = 0
  MaxParens = 0
  MaxStrays = 0
  MaxNesting = 1
  MaxPointers = 0
  UnsetPointerLevel = 0
INVARIANTS
  StacksMatch
  ScopesMatchStatuses
  CondsMatchStack
  ReturnedMeansTerminated
  OnlyInnermostReturned
  OneTerminatorButLoops
  OnlyEndStaysOpen
PROPERTIES
  CodeIsStructured
  SkippingNeverFails
VIEW View
CHECK_DEADLOCK FALSE
