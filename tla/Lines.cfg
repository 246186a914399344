SPECIFICATION FairSpec
CONSTANTS
  Letter = {"f", "i", "u"}
  Other = {"X"}
  Punct = {"-", "+", "=", ">", "."}
  Space = {"CR"}
  Keywords <- NestedKeywords
  MaxColumns = 3
  MaxLines = 2
INVARIANTS
  TypeOK
  LinesAreCounted
  EndOfSource
  UndefinedOnlyOffTheTrie
PROPERTIES
  NothingIsLost
  TokensAreWhole
  KeywordsAreRecognised
  Progress
  EventuallyEnds
CHECK_DEADLOCK FALSE
