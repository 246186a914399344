SPECIFICATION Spec
CONSTANTS
  Letters = 2
  KeyWord = {"IF", "FN"}
  OtherToken = {"ADD"}
  LongestSaved = 1
  MaxWord = 2
  MaxWords = 2
  MaxFile = 2
INVARIANTS
  TypeOK
PROPERTIES
  RoundTrip
  SaveTellsTheTruth
  TokensAreFinal
  NodesLeadToWords
