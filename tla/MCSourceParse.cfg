SPECIFICATION Spec
CONSTANTS
  Files <- MCFiles
  Wide = 32
  Slots = 2
  Room = 10
INVARIANTS
  TextsAsOnePass
  KeywordsOutsideTexts
  ArraysKeepRanges
PROPERTY ParseEnds
