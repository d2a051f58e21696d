CONSTANTS
  Word = 256
  Room = 12
  Formats <- MCFormats
  Strings <- MCStrings
  Numbers <- MCNumbers
SPECIFICATION SprintfSpec
CHECK_DEADLOCK FALSE
INVARIANTS
  FormatsAsSpecified
  WritesOnlyItsText
