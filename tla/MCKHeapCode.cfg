CONSTANTS
  P = 5
  PageSize = 2
  Header = 1
  Word = 16
  Sizes = {1, 4, 9}
  c1 = c1
  c2 = c2
  Client <- MCClient
SPECIFICATION CodeSpec
INVARIANTS
  BlocksDisjoint
  MarkedExactly
  NullMeansNoRoom
  BlockHoldsRequest
PROPERTIES
  LiveBlocksStable
  Terminates
  ImplementsHeap
