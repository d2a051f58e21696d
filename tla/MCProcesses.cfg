CONSTANTS
  N = 5
  MaxId = 11
  MaxIdMisfreed = 9
  Nil = Nil
  N_GDT_ENTRIES = 8192
  TableBase <- MCTableBase
SPECIFICATION PSpec
INVARIANTS
  ListInv
  StatusMatchesQueue
  NoTaskOnFreedStack
  ProcessorRunsCurrent
  UserMemoryOfCurrent
PROPERTY ImplementsRoundRobin
