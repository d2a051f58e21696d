CONSTANTS
  SectorsPerTrack = 3
  Heads = 2
  FatSectors = 2
  RootSectors = 1
  Stage2Sectors = 4
  KernelSlot = 4
  SegSlots = 6
  Clusters = 3
  Files = 2
  Identity = 8
  Kern = 4
  KernDir = 64
  KernBlock = 4
  Tab0 = 1
  Tab200 = 8
  Tables = 8
SPECIFICATION Spec
INVARIANTS
  SecondStageLoaded
  StackBalanced
  KernelInOrder
  PagingAsDesigned
PROPERTY BootEnds
