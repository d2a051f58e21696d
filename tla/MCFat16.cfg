CONSTANTS
  Words = 4
  Byte = 4
  Sectors = 100
  none = none
  NoDisk = none
  misread = misread
  Misread = misread
  Machine <- MCMachine
  Name <- MCName
  MaxName = 2
  EntrySize = 4
  BufSize = {3, 8, 14}
  Wrap = 65536
SPECIFICATION Spec
INVARIANTS
  ReadDelivers
  KernelHasRoot
  BufferNotOverrun
  SmallFilesRead
