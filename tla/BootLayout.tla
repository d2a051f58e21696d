----------------------------- MODULE BootLayout -----------------------------
(***************************************************************************)
(* Where the boot finds things: the geometry and the FAT12 layout of the   *)
(* floppy disk, the memory the second stage loads into, and the page       *)
(* tables of the kernel.  Sectors, segments and pages are counted, the     *)
(* names are those of the assembler constants where they have one.         *)
(***************************************************************************)
EXTENDS Integers

CONSTANTS
  SectorsPerTrack,   \* 18
  Heads,             \* NUM_OF_HEAD, 2
  FatSectors,        \* SECTORS_PER_FAT, 9
  RootSectors,       \* SECTORS_FOR_ROOT_DIR, 14
  Stage2Sectors      \* sectors of ntmio.sys the boot sector loads, 7

CONSTANTS
  KernelSlot,        \* KERNEL_FILE_BASE_MEM_ADDR, in sectors
  SegSlots,          \* sectors in 64 KB, where bx wraps to 0
  Clusters,          \* clusters 2 .. Clusters + 1 exist
  Files              \* entries of the root directory, 224

CONSTANTS
  Identity,          \* directory entries of the identity mapping, 40h
  Kern,              \* directory entries of the kernel mapping, 20h
  KernDir,           \* PAGE_DIR_KERN_LINEAR_START_INDEX, 200h
  KernBlock,         \* the 4 MB block of KERN_BASE_PHY_ADDR, 20h
  Tab0,              \* page of PAGE_TAB_0_ADDR behind the directory, 1
  Tab200,            \* page of PAGE_TAB_200_ADDR, 40h
  Tables             \* tables the second filling loop fills, 40h

ASSUME GeometryAssumption ==
  /\ SectorsPerTrack \in Nat \ {0} /\ Heads \in Nat \ {0}
  /\ FatSectors \in Nat \ {0} /\ RootSectors \in Nat \ {0}
  /\ Stage2Sectors \in Nat \ {0}

ASSUME LoadAssumption ==
  /\ Clusters \in Nat \ {0} /\ Clusters + 1 < 4080 /\ Files \in Nat \ {0}
  /\ KernelSlot \in Nat /\ SegSlots \in Nat /\ KernelSlot >= FatSectors + RootSectors /\ SegSlots > KernelSlot

ASSUME PagesAssumption ==
  /\ Identity \in Nat \ {0} /\ Kern \in Nat \ {0} /\ Tables \in Nat
  /\ KernDir \in Nat /\ KernDir >= Identity /\ KernBlock \in Nat
  /\ Tab0 \in Nat \ {0} /\ Tab200 \in Nat /\ Tab0 + KernBlock <= Tab200
  /\ KernBlock <= Identity /\ Kern <= Tables /\ Tab0 + Identity <= Tab200 + Tables

\* The boot sector, two tables and the root directory come first.
FirstData == 1 + 2 * FatSectors + RootSectors

\* Deviation of ChsOf: sectors counted from zero.
ChsFromZero(lba) ==
  [c |-> (lba \div SectorsPerTrack) \div Heads,
   h |-> (lba \div SectorsPerTrack) % Heads,
   s |-> lba % SectorsPerTrack]

\* The two divisions in front of int 13h.
ChsOf(lba) ==
  [c |-> (lba \div SectorsPerTrack) \div Heads,
   h |-> (lba \div SectorsPerTrack) % Heads,
   s |-> (lba % SectorsPerTrack) + 1]

\* The sector a drive transfers for an address; none when it has no such
\* sector.
SectorAt(a) ==
  IF a.h \in 0 .. Heads - 1 /\ a.s \in 1 .. SectorsPerTrack
  THEN (a.c * Heads + a.h) * SectorsPerTrack + a.s - 1
  ELSE -1
=============================================================================
