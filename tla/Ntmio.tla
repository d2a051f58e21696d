------------------------------- MODULE Ntmio --------------------------------
(***************************************************************************)
(* The second stage of the boot (ntmio.sys.nas), up to the jump into the   *)
(* kernel: it loads the file allocation table and the root directory of    *)
(* the FAT12 floppy disk, finds KERNEL.SYS and loads its clusters in the   *)
(* order of the chain.                                                     *)
(*                                                                         *)
(* Memory is counted in sectors; es:bx addresses it in segments of SegSlots*)
(* sectors.  read_sector is cut at int 13h, so that the stack it leaves is *)
(* seen: it pushes dx at every try and pops it once.                       *)
(***************************************************************************)
EXTENDS BootLayout, Sequences

VARIABLES
  pc,        \* where the loader is
  ax, bx, cx, dx,   \* registers: sector or cluster, buffer, counters
  es,        \* the segment, counted in units of SegSlots
  stack,     \* the words on the stack, last first
  mem,       \* [Slot -> sector]: what was loaded where
  fat,       \* [Cluster -> entry]: the file allocation table on the disk
  dir,       \* [entry -> [match, start]]: the root directory on the disk
  failed     \* history: a read was reported as failed

vars == <<pc, ax, bx, cx, dx, es, stack, mem, fat, dir, failed>>

Cluster == 2 .. Clusters + 1
EndOfFile == 4095                   \* any entry above 0xfef ends a chain
Slot == 0 .. KernelSlot + Clusters + FatSectors - 1
NoSector == -1
Junk == -2                          \* a register int 13h or a division wrote
FatReturn == -11                    \* the addresses behind the three calls
RootReturn == -12
KernelReturn == -13

\* The clusters that follow cluster c, and whether the chain ends.
Follow(f, c) ==
  LET at[k \in 0 .. Clusters] ==
        IF k = 0 THEN c
        ELSE IF at[k - 1] \in Cluster THEN f[at[k - 1]] ELSE EndOfFile
  IN  at
ChainEnds(f, c) == Follow(f, c)[Clusters] = EndOfFile

Init ==
  /\ pc = "fat" /\ ax = 1 /\ bx = 0 /\ cx = FatSectors /\ dx = Junk
  /\ es = 0 /\ stack = <<>>
  /\ mem = [s \in Slot |-> NoSector]
  /\ fat \in [Cluster -> Cluster \cup {EndOfFile}]
  /\ dir \in [0 .. Files - 1 -> [match : {9, 10}, start : Cluster]]
  /\ \A c \in Cluster : ChainEnds(fat, c)
  /\ failed = FALSE

-----------------------------------------------------------------------------
(* The table.                                                              *)

\* The table as the disk holds it: two entries of 12 bits in three bytes.
FatByte(f, i) ==
  LET e(c) == IF c \in Cluster THEN f[c] ELSE 0
      c == 2 * (i \div 3)
  IN  CASE i % 3 = 0 -> e(c) % 256
        [] i % 3 = 1 -> (e(c) \div 256) + 16 * (e(c + 1) % 16)
        [] i % 3 = 2 -> e(c + 1) \div 16

\* The entry of cluster c: the word at byte 12 * c / 8, shifted right by the
\* rest of that division (0 or 4), cut to 12 bits.
NextCluster(f, c) ==
  LET o == (12 * c) \div 8
      word == FatByte(f, o) + 256 * FatByte(f, o + 1)
      shift == (12 * c) % 8
  IN  (word \div (2 ^ shift)) % 4096

-----------------------------------------------------------------------------
(* read_sector.                                                            *)

\* CALL read_sector from place p, with the sector in ax: push the return
\* address and cx, and clear the try counter.
Call(p, sector) ==
  /\ ax' = sector /\ cx' = 0
  /\ stack' = <<cx, p>> \o stack
  /\ pc' = "try"

\* .read_a_sec: push dx, ax, cx and bx, compute the address in cx and dx, pop
\* bx.
Try ==
  /\ pc = "try"
  /\ stack' = <<cx, ax, dx>> \o stack
  /\ dx' = Junk
  /\ pc' = "int13"
  /\ UNCHANGED <<ax, bx, cx, es, mem, fat, dir, failed>>

\* The return address is a word like any other.
Return(w) ==
  pc' = CASE w = FatReturn -> "fatReturn"
          [] w = RootReturn -> "rootReturn"
          [] w = KernelReturn -> "kernelReturn"
          [] OTHER -> "wild"

\* int 13h succeeds: pop cx, ax, dx and cx, and return.
Success ==
  /\ pc = "int13"
  /\ mem' = [mem EXCEPT ![es * SegSlots + bx] = SectorAt(ChsOf(stack[2]))]
  /\ ax' = stack[2] /\ dx' = stack[3] /\ cx' = stack[4]
  /\ Return(stack[5])
  /\ stack' = SubSeq(stack, 6, Len(stack))
  /\ UNCHANGED <<bx, es, fat, dir, failed>>

\* int 13h reports an error: pop the counter; give up at 3, else reset the
\* drive, pop the block number and try again.
Error ==
  /\ pc = "int13"
  /\ failed' = TRUE
  /\ cx' = stack[1] + 1
  /\ IF cx' = 3
     THEN pc' = "halted" /\ stack' = Tail(stack) /\ UNCHANGED ax
     ELSE pc' = "try" /\ ax' = stack[2] /\ stack' = SubSeq(stack, 3, Len(stack))
  /\ UNCHANGED <<bx, dx, es, mem, fat, dir>>

-----------------------------------------------------------------------------
(* The loader.                                                             *)

\* load_fat: one sector after the other while cx counts down.
LoadFat ==
  /\ pc = "fat"
  /\ IF cx = 0
     THEN /\ pc' = "root" /\ bx' = FatSectors
          /\ cx' = RootSectors /\ ax' = 1 + 2 * FatSectors
          /\ UNCHANGED stack
     ELSE Call(FatReturn, ax) /\ UNCHANGED bx
  /\ UNCHANGED <<dx, es, mem, fat, dir, failed>>

\* load_root_dir
LoadRootDir ==
  /\ pc = "root"
  /\ IF cx = 0
     THEN pc' = "search" /\ UNCHANGED <<ax, cx, stack>>
     ELSE Call(RootReturn, ax)
  /\ UNCHANGED <<bx, dx, es, mem, fat, dir, failed>>

\* DEC cx, INC ax, and the next 512 bytes.
NextOfTable ==
  /\ pc \in {"fatReturn", "rootReturn"}
  /\ pc' = IF pc = "fatReturn" THEN "fat" ELSE "root"
  /\ cx' = cx - 1 /\ ax' = ax + 1 /\ bx' = bx + 1
  /\ UNCHANGED <<dx, es, stack, mem, fat, dir, failed>>

\* REPE CMPSB leaves cx at 0 when it came to the last of the 11 characters,
\* whether that one is equal or not.
IsKernel(e) == dir[e].match >= 10

\* load_kernel_file: the first entry that matches, or hlt for ever.
LoadKernelFile ==
  /\ pc = "search"
  /\ IF \E e \in DOMAIN dir : IsKernel(e)
     THEN \E e \in DOMAIN dir :
            /\ IsKernel(e) /\ \A d \in 0 .. e - 1 : ~IsKernel(d)
            /\ dx' = dir[e].start
            /\ pc' = "kernel" /\ bx' = KernelSlot /\ UNCHANGED <<ax, cx>>
     ELSE pc' = "halted" /\ UNCHANGED <<ax, bx, cx, dx>>
  /\ UNCHANGED <<es, stack, mem, fat, dir, failed>>

\* .load_kernel_to_mem_loop up to the call.
LoadCluster ==
  /\ pc = "kernel"
  /\ Call(KernelReturn, dx + FirstData - 2)
  /\ UNCHANGED <<bx, dx, es, mem, fat, dir, failed>>

\* Deviation of NextOfKernel: es stays where it is when bx wraps.
NextKeepsSegment ==
  /\ pc = "kernelReturn"
  /\ LET c == NextCluster(fat, dx) IN
       IF c > 4079
       THEN pc' = "kernelLoaded" /\ UNCHANGED <<dx, bx, es>>
       ELSE /\ pc' = "kernel" /\ dx' = c
            /\ bx' = (bx + 1) % SegSlots
            /\ UNCHANGED es
  /\ UNCHANGED <<ax, cx, stack, mem, fat, dir, failed>>

\* The rest of the loop: the next cluster, and the next 512 bytes, in the next
\* segment when bx has come to its end.
NextOfKernel ==
  /\ pc = "kernelReturn"
  /\ LET c == NextCluster(fat, dx) IN
       IF c > 4079
       THEN pc' = "kernelLoaded" /\ UNCHANGED <<dx, bx, es>>
       ELSE /\ pc' = "kernel" /\ dx' = c
            /\ bx' = (bx + 1) % SegSlots
            /\ es' = IF bx' = 0 THEN es + 1 ELSE es
  /\ ax' = Junk /\ cx' = Junk
  /\ UNCHANGED <<stack, mem, fat, dir, failed>>

\* The jump to the kernel, hlt, or an address read_sector found on the stack.
Over == pc \in {"kernelLoaded", "halted", "wild"} /\ UNCHANGED vars

Next ==
  \/ LoadFat \/ LoadRootDir \/ NextOfTable \/ LoadKernelFile
  \/ LoadCluster \/ NextOfKernel \/ Try \/ Success \/ Error \/ Over

Spec == Init /\ [][Next]_vars

-----------------------------------------------------------------------------
(* Properties.                                                             *)

\* Type invariant: the registers hold what each place of the loader expects,
\* in particular dx a cluster while the kernel is loaded.
TypeOK ==
  /\ cx \in -2 .. FatSectors + RootSectors + Clusters
  /\ ax \in -2 .. FirstData + Clusters
  /\ bx \in 0 .. SegSlots - 1 /\ es \in 0 .. Clusters
  /\ pc \in {"kernel", "kernelReturn"} => dx \in Cluster
  /\ mem \in [Slot -> -1 .. FirstData + Clusters]
  /\ stack \in Seq(Int)
  /\ failed \in BOOLEAN

\* The entry the search stops at.
KernelEntry == CHOOSE e \in DOMAIN dir : IsKernel(e) /\ \A d \in 0 .. e - 1 : ~IsKernel(d)

\* When the loader jumps, the table and the directory it used were those of the
\* disk, the clusters of the file lie one behind the other from the address it
\* jumps to, across the end of a segment too, and no cluster of the chain is
\* missing (ntmio.sys.nas:34-117).
KernelInOrder ==
  pc = "kernelLoaded" =>
    LET chain == Follow(fat, dir[KernelEntry].start) IN
    /\ \A s \in 0 .. FatSectors - 1 : mem[s] = 1 + s
    /\ \A s \in 0 .. RootSectors - 1 : mem[FatSectors + s] = 1 + 2 * FatSectors + s
    /\ \A k \in 0 .. Clusters - 1 :
         mem[KernelSlot + k] =
           IF chain[k] = EndOfFile THEN NoSector ELSE FirstData + chain[k] - 2

\* "On success, return to caller."
ReturnsToCaller == pc # "wild"

\* The parts of the inductive invariant.  What is loaded of the table, the
\* directory and the kernel:
KernelChain == Follow(fat, dir[KernelEntry].start)
FatIn(m, k) == \A s \in 0 .. k - 1 : m[s] = 1 + s
RootIn(m, k) == \A s \in 0 .. k - 1 : m[FatSectors + s] = 1 + 2 * FatSectors + s
NoKernel(m) == \A i \in 0 .. Clusters - 1 : m[KernelSlot + i] = NoSector
KernelIn(m, chain, k) ==
  \A i \in 0 .. Clusters - 1 :
    m[KernelSlot + i] = IF i < k THEN FirstData + chain[i] - 2 ELSE NoSector

\* The registers in the three loops, when the count is c or cluster k of the
\* chain, d, is next, and done sectors are loaded.
AtFat(c, done) ==
  /\ c \in 0 .. FatSectors /\ bx = FatSectors - c /\ ax = 1 + bx /\ es = 0
  /\ FatIn(mem, done) /\ NoKernel(mem)

AtRoot(c, done) ==
  /\ c \in 0 .. RootSectors /\ bx = FatSectors + RootSectors - c
  /\ ax = 1 + FatSectors + bx /\ es = 0
  /\ FatIn(mem, FatSectors) /\ RootIn(mem, done) /\ NoKernel(mem)

AtKernel(k, d, done) ==
  /\ k \in 0 .. Clusters - 1 /\ d = KernelChain[k]
  /\ \A i \in 0 .. k : KernelChain[i] \in Cluster
  /\ es \in Nat /\ bx \in 0 .. SegSlots - 1 /\ es * SegSlots + bx = KernelSlot + k
  /\ FatIn(mem, FatSectors) /\ RootIn(mem, RootSectors) /\ KernelIn(mem, KernelChain, done)

\* read_sector was called from p, with c in cx and d in dx.
Calling(p, c, d) ==
  \/ p = FatReturn /\ c # 0 /\ AtFat(c, bx)
  \/ p = RootReturn /\ c # 0 /\ AtRoot(c, RootSectors - c)
  \/ p = KernelReturn /\ ax = d + FirstData - 2 /\ \E k \in 0 .. Clusters - 1 : AtKernel(k, d, k)

\* The inductive invariant.  Once a read has failed, the words that may come to
\* be taken for the return address are no return address of the loader.
Returns == {FatReturn, RootReturn, KernelReturn}
Word == Int \ Returns

IInv ==
  /\ fat \in [Cluster -> Cluster \cup {EndOfFile}] /\ \A c \in Cluster : ChainEnds(fat, c)
  /\ dir \in [0 .. Files - 1 -> [match : {9, 10}, start : Cluster]]
  /\ mem \in [Slot -> Int] /\ stack \in Seq(Int)
  /\ ax \in Int /\ cx \in Int /\ dx \in Word /\ failed \in BOOLEAN
  /\ failed => pc \in {"try", "int13", "halted", "wild"}
  /\ failed /\ pc = "try" => Len(stack) >= 2 /\ stack[1] \in Word /\ stack[2] \in Word
  /\ failed /\ pc = "int13" => Len(stack) >= 5 /\ \A i \in 3 .. 5 : stack[i] \in Word
  /\ ~failed /\ pc = "try" =>
       /\ cx = 0 /\ stack = <<stack[1], stack[2]>> /\ stack[1] \in Word
       /\ stack[2] \in Returns /\ Calling(stack[2], stack[1], dx)
  /\ ~failed /\ pc = "int13" =>
       /\ stack = <<0, ax, stack[3], stack[4], stack[5]>>
       /\ stack[3] \in Word /\ stack[4] \in Word
       /\ stack[5] \in Returns /\ Calling(stack[5], stack[4], stack[3])
  /\ pc \notin {"try", "int13", "halted", "wild"} => stack = <<>>
  /\ pc = "fat" => AtFat(cx, bx)
  /\ pc = "fatReturn" => cx # 0 /\ AtFat(cx, bx + 1)
  /\ pc = "root" => AtRoot(cx, RootSectors - cx)
  /\ pc = "rootReturn" => cx # 0 /\ AtRoot(cx, RootSectors - cx + 1)
  /\ pc = "search" =>
       /\ cx \in Word /\ es = 0
       /\ FatIn(mem, FatSectors) /\ RootIn(mem, RootSectors) /\ NoKernel(mem)
  /\ pc = "kernel" => cx \in Word /\ \E k \in 0 .. Clusters - 1 : AtKernel(k, dx, k)
  /\ pc = "kernelReturn" => \E k \in 0 .. Clusters - 1 : AtKernel(k, dx, k + 1)
  /\ KernelInOrder
=============================================================================
