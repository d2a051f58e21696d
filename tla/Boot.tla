-------------------------------- MODULE Boot --------------------------------
(***************************************************************************)
(* The boot, from the boot sector to the kernel behind its page tables:    *)
(* BootSector jumps to the second stage it loaded (Ntmio), which jumps to  *)
(* the kernel it loaded, which builds its page tables (PageTables).  Each  *)
(* stage sets up the registers it uses, so that they are not shared; the   *)
(* disk may fail at every read of the first two.                           *)
(***************************************************************************)
EXTENDS BootLayout

VARIABLES
  pc1, ax1, bx1, cx1, disk, stack1, mem1,                        \* BootSector
  pc2, ax2, bx2, cx2, dx, es, stack2, mem2, fat, dir, failed,    \* Ntmio
  pc3, ecx, pageDir, table                                       \* PageTables

vars1 == <<pc1, ax1, bx1, cx1, disk, stack1, mem1>>
vars2 == <<pc2, ax2, bx2, cx2, dx, es, stack2, mem2, fat, dir, failed>>
vars3 == <<pc3, ecx, pageDir, table>>
vars == <<vars1, vars2, vars3>>

BS == INSTANCE BootSector
        WITH pc <- pc1, ax <- ax1, bx <- bx1, cx <- cx1, stack <- stack1, mem <- mem1
ST == INSTANCE Ntmio
        WITH pc <- pc2, ax <- ax2, bx <- bx2, cx <- cx2, stack <- stack2, mem <- mem2
PT == INSTANCE PageTables WITH pc <- pc3, dir <- pageDir

Init == BS!Init /\ ST!Init /\ PT!Init

FirstStage == pc1 # "jumped" /\ BS!Next /\ UNCHANGED <<vars2, vars3>>

SecondStage ==
  /\ pc1 = "jumped" /\ pc2 # "kernelLoaded"
  /\ ST!Next /\ UNCHANGED <<vars1, vars3>>

Bootstrap == pc2 = "kernelLoaded" /\ PT!Next /\ UNCHANGED <<vars1, vars2>>

Next == FirstStage \/ SecondStage \/ Bootstrap

\* The processor goes on.
Spec == Init /\ [][Next]_vars /\ WF_vars(Next)

-----------------------------------------------------------------------------
(* Properties.                                                             *)

\* Type invariant of the three stages.
TypeOK == BS!TypeOK /\ ST!TypeOK /\ PT!TypeOK

\* Whatever fails on the way, when the second stage is started every sector of
\* it is in its place (bootloader.nas:53-70).
SecondStageLoaded == BS!SecondStageLoaded

\* read_sector of the boot sector takes off the stack what it put there,
\* whether it succeeds at once or later (bootloader.nas:81-83, 118-142).
StackBalanced == BS!StackBalanced

\* When the second stage jumps, the kernel's clusters lie in the order of their
\* chain, complete, across the end of a segment (ntmio.sys.nas:34-117).
KernelInOrder == ST!KernelInOrder

\* Once paging is on, the kernel's window and the first 128 MB are mapped as
\* design.adoc:24-25 has it, although two regions of page tables overlap
\* (kernel_bootstrap.nas:49-103).
PagingAsDesigned == PT!KernelSpaceMapped /\ PT!LowMemoryIdentity

\* The boot comes to an end, and unless the boot sector gives up or a read of
\* the second stage fails, that end is the kernel, if the disk has one
\* (bootloader.nas:53-147, ntmio.sys.nas:34-117).
BootEnds ==
  /\ <>(pc1 = "halted" \/ pc2 \in {"halted", "wild"} \/ pc3 = "paging")
  /\ [](pc1 # "halted" /\ ~failed) /\ (\E e \in DOMAIN dir : ST!IsKernel(e))
       => <>(pc3 = "paging")

\* "On success, return to caller." (ntmio.sys.nas:344)
ReturnsToCaller == ST!ReturnsToCaller

\* The inductive invariant of the three stages.
IInv == BS!IInv /\ ST!IInv /\ PT!IInv
=============================================================================
