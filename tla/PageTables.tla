----------------------------- MODULE PageTables -----------------------------
(***************************************************************************)
(* The page directory and the page tables kernel_bootstrap_main builds     *)
(* before it turns paging on.  A table maps 1024 pages, a block of 4 MB,   *)
(* and each of the filling loops is taken table by table.  Physical pages  *)
(* are counted from PAGE_DIR_ADDR, blocks from address 0.                  *)
(***************************************************************************)
EXTENDS BootLayout

VARIABLES
  pc,      \* the loop
  ecx,     \* its counter
  dir,     \* [DirIndex -> page of a table, or Absent]
  table    \* [Page -> block the table in that page maps to, or Absent]

vars == <<pc, ecx, dir, table>>

Absent == -1
DirIndex == 0 .. KernDir + Kern
Page == 0 .. Tab200 + Tables

\* The directory was cleared; the tables hold what memory held.
Init ==
  /\ pc = "identityEntries" /\ ecx = 0
  /\ dir = [i \in DirIndex |-> Absent]
  /\ table = [p \in Page |-> Absent]

\* One round of a loop, and where it goes after its last.
Round(from, count, to) ==
  /\ pc = from
  /\ IF ecx + 1 < count THEN pc' = from /\ ecx' = ecx + 1 ELSE pc' = to /\ ecx' = 0

SetIdentityMapping ==
  /\ Round("identityEntries", Identity, "kernelEntries")
  /\ dir' = [dir EXCEPT ![ecx] = Tab0 + ecx]
  /\ UNCHANGED table

\* Deviation of SetKernelMapping: the entries start at PAGE_TAB_201_ADDR.
SetKernelFrom201 ==
  /\ Round("kernelEntries", Kern, "identityTables")
  /\ dir' = [dir EXCEPT ![KernDir + ecx] = Tab200 + 1 + ecx]
  /\ UNCHANGED table

SetKernelMapping ==
  /\ Round("kernelEntries", Kern, "identityTables")
  /\ dir' = [dir EXCEPT ![KernDir + ecx] = Tab200 + ecx]
  /\ UNCHANGED table

FillIdentityTable ==
  /\ Round("identityTables", Identity, "kernelTables")
  /\ table' = [table EXCEPT ![Tab0 + ecx] = ecx]
  /\ UNCHANGED dir

FillKernelTable ==
  /\ Round("kernelTables", Tables, "paging")
  /\ table' = [table EXCEPT ![Tab200 + ecx] = KernBlock + ecx]
  /\ UNCHANGED dir

\* Paging is on, and the jump to the kernel's virtual address was made.
Running == pc = "paging" /\ UNCHANGED vars

Next ==
  \/ SetIdentityMapping \/ SetKernelMapping
  \/ FillIdentityTable \/ FillKernelTable
  \/ Running

Spec == Init /\ [][Next]_vars

-----------------------------------------------------------------------------
\* The block of physical memory a block of addresses is translated to.
Translate(b) == IF dir[b] = Absent THEN Absent ELSE table[dir[b]]

\* Type invariant: loops stay within the directory and the tables they fill.
TypeOK ==
  /\ pc \in {"identityEntries", "kernelEntries", "identityTables", "kernelTables", "paging"}
  /\ ecx \in 0 .. Identity + Tables
  /\ dir \in [DirIndex -> Page \cup {Absent}]
  /\ table \in [Page -> Int]
  /\ pc = "kernelTables" => Tab200 + ecx \in Page

\* "0x80000000 to 0x87FFFFFF is mapped to 0x08000000 to 0x0FFFFFFF"
\* (design.adoc:25): where the kernel jumps once paging is on, and all it
\* reaches through KERN_BASE_VIR_ADDR (kernel_bootstrap.nas:68-77, 93-103).
KernelSpaceMapped ==
  pc = "paging" => \A b \in 0 .. Kern - 1 : Translate(KernDir + b) = KernBlock + b

\* "The first physical 128MB RAM is identity page mapping" (design.adoc:24):
\* the code that turns paging on, the page directory's neighbours and the
\* memory of every process stay where they are although the two regions of
\* tables overlap (kernel_bootstrap.nas:57-66, 79-103).
LowMemoryIdentity ==
  pc = "paging" => \A b \in 0 .. KernBlock - 1 : Translate(b) = b

\* The inductive invariant: what the loops wrote so far.  The second filling
\* loop comes over tables of the first, but not over the first KernBlock.
IInv ==
  /\ TypeOK
  /\ pc \in {"identityEntries", "identityTables"} => ecx < Identity
  /\ pc = "kernelEntries" => ecx < Kern
  /\ pc = "kernelTables" => ecx < Tables
  /\ \A b \in 0 .. Identity - 1 : pc # "identityEntries" \/ b < ecx => dir[b] = Tab0 + b
  /\ \A b \in 0 .. Kern - 1 :
       pc # "identityEntries" /\ (pc = "kernelEntries" => b < ecx) => dir[KernDir + b] = Tab200 + b
  /\ \A b \in 0 .. KernBlock - 1 :
       pc \in {"kernelTables", "paging"} \/ (pc = "identityTables" /\ b < ecx)
       => table[Tab0 + b] = b
  /\ \A b \in 0 .. Kern - 1 :
       pc = "paging" \/ (pc = "kernelTables" /\ b < ecx) => table[Tab200 + b] = KernBlock + b
=============================================================================
