----------------------------- MODULE HeapPages ------------------------------
(***************************************************************************)
(* What the two views of the kernel heap (k_heap.c) share: the pages the   *)
(* bitmap heap_alloc describes and the place k_malloc looks for.           *)
(***************************************************************************)
EXTENDS Integers

CONSTANT P   \* pages of the heap (HEAP_BITMAP_SIZE, 1024 * 1024 in the code)

ASSUME PAssumption == P \in Nat \ {0}

VARIABLE bitmap   \* heap_alloc: is the page marked?

Page == 0 .. P - 1

\* The run of n pages that starts at page i.
Run(i, n) == i .. i + n - 1

\* A run k_malloc may return: the search stops before i reaches P - n, and
\* every page of the run is unmarked.
Fits(bm, i, n) == i \in 0 .. P - n - 1 /\ \A p \in Run(i, n) : ~bm[p]

\* The first of them.
FirstFit(bm, i, n) == Fits(bm, i, n) /\ \A k \in 0 .. i - 1 : ~Fits(bm, k, n)
=============================================================================
