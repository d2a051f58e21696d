----------------------------- MODULE KHeapScan ------------------------------
(***************************************************************************)
(* The search of k_malloc (k_heap.c:13-30), step by step: the size in      *)
(* pages, the outer loop over start pages and the inner loop that skips    *)
(* past a marked page.  It runs with interrupts off, so the bitmap stands  *)
(* still.  KHeapCode starts it and marks what it finds.                    *)
(***************************************************************************)
EXTENDS HeapPages

CONSTANTS
  PageSize,  \* bytes of a page (HEAP_PAGE_SIZE, 512)
  Header,    \* bytes in front of a block that hold its length (4)
  Word,      \* sizes are taken modulo Word (2^32)
  Sizes      \* the sizes callers ask for

ASSUME PageSizeAssumption == PageSize \in Nat \ {0}
ASSUME HeaderAssumption == Header \in Nat \ {0}
ASSUME WordAssumption == Word \in Nat
\* No caller asks for so much that size + 4 wraps.
ASSUME SizesAssumption == \A s \in Sizes : s \in Nat /\ s + Header < Word

VARIABLES
  size,      \* the argument
  n,         \* pages
  i, j,      \* the loop variables
  found,     \* the flag of the inner loop
  pc         \* "idle" outside k_malloc; "size", "outer", "inner", "check", then "done" or "null"

locals == <<size, n, i, j, found>>

Idle == pc = "idle" /\ size = 0 /\ n = 0 /\ i = 0 /\ j = 0 /\ found = 0

\* The call: found is not initialised.
Enter ==
  /\ pc = "idle"
  /\ size' \in Sizes /\ found' \in {0, 1} /\ pc' = "size"
  /\ UNCHANGED <<n, i, j>>

\* Deviation of PagesFor: the incomplete last page is forgotten.
PagesRoundedDown(bytes) == bytes \div PageSize

\* real_size / HEAP_PAGE_SIZE, plus one for an incomplete last page.
PagesFor(bytes) ==
  bytes \div PageSize + (IF bytes % PageSize = 0 THEN 0 ELSE 1)

ComputePages ==
  /\ pc = "size"
  /\ LET real == (size + Header) % Word IN
       IF real >= P * PageSize
       THEN pc' = "null" /\ UNCHANGED n
       ELSE pc' = "outer" /\ n' = PagesFor(real)
  /\ UNCHANGED <<size, i, j, found>>

OuterLoop ==
  /\ pc = "outer"
  /\ IF i < P - n THEN pc' = "inner" /\ j' = 0 ELSE pc' = "null" /\ UNCHANGED j
  /\ UNCHANGED <<size, n, i, found>>

\* Deviation of Skip: the search goes on behind the whole run.
SkipRun == i + n

\* Deviation of Skip: the search goes on at the marked page.
SkipNothing == i

\* i += (j + 1)
Skip == i + j + 1

InnerLoop ==
  /\ pc = "inner"
  /\ IF j >= n
     THEN pc' = "check" /\ UNCHANGED <<i, j, found>>
     ELSE IF bitmap[i + j]
          THEN found' = 0 /\ i' = Skip /\ pc' = "check" /\ UNCHANGED j
          ELSE found' = 1 /\ j' = j + 1 /\ UNCHANGED <<i, pc>>
  /\ UNCHANGED <<size, n>>

Check ==
  /\ pc = "check"
  /\ pc' = IF found = 1 THEN "done" ELSE "outer"
  /\ UNCHANGED locals

Search == ComputePages \/ OuterLoop \/ InnerLoop \/ Check

-----------------------------------------------------------------------------
\* Type invariant of the locals of k_malloc.
LocalsOK ==
  /\ bitmap \in [Page -> BOOLEAN] /\ size \in Sizes \cup {0}
  /\ n \in 0 .. P /\ i \in 0 .. P /\ j \in 0 .. P
  /\ found \in {0, 1}
  /\ pc \in {"idle", "size", "outer", "inner", "check", "done", "null"}

\* The page the code returns starts the first run of free pages that is long
\* enough, although the search jumps past marked pages (k_heap.c:21-30).
ReturnsFirstFit == pc = "done" => FirstFit(bitmap, i, n)

\* k_malloc gives up only when no run of n free pages is left below the last
\* page, or the request exceeds the heap (k_heap.c:15, k_heap.c:21).
NullMeansNoRoom ==
  pc = "null" => \/ size + Header >= P * PageSize
                 \/ \A k \in Page : ~Fits(bitmap, k, n)

\* The block has room for the header and for every byte asked for
\* (k_heap.c:14-18).
BlockHoldsRequest == pc = "done" => n * PageSize >= size + Header

\* The search ends, whatever the bitmap holds.
Terminates == pc = "size" ~> pc \in {"done", "null"}
=============================================================================
