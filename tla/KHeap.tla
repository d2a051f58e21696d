------------------------------- MODULE KHeap --------------------------------
(***************************************************************************)
(* The kernel heap (k_heap.c) as its callers share it.  k_malloc is one    *)
(* step: interrupt handlers and the boot code call it with interrupts off, *)
(* and KHeapCode shows that its loops are this step.  k_free is not: task_main    *)
(* calls it with interrupts on, so an interrupt that allocates, or another *)
(* task that frees, can come in between two of the pages it clears.        *)
(*                                                                         *)
(* The bitmap is ordinary memory the code never clears, so the pages it    *)
(* marks at boot are arbitrary (stale).                                    *)
(***************************************************************************)
EXTENDS HeapPages, FiniteSets

CONSTANT Client   \* execution contexts that may be inside k_free

VARIABLES
  hdr,       \* the word at the front of each page; the length if a block starts there
  freeing,   \* [Client -> locals of k_free]; next = end when it is not in k_free
  live,      \* history: blocks callers own
  stale      \* history: pages the bitmap marked before the first call

vars == <<bitmap, hdr, freeing, live, stale>>

Block == {b \in [start : Page, len : 1 .. P] : b.start + b.len <= P}
Pages(b) == Run(b.start, b.len)
Remaining(c) == freeing[c].next .. freeing[c].end - 1

Init ==
  /\ bitmap \in [Page -> BOOLEAN]
  /\ stale = {p \in Page : bitmap[p]}
  /\ hdr = [p \in Page |-> 0]
  /\ freeing = [c \in Client |-> [start |-> 0, next |-> 0, end |-> 0]]
  /\ live = {}

\* Deviation of Mark: the last page of the block is not marked.
MarkShort(i, n) == [p \in Page |-> bitmap[p] \/ p \in Run(i, n - 1)]

\* heap_alloc[i+j] = 1
Mark(i, n) == [p \in Page |-> bitmap[p] \/ p \in Run(i, n)]

\* Where the search of k_malloc stops.
Place(i, n) == FirstFit(bitmap, i, n)

\* k_malloc of n pages, when there is room.
Malloc(i, n) ==
  /\ Place(i, n)
  /\ bitmap' = Mark(i, n)
  /\ hdr' = [hdr EXCEPT ![i] = n]
  /\ live' = live \cup {[start |-> i, len |-> n]}
  /\ UNCHANGED <<freeing, stale>>

\* k_malloc of n pages, when there is none: the null pointer.
MallocFails(n) == (\A i \in Page : ~Fits(bitmap, i, n)) /\ UNCHANGED vars

\* Deviation of BlockEnd: one page too many.
BlockEndLate(p) == p + hdr[p] + 1

\* alloc_index + pages, with pages read from the header of the block.
BlockEnd(p) == p + hdr[p]

\* k_free is called with a block the caller owns.
FreeStart(c, b) ==
  /\ Remaining(c) = {} /\ b \in live
  /\ freeing' = [freeing EXCEPT
       ![c] = [start |-> b.start, next |-> b.start, end |-> BlockEnd(b.start)]]
  /\ live' = live \ {b}
  /\ UNCHANGED <<bitmap, hdr, stale>>

\* One turn of the loop of k_free.
FreePage(c) ==
  /\ freeing[c].next < freeing[c].end
  /\ bitmap' = [bitmap EXCEPT ![freeing[c].next] = FALSE]
  /\ freeing' = [freeing EXCEPT ![c].next = @ + 1]
  /\ UNCHANGED <<hdr, live, stale>>

Next ==
  \/ \E n \in 1 .. P : MallocFails(n) \/ \E i \in Page : Malloc(i, n)
  \/ \E c \in Client : FreePage(c) \/ \E b \in live : FreeStart(c, b)

Spec == Init /\ [][Next]_vars

-----------------------------------------------------------------------------
\* Type invariant of the heap.
TypeOK ==
  /\ bitmap \in [Page -> BOOLEAN]
  /\ hdr \in [Page -> 0 .. P]
  /\ freeing \in [Client -> [start : 0 .. P, next : 0 .. P, end : 0 .. P]]
  /\ live \subseteq Block
  /\ stale \subseteq Page

\* No page belongs to two blocks, and no block has a page that k_free is still
\* going to clear: memory handed out stays its owner's alone, whatever frees
\* are cut short by interrupts (k_heap.c:30-36, k_heap.c:52-54).
BlocksDisjoint ==
  /\ \A b, d \in live : b # d => Pages(b) \cap Pages(d) = {}
  /\ \A b \in live, c \in Client : Pages(b) \cap Remaining(c) = {}
  /\ \A c, d \in Client : c # d => Remaining(c) \cap Remaining(d) = {}

\* Pages that were marked before the first call are never handed out.
StaleUntouched ==
  /\ \A b \in live : Pages(b) \cap stale = {}
  /\ \A c \in Client : Remaining(c) \cap stale = {}

\* Somebody still answers for page p.
Accounted(p) ==
  \/ p \in stale
  \/ \E b \in live : p \in Pages(b)
  \/ \E c \in Client : p \in Remaining(c)

\* A page is marked exactly when it is part of a live block, is about to be
\* cleared, or was marked at boot: no page leaks and none is unprotected.
MarkedExactly == \A p \in Page : bitmap[p] <=> Accounted(p)

\* The length k_free will read is the length k_malloc allocated, for every
\* live block (k_heap.c:32, k_heap.c:47).
HeadersIntact == \A b \in live : hdr[b.start] = b.len

\* The inductive invariant.
IInv == TypeOK /\ BlocksDisjoint /\ StaleUntouched /\ MarkedExactly /\ HeadersIntact

\* What a block holds is not touched by anybody but its owner: no step writes
\* the header of a block that stays live or unmarks one of its pages.
LiveBlocksStable ==
  [][\A b \in live \cap live' :
       hdr'[b.start] = hdr[b.start] /\ \A p \in Pages(b) : bitmap'[p]]_vars
=============================================================================
