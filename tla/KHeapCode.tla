----------------------------- MODULE KHeapCode ------------------------------
(***************************************************************************)
(* The kernel heap as k_heap.c has it: the loops of k_malloc search the    *)
(* bitmap that the frees of KHeap clear and earlier calls have marked.     *)
(* k_malloc runs with interrupts off, so that nothing comes in between its *)
(* steps; it implements the one step of KHeap.                             *)
(***************************************************************************)
EXTENDS KHeap, KHeapScan

cvars == <<vars, locals, pc>>

CodeInit == Init /\ Idle

Call == Enter /\ UNCHANGED vars

Step == Search /\ UNCHANGED vars

\* k_malloc leaves its caller: the locals are gone.
Leave == pc' = "idle" /\ size' = 0 /\ n' = 0 /\ i' = 0 /\ j' = 0 /\ found' = 0

\* Deviation of Store: the length written is that of the data.
StoreData == hdr' = [hdr EXCEPT ![i] = n - 1]

\* *(unsigned int *)p = pages
Store == hdr' = [hdr EXCEPT ![i] = n]

\* The block is found: its length is stored and its pages are marked.
ReturnBlock ==
  /\ pc = "done" /\ Leave
  /\ Store
  /\ bitmap' = Mark(i, n)
  /\ live' = live \cup {[start |-> i, len |-> n]}
  /\ UNCHANGED <<freeing, stale>>

ReturnNull == pc = "null" /\ Leave /\ UNCHANGED vars

\* k_free, wherever no k_malloc holds the interrupts.
Free ==
  /\ pc = "idle"
  /\ \E c \in Client : FreePage(c) \/ \E b \in live : FreeStart(c, b)
  /\ UNCHANGED <<locals, pc>>

CodeNext == Call \/ Step \/ ReturnBlock \/ ReturnNull \/ Free

\* A k_malloc under way has the processor for itself.
CodeSpec ==
  CodeInit /\ [][CodeNext]_cvars /\ WF_cvars(Step) /\ WF_cvars(ReturnBlock \/ ReturnNull)

\* The loops, the length word and the marks are the one step of KHeap, and so
\* everything proved of that heap holds of this one (k_heap.c:13-42).
ImplementsHeap == Spec
=============================================================================
