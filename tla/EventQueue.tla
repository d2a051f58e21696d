----------------------------- MODULE EventQueue -----------------------------
(***************************************************************************)
(* The ring buffer of interrupt events that every task owns                *)
(* (simple_interrupt_event_queue_t, kernel_inits.h) and its operations     *)
(* enqueue_event_queue, dequeue_event_queue and initial_task_event_queue   *)
(* (tasks.c).  head and tail index the array; they coincide both when the  *)
(* buffer is empty and when it is full, and the flag full tells which.     *)
(*                                                                         *)
(* Each call is one step: the handlers enqueue with interrupts off and     *)
(* task_main dequeues between cli and sti.                                 *)
(***************************************************************************)
EXTENDS Integers, Sequences

CONSTANTS
  RingSlots,   \* number of entries of the array nodes (1024 in the code)
  RingNode,    \* event nodes, i.e. pointers returned by k_malloc
  Unwritten    \* content of an entry that was never written

ASSUME SlotsAssumption == RingSlots \in Nat \ {0}

VARIABLES
  ring,      \* the queue record
  ret        \* what the last call returned ("cleared" after initial_task_event_queue)

ringVars == <<ring, ret>>

Index == 0 .. RingSlots - 1

EventQueueType ==
  [head : Index, tail : Index, full : BOOLEAN, nodes : [Index -> RingNode \cup {Unwritten}]]

\* An entry of the zero-initialised process table.
ZeroQueue == [head |-> 0, tail |-> 0, full |-> FALSE, nodes |-> [i \in Index |-> Unwritten]]

\* queue->tail++ (or head++) followed by the wrap at the end of the array.
Advance(i) == IF i + 1 >= RingSlots THEN 0 ELSE i + 1

-----------------------------------------------------------------------------
\* initial_task_event_queue: the array keeps its old entries.
InitialTaskEventQueue(q) == [q EXCEPT !.head = 0, !.tail = 0, !.full = FALSE]

IsEmpty(q) == q.head = q.tail /\ ~q.full

\* Deviation of EnqueueEventQueue: the flag full is never raised.
EnqueueForgetsFull(q, n) ==
  IF q.full THEN q
  ELSE [q EXCEPT !.nodes[q.tail] = n, !.tail = Advance(q.tail)]

\* enqueue_event_queue: a full queue is left alone and -1 is returned.
EnqueueEventQueue(q, n) ==
  IF q.full THEN q
  ELSE LET t == Advance(q.tail)
       IN  [q EXCEPT !.nodes[q.tail] = n, !.tail = t, !.full = @ \/ q.head = t]

\* dequeue_event_queue on a queue that is not empty; the entry is not erased.
DequeueEventQueue(q) == [q EXCEPT !.head = Advance(q.head), !.full = FALSE]

\* Number of accepted nodes, and the nodes themselves, oldest first.
Count(q) ==
  IF q.full THEN RingSlots
  ELSE IF q.tail >= q.head THEN q.tail - q.head ELSE q.tail - q.head + RingSlots

SlotOf(q, i) == IF q.head + i - 1 >= RingSlots THEN q.head + i - 1 - RingSlots ELSE q.head + i - 1

Contents(q) == [i \in 1 .. Count(q) |-> q.nodes[SlotOf(q, i)]]

-----------------------------------------------------------------------------
RingInit == ring = ZeroQueue /\ ret = "ok"

RingEnqueue(n) ==
  /\ ret' = IF ring.full THEN "full" ELSE "ok"
  /\ ring' = EnqueueEventQueue(ring, n)

RingDequeue ==
  IF IsEmpty(ring)
  THEN ret' = "none" /\ UNCHANGED ring
  ELSE /\ ret' = ring.nodes[ring.head]
       /\ ring' = DequeueEventQueue(ring)

RingInitialise == ring' = InitialTaskEventQueue(ring) /\ ret' = "cleared"

RingNext ==
  \/ \E n \in RingNode : RingEnqueue(n)
  \/ RingDequeue
  \/ RingInitialise

RingSpec == RingInit /\ [][RingNext]_ringVars

-----------------------------------------------------------------------------
\* Type invariant of the queue record and of the returned value.
RingTypeOK ==
  /\ ring \in EventQueueType
  /\ ret \in RingNode \cup {"ok", "full", "none", "cleared"}

\* The flag full is only ever set while head and tail coincide, so that the
\* two readings of head = tail ("empty" and "full") cannot be confused
\* (tasks.c:405, tasks.c:416, tasks.c:424).
FullMeansMet == ring.full => ring.head = ring.tail

\* Every accepted entry holds a node a caller enqueued: dequeue_event_queue
\* never hands out an entry that was not written since it was last read.
AcceptedAreNodes == \A i \in 1 .. Count(ring) : ring.nodes[SlotOf(ring, i)] \in RingNode

\* The inductive invariant behind the refinement.
RingInv == RingTypeOK /\ FullMeansMet /\ AcceptedAreNodes

\* The ring buffer implements the bounded FIFO: the nodes between head and
\* tail, oldest first, are the abstract queue (tasks.c:392-427).
F == INSTANCE Fifo WITH Capacity <- RingSlots, Node <- RingNode, items <- Contents(ring)

ImplementsFifo == F!Spec
=============================================================================
