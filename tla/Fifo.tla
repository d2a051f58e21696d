-------------------------------- MODULE Fifo --------------------------------
(***************************************************************************)
(* What an interrupt event queue promises to its two users, the interrupt  *)
(* handlers that enqueue and the task that dequeues: a first-in first-out  *)
(* buffer of at most Capacity nodes that refuses a node when it is full,   *)
(* answers "none" when it is empty, and never loses, duplicates or         *)
(* reorders a node it has accepted.                                        *)
(***************************************************************************)
EXTENDS Naturals, Sequences

CONSTANTS
  Capacity,   \* number of nodes the queue can hold
  Node        \* the event nodes callers may enqueue

VARIABLES
  items,      \* the accepted nodes that were not taken yet, oldest first
  ret         \* what the last call returned

vars == <<items, ret>>

Init == items = <<>> /\ ret = "ok"

Accept(n) ==
  /\ Len(items) < Capacity
  /\ items' = Append(items, n)
  /\ ret' = "ok"

Refuse ==
  /\ Len(items) = Capacity
  /\ ret' = "full"
  /\ UNCHANGED items

Take ==
  /\ items # <<>>
  /\ ret' = Head(items)
  /\ items' = Tail(items)

FindEmpty ==
  /\ items = <<>>
  /\ ret' = "none"
  /\ UNCHANGED items

Clear == items' = <<>> /\ ret' = "cleared"

Next ==
  \/ \E n \in Node : Accept(n)
  \/ Refuse
  \/ Take
  \/ FindEmpty
  \/ Clear

Spec == Init /\ [][Next]_vars
=============================================================================
