----------------------------- MODULE RoundRobin -----------------------------
(***************************************************************************)
(* What the kernel's scheduler promises: one task runs, the others that    *)
(* were started wait in arrival order, and at every turn the longest       *)
(* waiting task gets the processor while the one that had it goes last.    *)
(* The promise is void from the moment its users break their side of it.   *)
(***************************************************************************)
EXTENDS Naturals, Sequences

CONSTANTS
  Task,      \* the slots of the process table
  None       \* no task runs yet

VARIABLES
  ready,     \* started tasks waiting for the processor, longest waiting first
  running,   \* the task that has the processor
  void       \* the promise no longer binds

vars == <<ready, running, void>>

Waiting == {ready[i] : i \in DOMAIN ready}

Init == ready = <<>> /\ running = None /\ void = FALSE

Boot(t) ==
  /\ running = None
  /\ running' = t
  /\ UNCHANGED <<ready, void>>

Start(t) ==
  /\ running \notin {None, t}
  /\ t \notin Waiting
  /\ ready' = Append(ready, t)
  /\ UNCHANGED <<running, void>>

Turn ==
  /\ ready # <<>>
  /\ running' = Head(ready)
  /\ ready' = Append(Tail(ready), running)
  /\ void' = void

\* A turn that is owed.
OwedTurn == ~ void /\ Turn

Next ==
  \/ ~ void /\ \E t \in Task : Boot(t) \/ Start(t)
  \/ OwedTurn
  \/ void'

Steps == Init /\ [][Next]_vars

Spec == Steps /\ WF_vars(OwedTurn)
=============================================================================
