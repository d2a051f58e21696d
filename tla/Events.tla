------------------------------- MODULE Events -------------------------------
(***************************************************************************)
(* The two views of an event queue: the ring buffer of one task under any  *)
(* sequence of calls (EventQueue), and the running kernel, whose queues    *)
(* are what the ring is shown to implement (Kernel).                       *)
(***************************************************************************)
EXTENDS Kernel, EventQueue

VARIABLE view

evars == <<vars, ringVars, view>>

EventsInit == view \in {"ring", "kernel"} /\ RingInit /\ Init

EventsNext ==
  /\ \/ view = "ring" /\ RingNext /\ UNCHANGED vars
     \/ view = "kernel" /\ Next /\ UNCHANGED ringVars
  /\ UNCHANGED view

EventsSpec == EventsInit /\ [][EventsNext]_evars /\ (view = "kernel" => Fairness)
=============================================================================
