------------------------------ MODULE MCKTimer ------------------------------
(* Instance of KTimer for TLC: the switch timer and two more, two tasks, and *)
(* a counter narrow enough to wrap after a few turns of the scheduler.       *)
EXTENDS KTimer, TLC

CONSTANTS p, q

MCTask == {p, q}
MCOneTask == {p}
Symmetry == Permutations(MCTask)

MCDelays == {0, 3}
=============================================================================
