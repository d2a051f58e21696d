------------------------------ MODULE MCEvents ------------------------------
(* Instance of Events for TLC: a four-entry ring and three nodes; the user   *)
(* program and two tasks that run task_main, with queues of two.             *)
EXTENDS Events

CONSTANTS d, w1, w2, n1, n2, n3, n4

MCStarted == <<w1, w2>>
MCRingNode == {n1, n2, n3}
=============================================================================
