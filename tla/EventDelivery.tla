---------------------------- MODULE EventDelivery ---------------------------
(***************************************************************************)
(* What the kernel promises about hardware events: each task handles the   *)
(* events posted to it in the order in which they were posted, one at a    *)
(* time and each exactly once, and the node that carries an event serves   *)
(* no other before it was handled.  An event may be lost only at the       *)
(* moment it is raised.                                                    *)
(***************************************************************************)
EXTENDS Naturals, Sequences

CONSTANTS
  Task,      \* the tasks
  Server,    \* the tasks that handle events
  Node       \* what carries an event

VARIABLES
  inbox,     \* [Task -> Seq(Node)]: events posted to a task and not yet done with
  lostNode   \* nodes that carried a lost event and were never given back

vars == <<inbox, lostNode>>

InUse == (UNION {{inbox[t][i] : i \in DOMAIN inbox[t]} : t \in Task}) \cup lostNode

Init == inbox = [t \in Task |-> <<>>] /\ lostNode = {}

Post(t, n) ==
  /\ n \notin InUse
  /\ inbox' = [inbox EXCEPT ![t] = Append(@, n)]
  /\ UNCHANGED lostNode

Lose(n) ==
  /\ n \notin InUse
  /\ lostNode' = lostNode \cup {n}
  /\ UNCHANGED inbox

Handle(t) ==
  /\ inbox[t] # <<>>
  /\ inbox' = [inbox EXCEPT ![t] = Tail(@)]
  /\ UNCHANGED lostNode

Next ==
  \/ \E t \in Task, n \in Node : Post(t, n)
  \/ \E n \in Node : Lose(n)
  \/ \E t \in Server : Handle(t)

Steps == Init /\ [][Next]_vars

\* A server gets on with its events, whatever is posted meanwhile.
Spec == Steps /\ \A t \in Server : WF_vars(Handle(t))
=============================================================================
