------------------------------- MODULE Kernel -------------------------------
(***************************************************************************)
(* The running kernel: the tasks, the interrupts that come in whenever the *)
(* running task lets them, and the event queues between the two.           *)
(*                                                                         *)
(* The default task is the code of kernel_main, which kern_exec turns into *)
(* a user program; it never looks at its event queue.  Every other task    *)
(* runs task_main.  The scheduler is taken from RoundRobin, which the      *)
(* module Scheduler implements; a queue is the bounded FIFO of the module  *)
(* Fifo, which EventQueue implements; and the heap is the set of nodes     *)
(* k_malloc has handed out.                                                *)
(*                                                                         *)
(* A handler is one step, it runs with interrupts off; task_main is cut    *)
(* into steps wherever an interrupt could make a difference.               *)
(***************************************************************************)
EXTENDS Integers, Sequences

CONSTANTS
  Default,   \* the task made by initial_default_task
  Started,   \* the tasks start_task started, in that order
  Slots,     \* entries of an event queue (1024)
  Node,      \* the nodes there is memory for
  NoNode     \* no node

VARIABLES
  running,   \* g_current_task
  ready,     \* the ready queue
  pc,        \* [Task -> Location]
  queue,     \* [Task -> Seq(Node)]: the event queues, oldest node first
  hand,      \* [Task -> Node or NoNode]: the local variable node of task_main
  inHeap,    \* nodes that are allocated
  dropped    \* history: nodes whose enqueue_event_queue returned -1

vars == <<running, ready, pc, queue, hand, inHeap, dropped>>

Worker == {Started[i] : i \in DOMAIN Started}
Task == Worker \cup {Default}

\* start_task puts each task in the queue once, and never the default task.
ASSUME TasksAssumption ==
  /\ Started \in Seq(Worker) /\ Default \notin Worker
  /\ \A i, j \in DOMAIN Started : Started[i] = Started[j] => i = j
ASSUME NodesAssumption == Slots \in Nat \ {0} /\ NoNode \notin Node

RR == INSTANCE RoundRobin WITH None <- NoNode, void <- FALSE

\* The places of kernel_main (boot), of the user program (user), and of
\* task_main: before cli(), between cli() and sti() or sti_halt(), halted,
\* with a node to process, and with a node to free.
Location ==
  {"boot", "user", "loop", "dequeue", "empty", "taken", "halted", "process", "free"}

\* kernel_main in front of kern_exec: every task is initialised, interrupts
\* are still off.
Init ==
  /\ running = Default /\ ready = Started
  /\ pc = [t \in Task |-> IF t = Default THEN "boot" ELSE "loop"]
  /\ queue = [t \in Task |-> <<>>]
  /\ hand = [t \in Task |-> NoNode]
  /\ inHeap = {} /\ dropped = {}

-----------------------------------------------------------------------------
(* The tasks.                                                              *)

Goes(t, from, to) ==
  /\ running = t /\ pc[t] = from
  /\ pc' = [pc EXCEPT ![t] = to]

\* kern_exec: iret to the user program, with IF set in the flags.
KernExec ==
  /\ Goes(Default, "boot", "user")
  /\ UNCHANGED <<running, ready, queue, hand, inHeap, dropped>>

\* cli()
Cli(t) ==
  /\ Goes(t, "loop", "dequeue")
  /\ UNCHANGED <<running, ready, queue, hand, inHeap, dropped>>

\* dequeue_event_queue(&task->event_queue), and the test of its result.
Dequeue(t) ==
  /\ IF queue[t] = <<>>
     THEN Goes(t, "dequeue", "empty") /\ UNCHANGED <<queue, hand>>
     ELSE /\ Goes(t, "dequeue", "taken")
          /\ hand' = [hand EXCEPT ![t] = Head(queue[t])]
          /\ queue' = [queue EXCEPT ![t] = Tail(@)]
  /\ UNCHANGED <<running, ready, inHeap, dropped>>

\* sti_halt(): no interrupt comes between sti and hlt.
StiHalt(t) ==
  /\ Goes(t, "empty", "halted")
  /\ UNCHANGED <<running, ready, queue, hand, inHeap, dropped>>

\* Deviation of Sti: the node is freed as soon as it is taken.
StiAndFree(t) ==
  /\ Goes(t, "taken", "process")
  /\ inHeap' = inHeap \ {hand[t]}
  /\ UNCHANGED <<running, ready, queue, hand, dropped>>

\* sti() in front of the switch statement.
Sti(t) ==
  /\ Goes(t, "taken", "process")
  /\ UNCHANGED <<running, ready, queue, hand, inHeap, dropped>>

\* process_keyboard_event or process_mouse_event.
Process(t) ==
  /\ Goes(t, "process", "free")
  /\ UNCHANGED <<running, ready, queue, hand, inHeap, dropped>>

\* k_free(node)
Free(t) ==
  /\ Goes(t, "free", "loop")
  /\ inHeap' = inHeap \ {hand[t]}
  /\ hand' = [hand EXCEPT ![t] = NoNode]
  /\ UNCHANGED <<running, ready, queue, dropped>>

TaskMain(t) == Cli(t) \/ Dequeue(t) \/ StiHalt(t) \/ Sti(t) \/ Process(t) \/ Free(t)

-----------------------------------------------------------------------------
(* The interrupts.                                                         *)

\* Deviation of InterruptsOff: cli() in task_main has no effect.
OffAtBootOnly == {"boot"}

\* Where the interrupt flag is clear.
InterruptsOff == {"boot", "dequeue", "empty", "taken"}

InterruptsOn == pc[running] \notin InterruptsOff

\* An interrupt that comes while the running task is halted ends its hlt.
Woken == [pc EXCEPT ![running] = IF @ = "halted" THEN "loop" ELSE @]

\* Deviation of Deliver: a full queue gives up its oldest node.
DeliverOverOldest(n) ==
  /\ queue' = [queue EXCEPT ![running] =
                 Append(IF Len(@) = Slots THEN Tail(@) ELSE @, n)]
  /\ UNCHANGED dropped

\* enqueue_event_queue(&g_current_task->event_queue, p_node): the handlers do
\* not look at its result.
Deliver(n) ==
  IF Len(queue[running]) < Slots
  THEN queue' = [queue EXCEPT ![running] = Append(@, n)] /\ UNCHANGED dropped
  ELSE dropped' = dropped \cup {n} /\ UNCHANGED queue

\* int21h_handler and int2ch_handler, with memory for the node.
InputEvent(n) ==
  /\ InterruptsOn
  /\ n \in Node \ inHeap
  /\ inHeap' = inHeap \cup {n}
  /\ Deliver(n)
  /\ pc' = Woken
  /\ UNCHANGED <<running, ready, hand>>

\* The same handlers, and a tick on which the switch timer is not due: when
\* k_malloc finds no memory the event is lost and nothing changes.  The switch
\* timer is the only timer that is ever allocated.
NothingToDeliver ==
  /\ InterruptsOn
  /\ pc' = Woken
  /\ UNCHANGED <<running, ready, queue, hand, inHeap, dropped>>

\* The tick on which the switch timer is due: switch_task, which leaves the
\* current task alone when no other is ready.
SwitchTask ==
  /\ InterruptsOn
  /\ pc' = Woken
  /\ IF ready = <<>> THEN UNCHANGED <<running, ready>> ELSE RR!Turn
  /\ UNCHANGED <<queue, hand, inHeap, dropped>>

Next ==
  \/ KernExec
  \/ \E t \in Worker : TaskMain(t)
  \/ \E n \in Node : InputEvent(n)
  \/ NothingToDeliver
  \/ SwitchTask

\* The boot goes on.  A tick that comes while interrupts are off stays pending
\* in the interrupt controller; and between two switches, a thousand ticks, the
\* running task gets somewhere.
Fairness ==
  /\ WF_vars(KernExec)
  /\ SF_vars(SwitchTask)
  /\ \A t \in Worker : SF_vars(TaskMain(t))

Spec == Init /\ [][Next]_vars /\ Fairness

-----------------------------------------------------------------------------
(* Properties.                                                             *)

Queued(t) == {queue[t][i] : i \in DOMAIN queue[t]}

Held(t) == IF hand[t] = NoNode THEN {} ELSE {hand[t]}

Own(t) == Queued(t) \cup Held(t)

\* Type invariant of the tasks' places, queues and nodes.
TypeOK ==
  /\ running \in Task /\ ready \in Seq(Worker \cup {Default})
  /\ pc \in [Task -> Location]
  /\ queue \in [Task -> Seq(Node)] /\ \A t \in Task : Len(queue[t]) <= Slots
  /\ hand \in [Task -> Node \cup {NoNode}]
  /\ inHeap \subseteq Node /\ dropped \subseteq Node

\* A node that is allocated is in exactly one place: in one queue, once; in the
\* hand of one task; or leaked, because the queue it was meant for was full.
\* No node that is anywhere has been given back to the heap
\* (interrupt_handlers.c:87-93, tasks.c:92-116).
NodesAccounted ==
  /\ inHeap = (UNION {Own(t) : t \in Task}) \cup dropped
  /\ \A t \in Task :
       /\ \A i, j \in DOMAIN queue[t] : queue[t][i] = queue[t][j] => i = j
       /\ Queued(t) \cap Held(t) = {}
       /\ Own(t) \cap dropped = {}
       /\ \A u \in Task \ {t} : Own(t) \cap Own(u) = {}

\* A task sleeps only while its own queue is empty, so that no event waits for
\* the next one to come: the check of the queue and the hlt are one step for
\* the interrupts (tasks.c:92-98).
NoLostWakeup == \A t \in Worker : pc[t] = "halted" => queue[t] = <<>>

\* The queues, the scheduler, the handlers and task_main together deliver
\* events: in order, each one once, and in the end all those that were
\* accepted for a task that runs task_main, whose nodes are then free again,
\* although the processor goes round (tasks.c:81-168,
\* interrupt_handlers.c:33-120).
Inbox == [t \in Task |->
            IF hand[t] = NoNode THEN queue[t] ELSE <<hand[t]>> \o queue[t]]

ED == INSTANCE EventDelivery
        WITH Server <- Worker, inbox <- Inbox, lostNode <- dropped

ImplementsEventDelivery == ED!Spec
=============================================================================
