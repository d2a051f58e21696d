----------------------------- MODULE Scheduler ------------------------------
(***************************************************************************)
(* The process table and the round-robin scheduler of tasks.c.             *)
(*                                                                         *)
(* A task is its slot in s_processes.  The ready queue is the linked list  *)
(* the code keeps: a head pointer, a pointer to the place where the next   *)
(* task is stored (&head, written Nil here, or &next of the last task) and *)
(* one next pointer per slot.  The history variable order records which    *)
(* tasks wait and since when; ListInv ties it to the pointers.  misfreed   *)
(* records that task_free, which looks at nothing but the pid, was asked   *)
(* to release a task in use or gave a stack back a second time; from there *)
(* on the actions still do what the code does, and order is given up.  No  *)
(* action reads either history but for the bound on the identifiers.       *)
(*                                                                         *)
(* Every action is one step: kernel_main makes its calls before the first  *)
(* sti, and switch_task runs inside the timer interrupt.                   *)
(***************************************************************************)
EXTENDS Integers, Sequences, FiniteSets

CONSTANTS
  N,         \* entries of the process table (N_MAX_PROCESSES, 64 in the code)
  Nil,       \* the null pointer; in rq.tail, the address of the head pointer
  MaxId,     \* bound on g_next_task_id
  MaxIdMisfreed  \* the same bound where a task is or was misfreed

ASSUME NAssumption == N \in Nat /\ N >= 2
ASSUME NilAssumption == Nil \notin Int
ASSUME MaxIdAssumption == MaxId \in Nat /\ MaxIdMisfreed \in Nat

VARIABLES
  status,      \* [Slot -> Status]
  pid,         \* [Slot -> Nat]
  kernStack,   \* [Slot -> {"null", "held", "freed"}]: the block kern_stack points to
  rq,          \* the ready queue: head, tail pointer, and the next pointers
  cur,         \* g_current_task
  idle,        \* g_idle_task
  nextId,      \* g_next_task_id
  switchTimer, \* g_task_switch_timer: "null", or the flags "alloc" or "using"
  order,       \* history: the waiting tasks, longest waiting first
  misfreed     \* history: see TaskFree

vars == <<status, pid, kernStack, rq, cur, idle, nextId, switchTimer, order, misfreed>>

Slot == 0 .. N - 1
Pointer == Slot \cup {Nil}
Status == {"UNUSED", "ALLOC", "INIT", "READY", "RUNNING"}
ReadyQueueType == [head : Pointer, tail : Pointer, next : [Slot -> Pointer]]

Waiting == {order[i] : i \in DOMAIN order}

-----------------------------------------------------------------------------
(* The ready queue as a data structure.                                    *)

\* Deviation of TailAfterPick: the tail pointer keeps pointing into the task
\* that just left the queue.
TailNotReset(q) == q.tail

\* The tail pointer after the first task was taken out (tasks.c:141-142).
TailAfterPick(q) == IF q.next[q.head] = Nil THEN Nil ELSE q.tail

\* Take the first task out of a queue that is not empty.
PickFirst(q) ==
  [head |-> q.next[q.head], tail |-> TailAfterPick(q), next |-> q.next]

\* *g_ready_task_queue_tail_pointer = task, then the pointer moves on to the
\* next field of that task.
PutLast(q, t) ==
  [head |-> IF q.tail = Nil THEN t ELSE q.head,
   tail |-> t,
   next |-> IF q.tail = Nil THEN q.next ELSE [q.next EXCEPT ![q.tail] = t]]

\* sched_task->next = 0, task->next = 0.
ClearNext(q, t) == [q EXCEPT !.next[t] = Nil]

-----------------------------------------------------------------------------
(* The process table.                                                      *)

\* The state after init_process_management.
Init ==
  /\ status = [s \in Slot |-> "UNUSED"]
  /\ pid = [s \in Slot |-> 0]
  /\ kernStack = [s \in Slot |-> "null"]
  /\ rq = [head |-> Nil, tail |-> Nil, next |-> [s \in Slot |-> Nil]]
  /\ cur = Nil /\ idle = Nil
  /\ nextId = 1
  /\ switchTimer = "null"
  /\ order = <<>> /\ misfreed = FALSE

\* The slot the search loop of task_alloc stops at.
FirstUnused(s) ==
  status[s] = "UNUSED" /\ \A t \in Slot : t < s => status[t] # "UNUSED"

\* What k_malloc may leave in kern_stack.
StackResult == {"null", "held"}

\* task->pid = g_next_task_id, atom_inc(g_next_task_id), done times times for
\* the same task; the bounds stand for the end of the experiment.
GiveId(s, times) ==
  /\ nextId + times <= IF misfreed THEN MaxIdMisfreed ELSE MaxId
  /\ pid' = [pid EXCEPT ![s] = nextId + times - 1]
  /\ nextId' = nextId + times

\* initial_idle_task: alloc, init, and READY without entering the queue.
InitialIdleTask(s) ==
  /\ idle = Nil /\ FirstUnused(s)
  /\ GiveId(s, 2)
  /\ \E k \in StackResult : kernStack' = [kernStack EXCEPT ![s] = k]
  /\ rq' = ClearNext(rq, s)
  /\ status' = [status EXCEPT ![s] = "READY"]
  /\ idle' = s
  /\ UNCHANGED <<cur, switchTimer, order, misfreed>>

\* initial_default_task: the code that is running becomes a task.
InitialDefaultTask(s) ==
  /\ idle # Nil /\ cur = Nil /\ FirstUnused(s)
  /\ GiveId(s, 2)
  /\ \E k \in StackResult : kernStack' = [kernStack EXCEPT ![s] = k]
  /\ rq' = ClearNext(rq, s)
  /\ status' = [status EXCEPT ![s] = "RUNNING"]
  /\ cur' = s
  /\ UNCHANGED <<idle, switchTimer, order, misfreed>>

\* The end of initial_tasks: the switch timer is allocated and armed.
StartSwitchTimer ==
  /\ cur # Nil /\ switchTimer = "null"
  /\ switchTimer' = "using"
  /\ UNCHANGED <<status, pid, kernStack, rq, cur, idle, nextId, order, misfreed>>

Booted == switchTimer # "null"

\* task_alloc when a slot is free (it returns NULL and changes nothing when
\* none is).
TaskAlloc(s) ==
  /\ Booted /\ FirstUnused(s)
  /\ GiveId(s, 1)
  /\ status' = [status EXCEPT ![s] = "ALLOC"]
  /\ UNCHANGED <<kernStack, rq, cur, idle, switchTimer, order, misfreed>>

\* Deviation of TaskInit: a stack is only allocated where kern_stack is null.
InitReusesStack(s) ==
  /\ Booted /\ status[s] = "ALLOC"
  /\ GiveId(s, 1)
  /\ \E k \in StackResult :
       kernStack' = [kernStack EXCEPT ![s] = IF @ = "null" THEN k ELSE @]
  /\ rq' = ClearNext(rq, s)
  /\ status' = [status EXCEPT ![s] = "INIT"]
  /\ UNCHANGED <<cur, idle, switchTimer, order, misfreed>>

\* task_init on an allocated task; on any other it returns at once.
TaskInit(s) ==
  /\ Booted /\ status[s] = "ALLOC"
  /\ GiveId(s, 1)
  /\ \E k \in StackResult : kernStack' = [kernStack EXCEPT ![s] = k]
  /\ rq' = ClearNext(rq, s)
  /\ status' = [status EXCEPT ![s] = "INIT"]
  /\ UNCHANGED <<cur, idle, switchTimer, order, misfreed>>

\* The history of who waits, kept while no task was misfreed.
Record(waiting) == order' = IF misfreed' THEN <<>> ELSE waiting

\* Deviation of StartTask: a task that waits already can be started again.
StartTwice(s) ==
  /\ Booted /\ status[s] \in {"INIT", "READY"}
  /\ status' = [status EXCEPT ![s] = "READY"]
  /\ rq' = PutLast(rq, s)
  /\ UNCHANGED <<pid, kernStack, cur, idle, nextId, switchTimer, misfreed>>
  /\ Record(Append(order, s))

\* start_task and put_task_to_ready; a task that is not INIT is left alone.
StartTask(s) ==
  /\ Booted /\ status[s] = "INIT"
  /\ status' = [status EXCEPT ![s] = "READY"]
  /\ rq' = PutLast(rq, s)
  /\ UNCHANGED <<pid, kernStack, cur, idle, nextId, switchTimer, misfreed>>
  /\ Record(Append(order, s))

InUse(s) == status[s] \in {"READY", "RUNNING"}

\* k_free of the stack: the pointer stays.  A stack given back before may have
\* become the stack of any other task, and is taken from that one.
GiveBackStack(s) ==
  \E t \in IF kernStack[s] = "freed" THEN Slot ELSE {s} :
    kernStack' = [kernStack EXCEPT ![t] = IF @ = "null" THEN @ ELSE "freed"]

\* task_free: only pid 0 is refused (the kernel panics).  A task that waits or
\* runs is not unlinked, and a task that was allocated and not initialised
\* gives back the stack of the one that had its slot before.
TaskFree(s) ==
  /\ Booted /\ pid[s] # 0
  /\ pid' = [pid EXCEPT ![s] = 0]
  /\ status' = [status EXCEPT ![s] = "UNUSED"]
  /\ GiveBackStack(s)
  /\ misfreed' = (misfreed \/ InUse(s) \/ kernStack[s] = "freed")
  /\ misfreed' => nextId <= MaxIdMisfreed
  /\ Record(order)
  /\ UNCHANGED <<rq, cur, idle, nextId, switchTimer>>

\* Deviation of Rearm: the timer that fired is not started again.
ForgetRearm == switchTimer' = "alloc"

\* k_set_timer_time(timer, 1000): the interrupt handler took the timer off the
\* list, switch_task puts it back on both of its ways out.
Rearm == switchTimer' = "using"

\* switch_task with an empty ready queue: the current task goes on.
KeepCurrent ==
  /\ switchTimer = "using" /\ rq.head = Nil
  /\ Rearm
  /\ UNCHANGED <<status, pid, kernStack, rq, cur, idle, nextId, order, misfreed>>

\* switch_task with a task to switch to.
SwitchTask ==
  /\ switchTimer = "using" /\ rq.head # Nil
  /\ LET sched == rq.head
         left  == PickFirst(rq)
     IN  /\ status' = [status EXCEPT ![cur] = "READY", ![sched] = "RUNNING"]
         /\ rq' = ClearNext(IF cur # idle THEN PutLast(left, cur) ELSE left, sched)
         /\ cur' = sched
  /\ Rearm
  /\ UNCHANGED <<pid, kernStack, idle, nextId, misfreed>>
  /\ Record(IF cur # idle THEN Append(Tail(order), cur) ELSE Tail(order))

Next ==
  \/ \E s \in Slot : InitialIdleTask(s) \/ InitialDefaultTask(s)
  \/ StartSwitchTimer
  \/ \E s \in Slot : TaskAlloc(s) \/ TaskInit(s) \/ StartTask(s) \/ TaskFree(s)
  \/ KeepCurrent
  \/ SwitchTask

\* The timer interrupt keeps coming and every task lets it in.
Spec == Init /\ [][Next]_vars /\ WF_vars(SwitchTask)

-----------------------------------------------------------------------------
(* Properties.                                                             *)

\* Type invariant of the process table and the scheduler's globals.
TypeOK ==
  /\ status \in [Slot -> Status]
  /\ pid \in [Slot -> Nat]
  /\ kernStack \in [Slot -> {"null", "held", "freed"}]
  /\ rq \in ReadyQueueType
  /\ cur \in Pointer /\ idle \in Pointer
  /\ nextId \in Nat
  /\ switchTimer \in {"null", "alloc", "using"}
  /\ order \in Seq(Slot) /\ misfreed \in BOOLEAN

\* The linked list q is exactly the sequence o of distinct tasks.
IsList(q, o) ==
  /\ \A i, j \in DOMAIN o : o[i] = o[j] => i = j
  /\ o = <<>> => q.head = Nil /\ q.tail = Nil
  /\ o # <<>> => q.head = o[1] /\ q.tail = o[Len(o)]
  /\ \A i \in DOMAIN o : q.next[o[i]] = IF i = Len(o) THEN Nil ELSE o[i + 1]
  /\ \A s \in Slot : (\A i \in DOMAIN o : o[i] # s) => q.next[s] = Nil

\* While task_free was only asked to release tasks out of use, and no stack
\* twice, the ready queue is exactly the sequence of waiting tasks: the head
\* pointer and each next pointer lead to the next task in arrival order, the
\* list ends with a null pointer, the tail pointer is &head when the list is
\* empty and &next of the last task otherwise, and no other task has a successor
\* (tasks.c:137-155, tasks.c:293-301).
ListInv == misfreed \/ IsList(rq, order)

\* Under the same condition the task that runs never waits in the ready queue,
\* so that switch_task never jumps to the busy TSS of the task it is leaving
\* (tasks.c:167).
CurrentNotWaiting == misfreed \/ cur = Nil \/ (cur \notin Waiting /\ cur # idle)

\* Under the same condition a task is RUNNING exactly when it is the current
\* one, and READY exactly when it waits in the queue or is the idle task
\* (tasks.c:145-153).
StatusMatchesQueue ==
  misfreed \/ \A s \in Slot :
    /\ status[s] = "RUNNING" <=> s = cur
    /\ status[s] = "READY" <=> s \in Waiting \/ s = idle

\* pid = 0 marks exactly the unused slots, the test task_free panics on, and
\* no two used slots share an identifier, whatever is released and unless a
\* released task still waits or runs (tasks.c:184-185, tasks.c:197-202).
PidsIdentify ==
  /\ \A s \in Slot : ~ misfreed => (pid[s] = 0 <=> status[s] = "UNUSED")
  /\ \A s \in Slot : pid[s] < nextId
  /\ \A s, t \in Slot : pid[s] = pid[t] /\ pid[s] # 0 => s = t

\* No task that was initialised, waits or runs has a kernel stack that was
\* given back to the heap, its own or through the pointer another slot kept,
\* while task_free released only tasks out of use and, excepted by name, not
\* the stale stack of a task that was never initialised
\* (tasks.c:204-205, tasks.c:220).
NoTaskOnFreedStack ==
  misfreed \/ \A s \in Slot : kernStack[s] = "freed" => status[s] \in {"UNUSED", "ALLOC"}

\* The pointers implement the round-robin promise, with its fairness, until a
\* task in use, or a stack for the second time, is released.
RR == INSTANCE RoundRobin WITH
  Task <- Slot, None <- Nil, ready <- order, running <- cur, void <- misfreed

ImplementsRoundRobin == RR!Spec
=============================================================================
