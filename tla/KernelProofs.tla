---------------------------- MODULE KernelProofs ----------------------------
(***************************************************************************)
(* Proofs about Kernel for any number of tasks and nodes and queues of any *)
(* size.  Two lemmas say what Append and Tail do to the nodes of a queue;  *)
(* the inductive invariant IInv accounts for every node with them; and the *)
(* steps of EventDelivery are read off the invariant.                      *)
(*                                                                         *)
(* The queues of Kernel are sequences; the last part is about the ring     *)
(* buffers they stand for (EventQueue), for any size and set of nodes.     *)
(***************************************************************************)
EXTENDS Kernel, EventQueue, SequenceTheorems, TLAPS

-----------------------------------------------------------------------------
(* The inductive invariant of Kernel.                                      *)

\* A task has a node in its hand from the moment it took one off its queue until
\* it has freed it.
HandAgreesWithPlace ==
  \A t \in Task : hand[t] # NoNode <=> pc[t] \in {"taken", "process", "free"}

\* Between the test of an empty queue and the end of the hlt the queue stays
\* empty.
EmptySeenIsEmpty == \A t \in Task : pc[t] \in {"empty", "halted"} => queue[t] = <<>>

\* Only the running task is in the middle of its queue.
OnlyRunningInQueue ==
  \A t \in Task \ {running} : pc[t] \notin {"dequeue", "empty", "taken"}

IInv ==
  /\ TypeOK /\ NodesAccounted /\ OnlyRunningInQueue
  /\ HandAgreesWithPlace /\ EmptySeenIsEmpty

-----------------------------------------------------------------------------
Elements(q) == {q[i] : i \in DOMAIN q}
Once(q) == \A i, j \in DOMAIN q : q[i] = q[j] => i = j

\* A node that is not in a queue is added to it behind the others.
LEMMA AppendElements ==
  ASSUME NEW q \in Seq(Node), Once(q), NEW n \in Node, n \notin Elements(q)
  PROVE  /\ Append(q, n) \in Seq(Node) /\ Len(Append(q, n)) = Len(q) + 1
         /\ Elements(Append(q, n)) = Elements(q) \cup {n}
         /\ Once(Append(q, n))
<1> DEFINE a == Append(q, n)
<1>1. /\ a \in Seq(Node) /\ Len(a) = Len(q) + 1 /\ Len(q) \in Nat
      /\ \A i \in 1 .. Len(q) : a[i] = q[i]
      /\ a[Len(q) + 1] = n
      /\ DOMAIN q = 1 .. Len(q) /\ DOMAIN a = 1 .. Len(q) + 1
  BY AppendProperties
<1> HIDE DEF a
<1>2. Elements(a) = Elements(q) \cup {n}
  <2>1. \A i \in DOMAIN a : a[i] \in Elements(q) \cup {n}
    BY <1>1 DEF Elements
  <2>2. \A i \in DOMAIN q : i \in DOMAIN a /\ a[i] = q[i]
    BY <1>1
  <2>3. Len(q) + 1 \in DOMAIN a
    BY <1>1
  <2> QED BY <1>1, <2>1, <2>2, <2>3 DEF Elements
<1>3. Once(a)
  BY <1>1 DEF Once, Elements
<1> QED BY <1>1, <1>2, <1>3 DEF a

\* The head of a queue without repetitions leaves it altogether.
LEMMA TailElements ==
  ASSUME NEW q \in Seq(Node), Once(q), q # <<>>
  PROVE  /\ Tail(q) \in Seq(Node) /\ Len(Tail(q)) < Len(q)
         /\ Head(q) \in Node /\ Head(q) \in Elements(q)
         /\ Elements(Tail(q)) = Elements(q) \ {Head(q)}
         /\ Once(Tail(q))
<1> DEFINE d == Tail(q)
<1>1. /\ d \in Seq(Node) /\ Len(d) = Len(q) - 1 /\ Len(q) \in Nat /\ Len(q) >= 1
      /\ \A i \in 1 .. Len(q) - 1 : d[i] = q[i + 1]
      /\ DOMAIN q = 1 .. Len(q) /\ DOMAIN d = 1 .. Len(q) - 1
      /\ Head(q) = q[1] /\ q[1] \in Node
  BY HeadTailProperties, EmptySeq, LenProperties
<1> HIDE DEF d
<1>2. Elements(d) = Elements(q) \ {q[1]}
  <2>1. \A i \in DOMAIN d : i + 1 \in DOMAIN q /\ d[i] = q[i + 1] /\ q[i + 1] # q[1]
    BY <1>1 DEF Once
  <2>2. \A i \in DOMAIN q : q[i] # q[1] => i - 1 \in DOMAIN d /\ d[i - 1] = q[i]
    BY <1>1
  <2> QED BY <2>1, <2>2 DEF Elements
<1>3. Once(d)
  <2>1. ASSUME NEW i \in DOMAIN d, NEW j \in DOMAIN d, d[i] = d[j] PROVE i = j
    <3>1. /\ i + 1 \in DOMAIN q /\ j + 1 \in DOMAIN q /\ q[i + 1] = q[j + 1]
          /\ i \in Int /\ j \in Int
      BY <1>1, <2>1
    <3>2. i + 1 = j + 1
      BY <3>1 DEF Once
    <3> QED BY <3>1, <3>2
  <2> QED BY <2>1 DEF Once
<1>4. q[1] \in Elements(q)
  BY <1>1 DEF Elements
<1> QED BY <1>1, <1>2, <1>3, <1>4 DEF d

-----------------------------------------------------------------------------
(* The inductive invariant.                                                *)

LEMMA DefaultIsTask == Default \in Task /\ Worker \subseteq Task /\ Default \notin Worker
BY TasksAssumption DEF Task

\* A task that only goes on to another place with its queue and hand unchanged.
LEMMA PlaceStep ==
  ASSUME IInv, NEW t \in Task, NEW from, NEW to \in Location, Goes(t, from, to),
         UNCHANGED <<running, ready, queue, hand, inHeap, dropped>>,
         from \in {"taken", "process", "free"} <=> to \in {"taken", "process", "free"},
         to \in {"empty", "halted"} => queue[t] = <<>>
  PROVE  IInv'
<1>1. TypeOK /\ running = t /\ pc[t] = from /\ pc' = [pc EXCEPT ![t] = to]
  BY DEF IInv, Goes
<1>2. TypeOK'
  BY <1>1 DEF TypeOK
<1>3. NodesAccounted'
  <2>1. \A u \in Task : Own(u)' = Own(u) /\ Queued(u)' = Queued(u) /\ Held(u)' = Held(u)
    BY DEF Own, Queued, Held
  <2>2. UNION {Own(u)' : u \in Task} = UNION {Own(u) : u \in Task}
    BY <2>1
  <2> QED BY <2>1, <2>2 DEF IInv, NodesAccounted
<1>4. OnlyRunningInQueue'
  BY <1>1 DEF IInv, OnlyRunningInQueue, TypeOK
<1>5. HandAgreesWithPlace' /\ EmptySeenIsEmpty'
  BY <1>1 DEF IInv, HandAgreesWithPlace, EmptySeenIsEmpty, TypeOK
<1> QED BY <1>2, <1>3, <1>4, <1>5 DEF IInv

LEMMA DequeueKeepsIInv ==
  ASSUME IInv, NEW t \in Worker, Dequeue(t), queue[t] # <<>>
  PROVE  IInv'
<1> DEFINE h == Head(queue[t])
<1>1. /\ TypeOK /\ t \in Task /\ running = t /\ pc[t] = "dequeue"
      /\ pc' = [pc EXCEPT ![t] = "taken"]
      /\ hand' = [hand EXCEPT ![t] = h] /\ queue' = [queue EXCEPT ![t] = Tail(@)]
      /\ UNCHANGED <<running, ready, inHeap, dropped>>
  BY DefaultIsTask DEF IInv, Dequeue, Goes
<1>2. /\ queue[t] \in Seq(Node) /\ hand[t] = NoNode /\ Once(queue[t])
      /\ Elements(queue[t]) = Queued(t) /\ Held(t) = {}
  BY <1>1 DEF IInv, TypeOK, HandAgreesWithPlace, NodesAccounted, Once, Elements, Queued, Held
<1>3. /\ Tail(queue[t]) \in Seq(Node) /\ Len(Tail(queue[t])) < Len(queue[t])
      /\ Len(Tail(queue[t])) \in Nat /\ Len(queue[t]) \in Nat
      /\ h \in Node /\ h \in Queued(t)
      /\ Elements(Tail(queue[t])) = Queued(t) \ {h}
      /\ Once(Tail(queue[t]))
  BY <1>2, TailElements, LenProperties
<1>4. h # NoNode
  BY <1>3, NodesAssumption
<1> HIDE DEF h
<1>5. TypeOK'
  <2>1. Len(Tail(queue[t])) <= Slots
    BY <1>1, <1>3, NodesAssumption DEF TypeOK
  <2>2. \A u \in Task : Len(queue'[u]) <= Slots
    BY <1>1, <2>1 DEF TypeOK
  <2>3. pc' \in [Task -> Location]
    BY <1>1 DEF TypeOK, Location
  <2> QED BY <1>1, <1>3, <2>2, <2>3 DEF TypeOK
<1>6. NodesAccounted'
  <2>1. /\ queue'[t] = Tail(queue[t]) /\ Queued(t)' = Queued(t) \ {h} /\ Held(t)' = {h}
    BY <1>1, <1>3, <1>4 DEF TypeOK, Queued, Held, Elements
  <2>2. Own(t)' = Own(t) /\ Queued(t)' \cap Held(t)' = {}
    BY <1>2, <1>3, <2>1 DEF Own
  <2>3. \A u \in Task \ {t} : /\ queue'[u] = queue[u] /\ Own(u)' = Own(u)
                              /\ Queued(u)' = Queued(u) /\ Held(u)' = Held(u)
    BY <1>1 DEF TypeOK, Own, Queued, Held
  <2>4. \A u \in Task : Own(u)' = Own(u) /\ Queued(u)' \cap Held(u)' = {}
    BY <2>2, <2>3 DEF IInv, NodesAccounted
  <2>5. \A u \in Task : Once(queue'[u])
    BY <1>3, <2>1, <2>3 DEF IInv, NodesAccounted, Once
  <2>6. UNION {Own(u)' : u \in Task} = UNION {Own(u) : u \in Task}
    BY <2>4
  <2> QED BY <1>1, <2>4, <2>5, <2>6 DEF IInv, NodesAccounted, Once
<1>7. OnlyRunningInQueue'
  BY <1>1 DEF IInv, OnlyRunningInQueue, TypeOK
<1>8. HandAgreesWithPlace' /\ EmptySeenIsEmpty'
  BY <1>1, <1>4 DEF IInv, HandAgreesWithPlace, EmptySeenIsEmpty, TypeOK
<1> QED BY <1>5, <1>6, <1>7, <1>8 DEF IInv

LEMMA FreeKeepsIInv ==
  ASSUME IInv, NEW t \in Worker, Free(t)
  PROVE  IInv'
<1> DEFINE h == hand[t]
<1>1. /\ TypeOK /\ t \in Task /\ running = t /\ pc[t] = "free"
      /\ pc' = [pc EXCEPT ![t] = "loop"]
      /\ hand' = [hand EXCEPT ![t] = NoNode] /\ inHeap' = inHeap \ {h}
      /\ UNCHANGED <<running, ready, queue, dropped>>
  BY DefaultIsTask DEF IInv, Free, Goes
<1>2. h # NoNode /\ h \in Node /\ Held(t) = {h} /\ h \in Own(t) /\ h \notin Queued(t)
  BY <1>1 DEF IInv, TypeOK, HandAgreesWithPlace, NodesAccounted, Held, Own
<1> HIDE DEF h
<1>3. TypeOK'
  BY <1>1 DEF TypeOK, Location
<1>4. NodesAccounted'
  <2>1. Queued(t)' = Queued(t) /\ Held(t)' = {} /\ Own(t)' = Own(t) \ {h}
    BY <1>1, <1>2 DEF TypeOK, Queued, Held, Own
  <2>2. \A u \in Task \ {t} : Own(u)' = Own(u) /\ Queued(u)' = Queued(u) /\ Held(u)' = Held(u)
    BY <1>1 DEF TypeOK, Own, Queued, Held
  <2>3. \A u \in Task \ {t} : h \notin Own(u)
    BY <1>1, <1>2 DEF IInv, NodesAccounted
  <2>4. \A u \in Task : Own(u)' = Own(u) \ {h}
    BY <2>1, <2>2, <2>3
  <2>5. h \notin dropped
    BY <1>1, <1>2 DEF IInv, NodesAccounted
  <2>6. \A n : (\E u \in Task : n \in Own(u)') <=> n # h /\ \E u \in Task : n \in Own(u)
    BY <2>4
  <2>7. inHeap' = (UNION {Own(u)' : u \in Task}) \cup dropped'
    <3>1. inHeap = (UNION {Own(u) : u \in Task}) \cup dropped
      BY DEF IInv, NodesAccounted
    <3>2. \A n : n \in inHeap' <=> (\E u \in Task : n \in Own(u)') \/ n \in dropped'
      BY <1>1, <2>5, <2>6, <3>1
    <3> QED BY <3>2
  <2>8. \A u \in Task : Queued(u)' \cap Held(u)' = {}
    BY <2>1, <2>2 DEF IInv, NodesAccounted
  <2> QED BY <1>1, <2>4, <2>7, <2>8 DEF IInv, NodesAccounted
<1>5. OnlyRunningInQueue'
  BY <1>1 DEF IInv, OnlyRunningInQueue, TypeOK
<1>6. HandAgreesWithPlace' /\ EmptySeenIsEmpty'
  BY <1>1 DEF IInv, HandAgreesWithPlace, EmptySeenIsEmpty, TypeOK
<1> QED BY <1>3, <1>4, <1>5, <1>6 DEF IInv

\* What every interrupt does to the place of the running task: it ends a hlt.
LEMMA WokenPlace ==
  ASSUME IInv, InterruptsOn, pc' = Woken
  PROVE  /\ running \in Task
         /\ pc' \in [Task -> Location]
         /\ \A t \in Task \ {running} : pc'[t] = pc[t]
         /\ pc'[running] = IF pc[running] = "halted" THEN "loop" ELSE pc[running]
         /\ pc[running] \notin {"dequeue", "empty", "taken"}
BY DEF IInv, TypeOK, Woken, InterruptsOn, InterruptsOff, Location

\* An interrupt that leaves the queues and the nodes alone.
LEMMA QuietInterrupt ==
  ASSUME IInv, InterruptsOn, pc' = Woken,
         UNCHANGED <<queue, hand, inHeap, dropped>>,
         running' \in Task, ready' \in Seq(Worker \cup {Default})
  PROVE  IInv'
<1>1. TypeOK'
  BY WokenPlace DEF IInv, TypeOK
<1>2. NodesAccounted'
  <2>1. \A u \in Task : Own(u)' = Own(u) /\ Queued(u)' = Queued(u) /\ Held(u)' = Held(u)
    BY DEF Own, Queued, Held
  <2>2. UNION {Own(u)' : u \in Task} = UNION {Own(u) : u \in Task}
    BY <2>1
  <2> QED BY <2>1, <2>2 DEF IInv, NodesAccounted
<1>3. OnlyRunningInQueue'
  BY WokenPlace DEF IInv, OnlyRunningInQueue
<1>4. HandAgreesWithPlace' /\ EmptySeenIsEmpty'
  BY WokenPlace DEF IInv, HandAgreesWithPlace, EmptySeenIsEmpty
<1> QED BY <1>1, <1>2, <1>3, <1>4 DEF IInv

LEMMA InputEventKeepsIInv ==
  ASSUME IInv, NEW n \in Node, InputEvent(n)
  PROVE  IInv'
<1>0. PICK r \in Task : running = r
  BY DEF IInv, TypeOK
<1>1. /\ TypeOK /\ InterruptsOn /\ pc' = Woken
      /\ n \notin inHeap /\ inHeap' = inHeap \cup {n}
      /\ UNCHANGED <<running, ready, hand>>
      /\ Len(queue[r]) < Slots => queue' = [queue EXCEPT ![r] = Append(@, n)] /\ dropped' = dropped
      /\ ~(Len(queue[r]) < Slots) => dropped' = dropped \cup {n} /\ queue' = queue
  BY <1>0 DEF IInv, TypeOK, InputEvent, Deliver
<1>2. /\ queue[r] \in Seq(Node) /\ Once(queue[r]) /\ Elements(queue[r]) = Queued(r)
      /\ Len(queue[r]) \in Nat
  BY <1>1, LenProperties DEF IInv, TypeOK, NodesAccounted, Once, Elements, Queued
<1>3. n \notin dropped /\ \A u \in Task : n \notin Own(u)
  BY <1>1 DEF IInv, NodesAccounted
<1>4. OnlyRunningInQueue' /\ HandAgreesWithPlace'
  BY <1>1, WokenPlace DEF IInv, OnlyRunningInQueue, HandAgreesWithPlace
<1>5. pc'[r] \notin {"empty", "halted"} /\ \A u \in Task \ {r} : pc'[u] = pc[u]
  BY <1>0, <1>1, WokenPlace
<1>6. CASE Len(queue[r]) < Slots
  <2>1. /\ Append(queue[r], n) \in Seq(Node) /\ Len(Append(queue[r], n)) <= Slots
        /\ Elements(Append(queue[r], n)) = Queued(r) \cup {n}
        /\ Once(Append(queue[r], n))
    <3>1. n \notin Elements(queue[r])
      BY <1>2, <1>3 DEF Own
    <3>2. Len(queue[r]) + 1 <= Slots
      BY <1>2, <1>6, NodesAssumption
    <3> QED BY <1>2, <3>1, <3>2, AppendElements
  <2>2. queue'[r] = Append(queue[r], n) /\ \A u \in Task \ {r} : queue'[u] = queue[u]
    BY <1>1, <1>6 DEF TypeOK
  <2>3. TypeOK'
    BY <1>1, <1>6, <2>1, <2>2, WokenPlace DEF TypeOK
  <2>4. NodesAccounted'
    <3>1. Queued(r)' = Queued(r) \cup {n} /\ Held(r)' = Held(r) /\ Own(r)' = Own(r) \cup {n}
      BY <1>1, <2>1, <2>2 DEF Own, Queued, Held, Elements
    <3>2. \A u \in Task \ {r} : /\ Own(u)' = Own(u) /\ Queued(u)' = Queued(u)
                                /\ Held(u)' = Held(u)
      BY <1>1, <2>2 DEF Own, Queued, Held
    <3>3. \A u \in Task : Once(queue'[u])
      BY <2>1, <2>2 DEF IInv, NodesAccounted, Once
    <3>4. \A m : (\E u \in Task : m \in Own(u)') <=> m = n \/ \E u \in Task : m \in Own(u)
      BY <1>1, <3>1, <3>2
    <3>5. inHeap' = (UNION {Own(u)' : u \in Task}) \cup dropped'
      <4>1. inHeap = (UNION {Own(u) : u \in Task}) \cup dropped
        BY DEF IInv, NodesAccounted
      <4>2. \A m : m \in inHeap' <=> (\E u \in Task : m \in Own(u)') \/ m \in dropped'
        BY <1>1, <1>6, <3>4, <4>1
      <4> QED BY <4>2
    <3>6. \A u \in Task : Queued(u)' \cap Held(u)' = {} /\ Own(u)' \cap dropped' = {}
      BY <1>1, <1>3, <1>6, <3>1, <3>2 DEF IInv, NodesAccounted, Own
    <3>7. \A u \in Task : \A v \in Task \ {u} : Own(u)' \cap Own(v)' = {}
      BY <1>1, <1>3, <3>1, <3>2 DEF IInv, NodesAccounted
    <3> QED BY <3>3, <3>5, <3>6, <3>7 DEF NodesAccounted, Once
  <2>5. EmptySeenIsEmpty'
    BY <1>5, <2>2 DEF IInv, EmptySeenIsEmpty
  <2> QED BY <1>4, <2>3, <2>4, <2>5 DEF IInv
<1>7. CASE ~(Len(queue[r]) < Slots)
  <2>1. TypeOK'
    BY <1>1, <1>7, WokenPlace DEF TypeOK
  <2>2. NodesAccounted'
    <3>1. \A u \in Task : /\ Own(u)' = Own(u) /\ Queued(u)' = Queued(u)
                          /\ Held(u)' = Held(u)
      BY <1>1, <1>7 DEF Own, Queued, Held
    <3>2. UNION {Own(u)' : u \in Task} = UNION {Own(u) : u \in Task}
      BY <3>1
    <3> QED BY <1>1, <1>3, <1>7, <3>1, <3>2 DEF IInv, NodesAccounted
  <2>3. EmptySeenIsEmpty'
    BY <1>1, <1>5, <1>7 DEF IInv, EmptySeenIsEmpty
  <2> QED BY <1>4, <2>1, <2>2, <2>3 DEF IInv
<1> QED BY <1>6, <1>7

LEMMA IInvStep == IInv /\ [Next]_vars => IInv'
<1> SUFFICES ASSUME IInv, [Next]_vars PROVE IInv'
  OBVIOUS
<1> USE DefaultIsTask
<1>1. CASE KernExec
  BY <1>1, PlaceStep DEF KernExec, Location
<1>2. ASSUME NEW t \in Worker, TaskMain(t) PROVE IInv'
  <2>1. CASE Cli(t)
    BY <2>1, PlaceStep DEF Cli, Location
  <2>2. CASE Dequeue(t)
    <3>1. CASE queue[t] = <<>>
      BY <2>2, <3>1, PlaceStep DEF Dequeue, Location
    <3> QED BY <2>2, <3>1, DequeueKeepsIInv
  <2>3. CASE StiHalt(t)
    <3>1. queue[t] = <<>>
      BY <2>3 DEF StiHalt, Goes, IInv, EmptySeenIsEmpty
    <3> QED BY <2>3, <3>1, PlaceStep DEF StiHalt, Location
  <2>4. CASE Sti(t)
    BY <2>4, PlaceStep DEF Sti, Location
  <2>5. CASE Process(t)
    BY <2>5, PlaceStep DEF Process, Location
  <2>6. CASE Free(t)
    BY <2>6, FreeKeepsIInv
  <2> QED BY <1>2, <2>1, <2>2, <2>3, <2>4, <2>5, <2>6 DEF TaskMain
<1>3. ASSUME NEW n \in Node, InputEvent(n) PROVE IInv'
  BY <1>3, InputEventKeepsIInv
<1>4. CASE NothingToDeliver
  BY <1>4, QuietInterrupt DEF NothingToDeliver, IInv, TypeOK
<1>5. CASE SwitchTask
  <2>1. running' \in Task /\ ready' \in Seq(Worker \cup {Default})
    <3>1. CASE ready = <<>>
      BY <1>5, <3>1 DEF SwitchTask, IInv, TypeOK
    <3>2. CASE ready # <<>>
      <4>1. running' = Head(ready) /\ ready' = Append(Tail(ready), running)
        BY <1>5, <3>2 DEF SwitchTask, RR!Turn
      <4>2. ready \in Seq(Task) /\ running \in Task
        BY DEF IInv, TypeOK, Task
      <4>3. Head(ready) \in Task /\ Tail(ready) \in Seq(Task)
        BY <3>2, <4>2, HeadTailProperties
      <4>4. Append(Tail(ready), running) \in Seq(Task)
        BY <4>2, <4>3, AppendProperties
      <4> QED BY <4>1, <4>3, <4>4 DEF Task
    <3> QED BY <3>1, <3>2
  <2> QED BY <1>5, <2>1, QuietInterrupt DEF SwitchTask
<1>6. CASE UNCHANGED vars
  <2>1. UNCHANGED <<running, ready, pc, queue, hand, inHeap, dropped>>
    BY <1>6 DEF vars
  <2>2. \A u \in Task : Own(u)' = Own(u) /\ Queued(u)' = Queued(u) /\ Held(u)' = Held(u)
    BY <2>1 DEF Own, Queued, Held
  <2>3. UNION {Own(u)' : u \in Task} = UNION {Own(u) : u \in Task}
    BY <2>2
  <2> QED BY <2>1, <2>2, <2>3
          DEF IInv, TypeOK, NodesAccounted, OnlyRunningInQueue,
              HandAgreesWithPlace, EmptySeenIsEmpty
<1> QED BY <1>1, <1>2, <1>3, <1>4, <1>5, <1>6 DEF Next

LEMMA IInvInductive == Spec => []IInv
<1>1. Init => IInv
  <2> SUFFICES ASSUME Init PROVE IInv
    OBVIOUS
  <2>1. \A t \in Task : queue[t] = <<>> /\ hand[t] = NoNode
    BY DEF Init
  <2>2. \A t \in Task : Queued(t) = {} /\ Held(t) = {} /\ Own(t) = {}
    BY <2>1 DEF Queued, Held, Own
  <2>3. TypeOK
    <3>1. <<>> \in Seq(Node) /\ Len(<<>>) = 0
      BY EmptySeq
    <3>2. Started \in Seq(Worker \cup {Default})
      BY TasksAssumption, SeqMonotonic
    <3> QED BY <3>1, <3>2, DefaultIsTask, NodesAssumption DEF Init, TypeOK, Location
  <2>4. NodesAccounted
    <3>1. UNION {Own(t) : t \in Task} = {}
      BY <2>2
    <3> QED BY <2>1, <2>2, <3>1 DEF Init, NodesAccounted
  <2>5. OnlyRunningInQueue /\ HandAgreesWithPlace /\ EmptySeenIsEmpty
    BY DEF Init, OnlyRunningInQueue, HandAgreesWithPlace, EmptySeenIsEmpty
  <2> QED BY <2>3, <2>4, <2>5 DEF IInv
<1> QED BY <1>1, IInvStep, PTL DEF Spec

\* A node is allocated for as long as it is in one queue, in one hand or
\* leaked, and is never in two places (interrupt_handlers.c:87-93,
\* tasks.c:92-116).
THEOREM KernelNodesAccounted == Spec => []NodesAccounted
<1>1. IInv => NodesAccounted
  BY DEF IInv
<1> QED BY <1>1, IInvInductive, PTL

\* No task sleeps on an event that is in its queue (tasks.c:92-98).
THEOREM KernelNoLostWakeup == Spec => []NoLostWakeup
<1>1. IInv => NoLostWakeup
  BY DefaultIsTask DEF IInv, EmptySeenIsEmpty, NoLostWakeup
<1> QED BY <1>1, IInvInductive, PTL

-----------------------------------------------------------------------------
(* The refinement of EventDelivery.                                        *)

\* A node in front of a queue.
LEMMA NodeInFront ==
  ASSUME NEW h \in Node, NEW q \in Seq(Node)
  PROVE  /\ <<h>> \o q \in Seq(Node) /\ Len(<<h>> \o q) = Len(q) + 1 /\ <<h>> \o q # <<>>
         /\ (<<h>> \o q)[1] = h
         /\ \A i \in 1 .. Len(q) : (<<h>> \o q)[i + 1] = q[i]
         /\ Tail(<<h>> \o q) = q
<1> DEFINE one == <<h>>
           c == one \o q
<1>1. one \in Seq(Node) /\ Len(one) = 1 /\ one[1] = h
  OBVIOUS
<1> HIDE DEF one
<1>2. /\ c \in Seq(Node) /\ Len(c) = 1 + Len(q) /\ Len(q) \in Nat
      /\ \A i \in 1 .. 1 + Len(q) : c[i] = IF i <= 1 THEN one[i] ELSE q[i - 1]
  <2>1. /\ c \in Seq(Node) /\ Len(c) = Len(one) + Len(q)
        /\ \A i \in 1 .. Len(one) + Len(q) :
             c[i] = IF i <= Len(one) THEN one[i] ELSE q[i - Len(one)]
    BY <1>1, ConcatProperties
  <2> QED BY <1>1, <2>1, LenProperties
<1> HIDE DEF c
<1>3. c[1] = h /\ c # <<>>
  BY <1>1, <1>2, EmptySeq
<1>4. ASSUME NEW i \in 1 .. Len(q) PROVE c[i + 1] = q[i]
  <2>1. i + 1 \in 1 .. 1 + Len(q) /\ ~(i + 1 <= 1) /\ i + 1 - 1 = i
    BY <1>2
  <2> QED BY <1>2, <2>1
<1>5. Tail(c) = q
  <2>1. /\ Tail(c) \in Seq(Node) /\ Len(Tail(c)) = Len(q)
        /\ \A i \in 1 .. Len(q) : Tail(c)[i] = c[i + 1]
    BY <1>2, <1>3, HeadTailProperties
  <2> QED BY <1>4, <2>1, SeqEqual
<1> QED BY <1>2, <1>3, <1>4, <1>5 DEF c, one

\* A queue is its first node in front of the others.
LEMMA HeadInFront ==
  ASSUME NEW q \in Seq(Node), q # <<>>
  PROVE  Head(q) \in Node /\ Tail(q) \in Seq(Node) /\ <<Head(q)>> \o Tail(q) = q
<1>1. /\ Head(q) \in Node /\ Tail(q) \in Seq(Node)
      /\ Len(Tail(q)) = Len(q) - 1 /\ Len(q) \in Nat
      /\ \A i \in 1 .. Len(q) - 1 : Tail(q)[i] = q[i + 1]
      /\ Head(q) = q[1]
  BY HeadTailProperties, LenProperties
<1> DEFINE c == <<Head(q)>> \o Tail(q)
<1>2. /\ c \in Seq(Node) /\ Len(c) = Len(q) /\ c[1] = q[1]
      /\ \A i \in 1 .. Len(q) - 1 : c[i + 1] = q[i + 1]
  BY <1>1, NodeInFront
<1> HIDE DEF c
<1>3. ASSUME NEW i \in 1 .. Len(q) PROVE c[i] = q[i]
  <2>1. i = 1 \/ (i - 1 \in 1 .. Len(q) - 1 /\ i - 1 + 1 = i)
    BY <1>1
  <2> QED BY <1>2, <2>1
<1> QED BY <1>1, <1>2, <1>3, SeqEqual DEF c

\* A task's inbox is its queue, behind the node it has in its hand.
LEMMA InboxShape ==
  ASSUME IInv, NEW t \in Task
  PROVE  /\ Inbox[t] \in Seq(Node)
         /\ hand[t] = NoNode => Inbox[t] = queue[t]
         /\ hand[t] # NoNode => Inbox[t] = <<hand[t]>> \o queue[t]
         /\ \A i \in DOMAIN Inbox[t] : Inbox[t][i] \in Own(t)
<1>1. queue[t] \in Seq(Node) /\ hand[t] \in Node \cup {NoNode}
  BY DEF IInv, TypeOK
<1>2. /\ hand[t] = NoNode => Inbox[t] = queue[t]
      /\ hand[t] # NoNode => Inbox[t] = <<hand[t]>> \o queue[t]
  BY DEF Inbox
<1>3. CASE hand[t] = NoNode
  BY <1>1, <1>2, <1>3 DEF Own, Queued
<1>4. CASE hand[t] # NoNode
  <2>2. /\ Inbox[t] \in Seq(Node) /\ Len(Inbox[t]) = Len(queue[t]) + 1
        /\ Inbox[t][1] = hand[t]
        /\ \A i \in 1 .. Len(queue[t]) : Inbox[t][i + 1] = queue[t][i]
    <3>1. hand[t] \in Node /\ Inbox[t] = <<hand[t]>> \o queue[t]
      BY <1>1, <1>2, <1>4
    <3> DEFINE h == hand[t]
               q == queue[t]
    <3> HIDE DEF h, q
    <3>2. h \in Node /\ q \in Seq(Node)
      BY <1>1, <3>1 DEF h, q
    <3>3. /\ <<h>> \o q \in Seq(Node) /\ Len(<<h>> \o q) = Len(q) + 1
          /\ (<<h>> \o q)[1] = h
          /\ \A i \in 1 .. Len(q) : (<<h>> \o q)[i + 1] = q[i]
      BY <3>2, NodeInFront
    <3> QED BY <3>1, <3>3 DEF h, q
  <2>3. /\ DOMAIN Inbox[t] = 1 .. Len(queue[t]) + 1 /\ DOMAIN queue[t] = 1 .. Len(queue[t])
        /\ Len(queue[t]) \in Nat
    BY <1>1, <2>2, LenProperties
  <2>4. ASSUME NEW i \in DOMAIN Inbox[t] PROVE Inbox[t][i] \in Own(t)
    <3>1. CASE i = 1
      BY <1>4, <2>2, <3>1 DEF Own, Held
    <3>2. CASE i # 1
      <4>1. i - 1 \in 1 .. Len(queue[t]) /\ i - 1 + 1 = i
        BY <2>3, <3>2
      <4> QED BY <2>2, <2>3, <4>1 DEF Own, Queued
    <3> QED BY <3>1, <3>2
  <2> QED BY <1>2, <1>4, <2>2, <2>4
<1> QED BY <1>2, <1>3, <1>4

\* A node the heap may hand out carries no event.
LEMMA FreeNodeNotInUse ==
  ASSUME IInv, NEW n \in Node, n \notin inHeap
  PROVE  n \notin ED!InUse
<1>1. \A t \in Task : n \notin Own(t)
  BY DEF IInv, NodesAccounted
<1>2. n \notin dropped
  BY DEF IInv, NodesAccounted
<1>3. \A t \in Task : n \notin {Inbox[t][i] : i \in DOMAIN Inbox[t]}
  BY <1>1, InboxShape
<1> QED BY <1>2, <1>3 DEF ED!InUse

\* A handler posts its event to the current task, or loses it.
LEMMA InputEventIsPostOrLose ==
  ASSUME IInv, NEW n \in Node, InputEvent(n)
  PROVE  ED!Next
<1>0. PICK r \in Task : running = r
  BY DEF IInv, TypeOK
<1>1. n \notin ED!InUse
  BY FreeNodeNotInUse DEF InputEvent
<1>2. CASE Len(queue[r]) < Slots
  <2>1. /\ queue' = [queue EXCEPT ![r] = Append(@, n)] /\ hand' = hand /\ dropped' = dropped
        /\ queue[r] \in Seq(Node) /\ hand[r] \in Node \cup {NoNode}
        /\ queue \in [Task -> Seq(Node)]
    BY <1>0, <1>2 DEF InputEvent, Deliver, IInv, TypeOK
  <2>2. queue'[r] = Append(queue[r], n) /\ \A t \in Task \ {r} : queue'[t] = queue[t]
    BY <2>1
  <2>3. Inbox'[r] = Append(Inbox[r], n)
    <3>1. CASE hand[r] = NoNode
      BY <2>1, <2>2, <3>1 DEF Inbox
    <3>2. CASE hand[r] # NoNode
      <4>1. Inbox'[r] = <<hand[r]>> \o Append(queue[r], n)
        BY <2>1, <2>2, <3>2 DEF Inbox
      <4>2. <<hand[r]>> \in Seq(Node) /\ <<n>> \in Seq(Node)
        BY <2>1, <3>2
      <4>3. Append(queue[r], n) = queue[r] \o <<n>>
        BY <2>1, AppendIsConcat
      <4>4. <<hand[r]>> \o (queue[r] \o <<n>>) = (<<hand[r]>> \o queue[r]) \o <<n>>
        BY <2>1, <4>2, ConcatAssociative
      <4>5. Inbox[r] = <<hand[r]>> \o queue[r] /\ Inbox[r] \in Seq(Node)
        BY <3>2, InboxShape
      <4>6. Append(Inbox[r], n) = Inbox[r] \o <<n>>
        BY <4>5, AppendIsConcat
      <4> QED BY <4>1, <4>3, <4>4, <4>5, <4>6
    <3> QED BY <3>1, <3>2
  <2>4. \A t \in Task \ {r} : Inbox'[t] = Inbox[t]
    BY <2>1, <2>2 DEF Inbox
  <2>5. Inbox' = [Inbox EXCEPT ![r] = Append(Inbox[r], n)]
    BY <2>3, <2>4 DEF Inbox
  <2>6. ED!Post(r, n)
    BY <1>1, <2>1, <2>5 DEF ED!Post
  <2> QED BY <2>6 DEF ED!Next
<1>3. CASE ~(Len(queue[r]) < Slots)
  <2>1. queue' = queue /\ hand' = hand /\ dropped' = dropped \cup {n}
    BY <1>0, <1>3 DEF InputEvent, Deliver
  <2>2. Inbox' = Inbox
    BY <2>1 DEF Inbox
  <2>3. ED!Lose(n)
    BY <1>1, <2>1, <2>2 DEF ED!Lose
  <2> QED BY <2>3 DEF ED!Next
<1> QED BY <1>2, <1>3

\* Taking a node off the queue only moves it to the hand.
LEMMA DequeueKeepsInbox ==
  ASSUME IInv, NEW t \in Worker, Dequeue(t), queue[t] # <<>>
  PROVE  Inbox' = Inbox
<1>1. /\ t \in Task /\ pc[t] = "dequeue" /\ queue \in [Task -> Seq(Node)]
      /\ hand \in [Task -> Node \cup {NoNode}]
      /\ hand' = [hand EXCEPT ![t] = Head(queue[t])]
      /\ queue' = [queue EXCEPT ![t] = Tail(@)]
  BY DefaultIsTask DEF IInv, TypeOK, Dequeue, Goes
<1>2. hand[t] = NoNode /\ queue[t] \in Seq(Node)
  BY <1>1 DEF IInv, HandAgreesWithPlace
<1>4. Head(queue[t]) \in Node /\ <<Head(queue[t])>> \o Tail(queue[t]) = queue[t]
  BY <1>2, HeadInFront
<1>5. Inbox'[t] = Inbox[t]
  <2>1. Head(queue[t]) # NoNode
    BY <1>4, NodesAssumption
  <2> QED BY <1>1, <1>2, <1>4, <2>1 DEF Inbox
<1>6. \A u \in Task \ {t} : Inbox'[u] = Inbox[u]
  BY <1>1 DEF Inbox
<1> QED BY <1>5, <1>6 DEF Inbox

\* When a task frees its node it is done with the first event of its inbox.
LEMMA FreeIsHandle ==
  ASSUME IInv, NEW t \in Worker, Free(t)
  PROVE  ED!Handle(t)
<1>1. /\ t \in Task /\ pc[t] = "free" /\ queue \in [Task -> Seq(Node)]
      /\ hand \in [Task -> Node \cup {NoNode}]
      /\ hand' = [hand EXCEPT ![t] = NoNode] /\ queue' = queue /\ dropped' = dropped
  BY DefaultIsTask DEF IInv, TypeOK, Free, Goes
<1>2. hand[t] # NoNode /\ hand[t] \in Node /\ queue[t] \in Seq(Node)
  BY <1>1 DEF IInv, HandAgreesWithPlace
<1>3. Inbox[t] = <<hand[t]>> \o queue[t] /\ Inbox[t] \in Seq(Node)
  BY <1>1, <1>2, InboxShape
<1>4. Inbox[t] # <<>> /\ Tail(Inbox[t]) = queue[t]
  BY <1>2, <1>3, NodeInFront
<1>5. Inbox'[t] = queue[t] /\ \A u \in Task \ {t} : Inbox'[u] = Inbox[u]
  BY <1>1 DEF Inbox
<1>6. Inbox' = [Inbox EXCEPT ![t] = Tail(Inbox[t])]
  BY <1>4, <1>5 DEF Inbox
<1> QED BY <1>1, <1>4, <1>6 DEF ED!Handle

\* Events reach the task they are posted to in order and each once, and the
\* node that carries one serves no other, for any number of tasks, nodes and
\* entries (tasks.c:81-168, interrupt_handlers.c:33-120).  That they are
\* handled in the end is left to the run.
THEOREM KernelDeliversEvents == Spec => ED!Steps
<1>1. Init => ED!Init
  BY DEF Init, ED!Init, Inbox
<1>2. IInv /\ [Next]_vars => [ED!Next]_(ED!vars)
  <2> SUFFICES ASSUME IInv, [Next]_vars PROVE ED!Next \/ UNCHANGED ED!vars
    OBVIOUS
  <2>1. ASSUME hand' = hand, queue' = queue, dropped' = dropped PROVE UNCHANGED ED!vars
    BY <2>1 DEF Inbox, ED!vars
  <2>2. ASSUME NEW t \in Worker, TaskMain(t) PROVE ED!Next \/ UNCHANGED ED!vars
    <3>1. CASE Cli(t) \/ StiHalt(t) \/ Sti(t) \/ Process(t)
      BY <2>1, <3>1 DEF Cli, StiHalt, Sti, Process
    <3>2. CASE Dequeue(t)
      <4>1. CASE queue[t] = <<>>
        BY <2>1, <3>2, <4>1 DEF Dequeue
      <4>2. CASE queue[t] # <<>>
        BY <3>2, <4>2, DequeueKeepsInbox DEF Dequeue, ED!vars
      <4> QED BY <4>1, <4>2
    <3>3. CASE Free(t)
      BY <3>3, FreeIsHandle DEF ED!Next
    <3> QED BY <2>2, <3>1, <3>2, <3>3 DEF TaskMain
  <2>3. ASSUME NEW n \in Node, InputEvent(n) PROVE ED!Next
    BY <2>3, InputEventIsPostOrLose
  <2>4. CASE KernExec \/ NothingToDeliver \/ SwitchTask
    BY <2>1, <2>4 DEF KernExec, NothingToDeliver, SwitchTask
  <2>5. CASE UNCHANGED vars
    BY <2>1, <2>5 DEF vars
  <2> QED BY <2>2, <2>3, <2>4, <2>5 DEF Next
<1> QED BY <1>1, <1>2, IInvInductive, PTL DEF Spec, ED!Steps

-----------------------------------------------------------------------------
(* The ring of a task's event queue, which the sequences of Kernel stand     *)
(* for, and why they may: it implements Fifo.                                *)

\* The wrapped index stays inside the array and moves by one or back to 0.
LEMMA AdvanceIndex ==
  ASSUME NEW i \in Index
  PROVE  /\ Advance(i) \in Index
         /\ Advance(i) = i + 1 \/ (i = RingSlots - 1 /\ Advance(i) = 0)
BY SlotsAssumption DEF Advance, Index

\* The number of accepted nodes lies between 0 and RingSlots, it is 0 exactly when
\* the code reads the queue as empty and RingSlots exactly when full is set.
LEMMA CountRange ==
  ASSUME RingTypeOK, FullMeansMet
  PROVE  /\ Count(ring) \in 0 .. RingSlots
         /\ (Count(ring) = 0) <=> IsEmpty(ring)
         /\ (Count(ring) = RingSlots) <=> ring.full
BY SlotsAssumption DEF RingTypeOK, FullMeansMet, EventQueueType, Index, Count, IsEmpty

\* Every accepted node lies at an index of the array.
LEMMA SlotInIndex ==
  ASSUME RingTypeOK, FullMeansMet, NEW i \in 1 .. RingSlots
  PROVE  SlotOf(ring, i) \in Index
BY SlotsAssumption DEF RingTypeOK, EventQueueType, Index, SlotOf

\* An accepted enqueue adds one node; the old ones stay where they were, in
\* entries the write does not touch.
LEMMA EnqueueShape ==
  ASSUME RingTypeOK, FullMeansMet, ~ring.full, NEW n \in RingNode,
         ring' = EnqueueEventQueue(ring, n)
  PROVE  /\ ring' \in EventQueueType
         /\ FullMeansMet'
         /\ Count(ring)' = Count(ring) + 1
         /\ \A i \in 1 .. Count(ring) :
              /\ SlotOf(ring, i)' = SlotOf(ring, i)
              /\ ring'.nodes[SlotOf(ring, i)] = ring.nodes[SlotOf(ring, i)]
         /\ ring'.nodes[SlotOf(ring', Count(ring) + 1)] = n
<1> DEFINE t == Advance(ring.tail)
<1>1. /\ ring.head \in Index /\ ring.tail \in Index /\ ring.full = FALSE
      /\ ring.nodes \in [Index -> RingNode \cup {Unwritten}]
      /\ ring \in EventQueueType
  BY DEF RingTypeOK, EventQueueType
<1>2. t \in Index /\ (t = ring.tail + 1 \/ (ring.tail = RingSlots - 1 /\ t = 0))
  BY <1>1, AdvanceIndex
<1>3. /\ ring'.head = ring.head /\ ring'.tail = t
      /\ ring'.full = (ring.head = t)
      /\ ring'.nodes = [ring.nodes EXCEPT ![ring.tail] = n]
      /\ ring' = [ring EXCEPT !.nodes[ring.tail] = n, !.tail = t, !.full = (ring.head = t)]
  <2>1. ring' = [ring EXCEPT !.nodes[ring.tail] = n, !.tail = t,
                               !.full = ring.full \/ ring.head = t]
    BY DEF EnqueueEventQueue
  <2>2. (ring.full \/ ring.head = t) = (ring.head = t)
    OBVIOUS
  <2>3. ring' = [ring EXCEPT !.nodes[ring.tail] = n, !.tail = t, !.full = (ring.head = t)]
    BY <2>1, <2>2
  <2> HIDE DEF t
  <2> QED BY <2>3, <1>1, <1>2 DEF EventQueueType
<1> HIDE DEF t
<1>a. (ring'.full = TRUE /\ ring.head = t) \/ (ring'.full = FALSE /\ ring.head # t)
  BY <1>3
<1>b. ring'.nodes \in [Index -> RingNode \cup {Unwritten}]
  BY <1>1, <1>3
<1>4. ring' \in EventQueueType
  <2> DEFINE r == [head |-> ring.head, tail |-> t, full |-> (ring.head = t),
                   nodes |-> [ring.nodes EXCEPT ![ring.tail] = n]]
  <2>1. ring' = r
    BY <1>1, <1>3 DEF EventQueueType
  <2>2. r \in EventQueueType
    BY <1>1, <1>2, <1>3, <1>b DEF EventQueueType
  <2> QED BY <2>1, <2>2
<1>5. FullMeansMet'
  BY <1>3 DEF FullMeansMet
<1>6. Count(ring)' = Count(ring) + 1
  BY <1>1, <1>2, <1>3, <1>a, SlotsAssumption DEF Count, Index
<1>7. ASSUME NEW i \in 1 .. Count(ring)
      PROVE  /\ SlotOf(ring, i)' = SlotOf(ring, i)
             /\ SlotOf(ring, i) \in Index /\ SlotOf(ring, i) # ring.tail
  BY <1>1, <1>3, SlotsAssumption DEF SlotOf, Count, Index
<1>8. SlotOf(ring', Count(ring) + 1) = ring.tail
  BY <1>1, <1>3, SlotsAssumption DEF SlotOf, Count, Index
<1> QED BY <1>1, <1>3, <1>4, <1>5, <1>6, <1>7, <1>8

\* A dequeue removes the oldest node; every other node moves one place forward.
LEMMA DequeueShape ==
  ASSUME RingTypeOK, FullMeansMet, ~IsEmpty(ring), ring' = DequeueEventQueue(ring)
  PROVE  /\ ring' \in EventQueueType
         /\ FullMeansMet'
         /\ Count(ring)' = Count(ring) - 1
         /\ SlotOf(ring, 1) = ring.head
         /\ \A i \in 1 .. Count(ring)' : SlotOf(ring, i)' = SlotOf(ring, i + 1)
         /\ ring'.nodes = ring.nodes
<1>1. /\ ring.head \in Index /\ ring.tail \in Index /\ ring.full \in BOOLEAN
      /\ ring \in EventQueueType
  BY DEF RingTypeOK, EventQueueType
<1>2. /\ Advance(ring.head) \in Index
      /\ Advance(ring.head) = ring.head + 1
         \/ (ring.head = RingSlots - 1 /\ Advance(ring.head) = 0)
  BY <1>1, AdvanceIndex
<1>3. /\ ring'.head = Advance(ring.head) /\ ring'.tail = ring.tail
      /\ ring'.full = FALSE /\ ring'.nodes = ring.nodes
      /\ ring' \in EventQueueType
  BY <1>1, <1>2 DEF EventQueueType, DequeueEventQueue
<1>4. FullMeansMet'
  BY <1>3 DEF FullMeansMet
<1>5. Count(ring)' = Count(ring) - 1
  BY <1>1, <1>2, <1>3, SlotsAssumption DEF Count, Index, IsEmpty, FullMeansMet
<1>6. SlotOf(ring, 1) = ring.head
  BY <1>1, SlotsAssumption DEF SlotOf, Index
<1>7. ASSUME NEW i \in 1 .. Count(ring)'
      PROVE  SlotOf(ring, i)' = SlotOf(ring, i + 1)
  <2>1. Count(ring) \in 0 .. RingSlots
    BY CountRange
  <2> QED BY <1>1, <1>2, <1>3, <1>5, <2>1, SlotsAssumption DEF SlotOf, Index
<1> QED BY <1>3, <1>4, <1>5, <1>6, <1>7

-----------------------------------------------------------------------------
\* No call of an operation breaks the inductive invariant (tasks.c:392-427).
LEMMA RingKeepsIInv == RingInv /\ [RingNext]_ringVars => RingInv'
<1> SUFFICES ASSUME RingInv, [RingNext]_ringVars PROVE RingInv'
  OBVIOUS
<1> USE DEF RingInv
<1>1. ASSUME NEW n \in RingNode, RingEnqueue(n) PROVE RingInv'
  <2>1. CASE ring.full
    <3>1. ring' = ring /\ ret' = "full"
      BY <1>1, <2>1 DEF RingEnqueue, EnqueueEventQueue
    <3> QED BY <3>1 DEF RingTypeOK, FullMeansMet, AcceptedAreNodes, Count, SlotOf
  <2>2. CASE ~ring.full
    <3>1. ring' = EnqueueEventQueue(ring, n) /\ ret' = "ok"
      BY <1>1, <2>2 DEF RingEnqueue
    <3>2. /\ ring' \in EventQueueType /\ FullMeansMet'
          /\ Count(ring)' = Count(ring) + 1
          /\ \A i \in 1 .. Count(ring) :
               /\ SlotOf(ring, i)' = SlotOf(ring, i)
               /\ ring'.nodes[SlotOf(ring, i)] = ring.nodes[SlotOf(ring, i)]
          /\ ring'.nodes[SlotOf(ring', Count(ring) + 1)] = n
      BY <2>2, <3>1, EnqueueShape
    <3>3. RingTypeOK'
      BY <3>1, <3>2 DEF RingTypeOK
    <3>4. AcceptedAreNodes'
      <4> SUFFICES ASSUME NEW i \in 1 .. Count(ring)'
                   PROVE  ring'.nodes[SlotOf(ring, i)'] \in RingNode
        BY DEF AcceptedAreNodes
      <4>1. Count(ring) \in 0 .. RingSlots
        BY CountRange
      <4>2. i \in 1 .. Count(ring) \/ i = Count(ring) + 1
        BY <3>2, <4>1, SlotsAssumption
      <4>3. CASE i \in 1 .. Count(ring)
        BY <4>3, <3>2 DEF AcceptedAreNodes
      <4>4. CASE i = Count(ring) + 1
        BY <4>4, <3>2 DEF SlotOf
      <4> QED BY <4>2, <4>3, <4>4
    <3> QED BY <3>2, <3>3, <3>4
  <2> QED BY <2>1, <2>2
<1>2. ASSUME RingDequeue PROVE RingInv'
  <2>1. CASE IsEmpty(ring)
    <3>1. ring' = ring /\ ret' = "none"
      BY <1>2, <2>1 DEF RingDequeue
    <3> QED BY <3>1 DEF RingTypeOK, FullMeansMet, AcceptedAreNodes, Count, SlotOf
  <2>2. CASE ~IsEmpty(ring)
    <3>1. ring' = DequeueEventQueue(ring) /\ ret' = ring.nodes[ring.head]
      BY <1>2, <2>2 DEF RingDequeue
    <3>2. /\ ring' \in EventQueueType /\ FullMeansMet'
          /\ Count(ring)' = Count(ring) - 1
          /\ SlotOf(ring, 1) = ring.head
          /\ \A i \in 1 .. Count(ring)' : SlotOf(ring, i)' = SlotOf(ring, i + 1)
          /\ ring'.nodes = ring.nodes
      BY <2>2, <3>1, DequeueShape
    <3>3. Count(ring) \in 1 .. RingSlots
      BY <2>2, CountRange, SlotsAssumption
    <3>4. ret' \in RingNode
      BY <3>1, <3>2, <3>3 DEF AcceptedAreNodes
    <3>5. \A i \in 1 .. Count(ring)' : i + 1 \in 1 .. Count(ring)
      BY <3>2, <3>3, SlotsAssumption
    <3>6. AcceptedAreNodes'
      BY <3>2, <3>5 DEF AcceptedAreNodes
    <3> QED BY <3>2, <3>4, <3>6 DEF RingTypeOK
  <2> QED BY <2>1, <2>2
<1>3. ASSUME RingInitialise PROVE RingInv'
  <2>1. /\ ring' = [ring EXCEPT !.head = 0, !.tail = 0, !.full = FALSE] /\ ret' = "cleared"
        /\ ring \in EventQueueType /\ 0 \in Index
    BY <1>3, SlotsAssumption DEF RingInitialise, InitialTaskEventQueue, RingTypeOK, Index
  <2>2. ring' \in EventQueueType /\ ring'.full = FALSE /\ ring'.head = 0 /\ ring'.tail = 0
    BY <2>1 DEF EventQueueType
  <2>3. Count(ring)' = 0
    BY <2>2 DEF Count
  <2> QED BY <2>1, <2>2, <2>3 DEF RingTypeOK, FullMeansMet, AcceptedAreNodes
<1>4. CASE UNCHANGED ringVars
  BY <1>4 DEF ringVars, RingTypeOK, FullMeansMet, AcceptedAreNodes, Count, SlotOf
<1> QED BY <1>1, <1>2, <1>3, <1>4 DEF RingNext

\* Every reachable queue is well typed, never confuses full with empty and
\* never exposes an entry that was not enqueued (tasks.c:392-427).
LEMMA RingInvInductive == RingSpec => []RingInv
<1>1. RingInit => RingInv
  BY SlotsAssumption DEF RingInit, RingInv, RingTypeOK, FullMeansMet, AcceptedAreNodes, ZeroQueue,
                         EventQueueType, Index, Count
<1> QED BY <1>1, RingKeepsIInv, PTL DEF RingSpec

\* The type invariant and the agreement of the flag full with the indices hold
\* for a ring of any size, in particular the 1024 entries of the code.
THEOREM EventQueueTypeOK == RingSpec => [](RingTypeOK /\ FullMeansMet /\ AcceptedAreNodes)
<1>1. RingInv => RingTypeOK /\ FullMeansMet /\ AcceptedAreNodes
  BY DEF RingInv
<1> QED BY <1>1, RingInvInductive, PTL

\* The ring buffer of any size implements the bounded FIFO: no accepted event
\* is lost, duplicated or reordered, and an event is refused only when the
\* array holds RingSlots of them (tasks.c:392-427).
THEOREM EventQueueImplementsFifo == RingSpec => ImplementsFifo
<1>1. RingInit => F!Init
  <2> SUFFICES ASSUME RingInit PROVE F!Init
    OBVIOUS
  <2>1. Count(ring) = 0
    BY DEF RingInit, ZeroQueue, Count
  <2>2. Contents(ring) = <<>>
    BY <2>1 DEF Contents
  <2> QED BY <2>2 DEF RingInit, F!Init
<1>2. RingInv /\ [RingNext]_ringVars => [F!Next]_F!vars
  <2> SUFFICES ASSUME RingInv, [RingNext]_ringVars PROVE [F!Next]_F!vars
    OBVIOUS
  <2> USE DEF RingInv
  <2>0. /\ Count(ring) \in 0 .. RingSlots
        /\ (Count(ring) = 0) <=> IsEmpty(ring)
        /\ (Count(ring) = RingSlots) <=> ring.full
    BY CountRange
  <2>a. Contents(ring) \in Seq(RingNode) /\ Len(Contents(ring)) = Count(ring)
    BY <2>0 DEF Contents, AcceptedAreNodes
  <2>b. /\ Count(ring)' \in Nat
        /\ Contents(ring)' \in Seq(RingNode) /\ Len(Contents(ring)') = Count(ring)'
    <3>1. RingTypeOK' /\ FullMeansMet' /\ AcceptedAreNodes'
      BY RingKeepsIInv
    <3>2. Count(ring)' \in Nat
      BY <3>1, SlotsAssumption DEF RingTypeOK, EventQueueType, Index, Count
    <3> QED BY <3>1, <3>2 DEF Contents, AcceptedAreNodes
  <2>1. ASSUME NEW n \in RingNode, RingEnqueue(n) PROVE F!Next
    <3>1. CASE ring.full
      <4>1. ring' = ring /\ ret' = "full"
        BY <2>1, <3>1 DEF RingEnqueue, EnqueueEventQueue
      <4>2. Contents(ring)' = Contents(ring)
        BY <4>1 DEF Contents, Count, SlotOf
      <4> QED BY <2>0, <2>a, <3>1, <4>1, <4>2 DEF F!Next, F!Refuse
    <3>2. CASE ~ring.full
      <4>1. ring' = EnqueueEventQueue(ring, n) /\ ret' = "ok"
        BY <2>1, <3>2 DEF RingEnqueue
      <4>2. /\ Count(ring)' = Count(ring) + 1
            /\ \A i \in 1 .. Count(ring) :
                 /\ SlotOf(ring, i)' = SlotOf(ring, i)
                 /\ ring'.nodes[SlotOf(ring, i)] = ring.nodes[SlotOf(ring, i)]
            /\ ring'.nodes[SlotOf(ring', Count(ring) + 1)] = n
        BY <3>2, <4>1, EnqueueShape
      <4>3. Contents(ring)' = Append(Contents(ring), n)
        <5> DEFINE c == Contents(ring)
                   a == Append(c, n)
        <5>1. /\ a \in Seq(RingNode) /\ Len(a) = Len(c) + 1
              /\ \A i \in 1 .. Len(c) : a[i] = c[i]
              /\ a[Len(c) + 1] = n
          BY <2>a, AppendProperties
        <5>2. \A i \in 1 .. Count(ring) : c[i] = ring.nodes[SlotOf(ring, i)]
          BY DEF Contents
        <5>3. /\ c' \in Seq(RingNode) /\ Len(c') = Count(ring)'
              /\ \A i \in 1 .. Count(ring)' : c'[i] = ring'.nodes[SlotOf(ring, i)']
          BY <2>b DEF Contents
        <5> HIDE DEF c, a
        <5>5. ASSUME NEW i \in 1 .. Len(c') PROVE c'[i] = a[i]
          <6>1. i \in 1 .. Count(ring) \/ i = Count(ring) + 1
            BY <2>0, <4>2, <5>3, SlotsAssumption
          <6>2. CASE i \in 1 .. Count(ring)
            BY <6>2, <2>a, <4>2, <5>1, <5>2, <5>3 DEF c
          <6>3. CASE i = Count(ring) + 1
            <7>1. SlotOf(ring, i)' = SlotOf(ring', Count(ring) + 1)
              BY <6>3 DEF SlotOf
            <7> QED BY <6>3, <7>1, <2>a, <4>2, <5>1, <5>3 DEF c
          <6> QED BY <6>1, <6>2, <6>3
        <5>6. Len(c') = Len(a)
          <6>1. Len(c) = Count(ring)
            BY <2>a DEF c
          <6> QED BY <6>1, <4>2, <5>1, <5>3
        <5>7. c' = a
          BY <5>1, <5>3, <5>5, <5>6, SeqEqual
        <5> QED BY <5>7 DEF c, a
      <4>4. F!Accept(n)
        BY <2>0, <2>a, <3>2, <4>1, <4>3, SlotsAssumption DEF F!Accept
      <4> QED BY <4>4 DEF F!Next
    <3> QED BY <3>1, <3>2
  <2>2. ASSUME RingDequeue PROVE F!Next
    <3>1. CASE IsEmpty(ring)
      <4>1. ring' = ring /\ ret' = "none"
        BY <2>2, <3>1 DEF RingDequeue
      <4>2. Contents(ring)' = Contents(ring) /\ Contents(ring) = <<>>
        BY <2>0, <3>1, <4>1 DEF Contents, Count, SlotOf
      <4> QED BY <4>1, <4>2 DEF F!Next, F!FindEmpty
    <3>2. CASE ~IsEmpty(ring)
      <4>1. ring' = DequeueEventQueue(ring) /\ ret' = ring.nodes[ring.head]
        BY <2>2, <3>2 DEF RingDequeue
      <4>2. /\ Count(ring)' = Count(ring) - 1
            /\ SlotOf(ring, 1) = ring.head
            /\ \A i \in 1 .. Count(ring)' : SlotOf(ring, i)' = SlotOf(ring, i + 1)
            /\ ring'.nodes = ring.nodes
        BY <3>2, <4>1, DequeueShape
      <4>3. Count(ring) \in 1 .. RingSlots
        BY <2>0, <3>2
      <4>4. Contents(ring) # <<>> /\ Head(Contents(ring)) = ret'
        BY <2>a, <4>1, <4>2, <4>3 DEF Contents
      <4>5. Contents(ring)' = Tail(Contents(ring))
        <5> DEFINE c == Contents(ring)
                   d == Tail(c)
        <5>1. /\ d \in Seq(RingNode) /\ Len(d) = Len(c) - 1
              /\ \A i \in 1 .. Len(d) : d[i] = c[i + 1]
          BY <2>a, <4>4, HeadTailProperties
        <5>2. \A i \in 1 .. Count(ring) : c[i] = ring.nodes[SlotOf(ring, i)]
          BY DEF Contents
        <5>3. /\ c' \in Seq(RingNode) /\ Len(c') = Count(ring)'
              /\ \A i \in 1 .. Count(ring)' : c'[i] = ring'.nodes[SlotOf(ring, i)']
          BY <2>b DEF Contents
        <5>4. Len(c') = Len(d)
          BY <2>a, <4>2, <5>1, <5>3
        <5> HIDE DEF c, d
        <5>5. ASSUME NEW i \in 1 .. Len(c') PROVE c'[i] = d[i]
          <6>1. i \in 1 .. Count(ring)' /\ i \in 1 .. Len(d) /\ i + 1 \in 1 .. Count(ring)
            BY <4>2, <4>3, <5>3, <5>4, SlotsAssumption
          <6> QED BY <6>1, <4>2, <5>1, <5>2, <5>3
        <5>6. c' = d
          BY <5>1, <5>3, <5>4, <5>5, SeqEqual
        <5> QED BY <5>6 DEF c, d
      <4> QED BY <4>4, <4>5 DEF F!Next, F!Take
    <3> QED BY <3>1, <3>2
  <2>3. ASSUME RingInitialise PROVE F!Next
    <3>1. /\ ring' = [ring EXCEPT !.head = 0, !.tail = 0, !.full = FALSE] /\ ret' = "cleared"
          /\ ring \in EventQueueType
      BY <2>3 DEF RingInitialise, InitialTaskEventQueue, RingTypeOK
    <3>2. Count(ring)' = 0
      BY <3>1 DEF Count, EventQueueType
    <3>3. Contents(ring)' = <<>>
      BY <3>2 DEF Contents
    <3> QED BY <3>1, <3>3 DEF F!Next, F!Clear
  <2>4. CASE UNCHANGED ringVars
    <3>1. Contents(ring)' = Contents(ring) /\ ret' = ret
      BY <2>4 DEF ringVars, Contents, Count, SlotOf
    <3> QED BY <3>1 DEF F!vars
  <2> QED BY <2>1, <2>2, <2>3, <2>4 DEF RingNext
<1> QED BY <1>1, <1>2, RingInvInductive, PTL DEF RingSpec, ImplementsFifo, F!Spec
=============================================================================
