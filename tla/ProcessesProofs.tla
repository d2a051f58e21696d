-------------------------- MODULE ProcessesProofs ---------------------------
(***************************************************************************)
(* Proofs about Scheduler and Processes, for a process table of any size,  *)
(* and in Processes of any size the GDT has room for.                      *)
(*                                                                         *)
(* For the scheduler, the lemmas on IsList say what the pointer operations *)
(* do to the sequence a linked list stands for; the inductive invariant    *)
(* IInv rests on them, and the refinement of RoundRobin on IInv.  Every    *)
(* step of Processes is one of Scheduler and keeps this invariant; the     *)
(* registers and the user memory have an invariant of their own, and the   *)
(* lemmas on descriptors turn it into what the processor addresses.  Both  *)
(* invariants say of the states after a misuse of task_free (misfreed)     *)
(* only that the types are kept.                                           *)
(***************************************************************************)
EXTENDS Processes, SequenceTheorems, TLAPS

-----------------------------------------------------------------------------
(* The inductive invariants, of Scheduler and of Processes.                *)

\* While no task was misfreed.
Kept ==
  /\ ~ misfreed
  /\ TypeOK
  /\ ListInv
  /\ StatusMatchesQueue
  /\ CurrentNotWaiting
  /\ idle \notin Waiting
  /\ cur = Nil => order = <<>> /\ switchTimer = "null"
  /\ idle = Nil => cur = Nil

IInv ==
  /\ TypeOK
  /\ cur = Nil => switchTimer = "null"
  /\ idle = Nil => cur = Nil
  /\ misfreed \/ Kept

\* The registers follow g_current_task from the moment they are loaded, and
\* whatever may become the current task has a program.
PKept ==
  /\ tr = 0 => switchTimer = "null" /\ busy = {}
  /\ tr # 0 => cur \in Slot /\ tr = Seg!Selector(TssSlot(cur)) /\ busy = {TssSlot(cur)}
  /\ cur # Nil => ldtr = Seg!Selector(LdtSlot(cur))
  /\ memory \in [Slot -> {"empty", "simpleapp"}]
  /\ \A s \in Slot : status[s] \in {"INIT", "READY", "RUNNING"} => memory[s] = "simpleapp"

PInv == IInv /\ (misfreed \/ PKept)

-----------------------------------------------------------------------------
(* The process table and the ready queue.                                  *)

LEMMA NilIsNoSlot == Nil \notin Slot
BY NilAssumption, NAssumption DEF Slot

\* The conjuncts of IsList, with the types of the tasks in the list.
LEMMA IsListFacts ==
  ASSUME NEW q \in ReadyQueueType, NEW o \in Seq(Slot), IsList(q, o)
  PROVE  /\ Len(o) \in Nat /\ DOMAIN o = 1 .. Len(o)
         /\ \A i \in 1 .. Len(o) : o[i] \in Slot /\ o[i] # Nil
         /\ \A i, j \in 1 .. Len(o) : o[i] = o[j] => i = j
         /\ o = <<>> => q.head = Nil /\ q.tail = Nil
         /\ o # <<>> => /\ Len(o) >= 1 /\ q.head = o[1] /\ q.tail = o[Len(o)]
                        /\ q.head \in Slot /\ q.tail \in Slot
                        /\ q.head # Nil /\ q.tail # Nil
         /\ \A i \in 1 .. Len(o) : i = Len(o) => q.next[o[i]] = Nil
         /\ \A i \in 1 .. Len(o) : i # Len(o) => q.next[o[i]] = o[i + 1]
         /\ \A s \in Slot : (\A i \in 1 .. Len(o) : o[i] # s) => q.next[s] = Nil
<1>1. Len(o) \in Nat /\ DOMAIN o = 1 .. Len(o) /\ (o # <<>> => Len(o) >= 1)
  BY EmptySeq, LenProperties
<1>2. \A i \in 1 .. Len(o) : o[i] \in Slot /\ o[i] # Nil
  BY NilIsNoSlot, ElementOfSeq
<1>3. o # <<>> => 1 \in 1 .. Len(o) /\ Len(o) \in 1 .. Len(o)
  BY <1>1
<1> QED BY <1>1, <1>2, <1>3 DEF IsList

\* What ClearNext does to each field.
LEMMA ClearNextFields ==
  ASSUME NEW q \in ReadyQueueType, NEW s \in Slot
  PROVE  /\ ClearNext(q, s) \in ReadyQueueType
         /\ ClearNext(q, s).head = q.head
         /\ ClearNext(q, s).tail = q.tail
         /\ ClearNext(q, s).next = [q.next EXCEPT ![s] = Nil]
<1>1. q.next \in [Slot -> Pointer] /\ Nil \in Pointer
  BY DEF ReadyQueueType, Pointer
<1>2. [q.next EXCEPT ![s] = Nil] \in [Slot -> Pointer]
  BY <1>1
<1>3. ClearNext(q, s) = [head |-> q.head, tail |-> q.tail, next |-> [q.next EXCEPT ![s] = Nil]]
  BY DEF ClearNext, ReadyQueueType
<1> QED BY <1>2, <1>3 DEF ReadyQueueType

\* Putting a task that is not in the list behind its last task appends it.
LEMMA PutLastAppends ==
  ASSUME NEW q \in ReadyQueueType, NEW o \in Seq(Slot), IsList(q, o),
         NEW t \in Slot, \A i \in DOMAIN o : o[i] # t
  PROVE  PutLast(q, t) \in ReadyQueueType /\ IsList(PutLast(q, t), Append(o, t))
<1> DEFINE p == PutLast(q, t)
           a == Append(o, t)
<1>1. /\ q.head \in Pointer /\ q.tail \in Pointer /\ q.next \in [Slot -> Pointer]
      /\ Slot \subseteq Pointer /\ Nil \in Pointer
  BY DEF ReadyQueueType, Pointer
<1>2. p \in ReadyQueueType
  BY <1>1 DEF PutLast, ReadyQueueType
<1>3. /\ a \in Seq(Slot) /\ Len(a) = Len(o) + 1 /\ a # <<>>
      /\ \A i \in 1 .. Len(o) : a[i] = o[i]
      /\ a[Len(o) + 1] = t
      /\ Len(o) \in Nat /\ DOMAIN o = 1 .. Len(o) /\ DOMAIN a = 1 .. Len(o) + 1
  BY AppendProperties
<1>4. /\ p.head = IF q.tail = Nil THEN t ELSE q.head
      /\ p.tail = t
      /\ p.next = IF q.tail = Nil THEN q.next ELSE [q.next EXCEPT ![q.tail] = t]
  BY DEF PutLast
<1> HIDE DEF p, a
<1>6. \A i, j \in DOMAIN a : a[i] = a[j] => i = j
  BY <1>3, IsListFacts
<1>7. p.head = a[1] /\ p.tail = a[Len(a)]
  <2>1. CASE o = <<>>
    <3>1. q.tail = Nil /\ Len(o) = 0
      BY <2>1, IsListFacts
    <3> QED BY <3>1, <1>3, <1>4
  <2>2. CASE o # <<>>
    <3>1. q.tail # Nil /\ q.head = o[1] /\ 1 \in 1 .. Len(o)
      BY <2>2, IsListFacts
    <3> QED BY <3>1, <1>3, <1>4
  <2> QED BY <2>1, <2>2
<1>8. ASSUME NEW i \in DOMAIN a
      PROVE  p.next[a[i]] = IF i = Len(a) THEN Nil ELSE a[i + 1]
  <2>1. CASE i = Len(o) + 1
    <3>1. a[i] = t /\ q.next[t] = Nil
      BY <2>1, <1>3, IsListFacts
    <3>2. q.tail # t
      BY IsListFacts, NilIsNoSlot
    <3> QED BY <3>1, <3>2, <2>1, <1>1, <1>3, <1>4
  <2>2. CASE i \in 1 .. Len(o)
    <3>1. /\ o # <<>> /\ Len(o) \in 1 .. Len(o) /\ q.tail = o[Len(o)]
          /\ q.tail \in Slot /\ q.tail # Nil /\ o[i] \in Slot /\ a[i] = o[i]
      BY <2>2, <1>3, IsListFacts
    <3>2. p.next = [q.next EXCEPT ![q.tail] = t]
      BY <3>1, <1>4
    <3>3. CASE i = Len(o)
      BY <3>1, <3>2, <3>3, <1>1, <1>3
    <3>4. CASE i # Len(o)
      <4>1. o[i] # q.tail /\ q.next[o[i]] = o[i + 1] /\ i + 1 \in 1 .. Len(o)
        BY <2>2, <3>1, <3>4, <1>3, IsListFacts
      <4>2. p.next[o[i]] = o[i + 1] /\ a[i + 1] = o[i + 1] /\ i # Len(a)
        BY <4>1, <2>2, <3>1, <3>2, <1>1, <1>3
      <4> QED BY <4>2, <3>1
    <3> QED BY <3>3, <3>4
  <2> QED BY <2>1, <2>2, <1>3
<1>9. ASSUME NEW s \in Slot, \A i \in DOMAIN a : a[i] # s PROVE p.next[s] = Nil
  <2>1. s # t /\ \A i \in 1 .. Len(o) : o[i] # s
    BY <1>9, <1>3
  <2>2. q.next[s] = Nil
    BY <2>1, IsListFacts
  <2>3. q.tail # s
    <3>1. CASE o = <<>>
      BY <3>1, IsListFacts, NilIsNoSlot
    <3>2. CASE o # <<>>
      <4>1. Len(o) \in 1 .. Len(o) /\ q.tail = o[Len(o)]
        BY <3>2, IsListFacts
      <4> QED BY <4>1, <2>1
    <3> QED BY <3>1, <3>2
  <2> QED BY <2>2, <2>3, <1>1, <1>4
<1>10. IsList(p, a)
  BY <1>3, <1>6, <1>7, <1>8, <1>9 DEF IsList
<1> QED BY <1>2, <1>10 DEF p, a

\* Taking the first task out and cutting its next pointer removes it from the
\* list.
LEMMA PickFirstTakesHead ==
  ASSUME NEW q \in ReadyQueueType, NEW o \in Seq(Slot), IsList(q, o), o # <<>>
  PROVE  /\ PickFirst(q) \in ReadyQueueType
         /\ q.head = Head(o) /\ q.head \in Slot
         /\ PickFirst(q).tail # q.head
         /\ ClearNext(PickFirst(q), q.head) \in ReadyQueueType
         /\ IsList(ClearNext(PickFirst(q), q.head), Tail(o))
         /\ \A i \in DOMAIN Tail(o) : Tail(o)[i] # q.head
<1> DEFINE c == ClearNext(PickFirst(q), q.head)
           d == Tail(o)
<1>1. /\ q.head \in Pointer /\ q.tail \in Pointer /\ q.next \in [Slot -> Pointer]
      /\ Slot \subseteq Pointer /\ Nil \in Pointer
  BY DEF ReadyQueueType, Pointer
<1>2. /\ d \in Seq(Slot) /\ Len(d) = Len(o) - 1
      /\ \A i \in 1 .. Len(d) : d[i] = o[i + 1]
      /\ Len(o) \in Nat /\ Len(o) >= 1
      /\ DOMAIN o = 1 .. Len(o) /\ DOMAIN d = 1 .. Len(o) - 1
      /\ Head(o) = o[1]
  BY HeadTailProperties
<1>3. 1 \in 1 .. Len(o) /\ Len(o) \in 1 .. Len(o)
  BY <1>2
<1>4. q.head = o[1] /\ q.tail = o[Len(o)] /\ o[1] \in Slot /\ o[Len(o)] \in Slot
  BY <1>3, IsListFacts
<1>5. q.next[o[1]] = IF Len(o) = 1 THEN Nil ELSE o[2]
  <2>1. Len(o) = 1 => q.next[o[1]] = Nil
    BY <1>3, IsListFacts
  <2>2. \A i \in 1 .. Len(o) : i # Len(o) => q.next[o[i]] = o[i + 1]
    BY IsListFacts
  <2>3. Len(o) # 1 => q.next[o[1]] = o[1 + 1]
    BY <1>3, <2>2
  <2> QED BY <2>1, <2>3
<1>6. Len(o) # 1 => o[2] \in Slot /\ o[2] # Nil
  <2>1. Len(o) # 1 => 2 \in 1 .. Len(o)
    BY <1>2
  <2> QED BY <2>1, IsListFacts
<1>7. /\ PickFirst(q) \in ReadyQueueType
      /\ PickFirst(q).head = (IF Len(o) = 1 THEN Nil ELSE o[2])
      /\ PickFirst(q).tail = (IF Len(o) = 1 THEN Nil ELSE o[Len(o)])
      /\ PickFirst(q).next = q.next
  BY <1>1, <1>4, <1>5, <1>6 DEF PickFirst, TailAfterPick, ReadyQueueType
<1>8. PickFirst(q).tail # q.head
  <2>1. CASE Len(o) = 1
    BY <2>1, <1>4, <1>7, NilIsNoSlot
  <2>2. CASE Len(o) # 1
    <3>1. \A i, j \in 1 .. Len(o) : o[i] = o[j] => i = j
      BY IsListFacts
    <3>2. o[Len(o)] # o[1]
      BY <2>2, <3>1, <1>3
    <3> QED BY <2>2, <3>2, <1>4, <1>7
  <2> QED BY <2>1, <2>2
<1>9. /\ c \in ReadyQueueType
      /\ c.head = (IF Len(o) = 1 THEN Nil ELSE o[2])
      /\ c.tail = (IF Len(o) = 1 THEN Nil ELSE o[Len(o)])
      /\ c.next = [q.next EXCEPT ![o[1]] = Nil]
  BY <1>4, <1>7, ClearNextFields
<1> HIDE DEF c, d
<1>10. \A i, j \in DOMAIN d : d[i] = d[j] => i = j
  <2>1. ASSUME NEW i \in DOMAIN d, NEW j \in DOMAIN d, d[i] = d[j] PROVE i = j
    <3>1. /\ i + 1 \in 1 .. Len(o) /\ j + 1 \in 1 .. Len(o)
          /\ o[i + 1] = o[j + 1] /\ i \in Int /\ j \in Int
      BY <2>1, <1>2
    <3>2. i + 1 = j + 1
      BY <3>1, IsListFacts
    <3> QED BY <3>1, <3>2
  <2> QED BY <2>1
<1>11. d = <<>> => c.head = Nil /\ c.tail = Nil
  BY <1>2, <1>9
<1>12. d # <<>> => c.head = d[1] /\ c.tail = d[Len(d)]
  <2>1. d # <<>> => Len(o) # 1 /\ 1 \in 1 .. Len(d) /\ Len(d) \in 1 .. Len(d)
    BY <1>2
  <2>2. 1 + 1 = 2 /\ Len(d) + 1 = Len(o)
    BY <1>2
  <2> QED BY <2>1, <2>2, <1>2, <1>9
<1>13. ASSUME NEW i \in DOMAIN d
       PROVE  c.next[d[i]] = IF i = Len(d) THEN Nil ELSE d[i + 1]
  <2>1. i + 1 \in 1 .. Len(o) /\ d[i] = o[i + 1] /\ i + 1 # 1
    BY <1>2
  <2>2. o[i + 1] # o[1] /\ o[i + 1] \in Slot
    BY <1>3, <2>1, IsListFacts
  <2>3. c.next[d[i]] = q.next[o[i + 1]]
    BY <2>1, <2>2, <1>1, <1>4, <1>9
  <2>4. CASE i = Len(d)
    <3>1. i + 1 = Len(o)
      BY <2>4, <1>2
    <3> QED BY <2>1, <2>3, <2>4, <3>1, IsListFacts
  <2>5. CASE i # Len(d)
    <3>1. i + 1 # Len(o) /\ d[i + 1] = o[i + 1 + 1]
      BY <2>5, <1>2
    <3> QED BY <2>1, <2>3, <2>5, <3>1, IsListFacts
  <2> QED BY <2>4, <2>5
<1>14. ASSUME NEW s \in Slot, \A i \in DOMAIN d : d[i] # s PROVE c.next[s] = Nil
  <2>1. CASE s = o[1]
    BY <2>1, <1>1, <1>4, <1>9
  <2>2. CASE s # o[1]
    <3>1. ASSUME NEW i \in 1 .. Len(o) PROVE o[i] # s
      <4>1. i = 1 \/ i - 1 \in DOMAIN d
        BY <1>2
      <4>2. i - 1 \in DOMAIN d => o[i] = d[i - 1]
        BY <1>2
      <4> QED BY <4>1, <4>2, <2>2, <1>14
    <3>2. q.next[s] = Nil
      BY <3>1, IsListFacts
    <3> QED BY <3>2, <2>2, <1>1, <1>4, <1>9
  <2> QED BY <2>1, <2>2
<1>15. IsList(c, d)
  BY <1>10, <1>11, <1>12, <1>13, <1>14 DEF IsList
<1>16. \A i \in DOMAIN d : d[i] # q.head
  <2>1. \A i \in DOMAIN d : i + 1 \in 1 .. Len(o) /\ i + 1 # 1 /\ d[i] = o[i + 1]
    BY <1>2
  <2> QED BY <2>1, <1>3, <1>4, IsListFacts
<1> QED BY <1>2, <1>4, <1>7, <1>8, <1>9, <1>15, <1>16 DEF c, d

\* Storing a task behind the last one and cutting another task's next pointer
\* can be done in either order when that other task is not the last one.
LEMMA PutAndClearCommute ==
  ASSUME NEW q \in ReadyQueueType, NEW t \in Slot, NEW s \in Slot, t # s, q.tail # s
  PROVE  ClearNext(PutLast(q, t), s) = PutLast(ClearNext(q, s), t)
<1>1. /\ q.head \in Pointer /\ q.tail \in Pointer /\ q.next \in [Slot -> Pointer]
      /\ q = [head |-> q.head, tail |-> q.tail, next |-> q.next]
  BY DEF ReadyQueueType, Pointer
<1>2. CASE q.tail = Nil
  BY <1>1, <1>2 DEF ClearNext, PutLast
<1>3. CASE q.tail # Nil
  <2>1. q.tail \in Slot
    BY <1>1, <1>3 DEF Pointer
  <2>2. [[q.next EXCEPT ![q.tail] = t] EXCEPT ![s] = Nil]
          = [[q.next EXCEPT ![s] = Nil] EXCEPT ![q.tail] = t]
    BY <1>1, <2>1
  <2> QED BY <1>1, <1>3, <2>1, <2>2 DEF ClearNext, PutLast
<1> QED BY <1>2, <1>3

\* Cutting the next pointer of a task outside the list changes nothing.
LEMMA ClearNextOutside ==
  ASSUME NEW q \in ReadyQueueType, NEW o \in Seq(Slot), IsList(q, o),
         NEW s \in Slot, \A i \in DOMAIN o : o[i] # s
  PROVE  ClearNext(q, s) = q
<1>1. q.next \in [Slot -> Pointer] /\ q.next[s] = Nil
  BY DEF ReadyQueueType, IsList
<1>2. [q.next EXCEPT ![s] = Nil] = q.next
  BY <1>1
<1> QED BY <1>2 DEF ClearNext, ReadyQueueType

-----------------------------------------------------------------------------
(* The inductive invariant.                                                *)

\* A slot whose status is neither READY nor RUNNING is not in the list, and
\* cutting its next pointer leaves the list as it is.
LEMMA OutsideQueue ==
  ASSUME Kept, NEW s \in Slot, status[s] \notin {"READY", "RUNNING"}
  PROVE  /\ s \notin Waiting /\ s # cur /\ s # idle
         /\ \A i \in DOMAIN order : order[i] # s
         /\ ClearNext(rq, s) = rq
<1>1. s \notin Waiting /\ s # cur /\ s # idle
  BY DEF Kept, StatusMatchesQueue
<1>2. \A i \in DOMAIN order : order[i] # s
  BY <1>1 DEF Waiting
<1>3. ClearNext(rq, s) = rq
  BY <1>2, ClearNextOutside DEF Kept, TypeOK, ListInv
<1> QED BY <1>1, <1>2, <1>3

\* The status of a slot outside the queue may move between the states that are
\* neither READY nor RUNNING without touching what Kept says of the queue.
LEMMA QuietStep ==
  ASSUME Kept, NEW s \in Slot, NEW new \in {"UNUSED", "ALLOC", "INIT"},
         status[s] \in {"UNUSED", "ALLOC", "INIT"},
         status' = [status EXCEPT ![s] = new],
         rq' = rq, order' = order, cur' = cur, idle' = idle, switchTimer' = switchTimer,
         ~ misfreed',
         TypeOK'
  PROVE  Kept'
<1>1. ListInv' /\ CurrentNotWaiting' /\ (idle \notin Waiting)'
  BY DEF Kept, ListInv, CurrentNotWaiting, Waiting
<1>2. StatusMatchesQueue'
  BY DEF Kept, TypeOK, Status, StatusMatchesQueue, Waiting
<1> QED BY <1>1, <1>2 DEF Kept

\* What switch_task jumps to is a waiting task, another one than the current.
LEMMA HeadIsReady ==
  ASSUME Kept, SwitchTask
  PROVE  /\ rq.head \in Slot /\ status[rq.head] = "READY"
         /\ cur \in Slot /\ status[cur] = "RUNNING" /\ rq.head # cur
<1>0. TypeOK /\ IsList(rq, order)
  BY DEF Kept, ListInv
<1>1. order # <<>> /\ rq.head # Nil
  BY <1>0 DEF SwitchTask, IsList
<1>2. cur \in Slot
  BY <1>0, <1>1 DEF Kept, TypeOK, Pointer
<1>3. rq.head = order[1] /\ 1 \in DOMAIN order /\ order[1] \in Slot
  BY <1>0, <1>1, IsListFacts DEF TypeOK
<1>4. rq.head \in Waiting
  BY <1>3 DEF Waiting
<1> QED BY <1>2, <1>3, <1>4 DEF Kept, StatusMatchesQueue, CurrentNotWaiting

\* What was misfreed stays so, and order is then given up.
LEMMA MisfreedStays == [Next]_vars => (misfreed => misfreed')
BY DEF Next, vars, InitialIdleTask, InitialDefaultTask, StartSwitchTimer, TaskAlloc,
       TaskInit, StartTask, TaskFree, KeepCurrent, SwitchTask

\* The types are kept whatever was released.
LEMMA TypeStep ==
  ASSUME IInv, [Next]_vars
  PROVE  TypeOK' /\ (cur = Nil => switchTimer = "null")' /\ (idle = Nil => cur = Nil)'
<1>0. /\ rq.head \in Pointer /\ rq.tail \in Pointer /\ rq.next \in [Slot -> Pointer]
      /\ Slot \subseteq Pointer /\ Nil \in Pointer /\ <<>> \in Seq(Slot)
  BY DEF IInv, TypeOK, ReadyQueueType, Pointer
<1>t. TypeOK /\ (cur = Nil => switchTimer = "null") /\ (idle = Nil => cur = Nil)
  BY DEF IInv
<1>1. ASSUME NEW q \in ReadyQueueType, NEW s \in Slot
      PROVE  ClearNext(q, s) \in ReadyQueueType /\ PutLast(q, s) \in ReadyQueueType
  <2>1. q.head \in Pointer /\ q.tail \in Pointer /\ q.next \in [Slot -> Pointer]
    BY DEF ReadyQueueType
  <2> QED BY <1>0, <2>1, ClearNextFields DEF PutLast, ReadyQueueType
<1>2. ASSUME NEW s \in Slot, InitialIdleTask(s) \/ InitialDefaultTask(s) \/ TaskInit(s)
      PROVE  TypeOK' /\ (cur = Nil => switchTimer = "null")' /\ (idle = Nil => cur = Nil)'
  <2>1. /\ pid' \in [Slot -> Nat] /\ nextId' \in Nat
        /\ kernStack' \in [Slot -> {"null", "held", "freed"}]
    <3>1. GiveId(s, 1) \/ GiveId(s, 2)
      BY <1>2 DEF InitialIdleTask, InitialDefaultTask, TaskInit
    <3>2. pid' \in [Slot -> Nat] /\ nextId' \in Nat
      BY <1>t, <3>1, SMT DEF GiveId, TypeOK
    <3>3. kernStack' \in [Slot -> {"null", "held", "freed"}]
      BY <1>t, <1>2 DEF InitialIdleTask, InitialDefaultTask, TaskInit, StackResult, TypeOK
    <3> QED BY <3>2, <3>3
  <2>2. rq' \in ReadyQueueType
    BY <1>t, <1>1, <1>2 DEF InitialIdleTask, InitialDefaultTask, TaskInit, TypeOK
  <2>3. status' \in [Slot -> Status]
    BY <1>t, <1>2 DEF InitialIdleTask, InitialDefaultTask, TaskInit, TypeOK, Status
  <2> QED BY <1>0, <1>t, <1>2, <2>1, <2>2, <2>3, NilIsNoSlot
          DEF InitialIdleTask, InitialDefaultTask, TaskInit, TypeOK
<1>3. ASSUME NEW s \in Slot, TaskAlloc(s)
      PROVE  TypeOK' /\ (cur = Nil => switchTimer = "null")' /\ (idle = Nil => cur = Nil)'
  BY <1>t, <1>3, MaxIdAssumption DEF TaskAlloc, GiveId, TypeOK, Status
<1>4. ASSUME NEW s \in Slot, TaskFree(s)
      PROVE  TypeOK' /\ (cur = Nil => switchTimer = "null")' /\ (idle = Nil => cur = Nil)'
  <2>1. /\ pid' \in [Slot -> Nat] /\ status' \in [Slot -> Status] /\ misfreed' \in BOOLEAN
        /\ kernStack' \in [Slot -> {"null", "held", "freed"}]
    BY <1>t, <1>4 DEF TaskFree, GiveBackStack, InUse, TypeOK, Status
  <2>2. order' \in Seq(Slot)
    BY <1>t, <1>0, <1>4 DEF TaskFree, Record, TypeOK
  <2> QED BY <1>t, <1>4, <2>1, <2>2 DEF TaskFree, TypeOK
<1>5. ASSUME NEW s \in Slot, StartTask(s)
      PROVE  TypeOK' /\ (cur = Nil => switchTimer = "null")' /\ (idle = Nil => cur = Nil)'
  <2>1. order' \in Seq(Slot)
    BY <1>t, <1>0, <1>5, AppendProperties DEF StartTask, Record, TypeOK
  <2> QED BY <1>t, <1>1, <1>5, <2>1 DEF StartTask, TypeOK, Status
<1>6. CASE StartSwitchTimer \/ KeepCurrent \/ UNCHANGED vars
  BY <1>t, <1>6 DEF StartSwitchTimer, KeepCurrent, Rearm, vars, TypeOK
<1>7. CASE SwitchTask
  <2>1. rq.head \in Slot /\ cur \in Slot
    BY <1>t, <1>0, <1>7 DEF SwitchTask, TypeOK, Pointer
  <2>2. PickFirst(rq) \in ReadyQueueType
    BY <1>t, <1>0, <2>1 DEF PickFirst, TailAfterPick, ReadyQueueType
  <2>3. rq' \in ReadyQueueType
    BY <1>t, <1>1, <1>7, <2>1, <2>2 DEF SwitchTask
  <2>4. order' \in Seq(Slot)
    <3>1. CASE misfreed'
      BY <1>t, <1>0, <1>7, <3>1 DEF SwitchTask, Record
    <3>2. CASE ~ misfreed'
      <4>1. order # <<>>
        BY <1>t, <1>7, <3>2, MisfreedStays DEF IInv, Kept, SwitchTask, ListInv, IsList
      <4>2. Tail(order) \in Seq(Slot)
        BY <1>t, <4>1, HeadTailProperties DEF TypeOK
      <4> QED BY <1>t, <1>7, <2>1, <3>2, <4>2, AppendProperties DEF SwitchTask, Record
    <3> QED BY <3>1, <3>2
  <2> QED BY <1>t, <1>7, <2>1, <2>3, <2>4, NilIsNoSlot DEF SwitchTask, Rearm, TypeOK, Status, Pointer
<1> QED BY <1>2, <1>3, <1>4, <1>5, <1>6, <1>7 DEF Next

LEMMA KeptStep == Kept /\ [Next]_vars /\ ~ misfreed' /\ TypeOK' => Kept'
<1> SUFFICES ASSUME Kept, [Next]_vars, ~ misfreed', TypeOK' PROVE Kept'
  OBVIOUS
<1>a. /\ TypeOK /\ IsList(rq, order) /\ StatusMatchesQueue /\ CurrentNotWaiting /\ ListInv
      /\ ~ misfreed
  BY DEF Kept, ListInv
<1>1. ASSUME NEW s \in Slot, InitialIdleTask(s) PROVE Kept'
  <2>1. status[s] = "UNUSED" /\ idle = Nil /\ cur = Nil /\ order = <<>> /\ switchTimer = "null"
    BY <1>1 DEF InitialIdleTask, FirstUnused, Kept
  <2>2. rq' = rq
    BY <1>1, <2>1, OutsideQueue DEF InitialIdleTask
  <2>4. Waiting = {} /\ Waiting' = {}
    BY <1>1, <2>1 DEF InitialIdleTask, Waiting
  <2>5. StatusMatchesQueue'
    BY <1>1, <1>a, <2>1, <2>4, NilIsNoSlot
       DEF InitialIdleTask, StatusMatchesQueue, TypeOK, Status
  <2> QED BY <1>1, <1>a, <2>1, <2>2, <2>4, <2>5, NilIsNoSlot
          DEF InitialIdleTask, Kept, ListInv, CurrentNotWaiting
<1>2. ASSUME NEW s \in Slot, InitialDefaultTask(s) PROVE Kept'
  <2>1. status[s] = "UNUSED" /\ idle # Nil /\ cur = Nil /\ order = <<>> /\ switchTimer = "null"
    BY <1>2 DEF InitialDefaultTask, FirstUnused, Kept
  <2>2. rq' = rq /\ s # idle
    BY <1>2, <2>1, OutsideQueue DEF InitialDefaultTask
  <2>4. Waiting = {} /\ Waiting' = {}
    BY <1>2, <2>1 DEF InitialDefaultTask, Waiting
  <2>5. StatusMatchesQueue'
    BY <1>2, <1>a, <2>1, <2>2, <2>4, NilIsNoSlot
       DEF InitialDefaultTask, StatusMatchesQueue, TypeOK, Status
  <2> QED BY <1>2, <1>a, <2>1, <2>2, <2>4, <2>5, NilIsNoSlot
          DEF InitialDefaultTask, Kept, ListInv, CurrentNotWaiting
<1>3. CASE StartSwitchTimer
  BY <1>3 DEF StartSwitchTimer, Kept, TypeOK, ListInv, StatusMatchesQueue, CurrentNotWaiting,
              Waiting
<1>4. ASSUME NEW s \in Slot, TaskAlloc(s) PROVE Kept'
  <2> QED BY <1>4, QuietStep DEF TaskAlloc, FirstUnused
<1>5. ASSUME NEW s \in Slot, TaskInit(s) PROVE Kept'
  <2>1. rq' = rq
    BY <1>5, OutsideQueue DEF TaskInit
  <2> QED BY <1>5, <2>1, QuietStep DEF TaskInit
<1>6. ASSUME NEW s \in Slot, TaskFree(s) PROVE Kept'
  <2>1. ~ InUse(s) /\ order' = order
    BY <1>6 DEF TaskFree, Record
  <2> QED BY <1>6, <1>a, <2>1, QuietStep DEF TaskFree, InUse, TypeOK, Status
<1>7. ASSUME NEW s \in Slot, StartTask(s) PROVE Kept'
  <2>1. /\ s \notin Waiting /\ s # cur /\ s # idle
        /\ \A i \in DOMAIN order : order[i] # s
    BY <1>7, OutsideQueue DEF StartTask
  <2>2. /\ rq' = PutLast(rq, s) /\ order' = Append(order, s)
        /\ order' \in Seq(Slot) /\ Waiting' = Waiting \cup {s}
    <3>1. /\ Len(order') = Len(order) + 1 /\ order' \in Seq(Slot)
          /\ \A i \in 1 .. Len(order) : order'[i] = order[i]
          /\ order'[Len(order) + 1] = s /\ Len(order) \in Nat
      BY <1>7, <1>a, AppendProperties DEF StartTask, Record, TypeOK
    <3>2. DOMAIN order = 1 .. Len(order) /\ DOMAIN order' = 1 .. Len(order) + 1
      BY <3>1, <1>a DEF TypeOK
    <3> QED BY <1>7, <3>1, <3>2 DEF StartTask, Waiting
  <2>3. rq' \in ReadyQueueType /\ ListInv'
    BY <1>a, <2>1, <2>2, PutLastAppends DEF TypeOK, ListInv
  <2>5. StatusMatchesQueue'
    BY <1>7, <1>a, <2>1, <2>2 DEF StartTask, StatusMatchesQueue, TypeOK, Status
  <2> QED BY <1>7, <1>a, <2>1, <2>2, <2>3, <2>5
          DEF StartTask, Booted, Kept, CurrentNotWaiting
<1>8. CASE KeepCurrent
  BY <1>8 DEF KeepCurrent, Rearm, Kept, TypeOK, ListInv, StatusMatchesQueue, CurrentNotWaiting,
              Waiting
<1>9. CASE SwitchTask
  <2> DEFINE sched == rq.head
             left  == ClearNext(PickFirst(rq), sched)
             rest  == Tail(order)
  <2>1. order # <<>>
    BY <1>9, <1>a DEF SwitchTask, ListInv, IsList
  <2>2. cur \in Slot /\ cur # idle /\ cur \notin Waiting
    BY <1>9, <1>a DEF SwitchTask, Kept, CurrentNotWaiting, TypeOK, Pointer
  <2>3. /\ PickFirst(rq) \in ReadyQueueType
        /\ sched = Head(order) /\ sched \in Slot
        /\ PickFirst(rq).tail # sched
        /\ left \in ReadyQueueType
        /\ IsList(left, rest)
        /\ \A i \in DOMAIN rest : rest[i] # sched
    BY <1>a, <2>1, PickFirstTakesHead DEF TypeOK, ListInv
  <2>4. /\ rest \in Seq(Slot) /\ Len(rest) = Len(order) - 1
        /\ \A i \in 1 .. Len(rest) : rest[i] = order[i + 1]
        /\ Len(order) \in Nat /\ Len(order) >= 1
        /\ DOMAIN order = 1 .. Len(order) /\ DOMAIN rest = 1 .. Len(order) - 1
        /\ sched = order[1]
    BY <1>a, <2>1, <2>3, HeadTailProperties DEF TypeOK
  <2>5. sched \in Waiting /\ sched # cur /\ sched # idle
    BY <2>2, <2>4 DEF Waiting, Kept
  <2>6. \A i \in DOMAIN rest : rest[i] # cur /\ rest[i] # idle /\ rest[i] \in Waiting
    BY <2>2, <2>4 DEF Waiting, Kept
  <2>7. /\ status' = [status EXCEPT ![cur] = "READY", ![sched] = "RUNNING"]
        /\ rq' = ClearNext(PutLast(PickFirst(rq), cur), sched)
        /\ order' = Append(rest, cur)
        /\ cur' = sched /\ switchTimer' = "using"
        /\ UNCHANGED <<pid, kernStack, idle, nextId>>
    BY <1>9, <2>2 DEF SwitchTask, Record, Rearm
  <2> HIDE DEF sched, left, rest
  <2>8. rq' = PutLast(left, cur)
    BY <2>2, <2>3, <2>5, <2>7, PutAndClearCommute DEF left, sched
  <2>9. rq' \in ReadyQueueType /\ IsList(rq', order')
    BY <2>2, <2>3, <2>4, <2>6, <2>7, <2>8, PutLastAppends
  <2>10. /\ order' \in Seq(Slot) /\ Len(order') = Len(rest) + 1
         /\ \A i \in 1 .. Len(rest) : order'[i] = rest[i]
         /\ order'[Len(rest) + 1] = cur
    BY <2>2, <2>4, <2>7, AppendProperties
  <2>11. Waiting' = (Waiting \ {sched}) \cup {cur}
    <3>1. DOMAIN order' = 1 .. Len(order)
      BY <2>4, <2>10
    <3>2. ASSUME NEW x \in Waiting' PROVE x \in (Waiting \ {sched}) \cup {cur}
      <4>1. PICK i \in 1 .. Len(order) : x = order'[i]
        BY <3>1, <3>2 DEF Waiting
      <4>2. CASE i = Len(order)
        BY <4>1, <4>2, <2>4, <2>10
      <4>3. CASE i # Len(order)
        <5>1. i \in 1 .. Len(rest) /\ x = rest[i]
          BY <4>1, <4>3, <2>4, <2>10
        <5> QED BY <5>1, <2>3, <2>4, <2>6
      <4> QED BY <4>2, <4>3
    <3>3. ASSUME NEW x \in (Waiting \ {sched}) \cup {cur} PROVE x \in Waiting'
      <4>1. CASE x = cur
        <5>1. Len(rest) + 1 \in DOMAIN order'
          BY <3>1, <2>4
        <5> QED BY <4>1, <5>1, <2>10 DEF Waiting
      <4>2. CASE x # cur
        <5>1. PICK i \in 1 .. Len(order) : x = order[i]
          BY <3>3, <4>2, <2>4 DEF Waiting
        <5>2. i # 1
          BY <3>3, <4>2, <5>1, <2>2, <2>4
        <5>3. i - 1 \in 1 .. Len(rest) /\ order'[i - 1] = rest[i - 1] /\ rest[i - 1] = order[i]
          BY <5>1, <5>2, <2>4, <2>10
        <5>4. i - 1 \in DOMAIN order'
          BY <5>3, <3>1, <2>4
        <5> QED BY <5>1, <5>3, <5>4 DEF Waiting
      <4> QED BY <4>1, <4>2
    <3> QED BY <3>2, <3>3
  <2>13. StatusMatchesQueue'
    BY <1>a, <2>2, <2>3, <2>5, <2>7, <2>11 DEF StatusMatchesQueue, TypeOK, Status
  <2>14. CurrentNotWaiting' /\ (idle \notin Waiting)'
    BY <2>2, <2>5, <2>7, <2>11 DEF CurrentNotWaiting, Kept
  <2>15. cur' # Nil /\ idle' # Nil
    BY <2>2, <2>3, <2>7, NilIsNoSlot DEF Kept
  <2> QED BY <2>7, <2>9, <2>13, <2>14, <2>15 DEF Kept, ListInv
<1>10. CASE UNCHANGED vars
  BY <1>10 DEF vars, Kept, TypeOK, ListInv, StatusMatchesQueue, CurrentNotWaiting, Waiting
<1> QED BY <1>1, <1>2, <1>3, <1>4, <1>5, <1>6, <1>7, <1>8, <1>9, <1>10 DEF Next

LEMMA IInvStep == IInv /\ [Next]_vars => IInv'
<1> SUFFICES ASSUME IInv, [Next]_vars PROVE IInv'
  OBVIOUS
<1>1. TypeOK' /\ (cur = Nil => switchTimer = "null")' /\ (idle = Nil => cur = Nil)'
  BY TypeStep
<1>2. misfreed' \/ Kept
  BY MisfreedStays DEF IInv
<1> QED BY <1>1, <1>2, KeptStep DEF IInv

LEMMA InitSatisfiesIInv == Init => IInv
<1> SUFFICES ASSUME Init PROVE IInv
  OBVIOUS
<1>1. TypeOK /\ Waiting = {}
  <2>1. <<>> \in Seq(Slot) /\ DOMAIN <<>> = {}
    OBVIOUS
  <2> QED BY <2>1 DEF Init, TypeOK, Status, Pointer, ReadyQueueType, Waiting
<1>2. ListInv
  <2>1. /\ order = <<>> /\ DOMAIN order = {} /\ rq.head = Nil /\ rq.tail = Nil
        /\ \A s \in Slot : rq.next[s] = Nil
    BY DEF Init
  <2> QED BY <2>1 DEF ListInv, IsList
<1>3. StatusMatchesQueue
  BY <1>1, NilIsNoSlot DEF Init, StatusMatchesQueue
<1> QED BY <1>1, <1>2, <1>3 DEF Init, IInv, Kept, CurrentNotWaiting

\* As long as nothing is misfreed, everything that is kept while nothing is.
LEMMA StillKept == IInv /\ [Next]_vars /\ ~ misfreed' => Kept /\ ~ misfreed
BY MisfreedStays DEF IInv

LEMMA IInvInductive == Spec => []IInv
BY InitSatisfiesIInv, IInvStep, PTL DEF Spec

\* The process table and the globals of the scheduler keep their types, whatever
\* task_free is asked to release.
THEOREM SchedulerTypeOK == Spec => []TypeOK
<1>1. IInv => TypeOK
  BY DEF IInv
<1> QED BY <1>1, IInvInductive, PTL

\* For a table of any size, until a task in use, or a stack for the second time,
\* is released, the linked ready queue is exactly the sequence of waiting tasks
\* (tasks.c:137-155, tasks.c:293-301).
THEOREM ReadyQueueIsList == Spec => []ListInv
<1>1. IInv => ListInv
  BY DEF IInv, Kept, ListInv
<1> QED BY <1>1, IInvInductive, PTL

\* Until then the running task never waits and is never the idle task, so a task switch
\* never targets the busy TSS of the task it leaves (tasks.c:167).
THEOREM CurrentNeverWaits == Spec => []CurrentNotWaiting
<1>1. IInv => CurrentNotWaiting
  BY DEF IInv, Kept, CurrentNotWaiting
<1> QED BY <1>1, IInvInductive, PTL

\* RUNNING means current and READY means waiting or idle, in every reachable
\* state before a task in use, or a stack for the second time, is released
\* (tasks.c:145-153).
THEOREM StatusAgreesWithQueue == Spec => []StatusMatchesQueue
<1>1. IInv => StatusMatchesQueue
  BY DEF IInv, Kept, StatusMatchesQueue
<1> QED BY <1>1, IInvInductive, PTL

-----------------------------------------------------------------------------
(* Identifiers and stacks.                                                 *)

\* pid = 0 marks exactly the unused slots and no two used slots share an
\* identifier, however often slots are reused; the first unless a released task
\* still waits or runs (tasks.c:184-185, tasks.c:200-202).
THEOREM PidsAreUnique == Spec => []PidsIdentify
<1>1. Init => nextId \in Nat \ {0} /\ PidsIdentify
  BY DEF Init, PidsIdentify
<1>2. IInv /\ nextId \in Nat \ {0} /\ PidsIdentify /\ [Next]_vars
        => (nextId \in Nat \ {0} /\ PidsIdentify)'
  <2> SUFFICES ASSUME IInv, nextId \in Nat \ {0}, PidsIdentify, [Next]_vars
               PROVE  (nextId \in Nat \ {0} /\ PidsIdentify)'
    OBVIOUS
  <2>0. TypeOK
    BY DEF IInv
  <2>1. ASSUME NEW s \in Slot, NEW times \in {1, 2}, NEW new \in {"READY", "RUNNING", "ALLOC", "INIT"},
               GiveId(s, times), status' = [status EXCEPT ![s] = new]
        PROVE  (nextId \in Nat \ {0} /\ PidsIdentify)'
    <3>1. /\ nextId' \in Nat \ {0} /\ nextId < nextId'
          /\ pid'[s] \in Nat /\ pid'[s] >= nextId /\ pid'[s] < nextId'
          /\ \A t \in Slot \ {s} : pid'[t] = pid[t] /\ status'[t] = status[t]
          /\ status'[s] = new
      BY <2>0, <2>1 DEF GiveId, TypeOK
    <3>2. \A t \in Slot : pid[t] \in Nat /\ pid[t] < nextId
      BY <2>0 DEF TypeOK, PidsIdentify
    <3>3. \A t \in Slot : pid'[t] < nextId'
      BY <3>1, <3>2
    <3>4. \A t \in Slot : ~ misfreed' => (pid'[t] = 0 <=> status'[t] = "UNUSED")
      BY <3>1, StillKept DEF PidsIdentify
    <3>5. \A t, u \in Slot : pid'[t] = pid'[u] /\ pid'[t] # 0 => t = u
      BY <3>1, <3>2 DEF PidsIdentify
    <3> QED BY <3>1, <3>3, <3>4, <3>5 DEF PidsIdentify
  <2>2. ASSUME NEW s \in Slot, InitialIdleTask(s) PROVE (nextId \in Nat \ {0} /\ PidsIdentify)'
    BY <2>1, <2>2 DEF InitialIdleTask
  <2>3. ASSUME NEW s \in Slot, InitialDefaultTask(s) PROVE (nextId \in Nat \ {0} /\ PidsIdentify)'
    BY <2>1, <2>3 DEF InitialDefaultTask
  <2>4. ASSUME NEW s \in Slot, TaskAlloc(s) PROVE (nextId \in Nat \ {0} /\ PidsIdentify)'
    BY <2>1, <2>4 DEF TaskAlloc
  <2>5. ASSUME NEW s \in Slot, TaskInit(s) PROVE (nextId \in Nat \ {0} /\ PidsIdentify)'
    BY <2>1, <2>5 DEF TaskInit
  <2>6. ASSUME NEW s \in Slot, StartTask(s) PROVE (nextId \in Nat \ {0} /\ PidsIdentify)'
    BY <2>0, <2>6 DEF StartTask, TypeOK, PidsIdentify
  <2>7. ASSUME NEW s \in Slot, TaskFree(s) PROVE (nextId \in Nat \ {0} /\ PidsIdentify)'
    BY <2>0, <2>7 DEF TaskFree, TypeOK, PidsIdentify
  <2>8. CASE StartSwitchTimer \/ KeepCurrent \/ UNCHANGED vars
    BY <2>8 DEF StartSwitchTimer, KeepCurrent, vars, PidsIdentify
  <2>9. CASE SwitchTask
    <3>1. CASE misfreed'
      BY <2>9, <3>1 DEF SwitchTask, PidsIdentify
    <3>2. CASE ~ misfreed'
      <4>1. Kept /\ ~ misfreed
        BY <3>2, StillKept
      <4>2. cur \in Slot /\ rq.head \in Slot /\ status[cur] = "RUNNING" /\ status[rq.head] = "READY"
        BY <2>9, <4>1, HeadIsReady
      <4> QED BY <2>0, <2>9, <4>1, <4>2 DEF SwitchTask, TypeOK, PidsIdentify
    <3> QED BY <3>1, <3>2
  <2> QED BY <2>2, <2>3, <2>4, <2>5, <2>6, <2>7, <2>8, <2>9 DEF Next
<1> QED BY <1>1, <1>2, IInvInductive, PTL DEF Spec

\* No task that was initialised, waits or runs is on a stack that task_free gave
\* back to the heap, for any calls but the two that NoTaskOnFreedStack names: the
\* release of a task in use, and of the stale stack of a task that was allocated
\* and never initialised (tasks.c:204-205, tasks.c:220).
THEOREM StacksAreLive == Spec => []NoTaskOnFreedStack
<1>1. Init => NoTaskOnFreedStack
  BY DEF Init, NoTaskOnFreedStack
<1>2. IInv /\ NoTaskOnFreedStack /\ [Next]_vars => NoTaskOnFreedStack'
  <2> SUFFICES ASSUME IInv, NoTaskOnFreedStack, [Next]_vars, ~ misfreed',
                      NEW t \in Slot, kernStack'[t] = "freed"
               PROVE  status'[t] \in {"UNUSED", "ALLOC"}
    BY DEF NoTaskOnFreedStack
  <2>0. /\ status \in [Slot -> Status] /\ kernStack \in [Slot -> {"null", "held", "freed"}]
        /\ Kept
        /\ \A s \in Slot : kernStack[s] = "freed" => status[s] \in {"UNUSED", "ALLOC"}
    BY StillKept DEF Kept, TypeOK, NoTaskOnFreedStack
  <2>1. ASSUME NEW s \in Slot,
               InitialIdleTask(s) \/ InitialDefaultTask(s) \/ TaskInit(s)
        PROVE  status'[t] \in {"UNUSED", "ALLOC"}
    BY <2>0, <2>1 DEF InitialIdleTask, InitialDefaultTask, TaskInit, StackResult
  <2>2. ASSUME NEW s \in Slot, TaskAlloc(s) PROVE status'[t] \in {"UNUSED", "ALLOC"}
    BY <2>0, <2>2 DEF TaskAlloc
  <2>3. ASSUME NEW s \in Slot, StartTask(s) PROVE status'[t] \in {"UNUSED", "ALLOC"}
    BY <2>0, <2>3 DEF StartTask
  <2>4. ASSUME NEW s \in Slot, TaskFree(s) PROVE status'[t] \in {"UNUSED", "ALLOC"}
    <3>1. kernStack[s] # "freed"
      BY <2>4 DEF TaskFree
    <3>2. kernStack' = [kernStack EXCEPT ![s] = IF @ = "null" THEN @ ELSE "freed"]
      BY <2>4, <3>1 DEF TaskFree, GiveBackStack
    <3> QED BY <2>0, <2>4, <3>2 DEF TaskFree
  <2>5. CASE StartSwitchTimer \/ KeepCurrent \/ UNCHANGED vars
    BY <2>0, <2>5 DEF StartSwitchTimer, KeepCurrent, vars
  <2>6. CASE SwitchTask
    <3>1. /\ cur \in Slot /\ rq.head \in Slot
          /\ status[cur] = "RUNNING" /\ status[rq.head] = "READY"
      BY <2>0, <2>6, HeadIsReady
    <3> QED BY <2>0, <2>6, <3>1 DEF SwitchTask
  <2> QED BY <2>1, <2>2, <2>3, <2>4, <2>5, <2>6 DEF Next
<1> QED BY <1>1, <1>2, IInvInductive, PTL DEF Spec

-----------------------------------------------------------------------------
\* The scheduler implements the round-robin promise: the task picked through
\* the head pointer is always the one that waited longest, and the task that
\* loses the processor goes last, until the callers of task_free break their
\* side of the promise (tasks.c:121-168, tasks.c:293-301).
THEOREM SchedulerIsRoundRobin == Spec => RR!Steps
<1>1. Init => RR!Init
  BY DEF Init, RR!Init
<1>2. IInv /\ [Next]_vars => [RR!Next]_RR!vars
  <2> SUFFICES ASSUME IInv, [Next]_vars, ~ misfreed' PROVE [RR!Next]_RR!vars
    BY DEF RR!Next
  <2>0. Kept /\ ~ misfreed /\ TypeOK /\ IsList(rq, order)
    BY StillKept DEF Kept, ListInv
  <2>1. ASSUME NEW s \in Slot, InitialDefaultTask(s) PROVE RR!Boot(s)
    BY <2>1 DEF InitialDefaultTask, RR!Boot
  <2>2. ASSUME NEW s \in Slot, StartTask(s) PROVE RR!Start(s)
    <3>1. s \notin Waiting /\ s # cur
      BY <2>0, <2>2, OutsideQueue DEF StartTask
    <3>2. cur # Nil
      BY <2>0, <2>2 DEF StartTask, Booted, Kept
    <3> QED BY <2>2, <3>1, <3>2 DEF StartTask, Record, RR!Start, RR!Waiting, Waiting
  <2>3. CASE SwitchTask
    <3>1. order # <<>> /\ rq.head # Nil
      BY <2>0, <2>3 DEF SwitchTask, IsList
    <3>2. rq.head = Head(order)
      BY <2>0, <3>1, PickFirstTakesHead DEF TypeOK
    <3>3. cur # idle
      BY <2>0, <3>1 DEF Kept, CurrentNotWaiting
    <3>4. order' = Append(Tail(order), cur) /\ cur' = rq.head /\ misfreed' = misfreed
      BY <2>3, <3>3 DEF SwitchTask, Record
    <3>5. RR!Turn
      BY <3>1, <3>2, <3>4 DEF RR!Turn
    <3> QED BY <2>0, <3>5 DEF RR!OwedTurn, RR!Next
  <2>4. ASSUME NEW s \in Slot,
               InitialIdleTask(s) \/ TaskAlloc(s) \/ TaskInit(s) \/ TaskFree(s)
        PROVE  UNCHANGED RR!vars
    <3>1. TaskFree(s) => misfreed' = misfreed /\ order' = order /\ cur' = cur
      BY <2>0 DEF TaskFree, Record, TypeOK
    <3> QED BY <2>4, <3>1 DEF InitialIdleTask, TaskAlloc, TaskInit, RR!vars
  <2>5. CASE StartSwitchTimer \/ KeepCurrent \/ UNCHANGED vars
    BY <2>5 DEF StartSwitchTimer, KeepCurrent, vars, RR!vars
  <2> QED BY <2>0, <2>1, <2>2, <2>3, <2>4, <2>5 DEF Next, RR!Next
<1> QED BY <1>1, <1>2, IInvInductive, PTL DEF Spec, RR!Steps

-----------------------------------------------------------------------------
(* Descriptors.                                                            *)

\* The three pieces of an address of 32 bits make up the address again.
LEMMA BaseOfInstall ==
  ASSUME NEW b \in Nat, b \div 2^24 < 2^8, NEW l \in Nat, NEW a
  PROVE  Seg!Base([fields |-> Seg!Install(b, l), access |-> a]) = b
<1>1. 2^24 = 16777216 /\ 2^16 = 65536 /\ 2^8 = 256
  BY SMT
<1>2. b < 4294967296
  BY <1>1, SMT
<1>3. (b % 65536) + 65536 * ((b \div 65536) % 256) + 16777216 * ((b \div 16777216) % 256) = b
  BY <1>2, SMTT(60)
<1>4. /\ Seg!Install(b, l).base_low_word = b % 65536
      /\ Seg!Install(b, l).base_mid_byte = (b \div 65536) % 256
      /\ Seg!Install(b, l).base_high_byte = (b \div 16777216) % 256
  BY <1>1, SMT DEF Seg!Install, Seg!Word, Seg!Byte
<1> DEFINE d == [fields |-> Seg!Install(b, l), access |-> a]
<1>5. d.fields = Seg!Install(b, l)
  OBVIOUS
<1> HIDE DEF d
<1>6. Seg!Base(d) = (b % 65536) + 65536 * ((b \div 65536) % 256) + 16777216 * ((b \div 16777216) % 256)
  BY <1>1, <1>4, <1>5, SMT DEF Seg!Base
<1> QED BY <1>3, <1>6, SMT DEF d

\* The same for a limit of 20 bits.
LEMMA LimitOfInstall ==
  ASSUME NEW b \in Nat, NEW l \in Nat, l < 2^20, NEW a
  PROVE  Seg!Limit([fields |-> Seg!Install(b, l), access |-> a]) = l
<1>1. 2^20 = 1048576 /\ 2^16 = 65536 /\ 2^4 = 16
  BY SMT
<1>2. (l % 65536) + 65536 * ((l \div 65536) % 16) = l
  BY <1>1, SMTT(60)
<1> QED BY <1>1, <1>2, SMT DEF Seg!Limit, Seg!Install, Seg!Word, Seg!Nibble

\* A selector leads back to the slot it was made from.
LEMMA IndexOfSelector ==
  ASSUME NEW slot \in Nat
  PROVE  Seg!Index(Seg!Selector(slot)) = slot /\ (slot # 0 => Seg!Selector(slot) # 0)
BY DEF Seg!Index, Seg!Selector

LEMMA SlotsInGdt ==
  ASSUME NEW i \in Slot
  PROVE  /\ TssSlot(i) \in Nat \ {0} /\ LdtSlot(i) \in Nat \ {0}
         /\ TssSlot(i) < N_LDT_SEG_START_SLOT_IN_GDT
         /\ LdtSlot(i) >= N_LDT_SEG_START_SLOT_IN_GDT
         /\ TssSlot(i) \in DOMAIN Gdt /\ LdtSlot(i) \in DOMAIN Gdt
BY TablesAssumption, NAssumption
   DEF Slot, TssSlot, LdtSlot, Gdt, Seg!InGdt, N_TSS_START_SLOT_IN_GDT, N_LDT_SEG_START_SLOT_IN_GDT

\* The addresses of the tables of a slot are addresses of 32 bits.
LEMMA AddressesFit ==
  ASSUME NEW i \in Slot
  PROVE  /\ TssAddress(i) \in Nat /\ TssAddress(i) \div 2^24 < 2^8
         /\ LdtAddress(i) \in Nat /\ LdtAddress(i) \div 2^24 < 2^8
<1>1. 2^24 = 16777216 /\ 2^8 = 256
  BY SMT
<1>2. i \in Nat /\ i + 1 <= N /\ N \in Nat /\ TableBase \in Nat
  BY TablesAssumption, NAssumption DEF Slot
<1>3. TableBase + N * 8416 < 4294967296
  BY <1>1, <1>2, TablesAssumption, SMT DEF SizeOfProcess
<1>4. i * 8416 + 28 \in Nat /\ i * 8416 + 28 < N * 8416
  BY <1>2, SMT
<1>5. /\ TableBase + i * 8416 + 28 < 4294967296
      /\ TableBase + i * 8416 + 12 < 4294967296
  BY <1>2, <1>3, <1>4, SMT
<1>6. \A x \in Nat : x < 4294967296 => x \div 16777216 < 256
  BY SMT
<1> QED BY <1>1, <1>2, <1>5, <1>6, SMT DEF TssAddress, LdtAddress, SizeOfProcess

\* The descriptors of a task describe its TSS and its LDT.
LEMMA DescriptorsOfTask ==
  ASSUME NEW i \in Slot
  PROVE  /\ Seg!Base(Gdt[TssSlot(i)]) = TssAddress(i)
         /\ Seg!Base(Gdt[LdtSlot(i)]) = LdtAddress(i)
<1>1. SizeOfTss \in Nat /\ SizeOfLdt \in Nat /\ i \in Nat
  BY NAssumption DEF SizeOfTss, SizeOfLdt, Slot
<1>2. Gdt[TssSlot(i)] = Seg!install_tss_to_gdt(TssAddress(i), SizeOfTss)
  <2>1. TssSlot(i) - N_TSS_START_SLOT_IN_GDT = i
    BY <1>1 DEF TssSlot, N_TSS_START_SLOT_IN_GDT
  <2> QED BY <2>1, SlotsInGdt DEF Gdt
<1>3. Gdt[LdtSlot(i)] = Seg!install_ldt_to_gdt(LdtAddress(i), SizeOfLdt)
  <2>1. LdtSlot(i) - N_LDT_SEG_START_SLOT_IN_GDT = i
    BY <1>1 DEF LdtSlot, N_LDT_SEG_START_SLOT_IN_GDT
  <2>2. ~(LdtSlot(i) < N_LDT_SEG_START_SLOT_IN_GDT)
    BY SlotsInGdt DEF N_LDT_SEG_START_SLOT_IN_GDT
  <2> QED BY <2>1, <2>2, SlotsInGdt DEF Gdt
<1>4. Seg!Base(Seg!install_tss_to_gdt(TssAddress(i), SizeOfTss)) = TssAddress(i)
  BY <1>1, AddressesFit, BaseOfInstall DEF Seg!install_tss_to_gdt
<1>5. Seg!Base(Seg!install_ldt_to_gdt(LdtAddress(i), SizeOfLdt)) = LdtAddress(i)
  BY <1>1, AddressesFit, BaseOfInstall DEF Seg!install_ldt_to_gdt
<1> QED BY <1>2, <1>3, <1>4, <1>5

\* Both segments of an LDT are the user memory of its task.
LEMMA LdtIsUserMemory ==
  ASSUME NEW i \in Slot, NEW k \in {1, 2}
  PROVE  Seg!Extent(Ldt(i)[k]) = [kind |-> IF k = 1 THEN "code" ELSE "data",
           from |-> UserMemory(i).from, to |-> UserMemory(i).to]
<1> DEFINE b == 67108864 + i * 1048576
<1>1. 2^24 = 16777216 /\ 2^8 = 256 /\ 2^20 = 1048576
  BY SMT
<1>2. i \in Nat /\ i < 64
  BY TablesAssumption, NAssumption
     DEF Slot, N_TSS_START_SLOT_IN_GDT, N_LDT_SEG_START_SLOT_IN_GDT
<1>3. b \in Nat /\ b \div 2^24 < 2^8
  BY <1>1, <1>2, SMT
<1>4. 1048575 \in Nat /\ 1048575 < 2^20
  BY <1>1, SMT
<1>5. PICK a : Ldt(i)[k] = [fields |-> Seg!Install(b, 1048575), access |-> a]
               /\ a.kind = IF k = 1 THEN "code" ELSE "data"
  BY <1>2, SMT DEF Ldt, Seg!install_seg_to_ldt, Seg!Access
<1>6. UserMemory(i).from = b /\ UserMemory(i).to = b + 1048576
  BY <1>1, <1>2, SMT DEF UserMemory
<1> HIDE DEF b
<1>7. Seg!Base(Ldt(i)[k]) = b /\ Seg!Limit(Ldt(i)[k]) = 1048575
  BY <1>3, <1>4, <1>5, BaseOfInstall, LimitOfInstall, SMT
<1>8. Ldt(i)[k].access.kind = IF k = 1 THEN "code" ELSE "data"
  BY <1>5
<1>9. b + 1048575 + 1 = b + 1048576
  BY <1>3, SMT
<1> QED BY <1>6, <1>7, <1>8, <1>9, SMT DEF Seg!Extent

-----------------------------------------------------------------------------
(* Every step of Processes is a step of Scheduler.                         *)

LEMMA StepOfScheduler == [PNext]_pvars => [Next]_vars
BY DEF PNext, pvars, Next, vars, PInitialIdleTask, PInitialDefaultTask, PTaskInit,
       PStartSwitchTimer, Others, KernExec, PSwitchTask, JumpRefused

LEMMA PKeptStep ==
  ASSUME Kept, PKept, [PNext]_pvars, Kept'
  PROVE  PKept'
<1>t. status \in [Slot -> Status] /\ memory \in [Slot -> {"empty", "simpleapp"}]
  BY DEF PKept, Kept, TypeOK
<1>1. ASSUME NEW s \in Slot, PInitialIdleTask(s) PROVE PKept'
  BY <1>1, <1>t DEF PInitialIdleTask, InitialIdleTask, CopyProgram, PKept
<1>2. ASSUME NEW s \in Slot, PInitialDefaultTask(s) PROVE PKept'
  <2>1. tr = 0
    BY <1>2, NilIsNoSlot DEF PInitialDefaultTask, InitialDefaultTask, PKept
  <2> QED BY <1>2, <1>t, <2>1, NilIsNoSlot
          DEF PInitialDefaultTask, InitialDefaultTask, CopyProgram, PKept
<1>3. ASSUME NEW s \in Slot, PTaskInit(s) PROVE PKept'
  BY <1>3, <1>t DEF PTaskInit, TaskInit, CopyProgram, PKept
<1>4. CASE PStartSwitchTimer
  <2>1. cur \in Slot
    BY <1>4 DEF PStartSwitchTimer, StartSwitchTimer, Kept, TypeOK, Pointer
  <2>2. tr = 0 \/ busy = {TssSlot(cur)}
    BY DEF PKept
  <2>3. Seg!Selector(TssSlot(cur)) # 0
    BY <2>1, SlotsInGdt, IndexOfSelector
  <2> QED BY <1>4, <2>1, <2>2, <2>3 DEF PStartSwitchTimer, StartSwitchTimer, PKept
<1>5. CASE Others
  <2>1. ASSUME NEW s \in Slot, TaskAlloc(s) \/ StartTask(s) \/ TaskFree(s) PROVE PKept'
    BY <1>5, <1>t, <2>1 DEF Others, processor, TaskAlloc, StartTask, TaskFree, PKept, Booted
  <2>2. CASE KeepCurrent
    BY <1>5, <2>2 DEF Others, processor, KeepCurrent, Rearm, PKept
  <2> QED BY <1>5, <2>1, <2>2 DEF Others
<1>6. CASE KernExec
  BY <1>6 DEF KernExec, vars, PKept
<1>7. ASSUME SwitchTask
      PROVE  /\ rq.head \in Slot /\ cur \in Slot /\ rq.head # cur
             /\ status[rq.head] = "READY" /\ status[cur] = "RUNNING"
             /\ tr # 0 /\ busy = {TssSlot(cur)} /\ Seg!Index(tr) = TssSlot(cur)
  <2>1. /\ rq.head \in Slot /\ cur \in Slot /\ rq.head # cur
        /\ status[rq.head] = "READY" /\ status[cur] = "RUNNING"
    BY <1>7, HeadIsReady
  <2>2. tr # 0
    BY <1>7 DEF SwitchTask, PKept
  <2> QED BY <2>1, <2>2, SlotsInGdt, IndexOfSelector DEF PKept
<1>8. CASE PSwitchTask
  <2>1. SwitchTask /\ SwitchTo(rq.head) /\ cur' = rq.head /\ memory' = memory
    BY <1>8 DEF PSwitchTask, SwitchTask
  <2>2. tr' = Seg!Selector(TssSlot(cur')) /\ busy' = {TssSlot(cur')} /\ tr' # 0
    BY <1>7, <2>1, SlotsInGdt, IndexOfSelector DEF SwitchTo
  <2>3. ldtr' = Seg!Selector(LdtSlot(cur'))
    BY <2>1 DEF SwitchTo, TssLdtr
  <2>4. \A s \in Slot : status'[s] \in {"INIT", "READY", "RUNNING"}
                          => status[s] \in {"INIT", "READY", "RUNNING"}
    BY <1>t, <1>7, <2>1 DEF SwitchTask
  <2> QED BY <1>7, <2>1, <2>2, <2>3, <2>4 DEF PKept
<1>9. CASE JumpRefused
  <2>1. SwitchTask /\ TssSlot(rq.head) \in busy
    BY <1>9 DEF JumpRefused
  <2>2. TssSlot(rq.head) # TssSlot(cur)
    BY <1>7, <2>1, NAssumption DEF Slot, TssSlot, N_TSS_START_SLOT_IN_GDT
  <2> QED BY <1>7, <2>1, <2>2
<1>10. CASE UNCHANGED pvars
  BY <1>10 DEF pvars, vars, processor, PKept
<1> QED BY <1>1, <1>2, <1>3, <1>4, <1>5, <1>6, <1>8, <1>9, <1>10 DEF PNext

LEMMA PInvStep == PInv /\ [PNext]_pvars => PInv'
<1> SUFFICES ASSUME PInv, [PNext]_pvars PROVE PInv'
  OBVIOUS
<1>1. IInv /\ IInv' /\ [Next]_vars
  BY StepOfScheduler, IInvStep DEF PInv
<1>2. ASSUME ~ misfreed' PROVE PKept'
  <2>1. Kept /\ ~ misfreed /\ Kept'
    BY <1>1, <1>2, StillKept DEF IInv
  <2> QED BY <2>1, PKeptStep DEF PInv
<1> QED BY <1>1, <1>2 DEF PInv

LEMMA PInvInductive == PSpec => []PInv
<1>1. PInit => PInv
  <2> SUFFICES ASSUME PInit PROVE PInv
    OBVIOUS
  <2>1. IInv
    BY InitSatisfiesIInv DEF PInit
  <2> QED BY <2>1 DEF PInit, Init, PInv, PKept
<1> QED BY <1>1, PInvStep, PTL DEF PSpec

-----------------------------------------------------------------------------
(* What follows.                                                           *)

\* The processor runs the task the scheduler says, and only its TSS is busy,
\* until a task in use, or a stack for the second time, is released, for every process table the GDT has room for
\* (tasks.c:52-70, tasks.c:163-167, tasks.c:309).
THEOREM ProcessorFollowsScheduler == PSpec => []ProcessorRunsCurrent
<1>1. PInv => ProcessorRunsCurrent
  <2> SUFFICES ASSUME PInv, ~ misfreed, tr # 0
               PROVE  Seg!Base(Gdt[Seg!Index(tr)]) = TssAddress(cur) /\ busy = {Seg!Index(tr)}
    BY DEF ProcessorRunsCurrent
  <2>1. cur \in Slot /\ tr = Seg!Selector(TssSlot(cur)) /\ busy = {TssSlot(cur)}
    BY DEF PInv, PKept
  <2>2. Seg!Index(tr) = TssSlot(cur)
    BY <2>1, SlotsInGdt, IndexOfSelector
  <2> QED BY <2>1, <2>2, DescriptorsOfTask
<1> QED BY <1>1, PInvInductive, PTL

\* The current task addresses its own megabyte of user memory, which holds its
\* program, until then (tasks.c:58-68, tasks.c:384-387, tasks.c:461-463).
THEOREM CurrentHasItsMemory == PSpec => []UserMemoryOfCurrent
<1>1. PInv => UserMemoryOfCurrent
  <2> SUFFICES ASSUME PInv, ~ misfreed, cur # Nil
               PROVE  \E i \in Slot :
                        /\ Seg!Index(ldtr) = LdtSlot(i)
                        /\ Seg!Base(Gdt[Seg!Index(ldtr)]) = LdtAddress(i)
                        /\ \A k \in {1, 2} :
                             Seg!Extent(Ldt(i)[k]) = [kind |-> IF k = 1 THEN "code" ELSE "data",
                               from |-> UserMemory(cur).from, to |-> UserMemory(cur).to]
                        /\ memory[cur] = "simpleapp"
    BY DEF UserMemoryOfCurrent
  <2>1. cur \in Slot /\ ldtr = Seg!Selector(LdtSlot(cur))
    BY DEF PInv, PKept, IInv, TypeOK, Pointer
  <2>2. Seg!Index(ldtr) = LdtSlot(cur)
    BY <2>1, SlotsInGdt, IndexOfSelector
  <2>3. memory[cur] = "simpleapp"
    BY <2>1 DEF PInv, PKept, IInv, Kept, StatusMatchesQueue
  <2>4. Seg!Base(Gdt[Seg!Index(ldtr)]) = LdtAddress(cur)
    BY <2>1, <2>2, DescriptorsOfTask
  <2>5. \A k \in {1, 2} :
          Seg!Extent(Ldt(cur)[k]) = [kind |-> IF k = 1 THEN "code" ELSE "data",
            from |-> UserMemory(cur).from, to |-> UserMemory(cur).to]
    BY <2>1, LdtIsUserMemory
  <2> QED BY <2>1, <2>2, <2>3, <2>4, <2>5
<1> QED BY <1>1, PInvInductive, PTL

\* The far jump of the scheduler is never refused (tasks.c:167): the processor
\* is never asked to run the task it is running, until then.
THEOREM FarJumpIsAccepted == PSpec => []JumpAccepted
<1>1. PInv => JumpAccepted
  <2> SUFFICES ASSUME PInv, ~ misfreed, tr # 0, rq.head # Nil PROVE TssSlot(rq.head) \notin busy
    BY DEF JumpAccepted
  <2>1. cur \in Slot /\ busy = {TssSlot(cur)}
    BY DEF PInv, PKept
  <2>2. order # <<>>
    BY DEF PInv, IInv, Kept, ListInv, IsList
  <2>3. rq.head = order[1] /\ 1 \in DOMAIN order /\ order[1] \in Slot
    BY <2>2, IsListFacts DEF PInv, IInv, Kept, TypeOK, ListInv
  <2>4. rq.head # cur
    BY <2>1, <2>3 DEF PInv, IInv, Kept, CurrentNotWaiting, Waiting
  <2> QED BY <2>1, <2>3, <2>4 DEF Slot, TssSlot, N_TSS_START_SLOT_IN_GDT
<1> QED BY <1>1, PInvInductive, PTL
=============================================================================
