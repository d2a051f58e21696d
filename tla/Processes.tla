----------------------------- MODULE Processes ------------------------------
(***************************************************************************)
(* The scheduler with what makes a task run: its TSS and LDT in the GDT,   *)
(* the task register and the LDT register of the processor, and the 1 MB   *)
(* of memory of its user program.                                          *)
(*                                                                         *)
(* Every action of the module Scheduler is taken over and completed by     *)
(* what the same code does to these.  The tables are written once, by      *)
(* init_process_management, and are operators here; only the busy marks of *)
(* the TSS descriptors change afterwards.                                  *)
(***************************************************************************)
EXTENDS Scheduler

CONSTANTS
  TableBase,       \* address of s_processes
  N_GDT_ENTRIES    \* 8192

VARIABLES
  tr,       \* the task register, a selector; 0 before initial_tasks
  ldtr,     \* the LDT register, a selector; 0 before initial_default_task
  busy,     \* indices of the GDT whose TSS is marked busy
  memory,   \* [Slot -> {"empty", "simpleapp"}]: the 1 MB slots of user memory
  stage     \* "boot"; "user" from kern_exec on, with interrupts on; "stopped"

processor == <<tr, ldtr, busy, memory, stage>>
pvars == <<vars, processor>>

Seg == INSTANCE Segments

-----------------------------------------------------------------------------
(* The tables.                                                             *)

N_TSS_START_SLOT_IN_GDT == 16
N_LDT_SEG_START_SLOT_IN_GDT == 80

\* sizeof process_t, of the TSS in it, and of the two entries of the LDT.
SizeOfProcess == 8416
SizeOfTss == 104
SizeOfLdt == 16
TssAddress(i) == TableBase + i * SizeOfProcess + 28
LdtAddress(i) == TableBase + i * SizeOfProcess + 12

\* The descriptors of the tasks fit into the GDT without meeting each other, and
\* the process table ends within the addresses of 32 bits.
ASSUME TablesAssumption ==
  /\ N <= N_LDT_SEG_START_SLOT_IN_GDT - N_TSS_START_SLOT_IN_GDT
  /\ N_GDT_ENTRIES \in Nat /\ N_LDT_SEG_START_SLOT_IN_GDT + N <= N_GDT_ENTRIES
  /\ TableBase \in Nat /\ (TableBase + N * SizeOfProcess) \div 2^24 < 2^8

UserMemory(i) == [from |-> \h4000000 + i * 2^20, to |-> \h4000000 + i * 2^20 + \h100000]

TssSlot(i) == N_TSS_START_SLOT_IN_GDT + i
LdtSlot(i) == N_LDT_SEG_START_SLOT_IN_GDT + i

\* The GDT and the LDTs, as far as init_process_management fills them; a slot
\* outside the GDT is refused.
Gdt == [e \in {g \in {TssSlot(i) : i \in Slot} \cup {LdtSlot(i) : i \in Slot} : Seg!InGdt(g)} |->
  IF e < N_LDT_SEG_START_SLOT_IN_GDT
  THEN Seg!install_tss_to_gdt(TssAddress(e - N_TSS_START_SLOT_IN_GDT), SizeOfTss)
  ELSE Seg!install_ldt_to_gdt(LdtAddress(e - N_LDT_SEG_START_SLOT_IN_GDT), SizeOfLdt)]

Ldt(i) ==
  <<Seg!install_seg_to_ldt(\h4000000 + i * \h100000, \h100000 - 1, TRUE),
    Seg!install_seg_to_ldt(\h4000000 + i * \h100000, \h100000 - 1, FALSE)>>

\* Deviation of TssLdtr: the field keeps the 0 of the zeroed table.
TssLdtrUnset(i) == 0

\* The field ldtr of a TSS: the processor loads it and never writes it.
TssLdtr(i) == Seg!Selector(LdtSlot(i))

-----------------------------------------------------------------------------
(* The actions of the scheduler, and what they do to the processor.        *)

PInit ==
  /\ Init
  /\ tr = 0 /\ ldtr = 0 /\ busy = {}
  /\ memory = [s \in Slot |-> "empty"]
  /\ stage = "boot"

\* k_memcpy of simpleapp_data to the user memory of the task.
CopyProgram(s) == memory' = [memory EXCEPT ![s] = "simpleapp"]

PInitialIdleTask(s) ==
  InitialIdleTask(s) /\ CopyProgram(s) /\ UNCHANGED <<tr, ldtr, busy, stage>>

PInitialDefaultTask(s) ==
  /\ InitialDefaultTask(s) /\ CopyProgram(s)
  /\ ldtr' = Seg!Selector(LdtSlot(s))
  /\ UNCHANGED <<tr, busy, stage>>

\* _set_tr, and then the timer of the scheduler.
PStartSwitchTimer ==
  /\ StartSwitchTimer
  /\ tr' = Seg!Selector(TssSlot(cur)) /\ busy' = busy \cup {TssSlot(cur)}
  /\ UNCHANGED <<ldtr, memory, stage>>

PTaskInit(s) == TaskInit(s) /\ CopyProgram(s) /\ UNCHANGED <<tr, ldtr, busy, stage>>

Others ==
  /\ \/ \E s \in Slot : TaskAlloc(s) \/ StartTask(s) \/ TaskFree(s)
     \/ stage = "user" /\ KeepCurrent
  /\ UNCHANGED processor

\* The default task becomes a user program; it is still the first task.
KernExec ==
  /\ Booted /\ stage = "boot"
  /\ ldtr' = Seg!Selector(LdtSlot(cur)) /\ stage' = "user"
  /\ UNCHANGED <<vars, tr, busy, memory>>

\* Deviation of SwitchTo: a far call, which leaves the old task busy.
SwitchByCall(t) ==
  /\ TssSlot(t) \notin busy
  /\ busy' = busy \cup {TssSlot(t)}
  /\ tr' = Seg!Selector(TssSlot(t)) /\ ldtr' = TssLdtr(t)

\* The far jump of _switch_task: the processor refuses a TSS that is busy,
\* moves the busy mark, and loads both registers.
SwitchTo(t) ==
  /\ TssSlot(t) \notin busy
  /\ busy' = (busy \ {Seg!Index(tr)}) \cup {TssSlot(t)}
  /\ tr' = Seg!Selector(TssSlot(t)) /\ ldtr' = TssLdtr(t)

PSwitchTask ==
  /\ stage = "user" /\ SwitchTask
  /\ SwitchTo(rq.head)
  /\ UNCHANGED <<memory, stage>>

\* The far jump is refused with an exception for which there is no gate
\* (kernel_inits.c:71-72): the processor stops.
JumpRefused ==
  /\ stage = "user" /\ SwitchTask
  /\ TssSlot(rq.head) \in busy
  /\ stage' = "stopped"
  /\ UNCHANGED <<tr, ldtr, busy, memory>>

PNext ==
  \/ /\ stage # "stopped"
     /\ \/ \E s \in Slot : PInitialIdleTask(s) \/ PInitialDefaultTask(s) \/ PTaskInit(s)
        \/ PStartSwitchTimer \/ Others \/ KernExec \/ PSwitchTask \/ JumpRefused
  \/ stage = "stopped" /\ UNCHANGED pvars

\* kernel_main comes to its end, the timer interrupt keeps coming and every
\* task lets it in.
PSpec == PInit /\ [][PNext]_pvars /\ WF_pvars(KernExec) /\ WF_pvars(PSwitchTask)

-----------------------------------------------------------------------------
(* Properties.                                                             *)

\* While no task in use, and no stack twice, was released: the processor runs
\* the task the scheduler says; the task register selects the TSS of the current
\* task, and this TSS alone is busy, so that the far jump to any waiting task is
\* accepted (tasks.c:163-167, tasks.c:309).
ProcessorRunsCurrent ==
  ~ misfreed /\ tr # 0 => /\ Seg!Base(Gdt[Seg!Index(tr)]) = TssAddress(cur)
                         /\ busy = {Seg!Index(tr)}

\* From the creation of the default task on the LDT register selects an LDT
\* whose two segments are the whole user memory of the current task and
\* nothing else, with the program in it, while no task in use, and no stack
\* twice, was released
\* (tasks.c:58-68, tasks.c:261, tasks.c:384-387, tasks.c:461-463).
UserMemoryOfCurrent ==
  ~ misfreed /\ cur # Nil =>
    \E i \in Slot :
      /\ Seg!Index(ldtr) = LdtSlot(i)
      /\ Seg!Base(Gdt[Seg!Index(ldtr)]) = LdtAddress(i)
      /\ \A k \in {1, 2} :
           Seg!Extent(Ldt(i)[k]) = [kind |-> IF k = 1 THEN "code" ELSE "data",
             from |-> UserMemory(cur).from, to |-> UserMemory(cur).to]
      /\ memory[cur] = "simpleapp"

\* Under the same condition the task the scheduler would switch to is not marked
\* busy, so that the processor never refuses the far jump
\* (tasks.c:130-143, tasks.c:167).
JumpAccepted == ~ misfreed /\ tr # 0 /\ rq.head # Nil => TssSlot(rq.head) \notin busy
=============================================================================
