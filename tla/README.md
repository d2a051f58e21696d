# NtmOS in TLA+

NtmOS is a small x86 kernel: a floppy boot sector, a second-stage loader, a
kernel bootstrap that turns paging on, and a kernel with round-robin tasks,
interrupt-driven events, software timers, a page-granular heap, an ATA driver
and a read-only FAT16 file system. This directory holds a specification of the
parts whose correctness depends on the order of events: TLA+ modules translated
from the source, configurations that model-check them with TLC, and theorems
about them checked by TLAPS. Paths such as `tasks.c:137` are relative to `src/`.
`PROJECT.json` lists, for every definition, the source lines it stands for.

    tlc -config MCProcesses.cfg MCProcesses      # one run
    tlapm ProcessesProofs.tla                    # one module of proofs

## 1. The system

### Components

| Component | Source | State | Operations | Correct when |
|---|---|---|---|---|
| boot sector | `bootloader.nas` | ax, bx, cx, the stack, the loaded sectors | `read_sector` with retries, the loading loop | a retry loses neither the block number nor the return address; the second stage is complete |
| second stage loader | `ntmio.sys.nas` | registers, es, stack, table and directory in memory | load FAT, load root directory, follow the 12-bit chain, `read_sector` | the kernel's clusters lie in order, across segment ends too |
| kernel bootstrap | `kernel_bootstrap.nas` | page directory, page tables | four filling loops, paging on | the two windows of the design document are mapped |
| process table and scheduler | `tasks.c`, `tasks.h` | `s_processes`, ready queue (head, tail pointer, next pointers), `g_current_task`, `g_idle_task`, switch timer | `init_process_management`, `task_alloc`, `task_init`, `start_task`, `task_free`, `initial_tasks`, `put_task_to_ready`, `switch_task`, `kern_exec` | the list is exactly the waiting tasks; every waiting task gets its turn; the processor runs the task the scheduler says |
| event queues | `tasks.c`, `kernel_inits.h` | head, tail, full, nodes | `initial_task_event_queue`, `enqueue_event_queue`, `dequeue_event_queue` | a bounded FIFO |
| kernel heap | `k_heap.c` | bitmap, a length word in front of each block | `k_malloc`, `k_free` | blocks are disjoint, and what is marked is what is owned |
| software timers | `k_timer.c`, `interrupt_handlers.c` | tick, sorted list of armed timers, deadlines, flags | `k_timer_alloc`, `k_timer_free`, `k_set_timer_time`, `int20h_handler` | the list is exactly the armed timers; each fires, and on time |
| interrupt handlers and tasks | `interrupt_handlers.c`, `tasks.c`, `kernel.c` | where each task is, the nodes under way | `task_main`, `kern_exec`, keyboard, mouse and timer handlers | every accepted event is handled once, in order |
| console | `gui.c` | `cursor_x`, `cursor_y` | `tui_putchar`, `k_printf`, scrolling | the cursor stays on the screen whoever prints |
| ATA driver | `harddisk.c` | table of drives, the drive's registers | `ata_detect`, `ata_pio_lba_read` | the words read are those asked for |
| file system | `fs.c` | `g_root_filesystem` | `init_root_filesystem`, `partition_read`, `get_file_size`, `get_file_start_cluster`, `read_file`, `get_next_cluster` | a file's bytes come from its clusters, and no more than asked for |
| window layers | `gui.c` | `layer_stack`, `z_top`, heights, places | `init_screen`, `alloc_layer`, `mov_layer_z`, `mov_layer`, `free_layer`, `refresh_screen` | the screen shows the highest layer everywhere |
| segment descriptors | `segments.c`, `segments.h` | the GDT, an LDT for each task | `install_tss_to_gdt`, `install_ldt_to_gdt`, `install_seg_to_ldt` | the processor reads the address and limit that were written |
| hardware initialisation | `kernel_inits.c` | IDT, registers of the interrupt and keyboard controllers | `initial_idt`, `set_interrupt`, `initial_pic`, `initial_keyboard`, `initial_mouse` | every interrupt that can come has a handler that acknowledges it; no command is lost |
| interrupt stubs, port access | `interrupt_stubs.nas`, `kernel_functions.nas` | the interrupt flag | `cli`, `sti`, `iret`, `_io_out8`, `_switch_task` | a handler runs with interrupts off and returns with them on |
| keyboard table, serial port | `keyboard.c`, `serial_port.c` | constant data; COM1 | decoding, `initial_serial`, `write_serial` | a key becomes the event of its character; the port takes each byte in the end |
| string library | `kstring.c` | the memory written to | `k_sprintf`, `k_strcat`, `k_itoa`, `k_utoa`, `k_memrev` | the text the format describes, and nothing behind it |
| physical pages, user slots | `mm.c` | page bitmap, `umem` slots | `get_proc_umem_start_address` | tasks have memory of their own |
| VGA, synchronisation, terminals, files, user program, build | the rest | constant data and device registers | port output | not modelled, see section 7 |

### How they interact

* The boot is a relay. The boot sector jumps to the second stage it loaded, that
  one jumps to the kernel it loaded, and the kernel's first act is to build its
  page tables. Only memory passes between the stages.
* Interrupt handlers and tasks share the event queues and the heap. A handler
  allocates a node (`k_malloc`) and appends it to the queue of the **current**
  task; `task_main` takes it between `cli` and `sti`, processes it and frees it
  with interrupts on.
* The timer interrupt takes expired timers off the list, sends an event for each,
  and for the switch timer calls `switch_task` before it returns. `switch_task`
  arms the same timer again.
* `switch_task` prints two lines, and the timer handler one when it finds no memory,
  through the console that the interrupted task may be in the middle of using: every
  task prints a message when it begins, and the characters of its keys.
* `switch_task` ends in a far jump to the TSS of the next task: the processor, not
  the code, then loads the LDT and marks the TSS busy. It may leave the handler of
  the timer in the middle, for as long as the task that was interrupted waits.
* Handlers run behind two interrupt controllers, which hold back what is not more
  urgent until they are told that a handler is through.
* The file system calls the driver through `partition_read`, and the heap for its
  buffers. It runs before the first `sti`.

### What is hard in it

1. **Interleaving with interrupts.** There are no locks: code is atomic only
   between `cli` and `sti`, or inside a handler. `k_free`, `k_timer_alloc` and the
   first half of `k_set_timer_time` run with interrupts on; `k_printf` and
   `tui_putchar` in a task do too.
2. **Check, then sleep.** `task_main` looks at its queue, and then halts.
3. **A scheduler that hangs on a one-shot timer.** Every path of the handler, those
   with no memory included, must leave the switch timer armed.
4. **Hand-made lists and rings.** The ready queue keeps a pointer to a pointer,
   the ring tells full from empty with a flag, `k_malloc` jumps within its loop.
5. **Wrap-around.** The tick counter, deadlines, segments, the eight-bit sector
   count, twelve-bit table entries.
6. **Retries** in assembly, where success and failure pop different words.
7. **Failure in the middle**: no memory, no volume, no such file, a bad sector.
8. **Hardware that remembers**: interrupts in service, edges forgotten by a reset, a
   keyboard buffer that stays full, a TSS that stays busy.
9. **Functions that trust their callers.** `task_free` releases a task that runs,
   `k_set_timer_time` arms a timer that is armed, `mov_layer_z` puts layers where
   they do not belong.

`PROJECT.json` lists 40 such hazards with the line where each one bites and the
properties that would catch it.

## 2. The modules

Every module names in its header what it models. An action stands for a whole
handler or function unless an interrupt can come in between; where one can, the
function is cut at exactly those points.

| Module | Models | State and actions |
|---|---|---|
| `Fifo` | abstract | what an event queue promises: a bounded FIFO that refuses when full |
| `EventQueue` | `tasks.c:392-427` | the ring record; `Enqueue`, `Dequeue`, `Initialise`. `Contents` is the refinement mapping to `Fifo` |
| `RoundRobin` | abstract | one task runs, the others wait in arrival order |
| `Scheduler` | `tasks.c` | process table and linked list; an action for each function. The history variable `order` is the abstract queue that `ListInv` ties to the pointers; `misfreed` says that `task_free` was asked for a task in use, or gave a stack back twice |
| `Segments` | `segments.c`, `segments.h` | a descriptor field by field, and what the processor reads out of one |
| `Processes` | `tasks.c`, `mm.c`, on top of `Scheduler` | every action of `Scheduler`, completed by what the same function does to the task register, the LDT register, the busy marks and the user memory; the tables themselves are written once and are operators |
| `HeapPages` | `k_heap.c` | the bitmap, runs, `FirstFit`: what the views of the heap share |
| `KHeapScan` | `k_heap.c:13-30` | the search of `k_malloc` loop by loop |
| `KHeap` | `k_heap.c` | the heap as its callers see it: `Malloc` in one step, `FreeStart` and then `FreePage` for every page, several callers at once |
| `KHeapCode` | `k_heap.c` | composition of the two: the loops of `k_malloc` on the bitmap the frees of other tasks have cleared; it implements `KHeap` |
| `KTimer` | `k_timer.c`, `interrupt_handlers.c:33-74` | the list by pointers; `AllocTest`, `AllocLoad` and `AllocStore` are the steps of `k_timer_alloc`, `SetStore` and `SetInsert` the halves of `k_set_timer_time` around its `cli`; `Tick` is the whole handler, with `k_malloc` failing at any timer. `misused` says that a timer was given to two tasks, or armed or freed while armed |
| `Events` | composition | the ring, or the kernel whose queues it implements |
| `EventDelivery` | abstract | events are handled in order, once each, by servers that get on |
| `Kernel` | `tasks.c:81-168`, `interrupt_handlers.c`, `kernel.c` | composition: the places of `task_main`, the handlers, and `RoundRobin!Turn` for the scheduler; queues are those of `Fifo` |
| `Console` | `gui.c`, `tasks.c:86` | `tui_putchar` and `k_printf` in a task, cut at each access to the cursor; the messages of the timer interrupt and the scheduler character by character inside the interrupt |
| `Layers` | `gui.c:42-174` | the stack of window layers and the screen; an action for each function, also where it stores numbers in place of layers. `misused` counts the calls from the first such one on |
| `Gui` | `gui.c` | `Console` or `Layers`, as the display is in text or in graphics mode |
| `Interrupts` | `kernel_inits.c`, `kernel.c:21-60`, `interrupt_handlers.c`, `keyboard.c`, `serial_port.c` | routines are sequences of operations on the hardware, `todo` is what is left of those the processor is in; the interrupt controllers, the keyboard controller and the port are actions of their own, between any two operations |
| `KString` | `kstring.c` | `k_sprintf`, a character of its format at a time, on a memory with old contents; the conversions are functions |
| `BootLayout` | constants of the three stages | geometry and layout; `ChsOf` |
| `BootSector`, `Ntmio`, `PageTables` | the three stages of the boot | registers and the stack are modelled where control depends on them |
| `Boot` | composition | each stage starts where the one before it jumps |
| `AtaPio` | `harddisk.c` | the table of drives as `fs.c` sees it, registers as they are written, the drive's answer, the polling loops as compiled, word after word, with sectors that cannot be read |
| `Fat16` | `fs.c`, on top of `AtaPio` | each action runs to the next call of the driver; what it finds in a buffer depends on the words that were read into it |

Modelling decisions a reader should know of:

* **Devices are external.** The BIOS, the drive, the interrupt controllers, the
  keyboard controller and the reading of descriptors by the processor are modelled
  from how the code uses them: `int 13h` may fail at any time, a drive or a port may
  be slow, a drive may fail at any sector, and of the 8259A there is what
  edge-triggered requests, masks, priorities and the end of one level need. Of a port
  where no drive answers it is assumed that it does not show a boot signature.
* **Undefined values are choices.** The flag `found` of `k_malloc` is not
  initialised; the bitmap of the heap is never cleared. Both start arbitrary.
* **Operator precedence is kept.** `status & BSY != 0` in the driver tests the
  error bit and `status & DRQ == 0` tests nothing; `AtaPio!Poll` does the same.
* **Layout is kept where it matters.** `harddisk.c` sees `hdd_device_t` packed,
  279 bytes long, `fs.c` sees it with 280 bytes. Only the first entry of the table is
  the same for both; `AtaPio!Table` says what `fs.c` makes of the second.
* **Calls nobody refuses.** Where the code takes a call that breaks its own
  structures - releasing a task in use, arming an armed timer, giving one timer to
  two tasks, putting a layer below a shown one - the model makes the step the code
  makes and goes on from what it leaves behind: a list that runs into itself, a loop
  with interrupts off that never ends, a far jump to a busy TSS. A history
  (`misfreed`, `misused`) records that it happened. The properties of these modules
  say what holds until then, by name. The exceptions are needed: without them TLC finds
  `ListInv`, `StatusMatchesQueue`, `NoTaskOnFreedStack`, `ImplementsRoundRobin`,
  `ListHoldsArmedTimers`, `SwitchTimerStaysArmed` and `FiresOnTime` violated by the
  steps the code makes; the other properties have the exception because the list or the
  screen they speak of is no longer one. In today's kernel
  `task_free`, `k_timer_free` and the calls of layers have no caller, and only the
  boot allocates a timer.
* **Missing memory.** In `Kernel`, `KTimer`, `Scheduler` and `Fat16` every
  allocation may fail.
* **History variables** (`order`, `live`, `stale`, `left`, `wrapped`, `lost`,
  `dropped`, `failed`, `row`, `misfreed`, `misused`) record what a property speaks of.
  No guard reads them, but for `live` in `KHeap`, where it says which block a caller
  may free: its own, and for the bounds that end a behaviour some steps after a
  misuse (`MaxIdMisfreed`, `MaxTickMisused`, `MaxMisused`). `accepted` and `deaf` of
  `Interrupts` are of this kind too.
* A definition headed **Deviation of** ... is a plausible mistake in the code. It
  is used by no specification; put in the place of the operator it deviates from,
  it makes the run find the property named in `PROJECT.json` violated. There is
  one for each property of each passing run.

## 3. The runs

Each module `MCx.tla` instantiates its component and `MCx.cfg` gives the
constants. All passing runs are exhaustive, and between them they take every
action.

| Run | Distinct states | Instance |
|---|---|---|
| `scheduler` | 196 506 | 5 slots, 11 task identifiers (9 once a task was misfreed), a GDT of full size |
| `heap` | 467 390 | 5 pages of 2 bytes, requests of 1, 4 and 9 bytes, two tasks in `k_free` |
| `timer` | 1 834 681 | 3 timers, two tasks, a counter that wraps at 6, delays 0 and 3, quantum 2; a misused timer is followed to tick 1 |
| `timer_fires` | 276 312 | the same with one task; a misused timer is followed to tick 2 |
| `events` | 28 448 | a ring of 4 entries with 3 nodes; the user program, two tasks, 4 nodes, queues of 2 |
| `interrupts` | 29 184 | two tasks, two scan codes |
| `console` | 655 420 | two tasks, 3 columns, 3 lines, messages of any length; 3 layers, 2 places, 3 calls from the first that parts stack and heights |
| `kstring` | 6 628 | formats of at most 4 characters, ints of 8 bits |
| `boot` | 170 622 | a floppy of 2 heads and 3 sectors to a track, 3 clusters, an eighth of the page tables |
| `storage` | 220 253 | 20 machines of two disk positions, sectors of 4 words, registers of 2 bits |

What each one shows, and why the instance is large enough:

**scheduler.** While `task_free` is not asked for a task in use, and gives no stack
back twice, the pointers always hold exactly the waiting tasks, in order; the
state of a task agrees with its place; no task that could run has a kernel stack
that was freed, although `task_free` keeps the pointer; and the whole is a
refinement of `RoundRobin`, fairness included, so that every waiting task gets the
processor. `ProcessorRunsCurrent` and `UserMemoryOfCurrent` say that the processor
follows: the task register selects the TSS of `g_current_task`, by the address that
the bytes of its descriptor make up, no other TSS is busy, and both segments of the
LDT are the megabyte of the task, with its program in it. Since `SwitchTo` waits for
a TSS that is not busy, a jump the processor would refuse would stop the scheduler
and violate the fairness of `RoundRobin`.

`task_free` itself looks at the pid alone. The model lets it release every task: one
that waits or runs, which stays where it was in the queue, and one that was allocated
and not initialised, whose slot still points to the stack of the task before; such a
stack may meanwhile be any other task's. All of these are in the run, and the
histories that tie pointers and promise end there (`misfreed`).

Five slots allow the idle task, the
running one, and three that wait, so that the list has a middle. `MaxId` bounds the
task identifiers, which only grow; each task takes two, and 11 leave room for a slot
to be freed and used again; `MaxIdMisfreed` is the bound behind a misuse. The process
table is placed across a 64 KB boundary, so
that addresses differ in all fields of a descriptor. It lies below 80000000h, which
is the largest address TLC can count to; the theorems cover all 32 bits.

**heap.** From every initial bitmap, the search of `k_malloc` gives up only when
nothing fits below the last page (it never looks at a run that ends there, and the
definition says so), the block it returns holds the request with its header, and it
ends; with its marking it is one step of `KHeap` (`ImplementsHeap`), which includes
that the block is the first fit. Interrupted frees and allocations never give a page
to two owners, never unmark a page that is owned, and never change the length of a
live block. The requests need one page, three pages, and more than there are; two
frees overlap with each other and with allocations.

**timer**, **timer_fires.** Whatever ticks and tasks do in the middle of `k_timer_alloc`
and `k_set_timer_time`, and wherever memory runs out in the handler, the list is exactly
the armed timers and the switch timer is on it. Until the counter overflows timers fire
neither early nor late, and every armed timer fires, overflow or not, unless memory is
short for ever. Two tasks in `k_timer_alloc` can be given the same timer, and nothing
keeps a task from arming or freeing a timer that is armed; the runs take these
steps too, and the lists and endless loops they lead to, and the properties hold up to
the first of them (`misused`). The counter wraps after a few turns of the
scheduler. Delay 0 is already expired when it is inserted; delay 3 outlives a
quantum. The liveness property has a run of its own with one task, since TLC allows it
no symmetry; the second task matters for `k_timer_alloc` only.

**events.** The flag `full` is set only where the indices meet, and the ring
implements `Fifo`. Four entries let both indices wrap while the ring is neither
empty nor full. In the running kernel, whose queues are those of `Fifo`, every allocated node is in one queue, in one hand, or leaked by a full
queue; nobody sleeps on an event; and the system refines `EventDelivery`: events
accepted for a task that runs `task_main` are handled, in order. Queues of two fill, so
that events are dropped, and four nodes run out. The default task, which becomes the
user program, never empties its queue; the abstract `Server` set excludes it, so the
promise made to it is only that its events stay in order.

**interrupts.** From power-on to two running tasks, with a key pressed at any time,
also before the controllers are set up, and a tick that may switch tasks in the
middle of its handler. While interrupts are on nothing is in service, so that no
handler leaves the others locked out; that covers the serial handler, which
acknowledges nothing, because its interrupt cannot come. The keyboard controller
gets its commands once each and in order, although it may be slow. Every byte of the
keyboard becomes the event of its character or is given up for want of memory, and
ticks keep coming although the mouse handler waits for the serial port. A byte that
waits while the controller is reset (`kernel_inits.c:91`) is the exception the
property names: its edge is forgotten and the keyboard stays silent from then on. The
two scan codes are a key of the table and a code behind its end. The disk's
interrupt may be raised at any time; its mask keeps it away.

**console.** A task prints its message with `k_printf` (`tasks.c:86`) and the characters
of its keys with interrupts on, and is cut at any access to the cursor; the handler of
the timer and the scheduler print inside the interrupt. However these writers cut
into each other, the cursor is past an end of the screen only where the running task is
about to notice, and no character goes further than one line below the screen. The
messages `kernel_main` prints before the first `sti` are the state it begins in. The
screen is small enough for every character to be near an edge. In
graphics mode, which the running kernel does not use, every sequence of calls leaves
on the screen the highest layer at each place, until a layer is put in below a shown
one, which leaves numbers in the stack (`gui.c:127-131`), or a shown one is raised
above the top, which takes in the entry behind the end (`gui.c:95,119-124`). The
model makes these two calls as the code does and goes on for `MaxMisused` calls.
Three layers are the least for one to be moved past another over the background, and
two places let them overlap or not.

**kstring.** For every format of up to four characters out of the three
conversions, `%` and one other, and arguments of both signs and both ends of the
range: the text is the one the format describes, its length is returned, and no
character behind its end is ever touched, although strings are appended by way of
`k_strcat` to memory that was never cleared. Four characters hold two conversions,
an escaped `%` in front of one, a `%` at the very end, and an unknown conversion.
Eight bits are enough for three digits and a sign, and for the int that has no
negation (which `FormatsAsSpecified` excepts and `WritesOnlyItsText` does not).

**boot.** With every pattern of read failures and every allocation table whose
chains end: the second stage is complete, the stack is balanced, the kernel is in
order, the windows of `design.adoc:24-25` are mapped, and the boot ends. The
kernel load crosses a segment; the page tables overlap exactly as in the code,
since all counts were divided by eight. `BootEnds` promises the kernel only if no
read of the second stage failed: see the first finding.

**storage.** A drive that is never busy and can read the sectors asked for delivers
them; the kernel mounts the first drive found if that has a FAT16 partition, or stops;
`read_file` never writes behind the caller's buffer; a file within a cluster is read
whole. That a second drive is never mounted, although the loop is meant to, follows from
the two layouts of the table: `fs.c` finds its entry one byte off, with a port that is no
drive's, and panics for want of a signature. The same happens behind a lone drive whose
identify data spill over into the next entry.

The machines have a disk without a boot record, a Linux partition alone and in front of
a FAT16 disk, empty, tiny and full partitions, a partition shorter than its volume, one
that reaches beyond the end of the drive, sector numbers that need all registers, a
count that is sent as 0, a slow drive, drives that fail at the second sector of the
directory or of a cluster, volumes whose sectors are none, half and twice the
drive's, and data outside the tables that looks like a partition, a volume or the
number of a cluster. What the code finds in a buffer is tied to the words that were
read into it: an entry of the directory that did not arrive, or not at the place where
the code looks, may show it anything.

`SmallFilesRead` names what it excepts: an exhausted heap, a name like that of a file in
front of it, and volumes the code cannot read - those with other sectors than the
drive's, without a table, or with a directory or file that reaches the last sector of
the partition, where `partition_read` panics (`fs.c:137`), or that the drive cannot give.

### Runs that end in a violation

These check one sentence of the repository that the code does not keep.

* `boot_returns`: "On success, return to caller." (`ntmio.sys.nas:344`). Each try
  pushes dx (`ntmio.sys.nas:302`), but the failure path does not pop it. After one
  failed try the success path pops the wrong words and `ret` leaves for an address
  that is not one.
* `storage_table`: "We currently assume that FAT 1 table is always correct"
  (`fs.c:327`). `get_location_of_n_fat_copy` (`fs.c:171`) has no return statement,
  and the sum it computes starts from the wrong region. The compiled code takes the
  boot sector for the table.

Other disagreements met while reading, with no run of their own:

* The comment at `kernel_bootstrap.nas:57` speaks of 256 MB of identity mapping; the
  table of the last 4 MB lies where the kernel's first table is filled later
  (`kernel_bootstrap.nas:22`). The authors know (`kernel.c:25`), and the 128 MB the
  design document promises are not affected: `PagingAsDesigned` holds.
* `bootloader.nas:129` says "retry four times total"; the code makes three tries.
* `fs.c:72`: without a volume, `init_root_filesystem` does not return -1, as
  `kernel.c:71` expects, but looks for a file and panics or divides by zero. The
  model follows the code (`Fat16!TryDisk`).
* `harddisk.c:42` says of BSY "wait for it to clear"; the loops that should
  (`harddisk.c:155-157`) test the error bit, and nothing. Words are taken from a drive that
  is busy, or has failed after its first sector. `ReadDelivers` says what a drive must
  be like for the right words to arrive; `BufferNotOverrun` and the rest of the run hold
  with the other drives as well.
* The number of sectors is taken from byte 60 of the identify data, not word 60.
* `kernel_types.h:5` packs what follows it and is not undone, so that `hdd_device_t` has
  279 bytes in `harddisk.c` and 280 in `fs.c`; and 256 words of identify data are
  stored in a field of 256 bytes (`harddisk.c:119`, `harddisk.h:15`). See storage above.
* `fs.c:202` allocates sectors of the volume's size and reads sectors of the drive's.
* `fs.c:137` refuses the last sector of a partition.
* `fat16_filename_cmp` compares only as far as the shorter name, so that a
  file is found under the name of a longer or shorter one. `SmallFilesRead` says so.
* `design.adoc` describes an array that records which 1 MB slots are in use; the
  slot returned by `proc_umem_alloc` is never marked. Nothing calls it: a task's
  memory is that of its slot in the process table.
* `gui.c:129` stores a height where a pointer belongs, and a layer raised above the
  top takes in the entry behind the end of the stack (`Layers!Misuse`).
* `k_timer.c:8-9` checks the flags of a timer and sets them with interrupts on
  (`KTimer!AllocTest`); `k_timer.c:28` arms what is armed. `tasks.c:192` releases
  what runs.
* `kstring.c:179`: `k_itoa` of the least int reads in front of its table of digits.
* `task_init` leaves a selector in `esp0` (`tasks.c:250`), where the address of a
  stack belongs; no task it initialises leaves the kernel.

## 4. Fairness

| Module | Assumption | Why the code and the machine justify it |
|---|---|---|
| `Scheduler` | WF of `SwitchTask` | the interval timer keeps ticking and every task lets interrupts in |
| `Processes` | WF of `PSwitchTask` and `KernExec` | as above; the boot comes to its end |
| `KHeapCode` | WF of the steps of `k_malloc` | a loop runs on, with interrupts off |
| `KTimer` | WF of `Tick` | as above; that memory is not short for ever is a premise of the property, not of the specification |
| `Kernel` | WF of `KernExec` | the boot goes on, nothing can stop it |
| `Kernel` | SF of `SwitchTask` | a task disables interrupts again and again, but a tick that comes meanwhile stays pending in the controller and is taken at the next `sti` |
| `Kernel` | SF of `TaskMain(t)` | a task has the processor again and again, for a quantum of 1000 ticks, in which it makes progress |
| `Interrupts` | WF of `Execute`, `Sti`, `TakeByte`, `SerialSent` and `Tick` | the processor and the devices go on; tasks turn interrupts on again |
| `Interrupts` | SF of `Interrupt(0)`, `(1)` and `(2)` | a request is kept until it is taken, and between two ticks lie 10 ms, in which the short handlers of higher priority are through |
| `Boot` | WF of `Next` | the processor goes on |
| `EventDelivery` | WF of `Handle(t)` | abstract promise; implied by the fairness of `Kernel` |

`EventQueue`, `KHeap`, `Gui`, `KString`, `AtaPio` and `Fat16` state safety only.

## 5. What is proved

TLAPS proves the following for every value of the constants that satisfies the
named assumptions of the modules:

* sizes are naturals, not zero where the code has an array; `Nil` is no slot;
* no request of memory is so large that adding the header wraps; delays are below
  the period of the tick counter;
* the descriptors of all tasks fit into the GDT, and the process table into 32 bits
  (`TablesAssumption`); `start_task` puts a task into the queue once;
* numbers of clusters stay below 4080, where the 12-bit marks begin, and the kernel
  is loaded behind the table and the directory (`LoadAssumption`); the two regions of
  page tables may overlap, but not over the tables of the first 128 MB
  (`PagesAssumption`);
* a stack of window layers has room for two, and no height is `None`
  (`LayersAssumption`);
* a drive has at most as many sectors as 28 bits can name, and what is on it is what its
  fields can hold (`AtaAssumption`, `SizesAssumption`, `DrivesAssumption`): numbers
  are not negative, a directory has as many entries as the volume says, and a name
  at most `MaxName` letters. Everything else is arbitrary: where partitions begin
  and end, the size of sectors, clusters, tables and directories, the chains, the
  sectors that cannot be read, and what is outside the tables;
* an int has an even number of values, not none (`WordAssumption`), and the strings
  and formats handed to `k_sprintf` are C strings: no character of them is 0, and the
  numbers are ints (`CallsAssumption`).

| Module | Theorem | Property |
|---|---|---|
| `ProcessesProofs` | `SchedulerTypeOK` | `TypeOK` |
| | `ReadyQueueIsList` | `ListInv` |
| | `CurrentNeverWaits` | the running task is not in the queue |
| | `StatusAgreesWithQueue` | `StatusMatchesQueue` |
| | `PidsAreUnique` | identifiers identify |
| | `StacksAreLive` | `NoTaskOnFreedStack` |
| | `SchedulerIsRoundRobin` | `RoundRobin!Steps`, the refinement without its fairness |
| | `ProcessorFollowsScheduler` | `ProcessorRunsCurrent` |
| | `CurrentHasItsMemory` | `UserMemoryOfCurrent` |
| | `FarJumpIsAccepted` | the far jump of a switch never meets a busy TSS |
| `KHeapProofs` | `HeapBlocksDisjoint`, `HeapMarkedExactly`, `HeapHeadersIntact`, `HeapBlocksStable` | the safety properties of `KHeap` |
| | `HeapCodeImplementsHeap` | `ImplementsHeap`: the loops implement `KHeap`, so that what is proved of it holds of the code |
| | `ScanReturnsFirstFit`, `ScanNullMeansNoRoom`, `ScanBlockHoldsRequest` | what the search returns |
| `KTimerProofs` | `KTimerListHoldsArmed` | `ListHoldsArmedTimers` |
| | `KTimerSwitchStaysArmed` | `SwitchTimerStaysArmed` |
| | `KTimerFiresOnTime` | the action property `FiresOnTime` |
| `KernelProofs` | `KernelNodesAccounted`, `KernelNoLostWakeup` | `NodesAccounted`, `NoLostWakeup` |
| | `KernelDeliversEvents` | `EventDelivery!Steps`, the refinement without its fairness |
| | `EventQueueTypeOK` | of the ring (`EventQueue`): the type invariant and the meaning of the flag `full` |
| | `EventQueueImplementsFifo` | `ImplementsFifo`: the ring of any size implements `Fifo` |
| `InterruptsProofs` | `InterruptsAreAcknowledged` | `InterruptsAcknowledged`, for any number of tasks |
| | `KeyboardCommandsArrive` | `CommandsArrive` |
| `BootProofs` | `BootSecondStageLoaded`, `BootStackBalanced` | the boot sector, for every disk geometry |
| | `BootKernelInOrder` | `KernelInOrder`, for every chain and any number of segments |
| | `BootPagingAsDesigned` | `PagingAsDesigned` |
| `Fat16Proofs` | `SectorsDelivered` | `ReadDelivers`, for every width of the registers and every pattern of bad sectors |
| | `RootIsFirstFat16` | `KernelHasRoot` |
| | `ReadFitsBuffer`, `SmallFilesAreRead` | `BufferNotOverrun`, `SmallFilesRead` |
| `DisplayProofs` | `SprintfFormatsAsSpecified` | `FormatsAsSpecified`, for every format, all arguments and every width of an int |
| | `SprintfWritesOnlyItsText` | `WritesOnlyItsText`, also for the least int |
| | `ConsoleCursorOnScreen`, `ConsoleWritesNearScreen` | the properties of run `console` in text mode |
| | `HighestLayerIsSeen` | `ScreenShowsTop`, its property in graphics mode |

Each module proves an inductive invariant first, one step per action, and derives
the properties from it. The invariant stands at the head of the proofs that use it
(`IInv`; `PInv` of `Processes`, `ScanInv` of `KHeapScan`, `GuiIInv` of `Gui`,
`SprintfInv` of `KString`), or, where the module is used through INSTANCE, in the
module itself (`Boot` and its stages, `KHeap`, `RingInv` of `EventQueue`, `LayersInv`
of `Layers`). Where a list, a chain or a search loop would call for induction, the
proofs take the least number that is an exception instead, which `LeastNumber`
derives from the well-foundedness of the naturals.

Every safety property that a passing run checks is stated by one of these theorems.

* **EventQueue** (the last part of `KernelProofs`). `FullMeansMet` alone is not
  inductive as a description of the contents: the invariant adds that the entries
  between head and tail are nodes.
  The refinement then shows, case by case for a wrapped and an unwrapped ring, what
  enqueue and dequeue do to `Contents`.
* **Misuse.** The invariants of `Scheduler`, `Processes`, `KTimer` and `Layers` say
  "misfreed (misused), or everything is kept"; what was misused stays so, and every
  other step starts where everything is kept.
* **Scheduler.** `ListInv` is preserved only because the current task and the idle
  task are not in the queue, because nobody waits before there is a current task,
  and because READY and RUNNING say where a task is: without the last,
  `start_task` could link a task twice. Lemmas say what `PutLast`, `PickFirst` and
  `ClearNext` do to a list. A second invariant about identifiers and a third about
  stacks rest on the first: a stack that was given back is that of a slot no task has
  been initialised in since, so that releasing a task not in use touches no other's.
* **Processes.** Every step is a step of `Scheduler` or leaves it alone, so that its
  invariant carries over. `PInv` adds that the registers follow `g_current_task` from
  the moment they are loaded and that whatever may become the current task has a
  program. What the registers select is then a matter of descriptors: three lemmas
  show that the bytes of a base and a limit make up the number again.
* **KHeap.** Disjointness of live blocks needs disjointness from what `k_free` is
  still going to clear; that needs the length word to be intact; and that needs the
  marks to be exact, so that `k_malloc` never chooses a page somebody owns. The
  pages marked before the first call are a conjunct of their own (`StaleUntouched`).
* **KHeapScan.** Nothing below `i` fits, and the pages seen since the run at `i`
  was begun are free; a marked page at `i + j` rules out every start up to it. The
  bitmap stands still while the search runs, and no search runs while it changes;
  the step that marks the pages is then `KHeap!Malloc`, and every other a stutter.
* **KTimer.** There is a sequence of timers, none twice, along which the pointers
  run, and they are the armed ones that no call is still about to insert; while nothing
  has wrapped their deadlines ascend. The place where `SetInsert` stops is the least one whose successor is
  due later; the timers a tick takes off are a prefix, as long as the least place that
  is not due or finds no memory. That `Chain` ends after at most T steps
  is a pigeonhole: the sequence names no timer twice. A timer in the hands of two
  tasks is misused by the second one's load or store, so that until then each call has
  a timer of its own.
* **Kernel.** A node is allocated if it is in one queue, in one hand, or
  was dropped; that a hand holds a node exactly in the places between
  `dequeue_event_queue` and `k_free` is what keeps the sum right, and that
  a queue seen empty stays empty until `hlt` is over gives `NoLostWakeup`. Every step
  is then one of `EventDelivery` on `Inbox`, the queue with the node in the hand
  in front.
* **Interrupts.** What is left to do says where the processor is, and the place says
  what the devices hold: in operation k of `kernel_main` the controllers have been
  told so many of their initialisation words and the keyboard controller has been
  sent so many commands, of which only the last may still wait; before operation
  k of a handler its interrupt is in service in the master, in the slave, or in
  neither any more. A task that was switched out is in the handler of the timer
  behind its end of interrupt, which is why the task that comes finds the
  controllers idle. The masks matter: after the boot only the levels 0, 1 and 2 of the
  master and 4 of the slave get through, so that only three handlers are
  ever entered by a device. Nothing in this depends on how many tasks there are.
* **Boot.** Each stage has an invariant of its own (`BootSector`, `Ntmio`, `PageTables`)
  and leaves what the others speak of alone. In `Ntmio` the place in the memory is a
  function of how many sectors are loaded, across segments, and the cluster at hand
  is that many steps down the chain; lemmas show that the three nibbles of an
  entry are put together again, for odd and even clusters. The unbalanced stack
  of the first finding needs a conjunct: after a failed read the word that `ret` takes
  is no address of the loader, so that nothing is loaded afterwards.
* **Fat16 and AtaPio.** What the registers hold makes up the sector number
  modulo their width, and a count of 256 is sent as 0; a drive that can give what was
  asked is as many words ahead as the loops have read, and never raises its error bit,
  so that a read that has ended is intact. From there the invariant follows what is known
  of the root: that it is the first entry of the table, and that partition and volume are
  the disk's if the drive could give them. The directory read whole is `Held` entry by
  entry, each word at its place: divisions by the words of a sector take most of the
  lemmas. The partition and the file are the first of their lists that match: a least
  number each. `FileInv` follows a file of one cluster through the places of
  `read_file`, and `CallInv` says that what is still to be copied has room behind what
  was.
* **Layers.** As long as nothing is misused, the stack and the heights are inverse to
  each other, and painting the screen again would change nothing. Moving a layer
  shifts those between its old and its new height by one; that a shown layer always
  finds a place is a pigeonhole. The highest layer at a place is the greatest index, by the least
  distance from the top.
* **KString.** After p characters of the format, what has been written is the text
  of these p positions and the memory behind its end is as it was, but for the
  terminator. For that `Begins` must say where a conversion begins: a percent sign
  that ends one does not begin the next, so that it is the parity of the run of percent
  signs in front of it that counts, and `Taking` how many arguments have been used. The
  loops of the code are recursive functions; `Recursion` shows that such a function
  exists, by the least number to which it does not reach, and what the loops
  compute follows from closed forms: `k_itoa` takes as many digits as its number
  has, which are those of the numeral, the last one first, and `k_memrev` turns
  them round, pair by pair. `WritesOnlyItsText` does not except the least int, whose
  digits are others, but no more.
* **Console.** A register a task loaded before it was switched out holds a line of
  the screen, and the cursor is never past both ends at once; the two together make
  `CursorOnScreen` inductive.

Temporal steps use PTL on top of the invariants' non-temporal steps.

## 6. What is only model-checked

* Liveness and fairness: the fairness half of `ImplementsRoundRobin`, `Terminates`,
  `ArmedTimerFires`, `BootEnds`, `KeyBecomesEvent`, `TicksKeepComing` and
  `ImplementsEventDelivery`. The prover handles neither ENABLED nor fairness.
* The sentences of section 3 that the code does not keep: a counterexample is TLC's.

## 7. What is not modelled

* **Physical pages and user slots**: `palloc`, `pfree`, `proc_umem_alloc` and
  `proc_umem_free` have no caller, and the page bitmap is never read.
* **The rest of the string library**: copies, comparisons and searches of one loop
  each; the FAT file system compares names with a function of its own, which is
  modelled there.
* **Drawing**: glyphs, boxes, the mouse pointer, the palette and the fonts are pixels
  and port output.
* **`initial_gdt`, `uninstall_gdt_entry`, `initial_global_page_table`**: two constants,
  a function without a caller, and one whose call is commented out.
* **Saving of registers** by the interrupt stubs, and the general registers in a TSS.
* **`kern_fork`**: nothing calls it. The empty `ata_pio_lba_write` and
  `partition_write`: nothing happens in them.
* **The A20 gate, the temporary GDT, the move to the upper half**: register
  programming between two stages of the boot.
* **Synchronisation, terminals, files, the user program, build scripts**:
  declarations, empty files, an endless loop, disk images.
* In the file system the heap may fail at any time but its use is not counted, so
  that the leak in `get_next_cluster` (`fs.c:331`) is listed as a hazard only.

## 8. Plan

Done, in the order of importance: the structures everything rests on (`EventQueue`,
`Scheduler`, the heap, with proofs), then the concurrency around them (`KTimer`,
`Kernel`), the boot, the console, and storage; then the hardware side of the same
code (`Processes`, `Interrupts`), the layers, and the string conversions.

Proved, in the same order: what section 5 lists, down to the window layers, the
file system and the interrupts.

What would extend it: `Kernel` with `k_free` cut page by page, and timers other than
the switch timer.

What a prover with ENABLED and fairness would add: the liveness properties of
section 6, from the invariants and the step theorems that are there.
