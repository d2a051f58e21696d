----------------------------- MODULE Interrupts -----------------------------
(***************************************************************************)
(* The way of an interrupt from the device to its handler: the two 8259A   *)
(* interrupt controllers, the 8042 keyboard controller and the serial port *)
(* with the registers the kernel uses, the gates of the IDT, the interrupt *)
(* flag, and the code that talks to them.                                  *)
(*                                                                         *)
(* Code is data here: a routine is the sequence of its operations on the   *)
(* hardware, and todo is what is left of the routines the processor is in, *)
(* the innermost first.  kernel_main runs first, with interrupts off; then *)
(* tasks run, which turn interrupts off and on, call the kernel, and are   *)
(* switched inside the handler of the timer.                               *)
(***************************************************************************)
EXTENDS Integers, Sequences, FiniteSets

CONSTANTS
  Task,      \* the tasks that exist when kern_exec is called
  ScanCode   \* what the keyboard may send

ASSUME ScanCodeAssumption == ScanCode \subseteq 0 .. 255

VARIABLES
  todo,      \* operations still to be done; <<>> in the code of a task
  iflag,     \* IF, the interrupt flag
  task,      \* g_current_task
  frozen,    \* [Task -> Seq(operation)]: todo of the tasks that do not run
  idt,       \* vector -> gate type, for the gates that are present
  pic,       \* the interrupt controllers: 0 is the master, 1 the slave
  kbc,       \* the keyboard controller
  uart,      \* COM1
  al,        \* the byte a handler has read
  event,     \* the event the handler has enqueued, or Nothing
  accepted,  \* history: what the keyboard controller was told
  deaf       \* history: a byte was waiting when the master was reset

hardware == <<pic, kbc, uart>>
software == <<task, frozen, idt, al, event>>
vars == <<todo, iflag, software, hardware, accepted, deaf>>

Nothing == <<>>
Bits(value) == {i \in 0 .. 7 : (value \div 2^i) % 2 = 1}

-----------------------------------------------------------------------------
(* Routines.                                                               *)

PIC0_OCW2 == \h20
PIC0_IMR == \h21
PIC1_OCW2 == \hA0
PIC1_IMR == \hA1
PORT_KB_DATA == \h60
PORT_KB_CMD == \h64

Out(port, value) == <<"_io_out8", port, value>>
WaitKeyboard == <<"wait_keyboard_send_ready">>
Iret(vector) == <<"iret", vector>>

\* The vectors of the slave: the eight behind those of the master.
PIC1_BASE == \h28

\* Masks, then ICW1 to ICW4 of each controller, then masks again.
initial_pic == <<
  Out(PIC0_IMR, \hFF), Out(PIC1_IMR, \hFF),
  Out(PIC0_OCW2, \h11), Out(PIC0_IMR, \h20), Out(PIC0_IMR, 4), Out(PIC0_IMR, 1),
  Out(PIC1_OCW2, \h11), Out(PIC1_IMR, PIC1_BASE), Out(PIC1_IMR, 2), Out(PIC1_IMR, 1),
  Out(PIC0_IMR, \hFB), Out(PIC1_IMR, \hFF)>>

initial_keyboard == <<
  Out(PIC0_IMR, \hF9), Out(PIC1_IMR, \hEF),
  WaitKeyboard, Out(PORT_KB_CMD, \h60), WaitKeyboard, Out(PORT_KB_DATA, \h47)>>

\* Deviation of initial_mouse: the command is sent without waiting.
initial_mouse_no_wait ==
  <<Out(PORT_KB_CMD, \hD4), WaitKeyboard, Out(PORT_KB_DATA, \hF4)>>

initial_mouse ==
  <<WaitKeyboard, Out(PORT_KB_CMD, \hD4), WaitKeyboard, Out(PORT_KB_DATA, \hF4)>>

\* Everything kernel_main does to this hardware, up to the first task.
kernel_main ==
  <<<<"initial_idt">>>> \o initial_pic \o initial_keyboard
  \o <<Out(PIC0_IMR, \hF8), <<"initial_serial">>>> \o initial_mouse
  \o <<Out(PIC1_IMR, \hEF), <<"kern_exec">>>>

\* Deviation of int20h: the interrupt is acknowledged after the switch.
int20h_eoi_late == <<<<"timers">>, Out(PIC0_OCW2, \h60), Iret(\h20)>>

\* The timers, and with them the switch of tasks, come after the end of
\* interrupt: the next task may not be inside this handler.
int20h == <<Out(PIC0_OCW2, \h60), <<"timers">>, Iret(\h20)>>

\* Deviation of int21h: memory is asked for before the byte is read.
int21h_reads_late == <<Out(PIC0_OCW2, \h61), <<"k_malloc">>, <<"_io_in8">>,
  <<"enqueue_event_queue", "KEYBOARD_EVENT">>, Iret(\h21)>>

int21h == <<Out(PIC0_OCW2, \h61), <<"_io_in8">>, <<"k_malloc">>,
  <<"enqueue_event_queue", "KEYBOARD_EVENT">>, Iret(\h21)>>

\* Deviation of MouseEoi: only the slave is told.
MouseEoiSlaveOnly == <<Out(PIC1_OCW2, \h64)>>

MouseEoi == <<Out(PIC1_OCW2, \h64), Out(PIC0_OCW2, \h62)>>

int2ch == MouseEoi \o <<<<"_io_in8">>, <<"k_malloc">>,
  <<"enqueue_event_queue", "MOUSE_EVENT">>, <<"write_serial">>, Iret(\h2C)>>

int24h == <<Iret(\h24)>>
int27h == <<Out(PIC0_OCW2, \h67), Iret(\h27)>>
int80h == <<Iret(\h80)>>

\* The gates initial_idt sets.
Gates == [v \in {\h20, \h21, \h24, \h27, \h2C, \h80} |->
            IF v = \h80 THEN "IDT_TRAP_GATE" ELSE "IDT_INTERRUPT_GATE"]

Handler(v) == CASE v = \h20 -> int20h [] v = \h21 -> int21h [] v = \h24 -> int24h
                [] v = \h27 -> int27h [] v = \h2C -> int2ch [] v = \h80 -> int80h

\* g_keyboard_scancode_set_1: 'A', 65, is the one character the kernel looks at,
\* and 46 stands for every other; some keys have none.  A key that goes up has
\* the character of the key that goes down.
NoCharacter == {0, \h1C, \h1D, \h2A, \h36, \h38} \cup (\h3A .. \h46) \cup (\h54 .. \h7F)
KeyDown == [code \in 0 .. 127 |->
  [keychar |-> CASE code = \h1E -> 65 [] code \in NoCharacter -> 0 [] OTHER -> 46,
   keypress |-> "KEY_DOWN"]]
KeyUp == [code \in 128 .. \hD8 |->
  [keychar |-> KeyDown[code - 128].keychar, keypress |-> "KEY_UP"]]

\* The character of a keyboard event: codes behind the table stand for themselves.
Character(data) ==
  CASE data < 128 -> KeyDown[data].keychar
    [] data \in 128 .. \hD8 -> KeyUp[data].keychar
    [] OTHER -> data

-----------------------------------------------------------------------------
(* The controllers.                                                        *)

\* Levels a controller asks for: raised, not masked, and above everything it
\* has in service.  The slave asks through level 2 of the master.
Requests(c, irr) ==
  {l \in irr \ pic[c].imr : \A s \in pic[c].isr : l < s}
SlaveRequests == Requests(1, pic[1].irr)
MasterRequests ==
  Requests(0, pic[0].irr \cup (IF SlaveRequests = {} THEN {} ELSE {2}))

First(levels) == CHOOSE l \in levels : \A k \in levels : l <= k

\* The vector the processor gets when it acknowledges.
Vector ==
  IF First(MasterRequests) = 2 THEN pic[1].base + First(SlaveRequests)
  ELSE pic[0].base + First(MasterRequests)

Raise(p, c, level) == [p EXCEPT ![c].irr = @ \cup {level}]
Acknowledge(p, c, level) ==
  [p EXCEPT ![c].irr = @ \ {level}, ![c].isr = @ \cup {level}]

\* A byte for the command port: ICW1, which forgets every edge seen so far, or
\* the end of the interrupt of one level.
Command(p, c, value) ==
  IF value = \h11
  THEN [p EXCEPT ![c] = [irr |-> {}, isr |-> {}, imr |-> {}, icw |-> 2, base |-> @.base]]
  ELSE [p EXCEPT ![c].isr = @ \ {value - \h60}]

\* A byte for the other port: what is left of ICW2 to ICW4, or the mask.
Data(p, c, value) ==
  CASE p[c].icw = 2 -> [p EXCEPT ![c].icw = 3, ![c].base = value]
    [] p[c].icw = 3 -> [p EXCEPT ![c].icw = 4]
    [] p[c].icw = 4 -> [p EXCEPT ![c].icw = 0]
    [] OTHER -> [p EXCEPT ![c].imr = Bits(value)]

Init ==
  /\ todo = kernel_main /\ iflag = FALSE
  /\ task \in Task /\ frozen = [t \in Task |-> <<>>]
  /\ idt = <<>>
  /\ pic \in {[c \in {0, 1} |-> [irr |-> IF c = 0 THEN irr ELSE {}, isr |-> {},
                 imr |-> {}, icw |-> 0, base |-> IF c = 0 THEN 8 ELSE \h70]]
               : irr \in SUBSET {0}}
  /\ kbc = [in |-> Nothing, out |-> Nothing, expects |-> 0, config |-> {0}, reporting |-> FALSE]
  /\ uart \in [busy : BOOLEAN, interrupts : BOOLEAN]
  /\ al = 0 /\ event = Nothing
  /\ accepted = <<>> /\ deaf = FALSE

-----------------------------------------------------------------------------
(* The processor in a routine.                                             *)

Now(name) == todo # <<>> /\ todo[1][1] = name
Next1 == todo' = Tail(todo)

OutPic ==
  /\ Now("_io_out8") /\ Next1
  /\ \E c \in {0, 1} :
       \/ /\ todo[1][2] = (IF c = 0 THEN PIC0_OCW2 ELSE PIC1_OCW2)
          /\ pic' = Command(pic, c, todo[1][3])
          /\ deaf' = (deaf \/ (c = 0 /\ todo[1][3] = \h11 /\ kbc.out # Nothing))
       \/ /\ todo[1][2] = (IF c = 0 THEN PIC0_IMR ELSE PIC1_IMR)
          /\ pic' = Data(pic, c, todo[1][3])
          /\ deaf' = deaf
  /\ UNCHANGED <<iflag, software, kbc, uart, accepted>>

\* What is written while the last byte has not been taken replaces it.
OutKeyboard ==
  /\ Now("_io_out8") /\ Next1
  /\ todo[1][2] \in {PORT_KB_CMD, PORT_KB_DATA}
  /\ kbc' = [kbc EXCEPT !.in = <<todo[1][2], todo[1][3]>>]
  /\ UNCHANGED <<iflag, software, pic, uart, accepted, deaf>>

\* The loop of wait_keyboard_send_ready ends when the controller has taken
\* the byte.
WaitKeyboardSendReady ==
  /\ Now("wait_keyboard_send_ready") /\ Next1
  /\ kbc.in = Nothing
  /\ UNCHANGED <<iflag, software, hardware, accepted, deaf>>

InitialIdt ==
  /\ Now("initial_idt") /\ Next1
  /\ idt' = Gates
  /\ UNCHANGED <<iflag, task, frozen, al, event, hardware, accepted, deaf>>

\* Interrupts of the port off; a byte goes out to test the loopback.
InitialSerial ==
  /\ Now("initial_serial") /\ Next1
  /\ uart' = [busy |-> TRUE, interrupts |-> FALSE]
  /\ UNCHANGED <<iflag, software, pic, kbc, accepted, deaf>>

\* The default task becomes a user program: interrupts are on.
KernExec ==
  /\ Now("kern_exec") /\ Next1
  /\ iflag' = TRUE
  /\ UNCHANGED <<software, hardware, accepted, deaf>>

\* _io_in8(0x60): the controller's buffer is free again.
ReadByte ==
  /\ Now("_io_in8") /\ Next1
  /\ al' = IF kbc.out = Nothing THEN al ELSE kbc.out[2]
  /\ kbc' = [kbc EXCEPT !.out = Nothing]
  /\ UNCHANGED <<iflag, task, frozen, idt, event, pic, uart, accepted, deaf>>

\* The handler goes on with its node, or returns without one.
Malloc ==
  /\ Now("k_malloc")
  /\ \/ Next1 /\ UNCHANGED event
     \/ /\ todo' = SubSeq(todo, First({i \in DOMAIN todo : todo[i][1] = "iret"}), Len(todo))
        /\ event' = <<"none">>
  /\ UNCHANGED <<iflag, task, frozen, idt, al, hardware, accepted, deaf>>

EnqueueEventQueue ==
  /\ Now("enqueue_event_queue") /\ Next1
  /\ event' = <<todo[1][2], IF todo[1][2] = "KEYBOARD_EVENT" THEN Character(al) ELSE al>>
  /\ UNCHANGED <<iflag, task, frozen, idt, al, hardware, accepted, deaf>>

\* write_serial waits, with interrupts off, until the port takes a byte.
WriteSerial ==
  /\ Now("write_serial") /\ Next1
  /\ ~ uart.busy
  /\ uart' = [uart EXCEPT !.busy = TRUE]
  /\ UNCHANGED <<iflag, software, pic, kbc, accepted, deaf>>

\* The timers that are due; the one of the scheduler may be among them, and
\* then the rest of this handler waits for the task to come back.
Timers ==
  /\ Now("timers")
  /\ \/ Next1 /\ UNCHANGED <<iflag, task, frozen>>
     \/ \E t \in Task \ {task} :
          /\ task' = t
          /\ frozen' = [frozen EXCEPT ![task] = Tail(todo), ![t] = <<>>]
          /\ todo' = frozen[t]
          /\ iflag' = (frozen[t] = <<>>)
  /\ UNCHANGED <<idt, al, event, hardware, accepted, deaf>>

Return ==
  /\ Now("iret") /\ Next1
  /\ iflag' = TRUE
  /\ al' = 0 /\ event' = Nothing
  /\ UNCHANGED <<task, frozen, idt, hardware, accepted, deaf>>

Execute ==
  \/ OutPic \/ OutKeyboard \/ WaitKeyboardSendReady \/ InitialIdt \/ InitialSerial
  \/ KernExec \/ ReadByte \/ Malloc \/ EnqueueEventQueue \/ WriteSerial \/ Timers
  \/ Return

-----------------------------------------------------------------------------
(* The processor in the code of a task.  It takes an interrupt that is     *)
(* requested before the next instruction.                                  *)

\* An interrupt gate turns interrupts off, a trap gate does not.
Enter(v) ==
  /\ v \in DOMAIN idt
  /\ todo' = Handler(v) \o todo
  /\ iflag' = (iflag /\ idt[v] = "IDT_TRAP_GATE")
  /\ UNCHANGED <<software, kbc, uart, accepted, deaf>>

Interrupt(level) ==
  /\ iflag /\ MasterRequests # {} /\ First(MasterRequests) = level
  /\ pic' = IF level = 2
            THEN Acknowledge(Acknowledge(pic, 0, 2), 1, First(SlaveRequests))
            ELSE Acknowledge(pic, 0, level)
  /\ Enter(Vector)

Syscall ==
  /\ iflag /\ MasterRequests = {} /\ todo = <<>>
  /\ Enter(\h80) /\ UNCHANGED pic

Cli ==
  /\ iflag /\ MasterRequests = {} /\ todo = <<>>
  /\ iflag' = FALSE
  /\ UNCHANGED <<todo, software, hardware, accepted, deaf>>

Sti ==
  /\ ~ iflag /\ todo = <<>>
  /\ iflag' = TRUE
  /\ UNCHANGED <<todo, software, hardware, accepted, deaf>>

-----------------------------------------------------------------------------
(* The devices.                                                            *)

Device == UNCHANGED <<todo, iflag, software>>

\* The keyboard controller takes a byte: a command, or the data of one.
TakeByte ==
  LET port == kbc.in[1]  value == kbc.in[2] IN
  /\ kbc.in # Nothing
  /\ kbc' = [kbc EXCEPT !.in = Nothing,
       !.expects = IF port = PORT_KB_CMD THEN value ELSE 0,
       !.config = IF port = PORT_KB_DATA /\ kbc.expects = \h60 THEN Bits(value) ELSE kbc.config,
       !.reporting = @ \/ (port = PORT_KB_DATA /\ kbc.expects = \hD4 /\ value = \hF4)]
  /\ accepted' = Append(accepted, kbc.in)
  /\ Device /\ UNCHANGED <<pic, uart, deaf>>

\* A byte comes into the buffer of the controller, which raises an interrupt
\* if it is told to.
Receive(from, byte, c, level, flag) ==
  /\ kbc.out = Nothing
  /\ kbc' = [kbc EXCEPT !.out = <<from, byte>>]
  /\ pic' = IF flag \in kbc.config THEN Raise(pic, c, level) ELSE pic
  /\ Device /\ UNCHANGED <<uart, accepted, deaf>>

KeyByte == \E code \in ScanCode : Receive("keyboard", code, 0, 1, 0)
MouseByte == kbc.reporting /\ Receive("mouse", 0, 1, 4, 1)

\* 10 ms lie between two ticks: the handler of the last one is through.
Tick ==
  /\ 0 \notin pic[0].irr /\ Iret(\h20) \notin {todo[i] : i \in DOMAIN todo}
  /\ pic' = Raise(pic, 0, 0)
  /\ Device /\ UNCHANGED <<kbc, uart, accepted, deaf>>

\* The port has sent a byte; or the drive has read a sector, whose words the
\* driver takes without waiting for this interrupt.
SerialSent ==
  /\ uart.busy
  /\ uart' = [uart EXCEPT !.busy = FALSE]
  /\ pic' = IF uart.interrupts THEN Raise(pic, 0, 4) ELSE pic
  /\ Device /\ UNCHANGED <<kbc, accepted, deaf>>

DiskDone ==
  /\ 6 \notin pic[1].irr
  /\ pic' = Raise(pic, 1, 6)
  /\ Device /\ UNCHANGED <<kbc, uart, accepted, deaf>>

Next ==
  \/ Execute
  \/ \E level \in 0 .. 7 : Interrupt(level)
  \/ Syscall \/ Cli \/ Sti
  \/ TakeByte \/ KeyByte \/ MouseByte \/ Tick \/ SerialSent \/ DiskDone

\* The processor and the controllers go on; ticks go on; a task that turns
\* interrupts off turns them on again.  An interrupt that is asked for again
\* and again between those of higher priority is taken: there are 10 ms between
\* two ticks and the handlers are short.
Fairness ==
  /\ WF_vars(Execute) /\ WF_vars(Sti)
  /\ WF_vars(TakeByte) /\ WF_vars(SerialSent) /\ WF_vars(Tick)
  /\ \A level \in {0, 1, 2} : SF_vars(Interrupt(level))

Spec == Init /\ [][Next]_vars /\ Fairness

-----------------------------------------------------------------------------
(* Properties.                                                             *)

\* While interrupts are on, no interrupt is in service in either controller: a
\* task is never left running with one that would hold back all others, not
\* even a task that starts out of the handler of the timer
\* (interrupt_handlers.c:35, :81, :97-99, :105-107, :123).
InterruptsAcknowledged ==
  iflag => \A c \in {0, 1} : pic[c].isr = {}

\* The bytes kernel_main has for the keyboard controller.
Commands == <<<<PORT_KB_CMD, \h60>>, <<PORT_KB_DATA, \h47>>,
              <<PORT_KB_CMD, \hD4>>, <<PORT_KB_DATA, \hF4>>>>

\* The keyboard controller gets the commands of initial_keyboard and
\* initial_mouse, each byte once and in order (kernel_inits.c:157-170).
CommandsArrive ==
  /\ accepted = SubSeq(Commands, 1, Len(accepted))
  /\ iflag => kbc.in # Nothing \/ accepted = Commands

\* Every byte of the keyboard becomes the event of its character, or is given
\* up for want of memory, unless a byte was already waiting when the master
\* was reset: that byte's edge is forgotten, and nobody fetches it
\* (kernel_inits.c:91, interrupt_handlers.c:77-94).
KeyBecomesEvent ==
  \A code \in ScanCode :
    kbc.out = <<"keyboard", code>> ~>
      event \in {<<"KEYBOARD_EVENT", Character(code)>>, <<"none">>} \/ deaf

\* The handler of the timer runs again and again, whatever the other handlers
\* wait for (interrupt_handlers.c:33-74, interrupt_handlers.c:119).
TicksKeepComing == []<>(0 \in pic[0].isr /\ iflag = FALSE)

-----------------------------------------------------------------------------
(* Types.                                                                  *)

\* What an interrupt finds left of a task's routines: nothing, or the end of a
\* system call, which runs with interrupts on.
Rest == {<<>>, int80h}

Suffix(routine, k) == SubSeq(routine, k, Len(routine))

\* What is left of a task that was switched out: it is in the handler of the timer.
Frozen == {<<>>} \cup {Suffix(int20h, 3) \o r : r \in Rest}

Controller == [irr : SUBSET (0 .. 7), isr : SUBSET (0 .. 7), imr : SUBSET (0 .. 7),
               icw : {0, 2, 3, 4}, base : Nat]

TypeOK ==
  /\ iflag \in BOOLEAN /\ task \in Task /\ frozen \in [Task -> Frozen]
  /\ pic \in [{0, 1} -> Controller]
  /\ pic[0].irr \subseteq {0, 1, 4} /\ pic[1].irr \subseteq {4, 6}
  /\ kbc \in [in : {Nothing} \cup (Nat \X Nat),
              out : {Nothing} \cup ({"keyboard", "mouse"} \X Nat),
              expects : Nat, config : SUBSET (0 .. 7), reporting : BOOLEAN]
  /\ uart \in [busy : BOOLEAN, interrupts : BOOLEAN]
=============================================================================
