------------------------------- MODULE Console -------------------------------
(***************************************************************************)
(* The cursor of the text console (gui.c) once the tasks run.  Those that  *)
(* print are:                                                              *)
(*   - a task, with interrupts on: first its message, with k_printf, when  *)
(*     task_main begins; then the characters of keyboard events, with      *)
(*     tui_putchar;                                                        *)
(*   - the timer interrupt, with interrupts off: int20h_handler when it    *)
(*     has no memory for an event, and switch_task twice at every turn.    *)
(* int0dh_handler would print too, but has no gate (kernel_inits.c:72).    *)
(* Nothing protects cursor_x and cursor_y: a task may be interrupted       *)
(* between any two of its accesses to them, find the cursor moved when it  *)
(* goes on, or store a value it computed before.                           *)
(*                                                                         *)
(* A message has any number of characters, none of them a line feed or a   *)
(* carriage return.  What is on the screen is not modelled, only where     *)
(* characters go.                                                          *)
(***************************************************************************)
EXTENDS Integers

CONSTANTS
  Columns,   \* TUI_COLUMNS, 80
  Lines,     \* TUI_LINES, 25
  Task       \* the tasks that run task_main

ASSUME ScreenAssumption == Columns \in Nat \ {0} /\ Lines \in Nat \ {0}

VARIABLES
  x, y,      \* cursor_x, cursor_y
  running,   \* g_current_task
  begun,     \* [Task -> BOOLEAN]: the task's message is out
  pc,        \* [Task -> Location]
  reg,       \* [Task -> Nat]: the register of the task
  printing,  \* the timer interrupt: messages to print, and is there a switch?
  row        \* history: the line the last character was written to

vars == <<x, y, running, begun, pc, reg, printing, row>>

\* The places of a character of tui_putchar or k_printf, "out" between two.
Location == {"out", "carryY", "write", "color", "paint", "addX", "setX", "testX",
             "zeroX", "addY", "setY", "testY", "scroll"}

Silent == [messages |-> 0, switch |-> FALSE]

\* The first line kernel_main prints goes to line 4, or to wherever the
\* messages of the boot have taken the cursor.
Init ==
  /\ x = 0 /\ y \in 0 .. Lines - 1
  /\ running \in Task
  /\ begun = [t \in Task |-> FALSE]
  /\ pc = [t \in Task |-> "out"]
  /\ reg = [t \in Task |-> 0]
  /\ printing = Silent
  /\ row = 0

\* Where a character goes: to line l, or to the next one when x has passed the
\* end of the line.
LineAt(l) == IF x >= Columns THEN l + 1 ELSE l

-----------------------------------------------------------------------------
(* k_printf and tui_putchar in a task, cut at the accesses to the cursor.  *)

Goes(t, from, to) ==
  /\ printing = Silent
  /\ running = t /\ pc[t] = from
  /\ pc' = [pc EXCEPT ![t] = to]
  /\ UNCHANGED <<running, printing>>

\* The next character: line feed, carriage return, or one that is seen.
LineFeed(t) ==
  /\ begun[t] /\ Goes(t, "out", "testX")
  /\ x' = 0
  /\ UNCHANGED <<y, begun, reg, row>>

Return(t) ==
  /\ begun[t] /\ Goes(t, "out", "carryY")
  /\ reg' = [reg EXCEPT ![t] = y]
  /\ UNCHANGED <<x, y, begun, row>>

CarryY(t) == Goes(t, "carryY", "testX") /\ y' = reg[t] + 1 /\ UNCHANGED <<x, begun, reg, row>>

Seen(t) ==
  /\ Goes(t, "out", "write")
  /\ reg' = [reg EXCEPT ![t] = y]
  /\ UNCHANGED <<x, y, begun, row>>

\* The character, then its colour, each with an address of its own.
Write(t) ==
  /\ Goes(t, "write", "color")
  /\ row' = LineAt(reg[t])
  /\ UNCHANGED <<x, y, begun, reg>>

Color(t) ==
  /\ Goes(t, "color", "paint")
  /\ reg' = [reg EXCEPT ![t] = y]
  /\ UNCHANGED <<x, y, begun, row>>

Paint(t) ==
  /\ Goes(t, "paint", "addX")
  /\ row' = LineAt(reg[t])
  /\ UNCHANGED <<x, y, begun, reg>>

AddX(t) ==
  /\ Goes(t, "addX", "setX")
  /\ reg' = [reg EXCEPT ![t] = x]
  /\ UNCHANGED <<x, y, begun, row>>

SetX(t) == Goes(t, "setX", "testX") /\ x' = reg[t] + 1 /\ UNCHANGED <<y, begun, reg, row>>

\* Deviation of TestX: the end of the line is noticed one column too late.
TestXLate(t) ==
  /\ Goes(t, "testX", IF x > Columns THEN "zeroX" ELSE "testY")
  /\ UNCHANGED <<x, y, begun, reg, row>>

TestX(t) ==
  /\ Goes(t, "testX", IF x >= Columns THEN "zeroX" ELSE "testY")
  /\ UNCHANGED <<x, y, begun, reg, row>>

ZeroX(t) == Goes(t, "zeroX", "addY") /\ x' = 0 /\ UNCHANGED <<y, begun, reg, row>>

AddY(t) ==
  /\ Goes(t, "addY", "setY")
  /\ reg' = [reg EXCEPT ![t] = y]
  /\ UNCHANGED <<x, y, begun, row>>

SetY(t) == Goes(t, "setY", "testY") /\ y' = reg[t] + 1 /\ UNCHANGED <<x, begun, reg, row>>

TestY(t) ==
  /\ Goes(t, "testY", IF y >= Lines THEN "scroll" ELSE "out")
  /\ UNCHANGED <<x, y, begun, reg, row>>

\* scroll_up_tui_console(1)
Scroll(t) == Goes(t, "scroll", "out") /\ y' = Lines - 1 /\ UNCHANGED <<x, begun, reg, row>>

\* The end of k_printf: a new line.
MessageEnd(t) ==
  /\ ~ begun[t] /\ Goes(t, "out", "addY")
  /\ begun' = [begun EXCEPT ![t] = TRUE]
  /\ x' = 0
  /\ UNCHANGED <<y, reg, row>>

Prints(t) ==
  \/ LineFeed(t) \/ Return(t) \/ CarryY(t)
  \/ Seen(t) \/ Write(t) \/ Color(t) \/ Paint(t) \/ AddX(t) \/ SetX(t)
  \/ TestX(t) \/ ZeroX(t) \/ AddY(t) \/ SetY(t)
  \/ TestY(t) \/ Scroll(t) \/ MessageEnd(t)

-----------------------------------------------------------------------------
(* The timer interrupt's messages.  No task runs while they are printed.   *)

\* The interrupt in the middle of a task: int20h_handler may have a message
\* that no memory is left, and when the switch timer is due switch_task has two.
TimerInterrupt ==
  /\ printing = Silent
  /\ \E switch \in BOOLEAN : \E n \in IF switch THEN {2, 3} ELSE {1} :
       printing' = [messages |-> n, switch |-> switch]
  /\ UNCHANGED <<x, y, running, begun, pc, reg, row>>

\* Deviation of Scrolled: the cursor is left below the screen.
ScrolledTo(line) == IF line >= Lines THEN Lines ELSE line

\* The line of the cursor once a test for the end of the screen is through.
Scrolled(line) == IF line >= Lines THEN Lines - 1 ELSE line

\* k_printf: one character is written, the cursor moved, and the ends of the
\* line and of the screen tested.
PrintChar ==
  /\ printing.messages > 0
  /\ row' = LineAt(y)
  /\ x' = IF x + 1 >= Columns THEN 0 ELSE x + 1
  /\ y' = Scrolled(IF x + 1 >= Columns THEN y + 1 ELSE y)
  /\ UNCHANGED <<running, begun, pc, reg, printing>>

\* The end of k_printf starts a new line.  After the last message the task the
\* scheduler has chosen goes on, without a switch the same one.
PrintEnd ==
  /\ printing.messages > 0
  /\ x' = 0 /\ y' = Scrolled(y + 1)
  /\ IF printing.messages = 1
     THEN /\ printing' = Silent
          /\ IF printing.switch THEN running' \in Task ELSE UNCHANGED running
     ELSE /\ printing' = [printing EXCEPT !.messages = @ - 1]
          /\ UNCHANGED running
  /\ UNCHANGED <<begun, pc, reg, row>>

Next ==
  \/ \E t \in Task : Prints(t)
  \/ TimerInterrupt \/ PrintChar \/ PrintEnd

Spec == Init /\ [][Next]_vars

-----------------------------------------------------------------------------
(* Properties.                                                             *)

\* Type invariant of the cursor, the tasks' places and the printer.
TypeOK ==
  /\ x \in Nat /\ y \in Nat /\ row \in Nat
  /\ running \in Task
  /\ begun \in [Task -> BOOLEAN]
  /\ pc \in [Task -> Location]
  /\ reg \in [Task -> Nat]
  /\ printing \in [messages : 0 .. 3, switch : BOOLEAN]

\* The cursor is past the end of its line, or below the screen, only while the
\* running task is on its way to the test that will notice, or the first
\* message that interrupted it is about to: however the messages and characters
\* of the tasks, the timer interrupt's and the scheduler's get in each other's
\* way, a task or interrupt that starts to print a character after a whole one
\* finds the cursor on the screen (gui.c:368-395, gui.c:450-467, tasks.c:86).
CursorOnScreen ==
  /\ x >= Columns => pc[running] \in {"testX", "zeroX"}
  /\ y >= Lines => pc[running] \in {"testX", "testY", "scroll"}

\* A value of the cursor that a task computed before it was interrupted never
\* sends a character, or its colour, elsewhere than to the screen or, when a
\* message of the timer interrupt begins between the move of the cursor and the
\* test, to the line below it (gui.c:381-382, gui.c:459-460).
WritesNearScreen == row <= Lines
=============================================================================
