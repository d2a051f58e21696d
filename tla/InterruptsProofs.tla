-------------------------- MODULE InterruptsProofs --------------------------
(***************************************************************************)
(* Proofs about Interrupts for any number of tasks and any scan codes.  At *)
(* every moment the processor is at a known place: so far into             *)
(* kernel_main, so far into one handler, or in the code of a task; and the *)
(* place says what the controllers hold.  Lemmas say what the routines     *)
(* are made of, and what a byte for a controller changes.                  *)
(***************************************************************************)
EXTENDS Interrupts, SequenceTheorems, TLAPS

-----------------------------------------------------------------------------
(* The inductive invariant: where the processor is, and what the devices   *)
(* hold there.                                                             *)

Serving(master, slave) == pic[0].isr = master /\ pic[1].isr = slave

\* What kernel_main has set up when its operation k is next.
SetUp(k) ==
  /\ k > 1 => idt = Gates
  /\ pic[0].icw = IF k \in 5 .. 7 THEN k - 3 ELSE 0
  /\ pic[1].icw = IF k \in 9 .. 11 THEN k - 7 ELSE 0
  /\ k > 5 => pic[0].base = \h20
  /\ k > 9 => pic[1].base = PIC1_BASE
  /\ k > 15 => pic[1].imr = Bits(\hEF)
  /\ k > 20 => pic[0].imr = Bits(\hF8)
  /\ k > 21 => ~ uart.interrupts

\* How many commands have been sent before operation k, and that only the last
\* of them may still be waiting; after wait_keyboard_send_ready it is not.
Sent(k) ==
  CASE k <= 17 -> 0
    [] k \in 18 .. 19 -> 1
    [] k \in 20 .. 23 -> 2
    [] k \in 24 .. 25 -> 3
    [] k > 25 -> 4

CommandsInv(k) ==
  /\ \/ kbc.in = Nothing /\ accepted = SubSeq(Commands, 1, Sent(k))
     \/ /\ Sent(k) > 0 /\ kbc.in = Commands[Sent(k)]
        /\ accepted = SubSeq(Commands, 1, Sent(k) - 1)
  /\ k \in {17, 19, 23, 25} => kbc.in = Nothing

Booting ==
  \E k \in DOMAIN kernel_main :
    /\ todo = Suffix(kernel_main, k) /\ ~ iflag /\ Serving({}, {})
    /\ SetUp(k) /\ CommandsInv(k)

\* The handler has come to its operation k.
In(handler, k) == \E r \in Rest : todo = Suffix(handler, k) \o r

\* A handler runs with interrupts off; its own is in service until it says so.
InHandler ==
  /\ ~ iflag
  /\ \/ In(int20h, 1) /\ Serving({0}, {})
     \/ In(int21h, 1) /\ Serving({1}, {})
     \/ In(int2ch, 1) /\ Serving({2}, {4})
     \/ In(int2ch, 2) /\ Serving({2}, {})
     \/ /\ \/ \E k \in 2 .. 3 : In(int20h, k)
           \/ \E k \in 2 .. 5 : In(int21h, k)
           \/ \E k \in 3 .. 7 : In(int2ch, k)
        /\ Serving({}, {})

Booted ==
  /\ SetUp(Len(kernel_main) + 1) /\ CommandsInv(Len(kernel_main) + 1)
  /\ InHandler \/ (todo \in Rest /\ Serving({}, {}))

IInv == TypeOK /\ (Booting \/ Booted)

-----------------------------------------------------------------------------
(* Sequences of operations.                                                  *)
Op ==
  {Out(port, value) : port \in Nat, value \in Nat} \cup {Iret(v) : v \in Nat}
  \cup {<<"initial_idt">>, <<"initial_serial">>, <<"kern_exec">>, WaitKeyboard,
        <<"timers">>, <<"_io_in8">>, <<"k_malloc">>, <<"write_serial">>,
        <<"enqueue_event_queue", "KEYBOARD_EVENT">>, <<"enqueue_event_queue", "MOUSE_EVENT">>}

LEMMA ConsProperties ==
  ASSUME NEW S, NEW x \in S, NEW s \in Seq(S)
  PROVE  LET t == <<x>> \o s
         IN  t \in Seq(S) /\ t # <<>> /\ t[1] = x /\ Tail(t) = s
<1> DEFINE t == <<x>> \o s
<1>1. <<x>> \in Seq(S) /\ Len(<<x>>) = 1 /\ <<x>>[1] = x
  OBVIOUS
<1>2. /\ t \in Seq(S) /\ Len(t) = 1 + Len(s) /\ Len(s) \in Nat
      /\ \A i \in 1 .. 1 + Len(s) : t[i] = IF i <= 1 THEN x ELSE s[i - 1]
  BY <1>1, ConcatProperties
<1> HIDE DEF t
<1>3. t # <<>> /\ t[1] = x
  BY <1>2
<1>4. /\ Tail(t) \in Seq(S) /\ Len(Tail(t)) = Len(s)
      /\ \A i \in 1 .. Len(s) : Tail(t)[i] = t[i + 1]
  BY <1>2, <1>3, HeadTailProperties
<1>5. \A i \in 1 .. Len(s) : t[i + 1] = s[i]
  BY <1>2
<1>6. Tail(t) = s
  BY <1>4, <1>5, SeqEqual
<1> QED BY <1>2, <1>3, <1>6 DEF t

\* Operation k of a routine is next, and what comes after it.
LEMMA SuffixProperties ==
  ASSUME NEW S, NEW h \in Seq(S), NEW r \in Seq(S), NEW k \in 1 .. Len(h)
  PROVE  LET t == Suffix(h, k) \o r
         IN  /\ t \in Seq(S) /\ t # <<>> /\ t[1] = h[k]
             /\ Tail(t) = Suffix(h, k + 1) \o r
<1>0. Len(h) \in Nat /\ h[k] \in S
  BY ElementOfSeq
<1> DEFINE s == Suffix(h, k + 1)
<1>1. s \in Seq(S)
  BY <1>0, SubSeqProperties, ElementOfSeq DEF Suffix
<1>2. Suffix(h, k) = <<h[k]>> \o s
  BY <1>0, SubSeqRecursiveFirst DEF Suffix
<1>3. <<h[k]>> \in Seq(S)
  BY <1>0
<1> HIDE DEF s
<1>4. Suffix(h, k) \o r = <<h[k]>> \o (s \o r) /\ s \o r \in Seq(S)
  BY <1>1, <1>2, <1>3, ConcatAssociative, ConcatProperties
<1>5. /\ <<h[k]>> \o (s \o r) \in Seq(S) /\ <<h[k]>> \o (s \o r) # <<>>
      /\ (<<h[k]>> \o (s \o r))[1] = h[k] /\ Tail(<<h[k]>> \o (s \o r)) = s \o r
  BY <1>0, <1>4, ConsProperties
<1> QED BY <1>4, <1>5 DEF s

\* What a suffix is, element by element.
LEMMA SuffixElements ==
  ASSUME NEW S, NEW s \in Seq(S), NEW m \in 1 .. Len(s)
  PROVE  /\ Suffix(s, m) \in Seq(S) /\ Len(Suffix(s, m)) = Len(s) - m + 1
         /\ \A i \in 1 .. Len(s) - m + 1 : Suffix(s, m)[i] = s[m + i - 1]
<1> DEFINE e == Len(s)
<1>1. m \in Int /\ e \in Int /\ m <= e
  OBVIOUS
<1>2. \A i \in m .. e : s[i] \in S
  BY <1>1, ElementOfSeq
<1>3. Suffix(s, m) = SubSeq(s, m, e)
  BY DEF Suffix
<1> HIDE DEF e
<1>4. SubSeq(s, m, e) \in Seq(S) /\ Len(SubSeq(s, m, e)) = e - m + 1
  BY <1>1, <1>2, SubSeqProperties
<1>5. \A i \in 1 .. e - m + 1 : SubSeq(s, m, e)[i] = s[m + i - 1]
  BY <1>1, <1>2, SubSeqProperties
<1> QED BY <1>3, <1>4, <1>5 DEF e

\* The whole routine and the end of it.
LEMMA SuffixEnds ==
  ASSUME NEW S, NEW h \in Seq(S), NEW r \in Seq(S)
  PROVE  Suffix(h, 1) \o r = h \o r /\ Suffix(h, Len(h) + 1) \o r = r
<1>1. Suffix(h, 1) = h
  BY SubSeqFull DEF Suffix
<1>2. Suffix(h, Len(h) + 1) = <<>>
  <2>1. Len(h) \in Nat
    OBVIOUS
  <2> QED BY <2>1, SubSeqEmpty DEF Suffix
<1>3. <<>> \o r = r
  BY ConcatEmptySeq
<1> QED BY <1>1, <1>2, <1>3

\* One routine after another.
LEMMA JoinProperties ==
  ASSUME NEW S, NEW a \in Seq(S), NEW b \in Seq(S)
  PROVE  /\ a \o b \in Seq(S) /\ Len(a \o b) = Len(a) + Len(b)
         /\ \A i \in 1 .. Len(a) : (a \o b)[i] = a[i]
         /\ \A i \in 1 .. Len(b) : (a \o b)[Len(a) + i] = b[i]
<1>1. /\ a \o b \in Seq(S) /\ Len(a \o b) = Len(a) + Len(b)
      /\ \A i \in 1 .. Len(a) + Len(b) :
           (a \o b)[i] = IF i <= Len(a) THEN a[i] ELSE b[i - Len(a)]
  BY ConcatProperties
<1>2. Len(a) \in Nat /\ Len(b) \in Nat
  OBVIOUS
<1> QED BY <1>1, <1>2

-----------------------------------------------------------------------------
(* The routines.                                                             *)
LEMMA OpShapes ==
  /\ \A port, value \in Nat : Out(port, value) \in Op
  /\ \A v \in Nat : Iret(v) \in Op
  /\ <<"initial_idt">> \in Op /\ <<"initial_serial">> \in Op /\ <<"kern_exec">> \in Op
  /\ WaitKeyboard \in Op /\ <<"timers">> \in Op /\ <<"_io_in8">> \in Op
  /\ <<"k_malloc">> \in Op /\ <<"write_serial">> \in Op
  /\ <<"enqueue_event_queue", "KEYBOARD_EVENT">> \in Op
  /\ <<"enqueue_event_queue", "MOUSE_EVENT">> \in Op
BY DEF Op

LEMMA TimerHandler ==
  /\ int20h \in Seq(Op) /\ Len(int20h) = 3
  /\ int20h[1] = Out(PIC0_OCW2, \h60) /\ int20h[2] = <<"timers">> /\ int20h[3] = Iret(\h20)
<1>1. /\ Out(PIC0_OCW2, \h60) \in Op /\ <<"timers">> \in Op /\ Iret(\h20) \in Op
  BY OpShapes DEF PIC0_OCW2
<1> QED BY <1>1 DEF int20h

LEMMA KeyboardHandler ==
  /\ int21h \in Seq(Op) /\ Len(int21h) = 5
  /\ int21h[1] = Out(PIC0_OCW2, \h61) /\ int21h[2] = <<"_io_in8">>
  /\ int21h[3] = <<"k_malloc">>
  /\ int21h[4] = <<"enqueue_event_queue", "KEYBOARD_EVENT">> /\ int21h[5] = Iret(\h21)
<1>1. /\ Out(PIC0_OCW2, \h61) \in Op /\ <<"_io_in8">> \in Op /\ <<"k_malloc">> \in Op
      /\ <<"enqueue_event_queue", "KEYBOARD_EVENT">> \in Op /\ Iret(\h21) \in Op
  BY OpShapes DEF PIC0_OCW2
<1> QED BY <1>1 DEF int21h

LEMMA MouseHandler ==
  /\ int2ch \in Seq(Op) /\ Len(int2ch) = 7
  /\ int2ch[1] = Out(PIC1_OCW2, \h64) /\ int2ch[2] = Out(PIC0_OCW2, \h62)
  /\ int2ch[3] = <<"_io_in8">> /\ int2ch[4] = <<"k_malloc">>
  /\ int2ch[5] = <<"enqueue_event_queue", "MOUSE_EVENT">>
  /\ int2ch[6] = <<"write_serial">> /\ int2ch[7] = Iret(\h2C)
<1> DEFINE s == <<<<"_io_in8">>, <<"k_malloc">>, <<"enqueue_event_queue", "MOUSE_EVENT">>,
                  <<"write_serial">>, Iret(\h2C)>>
<1>1. /\ Out(PIC1_OCW2, \h64) \in Op /\ Out(PIC0_OCW2, \h62) \in Op
      /\ <<"_io_in8">> \in Op /\ <<"k_malloc">> \in Op
      /\ <<"enqueue_event_queue", "MOUSE_EVENT">> \in Op /\ <<"write_serial">> \in Op
      /\ Iret(\h2C) \in Op
  BY OpShapes DEF PIC0_OCW2, PIC1_OCW2
<1>2. /\ MouseEoi \in Seq(Op) /\ Len(MouseEoi) = 2
      /\ MouseEoi[1] = Out(PIC1_OCW2, \h64) /\ MouseEoi[2] = Out(PIC0_OCW2, \h62)
  BY <1>1 DEF MouseEoi
<1>3. /\ s \in Seq(Op) /\ Len(s) = 5
      /\ s[1] = <<"_io_in8">> /\ s[2] = <<"k_malloc">>
      /\ s[3] = <<"enqueue_event_queue", "MOUSE_EVENT">>
      /\ s[4] = <<"write_serial">> /\ s[5] = Iret(\h2C)
  BY <1>1
<1>4. int2ch = MouseEoi \o s
  BY DEF int2ch
<1> HIDE DEF s
<1>5. MouseEoi \in Seq(Op)
  BY <1>2
<1>6. s \in Seq(Op)
  BY <1>3
<1>a. /\ MouseEoi \o s \in Seq(Op) /\ Len(MouseEoi \o s) = Len(MouseEoi) + Len(s)
      /\ \A i \in 1 .. Len(MouseEoi) : (MouseEoi \o s)[i] = MouseEoi[i]
      /\ \A i \in 1 .. Len(s) : (MouseEoi \o s)[Len(MouseEoi) + i] = s[i]
  BY <1>5, <1>6, JoinProperties
<1>b. Len(MouseEoi) = 2 /\ Len(s) = 5
  BY <1>2, <1>3
<1>7. /\ int2ch[1] = MouseEoi[1] /\ int2ch[2] = MouseEoi[2] /\ int2ch[3] = s[1]
      /\ int2ch[4] = s[2] /\ int2ch[5] = s[3] /\ int2ch[6] = s[4] /\ int2ch[7] = s[5]
  BY <1>a, <1>b, <1>4
<1> QED BY <1>2, <1>3, <1>4, <1>a, <1>b, <1>7

LEMMA SyscallHandler ==
  int80h \in Seq(Op) /\ Len(int80h) = 1 /\ int80h[1] = Iret(\h80)
BY OpShapes DEF int80h

LEMMA RestIsSeq == \A r \in Rest : r \in Seq(Op)
BY SyscallHandler, EmptySeq DEF Rest
LEMMA PicRoutine ==
  /\ initial_pic \in Seq(Op) /\ Len(initial_pic) = 12
  /\ initial_pic[1] = Out(PIC0_IMR, \hFF) /\ initial_pic[2] = Out(PIC1_IMR, \hFF)
  /\ initial_pic[3] = Out(PIC0_OCW2, \h11) /\ initial_pic[4] = Out(PIC0_IMR, \h20)
  /\ initial_pic[5] = Out(PIC0_IMR, 4) /\ initial_pic[6] = Out(PIC0_IMR, 1)
  /\ initial_pic[7] = Out(PIC1_OCW2, \h11) /\ initial_pic[8] = Out(PIC1_IMR, PIC1_BASE)
  /\ initial_pic[9] = Out(PIC1_IMR, 2) /\ initial_pic[10] = Out(PIC1_IMR, 1)
  /\ initial_pic[11] = Out(PIC0_IMR, \hFB) /\ initial_pic[12] = Out(PIC1_IMR, \hFF)
<1>1. \A v \in Nat : /\ Out(PIC0_IMR, v) \in Op /\ Out(PIC1_IMR, v) \in Op
                     /\ Out(PIC0_OCW2, v) \in Op /\ Out(PIC1_OCW2, v) \in Op
  BY OpShapes DEF PIC0_IMR, PIC1_IMR, PIC0_OCW2, PIC1_OCW2
<1>2. PIC1_BASE \in Nat
  BY DEF PIC1_BASE
<1> QED BY <1>1, <1>2 DEF initial_pic

LEMMA KeyboardRoutine ==
  /\ initial_keyboard \in Seq(Op) /\ Len(initial_keyboard) = 6
  /\ initial_keyboard[1] = Out(PIC0_IMR, \hF9) /\ initial_keyboard[2] = Out(PIC1_IMR, \hEF)
  /\ initial_keyboard[3] = WaitKeyboard /\ initial_keyboard[4] = Out(PORT_KB_CMD, \h60)
  /\ initial_keyboard[5] = WaitKeyboard /\ initial_keyboard[6] = Out(PORT_KB_DATA, \h47)
<1>1. /\ Out(PIC0_IMR, \hF9) \in Op /\ Out(PIC1_IMR, \hEF) \in Op /\ WaitKeyboard \in Op
      /\ Out(PORT_KB_CMD, \h60) \in Op /\ Out(PORT_KB_DATA, \h47) \in Op
  BY OpShapes DEF PIC0_IMR, PIC1_IMR, PORT_KB_CMD, PORT_KB_DATA
<1> QED BY <1>1 DEF initial_keyboard

LEMMA MouseRoutine ==
  /\ initial_mouse \in Seq(Op) /\ Len(initial_mouse) = 4
  /\ initial_mouse[1] = WaitKeyboard /\ initial_mouse[2] = Out(PORT_KB_CMD, \hD4)
  /\ initial_mouse[3] = WaitKeyboard /\ initial_mouse[4] = Out(PORT_KB_DATA, \hF4)
<1>1. /\ WaitKeyboard \in Op
      /\ Out(PORT_KB_CMD, \hD4) \in Op /\ Out(PORT_KB_DATA, \hF4) \in Op
  BY OpShapes DEF PORT_KB_CMD, PORT_KB_DATA
<1> QED BY <1>1 DEF initial_mouse

LEMMA BootRoutine ==
  /\ kernel_main \in Seq(Op) /\ Len(kernel_main) = 27
  /\ kernel_main[1] = <<"initial_idt">>
  /\ \A i \in 1 .. 12 : kernel_main[1 + i] = initial_pic[i]
  /\ \A i \in 1 .. 6 : kernel_main[13 + i] = initial_keyboard[i]
  /\ kernel_main[20] = Out(PIC0_IMR, \hF8) /\ kernel_main[21] = <<"initial_serial">>
  /\ \A i \in 1 .. 4 : kernel_main[21 + i] = initial_mouse[i]
  /\ kernel_main[26] = Out(PIC1_IMR, \hEF) /\ kernel_main[27] = <<"kern_exec">>
<1> DEFINE first == <<<<"initial_idt">>>>
           serial == <<Out(PIC0_IMR, \hF8), <<"initial_serial">>>>
           last == <<Out(PIC1_IMR, \hEF), <<"kern_exec">>>>
           k1 == first \o initial_pic
           k2 == k1 \o initial_keyboard
           k3 == k2 \o serial
           k4 == k3 \o initial_mouse
<1>1. first \in Seq(Op) /\ Len(first) = 1 /\ first[1] = <<"initial_idt">>
  BY OpShapes
<1>2. /\ serial \in Seq(Op) /\ Len(serial) = 2
      /\ serial[1] = Out(PIC0_IMR, \hF8) /\ serial[2] = <<"initial_serial">>
  BY OpShapes DEF PIC0_IMR
<1>3. /\ last \in Seq(Op) /\ Len(last) = 2
      /\ last[1] = Out(PIC1_IMR, \hEF) /\ last[2] = <<"kern_exec">>
  BY OpShapes DEF PIC1_IMR
<1>4. kernel_main = k4 \o last
  BY DEF kernel_main
<1> HIDE DEF first, serial, last
<1>a. first \in Seq(Op) /\ initial_pic \in Seq(Op) /\ initial_keyboard \in Seq(Op)
  BY <1>1, PicRoutine, KeyboardRoutine
<1>b. serial \in Seq(Op) /\ initial_mouse \in Seq(Op) /\ last \in Seq(Op)
  BY <1>2, <1>3, MouseRoutine
<1>5. /\ k1 \in Seq(Op) /\ Len(k1) = Len(first) + Len(initial_pic)
      /\ \A i \in 1 .. Len(first) : k1[i] = first[i]
      /\ \A i \in 1 .. Len(initial_pic) : k1[Len(first) + i] = initial_pic[i]
  BY <1>a, JoinProperties
<1> HIDE DEF k1
<1>c. /\ Len(first) = 1 /\ Len(initial_pic) = 12 /\ Len(initial_keyboard) = 6
      /\ Len(serial) = 2 /\ Len(initial_mouse) = 4 /\ Len(last) = 2
  BY <1>1, <1>2, <1>3, PicRoutine, KeyboardRoutine, MouseRoutine
<1>d. k1 \in Seq(Op)
  BY <1>5
<1>e. Len(k1) = 13 /\ k1[1] = first[1] /\ \A i \in 1 .. 12 : k1[1 + i] = initial_pic[i]
  BY <1>5, <1>c
<1>6. /\ k2 \in Seq(Op) /\ Len(k2) = Len(k1) + Len(initial_keyboard)
      /\ \A i \in 1 .. Len(k1) : k2[i] = k1[i]
      /\ \A i \in 1 .. Len(initial_keyboard) : k2[Len(k1) + i] = initial_keyboard[i]
  BY <1>a, <1>d, JoinProperties
<1> HIDE DEF k2
<1>7. k2 \in Seq(Op)
  BY <1>6
<1>8. /\ Len(k2) = 19 /\ \A i \in 1 .. 13 : k2[i] = k1[i]
      /\ \A i \in 1 .. 6 : k2[13 + i] = initial_keyboard[i]
  BY <1>6, <1>c, <1>e
<1>9. /\ k3 \in Seq(Op) /\ Len(k3) = Len(k2) + Len(serial)
      /\ \A i \in 1 .. Len(k2) : k3[i] = k2[i]
      /\ \A i \in 1 .. Len(serial) : k3[Len(k2) + i] = serial[i]
  BY <1>b, <1>7, JoinProperties
<1> HIDE DEF k3
<1>10. k3 \in Seq(Op)
  BY <1>9
<1>11. /\ Len(k3) = 21 /\ \A i \in 1 .. 19 : k3[i] = k2[i]
       /\ \A i \in 1 .. 2 : k3[19 + i] = serial[i]
  BY <1>9, <1>c, <1>8
<1>12. /\ k4 \in Seq(Op) /\ Len(k4) = Len(k3) + Len(initial_mouse)
       /\ \A i \in 1 .. Len(k3) : k4[i] = k3[i]
       /\ \A i \in 1 .. Len(initial_mouse) : k4[Len(k3) + i] = initial_mouse[i]
  BY <1>b, <1>10, JoinProperties
<1> HIDE DEF k4
<1>13. k4 \in Seq(Op)
  BY <1>12
<1>14. /\ Len(k4) = 25 /\ \A i \in 1 .. 21 : k4[i] = k3[i]
       /\ \A i \in 1 .. 4 : k4[21 + i] = initial_mouse[i]
  BY <1>12, <1>c, <1>11
<1>15. /\ kernel_main \in Seq(Op) /\ Len(kernel_main) = Len(k4) + Len(last)
       /\ \A i \in 1 .. Len(k4) : kernel_main[i] = k4[i]
       /\ \A i \in 1 .. Len(last) : kernel_main[Len(k4) + i] = last[i]
  BY <1>4, <1>b, <1>13, JoinProperties
<1>16. kernel_main \in Seq(Op)
  BY <1>15
<1>17. /\ Len(kernel_main) = 27 /\ \A i \in 1 .. 25 : kernel_main[i] = k4[i]
       /\ \A i \in 1 .. 2 : kernel_main[25 + i] = last[i]
  BY <1>15, <1>c, <1>14
<1>18. \A i \in 1 .. 13 : kernel_main[i] = k1[i]
  BY <1>8, <1>11, <1>14, <1>17
<1>19. kernel_main[1] = first[1] /\ \A i \in 1 .. 12 : kernel_main[1 + i] = initial_pic[i]
  BY <1>e, <1>18
<1>20. \A i \in 1 .. 6 : kernel_main[13 + i] = initial_keyboard[i]
  BY <1>8, <1>11, <1>14, <1>17
<1>21. kernel_main[20] = serial[1] /\ kernel_main[21] = serial[2]
  BY <1>11, <1>14, <1>17
<1>22. \A i \in 1 .. 4 : kernel_main[21 + i] = initial_mouse[i]
  BY <1>14, <1>17
<1>23. kernel_main[26] = last[1] /\ kernel_main[27] = last[2]
  BY <1>17
<1>24. Len(kernel_main) = 27
  BY <1>17
<1> QED BY <1>1, <1>2, <1>3, <1>16, <1>19, <1>20, <1>21, <1>22, <1>23, <1>24

-----------------------------------------------------------------------------
(* The interrupt controllers.                                                *)
Bit(value, i) == (value \div 2^i) % 2

LEMMA BitValues ==
  ASSUME NEW v \in Nat
  PROVE  /\ Bit(v, 0) = v % 2 /\ Bit(v, 1) = (v \div 2) % 2 /\ Bit(v, 2) = (v \div 4) % 2
         /\ Bit(v, 3) = (v \div 8) % 2 /\ Bit(v, 4) = (v \div 16) % 2
         /\ Bit(v, 5) = (v \div 32) % 2 /\ Bit(v, 6) = (v \div 64) % 2
         /\ Bit(v, 7) = (v \div 128) % 2
BY DEF Bit

\* The masks kernel_main ends with let the timer, the keyboard, the slave and
\* the mouse through.
LEMMA Masks == Bits(\hF8) = 3 .. 7 /\ Bits(\hEF) = (0 .. 7) \ {4}
<1>1. \A i \in 0 .. 7 : i = 0 \/ i = 1 \/ i = 2 \/ i = 3 \/ i = 4 \/ i = 5 \/ i = 6 \/ i = 7
  OBVIOUS
<1>2. /\ Bit(\hF8, 0) = 0 /\ Bit(\hF8, 1) = 0 /\ Bit(\hF8, 2) = 0 /\ Bit(\hF8, 3) = 1
      /\ Bit(\hF8, 4) = 1 /\ Bit(\hF8, 5) = 1 /\ Bit(\hF8, 6) = 1 /\ Bit(\hF8, 7) = 1
  BY BitValues
<1>3. /\ Bit(\hEF, 0) = 1 /\ Bit(\hEF, 1) = 1 /\ Bit(\hEF, 2) = 1 /\ Bit(\hEF, 3) = 1
      /\ Bit(\hEF, 4) = 0 /\ Bit(\hEF, 5) = 1 /\ Bit(\hEF, 6) = 1 /\ Bit(\hEF, 7) = 1
  BY BitValues
<1>4. /\ Bits(\hF8) = {i \in 0 .. 7 : Bit(\hF8, i) = 1}
      /\ Bits(\hEF) = {i \in 0 .. 7 : Bit(\hEF, i) = 1}
  BY DEF Bits, Bit
<1>5. \A i \in 0 .. 7 : Bit(\hF8, i) = 1 <=> i \in 3 .. 7
  BY <1>1, <1>2
<1>6. \A i \in 0 .. 7 : Bit(\hEF, i) = 1 <=> i # 4
  BY <1>1, <1>3
<1>7. 3 .. 7 \subseteq 0 .. 7
  OBVIOUS
<1> QED BY <1>4, <1>5, <1>6, <1>7

LEMMA BitsRange == \A v : Bits(v) \in SUBSET (0 .. 7)
BY DEF Bits

Pair == [{0, 1} -> Controller]

LEMMA RaiseProperties ==
  ASSUME pic \in Pair, NEW c \in {0, 1}, NEW level \in 0 .. 7, pic' = Raise(pic, c, level)
  PROVE  /\ pic' \in Pair
         /\ \A d \in {0, 1} :
              /\ pic'[d].irr = IF d = c THEN pic[c].irr \cup {level} ELSE pic[d].irr
              /\ pic'[d].isr = pic[d].isr /\ pic'[d].imr = pic[d].imr
              /\ pic'[d].icw = pic[d].icw /\ pic'[d].base = pic[d].base
BY DEF Pair, Controller, Raise

LEMMA AcknowledgeProperties ==
  ASSUME NEW p \in Pair, NEW c \in {0, 1}, NEW level \in 0 .. 7
  PROVE  /\ Acknowledge(p, c, level) \in Pair
         /\ \A d \in {0, 1} :
              /\ Acknowledge(p, c, level)[d].irr = IF d = c THEN p[c].irr \ {level} ELSE p[d].irr
              /\ Acknowledge(p, c, level)[d].isr = IF d = c THEN p[c].isr \cup {level} ELSE p[d].isr
              /\ Acknowledge(p, c, level)[d].imr = p[d].imr
              /\ Acknowledge(p, c, level)[d].icw = p[d].icw
              /\ Acknowledge(p, c, level)[d].base = p[d].base
BY DEF Pair, Controller, Acknowledge

LEMMA CommandOfMaster ==
  ASSUME pic \in Pair, NEW v \in Nat, pic' = Command(pic, 0, v)
  PROVE  /\ pic' \in Pair /\ pic'[1] = pic[1] /\ pic'[0].base = pic[0].base
         /\ v = \h11 => pic'[0].irr = {} /\ pic'[0].isr = {} /\ pic'[0].icw = 2
         /\ v # \h11 => /\ pic'[0].irr = pic[0].irr /\ pic'[0].isr = pic[0].isr \ {v - \h60}
                        /\ pic'[0].imr = pic[0].imr /\ pic'[0].icw = pic[0].icw
BY DEF Pair, Controller, Command

LEMMA DataOfMaster ==
  ASSUME pic \in Pair, NEW v \in Nat, pic' = Data(pic, 0, v)
  PROVE  /\ pic' \in Pair /\ pic'[1] = pic[1]
         /\ pic'[0].irr = pic[0].irr /\ pic'[0].isr = pic[0].isr
         /\ pic[0].icw = 2 => /\ pic'[0].icw = 3 /\ pic'[0].base = v
                              /\ pic'[0].imr = pic[0].imr
         /\ pic[0].icw = 3 => /\ pic'[0].icw = 4 /\ pic'[0].base = pic[0].base
                              /\ pic'[0].imr = pic[0].imr
         /\ pic[0].icw = 4 => /\ pic'[0].icw = 0 /\ pic'[0].base = pic[0].base
                              /\ pic'[0].imr = pic[0].imr
         /\ pic[0].icw = 0 => /\ pic'[0].icw = 0 /\ pic'[0].base = pic[0].base
                                /\ pic'[0].imr = Bits(v)
<1>1. CASE pic[0].icw = 2
  <2>1. Data(pic, 0, v) = [pic EXCEPT ![0].icw = 3, ![0].base = v]
    BY <1>1 DEF Data
  <2> QED BY <1>1, <2>1 DEF Pair, Controller
<1>2. CASE pic[0].icw = 3
  <2>1. Data(pic, 0, v) = [pic EXCEPT ![0].icw = 4]
    BY <1>2 DEF Data
  <2> QED BY <1>2, <2>1 DEF Pair, Controller
<1>3. CASE pic[0].icw = 4
  <2>1. Data(pic, 0, v) = [pic EXCEPT ![0].icw = 0]
    BY <1>3 DEF Data
  <2> QED BY <1>3, <2>1 DEF Pair, Controller
<1>4. CASE pic[0].icw = 0
  <2>1. Data(pic, 0, v) = [pic EXCEPT ![0].imr = Bits(v)]
    BY <1>4 DEF Data
  <2> QED BY <1>4, <2>1, BitsRange DEF Pair, Controller
<1>5. pic[0].icw \in {0, 2, 3, 4}
  BY DEF Pair, Controller
<1> QED BY <1>1, <1>2, <1>3, <1>4, <1>5

\* The same, of the slave alone.
LEMMA CommandOfSlave ==
  ASSUME pic \in Pair, NEW v \in Nat, pic' = Command(pic, 1, v)
  PROVE  /\ pic' \in Pair /\ pic'[0] = pic[0] /\ pic'[1].base = pic[1].base
         /\ v = \h11 => pic'[1].irr = {} /\ pic'[1].isr = {} /\ pic'[1].icw = 2
         /\ v # \h11 => /\ pic'[1].irr = pic[1].irr /\ pic'[1].isr = pic[1].isr \ {v - \h60}
                        /\ pic'[1].imr = pic[1].imr /\ pic'[1].icw = pic[1].icw
BY DEF Pair, Controller, Command

LEMMA DataOfSlave ==
  ASSUME pic \in Pair, NEW v \in Nat, pic' = Data(pic, 1, v)
  PROVE  /\ pic' \in Pair /\ pic'[0] = pic[0]
         /\ pic'[1].irr = pic[1].irr /\ pic'[1].isr = pic[1].isr
         /\ pic[1].icw = 2 => /\ pic'[1].icw = 3 /\ pic'[1].base = v
                              /\ pic'[1].imr = pic[1].imr
         /\ pic[1].icw = 3 => /\ pic'[1].icw = 4 /\ pic'[1].base = pic[1].base
                              /\ pic'[1].imr = pic[1].imr
         /\ pic[1].icw = 4 => /\ pic'[1].icw = 0 /\ pic'[1].base = pic[1].base
                              /\ pic'[1].imr = pic[1].imr
         /\ pic[1].icw = 0 => /\ pic'[1].icw = 0 /\ pic'[1].base = pic[1].base
                            /\ pic'[1].imr = Bits(v)
<1>1. CASE pic[1].icw = 2
  <2>1. Data(pic, 1, v) = [pic EXCEPT ![1].icw = 3, ![1].base = v]
    BY <1>1 DEF Data
  <2> QED BY <1>1, <2>1 DEF Pair, Controller
<1>2. CASE pic[1].icw = 3
  <2>1. Data(pic, 1, v) = [pic EXCEPT ![1].icw = 4]
    BY <1>2 DEF Data
  <2> QED BY <1>2, <2>1 DEF Pair, Controller
<1>3. CASE pic[1].icw = 4
  <2>1. Data(pic, 1, v) = [pic EXCEPT ![1].icw = 0]
    BY <1>3 DEF Data
  <2> QED BY <1>3, <2>1 DEF Pair, Controller
<1>4. CASE pic[1].icw = 0
  <2>1. Data(pic, 1, v) = [pic EXCEPT ![1].imr = Bits(v)]
    BY <1>4 DEF Data
  <2> QED BY <1>4, <2>1, BitsRange DEF Pair, Controller
<1>5. pic[1].icw \in {0, 2, 3, 4}
  BY DEF Pair, Controller
<1> QED BY <1>1, <1>2, <1>3, <1>4, <1>5

-----------------------------------------------------------------------------
(* What the processor does with an operation.                                *)
LEMMA Operands ==
  /\ \A p, v : Out(p, v)[1] = "_io_out8" /\ Out(p, v)[2] = p /\ Out(p, v)[3] = v
  /\ \A v : Iret(v)[1] = "iret"
  /\ WaitKeyboard[1] = "wait_keyboard_send_ready"
BY DEF Out, Iret, WaitKeyboard

LEMMA Dispatch ==
  ASSUME Execute
  PROVE  /\ todo # <<>>
         /\ todo[1][1] = "_io_out8" => OutPic \/ OutKeyboard
         /\ todo[1][1] = "wait_keyboard_send_ready" => WaitKeyboardSendReady
         /\ todo[1][1] = "initial_idt" => InitialIdt
         /\ todo[1][1] = "initial_serial" => InitialSerial
         /\ todo[1][1] = "kern_exec" => KernExec
         /\ todo[1][1] = "_io_in8" => ReadByte
         /\ todo[1][1] = "k_malloc" => Malloc
         /\ todo[1][1] = "enqueue_event_queue" => EnqueueEventQueue
         /\ todo[1][1] = "write_serial" => WriteSerial
         /\ todo[1][1] = "timers" => Timers
         /\ todo[1][1] = "iret" => Return
<1>1. CASE OutPic
  BY <1>1 DEF OutPic, Now
<1>2. CASE OutKeyboard
  BY <1>2 DEF OutKeyboard, Now
<1>3. CASE WaitKeyboardSendReady
  BY <1>3 DEF WaitKeyboardSendReady, Now
<1>4. CASE InitialIdt
  BY <1>4 DEF InitialIdt, Now
<1>5. CASE InitialSerial
  BY <1>5 DEF InitialSerial, Now
<1>6. CASE KernExec
  BY <1>6 DEF KernExec, Now
<1>7. CASE ReadByte
  BY <1>7 DEF ReadByte, Now
<1>8. CASE Malloc
  BY <1>8 DEF Malloc, Now
<1>9. CASE EnqueueEventQueue
  BY <1>9 DEF EnqueueEventQueue, Now
<1>10. CASE WriteSerial
  BY <1>10 DEF WriteSerial, Now
<1>11. CASE Timers
  BY <1>11 DEF Timers, Now
<1>12. CASE Return
  BY <1>12 DEF Return, Now
<1> QED
  BY <1>1, <1>2, <1>3, <1>4, <1>5, <1>6, <1>7, <1>8, <1>9, <1>10, <1>11, <1>12 DEF Execute

\* A byte for a port of an interrupt controller reaches that controller.
LEMMA PortOfController ==
  ASSUME Execute, NEW port \in {PIC0_OCW2, PIC0_IMR, PIC1_OCW2, PIC1_IMR}, NEW v,
         todo[1] = Out(port, v)
  PROVE  /\ port = PIC0_OCW2 => pic' = Command(pic, 0, v)
         /\ port = PIC1_OCW2 => pic' = Command(pic, 1, v)
         /\ port = PIC0_IMR => pic' = Data(pic, 0, v)
         /\ port = PIC1_IMR => pic' = Data(pic, 1, v)
         /\ todo' = Tail(todo)
         /\ UNCHANGED <<iflag, task, frozen, idt, kbc, uart, accepted>>
<1>1. todo[1][1] = "_io_out8" /\ todo[1][2] = port /\ todo[1][3] = v
  BY Operands
<1>2. PIC0_OCW2 = 32 /\ PIC0_IMR = 33 /\ PIC1_OCW2 = 160 /\ PIC1_IMR = 161
      /\ PORT_KB_DATA = 96 /\ PORT_KB_CMD = 100
  BY DEF PIC0_OCW2, PIC0_IMR, PIC1_OCW2, PIC1_IMR, PORT_KB_DATA, PORT_KB_CMD
<1>3. OutPic
  BY <1>1, <1>2, Dispatch DEF OutKeyboard
<1>4. UNCHANGED <<iflag, task, frozen, idt, kbc, uart, accepted>> /\ todo' = Tail(todo)
  BY <1>3 DEF OutPic, software, Next1
<1>5. \E c \in {0, 1} :
        \/ port = (IF c = 0 THEN PIC0_OCW2 ELSE PIC1_OCW2) /\ pic' = Command(pic, c, v)
        \/ port = (IF c = 0 THEN PIC0_IMR ELSE PIC1_IMR) /\ pic' = Data(pic, c, v)
  BY <1>1, <1>3 DEF OutPic
<1> QED BY <1>2, <1>4, <1>5

\* A byte for the keyboard controller is what it finds next.
LEMMA PortOfKeyboard ==
  ASSUME Execute, NEW port \in {PORT_KB_CMD, PORT_KB_DATA}, NEW v, todo[1] = Out(port, v)
  PROVE  /\ kbc' = [kbc EXCEPT !.in = <<port, v>>] /\ todo' = Tail(todo)
         /\ UNCHANGED <<iflag, task, frozen, idt, pic, uart, accepted>>
<1>1. todo[1][1] = "_io_out8" /\ todo[1][2] = port /\ todo[1][3] = v
  BY Operands
<1>2. PIC0_OCW2 = 32 /\ PIC0_IMR = 33 /\ PIC1_OCW2 = 160 /\ PIC1_IMR = 161
      /\ PORT_KB_DATA = 96 /\ PORT_KB_CMD = 100
  BY DEF PIC0_OCW2, PIC0_IMR, PIC1_OCW2, PIC1_IMR, PORT_KB_DATA, PORT_KB_CMD
<1>3. OutKeyboard
  BY <1>1, <1>2, Dispatch DEF OutPic
<1> QED BY <1>1, <1>3 DEF OutKeyboard, software, Next1

-----------------------------------------------------------------------------
(* kernel_main.                                                              *)
LEMMA BootOperation ==
  ASSUME NEW k \in 1 .. 27, todo = Suffix(kernel_main, k)
  PROVE  /\ todo # <<>> /\ todo[1] = kernel_main[k]
         /\ Tail(todo) = Suffix(kernel_main, k + 1)
         /\ Suffix(kernel_main, 28) = <<>>
<1>1. kernel_main \in Seq(Op) /\ Len(kernel_main) = 27 /\ <<>> \in Seq(Op)
  BY BootRoutine
<1>2. ASSUME NEW i \in 1 .. 28 PROVE Suffix(kernel_main, i) \in Seq(Op)
  <2>0. \A j \in 1 .. Len(kernel_main) : kernel_main[j] \in Op
    BY <1>1, ElementOfSeq
  <2>a. Len(kernel_main) = 27
    BY <1>1
  <2>1. \A j \in i .. 27 : kernel_main[j] \in Op
    BY <2>0, <2>a
  <2>2. SubSeq(kernel_main, i, 27) \in Seq(Op)
    BY <2>1, SubSeqProperties
  <2> QED BY <1>1, <2>2 DEF Suffix
<1>3. \A i \in 1 .. 28 : Suffix(kernel_main, i) \o <<>> = Suffix(kernel_main, i)
  BY <1>2, ConcatEmptySeq
<1>4. k \in 1 .. 28 /\ k + 1 \in 1 .. 28 /\ k \in 1 .. Len(kernel_main)
  BY <1>1
<1>5. LET t == Suffix(kernel_main, k) \o <<>>
      IN  t # <<>> /\ t[1] = kernel_main[k] /\ Tail(t) = Suffix(kernel_main, k + 1) \o <<>>
  BY <1>1, <1>4, SuffixProperties
<1>6. Suffix(kernel_main, 28) = <<>>
  BY <1>1, SubSeqEmpty DEF Suffix
<1> QED BY <1>3, <1>4, <1>5, <1>6

LEMMA BootOps ==
  /\ kernel_main[1] = <<"initial_idt">>
  /\ kernel_main[2] = Out(PIC0_IMR, \hFF) /\ kernel_main[3] = Out(PIC1_IMR, \hFF)
  /\ kernel_main[4] = Out(PIC0_OCW2, \h11) /\ kernel_main[5] = Out(PIC0_IMR, \h20)
  /\ kernel_main[6] = Out(PIC0_IMR, 4) /\ kernel_main[7] = Out(PIC0_IMR, 1)
  /\ kernel_main[8] = Out(PIC1_OCW2, \h11) /\ kernel_main[9] = Out(PIC1_IMR, PIC1_BASE)
  /\ kernel_main[10] = Out(PIC1_IMR, 2) /\ kernel_main[11] = Out(PIC1_IMR, 1)
  /\ kernel_main[12] = Out(PIC0_IMR, \hFB) /\ kernel_main[13] = Out(PIC1_IMR, \hFF)
  /\ kernel_main[14] = Out(PIC0_IMR, \hF9) /\ kernel_main[15] = Out(PIC1_IMR, \hEF)
  /\ kernel_main[16] = WaitKeyboard /\ kernel_main[17] = Out(PORT_KB_CMD, \h60)
  /\ kernel_main[18] = WaitKeyboard /\ kernel_main[19] = Out(PORT_KB_DATA, \h47)
  /\ kernel_main[20] = Out(PIC0_IMR, \hF8) /\ kernel_main[21] = <<"initial_serial">>
  /\ kernel_main[22] = WaitKeyboard /\ kernel_main[23] = Out(PORT_KB_CMD, \hD4)
  /\ kernel_main[24] = WaitKeyboard /\ kernel_main[25] = Out(PORT_KB_DATA, \hF4)
  /\ kernel_main[26] = Out(PIC1_IMR, \hEF) /\ kernel_main[27] = <<"kern_exec">>
<1>1. /\ kernel_main[2] = initial_pic[1] /\ kernel_main[3] = initial_pic[2]
      /\ kernel_main[4] = initial_pic[3] /\ kernel_main[5] = initial_pic[4]
      /\ kernel_main[6] = initial_pic[5] /\ kernel_main[7] = initial_pic[6]
      /\ kernel_main[8] = initial_pic[7] /\ kernel_main[9] = initial_pic[8]
      /\ kernel_main[10] = initial_pic[9] /\ kernel_main[11] = initial_pic[10]
      /\ kernel_main[12] = initial_pic[11] /\ kernel_main[13] = initial_pic[12]
  BY BootRoutine
<1>2. /\ kernel_main[14] = initial_keyboard[1] /\ kernel_main[15] = initial_keyboard[2]
      /\ kernel_main[16] = initial_keyboard[3] /\ kernel_main[17] = initial_keyboard[4]
      /\ kernel_main[18] = initial_keyboard[5] /\ kernel_main[19] = initial_keyboard[6]
  BY BootRoutine
<1>3. /\ kernel_main[22] = initial_mouse[1] /\ kernel_main[23] = initial_mouse[2]
      /\ kernel_main[24] = initial_mouse[3] /\ kernel_main[25] = initial_mouse[4]
  BY BootRoutine
<1> QED BY <1>1, <1>2, <1>3, BootRoutine, PicRoutine, KeyboardRoutine, MouseRoutine

\* What the invariant says of operation k of kernel_main.
BootAt(k) == ~ iflag /\ Serving({}, {}) /\ SetUp(k) /\ CommandsInv(k)

LEMMA SameCommands ==
  ASSUME NEW k \in 1 .. 27, k \notin {17, 19, 23, 25}, k + 1 \notin {17, 19, 23, 25},
         CommandsInv(k), UNCHANGED <<kbc, accepted>>
  PROVE  CommandsInv(k + 1)'
<1>1. Sent(k + 1) = Sent(k)
  BY DEF Sent
<1> QED BY <1>1 DEF CommandsInv

\* Masks and initialisation words (kernel_inits.c:88-100).
LEMMA BootControllers ==
  ASSUME TypeOK, Execute, NEW k \in (2 .. 15) \cup {20, 26},
         todo = Suffix(kernel_main, k), BootAt(k)
  PROVE  /\ BootAt(k + 1)' /\ pic' \in Pair
         /\ pic'[0].irr \subseteq pic[0].irr /\ pic'[1].irr \subseteq pic[1].irr
         /\ todo' = Tail(todo) /\ UNCHANGED <<iflag, task, frozen, kbc, uart>>
<1>0. pic \in Pair
  BY DEF TypeOK, Pair
<1>a. k \in 1 .. 27
  OBVIOUS
<1>b. todo[1] = kernel_main[k]
  BY <1>a, BootOperation
<1>c. PIC1_BASE \in Nat /\ \h11 \in Nat
  BY DEF PIC1_BASE
<1>1. \E port \in {PIC0_OCW2, PIC0_IMR, PIC1_OCW2, PIC1_IMR}, v \in Nat : todo[1] = Out(port, v)
  BY <1>b, <1>c, BootOps
<1>2. /\ todo' = Tail(todo) /\ UNCHANGED <<iflag, task, frozen, idt, kbc, uart, accepted>>
  BY <1>1, PortOfController
<1>3. CommandsInv(k + 1)'
  BY <1>a, <1>2, SameCommands DEF BootAt
<1> DEFINE Goal == /\ SetUp(k + 1)' /\ Serving({}, {})' /\ pic' \in Pair
                   /\ pic'[0].irr \subseteq pic[0].irr /\ pic'[1].irr \subseteq pic[1].irr
<1>4. ASSUME NEW v \in Nat, pic' = Data(pic, 0, v),
             k \in {2, 5, 6, 7, 12, 14, 20}, k = 5 => v = \h20, k = 20 => v = \hF8
      PROVE  Goal
  <2>1. /\ pic' \in Pair /\ pic'[1] = pic[1]
        /\ pic'[0].irr = pic[0].irr /\ pic'[0].isr = pic[0].isr
        /\ pic[0].icw = 2 => /\ pic'[0].icw = 3 /\ pic'[0].base = v
                             /\ pic'[0].imr = pic[0].imr
        /\ pic[0].icw = 3 => /\ pic'[0].icw = 4 /\ pic'[0].base = pic[0].base
                             /\ pic'[0].imr = pic[0].imr
        /\ pic[0].icw = 4 => /\ pic'[0].icw = 0 /\ pic'[0].base = pic[0].base
                             /\ pic'[0].imr = pic[0].imr
        /\ pic[0].icw = 0 => /\ pic'[0].icw = 0 /\ pic'[0].base = pic[0].base
                             /\ pic'[0].imr = Bits(v)
    BY <1>0, <1>4, DataOfMaster
  <2> QED BY <1>2, <1>4, <2>1 DEF Goal, BootAt, Serving, SetUp
<1>5. ASSUME NEW v \in Nat, pic' = Data(pic, 1, v),
             k \in {3, 9, 10, 11, 13, 15, 26},
             k = 9 => v = PIC1_BASE, k \in {15, 26} => v = \hEF
      PROVE  Goal
  <2>1. /\ pic' \in Pair /\ pic'[0] = pic[0]
        /\ pic'[1].irr = pic[1].irr /\ pic'[1].isr = pic[1].isr
        /\ pic[1].icw = 2 => /\ pic'[1].icw = 3 /\ pic'[1].base = v
                             /\ pic'[1].imr = pic[1].imr
        /\ pic[1].icw = 3 => /\ pic'[1].icw = 4 /\ pic'[1].base = pic[1].base
                             /\ pic'[1].imr = pic[1].imr
        /\ pic[1].icw = 4 => /\ pic'[1].icw = 0 /\ pic'[1].base = pic[1].base
                             /\ pic'[1].imr = pic[1].imr
        /\ pic[1].icw = 0 => /\ pic'[1].icw = 0 /\ pic'[1].base = pic[1].base
                             /\ pic'[1].imr = Bits(v)
    BY <1>0, <1>5, DataOfSlave
  <2> QED BY <1>2, <1>5, <2>1 DEF Goal, BootAt, Serving, SetUp
<1>6. ASSUME pic' = Command(pic, 0, \h11), k = 4 PROVE Goal
  <2>1. /\ pic' \in Pair /\ pic'[1] = pic[1] /\ pic'[0].base = pic[0].base
        /\ pic'[0].irr = {} /\ pic'[0].isr = {} /\ pic'[0].icw = 2
    BY <1>0, <1>6, CommandOfMaster
  <2> QED BY <1>2, <1>6, <2>1 DEF Goal, BootAt, Serving, SetUp
<1>7. ASSUME pic' = Command(pic, 1, \h11), k = 8 PROVE Goal
  <2>1. /\ pic' \in Pair /\ pic'[0] = pic[0] /\ pic'[1].base = pic[1].base
        /\ pic'[1].irr = {} /\ pic'[1].isr = {} /\ pic'[1].icw = 2
    BY <1>0, <1>7, CommandOfSlave
  <2> QED BY <1>2, <1>7, <2>1 DEF Goal, BootAt, Serving, SetUp
<1> HIDE DEF Goal
<1>8. ASSUME NEW v \in Nat, todo[1] = Out(PIC0_IMR, v),
             k \in {2, 5, 6, 7, 12, 14, 20}, k = 5 => v = \h20, k = 20 => v = \hF8
      PROVE  Goal
  BY <1>4, <1>8, PortOfController
<1>9. ASSUME NEW v \in Nat, todo[1] = Out(PIC1_IMR, v),
             k \in {3, 9, 10, 11, 13, 15, 26},
             k = 9 => v = PIC1_BASE, k \in {15, 26} => v = \hEF
      PROVE  Goal
  BY <1>5, <1>9, PortOfController
<1>10. ASSUME k = 4 PROVE Goal
  <2>1. todo[1] = Out(PIC0_OCW2, \h11)
    BY <1>b, <1>10, BootOps
  <2> QED BY <1>6, <1>10, <2>1, PortOfController
<1>11. ASSUME k = 8 PROVE Goal
  <2>1. todo[1] = Out(PIC1_OCW2, \h11)
    BY <1>b, <1>11, BootOps
  <2> QED BY <1>7, <1>11, <2>1, PortOfController
<1>13. ASSUME k = 2 PROVE Goal
  <2>1. todo[1] = Out(PIC0_IMR, \hFF)
    BY <1>b, <1>13, BootOps
  <2> QED BY <1>c, <1>8, <1>13, <2>1
<1>14. ASSUME k = 5 PROVE Goal
  <2>1. todo[1] = Out(PIC0_IMR, \h20)
    BY <1>b, <1>14, BootOps
  <2> QED BY <1>c, <1>8, <1>14, <2>1
<1>15. ASSUME k = 6 PROVE Goal
  <2>1. todo[1] = Out(PIC0_IMR, 4)
    BY <1>b, <1>15, BootOps
  <2> QED BY <1>c, <1>8, <1>15, <2>1
<1>16. ASSUME k = 7 PROVE Goal
  <2>1. todo[1] = Out(PIC0_IMR, 1)
    BY <1>b, <1>16, BootOps
  <2> QED BY <1>c, <1>8, <1>16, <2>1
<1>17. ASSUME k = 12 PROVE Goal
  <2>1. todo[1] = Out(PIC0_IMR, \hFB)
    BY <1>b, <1>17, BootOps
  <2> QED BY <1>c, <1>8, <1>17, <2>1
<1>18. ASSUME k = 14 PROVE Goal
  <2>1. todo[1] = Out(PIC0_IMR, \hF9)
    BY <1>b, <1>18, BootOps
  <2> QED BY <1>c, <1>8, <1>18, <2>1
<1>19. ASSUME k = 20 PROVE Goal
  <2>1. todo[1] = Out(PIC0_IMR, \hF8)
    BY <1>b, <1>19, BootOps
  <2> QED BY <1>c, <1>8, <1>19, <2>1
<1>20. ASSUME k = 3 PROVE Goal
  <2>1. todo[1] = Out(PIC1_IMR, \hFF)
    BY <1>b, <1>20, BootOps
  <2> QED BY <1>c, <1>9, <1>20, <2>1
<1>21. ASSUME k = 9 PROVE Goal
  <2>1. todo[1] = Out(PIC1_IMR, PIC1_BASE)
    BY <1>b, <1>21, BootOps
  <2> QED BY <1>c, <1>9, <1>21, <2>1
<1>22. ASSUME k = 10 PROVE Goal
  <2>1. todo[1] = Out(PIC1_IMR, 2)
    BY <1>b, <1>22, BootOps
  <2> QED BY <1>c, <1>9, <1>22, <2>1
<1>23. ASSUME k = 11 PROVE Goal
  <2>1. todo[1] = Out(PIC1_IMR, 1)
    BY <1>b, <1>23, BootOps
  <2> QED BY <1>c, <1>9, <1>23, <2>1
<1>24. ASSUME k = 13 PROVE Goal
  <2>1. todo[1] = Out(PIC1_IMR, \hFF)
    BY <1>b, <1>24, BootOps
  <2> QED BY <1>c, <1>9, <1>24, <2>1
<1>25. ASSUME k = 15 PROVE Goal
  <2>1. todo[1] = Out(PIC1_IMR, \hEF)
    BY <1>b, <1>25, BootOps
  <2> QED BY <1>c, <1>9, <1>25, <2>1
<1>26. ASSUME k = 26 PROVE Goal
  <2>1. todo[1] = Out(PIC1_IMR, \hEF)
    BY <1>b, <1>26, BootOps
  <2> QED BY <1>c, <1>9, <1>26, <2>1
<1>27. Goal
  BY <1>10, <1>11, <1>13, <1>14, <1>15, <1>16, <1>17, <1>18, <1>19,
     <1>20, <1>21, <1>22, <1>23, <1>24, <1>25, <1>26
<1> QED BY <1>2, <1>3, <1>27 DEF Goal, BootAt

-----------------------------------------------------------------------------
(* The keyboard controller and the serial port.                              *)
Keyboard == [in : {Nothing} \cup (Nat \X Nat),
             out : {Nothing} \cup ({"keyboard", "mouse"} \X Nat),
             expects : Nat, config : SUBSET (0 .. 7), reporting : BOOLEAN]
Port == [busy : BOOLEAN, interrupts : BOOLEAN]

LEMMA KeyboardProperties ==
  ASSUME NEW b \in Keyboard
  PROVE  /\ \A x \in {Nothing} \cup (Nat \X Nat) :
              [b EXCEPT !.in = x] \in Keyboard /\ [b EXCEPT !.in = x].in = x
         /\ \A x \in {Nothing} \cup ({"keyboard", "mouse"} \X Nat) :
              [b EXCEPT !.out = x] \in Keyboard /\ [b EXCEPT !.out = x].in = b.in
BY DEF Keyboard

LEMMA PortProperties ==
  ASSUME NEW u \in Port, NEW x \in BOOLEAN
  PROVE  /\ [u EXCEPT !.busy = x] \in Port
         /\ [u EXCEPT !.busy = x].interrupts = u.interrupts
BY DEF Port

\* The commands, and how many of them have been sent at each place.
LEMMA CommandValues ==
  /\ Commands \in Seq(Nat \X Nat) /\ Len(Commands) = 4
  /\ Commands[1] = <<PORT_KB_CMD, \h60>> /\ Commands[2] = <<PORT_KB_DATA, \h47>>
  /\ Commands[3] = <<PORT_KB_CMD, \hD4>> /\ Commands[4] = <<PORT_KB_DATA, \hF4>>
  /\ \A i \in 1 .. 4 : Commands[i] \in Nat \X Nat /\ Commands[i] # Nothing
BY DEF Commands, PORT_KB_CMD, PORT_KB_DATA, Nothing

LEMMA CommandParts ==
  /\ Commands[1][1] = PORT_KB_CMD /\ Commands[1][2] = \h60
  /\ Commands[2][1] = PORT_KB_DATA /\ Commands[2][2] = \h47
  /\ Commands[3][1] = PORT_KB_CMD /\ Commands[3][2] = \hD4
  /\ Commands[4][1] = PORT_KB_DATA /\ Commands[4][2] = \hF4
BY CommandValues

LEMMA SentValues ==
  /\ \A k \in 1 .. 28 : Sent(k) \in 0 .. 4
  /\ Sent(16) = 0 /\ Sent(17) = 0 /\ Sent(18) = 1 /\ Sent(19) = 1 /\ Sent(20) = 2
  /\ Sent(22) = 2 /\ Sent(23) = 2 /\ Sent(24) = 3 /\ Sent(25) = 3 /\ Sent(26) = 4
  /\ Sent(27) = 4 /\ Sent(28) = 4
BY DEF Sent

LEMMA TypeParts ==
  TypeOK <=> /\ iflag \in BOOLEAN /\ task \in Task /\ frozen \in [Task -> Frozen]
             /\ pic \in Pair /\ kbc \in Keyboard /\ uart \in Port
             /\ pic[0].irr \subseteq {0, 1, 4} /\ pic[1].irr \subseteq {4, 6}
BY DEF TypeOK, Pair, Keyboard, Port

\* An operation that is for neither controller and changes no interrupt of the port.
LEMMA SameSetUp ==
  ASSUME NEW k \in {16, 17, 18, 19, 22, 23, 24, 25, 27}, SetUp(k), Serving({}, {}),
         UNCHANGED <<idt, pic, uart>>
  PROVE  SetUp(k + 1)' /\ Serving({}, {})'
<1>1. /\ k > 15 /\ k + 1 > 15 /\ k \notin 5 .. 7 /\ k \notin 9 .. 11
      /\ k + 1 \notin 5 .. 7 /\ k + 1 \notin 9 .. 11
      /\ (k + 1 > 20 => k > 20) /\ (k + 1 > 21 => k > 21)
      /\ k > 1 /\ k > 5 /\ k > 9
  OBVIOUS
<1>2. /\ idt = Gates /\ pic[0].icw = 0 /\ pic[1].icw = 0
      /\ pic[0].base = \h20 /\ pic[1].base = PIC1_BASE /\ pic[1].imr = Bits(\hEF)
      /\ (k > 20 => pic[0].imr = Bits(\hF8)) /\ (k > 21 => ~ uart.interrupts)
  BY <1>1 DEF SetUp
<1>3. SetUp(k + 1)'
  BY <1>1, <1>2 DEF SetUp
<1>4. Serving({}, {})'
  BY DEF Serving
<1> QED BY <1>3, <1>4

\* An operation that writes a command to the keyboard controller, which has
\* taken the last one.
LEMMA BootCommands ==
  ASSUME TypeOK, Execute, NEW k \in {17, 19, 23, 25},
         todo = Suffix(kernel_main, k), BootAt(k)
  PROVE  /\ BootAt(k + 1)' /\ kbc' \in Keyboard
         /\ todo' = Tail(todo) /\ UNCHANGED <<iflag, task, frozen, pic, uart>>
<1>1. k \in 1 .. 27 /\ kbc \in Keyboard
  BY TypeParts
<1>2. todo[1] = kernel_main[k]
  BY <1>1, BootOperation
<1> DEFINE n == Sent(k + 1)
<1>3. n \in 1 .. 4 /\ Sent(k) = n - 1
  BY SentValues
<1>4. todo[1] = Out(Commands[n][1], Commands[n][2])
      /\ Commands[n] = <<Commands[n][1], Commands[n][2]>>
      /\ Commands[n][1] \in {PORT_KB_CMD, PORT_KB_DATA}
  <2>1. CASE k = 17
    <3>1. n = 1
      BY <2>1, SentValues
    <3>2. todo[1] = Out(PORT_KB_CMD, \h60)
      BY <1>2, <2>1, BootOps
    <3>3. Commands[1][1] = PORT_KB_CMD /\ Commands[1][2] = \h60
      BY CommandParts
    <3>4. Commands[n] = Commands[1]
      BY <3>1
    <3> QED BY <3>2, <3>3, <3>4, CommandValues
  <2>2. CASE k = 19
    <3>1. n = 2
      BY <2>2, SentValues
    <3>2. todo[1] = Out(PORT_KB_DATA, \h47)
      BY <1>2, <2>2, BootOps
    <3>3. Commands[2][1] = PORT_KB_DATA /\ Commands[2][2] = \h47
      BY CommandParts
    <3>4. Commands[n] = Commands[2]
      BY <3>1
    <3> QED BY <3>2, <3>3, <3>4, CommandValues
  <2>3. CASE k = 23
    <3>1. n = 3
      BY <2>3, SentValues
    <3>2. todo[1] = Out(PORT_KB_CMD, \hD4)
      BY <1>2, <2>3, BootOps
    <3>3. Commands[3][1] = PORT_KB_CMD /\ Commands[3][2] = \hD4
      BY CommandParts
    <3>4. Commands[n] = Commands[3]
      BY <3>1
    <3> QED BY <3>2, <3>3, <3>4, CommandValues
  <2>4. CASE k = 25
    <3>1. n = 4
      BY <2>4, SentValues
    <3>2. todo[1] = Out(PORT_KB_DATA, \hF4)
      BY <1>2, <2>4, BootOps
    <3>3. Commands[4][1] = PORT_KB_DATA /\ Commands[4][2] = \hF4
      BY CommandParts
    <3>4. Commands[n] = Commands[4]
      BY <3>1
    <3> QED BY <3>2, <3>3, <3>4, CommandValues
  <2> QED BY <2>1, <2>2, <2>3, <2>4
<1>5. /\ kbc' = [kbc EXCEPT !.in = Commands[n]] /\ todo' = Tail(todo)
      /\ UNCHANGED <<iflag, task, frozen, idt, pic, uart, accepted>>
  BY <1>4, PortOfKeyboard
<1> HIDE DEF n
<1>6. Commands[n] \in Nat \X Nat /\ Commands[n] # Nothing
  BY <1>3, CommandValues
<1>7. kbc' \in Keyboard /\ kbc'.in = Commands[n]
  BY <1>1, <1>5, <1>6, KeyboardProperties
<1>8. accepted = SubSeq(Commands, 1, n - 1)
  BY <1>3, CommandValues DEF BootAt, CommandsInv
<1>9. CommandsInv(k + 1)'
  BY <1>3, <1>5, <1>7, <1>8 DEF CommandsInv, n
<1>10. SetUp(k + 1)' /\ Serving({}, {})' /\ ~ iflag'
  BY <1>5, SameSetUp DEF BootAt
<1> QED BY <1>5, <1>7, <1>9, <1>10 DEF BootAt

\* wait_keyboard_send_ready ends when the controller has taken the byte.
LEMMA BootWaits ==
  ASSUME TypeOK, Execute, NEW k \in {16, 18, 22, 24},
         todo = Suffix(kernel_main, k), BootAt(k)
  PROVE  /\ BootAt(k + 1)' /\ todo' = Tail(todo)
         /\ UNCHANGED <<iflag, task, frozen, pic, kbc, uart>>
<1>0. k \in 1 .. 27
  OBVIOUS
<1>1. todo[1] = kernel_main[k]
  BY <1>0, BootOperation
<1>2. todo[1][1] = "wait_keyboard_send_ready"
  BY <1>1, BootOps, Operands
<1>3. WaitKeyboardSendReady
  BY <1>2, Dispatch
<1>4. kbc.in = Nothing /\ todo' = Tail(todo)
      /\ UNCHANGED <<iflag, task, frozen, idt, pic, kbc, uart, accepted>>
  BY <1>3 DEF WaitKeyboardSendReady, Next1, software, hardware
<1>5. Sent(k + 1) = Sent(k) /\ Sent(k) \in 0 .. 4
  BY SentValues
<1>6. accepted = SubSeq(Commands, 1, Sent(k))
  BY <1>4, <1>5, CommandValues DEF BootAt, CommandsInv
<1>7. CommandsInv(k + 1)'
  BY <1>4, <1>5, <1>6 DEF CommandsInv
<1>8. SetUp(k + 1)' /\ Serving({}, {})' /\ ~ iflag'
  BY <1>4, SameSetUp DEF BootAt
<1> QED BY <1>4, <1>7, <1>8 DEF BootAt

\* The gates and the serial port.
LEMMA BootOthers ==
  ASSUME TypeOK, Execute, NEW k \in {1, 21}, todo = Suffix(kernel_main, k), BootAt(k)
  PROVE  /\ BootAt(k + 1)' /\ uart' \in Port
         /\ todo' = Tail(todo) /\ UNCHANGED <<iflag, task, frozen, pic, kbc>>
<1>a. k \in 1 .. 27
  OBVIOUS
<1>0. todo[1] = kernel_main[k] /\ uart \in Port
  BY <1>a, BootOperation, TypeParts
<1>1. CASE k = 1
  <2>1. InitialIdt
    BY <1>0, <1>1, BootOps, Dispatch
  <2>2. idt' = Gates /\ todo' = Tail(todo)
        /\ UNCHANGED <<iflag, task, frozen, pic, kbc, uart, accepted>>
    BY <2>1 DEF InitialIdt, Next1, hardware
  <2>3. CommandsInv(k + 1)'
    BY <1>1, <2>2, SameCommands DEF BootAt
  <2>4. SetUp(k + 1)' /\ Serving({}, {})' /\ ~ iflag'
    BY <1>1, <2>2 DEF BootAt, SetUp, Serving
  <2> QED BY <1>0, <2>2, <2>3, <2>4 DEF BootAt
<1>2. CASE k = 21
  <2>1. InitialSerial
    BY <1>0, <1>2, BootOps, Dispatch
  <2>2. uart' = [busy |-> TRUE, interrupts |-> FALSE] /\ todo' = Tail(todo)
        /\ UNCHANGED <<iflag, task, frozen, idt, pic, kbc, accepted>>
    BY <2>1 DEF InitialSerial, Next1, software
  <2>3. CommandsInv(k + 1)'
    BY <1>2, <2>2, SameCommands DEF BootAt
  <2>4. uart' \in Port /\ ~ uart'.interrupts
    BY <2>2 DEF Port
  <2>5. SetUp(k + 1)' /\ Serving({}, {})' /\ ~ iflag'
    BY <1>2, <2>2, <2>4 DEF BootAt, SetUp, Serving
  <2> QED BY <2>2, <2>3, <2>4, <2>5 DEF BootAt
<1> QED BY <1>1, <1>2

LEMMA Places ==
  /\ \A k \in 1 .. 27 : todo = Suffix(kernel_main, k) /\ BootAt(k) => Booting
  /\ Booting => \E k \in 1 .. 27 : todo = Suffix(kernel_main, k) /\ BootAt(k)
  /\ Booted <=> /\ SetUp(28) /\ CommandsInv(28)
                /\ InHandler \/ (todo \in Rest /\ Serving({}, {}))
<1>1. kernel_main \in Seq(Op) /\ Len(kernel_main) = 27
  BY BootRoutine
<1>2. DOMAIN kernel_main = 1 .. Len(kernel_main)
  BY <1>1
<1> QED BY <1>1, <1>2 DEF Booting, Booted, BootAt

LEMMA BootedNext ==
  ASSUME SetUp(28)', CommandsInv(28)', InHandler' \/ (todo' \in Rest /\ Serving({}, {})')
  PROVE  Booted'
<1>1. Len(kernel_main) + 1 = 28
  BY BootRoutine
<1> QED BY <1>1 DEF Booted

\* kern_exec turns interrupts on, and everything is set up (kernel_main.c).
LEMMA BootEnds ==
  ASSUME TypeOK, Execute, todo = Suffix(kernel_main, 27), BootAt(27)
  PROVE  IInv'
<1>1. todo[1] = <<"kern_exec">> /\ Tail(todo) = <<>>
  <2>1. 27 \in 1 .. 27 /\ 27 + 1 = 28
    OBVIOUS
  <2>2. /\ todo[1] = kernel_main[27] /\ Tail(todo) = Suffix(kernel_main, 27 + 1)
        /\ Suffix(kernel_main, 28) = <<>>
    BY <2>1, BootOperation
  <2> QED BY <2>1, <2>2, BootOps
<1>2. KernExec
  BY <1>1, Dispatch
<1>3. iflag' = TRUE /\ todo' = <<>>
      /\ UNCHANGED <<task, frozen, idt, pic, kbc, uart, accepted>>
  BY <1>1, <1>2 DEF KernExec, Next1, software, hardware
<1>4. CommandsInv(28)'
  <2>1. 27 \in 1 .. 27 /\ 27 \notin {17, 19, 23, 25} /\ 27 + 1 \notin {17, 19, 23, 25}
    OBVIOUS
  <2>2. CommandsInv(27 + 1)'
    BY <1>3, <2>1, SameCommands DEF BootAt
  <2> QED BY <2>2
<1>5. SetUp(28)' /\ Serving({}, {})'
  BY <1>3 DEF BootAt, SetUp, Serving
<1>6. todo' \in Rest
  BY <1>3 DEF Rest
<1>7. TypeOK'
  BY <1>3 DEF TypeOK
<1> QED BY <1>4, <1>5, <1>6, <1>7, BootedNext DEF IInv

LEMMA BootStep ==
  ASSUME TypeOK, Booting, Execute
  PROVE  IInv'
<1>1. PICK k \in 1 .. 27 : todo = Suffix(kernel_main, k) /\ BootAt(k)
  BY Places
<1>2. ASSUME k < 27, BootAt(k + 1)', todo' = Tail(todo) PROVE Booting'
  <2>1. todo' = Suffix(kernel_main, k + 1)
    BY <1>1, <1>2, BootOperation
  <2>2. k + 1 \in 1 .. 27
    BY <1>2
  <2>3. DOMAIN kernel_main = 1 .. 27
    BY BootRoutine
  <2> QED BY <1>2, <2>1, <2>2, <2>3 DEF Booting, BootAt
<1>3. CASE k \in (2 .. 15) \cup {20, 26}
  <2>1. /\ BootAt(k + 1)' /\ pic' \in Pair
        /\ pic'[0].irr \subseteq pic[0].irr /\ pic'[1].irr \subseteq pic[1].irr
        /\ todo' = Tail(todo) /\ UNCHANGED <<iflag, task, frozen, kbc, uart>>
    BY <1>1, <1>3, BootControllers
  <2>2. TypeOK'
    BY <2>1 DEF TypeOK, Pair
  <2> QED BY <1>2, <1>3, <2>1, <2>2 DEF IInv
<1>4. CASE k \in {17, 19, 23, 25}
  <2>1. /\ BootAt(k + 1)' /\ kbc' \in Keyboard
        /\ todo' = Tail(todo) /\ UNCHANGED <<iflag, task, frozen, pic, uart>>
    BY <1>1, <1>4, BootCommands
  <2>2. TypeOK'
    BY <2>1 DEF TypeOK, Keyboard
  <2> QED BY <1>2, <1>4, <2>1, <2>2 DEF IInv
<1>5. CASE k \in {16, 18, 22, 24}
  <2>1. /\ BootAt(k + 1)' /\ todo' = Tail(todo)
        /\ UNCHANGED <<iflag, task, frozen, pic, kbc, uart>>
    BY <1>1, <1>5, BootWaits
  <2>2. TypeOK'
    BY <2>1 DEF TypeOK
  <2> QED BY <1>2, <1>5, <2>1, <2>2 DEF IInv
<1>6. CASE k \in {1, 21}
  <2>1. /\ BootAt(k + 1)' /\ uart' \in Port
        /\ todo' = Tail(todo) /\ UNCHANGED <<iflag, task, frozen, pic, kbc>>
    BY <1>1, <1>6, BootOthers
  <2>2. TypeOK'
    BY <2>1 DEF TypeOK, Port
  <2> QED BY <1>2, <1>6, <2>1, <2>2 DEF IInv
<1>7. CASE k = 27
  BY <1>1, <1>7, BootEnds
<1> QED BY <1>3, <1>4, <1>5, <1>6, <1>7

-----------------------------------------------------------------------------
(* After kern_exec.                                                          *)
LEMMA SetUpKept ==
  ASSUME SetUp(28), UNCHANGED idt, uart'.interrupts = uart.interrupts,
         \A c \in {0, 1} : /\ pic'[c].icw = pic[c].icw /\ pic'[c].base = pic[c].base
                           /\ pic'[c].imr = pic[c].imr
  PROVE  SetUp(28)'
<1>1. /\ pic'[0].icw = pic[0].icw /\ pic'[0].base = pic[0].base /\ pic'[0].imr = pic[0].imr
      /\ pic'[1].icw = pic[1].icw /\ pic'[1].base = pic[1].base /\ pic'[1].imr = pic[1].imr
  OBVIOUS
<1> QED BY <1>1 DEF SetUp

LEMMA CommandsKept ==
  ASSUME CommandsInv(28), kbc'.in = kbc.in, UNCHANGED accepted
  PROVE  CommandsInv(28)'
BY DEF CommandsInv

\* The operation of a handler that is next, and where the processor is after it.
LEMMA HandlerOperation ==
  ASSUME NEW h \in Seq(Op), NEW k \in 1 .. Len(h), In(h, k)
  PROVE  /\ todo # <<>> /\ todo[1] = h[k]
         /\ k < Len(h) => \E r \in Rest : Tail(todo) = Suffix(h, k + 1) \o r
         /\ k = Len(h) => Tail(todo) \in Rest
<1>1. PICK r \in Rest : todo = Suffix(h, k) \o r
  BY DEF In
<1>2. r \in Seq(Op)
  BY RestIsSeq
<1>3. /\ todo # <<>> /\ todo[1] = h[k] /\ Tail(todo) = Suffix(h, k + 1) \o r
  BY <1>1, <1>2, SuffixProperties
<1>4. Suffix(h, Len(h) + 1) \o r = r
  BY <1>2, SuffixEnds
<1>5. k = Len(h) => Tail(todo) = r
  BY <1>3, <1>4
<1> QED BY <1>3, <1>5

LEMMA FirstIs ==
  ASSUME NEW S, S \subseteq Int, NEW n \in S, \A i \in S : n <= i
  PROVE  First(S) = n
<1>1. \E l \in S : \A i \in S : l <= i
  OBVIOUS
<1>2. First(S) \in S /\ \A i \in S : First(S) <= i
  BY <1>1 DEF First
<1>3. First(S) \in Int /\ n \in Int /\ First(S) <= n /\ n <= First(S)
  BY <1>2
<1> QED BY <1>3

\* Without memory the handler goes on at its return.
LEMMA JumpToReturn ==
  ASSUME NEW h \in Seq(Op), NEW k \in 1 .. Len(h), NEW r \in Seq(Op),
         NEW t, t = Suffix(h, k) \o r,
         h[Len(h)][1] = "iret", \A i \in k .. Len(h) - 1 : h[i][1] # "iret"
  PROVE  SubSeq(t, First({i \in DOMAIN t : t[i][1] = "iret"}), Len(t))
           = Suffix(h, Len(h)) \o r
<1> DEFINE a == Suffix(h, k)
           b == Suffix(h, Len(h))
           n == Len(h) - k + 1
           S == {i \in DOMAIN t : t[i][1] = "iret"}
<1>0. /\ Len(h) \in Nat /\ Len(r) \in Nat /\ k \in Nat /\ n \in Nat /\ n >= 1
      /\ Len(h) = n + k - 1
  OBVIOUS
<1>1. /\ a \in Seq(Op) /\ Len(a) = n /\ \A i \in 1 .. n : a[i] = h[k + i - 1]
  BY SuffixElements
<1>2. b \in Seq(Op) /\ Len(b) = 1 /\ b[1] = h[Len(h)]
  <2>1. Len(h) \in 1 .. Len(h) /\ 1 \in 1 .. Len(h) - Len(h) + 1
    BY <1>0
  <2>2. /\ b \in Seq(Op) /\ Len(b) = Len(h) - Len(h) + 1
        /\ \A i \in 1 .. Len(h) - Len(h) + 1 : b[i] = h[Len(h) + i - 1]
    BY <2>1, SuffixElements
  <2> QED BY <1>0, <2>1, <2>2
<1> HIDE DEF a, b, n
<1>3. /\ t \in Seq(Op) /\ Len(t) = n + Len(r)
      /\ \A i \in 1 .. n + Len(r) : t[i] = IF i <= n THEN a[i] ELSE r[i - n]
  <2>1. t = a \o r
    BY DEF a
  <2>2. /\ a \o r \in Seq(Op) /\ Len(a \o r) = Len(a) + Len(r)
        /\ \A i \in 1 .. Len(a) + Len(r) :
             (a \o r)[i] = IF i <= Len(a) THEN a[i] ELSE r[i - Len(a)]
    BY <1>1, ConcatProperties
  <2> QED BY <1>1, <2>1, <2>2
<1>4. n \in S
  BY <1>0, <1>1, <1>3
<1>5. \A i \in S : n <= i
  <2>1. SUFFICES ASSUME NEW i \in 1 .. n - 1 PROVE t[i][1] # "iret"
    BY <1>0, <1>3
  <2>a. i \in 1 .. n /\ i \in 1 .. n + Len(r) /\ i <= n
    BY <1>0
  <2>2. t[i] = a[i] /\ a[i] = h[k + i - 1]
    BY <1>1, <1>3, <2>a
  <2>3. k + i - 1 \in k .. Len(h) - 1
    BY <1>0
  <2> QED BY <2>2, <2>3
<1>6. S \subseteq Int
  BY <1>3
<1> HIDE DEF S
<1>7. First(S) = n
  BY <1>4, <1>5, <1>6, FirstIs
<1>8. /\ SubSeq(t, n, Len(t)) \in Seq(Op) /\ Len(SubSeq(t, n, Len(t))) = 1 + Len(r)
      /\ \A i \in 1 .. 1 + Len(r) : SubSeq(t, n, Len(t))[i] = t[n + i - 1]
  <2>1. n \in 1 .. Len(t) /\ Len(t) - n + 1 = 1 + Len(r) /\ t \in Seq(Op)
    BY <1>0, <1>3
  <2>2. /\ Suffix(t, n) \in Seq(Op) /\ Len(Suffix(t, n)) = Len(t) - n + 1
        /\ \A i \in 1 .. Len(t) - n + 1 : Suffix(t, n)[i] = t[n + i - 1]
    BY <2>1, SuffixElements
  <2> QED BY <2>1, <2>2 DEF Suffix
<1>9. /\ b \o r \in Seq(Op) /\ Len(b \o r) = 1 + Len(r)
      /\ \A i \in 1 .. 1 + Len(r) : (b \o r)[i] = IF i <= 1 THEN b[i] ELSE r[i - 1]
  <2>1. /\ b \o r \in Seq(Op) /\ Len(b \o r) = Len(b) + Len(r)
        /\ \A i \in 1 .. Len(b) + Len(r) :
             (b \o r)[i] = IF i <= Len(b) THEN b[i] ELSE r[i - Len(b)]
    BY <1>2, ConcatProperties
  <2> QED BY <1>2, <2>1
<1>10. \A i \in 1 .. 1 + Len(r) : t[n + i - 1] = IF i <= 1 THEN b[i] ELSE r[i - 1]
  <2>1. t[n] = b[1]
    BY <1>0, <1>1, <1>2, <1>3
  <2>2. ASSUME NEW i \in 1 .. 1 + Len(r), i > 1 PROVE t[n + i - 1] = r[i - 1]
    <3> DEFINE m == n + i - 1
    <3>1. m \in 1 .. n + Len(r) /\ ~ (m <= n) /\ m - n = i - 1
      BY <1>0, <2>2
    <3> HIDE DEF m
    <3>2. t[m] = r[m - n]
      BY <1>3, <3>1
    <3> QED BY <3>1, <3>2 DEF m
  <2>3. ASSUME NEW i \in 1 .. 1 + Len(r), i <= 1 PROVE t[n + i - 1] = b[i]
    <3>1. i = 1 /\ n + i - 1 = n
      BY <1>0, <2>3
    <3> QED BY <2>1, <3>1
  <2>4. \A i \in 1 .. 1 + Len(r) : i > 1 \/ i <= 1
    BY <1>0
  <2> QED BY <2>2, <2>3, <2>4
<1>11. SubSeq(t, n, Len(t)) = b \o r
  <2> DEFINE u == SubSeq(t, n, Len(t))
             v == b \o r
  <2>1. u \in Seq(Op) /\ v \in Seq(Op) /\ Len(u) = Len(v)
    BY <1>8, <1>9
  <2>a. Len(u) = 1 + Len(r)
    BY <1>8
  <2>2. \A i \in 1 .. 1 + Len(r) : u[i] = v[i]
    BY <1>8, <1>9, <1>10
  <2> HIDE DEF u, v
  <2>3. u = v
    BY <2>1, <2>2, <2>a, SeqEqual
  <2> QED BY <2>3 DEF u, v
<1> QED BY <1>7, <1>11 DEF S, b, n

LEMMA HandlerNext ==
  ASSUME NEW h \in Seq(Op), NEW k \in 1 .. Len(h), k < Len(h), In(h, k), todo' = Tail(todo)
  PROVE  In(h, k + 1)'
<1>1. PICK r \in Rest : Tail(todo) = Suffix(h, k + 1) \o r
  BY HandlerOperation
<1> QED BY <1>1 DEF In

\* What holds wherever the processor is, once kern_exec has been called.
Ready == TypeOK /\ SetUp(28) /\ CommandsInv(28)

\* Only the data buffers of the devices change.
LEMMA ReadyKept ==
  ASSUME Ready, UNCHANGED <<idt, pic, accepted>>,
         iflag' \in BOOLEAN, task' \in Task, frozen' \in [Task -> Frozen],
         kbc' \in Keyboard, kbc'.in = kbc.in,
         uart' \in Port, uart'.interrupts = uart.interrupts
  PROVE  Ready'
<1>1. SetUp(28)'
  BY SetUpKept DEF Ready
<1>2. CommandsInv(28)'
  BY CommandsKept DEF Ready
<1>3. TypeOK'
  BY DEF Ready, TypeOK, Keyboard, Port
<1> QED BY <1>1, <1>2, <1>3 DEF Ready

\* The end of an interrupt (interrupt_handlers.c:35, :81, :105-107).
LEMMA EndOfInterrupt ==
  ASSUME Ready, Execute, NEW port \in {PIC0_OCW2, PIC1_OCW2}, NEW v \in Nat, v # \h11,
         todo[1] = Out(port, v)
  PROVE  /\ Ready' /\ iflag' = iflag /\ todo' = Tail(todo)
         /\ port = PIC0_OCW2 => /\ pic'[0].isr = pic[0].isr \ {v - \h60}
                                /\ pic'[1].isr = pic[1].isr
         /\ port = PIC1_OCW2 => /\ pic'[1].isr = pic[1].isr \ {v - \h60}
                                /\ pic'[0].isr = pic[0].isr
<1>0. pic \in Pair
  BY TypeParts DEF Ready
<1>1. todo' = Tail(todo) /\ UNCHANGED <<iflag, task, frozen, idt, kbc, uart, accepted>>
  BY PortOfController
<1>2. /\ port = PIC0_OCW2 => pic' = Command(pic, 0, v)
      /\ port = PIC1_OCW2 => pic' = Command(pic, 1, v)
  BY PortOfController
<1>3. ASSUME pic' \in Pair, \A c \in {0, 1} : /\ pic'[c].irr = pic[c].irr
                                              /\ pic'[c].icw = pic[c].icw
                                              /\ pic'[c].base = pic[c].base
                                              /\ pic'[c].imr = pic[c].imr
      PROVE  Ready'
  <2>1. SetUp(28)'
    BY <1>1, <1>3, SetUpKept DEF Ready
  <2>2. CommandsInv(28)'
    BY <1>1, CommandsKept DEF Ready
  <2>3. TypeOK'
    BY <1>1, <1>3 DEF Ready, TypeOK, Pair
  <2> QED BY <2>1, <2>2, <2>3 DEF Ready
<1>4. CASE port = PIC0_OCW2
  <2>2. /\ pic' \in Pair /\ pic'[1] = pic[1] /\ pic'[0].base = pic[0].base
        /\ pic'[0].irr = pic[0].irr /\ pic'[0].isr = pic[0].isr \ {v - \h60}
        /\ pic'[0].imr = pic[0].imr /\ pic'[0].icw = pic[0].icw
    BY <1>0, <1>2, <1>4, CommandOfMaster
  <2>3. PIC0_OCW2 # PIC1_OCW2
    BY DEF PIC0_OCW2, PIC1_OCW2
  <2> QED BY <1>1, <1>3, <1>4, <2>2, <2>3
<1>5. CASE port = PIC1_OCW2
  <2>2. /\ pic' \in Pair /\ pic'[0] = pic[0] /\ pic'[1].base = pic[1].base
        /\ pic'[1].irr = pic[1].irr /\ pic'[1].isr = pic[1].isr \ {v - \h60}
        /\ pic'[1].imr = pic[1].imr /\ pic'[1].icw = pic[1].icw
    BY <1>0, <1>2, <1>5, CommandOfSlave
  <2>3. PIC0_OCW2 # PIC1_OCW2
    BY DEF PIC0_OCW2, PIC1_OCW2
  <2> QED BY <1>1, <1>3, <1>5, <2>2, <2>3
<1> QED BY <1>4, <1>5

\* The operations that touch no interrupt controller.
LEMMA QuietOperations ==
  ASSUME Ready, Execute,
         todo[1][1] \in {"_io_in8", "enqueue_event_queue", "write_serial"}
  PROVE  Ready' /\ UNCHANGED <<iflag, pic>> /\ todo' = Tail(todo)
<1>0. /\ iflag \in BOOLEAN /\ task \in Task /\ frozen \in [Task -> Frozen]
      /\ kbc \in Keyboard /\ uart \in Port
  BY TypeParts DEF Ready
<1>1. CASE todo[1][1] = "_io_in8"
  <2>1. ReadByte
    BY <1>1, Dispatch
  <2>2. kbc' = [kbc EXCEPT !.out = Nothing] /\ todo' = Tail(todo)
        /\ UNCHANGED <<iflag, task, frozen, idt, pic, uart, accepted>>
    BY <2>1 DEF ReadByte, Next1
  <2>3. kbc' \in Keyboard /\ kbc'.in = kbc.in
    BY <1>0, <2>2, KeyboardProperties
  <2>4. Ready'
    BY <1>0, <2>2, <2>3, ReadyKept
  <2> QED BY <2>2, <2>4
<1>2. CASE todo[1][1] = "enqueue_event_queue"
  <2>1. EnqueueEventQueue
    BY <1>2, Dispatch
  <2>2. todo' = Tail(todo) /\ UNCHANGED <<iflag, task, frozen, idt, pic, kbc, uart, accepted>>
    BY <2>1 DEF EnqueueEventQueue, Next1, hardware
  <2>4. Ready'
    BY <1>0, <2>2, ReadyKept
  <2> QED BY <2>2, <2>4
<1>3. CASE todo[1][1] = "write_serial"
  <2>1. WriteSerial
    BY <1>3, Dispatch
  <2>2. uart' = [uart EXCEPT !.busy = TRUE] /\ todo' = Tail(todo)
        /\ UNCHANGED <<iflag, task, frozen, idt, pic, kbc, accepted>>
    BY <2>1 DEF WriteSerial, Next1, software
  <2>3. uart' \in Port /\ uart'.interrupts = uart.interrupts
    BY <1>0, <2>2, PortProperties
  <2>4. Ready'
    BY <1>0, <2>2, <2>3, ReadyKept
  <2> QED BY <2>2, <2>4
<1> QED BY <1>1, <1>2, <1>3

\* k_malloc: the handler goes on, or goes to its return.
LEMMA MallocOperation ==
  ASSUME Ready, Execute, NEW h \in Seq(Op), NEW k \in 1 .. Len(h), k < Len(h), In(h, k),
         h[k] = <<"k_malloc">>,
         h[Len(h)][1] = "iret", \A i \in k .. Len(h) - 1 : h[i][1] # "iret"
  PROVE  Ready' /\ UNCHANGED <<iflag, pic>> /\ (In(h, k + 1)' \/ In(h, Len(h))')
<1>0. /\ iflag \in BOOLEAN /\ task \in Task /\ frozen \in [Task -> Frozen]
      /\ kbc \in Keyboard /\ uart \in Port
  BY TypeParts DEF Ready
<1>1. todo[1][1] = "k_malloc"
  BY HandlerOperation
<1>2. Malloc
  BY <1>1, Dispatch
<1>3. /\ \/ todo' = Tail(todo)
         \/ todo' = SubSeq(todo, First({i \in DOMAIN todo : todo[i][1] = "iret"}), Len(todo))
      /\ UNCHANGED <<iflag, task, frozen, idt, pic, kbc, uart, accepted>>
  BY <1>2 DEF Malloc, Next1, hardware
<1>4. Ready'
  BY <1>0, <1>3, ReadyKept
<1>5. CASE todo' = Tail(todo)
  BY <1>3, <1>4, <1>5, HandlerNext
<1>6. CASE todo' = SubSeq(todo, First({i \in DOMAIN todo : todo[i][1] = "iret"}), Len(todo))
  <2>1. PICK r \in Rest : todo = Suffix(h, k) \o r
    BY DEF In
  <2>2. r \in Seq(Op)
    BY RestIsSeq
  <2>3. todo' = Suffix(h, Len(h)) \o r
    BY <1>6, <2>1, <2>2, JumpToReturn
  <2>4. In(h, Len(h))'
    BY <2>3 DEF In
  <2> QED BY <1>3, <1>4, <2>4
<1> QED BY <1>3, <1>5, <1>6

\* The return turns interrupts on, in the task or at the end of its system call.
LEMMA ReturnOperation ==
  ASSUME Ready, Execute, Serving({}, {}), todo[1][1] = "iret", Tail(todo) \in Rest
  PROVE  IInv'
<1>0. task \in Task /\ frozen \in [Task -> Frozen] /\ kbc \in Keyboard /\ uart \in Port
  BY TypeParts DEF Ready
<1>1. Return
  BY Dispatch
<1>2. /\ todo' = Tail(todo) /\ iflag' = TRUE
      /\ UNCHANGED <<task, frozen, idt, pic, kbc, uart, accepted>>
  BY <1>1 DEF Return, Next1, hardware
<1>3. Ready'
  BY <1>0, <1>2, ReadyKept
<1>4. todo' \in Rest /\ Serving({}, {})'
  BY <1>2 DEF Serving
<1> QED BY <1>3, <1>4, BootedNext DEF Ready, IInv

\* The rest of the handler of the timer is put aside with its task, and the
\* task that comes is in a handler that has said so, or in its own code
\* (interrupt_handlers.c:33-74).
LEMMA TimersOperation ==
  ASSUME Ready, Execute, Serving({}, {}), ~ iflag, In(int20h, 2)
  PROVE  IInv'
<1>0. /\ iflag \in BOOLEAN /\ task \in Task /\ frozen \in [Task -> Frozen]
      /\ kbc \in Keyboard /\ uart \in Port
  BY TypeParts DEF Ready
<1>1. int20h \in Seq(Op) /\ Len(int20h) = 3 /\ int20h[2] = <<"timers">>
  BY TimerHandler
<1>a. 2 \in 1 .. Len(int20h) /\ 3 \in 1 .. Len(int20h) /\ 2 < Len(int20h) /\ 2 + 1 = 3
  BY <1>1
<1>b. int20h \in Seq(Op)
  BY <1>1
<1>2. todo[1] = int20h[2] /\ \E r \in Rest : Tail(todo) = Suffix(int20h, 2 + 1) \o r
  BY <1>a, <1>b, HandlerOperation
<1>3. Timers
  BY <1>1, <1>2, Dispatch
<1>4. UNCHANGED <<idt, pic, kbc, uart, accepted>>
  BY <1>3 DEF Timers, hardware
<1>5. Serving({}, {})'
  BY <1>4 DEF Serving
<1>6. CASE todo' = Tail(todo) /\ UNCHANGED <<iflag, task, frozen>>
  <2>1. In(int20h, 3)'
    BY <1>2, <1>6, <1>a DEF In
  <2>2. Ready'
    BY <1>0, <1>4, <1>6, ReadyKept
  <2>3. InHandler'
    BY <1>5, <1>6, <2>1 DEF InHandler
  <2> QED BY <2>2, <2>3, BootedNext DEF Ready, IInv
<1>7. ASSUME NEW t \in Task, task' = t,
             frozen' = [frozen EXCEPT ![task] = Tail(todo), ![t] = <<>>],
             todo' = frozen[t], iflag' = (frozen[t] = <<>>)
      PROVE  IInv'
  <2>1. Tail(todo) \in Frozen /\ <<>> \in Frozen
    BY <1>2, <1>a DEF Frozen
  <2>2. frozen' \in [Task -> Frozen]
    BY <1>0, <1>7, <2>1
  <2>3. iflag' \in BOOLEAN /\ task' \in Task
    BY <1>7
  <2>4. Ready'
    BY <1>0, <1>4, <2>2, <2>3, ReadyKept
  <2>5. CASE frozen[t] = <<>>
    <3>1. todo' \in Rest
      BY <1>7, <2>5 DEF Rest
    <3> QED BY <1>5, <2>4, <3>1, BootedNext DEF Ready, IInv
  <2>6. CASE frozen[t] # <<>>
    <3>1. PICK r \in Rest : frozen[t] = Suffix(int20h, 3) \o r
      BY <1>0, <2>6 DEF Frozen
    <3>2. In(int20h, 3)' /\ ~ iflag'
      BY <1>7, <2>6, <3>1 DEF In
    <3>3. InHandler'
      BY <1>5, <3>2 DEF InHandler
    <3> QED BY <2>4, <3>3, BootedNext DEF Ready, IInv
  <2> QED BY <2>5, <2>6
<1> QED BY <1>3, <1>6, <1>7 DEF Timers, Next1

\* A handler that goes on is one the invariant allows.
LEMMA HandlerAt ==
  ASSUME Ready', ~ iflag',
         \/ In(int20h, 1)' /\ Serving({0}, {})'
         \/ In(int21h, 1)' /\ Serving({1}, {})'
         \/ In(int2ch, 1)' /\ Serving({2}, {4})'
         \/ In(int2ch, 2)' /\ Serving({2}, {})'
         \/ /\ \/ \E k \in 2 .. 3 : In(int20h, k)'
               \/ \E k \in 2 .. 5 : In(int21h, k)'
               \/ \E k \in 3 .. 7 : In(int2ch, k)'
            /\ Serving({}, {})'
  PROVE  IInv'
<1>1. InHandler'
  BY DEF InHandler
<1> QED BY <1>1, BootedNext DEF Ready, IInv

LEMMA TimerStep ==
  ASSUME Ready, Execute, ~ iflag,
         \/ In(int20h, 1) /\ Serving({0}, {})
         \/ \E k \in 2 .. 3 : In(int20h, k) /\ Serving({}, {})
  PROVE  IInv'
<1>1. /\ Len(int20h) = 3 /\ int20h[1] = Out(PIC0_OCW2, \h60)
      /\ int20h[3] = Iret(\h20)
  BY TimerHandler
<1>2. int20h \in Seq(Op)
  BY TimerHandler
<1>3. CASE In(int20h, 1) /\ Serving({0}, {})
  <2>a. 1 \in 1 .. Len(int20h) /\ 1 < Len(int20h)
    BY <1>1
  <2>1. todo[1] = Out(PIC0_OCW2, \h60)
    BY <1>1, <1>2, <1>3, <2>a, HandlerOperation
  <2>2. /\ Ready' /\ iflag' = iflag /\ todo' = Tail(todo)
        /\ pic'[0].isr = pic[0].isr \ {\h60 - \h60} /\ pic'[1].isr = pic[1].isr
    BY <2>1, EndOfInterrupt
  <2>3. In(int20h, 1 + 1)'
    BY <1>2, <1>3, <2>a, <2>2, HandlerNext
  <2>4. Serving({}, {})'
    BY <1>3, <2>2 DEF Serving
  <2> QED BY <2>2, <2>3, <2>4, HandlerAt
<1>4. CASE In(int20h, 2) /\ Serving({}, {})
  BY <1>4, TimersOperation
<1>5. CASE In(int20h, 3) /\ Serving({}, {})
  <2>a. 3 \in 1 .. Len(int20h) /\ 3 = Len(int20h)
    BY <1>1
  <2>1. todo[1] = int20h[3] /\ Tail(todo) \in Rest
    BY <1>2, <1>5, <2>a, HandlerOperation
  <2> QED BY <1>1, <1>5, <2>1, Operands, ReturnOperation
<1> QED BY <1>3, <1>4, <1>5

LEMMA KeyboardStep ==
  ASSUME Ready, Execute, ~ iflag,
         \/ In(int21h, 1) /\ Serving({1}, {})
         \/ \E k \in 2 .. 5 : In(int21h, k) /\ Serving({}, {})
  PROVE  IInv'
<1>1. /\ Len(int21h) = 5 /\ int21h[1] = Out(PIC0_OCW2, \h61) /\ int21h[2] = <<"_io_in8">>
      /\ int21h[3] = <<"k_malloc">>
      /\ int21h[4] = <<"enqueue_event_queue", "KEYBOARD_EVENT">> /\ int21h[5] = Iret(\h21)
  BY KeyboardHandler
<1>2. int21h \in Seq(Op)
  BY KeyboardHandler
<1>3. CASE In(int21h, 1) /\ Serving({1}, {})
  <2>a. 1 \in 1 .. Len(int21h) /\ 1 < Len(int21h)
    BY <1>1
  <2>1. todo[1] = Out(PIC0_OCW2, \h61)
    BY <1>1, <1>2, <1>3, <2>a, HandlerOperation
  <2>2. /\ Ready' /\ iflag' = iflag /\ todo' = Tail(todo)
        /\ pic'[0].isr = pic[0].isr \ {\h61 - \h60} /\ pic'[1].isr = pic[1].isr
    BY <2>1, EndOfInterrupt
  <2>3. In(int21h, 1 + 1)'
    BY <1>2, <1>3, <2>a, <2>2, HandlerNext
  <2>4. Serving({}, {})'
    BY <1>3, <2>2 DEF Serving
  <2> QED BY <2>2, <2>3, <2>4, HandlerAt
<1>4. ASSUME NEW k \in {2, 4}, In(int21h, k), Serving({}, {}) PROVE IInv'
  <2>a. k \in 1 .. Len(int21h) /\ k < Len(int21h) /\ k + 1 \in 2 .. 5
    BY <1>1
  <2>1. todo[1] = int21h[k]
    BY <1>2, <1>4, <2>a, HandlerOperation
  <2>2. todo[1][1] \in {"_io_in8", "enqueue_event_queue", "write_serial"}
    BY <1>1, <2>1
  <2>3. Ready' /\ UNCHANGED <<iflag, pic>> /\ todo' = Tail(todo)
    BY <2>2, QuietOperations
  <2>4. In(int21h, k + 1)'
    BY <1>2, <1>4, <2>a, <2>3, HandlerNext
  <2>5. Serving({}, {})'
    BY <1>4, <2>3 DEF Serving
  <2> QED BY <2>a, <2>3, <2>4, <2>5, HandlerAt
<1>5. CASE In(int21h, 3) /\ Serving({}, {})
  <2>a. /\ 3 \in 1 .. Len(int21h) /\ 3 < Len(int21h) /\ 3 + 1 = 4 /\ Len(int21h) = 5
        /\ int21h[Len(int21h)][1] = "iret"
    BY <1>1, Operands
  <2>1. \A i \in 3 .. Len(int21h) - 1 : int21h[i][1] # "iret"
    BY <1>1
  <2>2. /\ Ready' /\ UNCHANGED <<iflag, pic>>
        /\ In(int21h, 3 + 1)' \/ In(int21h, Len(int21h))'
    BY <1>1, <1>2, <1>5, <2>a, <2>1, MallocOperation
  <2>3. In(int21h, 4)' \/ In(int21h, 5)'
    BY <2>a, <2>2
  <2>4. Serving({}, {})'
    BY <1>5, <2>2 DEF Serving
  <2> QED BY <2>2, <2>3, <2>4, HandlerAt
<1>6. CASE In(int21h, 5) /\ Serving({}, {})
  <2>a. 5 \in 1 .. Len(int21h) /\ 5 = Len(int21h)
    BY <1>1
  <2>1. todo[1] = int21h[5] /\ Tail(todo) \in Rest
    BY <1>2, <1>6, <2>a, HandlerOperation
  <2> QED BY <1>1, <1>6, <2>1, Operands, ReturnOperation
<1> QED BY <1>3, <1>4, <1>5, <1>6

LEMMA MouseStep ==
  ASSUME Ready, Execute, ~ iflag,
         \/ In(int2ch, 1) /\ Serving({2}, {4})
         \/ In(int2ch, 2) /\ Serving({2}, {})
         \/ \E k \in 3 .. 7 : In(int2ch, k) /\ Serving({}, {})
  PROVE  IInv'
<1>1. /\ Len(int2ch) = 7
      /\ int2ch[1] = Out(PIC1_OCW2, \h64) /\ int2ch[2] = Out(PIC0_OCW2, \h62)
      /\ int2ch[3] = <<"_io_in8">> /\ int2ch[4] = <<"k_malloc">>
      /\ int2ch[5] = <<"enqueue_event_queue", "MOUSE_EVENT">>
      /\ int2ch[6] = <<"write_serial">> /\ int2ch[7] = Iret(\h2C)
  BY MouseHandler
<1>2. int2ch \in Seq(Op)
  BY MouseHandler
<1>3. CASE In(int2ch, 1) /\ Serving({2}, {4})
  <2>a. 1 \in 1 .. Len(int2ch) /\ 1 < Len(int2ch)
    BY <1>1
  <2>1. todo[1] = Out(PIC1_OCW2, \h64)
    BY <1>1, <1>2, <1>3, <2>a, HandlerOperation
  <2>2. /\ Ready' /\ iflag' = iflag /\ todo' = Tail(todo)
        /\ pic'[1].isr = pic[1].isr \ {\h64 - \h60} /\ pic'[0].isr = pic[0].isr
    BY <2>1, EndOfInterrupt
  <2>3. In(int2ch, 1 + 1)'
    BY <1>2, <1>3, <2>a, <2>2, HandlerNext
  <2>4. Serving({2}, {})'
    BY <1>3, <2>2 DEF Serving
  <2> QED BY <2>2, <2>3, <2>4, HandlerAt
<1>4. CASE In(int2ch, 2) /\ Serving({2}, {})
  <2>a. 2 \in 1 .. Len(int2ch) /\ 2 < Len(int2ch)
    BY <1>1
  <2>1. todo[1] = Out(PIC0_OCW2, \h62)
    BY <1>1, <1>2, <1>4, <2>a, HandlerOperation
  <2>2. /\ Ready' /\ iflag' = iflag /\ todo' = Tail(todo)
        /\ pic'[0].isr = pic[0].isr \ {\h62 - \h60} /\ pic'[1].isr = pic[1].isr
    BY <2>1, EndOfInterrupt
  <2>3. In(int2ch, 2 + 1)'
    BY <1>2, <1>4, <2>a, <2>2, HandlerNext
  <2>4. Serving({}, {})'
    BY <1>4, <2>2 DEF Serving
  <2> QED BY <2>2, <2>3, <2>4, HandlerAt
<1>5. ASSUME NEW k \in {3, 5, 6}, In(int2ch, k), Serving({}, {}) PROVE IInv'
  <2>a. k \in 1 .. Len(int2ch) /\ k < Len(int2ch) /\ k + 1 \in 3 .. 7
    BY <1>1
  <2>1. todo[1] = int2ch[k]
    BY <1>2, <1>5, <2>a, HandlerOperation
  <2>2. todo[1][1] \in {"_io_in8", "enqueue_event_queue", "write_serial"}
    BY <1>1, <2>1
  <2>3. Ready' /\ UNCHANGED <<iflag, pic>> /\ todo' = Tail(todo)
    BY <2>2, QuietOperations
  <2>4. In(int2ch, k + 1)'
    BY <1>2, <1>5, <2>a, <2>3, HandlerNext
  <2>5. Serving({}, {})'
    BY <1>5, <2>3 DEF Serving
  <2> QED BY <2>a, <2>3, <2>4, <2>5, HandlerAt
<1>6. CASE In(int2ch, 4) /\ Serving({}, {})
  <2>a. /\ 4 \in 1 .. Len(int2ch) /\ 4 < Len(int2ch) /\ 4 + 1 = 5 /\ Len(int2ch) = 7
        /\ int2ch[Len(int2ch)][1] = "iret"
    BY <1>1, Operands
  <2>1. \A i \in 4 .. Len(int2ch) - 1 : int2ch[i][1] # "iret"
    BY <1>1
  <2>2. /\ Ready' /\ UNCHANGED <<iflag, pic>>
        /\ In(int2ch, 4 + 1)' \/ In(int2ch, Len(int2ch))'
    BY <1>1, <1>2, <1>6, <2>a, <2>1, MallocOperation
  <2>3. In(int2ch, 5)' \/ In(int2ch, 7)'
    BY <2>a, <2>2
  <2>4. Serving({}, {})'
    BY <1>6, <2>2 DEF Serving
  <2> QED BY <2>2, <2>3, <2>4, HandlerAt
<1>7. CASE In(int2ch, 7) /\ Serving({}, {})
  <2>a. 7 \in 1 .. Len(int2ch) /\ 7 = Len(int2ch)
    BY <1>1
  <2>1. todo[1] = int2ch[7] /\ Tail(todo) \in Rest
    BY <1>2, <1>7, <2>a, HandlerOperation
  <2> QED BY <1>1, <1>7, <2>1, Operands, ReturnOperation
<1> QED BY <1>3, <1>4, <1>5, <1>6, <1>7

\* In the code of a task there is nothing to execute but the end of a system call.
LEMMA TaskStep ==
  ASSUME Ready, Execute, todo \in Rest, Serving({}, {})
  PROVE  IInv'
<1>1. todo = int80h
  BY Dispatch DEF Rest
<1>2. todo[1] = Iret(\h80) /\ Tail(todo) = <<>>
  BY <1>1 DEF int80h
<1>3. todo[1][1] = "iret" /\ Tail(todo) \in Rest
  BY <1>2, Operands DEF Rest
<1> QED BY <1>3, ReturnOperation

LEMMA BootedMeans ==
  ASSUME TypeOK, Booted
  PROVE  /\ Ready
         /\ \/ todo \in Rest /\ Serving({}, {})
            \/ /\ ~ iflag
               /\ \/ \/ In(int20h, 1) /\ Serving({0}, {})
                     \/ \E k \in 2 .. 3 : In(int20h, k) /\ Serving({}, {})
                  \/ \/ In(int21h, 1) /\ Serving({1}, {})
                     \/ \E k \in 2 .. 5 : In(int21h, k) /\ Serving({}, {})
                  \/ \/ In(int2ch, 1) /\ Serving({2}, {4})
                     \/ In(int2ch, 2) /\ Serving({2}, {})
                     \/ \E k \in 3 .. 7 : In(int2ch, k) /\ Serving({}, {})
<1>1. Ready /\ (InHandler \/ (todo \in Rest /\ Serving({}, {})))
  BY Places DEF Ready
<1> QED BY <1>1 DEF InHandler

LEMMA ExecuteStep ==
  ASSUME IInv, Execute
  PROVE  IInv'
<1>1. CASE TypeOK /\ Booting
  BY <1>1, BootStep
<1>2. CASE TypeOK /\ Booted
  BY <1>2, BootedMeans, TaskStep, TimerStep, KeyboardStep, MouseStep
<1> QED BY <1>1, <1>2 DEF IInv

-----------------------------------------------------------------------------
(* Tasks and interrupts.                                                     *)
LEMMA InTask ==
  ASSUME IInv, iflag \/ todo = <<>>
  PROVE  Ready /\ todo \in Rest /\ Serving({}, {})
<1>1. CASE TypeOK /\ Booting
  <2>1. PICK k \in 1 .. 27 : todo = Suffix(kernel_main, k) /\ BootAt(k)
    BY <1>1, Places
  <2>2. todo # <<>> /\ ~ iflag
    BY <2>1, BootOperation DEF BootAt
  <2> QED BY <2>2
<1>2. CASE TypeOK /\ Booted
  <2>2. ASSUME NEW k \in 1 .. 3, In(int20h, k) PROVE todo # <<>>
    <3>1. int20h \in Seq(Op)
      BY TimerHandler
    <3>2. k \in 1 .. Len(int20h)
      BY <2>2, TimerHandler
    <3> QED BY <2>2, <3>1, <3>2, HandlerOperation
  <2>3. ASSUME NEW k \in 1 .. 5, In(int21h, k) PROVE todo # <<>>
    <3>1. int21h \in Seq(Op)
      BY KeyboardHandler
    <3>2. k \in 1 .. Len(int21h)
      BY <2>3, KeyboardHandler
    <3> QED BY <2>3, <3>1, <3>2, HandlerOperation
  <2>4. ASSUME NEW k \in 1 .. 7, In(int2ch, k) PROVE todo # <<>>
    <3>1. int2ch \in Seq(Op)
      BY MouseHandler
    <3>2. k \in 1 .. Len(int2ch)
      BY <2>4, MouseHandler
    <3> QED BY <2>4, <3>1, <3>2, HandlerOperation
  <2> QED BY <1>2, <2>2, <2>3, <2>4, BootedMeans
<1> QED BY <1>1, <1>2 DEF IInv

\* Only levels 0 to 2 of the master and level 4 of the slave get through.
LEMMA Levels ==
  ASSUME Ready, Serving({}, {})
  PROVE  /\ SlaveRequests \subseteq {4}
         /\ MasterRequests \subseteq {0, 1, 2}
         /\ 2 \in MasterRequests => SlaveRequests = {4}
<1>1. /\ pic[0].irr \subseteq {0, 1, 4} /\ pic[1].irr \subseteq {4, 6}
      /\ pic[0].isr = {} /\ pic[1].isr = {}
  BY TypeParts DEF Ready, Serving
<1>2. pic[0].imr = 3 .. 7 /\ pic[1].imr = (0 .. 7) \ {4}
  BY Masks DEF Ready, SetUp
<1>3. SlaveRequests = pic[1].irr \ pic[1].imr
  BY <1>1 DEF SlaveRequests, Requests
<1>4. SlaveRequests \subseteq {4}
  BY <1>1, <1>2, <1>3
<1>5. MasterRequests
        = (pic[0].irr \cup (IF SlaveRequests = {} THEN {} ELSE {2})) \ pic[0].imr
  BY <1>1 DEF MasterRequests, Requests
<1>6. MasterRequests \subseteq {0, 1, 2}
  BY <1>1, <1>2, <1>5
<1>7. 2 \in MasterRequests => SlaveRequests # {}
  BY <1>1, <1>5
<1> QED BY <1>4, <1>6, <1>7

LEMMA Gated ==
  /\ \A v \in {\h20, \h21, \h2C, \h80} : v \in DOMAIN Gates
  /\ \A v \in {\h20, \h21, \h2C} : Gates[v] = "IDT_INTERRUPT_GATE"
  /\ Gates[\h80] = "IDT_TRAP_GATE"
  /\ Handler(\h20) = int20h /\ Handler(\h21) = int21h /\ Handler(\h2C) = int2ch
  /\ Handler(\h80) = int80h
BY DEF Gates, Handler

\* An interrupt of level l of the master enters handler h.
LEMMA Entered ==
  ASSUME Ready, todo \in Rest, NEW v \in {\h20, \h21, \h2C}, Enter(v), pic' \in Pair,
         \A c \in {0, 1} : /\ pic'[c].irr \subseteq pic[c].irr
                           /\ pic'[c].icw = pic[c].icw /\ pic'[c].base = pic[c].base
                           /\ pic'[c].imr = pic[c].imr
  PROVE  Ready' /\ ~ iflag' /\ In(Handler(v), 1)'
<1>1. idt = Gates
  BY DEF Ready, SetUp
<1>2. /\ todo' = Handler(v) \o todo /\ iflag' = FALSE
      /\ UNCHANGED <<task, frozen, idt, kbc, uart, accepted>>
  <2>1. /\ todo' = Handler(v) \o todo /\ iflag' = (iflag /\ idt[v] = "IDT_TRAP_GATE")
        /\ UNCHANGED <<task, frozen, idt, kbc, uart, accepted>>
    BY DEF Enter, software
  <2>2. idt[v] = "IDT_INTERRUPT_GATE"
    BY <1>1, Gated
  <2>3. idt[v] # "IDT_TRAP_GATE"
    BY <2>2
  <2> QED BY <2>1, <2>3
<1>3. Handler(v) \in Seq(Op) /\ todo \in Seq(Op)
  <2>1. int20h \in Seq(Op)
    BY TimerHandler
  <2>2. int21h \in Seq(Op)
    BY KeyboardHandler
  <2>3. int2ch \in Seq(Op)
    BY MouseHandler
  <2>4. Handler(v) \in {int20h, int21h, int2ch}
    BY Gated
  <2>5. todo \in Seq(Op)
    BY RestIsSeq
  <2> QED BY <2>1, <2>2, <2>3, <2>4, <2>5
<1>4. todo' = Suffix(Handler(v), 1) \o todo
  BY <1>2, <1>3, SuffixEnds
<1>5. In(Handler(v), 1)'
  BY <1>4 DEF In
<1>6. SetUp(28)'
  BY <1>2, SetUpKept DEF Ready
<1>7. CommandsInv(28)'
  BY <1>2, CommandsKept DEF Ready
<1>8. TypeOK'
  <2>1. pic'[0].irr \subseteq pic[0].irr /\ pic'[1].irr \subseteq pic[1].irr
    OBVIOUS
  <2> QED BY <1>2, <2>1 DEF Ready, TypeOK, Pair
<1> QED BY <1>2, <1>5, <1>6, <1>7, <1>8 DEF Ready

LEMMA InterruptStep ==
  ASSUME IInv, NEW level \in 0 .. 7, Interrupt(level)
  PROVE  IInv'
<1>1. Ready /\ todo \in Rest /\ Serving({}, {})
  BY InTask DEF Interrupt
<1>2. /\ MasterRequests # {} /\ First(MasterRequests) = level /\ Enter(Vector)
      /\ pic' = IF level = 2
                THEN Acknowledge(Acknowledge(pic, 0, 2), 1, First(SlaveRequests))
                ELSE Acknowledge(pic, 0, level)
  BY DEF Interrupt
<1>3. MasterRequests \subseteq {0, 1, 2} /\ (2 \in MasterRequests => SlaveRequests = {4})
  BY <1>1, Levels
<1>4. level \in MasterRequests
  <2>1. PICK n \in MasterRequests : \A i \in MasterRequests : n <= i
    <3>1. CASE 0 \in MasterRequests
      BY <1>3, <3>1
    <3>2. CASE 0 \notin MasterRequests /\ 1 \in MasterRequests
      BY <1>3, <3>2
    <3>3. CASE 0 \notin MasterRequests /\ 1 \notin MasterRequests
      <4>1. MasterRequests = {2}
        BY <1>2, <1>3, <3>3
      <4> QED BY <4>1
    <3> QED BY <3>1, <3>2, <3>3
  <2>2. MasterRequests \subseteq Int
    BY <1>3
  <2>3. First(MasterRequests) = n
    BY <2>1, <2>2, FirstIs
  <2> QED BY <1>2, <2>1, <2>3
<1>5. pic \in Pair /\ pic[0].base = \h20 /\ pic[1].base = PIC1_BASE
      /\ pic[0].isr = {} /\ pic[1].isr = {}
  BY <1>1, TypeParts DEF Ready, SetUp, Serving
<1>6. CASE level \in {0, 1}
  <2>1. Vector = \h20 + level
    BY <1>2, <1>5, <1>6 DEF Vector
  <2>2. 0 \in {0, 1} /\ level \in 0 .. 7
    BY <1>6
  <2>3. /\ pic' \in Pair
        /\ \A d \in {0, 1} :
             /\ pic'[d].irr = IF d = 0 THEN pic[0].irr \ {level} ELSE pic[d].irr
             /\ pic'[d].isr = IF d = 0 THEN pic[0].isr \cup {level} ELSE pic[d].isr
             /\ pic'[d].imr = pic[d].imr
             /\ pic'[d].icw = pic[d].icw
             /\ pic'[d].base = pic[d].base
    <3>1. pic' = Acknowledge(pic, 0, level)
      BY <1>2, <1>6
    <3> QED BY <1>5, <2>2, <3>1, AcknowledgeProperties
  <2>4. PICK v \in {\h20, \h21, \h2C} : v = Vector /\ v = \h20 + level
    BY <1>6, <2>1
  <2>5. \A c \in {0, 1} : pic'[c].irr \subseteq pic[c].irr
    BY <2>3
  <2>a. Enter(v)
    BY <1>2, <2>4
  <2>6. Ready' /\ ~ iflag' /\ In(Handler(v), 1)'
    BY <1>1, <2>a, <2>3, <2>4, <2>5, Entered
  <2>7. Serving({level}, {})'
    BY <1>5, <2>3 DEF Serving
  <2>8. CASE level = 0
    <3>1. Handler(v) = int20h
      BY <2>4, <2>8, Gated
    <3>2. In(int20h, 1)'
      BY <2>6, <3>1
    <3> QED BY <2>6, <2>7, <2>8, <3>2, HandlerAt
  <2>9. CASE level = 1
    <3>1. Handler(v) = int21h
      BY <2>4, <2>9, Gated
    <3>2. In(int21h, 1)'
      BY <2>6, <3>1
    <3> QED BY <2>6, <2>7, <2>9, <3>2, HandlerAt
  <2> QED BY <1>6, <2>8, <2>9
<1>7. CASE level = 2
  <2>1. SlaveRequests = {4} /\ First(SlaveRequests) = 4
    <3>1. SlaveRequests = {4}
      BY <1>3, <1>4, <1>7
    <3>2. {4} \subseteq Int /\ 4 \in {4} /\ \A i \in {4} : 4 <= i
      OBVIOUS
    <3>3. First({4}) = 4
      BY <3>2, FirstIs
    <3> QED BY <3>1, <3>3
  <2>2. Vector = \h2C
    BY <1>2, <1>5, <1>7, <2>1 DEF Vector, PIC1_BASE
  <2> DEFINE p == Acknowledge(pic, 0, 2)
  <2>3. pic' = Acknowledge(p, 1, 4)
    BY <1>2, <1>7, <2>1
  <2>4. 0 \in {0, 1} /\ 1 \in {0, 1} /\ 2 \in 0 .. 7 /\ 4 \in 0 .. 7
    OBVIOUS
  <2>5. /\ p \in Pair
        /\ \A d \in {0, 1} :
             /\ p[d].irr = IF d = 0 THEN pic[0].irr \ {2} ELSE pic[d].irr
             /\ p[d].isr = IF d = 0 THEN pic[0].isr \cup {2} ELSE pic[d].isr
             /\ p[d].imr = pic[d].imr
             /\ p[d].icw = pic[d].icw
             /\ p[d].base = pic[d].base
    BY <1>5, <2>4, AcknowledgeProperties
  <2> HIDE DEF p
  <2>6. /\ pic' \in Pair
        /\ \A d \in {0, 1} :
             /\ pic'[d].irr = IF d = 1 THEN p[1].irr \ {4} ELSE p[d].irr
             /\ pic'[d].isr = IF d = 1 THEN p[1].isr \cup {4} ELSE p[d].isr
             /\ pic'[d].imr = p[d].imr
             /\ pic'[d].icw = p[d].icw
             /\ pic'[d].base = p[d].base
    BY <2>3, <2>4, <2>5, AcknowledgeProperties
  <2>7. \A c \in {0, 1} : /\ pic'[c].irr \subseteq pic[c].irr
                          /\ pic'[c].icw = pic[c].icw /\ pic'[c].base = pic[c].base
                          /\ pic'[c].imr = pic[c].imr
    BY <2>5, <2>6
  <2>a. PICK v \in {\h20, \h21, \h2C} : v = Vector /\ v = \h2C
    BY <2>2
  <2>b. Enter(v)
    BY <1>2, <2>a
  <2>8. Ready' /\ ~ iflag' /\ In(Handler(v), 1)'
    BY <1>1, <2>b, <2>6, <2>7, Entered
  <2>9. pic'[0].isr = {2} /\ pic'[1].isr = {4}
    BY <1>5, <2>5, <2>6
  <2>10. Serving({2}, {4})'
    BY <2>9 DEF Serving
  <2>11. In(int2ch, 1)'
    <3>1. Handler(v) = int2ch
      BY <2>a, Gated
    <3> QED BY <2>8, <3>1
  <2> QED BY <2>8, <2>10, <2>11, HandlerAt
<1> QED BY <1>3, <1>4, <1>6, <1>7

\* A system call runs with interrupts on; a task may turn them off and on.
LEMMA SyscallStep ==
  ASSUME IInv, Syscall
  PROVE  IInv'
<1>1. Ready /\ todo = <<>> /\ Serving({}, {}) /\ iflag
  BY InTask DEF Syscall
<1>2. idt = Gates /\ iflag \in BOOLEAN
  BY <1>1, TypeParts DEF Ready, SetUp
<1>3. /\ todo' = Handler(\h80) \o todo /\ iflag' = (iflag /\ idt[\h80] = "IDT_TRAP_GATE")
      /\ UNCHANGED <<task, frozen, idt, pic, kbc, uart, accepted>>
  BY DEF Syscall, Enter, software
<1>4. todo' = int80h /\ iflag' \in BOOLEAN
  BY <1>1, <1>2, <1>3, Gated, SyscallHandler, ConcatEmptySeq
<1>5. Ready'
  BY <1>1, <1>3, <1>4, TypeParts, ReadyKept DEF Ready
<1>6. todo' \in Rest /\ Serving({}, {})'
  BY <1>1, <1>3, <1>4 DEF Rest, Serving
<1> QED BY <1>5, <1>6, BootedNext DEF Ready, IInv

LEMMA FlagStep ==
  ASSUME IInv, Cli \/ Sti
  PROVE  IInv'
<1>1. Ready /\ todo \in Rest /\ Serving({}, {})
  BY InTask DEF Cli, Sti
<1>2. iflag' \in BOOLEAN /\ UNCHANGED <<todo, task, frozen, idt, pic, kbc, uart, accepted>>
  BY DEF Cli, Sti, software, hardware
<1>3. Ready'
  BY <1>1, <1>2, TypeParts, ReadyKept DEF Ready
<1>4. todo' \in Rest /\ Serving({}, {})'
  BY <1>1, <1>2 DEF Serving
<1> QED BY <1>3, <1>4, BootedNext DEF Ready, IInv

-----------------------------------------------------------------------------
(* The devices.                                                              *)
LEMMA DeviceKept ==
  ASSUME IInv, UNCHANGED <<todo, iflag, task, frozen, idt>>,
         pic' \in Pair, pic'[0].irr \subseteq {0, 1, 4}, pic'[1].irr \subseteq {4, 6},
         \A c \in {0, 1} : /\ pic'[c].isr = pic[c].isr /\ pic'[c].icw = pic[c].icw
                           /\ pic'[c].base = pic[c].base /\ pic'[c].imr = pic[c].imr,
         kbc' \in Keyboard, uart' \in Port, uart'.interrupts = uart.interrupts,
         \A k \in 1 .. 28 : CommandsInv(k) => CommandsInv(k)'
  PROVE  IInv'
<1>1. TypeOK'
  BY DEF IInv, TypeOK, Pair, Keyboard, Port
<1>2. \A m, s : Serving(m, s) => Serving(m, s)'
  BY DEF Serving
<1>3. ASSUME NEW k \in 1 .. 28, SetUp(k) PROVE SetUp(k)'
  <2>1. /\ pic'[0].icw = pic[0].icw /\ pic'[0].base = pic[0].base /\ pic'[0].imr = pic[0].imr
        /\ pic'[1].icw = pic[1].icw /\ pic'[1].base = pic[1].base /\ pic'[1].imr = pic[1].imr
    OBVIOUS
  <2> QED BY <1>3, <2>1 DEF SetUp
<1>4. CASE Booting
  <2>1. PICK k \in 1 .. 27 : todo = Suffix(kernel_main, k) /\ BootAt(k)
    BY <1>4, Places
  <2>2. SetUp(k)' /\ CommandsInv(k)' /\ Serving({}, {})'
    BY <1>2, <1>3, <2>1 DEF BootAt
  <2>3. DOMAIN kernel_main = 1 .. 27
    BY BootRoutine
  <2>4. todo' = Suffix(kernel_main, k) /\ ~ iflag'
    BY <2>1 DEF BootAt
  <2>5. Booting'
    BY <2>2, <2>3, <2>4 DEF Booting
  <2> QED BY <1>1, <2>5 DEF IInv
<1>5. CASE Booted
  <2>1. TypeOK /\ Ready
    BY <1>5, BootedMeans DEF IInv
  <2>2. SetUp(28)' /\ CommandsInv(28)'
    BY <1>3, <2>1 DEF Ready
  <2>3. InHandler => InHandler'
    BY <1>2 DEF InHandler, In
  <2>4. InHandler \/ (todo \in Rest /\ Serving({}, {}))
    BY <1>5 DEF Booted
  <2> QED BY <1>1, <1>2, <2>2, <2>3, <2>4, BootedNext DEF IInv
<1> QED BY <1>4, <1>5 DEF IInv

\* An interrupt is requested, and no more.
LEMMA DeviceRaises ==
  ASSUME IInv, Device, UNCHANGED accepted, NEW c \in {0, 1}, NEW level \in 0 .. 7,
         <<c, level>> \in {<<0, 0>>, <<0, 1>>, <<0, 4>>, <<1, 4>>, <<1, 6>>},
         pic' = Raise(pic, c, level) \/ pic' = pic,
         kbc' \in Keyboard, kbc'.in = kbc.in, uart' \in Port,
         uart'.interrupts = uart.interrupts
  PROVE  IInv'
<1>1. pic \in Pair /\ pic[0].irr \subseteq {0, 1, 4} /\ pic[1].irr \subseteq {4, 6}
  BY TypeParts DEF IInv
<1>2. UNCHANGED <<todo, iflag, task, frozen, idt>>
  BY DEF Device, software
<1>3. \A k \in 1 .. 28 : CommandsInv(k) => CommandsInv(k)'
  BY DEF CommandsInv
<1>4. CASE pic' = pic
  BY <1>1, <1>2, <1>3, <1>4, DeviceKept
<1>5. CASE pic' = Raise(pic, c, level)
  <2>1. /\ pic' \in Pair
        /\ \A d \in {0, 1} :
             /\ pic'[d].irr = IF d = c THEN pic[c].irr \cup {level} ELSE pic[d].irr
             /\ pic'[d].isr = pic[d].isr /\ pic'[d].imr = pic[d].imr
             /\ pic'[d].icw = pic[d].icw /\ pic'[d].base = pic[d].base
    BY <1>1, <1>5, RaiseProperties
  <2>2. pic'[0].irr \subseteq {0, 1, 4} /\ pic'[1].irr \subseteq {4, 6}
    <3>1. CASE c = 0
      <4>1. level \in {0, 1, 4}
        BY <3>1
      <4>2. pic'[0].irr = pic[0].irr \cup {level} /\ pic'[1].irr = pic[1].irr
        BY <2>1, <3>1
      <4> QED BY <1>1, <4>1, <4>2
    <3>2. CASE c = 1
      <4>1. level \in {4, 6}
        BY <3>2
      <4>2. pic'[1].irr = pic[1].irr \cup {level} /\ pic'[0].irr = pic[0].irr
        BY <2>1, <3>2
      <4> QED BY <1>1, <4>1, <4>2
    <3> QED BY <3>1, <3>2
  <2> QED BY <1>2, <1>3, <2>1, <2>2, DeviceKept
<1> QED BY <1>4, <1>5

\* The keyboard controller takes the last command that was sent.
LEMMA TakeStep ==
  ASSUME IInv, TakeByte
  PROVE  IInv'
<1> DEFINE port == kbc.in[1]
           value == kbc.in[2]
<1>0. /\ pic \in Pair /\ kbc \in Keyboard /\ uart \in Port
      /\ pic[0].irr \subseteq {0, 1, 4} /\ pic[1].irr \subseteq {4, 6}
  BY TypeParts DEF IInv
<1>1. /\ kbc.in # Nothing /\ accepted' = Append(accepted, kbc.in)
      /\ UNCHANGED <<todo, iflag, task, frozen, idt, pic, uart>>
      /\ kbc' = [kbc EXCEPT !.in = Nothing,
           !.expects = IF port = PORT_KB_CMD THEN value ELSE 0,
           !.config = IF port = PORT_KB_DATA /\ kbc.expects = \h60 THEN Bits(value) ELSE kbc.config,
           !.reporting = @ \/ (port = PORT_KB_DATA /\ kbc.expects = \hD4 /\ value = \hF4)]
  BY DEF TakeByte, Device, software
<1>2. kbc.in \in Nat \X Nat
  BY <1>0, <1>1 DEF Keyboard
<1>3. value \in Nat
  BY <1>2
<1> HIDE DEF port, value
<1>4. kbc' \in Keyboard /\ kbc'.in = Nothing
  <2>1. (IF port = PORT_KB_CMD THEN value ELSE 0) \in Nat
    BY <1>3
  <2>2. (IF port = PORT_KB_DATA /\ kbc.expects = \h60 THEN Bits(value) ELSE kbc.config)
          \in SUBSET (0 .. 7)
    BY <1>0, BitsRange DEF Keyboard
  <2>3. (kbc.reporting \/ (port = PORT_KB_DATA /\ kbc.expects = \hD4 /\ value = \hF4)) \in BOOLEAN
    BY <1>0 DEF Keyboard
  <2> QED BY <1>0, <1>1, <2>1, <2>2, <2>3 DEF Keyboard
<1>5. ASSUME NEW k \in 1 .. 28, CommandsInv(k) PROVE CommandsInv(k)'
  <2> DEFINE n == Sent(k)
  <2>1. /\ n > 0 /\ kbc.in = Commands[n] /\ accepted = SubSeq(Commands, 1, n - 1)
    BY <1>1, <1>5 DEF CommandsInv
  <2>a. n \in 0 .. 4
    BY SentValues
  <2>2. n \in 1 .. 4
    BY <2>1, <2>a
  <2>3. Commands \in Seq(Nat \X Nat)
    BY CommandValues
  <2>4. Len(Commands) = 4
    BY CommandValues
  <2> HIDE DEF n
  <2>5. SubSeq(Commands, 1, n) = Append(SubSeq(Commands, 1, n - 1), Commands[n])
    BY <2>2, <2>3, <2>4, SubSeqRecursiveSecond
  <2>6. accepted' = SubSeq(Commands, 1, n)
    BY <1>1, <2>1, <2>5
  <2> QED BY <1>4, <2>6 DEF CommandsInv, n
<1> QED BY <1>0, <1>1, <1>4, <1>5, DeviceKept

LEMMA DeviceStep ==
  ASSUME IInv, KeyByte \/ MouseByte \/ Tick \/ SerialSent \/ DiskDone
  PROVE  IInv'
<1>0. kbc \in Keyboard /\ uart \in Port
  BY TypeParts DEF IInv
<1>1. ASSUME NEW from \in {"keyboard", "mouse"}, NEW byte \in Nat, NEW c \in {0, 1},
             NEW level \in 0 .. 7,
             NEW flag \in Nat, (c = 0 /\ level = 1) \/ (c = 1 /\ level = 4),
             Receive(from, byte, c, level, flag)
      PROVE  IInv'
  <2>1. /\ kbc' = [kbc EXCEPT !.out = <<from, byte>>]
        /\ pic' = Raise(pic, c, level) \/ pic' = pic
        /\ Device /\ UNCHANGED <<uart, accepted>>
    BY <1>1 DEF Receive
  <2>2. kbc' \in Keyboard /\ kbc'.in = kbc.in
    BY <1>0, <2>1, KeyboardProperties
  <2> QED BY <1>0, <1>1, <2>1, <2>2, DeviceRaises
<1>2. CASE KeyByte
  <2>1. PICK code \in ScanCode : Receive("keyboard", code, 0, 1, 0)
    BY <1>2 DEF KeyByte
  <2>2. code \in Nat
    BY ScanCodeAssumption
  <2>3. "keyboard" \in {"keyboard", "mouse"}
    OBVIOUS
  <2>4. 0 \in {0, 1} /\ 1 \in 0 .. 7 /\ 0 \in Nat
    OBVIOUS
  <2> QED BY <1>1, <2>1, <2>2, <2>3, <2>4
<1>3. CASE MouseByte
  <2>1. Receive("mouse", 0, 1, 4, 1)
    BY <1>3 DEF MouseByte
  <2>2. "mouse" \in {"keyboard", "mouse"}
    OBVIOUS
  <2>3. 1 \in {0, 1} /\ 4 \in 0 .. 7 /\ 0 \in Nat /\ 1 \in Nat
    OBVIOUS
  <2> QED BY <1>1, <2>1, <2>2, <2>3
<1>4. CASE Tick
  <2>1. pic' = Raise(pic, 0, 0) /\ Device /\ UNCHANGED <<kbc, uart, accepted>>
    BY <1>4 DEF Tick
  <2> QED BY <1>0, <2>1, DeviceRaises
<1>5. CASE SerialSent
  <2>1. /\ uart' = [uart EXCEPT !.busy = FALSE]
        /\ pic' = Raise(pic, 0, 4) \/ pic' = pic
        /\ Device /\ UNCHANGED <<kbc, accepted>>
    BY <1>5 DEF SerialSent
  <2>2. uart' \in Port /\ uart'.interrupts = uart.interrupts
    BY <1>0, <2>1, PortProperties
  <2> QED BY <1>0, <2>1, <2>2, DeviceRaises
<1>6. CASE DiskDone
  <2>1. pic' = Raise(pic, 1, 6) /\ Device /\ UNCHANGED <<kbc, uart, accepted>>
    BY <1>6 DEF DiskDone
  <2> QED BY <1>0, <2>1, DeviceRaises
<1> QED BY <1>2, <1>3, <1>4, <1>5, <1>6

-----------------------------------------------------------------------------
(* The theorems.                                                             *)
LEMMA InitIInv ==
  ASSUME Init
  PROVE  IInv
<1>1. kernel_main \in Seq(Op) /\ Len(kernel_main) = 27
  BY BootRoutine
<1>2. DOMAIN kernel_main = 1 .. 27
  BY <1>1
<1>3. todo = Suffix(kernel_main, 1)
  <2>1. kernel_main \in Seq(Op)
    BY <1>1
  <2>2. SubSeq(kernel_main, 1, Len(kernel_main)) = kernel_main
    BY <2>1, SubSeqFull
  <2> QED BY <2>2 DEF Init, Suffix
<1>4. PICK irr0 \in SUBSET {0} :
        pic = [c \in {0, 1} |-> [irr |-> IF c = 0 THEN irr0 ELSE {}, isr |-> {},
                 imr |-> {}, icw |-> 0, base |-> IF c = 0 THEN 8 ELSE \h70]]
  BY DEF Init
<1>5. /\ pic \in Pair /\ pic[0].irr \subseteq {0, 1, 4} /\ pic[1].irr \subseteq {4, 6}
      /\ pic[0].isr = {} /\ pic[1].isr = {} /\ pic[0].icw = 0 /\ pic[1].icw = 0
  <2>1. /\ pic[0] = [irr |-> irr0, isr |-> {}, imr |-> {}, icw |-> 0, base |-> 8]
        /\ pic[1] = [irr |-> {}, isr |-> {}, imr |-> {}, icw |-> 0, base |-> \h70]
    BY <1>4
  <2>2. pic[0] \in Controller /\ pic[1] \in Controller
    BY <2>1 DEF Controller
  <2>3. pic = [c \in {0, 1} |-> pic[c]]
    BY <1>4
  <2>4. pic \in Pair
    BY <2>2, <2>3 DEF Pair
  <2> QED BY <2>1, <2>4
<1>6. kbc \in Keyboard /\ kbc.in = Nothing
  BY DEF Init, Keyboard
<1>7. frozen \in [Task -> Frozen] /\ uart \in Port /\ task \in Task
  BY DEF Init, Frozen, Port
<1>8. TypeOK
  BY <1>5, <1>6, <1>7, TypeParts DEF Init
<1>9. SetUp(1)
  BY <1>5 DEF SetUp
<1>10. CommandsInv(1)
  <2>1. accepted = SubSeq(Commands, 1, 0)
    <3>1. SubSeq(Commands, 1, 0) = <<>>
      BY SubSeqEmpty
    <3> QED BY <3>1 DEF Init
  <2>2. Sent(1) = 0
    BY DEF Sent
  <2> QED BY <1>6, <2>1, <2>2 DEF CommandsInv
<1>11. Serving({}, {}) /\ ~ iflag
  BY <1>5 DEF Init, Serving
<1>12. 1 \in DOMAIN kernel_main
  BY <1>2
<1> QED BY <1>3, <1>8, <1>9, <1>10, <1>11, <1>12 DEF IInv, Booting

LEMMA NextIInv ==
  ASSUME IInv, [Next]_vars
  PROVE  IInv'
<1>1. CASE Next
  BY <1>1, ExecuteStep, InterruptStep, SyscallStep, FlagStep, TakeStep, DeviceStep DEF Next
<1>2. CASE UNCHANGED vars
  <2>1. /\ UNCHANGED <<todo, iflag, task, frozen, idt, pic, kbc, uart, accepted>>
    BY <1>2 DEF vars, software, hardware
  <2>2. /\ pic \in Pair /\ kbc \in Keyboard /\ uart \in Port
        /\ pic[0].irr \subseteq {0, 1, 4} /\ pic[1].irr \subseteq {4, 6}
    BY TypeParts DEF IInv
  <2>3. \A k \in 1 .. 28 : CommandsInv(k) => CommandsInv(k)'
    BY <2>1 DEF CommandsInv
  <2> QED BY <2>1, <2>2, <2>3, DeviceKept
<1> QED BY <1>1, <1>2

LEMMA SpecIInv == Spec => []IInv
<1>1. Init => IInv
  BY InitIInv
<1>2. IInv /\ [Next]_vars => IInv'
  BY NextIInv
<1> QED BY <1>1, <1>2, PTL DEF Spec

\* Whatever tasks there are and whatever the keyboard sends, no controller has
\* an interrupt in service while interrupts are on: every handler tells both
\* controllers before it returns or lets another task run
\* (interrupt_handlers.c:35, :81, :105-107).
THEOREM InterruptsAreAcknowledged == Spec => []InterruptsAcknowledged
<1>1. IInv => InterruptsAcknowledged
  BY InTask DEF InterruptsAcknowledged, Serving
<1> QED BY <1>1, SpecIInv, PTL

\* The keyboard controller gets the four bytes of initial_keyboard and
\* initial_mouse in their order, none lost under the next, and has them all
\* when interrupts are on, but for one it has still to take
\* (kernel_inits.c:157-170).
THEOREM KeyboardCommandsArrive == Spec => []CommandsArrive
<1>1. ASSUME IInv PROVE CommandsArrive
  <2>1. ASSUME NEW k \in 1 .. 28, CommandsInv(k)
        PROVE  accepted = SubSeq(Commands, 1, Len(accepted))
    <3>1. PICK n \in 0 .. 4 : accepted = SubSeq(Commands, 1, n)
      <4>1. Sent(k) \in 0 .. 4
        BY SentValues
      <4>2. CASE accepted = SubSeq(Commands, 1, Sent(k))
        BY <4>1, <4>2
      <4>3. CASE Sent(k) > 0 /\ accepted = SubSeq(Commands, 1, Sent(k) - 1)
        <5>1. Sent(k) - 1 \in 0 .. 4
          BY <4>1, <4>3
        <5> QED BY <4>3, <5>1
      <4> QED BY <2>1, <4>2, <4>3 DEF CommandsInv
    <3>2. Len(accepted) = n
      <4>1. Commands \in Seq(Nat \X Nat)
        BY CommandValues
      <4>2. \A i \in 1 .. n : Commands[i] \in Nat \X Nat
        BY CommandValues
      <4> QED BY <3>1, <4>2, SubSeqProperties
    <3> QED BY <3>1, <3>2
  <2>2. \E k \in 1 .. 28 : CommandsInv(k)
    BY <1>1, Places DEF IInv, BootAt
  <2>3. ASSUME iflag PROVE kbc.in # Nothing \/ accepted = Commands
    <3>1. CommandsInv(28)
      BY <1>1, <2>3, InTask DEF Ready
    <3>2. SubSeq(Commands, 1, 4) = Commands
      <4>1. Commands \in Seq(Nat \X Nat)
        BY CommandValues
      <4>2. SubSeq(Commands, 1, Len(Commands)) = Commands
        BY <4>1, SubSeqFull
      <4>3. Len(Commands) = 4
        BY CommandValues
      <4> QED BY <4>2, <4>3
    <3>3. \A i \in 1 .. 4 : Commands[i] # Nothing
      BY CommandValues
    <3>4. Sent(28) = 4
      BY SentValues
    <3>5. \/ accepted = SubSeq(Commands, 1, 4)
          \/ kbc.in = Commands[4]
      BY <3>1, <3>4 DEF CommandsInv
    <3> QED BY <3>2, <3>3, <3>5
  <2> QED BY <2>1, <2>2, <2>3 DEF CommandsArrive
<1>2. IInv => CommandsArrive
  BY <1>1
<1> QED BY <1>2, SpecIInv, PTL
=============================================================================
