----------------------------- MODULE BootSector -----------------------------
(***************************************************************************)
(* The boot sector (bootloader.nas): it loads the second stage, ntmio.sys, *)
(* sector by sector from the floppy disk and jumps to it.  read_sector     *)
(* keeps the block number, the number of the try and the buffer on the     *)
(* stack while it asks the BIOS, and resets the drive between two tries.   *)
(***************************************************************************)
EXTENDS BootLayout, Sequences

VARIABLES
  pc,        \* "load", "try", "int13", "fail", "jumped", "halted"
  ax, bx, cx,\* registers: block number, buffer (in sectors), number of the try
  disk,      \* the address given to int 13h
  stack,     \* what read_sector pushed, last first
  mem        \* [buffer -> sector]: what was loaded where

vars == <<pc, ax, bx, cx, disk, stack, mem>>

First == FirstData
Last == FirstData + Stage2Sectors - 1
Buffer == 0 .. Last - First
Sector == First .. Last
NoSector == -1      \* never written, or half written by a try that failed

Init ==
  /\ pc = "load" /\ ax = First /\ bx = 0 /\ cx = 0
  /\ disk = ChsOf(0) /\ stack = <<>>
  /\ mem = [b \in Buffer |-> NoSector]

\* CALL read_sector, up to the first try.
Call ==
  /\ pc = "load"
  /\ pc' = "try" /\ cx' = 0
  /\ UNCHANGED <<ax, bx, disk, stack, mem>>

\* Deviation of Try: the buffer is left on the stack.
TryKeepsBuffer ==
  /\ pc = "try"
  /\ stack' = <<bx, cx, ax>> \o stack
  /\ disk' = ChsOf(ax)
  /\ pc' = "int13"
  /\ UNCHANGED <<ax, bx, cx, mem>>

\* Push ax, cx and bx, compute the address, pop bx.
Try ==
  /\ pc = "try"
  /\ stack' = <<cx, ax>> \o stack
  /\ disk' = ChsOf(ax)
  /\ pc' = "int13"
  /\ UNCHANGED <<ax, bx, cx, mem>>

\* int 13h succeeds: pop cx and ax, return; the loop goes on to the next sector
\* or leaves.
Success ==
  /\ pc = "int13"
  /\ mem' = [mem EXCEPT ![bx] = SectorAt(disk)]
  /\ cx' = stack[1]
  /\ stack' = SubSeq(stack, 3, Len(stack))
  /\ IF stack[2] > Last - 1
     THEN pc' = "jumped" /\ ax' = stack[2] /\ UNCHANGED bx
     ELSE pc' = "load" /\ ax' = stack[2] + 1 /\ bx' = bx + 1
  /\ UNCHANGED disk

\* int 13h reports an error; the buffer may be overwritten nonetheless.
Error ==
  /\ pc = "int13"
  /\ \E s \in {NoSector, SectorAt(disk)} : mem' = [mem EXCEPT ![bx] = s]
  /\ pc' = "fail"
  /\ UNCHANGED <<ax, bx, cx, disk, stack>>

\* Deviation of ReadFail: the drive is reset and read again without end.
RetryForever ==
  /\ pc = "fail"
  /\ cx' = stack[1]
  /\ pc' = "try" /\ ax' = stack[2] /\ stack' = SubSeq(stack, 3, Len(stack))
  /\ UNCHANGED <<bx, disk, mem>>

\* .read_fail: give up when the counter reaches 3, else reset the drive and
\* take the block number from the stack.
ReadFail ==
  /\ pc = "fail"
  /\ cx' = stack[1] + 1
  /\ IF cx' = 3
     THEN pc' = "halted" /\ stack' = Tail(stack) /\ UNCHANGED ax
     ELSE pc' = "try" /\ ax' = stack[2] /\ stack' = SubSeq(stack, 3, Len(stack))
  /\ UNCHANGED <<bx, disk, mem>>

\* JMP BL2_BASE_MEM, or hlt for ever.
Over == pc \in {"jumped", "halted"} /\ UNCHANGED vars

Next == Call \/ Try \/ Success \/ Error \/ ReadFail \/ Over

Spec == Init /\ [][Next]_vars

-----------------------------------------------------------------------------
\* Type invariant of the registers, the stack and the loaded sectors.
TypeOK ==
  /\ pc \in {"load", "try", "int13", "fail", "jumped", "halted"}
  /\ ax \in First .. Last /\ bx \in Buffer /\ cx \in 0 .. 3
  /\ stack \in Seq(Nat)
  /\ mem \in [Buffer -> Sector \cup {NoSector}]

\* Whatever fails on the way, when the second stage is started every sector of
\* it is in its place (bootloader.nas:53-70).
SecondStageLoaded == pc = "jumped" => \A b \in Buffer : mem[b] = First + b

\* read_sector takes off the stack what it put there, whether it succeeds at
\* once or later (bootloader.nas:81-83, bootloader.nas:118-142).
StackBalanced == pc \in {"load", "try", "jumped"} => stack = <<>>

\* The inductive invariant: the buffer follows the block number, what is behind
\* it is loaded, and the stack holds one try at most.
IInv ==
  /\ TypeOK
  /\ bx = ax - First
  /\ StackBalanced
  /\ pc = "try" => cx \in 0 .. 2
  /\ pc \in {"int13", "fail"} => \E c \in 0 .. 2 : stack = <<c, ax>>
  /\ pc = "int13" => disk = ChsOf(ax)
  /\ \A b \in Buffer : b < bx \/ pc = "jumped" => mem[b] = First + b
=============================================================================
