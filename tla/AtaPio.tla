------------------------------- MODULE AtaPio -------------------------------
(***************************************************************************)
(* The disk driver (harddisk.c): ata_detect fills the table of the drives, *)
(* and ata_pio_lba_read splits the sector number over four registers,      *)
(* sends the command and takes one word after the other from the data      *)
(* port.                                                                   *)
(*                                                                         *)
(* Its two loops do not wait as their author meant.  C reads the first as  *)
(* status & (BSY != 0), which tests the error bit, and the second as       *)
(* status & (DRQ == 0), which is nothing at all.  What arrives therefore   *)
(* depends on the drive, which is modelled here after the interface it     *)
(* offers: a slow one may be busy after a command and between two sectors  *)
(* for longer than the driver's few reads of the status take, and any may  *)
(* fail at a sector it cannot read, the first or one in the middle.        *)
(***************************************************************************)
EXTENDS Integers, Sequences

CONSTANTS
  Words,     \* words of a sector, 256
  Byte,      \* values of an eight-bit register, 256
  Sectors,   \* sectors of every drive
  Machine,   \* the machines: for each of the two ports, a drive or NoDisk
  NoDisk,    \* nothing at a port, or a drive that is not ATA
  Misread    \* the entry that fs.c sees behind the first drive

ASSUME AtaAssumption ==
  /\ Words \in Nat \ {0} /\ Byte \in Nat \ {0, 1}
  /\ Sectors \in 1 .. 16 * Byte * Byte * Byte

VARIABLES
  ports,     \* the machine at hand
  hdds,      \* g_hdd_devices as fs.c sees it, the entries that are present
  ata,       \* the driver: "idle", "poll" or "data"
  request,   \* arguments of ata_pio_lba_read: drive, sector, number of sectors
  buf,       \* the words read so far, each <<drive, sector, index in sector>>
  drive      \* the drive: sector and word it gives next, words left, flags

ioVars == <<ata, request, buf, drive>>
ataVars == <<ports, hdds, ioVars>>

Garbage == <<0, 0, 0>>   \* what the data port shows while there is no data

AtaInit ==
  /\ ports \in Machine /\ hdds = <<>>
  /\ ata = "idle" /\ buf = <<>>
  /\ request = [hdd |-> 0, lba |-> 0, n |-> 0]
  /\ drive = [sector |-> 0, word |-> 0, left |-> 0, busy |-> FALSE, err |-> FALSE]

\* ata_detect: the drives found at the two ports fill the table from its beginning.
Detected(d) == IF d = NoDisk THEN <<>> ELSE <<d>>

\* What fs.c makes of the table.  Its entries are one byte longer than those of
\* harddisk.c, which packs them, so that only the first is what was stored.  In
\* place of is_present the second shows is_lba28_support of the second drive, which
\* is set, for it is taken from the model number; or, with one drive, a byte of the
\* words that drive told of itself, which take twice the room the entry has for them
\* (spill: whether that byte is set).  The port in the second entry is no drive's.
Table(found) ==
  IF Len(found) = 2 \/ (Len(found) = 1 /\ found[1].spill)
  THEN <<found[1], Misread>> ELSE found

AtaDetect ==
  /\ hdds' = Table(Detected(ports[1]) \o Detected(ports[2]))
  /\ UNCHANGED <<ports, ioVars>>

\* Deviation of Registers: the high and the middle byte are swapped.
RegistersSwapped(lba, n) ==
  [count |-> n % Byte,
   lo |-> lba % Byte,
   hi |-> (lba \div Byte) % Byte,
   mid |-> (lba \div (Byte * Byte)) % Byte,
   head |-> (lba \div (Byte * Byte * Byte)) % 16]

\* The bytes written to the count, LBA and drive/head registers.
Registers(lba, n) ==
  [count |-> n % Byte,
   lo |-> lba % Byte,
   mid |-> (lba \div Byte) % Byte,
   hi |-> (lba \div (Byte * Byte)) % Byte,
   head |-> (lba \div (Byte * Byte * Byte)) % 16]

\* The drive: the sector the registers name, and how many; a count of 0 stands
\* for the largest number.
AddressOf(r) == r.lo + Byte * (r.mid + Byte * (r.hi + Byte * r.head))
CountOf(r) == IF r.count = 0 THEN Byte ELSE r.count

\* A sector of drive d that can be read.
Readable(d, sector) == sector < Sectors /\ sector \notin d.bad

\* How drive d may be busy.
Busy(d) == IF d.slow THEN BOOLEAN ELSE {FALSE}

\* What a command finds: a drive that takes it, or, at the port of an entry that
\* was misread, nobody; what the status port shows there stays open.
Answers(d, r) ==
  IF d = Misread
  THEN {[sector |-> 0, word |-> 0, left |-> 0, busy |-> FALSE, err |-> e] : e \in BOOLEAN}
  ELSE {[sector |-> AddressOf(r), word |-> 0, left |-> CountOf(r) * Words, busy |-> b,
         err |-> ~Readable(d, AddressOf(r))] : b \in Busy(d)}

\* ata_pio_lba_read up to the command, and the drive's reaction to it.
Call(hdd, lba, n) ==
  /\ ata = "idle" /\ ata' = "poll"
  /\ request' = [hdd |-> hdd, lba |-> lba, n |-> n]
  /\ buf' = <<>>
  /\ drive' \in Answers(hdds[hdd], Registers(lba, n))
  /\ UNCHANGED <<ports, hdds>>

\* The status reads and the two loops: the driver stays only while the drive
\* reports an error, which it does until the next command.
Poll ==
  /\ ata = "poll"
  /\ ata' = IF drive.err /\ ~drive.busy THEN "poll" ELSE "data"
  /\ UNCHANGED <<ports, hdds, request, buf, drive>>

\* The drive after a word: the next one of the sector, or the next sector, which
\* it may take its time for or be unable to read.  Nobody looks at its status.
Given(d, b) ==
  IF drive.word + 1 < Words
  THEN [drive EXCEPT !.word = @ + 1, !.left = @ - 1]
  ELSE [drive EXCEPT !.sector = @ + 1, !.word = 0, !.left = @ - 1, !.busy = b,
                     !.err = drive.left > 1 /\ ~Readable(d, drive.sector + 1)]

\* One turn of the transfer loop.
ReadWord ==
  /\ ata = "data" /\ Len(buf) < request.n * Words
  /\ IF drive.busy \/ drive.err \/ drive.left = 0
     THEN buf' = Append(buf, Garbage) /\ UNCHANGED drive
     ELSE /\ buf' = Append(buf, <<request.hdd, drive.sector, drive.word>>)
          /\ \E b \in Busy(hdds[request.hdd]) : drive' = Given(hdds[request.hdd], b)
  /\ UNCHANGED <<ports, hdds, ata, request>>

\* The end of ata_pio_lba_read.
Return ==
  /\ ata = "data" /\ Len(buf) = request.n * Words
  /\ ata' = "idle"
  /\ UNCHANGED <<ports, hdds, request, buf, drive>>

\* The drive has the next sector ready, or gives it up.
Ready ==
  /\ drive.busy
  /\ drive' = [drive EXCEPT !.busy = FALSE]
  /\ UNCHANGED <<ports, hdds, ata, request, buf>>

Transfer == Poll \/ ReadWord \/ Return \/ Ready

-----------------------------------------------------------------------------
\* The words of the sectors asked for, in order, as far as they were read.
Intact ==
  \A i \in 1 .. Len(buf) :
    buf[i] = <<request.hdd, request.lba + (i - 1) \div Words, (i - 1) % Words>>

\* Drive d can give n sectors from lba on: as many as the count register can say,
\* all of them readable, and it is never busy when it is asked for a word.
Delivers(d, lba, n) ==
  /\ ~d.slow /\ n \in 1 .. Byte
  /\ \A s \in lba .. lba + n - 1 : Readable(d, s)

\* What a drive can give arrives as it was asked for, across the bytes of the
\* registers and for the largest count, which is sent as 0.  Where the drive is
\* busy, fails on the way, or is asked for more sectors than the register holds,
\* other words arrive, and nothing tells the caller (harddisk.c:125-166).
ReadDelivers ==
  /\ request.n > 0 /\ hdds[request.hdd] # Misread
  /\ Delivers(hdds[request.hdd], request.lba, request.n)
  => Intact

-----------------------------------------------------------------------------
(* Types.                                                                    *)

AtaTypeOK ==
  /\ ata \in {"idle", "poll", "data"}
  /\ request \in [hdd : Nat, lba : Nat, n : Nat]
  /\ buf \in Seq(Nat \X Nat \X Nat)
  /\ drive \in [sector : Nat, word : 0 .. Words - 1, left : Nat, busy : BOOLEAN, err : BOOLEAN]
=============================================================================
