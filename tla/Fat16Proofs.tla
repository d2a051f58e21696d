---------------------------- MODULE Fat16Proofs -----------------------------
(***************************************************************************)
(* Proofs about AtaPio and Fat16, for registers, sectors and drives of any *)
(* size.                                                                   *)
(***************************************************************************)
EXTENDS Fat16, SequenceTheorems, WellFoundedInduction, TLAPS

-----------------------------------------------------------------------------
(* The inductive invariants of AtaPio and Fat16.                           *)

\* What was asked for can be given: the drive is where the words read so far have
\* left it.
Served ==
  /\ request.hdd \in DOMAIN hdds /\ hdds[request.hdd] # Misread
  /\ Delivers(hdds[request.hdd], request.lba, request.n)

InStep ==
  /\ drive.sector = request.lba + Len(buf) \div Words
  /\ drive.word = Len(buf) % Words
  /\ drive.left = request.n * Words - Len(buf)
  /\ ~drive.busy /\ ~drive.err
  /\ Len(buf) <= request.n * Words
  /\ Intact

Answered ==
  /\ Served => InStep
  /\ ata = "idle" => Len(buf) = request.n * Words

\* The search of the root file system: which drive is at hand, what is asked of it,
\* and what is known of the root.
Parsed ==
  LET p == Chosen(hdds[1].entries)
  IN  Delivers(hdds[1], 0, 1) => root.start = p.start /\ root.size = p.size

Built ==
  LET p == Chosen(hdds[1].entries)
  IN  Delivers(hdds[1], 0, 1) /\ Delivers(hdds[1], p.start, 1) => root.volume = hdds[1].volume

RootInv ==
  /\ request.n > 0 => request.hdd \in DOMAIN hdds
  /\ at = "detect" => request.hdd = 0 /\ request.n = 0 /\ root.hdd = 0
  /\ at \in {"detect", "scan", "mbr", "bootSector"} => call = NoCall
  /\ at \in Working \cup {"scan"} => root.hdd <= Len(hdds)
  /\ at \in Working => root.hdd > 0 /\ request.hdd = root.hdd
  /\ at = "mbr" => request.lba = 0 /\ request.n = 1
  /\ at = "bootSector" => request.lba = root.start /\ request.n = 1
  /\ at \in Working \ {"mbr"} => root.hdd = 1 /\ root.type = FAT16Type /\ Parsed
  /\ at \in Mounted => root.volume.bps # 0 /\ Built

\* read_file: what is still to be copied has room behind what was copied.
CallInv ==
  /\ call.remain >= 0 /\ call.copied >= 0 /\ call.copied + call.remain <= call.size
  /\ at \in {"size", "sized"} => call.copied = 0

\* How far the reading of the small file of entry i has come.
Reading(d, i) ==
  LET e == d.dir[i]
      p == Chosen(d.entries)
      done == call.remain = 0 /\ call.got = <<Piece(d, i)>>
  IN  /\ at \notin {"panic", "divideError"}
      /\ at \in {"size", "sized", "cluster", "data"} => call.got = <<>>
      /\ at \in {"size", "cluster"} =>
           request.lba = p.start + DirectoryPlace(d.volume) /\ request.n = RootSectors(d.volume)
      /\ at = "sized" => call.len = e.size
      /\ at \in {"cluster", "data"} => call.remain = Asked(e)
      /\ at = "loop" => \/ done
                        \/ call.got = <<>> /\ call.remain = Asked(e) /\ call.cluster = e.cluster
      /\ at = "data" => request.lba = Piece(d, i).sector /\ request.n = d.volume.spc
      /\ at = "table" => done
      /\ at = "mounted" => call.got = <<Piece(d, i)>>

\* Every small file is being read as it should be.
FileInv ==
  call.size > 0 /\ ~call.starved =>
    \A i \in DOMAIN hdds[root.hdd].dir :
      SmallFile(hdds[root.hdd], i) => Reading(hdds[root.hdd], i)

IInv == AtaTypeOK /\ Answered /\ FsTypeOK /\ RootInv /\ CallInv /\ FileInv

-----------------------------------------------------------------------------
(* Numbers.                                                                  *)

LEMMA DivMod ==
  ASSUME NEW a \in Int, NEW m \in Nat \ {0}
  PROVE  a \div m \in Int /\ a % m \in 0 .. m - 1 /\ a = m * (a \div m) + (a % m)
OBVIOUS

LEMMA MultNat == ASSUME NEW a \in Nat, NEW b \in Nat PROVE a * b \in Nat
OBVIOUS

LEMMA MultGrows == ASSUME NEW a \in Nat \ {0}, NEW b \in Int, NEW c \in Int, b < c PROVE a * b + a <= a * c
<1>1. c - b - 1 \in Nat
  OBVIOUS
<1>2. a * (c - b - 1) \in Nat
  BY <1>1, MultNat
<1>3. a * (c - b - 1) = a * c - a * b - a
  OBVIOUS
<1> QED BY <1>2, <1>3

\* Quotient and remainder are the only numbers of their kind.
LEMMA Quotient ==
  ASSUME NEW a \in Int, NEW m \in Nat \ {0}, NEW q \in Int, NEW s \in 0 .. m - 1, a = m * q + s
  PROVE  a \div m = q /\ a % m = s
<1> DEFINE p == a \div m
           r == a % m
<1>1. p \in Int /\ r \in 0 .. m - 1 /\ a = m * p + r
  BY DivMod
<1> HIDE DEF p, r
<1>2. CASE p < q
  <2>1. m * p + m <= m * q
    BY <1>1, <1>2, MultGrows
  <2> QED BY <1>1, <2>1
<1>3. CASE q < p
  <2>1. m * q + m <= m * p
    BY <1>1, <1>3, MultGrows
  <2> QED BY <1>1, <2>1
<1>4. p = q
  BY <1>1, <1>2, <1>3
<1> QED BY <1>1, <1>4 DEF p, r

\* Dividing twice.
LEMMA DivNat ==
  ASSUME NEW a \in Nat, NEW b \in Nat \ {0}
  PROVE  a \div b \in Nat
OBVIOUS

LEMMA DivDiv ==
  ASSUME NEW a \in Nat, NEW b \in Nat \ {0}, NEW c \in Nat \ {0}
  PROVE  (a \div b) \div c = a \div (b * c)
<1> DEFINE q == a \div b
           r == a % b
           u == q \div c
           v == q % c
<1>1. q \in Int /\ r \in 0 .. b - 1 /\ a = b * q + r
  BY DivMod
<1>2. u \in Int /\ v \in 0 .. c - 1 /\ q = c * u + v
  BY <1>1, DivMod
<1> HIDE DEF q, r, u, v
<1>3. a = (b * c) * u + (b * v + r)
  <2>1. b * (c * u + v) = (b * c) * u + b * v
    BY <1>2
  <2> QED BY <1>1, <1>2, <2>1
<1>4. b * v + r \in 0 .. b * c - 1
  <2>1. b * v \in Nat
    BY <1>2, MultNat
  <2>2. b * v + b <= b * c
    BY <1>2, MultGrows
  <2> QED BY <1>1, <2>1, <2>2
<1>5. b * c \in Nat \ {0}
  BY MultNat
<1>6. a \div (b * c) = u
  BY <1>2, <1>3, <1>4, <1>5, Quotient
<1> QED BY <1>6 DEF u, q

\* What does not reach the modulus is its own remainder.
LEMMA SmallMod ==
  ASSUME NEW m \in Nat \ {0}, NEW a \in 0 .. m - 1
  PROVE  a % m = a
<1>1. a = m * 0 + a
  OBVIOUS
<1> QED BY <1>1, Quotient

\* A multiple of the modulus more or less makes no difference.
LEMMA ModAgain ==
  ASSUME NEW m \in Nat \ {0}, NEW a \in Int, NEW k \in Int
  PROVE  (m * k + a) % m = a % m
<1> DEFINE q == a \div m
           r == a % m
<1>1. q \in Int /\ r \in 0 .. m - 1 /\ a = m * q + r
  BY DivMod
<1> HIDE DEF q, r
<1>2. m * k + a = m * (k + q) + r
  BY <1>1
<1>3. m * k + a \in Int /\ k + q \in Int
  BY <1>1
<1> QED BY <1>1, <1>2, <1>3, Quotient DEF r

-----------------------------------------------------------------------------
(* The registers of the drive (harddisk.c:125-147).                          *)

LEMMA SizesFacts ==
  /\ Byte \in Nat \ {0} /\ Words \in Nat \ {0} /\ Addresses \in Nat \ {0}
  /\ Byte * Byte * Byte \in Nat \ {0} /\ Addresses = 16 * (Byte * Byte * Byte)
  /\ Sectors \in 1 .. Addresses /\ Byte <= Addresses
<1>1. /\ Byte \in Nat \ {0, 1} /\ Words \in Nat \ {0}
      /\ Sectors \in 1 .. 16 * Byte * Byte * Byte
  BY AtaAssumption
<1>2. Byte * Byte \in Nat \ {0} /\ Byte <= Byte * Byte
  <2>1. Byte * 1 + Byte <= Byte * Byte
    BY <1>1, MultGrows
  <2> QED BY <1>1, <2>1
<1>3. Byte * Byte * Byte \in Nat \ {0} /\ Byte * Byte <= Byte * Byte * Byte
  <2>1. (Byte * Byte) * 1 + Byte * Byte <= Byte * Byte * Byte
    BY <1>1, <1>2, MultGrows
  <2>2. Byte * Byte * Byte \in Int
    BY <1>1
  <2>3. ASSUME NEW u \in Nat \ {0}, NEW w \in Int, u * 1 + u <= w PROVE w \in Nat \ {0} /\ u <= w
    BY <2>3
  <2> QED BY <1>2, <2>1, <2>2, <2>3, Zenon
<1>4. Addresses = 16 * (Byte * Byte * Byte)
  BY <1>1 DEF Addresses
<1>5. 16 * Byte * Byte * Byte = Addresses
  BY DEF Addresses
<1>6. ASSUME NEW h \in Nat \ {0}, Addresses = 16 * h PROVE Addresses \in Nat \ {0} /\ h <= Addresses
  BY <1>6
<1> QED BY <1>1, <1>2, <1>3, <1>4, <1>5, <1>6

LEMMA DivThrice ==
  ASSUME NEW a \in Nat, NEW b \in Nat \ {0}
  PROVE  /\ a \div b \in Nat /\ a \div (b * b) \in Nat /\ a \div (b * b * b) \in Nat
         /\ (a \div b) \div b = a \div (b * b)
         /\ (a \div (b * b)) \div b = a \div (b * b * b)
<1>1. b * b \in Nat \ {0} /\ b * b * b \in Nat \ {0}
  BY MultNat
<1>2. (a \div b) \div b = a \div (b * b)
  BY DivDiv, Zenon
<1>3. ASSUME NEW h \in Nat \ {0} PROVE (a \div h) \div b = a \div (h * b)
  BY DivDiv, Zenon
<1>4. (a \div (b * b)) \div b = a \div (b * b * b)
  BY <1>1, <1>3, Zenon
<1> QED BY <1>1, <1>2, <1>4, DivNat, Zenon

\* The registers name the sector, as far as 28 bits go.
LEMMA RegistersKeep ==
  ASSUME NEW lba \in Nat, NEW n \in Nat
  PROVE  AddressOf(Registers(lba, n)) = lba % Addresses
<1> DEFINE q1 == lba \div Byte
           q2 == q1 \div Byte
           q3 == q2 \div Byte
           q4 == q3 \div 16
           l0 == lba % Byte
           l1 == q1 % Byte
           l2 == q2 % Byte
           l3 == q3 % 16
<1>1. Byte \in Nat \ {0} /\ Byte * Byte \in Nat \ {0}
  BY SizesFacts, MultNat
<1>2. /\ q1 \in Nat /\ q2 \in Nat /\ q3 \in Nat
      /\ q2 = lba \div (Byte * Byte) /\ q3 = lba \div (Byte * Byte * Byte)
  <2>1. Byte \in Nat \ {0}
    BY <1>1
  <2> QED BY <2>1, DivThrice, Zenon
<1>3. q3 \in Nat
  BY <1>2
<1>4. q4 \in Int /\ l3 \in 0 .. 15 /\ q3 = 16 * q4 + l3
  BY <1>3
<1>5. l0 \in 0 .. Byte - 1 /\ lba = Byte * q1 + l0
  BY <1>1, DivMod
<1>6. l1 \in 0 .. Byte - 1 /\ q1 = Byte * q2 + l1
  BY <1>1, <1>2, DivMod
<1>7. l2 \in 0 .. Byte - 1 /\ q2 = Byte * q3 + l2
  BY <1>1, <1>2, <1>3, DivMod
<1>8. AddressOf(Registers(lba, n)) = l0 + Byte * (l1 + Byte * (l2 + Byte * l3))
  BY <1>2, <1>3, Zenon DEF AddressOf, Registers
<1> HIDE DEF q1, q2, q3, q4, l0, l1, l2, l3
<1> DEFINE s2 == l2 + Byte * l3
           s1 == l1 + Byte * s2
           s0 == l0 + Byte * s1
<1>9. s2 \in 0 .. 16 * Byte - 1
  <2>1. Byte * l3 \in Nat /\ Byte * l3 + Byte <= Byte * 16
    BY <1>1, <1>4, MultNat, MultGrows
  <2> QED BY <1>1, <1>7, <2>1
<1>10. s1 \in 0 .. 16 * (Byte * Byte) - 1
  <2> HIDE DEF s2
  <2>1. Byte * s2 \in Nat /\ Byte * s2 + Byte <= Byte * (16 * Byte)
    BY <1>1, <1>9, MultNat, MultGrows
  <2>2. Byte * (16 * Byte) = 16 * (Byte * Byte)
    BY <1>1
  <2> QED BY <1>1, <1>6, <2>1, <2>2
<1>11. s0 \in 0 .. 16 * (Byte * Byte * Byte) - 1
  <2> HIDE DEF s1
  <2>1. Byte * s1 \in Nat /\ Byte * s1 + Byte <= Byte * (16 * (Byte * Byte))
    BY <1>1, <1>10, MultNat, MultGrows
  <2>2. Byte * (16 * (Byte * Byte)) = 16 * (Byte * Byte * Byte)
    BY <1>1
  <2> QED BY <1>1, <1>5, <2>1, <2>2
<1>12. lba = (16 * (Byte * Byte * Byte)) * q4 + s0
  <2>1. lba = Byte * (Byte * (Byte * (16 * q4 + l3) + l2) + l1) + l0
    BY <1>4, <1>5, <1>6, <1>7, Zenon
  <2> QED BY <1>1, <1>4, <1>5, <1>6, <1>7, <2>1
<1>13. lba % (16 * (Byte * Byte * Byte)) = s0
  <2> HIDE DEF s0
  <2>1. 16 * (Byte * Byte * Byte) \in Nat \ {0}
    BY SizesFacts
  <2> QED BY <1>4, <1>11, <1>12, <2>1, Quotient
<1> QED BY <1>8, <1>13, SizesFacts DEF s0, s1, s2

\* The count arrives, too: the largest one is sent as 0.
LEMMA CountKept ==
  ASSUME NEW lba \in Nat, NEW n \in 1 .. Byte
  PROVE  CountOf(Registers(lba, n)) = n
<1>0. Byte \in Nat \ {0} /\ n \in Nat
  BY SizesFacts
<1>1. Registers(lba, n).count = n % Byte
  BY DEF Registers
<1>2. CASE n = Byte
  <2>1. Byte = Byte * 1 + 0
    BY <1>0
  <2>2. n % Byte = 0
    BY <1>0, <1>2, <2>1, Quotient
  <2> QED BY <1>1, <1>2, <2>2 DEF CountOf
<1>3. CASE n # Byte
  <2>1. n % Byte = n /\ n # 0
    BY <1>0, <1>3, SmallMod
  <2> QED BY <1>1, <2>1 DEF CountOf
<1> QED BY <1>2, <1>3

-----------------------------------------------------------------------------
(* The transfer (harddisk.c:149-166).                                        *)

\* Sector and word of the next word.
LEMMA NextWord ==
  ASSUME NEW k \in Nat
  PROVE  /\ k \div Words \in Nat /\ k % Words \in 0 .. Words - 1
         /\ (k % Words) + 1 < Words =>
              (k + 1) \div Words = k \div Words /\ (k + 1) % Words = (k % Words) + 1
         /\ ~ ((k % Words) + 1 < Words) =>
              (k + 1) \div Words = (k \div Words) + 1 /\ (k + 1) % Words = 0
<1> DEFINE q == k \div Words
           r == k % Words
<1>0. Words \in Nat \ {0}
  BY SizesFacts
<1>1. q \in Nat /\ r \in 0 .. Words - 1 /\ k = Words * q + r
  <2>1. q \in Nat
    BY <1>0, DivNat
  <2> QED BY <1>0, <2>1, DivMod
<1> HIDE DEF q, r
<1>2. CASE r + 1 < Words
  <2>1. k + 1 = Words * q + (r + 1) /\ r + 1 \in 0 .. Words - 1
    BY <1>0, <1>1, <1>2
  <2>2. ASSUME NEW a \in Int, NEW t \in 0 .. Words - 1, a = Words * q + t
        PROVE  a \div Words = q /\ a % Words = t
    BY <1>0, <1>1, <2>2, Quotient
  <2>3. k + 1 \in Int
    OBVIOUS
  <2>4. (k + 1) \div Words = q /\ (k + 1) % Words = r + 1
    BY <2>1, <2>2, <2>3, Zenon
  <2> QED BY <1>1, <1>2, <2>4 DEF q, r
<1>3. CASE ~ (r + 1 < Words)
  <2>1. r + 1 = Words
    BY <1>0, <1>1, <1>3
  <2>2. k + 1 = Words * (q + 1) + 0
    BY <1>0, <1>1, <2>1
  <2>3. (k + 1) \div Words = q + 1 /\ (k + 1) % Words = 0
    BY <1>0, <1>1, <2>2, Quotient
  <2> QED BY <1>1, <1>3, <2>3 DEF q, r
<1> QED BY <1>2, <1>3

\* After the command the drive is at the sector asked for.
LEMMA CallAnswers ==
  ASSUME NEW hdd \in Nat, NEW lba \in Nat, NEW n \in Nat, Call(hdd, lba, n)
  PROVE  AtaTypeOK' /\ Answered'
<1> DEFINE r == Registers(lba, n)
           d == hdds[hdd]
<1>0. /\ Words \in Nat \ {0} /\ Addresses \in Nat \ {0} /\ Byte \in Nat \ {0}
      /\ Sectors \in 1 .. Addresses /\ 0 \in 0 .. Words - 1
  BY SizesFacts
<1>1. /\ ata' = "poll" /\ request' = [hdd |-> hdd, lba |-> lba, n |-> n] /\ buf' = <<>>
      /\ hdds' = hdds /\ drive' \in Answers(d, r)
  BY DEF Call
<1>2. buf' \in Seq(Nat \X Nat \X Nat) /\ Len(buf') = 0
  BY <1>1
<1>3. AddressOf(r) = lba % Addresses /\ AddressOf(r) \in Nat
  BY <1>0, RegistersKeep
<1>4. CountOf(r) * Words \in Nat
  <2>1. CountOf(r) \in Nat
    BY <1>0 DEF CountOf, Registers
  <2> QED BY <1>0, <2>1, MultNat
<1> HIDE DEF r, d
<1>5. CASE d = Misread
  <2>1. PICK e \in BOOLEAN :
          drive' = [sector |-> 0, word |-> 0, left |-> 0, busy |-> FALSE, err |-> e]
    BY <1>1, <1>5 DEF Answers
  <2>2. AtaTypeOK'
    BY <1>0, <1>1, <1>2, <2>1 DEF AtaTypeOK
  <2>3. ~ Served'
    BY <1>1, <1>5 DEF Served, d
  <2> QED BY <1>1, <2>2, <2>3 DEF Answered
<1>6. CASE d # Misread
  <2>1. PICK b \in Busy(d) :
          drive' = [sector |-> AddressOf(r), word |-> 0, left |-> CountOf(r) * Words, busy |-> b,
                    err |-> ~ Readable(d, AddressOf(r))]
    BY <1>1, <1>6 DEF Answers
  <2>2. b \in BOOLEAN /\ (~ Readable(d, AddressOf(r))) \in BOOLEAN
    BY DEF Busy
  <2>3. drive' \in [sector : Nat, word : 0 .. Words - 1, left : Nat, busy : BOOLEAN, err : BOOLEAN]
    BY <1>0, <1>3, <1>4, <2>1, <2>2, Zenon
  <2>4. AtaTypeOK'
    BY <1>1, <1>2, <2>3 DEF AtaTypeOK
  <2>5. ASSUME Served' PROVE InStep'
    <3>1. ~ d.slow /\ n \in 1 .. Byte /\ \A s \in lba .. lba + n - 1 : Readable(d, s)
      BY <1>1, <2>5 DEF Served, Delivers, d
    <3>2. Readable(d, lba) /\ lba < Sectors
      <4>1. lba \in lba .. lba + n - 1
        BY <1>0, <3>1
      <4> QED BY <3>1, <4>1 DEF Readable
    <3>3. AddressOf(r) = lba
      BY <1>0, <1>3, <3>2, SmallMod
    <3>4. CountOf(r) = n
      BY <3>1, CountKept DEF r
    <3>5. /\ drive'.sector = lba /\ drive'.word = 0 /\ drive'.left = n * Words
          /\ ~ drive'.busy /\ ~ drive'.err
      <4>1. ~ b
        BY <3>1 DEF Busy
      <4>2. (~ Readable(d, AddressOf(r))) = FALSE
        BY <3>2, <3>3, Zenon
      <4>3. drive'.err = (~ Readable(d, AddressOf(r))) /\ drive'.busy = b
        BY <2>1, Zenon
      <4> QED BY <2>1, <3>3, <3>4, <4>1, <4>2, <4>3
    <3>6. 0 \div Words = 0 /\ 0 % Words = 0
      <4>1. 0 = Words * 0 + 0
        BY <1>0
      <4> QED BY <1>0, <4>1, Quotient
    <3>7. Intact'
      BY <1>2 DEF Intact
    <3>8. n * Words \in Nat
      BY <1>0, MultNat
    <3> QED BY <1>0, <1>1, <1>2, <3>5, <3>6, <3>7, <3>8 DEF InStep
  <2> QED BY <1>1, <2>4, <2>5 DEF Answered
<1> QED BY <1>5, <1>6

\* A sector that has words to come is one of those asked for.
LEMMA NextSector ==
  ASSUME NEW k \in Nat, NEW n \in Nat, k < n * Words
  PROVE  k \div Words \in 0 .. n - 1
<1> DEFINE q == k \div Words
           r == k % Words
<1>0. Words \in Nat \ {0}
  BY SizesFacts
<1>1. q \in Nat /\ r \in 0 .. Words - 1 /\ k = Words * q + r
  <2>1. q \in Nat
    BY <1>0, DivNat
  <2> QED BY <1>0, <2>1, DivMod
<1> HIDE DEF q, r
<1>2. n * Words = Words * n
  BY <1>0
<1>3. CASE n < q
  <2>1. Words * n + Words <= Words * q
    BY <1>0, <1>1, <1>3, MultGrows
  <2>2. Words * n \in Nat /\ Words * q \in Nat
    BY <1>0, <1>1, MultNat
  <2> QED BY <1>0, <1>1, <1>2, <2>1, <2>2
<1>4. CASE n = q
  <2>1. Words * q \in Nat
    BY <1>0, <1>1, MultNat
  <2> QED BY <1>0, <1>1, <1>2, <1>4, <2>1
<1>5. CASE q < n
  BY <1>1, <1>5 DEF q
<1> QED BY <1>1, <1>3, <1>4, <1>5

\* A word taken from the drive keeps it in step.
LEMMA WordKeeps ==
  ASSUME AtaTypeOK, Served, InStep, Len(buf) < request.n * Words,
         buf' = Append(buf, <<request.hdd, drive.sector, drive.word>>),
         drive' = Given(hdds[request.hdd], FALSE), UNCHANGED <<hdds, request>>
  PROVE  InStep'
<1> DEFINE k == Len(buf)
<1>0. /\ Words \in Nat \ {0} /\ k \in Nat /\ request.n \in Nat /\ request.n * Words \in Nat
      /\ request.lba \in Nat
  <2>1. Words \in Nat \ {0} /\ k \in Nat
    BY SizesFacts DEF AtaTypeOK
  <2>2. request.n \in Nat /\ request.lba \in Nat
    BY DEF AtaTypeOK
  <2> QED BY <2>1, <2>2, MultNat
<1>1. /\ drive.sector = request.lba + k \div Words /\ drive.word = k % Words
      /\ drive.left = request.n * Words - k /\ ~ drive.busy /\ ~ drive.err /\ Intact
  BY DEF InStep
<1>2. Len(buf') = k + 1 /\ k + 1 <= request.n * Words
  BY <1>0 DEF AtaTypeOK
<1>3. k \div Words \in Nat /\ (k % Words) \in 0 .. Words - 1
  BY <1>0, NextWord
<1>4. Intact'
  <2> SUFFICES ASSUME NEW i \in 1 .. k + 1
               PROVE  buf'[i] = <<request.hdd, request.lba + (i - 1) \div Words, (i - 1) % Words>>
    BY <1>2 DEF Intact
  <2>1. CASE i = k + 1
    <3>1. i - 1 = k
      BY <1>0, <2>1
    <3>2. buf'[i] = <<request.hdd, drive.sector, drive.word>>
      BY <2>1 DEF AtaTypeOK
    <3> QED BY <1>1, <3>1, <3>2
  <2>2. CASE i # k + 1
    <3>1. i \in 1 .. k
      BY <1>0, <2>2
    <3>2. buf'[i] = buf[i]
      BY <3>1 DEF AtaTypeOK
    <3> QED BY <1>1, <3>1, <3>2 DEF Intact
  <2> QED BY <2>1, <2>2
<1>t. drive \in [sector : Nat, word : 0 .. Words - 1, left : Nat, busy : BOOLEAN, err : BOOLEAN]
  BY DEF AtaTypeOK
<1>l. drive.left - 1 = request.n * Words - (k + 1)
  <2>1. ASSUME NEW t \in Nat, NEW j \in Nat, NEW l, l = t - j PROVE l - 1 = t - (j + 1)
    BY <2>1
  <2> QED BY <1>0, <1>1, <2>1, Zenon
<1>5. CASE drive.word + 1 < Words
  <2>1. (k + 1) \div Words = k \div Words /\ (k + 1) % Words = (k % Words) + 1
    BY <1>0, <1>1, <1>5, NextWord
  <2>2. drive' = [drive EXCEPT !.word = @ + 1, !.left = @ - 1]
    BY <1>5 DEF Given
  <2>3. /\ drive'.sector = drive.sector /\ drive'.word = drive.word + 1
        /\ drive'.left = drive.left - 1 /\ ~ drive'.busy /\ ~ drive'.err
    BY <1>t, <1>1, <2>2
  <2>4. drive'.left = request.n * Words - (k + 1)
    BY <1>l, <2>3
  <2>5. drive'.sector = request.lba + (k + 1) \div Words /\ drive'.word = (k + 1) % Words
    BY <1>1, <2>1, <2>3
  <2> QED BY <1>2, <1>4, <2>3, <2>4, <2>5 DEF InStep
<1>6. CASE ~ (drive.word + 1 < Words)
  <2> DEFINE e == drive.left > 1 /\ ~ Readable(hdds[request.hdd], drive.sector + 1)
  <2>1. (k + 1) \div Words = (k \div Words) + 1 /\ (k + 1) % Words = 0
    BY <1>0, <1>1, <1>6, NextWord
  <2>2. drive' = [drive EXCEPT !.sector = @ + 1, !.word = 0, !.left = @ - 1, !.busy = FALSE,
                               !.err = e]
    BY <1>6 DEF Given
  <2>3. ~ e
    <3> SUFFICES ASSUME drive.left > 1 PROVE Readable(hdds[request.hdd], drive.sector + 1)
      OBVIOUS
    <3>1. k + 1 \in Nat /\ k + 1 < request.n * Words
      BY <1>0, <1>1
    <3>2. (k + 1) \div Words \in 0 .. request.n - 1
      BY <1>0, <3>1, NextSector
    <3>3. PICK q \in Nat : q = k \div Words
      BY <1>3
    <3>4. q + 1 \in 0 .. request.n - 1 /\ drive.sector = request.lba + q
      BY <1>1, <2>1, <3>2, <3>3
    <3>5. drive.sector + 1 \in request.lba .. request.lba + request.n - 1
      <4>1. ASSUME NEW a \in Nat, NEW n \in Nat, NEW j \in Nat, j + 1 \in 0 .. n - 1
            PROVE  a + j + 1 \in a .. a + n - 1
        BY <4>1
      <4> QED BY <1>0, <3>3, <3>4, <4>1, Zenon
    <3> QED BY <3>5 DEF Served, Delivers
  <2> HIDE DEF e
  <2>4. /\ drive'.sector = drive.sector + 1 /\ drive'.word = 0
        /\ drive'.left = drive.left - 1 /\ drive'.busy = FALSE /\ drive'.err = e
    BY <1>t, <2>2
  <2>5. drive'.sector = request.lba + (k + 1) \div Words /\ drive'.left = request.n * Words - (k + 1)
    <3>1. PICK q \in Nat : q = k \div Words
      BY <1>3
    <3>2. request.lba + q + 1 = request.lba + (q + 1)
      <4>1. ASSUME NEW a \in Nat, NEW j \in Nat PROVE a + j + 1 = a + (j + 1)
        OBVIOUS
      <4> QED BY <1>0, <4>1, Zenon
    <3>3. drive'.sector = request.lba + q + 1 /\ (k + 1) \div Words = q + 1
      BY <1>1, <2>1, <2>4, <3>1
    <3>4. drive'.left = request.n * Words - (k + 1)
      BY <1>l, <2>4
    <3> QED BY <3>2, <3>3, <3>4
  <2> QED BY <1>2, <1>4, <2>1, <2>3, <2>4, <2>5 DEF InStep
<1> QED BY <1>5, <1>6

\* The drive stays one, whatever it does next.
LEMMA GivenTyped ==
  ASSUME AtaTypeOK, drive.left # 0, NEW d, NEW b \in BOOLEAN
  PROVE  Given(d, b) \in [sector : Nat, word : 0 .. Words - 1, left : Nat, busy : BOOLEAN,
                          err : BOOLEAN]
<1> DEFINE e == drive.left > 1 /\ ~ Readable(d, drive.sector + 1)
<1>0. Words \in Nat \ {0}
  BY SizesFacts
<1>1. drive \in [sector : Nat, word : 0 .. Words - 1, left : Nat, busy : BOOLEAN, err : BOOLEAN]
  BY DEF AtaTypeOK
<1>2. drive.left - 1 \in Nat /\ drive.sector + 1 \in Nat /\ 0 \in 0 .. Words - 1
  BY <1>0, <1>1
<1>3. CASE drive.word + 1 < Words
  <2>1. drive.word + 1 \in 0 .. Words - 1
    BY <1>0, <1>1, <1>3
  <2>2. Given(d, b) = [drive EXCEPT !.word = @ + 1, !.left = @ - 1]
    BY <1>3 DEF Given
  <2> QED BY <1>1, <1>2, <2>1, <2>2
<1>4. CASE ~ (drive.word + 1 < Words)
  <2>1. e \in BOOLEAN
    OBVIOUS
  <2>2. Given(d, b) = [drive EXCEPT !.sector = @ + 1, !.word = 0, !.left = @ - 1, !.busy = b,
                                    !.err = e]
    BY <1>4 DEF Given
  <2> HIDE DEF e
  <2> QED BY <1>1, <1>2, <2>1, <2>2
<1> QED BY <1>3, <1>4

\* A step of the transfer: the drive and the driver stay in step.
LEMMA TransferKeeps ==
  ASSUME AtaTypeOK, Answered, Transfer
  PROVE  AtaTypeOK' /\ Answered'
<1>u. UNCHANGED <<hdds, request>>
  BY DEF Transfer, Poll, ReadWord, Return, Ready
<1>v. Served' <=> Served
  BY <1>u DEF Served
<1>1. CASE Poll
  <2>1. /\ ata' = IF drive.err /\ ~ drive.busy THEN "poll" ELSE "data"
        /\ UNCHANGED <<buf, drive>>
    BY <1>1 DEF Poll
  <2>2. AtaTypeOK'
    BY <1>u, <2>1 DEF AtaTypeOK
  <2>3. InStep => InStep'
    BY <1>u, <2>1 DEF InStep, Intact
  <2> QED BY <1>v, <2>1, <2>2, <2>3 DEF Answered
<1>2. CASE ReadWord
  <2>1. ata = "data" /\ Len(buf) < request.n * Words /\ UNCHANGED ata
    BY <1>2 DEF ReadWord
  <2>2. CASE drive.busy \/ drive.err \/ drive.left = 0
    <3>1. buf' = Append(buf, Garbage) /\ UNCHANGED drive
      BY <1>2, <2>2 DEF ReadWord
    <3>2. AtaTypeOK'
      BY <1>u, <2>1, <3>1 DEF AtaTypeOK, Garbage
    <3>3. ~ Served
      <4> SUFFICES ASSUME InStep PROVE FALSE
        BY DEF Answered
      <4>1. drive.left = 0 /\ drive.left = request.n * Words - Len(buf)
        BY <2>2 DEF InStep
      <4>2. request.n \in Nat /\ Words \in Nat /\ Len(buf) \in Nat
        BY SizesFacts DEF AtaTypeOK
      <4>3. request.n * Words \in Nat
        BY <4>2, MultNat
      <4>4. ASSUME NEW t \in Nat, NEW k \in Nat, k < t, 0 = t - k PROVE FALSE
        BY <4>4
      <4> QED BY <2>1, <4>1, <4>2, <4>3, <4>4
    <3> QED BY <1>v, <2>1, <3>2, <3>3 DEF Answered
  <2>3. CASE ~ (drive.busy \/ drive.err \/ drive.left = 0)
    <3>1. /\ buf' = Append(buf, <<request.hdd, drive.sector, drive.word>>)
          /\ \E b \in Busy(hdds[request.hdd]) : drive' = Given(hdds[request.hdd], b)
      BY <1>2, <2>3 DEF ReadWord
    <3>2. PICK b \in Busy(hdds[request.hdd]) : drive' = Given(hdds[request.hdd], b)
      BY <3>1
    <3>3. AtaTypeOK'
      <4>1. b \in BOOLEAN
        BY DEF Busy
      <4>2. drive' \in [sector : Nat, word : 0 .. Words - 1, left : Nat, busy : BOOLEAN,
                        err : BOOLEAN]
        BY <2>3, <3>2, <4>1, GivenTyped
      <4>3. <<request.hdd, drive.sector, drive.word>> \in Nat \X Nat \X Nat
        BY SizesFacts DEF AtaTypeOK
      <4>4. buf' \in Seq(Nat \X Nat \X Nat)
        BY <3>1, <4>3 DEF AtaTypeOK
      <4> QED BY <1>u, <2>1, <4>2, <4>4 DEF AtaTypeOK
    <3>4. ASSUME Served PROVE InStep'
      <4>1. b = FALSE
        BY <3>4 DEF Served, Delivers, Busy
      <4> QED BY <1>u, <2>1, <3>1, <3>2, <3>4, <4>1, WordKeeps DEF Answered
    <3> QED BY <1>v, <2>1, <3>3, <3>4 DEF Answered
  <2> QED BY <2>2, <2>3
<1>3. CASE Return
  <2>1. ata' = "idle" /\ UNCHANGED <<buf, drive>> /\ Len(buf) = request.n * Words
    BY <1>3 DEF Return
  <2>2. AtaTypeOK'
    BY <1>u, <2>1 DEF AtaTypeOK
  <2>3. InStep => InStep'
    BY <1>u, <2>1 DEF InStep, Intact
  <2> QED BY <1>u, <1>v, <2>1, <2>2, <2>3 DEF Answered
<1>4. CASE Ready
  <2>1. drive.busy /\ drive' = [drive EXCEPT !.busy = FALSE] /\ UNCHANGED <<ata, buf>>
    BY <1>4 DEF Ready
  <2>2. AtaTypeOK'
    BY <1>u, <2>1 DEF AtaTypeOK
  <2>3. ~ Served
    BY <2>1 DEF Answered, InStep
  <2> QED BY <1>u, <1>v, <2>1, <2>2, <2>3 DEF Answered
<1> QED BY <1>1, <1>2, <1>3, <1>4 DEF Transfer

-----------------------------------------------------------------------------
(* The drives and what is on them.                                           *)

Less == {pair \in Nat \X Nat : pair[1] < pair[2]}

\* A set of numbers that is not empty has a least one.
LEMMA LeastNumber ==
  ASSUME NEW T \in SUBSET Nat, T # {}
  PROVE  \E i \in T : \A j \in T : i <= j
<1>1. OpToRel(<, Nat) = Less
  BY DEF OpToRel, Less
<1>2. IsWellFoundedOn(Less, Nat)
  BY <1>1, NatLessThanWellFounded
<1>3. PICK i \in T : \A j \in T : <<j, i>> \notin Less
  BY <1>2, WFMin
<1>4. \A x, y \in Nat : <<y, x>> \in Less <=> y < x
  BY DEF Less
<1>5. \A j \in T : ~ (j < i) /\ i \in Nat /\ j \in Nat
  BY <1>3, <1>4
<1>6. \A j \in T : i <= j
  BY <1>5
<1> QED BY <1>6

\* The partition parse_mbr decides for is one of the table.
LEMMA ChosenIsEntry ==
  ASSUME NEW entries \in Seq(Partition), entries # <<>>
  PROVE  /\ Chosen(entries) \in Partition
         /\ Chosen(entries).type \in Nat /\ Chosen(entries).start \in 0 .. Wrap - 1
         /\ Chosen(entries).size \in 0 .. Wrap - 1
<1> DEFINE valid == {i \in DOMAIN entries : entries[i].valid}
<1>1. DOMAIN entries = 1 .. Len(entries) /\ Len(entries) \in Nat /\ 1 \in DOMAIN entries
  OBVIOUS
<1>2. \A i \in DOMAIN entries : entries[i] \in Partition
  OBVIOUS
<1>3. Chosen(entries) \in Partition
  <2>1. CASE valid = {}
    <3>1. Chosen(entries) = entries[1]
      BY <2>1, Zenon DEF Chosen
    <3> QED BY <1>1, <1>2, <3>1, Zenon
  <2>2. CASE valid # {}
    <3>1. valid \in SUBSET Nat
      BY <1>1
    <3>2. \E i \in valid : \A j \in valid : i <= j
      BY <2>2, <3>1, LeastNumber
    <3> DEFINE k == CHOOSE i \in valid : \A j \in valid : i <= j
    <3>3. k \in valid
      BY <3>2
    <3>4. Chosen(entries) = entries[k]
      BY <2>2, Zenon DEF Chosen
    <3>5. k \in DOMAIN entries
      BY <3>3
    <3> HIDE DEF k
    <3> QED BY <1>2, <3>4, <3>5, Zenon
  <2> QED BY <2>1, <2>2
<1>4. PICK p \in Partition : Chosen(entries) = p
  BY <1>3
<1>5. p.type \in Nat /\ p.start \in 0 .. Wrap - 1 /\ p.size \in 0 .. Wrap - 1
  BY DEF Partition
<1> QED BY <1>3, <1>4, <1>5

Drive(d) == IsDrive(d) /\ d # Misread

\* Only drives are found, at most one at each port.
LEMMA DrivesFound ==
  ASSUME ports \in Machine
  PROVE  LET found == Detected(ports[1]) \o Detected(ports[2])
         IN  /\ DOMAIN found = 1 .. Len(found) /\ Len(found) \in 0 .. 2
             /\ \A i \in 1 .. Len(found) : Drive(found[i])
<1>1. \A port \in {1, 2} : ports[port] = NoDisk \/ Drive(ports[port])
  BY DrivesAssumption DEF Drive
<1> DEFINE a == Detected(ports[1])
           b == Detected(ports[2])
<1>2. a \in {<<>>, <<ports[1]>>} /\ (a # <<>> => Drive(ports[1]))
  BY <1>1 DEF Detected
<1>3. b \in {<<>>, <<ports[2]>>} /\ (b # <<>> => Drive(ports[2]))
  BY <1>1 DEF Detected
<1> HIDE DEF a, b
<1>4. CASE a = <<>>
  <2>1. CASE b = <<>>
    BY <1>4, <2>1 DEF a, b
  <2>2. CASE b = <<ports[2]>>
    <3>1. a \o b = <<ports[2]>>
      BY <1>4, <2>2
    <3>2. Drive(ports[2])
      BY <1>3, <2>2
    <3>3. Len(a \o b) = 1 /\ DOMAIN (a \o b) = 1 .. 1 /\ (a \o b)[1] = ports[2]
      BY <3>1
    <3> QED BY <3>2, <3>3 DEF a, b
  <2> QED BY <1>3, <2>1, <2>2
<1>5. CASE a = <<ports[1]>>
  <2>0. Drive(ports[1])
    BY <1>2, <1>5
  <2>1. CASE b = <<>>
    <3>1. a \o b = <<ports[1]>>
      BY <1>5, <2>1
    <3>2. Len(a \o b) = 1 /\ DOMAIN (a \o b) = 1 .. 1 /\ (a \o b)[1] = ports[1]
      BY <3>1
    <3> QED BY <2>0, <3>2 DEF a, b
  <2>2. CASE b = <<ports[2]>>
    <3>2. Drive(ports[2])
      BY <1>3, <2>2
    <3>3. /\ Len(a \o b) = 2 /\ DOMAIN (a \o b) = 1 .. 2
          /\ (a \o b)[1] = ports[1] /\ (a \o b)[2] = ports[2]
      <4>1. ASSUME NEW x, NEW y
            PROVE  /\ Len(<<x>> \o <<y>>) = 2 /\ DOMAIN (<<x>> \o <<y>>) = 1 .. 2
                   /\ (<<x>> \o <<y>>)[1] = x /\ (<<x>> \o <<y>>)[2] = y
        <5> DEFINE c == <<x>> \o <<y>>
        <5>1. <<x>> \in Seq({x, y}) /\ <<y>> \in Seq({x, y})
          OBVIOUS
        <5>2. /\ c \in Seq({x, y}) /\ Len(c) = Len(<<x>>) + Len(<<y>>)
              /\ \A i \in 1 .. Len(<<x>>) + Len(<<y>>) :
                   c[i] = IF i <= Len(<<x>>) THEN <<x>>[i] ELSE <<y>>[i - Len(<<x>>)]
          BY <5>1, ConcatProperties
        <5>3. Len(<<x>>) = 1 /\ Len(<<y>>) = 1 /\ <<x>>[1] = x /\ <<y>>[1] = y
          OBVIOUS
        <5> HIDE DEF c
        <5>4. Len(c) = 2
          BY <5>2, <5>3
        <5>5. DOMAIN c = 1 .. 2 /\ c[1] = x /\ c[2] = y
          BY <5>2, <5>3, <5>4
        <5> QED BY <5>4, <5>5 DEF c
      <4>2. a \o b = <<ports[1]>> \o <<ports[2]>>
        BY <1>5, <2>2
      <4>3. /\ Len(<<ports[1]>> \o <<ports[2]>>) = 2
            /\ DOMAIN (<<ports[1]>> \o <<ports[2]>>) = 1 .. 2
            /\ (<<ports[1]>> \o <<ports[2]>>)[1] = ports[1]
            /\ (<<ports[1]>> \o <<ports[2]>>)[2] = ports[2]
        BY <4>1
      <4> QED BY <4>2, <4>3
    <3>4. \A i \in 1 .. 2 : i = 1 \/ i = 2
      OBVIOUS
    <3> QED BY <2>0, <3>2, <3>3, <3>4 DEF a, b
  <2> QED BY <1>3, <2>1, <2>2
<1> QED BY <1>2, <1>4, <1>5

LEMMA PairFacts ==
  ASSUME NEW x, NEW y
  PROVE  Len(<<x, y>>) = 2 /\ DOMAIN <<x, y>> = 1 .. 2 /\ <<x, y>>[1] = x /\ <<x, y>>[2] = y
OBVIOUS

\* The table: a drive first, and behind it at most the entry that is misread.
LEMMA TableOf ==
  ASSUME ports \in Machine
  PROVE  LET t == Table(Detected(ports[1]) \o Detected(ports[2]))
         IN  /\ DOMAIN t = 1 .. Len(t) /\ Len(t) \in 0 .. 2
             /\ Len(t) > 0 => Drive(t[1])
             /\ Len(t) = 2 => t[2] = Misread
<1> PICK found : found = Detected(ports[1]) \o Detected(ports[2])
  OBVIOUS
<1>1. /\ DOMAIN found = 1 .. Len(found) /\ Len(found) \in 0 .. 2
      /\ \A i \in 1 .. Len(found) : Drive(found[i])
  BY DrivesFound
<1>2. CASE Len(found) = 2 \/ (Len(found) = 1 /\ found[1].spill)
  <2>1. Table(found) = <<found[1], Misread>>
    BY <1>2 DEF Table
  <2>2. Drive(found[1])
    BY <1>1, <1>2
  <2> PICK x : x = found[1]
    OBVIOUS
  <2> PICK t : t = <<x, Misread>>
    OBVIOUS
  <2>3. Len(t) = 2 /\ DOMAIN t = 1 .. 2 /\ t[1] = x /\ t[2] = Misread
    BY PairFacts
  <2>4. Table(found) = t
    BY <2>1
  <2>5. /\ DOMAIN t = 1 .. Len(t) /\ Len(t) \in 0 .. 2
        /\ Len(t) > 0 => Drive(t[1])
        /\ Len(t) = 2 => t[2] = Misread
    <3>1. Drive(t[1])
      BY <2>2, <2>3, Zenon
    <3>2. Len(t) \in 0 .. 2 /\ DOMAIN t = 1 .. Len(t)
      BY <2>3
    <3> QED BY <2>3, <3>1, <3>2, Zenon
  <2> QED BY <2>4, <2>5
<1>3. CASE ~ (Len(found) = 2 \/ (Len(found) = 1 /\ found[1].spill))
  <2>1. Table(found) = found
    BY <1>3 DEF Table
  <2> QED BY <1>1, <1>3, <2>1
<1> QED BY <1>2, <1>3

LEMMA TableFacts ==
  ASSUME FsTypeOK
  PROVE  /\ Len(hdds) \in 0 .. 2 /\ DOMAIN hdds = 1 .. Len(hdds)
         /\ Len(hdds) > 0 => Drive(hdds[1])
         /\ Len(hdds) = 2 => hdds[2] = Misread
<1>1. CASE at = "detect"
  BY <1>1 DEF FsTypeOK
<1>2. CASE at # "detect"
  BY <1>2, TableOf DEF FsTypeOK
<1> QED BY <1>1, <1>2

\* Sizes in a volume.
LEMMA VolumeFacts ==
  ASSUME NEW v \in Volume
  PROVE  /\ v.bps \in Nat /\ v.spc \in Nat /\ v.reserved \in Nat /\ v.copies \in Nat
         /\ v.rootEntries \in Nat /\ v.spf \in Nat /\ v.copies * v.spf \in Nat
         /\ DirectoryPlace(v) \in Nat
         /\ v.bps # 0 => RootSectors(v) \in Nat
         /\ v.copies # 0 => (v.copies * v.spf) \div v.copies = v.spf /\ v.spf <= DirectoryPlace(v)
<1>1. /\ v.bps \in Nat /\ v.spc \in Nat /\ v.reserved \in Nat /\ v.copies \in Nat
      /\ v.rootEntries \in Nat /\ v.spf \in Nat
  BY DEF Volume
<1>2. v.rootEntries * EntrySize \in Nat
  BY <1>1, SizesAssumption, MultNat
<1>3. v.bps # 0 => RootSectors(v) \in Nat
  BY <1>1, <1>2, DivNat DEF RootSectors
<1>4. v.copies * v.spf \in Nat
  BY <1>1, MultNat
<1>5. DirectoryPlace(v) \in Nat
  BY <1>1, <1>4 DEF DirectoryPlace
<1>6. ASSUME v.copies # 0
      PROVE  (v.copies * v.spf) \div v.copies = v.spf /\ v.spf <= DirectoryPlace(v)
  <2>1. v.copies * v.spf = v.copies * v.spf + 0 /\ 0 \in 0 .. v.copies - 1
    BY <1>1, <1>4, <1>6
  <2>2. (v.copies * v.spf) \div v.copies = v.spf
    BY <1>1, <1>4, <1>6, <2>1, Quotient
  <2>3. v.spf <= v.copies * v.spf
    <3>1. (v.copies - 1) * v.spf \in Nat
      <4>1. v.copies - 1 \in Nat
        BY <1>1, <1>6
      <4> QED BY <1>1, <4>1, MultNat
    <3>2. v.copies * v.spf = (v.copies - 1) * v.spf + v.spf
      BY <1>1
    <3> QED BY <1>1, <3>1, <3>2
  <2> QED BY <1>1, <1>4, <2>2, <2>3 DEF DirectoryPlace
<1> QED BY <1>1, <1>3, <1>4, <1>5, <1>6

-----------------------------------------------------------------------------
(* Reading from a partition (fs.c:133-141).                                  *)

LEMMA WrapFacts == Wrap \in Nat \ {0} /\ Sectors \in 1 .. Wrap
BY SizesAssumption, SizesFacts

LEMMA WrapMod == ASSUME NEW a \in Int PROVE (a % Wrap) \in 0 .. Wrap - 1
BY WrapFacts, DivMod

LEMMA PartitionReadKeeps ==
  ASSUME AtaTypeOK, Answered,
         NEW r, NEW sector \in Nat, NEW n \in Nat, NEW next,
         r.hdd \in Nat, r.start \in Nat, r.size \in Nat,
         PartitionRead(r, sector, n, next)
  PROVE  /\ AtaTypeOK' /\ Answered' /\ UNCHANGED <<ports, hdds>>
         /\ \/ /\ at' = "panic" /\ UNCHANGED request
               /\ ~ (((sector + n) % Wrap) < r.size)
            \/ /\ at' = next
               /\ request' = [hdd |-> r.hdd, lba |-> (r.start + sector) % Wrap, n |-> n]
<1>0. (sector + n) % Wrap \in Nat /\ (r.start + sector) % Wrap \in Nat
  <2>1. sector + n \in Int /\ r.start + sector \in Int
    OBVIOUS
  <2>2. (sector + n) % Wrap \in 0 .. Wrap - 1 /\ (r.start + sector) % Wrap \in 0 .. Wrap - 1
    BY <2>1, WrapMod, Zenon
  <2> QED BY <2>2, WrapFacts
<1>1. CASE ((sector + n) % Wrap) >= r.size
  <2>1. at' = "panic" /\ UNCHANGED <<ports, hdds, ata, request, buf, drive>>
    BY <1>1 DEF PartitionRead, ataVars, ioVars
  <2>2. AtaTypeOK'
    BY <2>1 DEF AtaTypeOK
  <2>3. Answered'
    BY <2>1 DEF Answered, Served, InStep, Intact
  <2>4. ~ (((sector + n) % Wrap) < r.size)
    BY <1>0, <1>1
  <2> QED BY <2>1, <2>2, <2>3, <2>4
<1>2. CASE ~ (((sector + n) % Wrap) >= r.size)
  <2>1. at' = next /\ Call(r.hdd, (r.start + sector) % Wrap, n)
    BY <1>2 DEF PartitionRead
  <2>2. AtaTypeOK' /\ Answered'
    BY <1>0, <2>1, CallAnswers
  <2> QED BY <2>1, <2>2 DEF Call
<1> QED BY <1>1, <1>2

\* What lies within the partition and can be given is read where it is.
LEMMA WithinRead ==
  ASSUME NEW d, IsDrive(d), NEW sector \in Nat, NEW n \in Nat, Within(d, sector, n)
  PROVE  LET p == Chosen(d.entries)
         IN  /\ ((sector + n) % Wrap) < p.size
             /\ (p.start + sector) % Wrap = p.start + sector
             /\ Delivers(d, p.start + sector, n) /\ p.start + sector \in Nat
             /\ sector % Wrap = sector
<1> PICK p : p = Chosen(d.entries)
  OBVIOUS
<1>1. p.start \in 0 .. Wrap - 1 /\ p.size \in 0 .. Wrap - 1
  BY ChosenIsEntry DEF IsDrive
<1>2. sector + n < p.size /\ Delivers(d, p.start + sector, n)
  BY DEF Within
<1>3. n > 0 /\ Readable(d, p.start + sector)
  <2>1. n \in 1 .. Byte /\ \A s \in p.start + sector .. p.start + sector + n - 1 : Readable(d, s)
    BY <1>2 DEF Delivers
  <2>2. p.start + sector \in p.start + sector .. p.start + sector + n - 1
    BY <1>1, <2>1
  <2> QED BY <2>1, <2>2
<1>4. p.start + sector < Sectors
  BY <1>3 DEF Readable
<1>5. /\ sector + n \in 0 .. Wrap - 1 /\ p.start + sector \in 0 .. Wrap - 1
      /\ sector \in 0 .. Wrap - 1
  BY <1>1, <1>2, <1>3, <1>4, WrapFacts
<1>6. \A a \in 0 .. Wrap - 1 : a % Wrap = a
  BY WrapFacts, SmallMod
<1>7. (sector + n) % Wrap = sector + n /\ (p.start + sector) % Wrap = p.start + sector
      /\ sector % Wrap = sector
  BY <1>5, <1>6, Zenon
<1> QED BY <1>1, <1>2, <1>7

-----------------------------------------------------------------------------
(* Finding the root file system (fs.c:64-131).                               *)

\* What a drive could give has arrived.
LEMMA ServedIntact == ASSUME Answered, Served PROVE Intact
BY DEF Answered, InStep

\* A step of the code that asks the driver for nothing.
LEMMA DriverKeeps ==
  ASSUME AtaTypeOK, Answered, UNCHANGED <<hdds, ata, request, buf, drive>>
  PROVE  AtaTypeOK' /\ Answered'
BY DEF AtaTypeOK, Answered, Served, InStep, Intact

Roots == [hdd : Nat, type : Nat, start : Nat, size : Nat, volume : Volume]

\* Only the first drive is ever read from behind the search.
LEMMA AtRoot ==
  ASSUME FsTypeOK, RootInv, at \in Working \ {"mbr"}
  PROVE  /\ root.hdd = 1 /\ root.hdd \in DOMAIN hdds /\ request.hdd = root.hdd
         /\ Drive(hdds[root.hdd]) /\ Disk = hdds[root.hdd]
         /\ root \in Roots
<1>1. root.hdd = 1 /\ root.hdd <= Len(hdds) /\ request.hdd = root.hdd
  BY DEF RootInv, Working
<1>2. Len(hdds) \in 0 .. 2 /\ DOMAIN hdds = 1 .. Len(hdds) /\ (Len(hdds) > 0 => Drive(hdds[1]))
  BY TableFacts
<1>3. root \in Roots
  BY DEF FsTypeOK, Roots
<1> QED BY <1>1, <1>2, <1>3 DEF Disk

LEMMA DetectKeeps ==
  ASSUME AtaTypeOK, Answered, FsTypeOK, RootInv, CallInv, InitHarddisks
  PROVE  AtaTypeOK' /\ Answered' /\ FsTypeOK' /\ RootInv' /\ CallInv'
<1>1. /\ at = "detect" /\ at' = "scan" /\ UNCHANGED <<root, call, ports, ata, request, buf, drive>>
      /\ hdds' = Table(Detected(ports[1]) \o Detected(ports[2]))
  BY DEF InitHarddisks, AtaDetect, ioVars
<1>2. request.hdd = 0 /\ request.n = 0 /\ root.hdd = 0 /\ call = NoCall
  BY <1>1 DEF RootInv
<1>3. ports \in Machine
  BY DEF FsTypeOK
<1>4. DOMAIN hdds' = 1 .. Len(hdds') /\ Len(hdds') \in 0 .. 2
  BY <1>1, <1>3, TableOf
<1>5. AtaTypeOK'
  BY <1>1 DEF AtaTypeOK
<1>6. Answered'
  <2>1. ~ Served'
    BY <1>1, <1>2, <1>4 DEF Served
  <2> QED BY <1>1, <2>1 DEF Answered
<1>7. FsTypeOK'
  <2>1. hdds' = IF at' = "detect" THEN <<>> ELSE Table(Detected(ports'[1]) \o Detected(ports'[2]))
    BY <1>1
  <2>2. ports' \in Machine /\ at' \in Working \cup {"detect", "scan", "panic", "divideError"}
    BY <1>1, <1>3
  <2> QED BY <1>1, <2>1, <2>2 DEF FsTypeOK
<1>8. RootInv'
  <2>1. at' = "scan" /\ root' = root /\ call' = NoCall /\ request' = request
    BY <1>1, <1>2
  <2>2. at' \notin Working /\ at' \notin Mounted /\ at' # "detect"
    BY <2>1 DEF Working, Mounted
  <2>3. root'.hdd <= Len(hdds') /\ ~ (request'.n > 0)
    BY <1>2, <1>4, <2>1
  <2> QED BY <2>1, <2>2, <2>3 DEF RootInv
<1>9. CallInv'
  BY <1>1 DEF CallInv
<1> QED BY <1>5, <1>6, <1>7, <1>8, <1>9

LEMMA TryDiskKeeps ==
  ASSUME AtaTypeOK, Answered, FsTypeOK, RootInv, CallInv, TryDisk
  PROVE  AtaTypeOK' /\ Answered' /\ FsTypeOK' /\ RootInv' /\ CallInv'
<1>1. at = "scan" /\ UNCHANGED call
  BY DEF TryDisk
<1>2. root.hdd \in Nat /\ Len(hdds) \in Nat /\ DOMAIN hdds = 1 .. Len(hdds) /\ root \in Roots
  BY TableFacts DEF FsTypeOK, Roots
<1>3. call = NoCall
  BY <1>1 DEF RootInv
<1>4. CallInv'
  BY <1>1, <1>3 DEF CallInv, NoCall
<1>5. CASE root.hdd < Len(hdds)
  <2>1. /\ at' = "mbr" /\ root' = [root EXCEPT !.hdd = @ + 1]
        /\ Call(root.hdd + 1, 0, 1)
    BY <1>5 DEF TryDisk
  <2>3. AtaTypeOK' /\ Answered'
    <3>1. root.hdd + 1 \in Nat /\ 0 \in Nat /\ 1 \in Nat
      BY <1>2
    <3> QED BY <2>1, <3>1, CallAnswers, Zenon
  <2>4. /\ request' = [hdd |-> root.hdd + 1, lba |-> 0, n |-> 1] /\ UNCHANGED <<ports, hdds>>
    BY <2>1 DEF Call
  <2>5. root'.hdd = root.hdd + 1 /\ root' \in Roots
    BY <1>2, <2>1 DEF Roots
  <2>6. FsTypeOK'
    BY <1>1, <2>1, <2>4, <2>5 DEF FsTypeOK, Working, Roots
  <2>7. RootInv'
    <3>1. at' = "mbr" /\ at' \notin Mounted
      BY <2>1 DEF Mounted
    <3>2. root'.hdd \in DOMAIN hdds' /\ root'.hdd > 0 /\ root'.hdd <= Len(hdds')
          /\ request'.hdd = root'.hdd /\ request'.lba = 0 /\ request'.n = 1
      BY <1>2, <1>5, <2>4, <2>5
    <3> QED BY <1>1, <1>3, <3>1, <3>2 DEF RootInv
  <2> QED BY <1>4, <2>3, <2>6, <2>7
<1>6. CASE ~ (root.hdd < Len(hdds))
  <2>1. /\ at' \in {"panic", "divideError"} /\ UNCHANGED <<ports, hdds, ata, request, buf, drive, root>>
    BY <1>6 DEF TryDisk, ataVars, ioVars
  <2>2. AtaTypeOK' /\ Answered'
    BY <2>1, DriverKeeps
  <2>3. FsTypeOK'
    BY <1>1, <2>1 DEF FsTypeOK, Working, Mounted
  <2>4. RootInv'
    BY <2>1 DEF RootInv, Working, Mounted
  <2> QED BY <1>4, <2>2, <2>3, <2>4
<1> QED BY <1>5, <1>6

LEMMA BootSectorRead ==
  ASSUME AtaTypeOK, Answered, NEW r, r.hdd \in Nat, r.start \in Nat, r.size \in Nat,
         PartitionRead(r, 0, 1, "bootSector")
  PROVE  /\ AtaTypeOK' /\ Answered' /\ UNCHANGED <<ports, hdds>>
         /\ \/ at' = "panic" /\ UNCHANGED request
            \/ /\ at' = "bootSector"
               /\ request' = [hdd |-> r.hdd, lba |-> (r.start + 0) % Wrap, n |-> 1]
BY PartitionReadKeeps

\* The choice of a partition: a second entry of the table leads to the panic.
LEMMA ParseMbrKeeps ==
  ASSUME AtaTypeOK, Answered, FsTypeOK, RootInv, CallInv, ParseMbr
  PROVE  AtaTypeOK' /\ Answered' /\ FsTypeOK' /\ RootInv' /\ CallInv'
<1>1. at = "mbr" /\ UNCHANGED call
  BY DEF ParseMbr
<1>2. /\ root.hdd \in Nat /\ Len(hdds) \in 0 .. 2 /\ DOMAIN hdds = 1 .. Len(hdds) /\ root \in Roots
      /\ Len(hdds) > 0 => Drive(hdds[1])
      /\ Len(hdds) = 2 => hdds[2] = Misread
  BY TableFacts DEF FsTypeOK, Roots
<1>3. /\ call = NoCall /\ root.hdd > 0 /\ root.hdd <= Len(hdds) /\ request.hdd = root.hdd
      /\ request.lba = 0 /\ request.n = 1
  BY <1>1 DEF RootInv, Working
<1>4. root.hdd \in 1 .. Len(hdds) /\ root.hdd \in DOMAIN hdds /\ Drive(hdds[1])
  BY <1>2, <1>3
<1>6. CallInv'
  BY <1>1, <1>3 DEF CallInv, NoCall
<1>7. CASE at' = "panic" /\ UNCHANGED <<ataVars, root>>
  <2>1. UNCHANGED <<ports, hdds, ata, request, buf, drive>>
    BY <1>7 DEF ataVars, ioVars
  <2>2. AtaTypeOK' /\ Answered'
    BY <2>1, DriverKeeps
  <2>3. FsTypeOK'
    BY <1>1, <1>7, <2>1 DEF FsTypeOK
  <2>4. RootInv'
    BY <1>7, <2>1 DEF RootInv, Working, Mounted
  <2> QED BY <1>6, <2>2, <2>3, <2>4
<1>8. CASE ~ (at' = "panic" /\ UNCHANGED <<ataVars, root>>)
  <2>1. PICK signature \in Signatures :
          IF ~signature
          THEN at' = "panic" /\ UNCHANGED <<ataVars, root>>
          ELSE \E p \in Seen(0, Chosen(Disk.entries), Disk.junk.part) :
                 LET r == [root EXCEPT !.type = p.type, !.start = p.start, !.size = p.size]
                 IN  /\ root' = r
                     /\ IF IsFat16(p.type)
                        THEN PartitionRead(r, 0, 1, "bootSector")
                        ELSE at' = "scan" /\ UNCHANGED ataVars
    BY Zenon DEF ParseMbr
  <2>2. signature
    BY <1>8, <2>1
  <2>3. root.hdd = 1
    <3> SUFFICES ASSUME root.hdd = 2 PROVE FALSE
      BY <1>2, <1>4
    <3>1. Disk = Misread
      BY <1>2, <1>3 DEF Disk
    <3> QED BY <2>2, <3>1 DEF Signatures
  <2> PICK d : d = hdds[1]
    OBVIOUS
  <2>4. Disk = d /\ IsDrive(d) /\ d # Misread
    BY <1>3, <1>4, <2>3 DEF Disk, Drive
  <2>5. PICK p \in Seen(0, Chosen(d.entries), d.junk.part) :
          /\ root' = [root EXCEPT !.type = p.type, !.start = p.start, !.size = p.size]
          /\ IF IsFat16(p.type)
             THEN PartitionRead([root EXCEPT !.type = p.type, !.start = p.start, !.size = p.size],
                                0, 1, "bootSector")
             ELSE at' = "scan" /\ UNCHANGED ataVars
    BY <2>1, <2>2, <2>4
  <2>6. p \in Partition
    <3>1. Chosen(d.entries) \in Partition
      BY <2>4, ChosenIsEntry DEF IsDrive
    <3>2. d.junk.part \in Partition
      BY <2>4 DEF IsDrive, Junk
    <3> QED BY <3>1, <3>2 DEF Seen
  <2>7. Delivers(d, 0, 1) => p = Chosen(d.entries)
    <3> SUFFICES ASSUME Delivers(d, 0, 1) PROVE p = Chosen(d.entries)
      OBVIOUS
    <3>1. Served
      BY <1>3, <1>4, <2>3, <2>4 DEF Served
    <3>2. Intact
      BY <3>1, ServedIntact
    <3> QED BY <1>3, <3>2 DEF Seen
  <2> PICK r : r = [root EXCEPT !.type = p.type, !.start = p.start, !.size = p.size]
    OBVIOUS
  <2>8. /\ r.hdd = 1 /\ r.type = p.type /\ r.start = p.start /\ r.size = p.size /\ r \in Roots
        /\ p.start \in 0 .. Wrap - 1 /\ p.size \in Nat
    <3>1. p.type \in Nat /\ p.start \in 0 .. Wrap - 1 /\ p.size \in 0 .. Wrap - 1
      BY <2>6 DEF Partition
    <3>2. p.start \in Nat /\ p.size \in Nat
      BY <3>1, WrapFacts
    <3>3. root \in Roots
      BY <1>2
    <3> QED BY <2>3, <3>1, <3>2, <3>3 DEF Roots
  <2>9. root' = r
    BY <2>5
  <2>10. CASE p.type = FAT16Type
    <3>1. PartitionRead(r, 0, 1, "bootSector")
      BY <2>5, <2>10 DEF IsFat16
    <3>2. r.hdd \in Nat /\ r.start \in Nat /\ r.size \in Nat /\ 0 \in Nat /\ 1 \in Nat
      BY <2>8, WrapFacts
    <3>3. /\ AtaTypeOK' /\ Answered' /\ UNCHANGED <<ports, hdds>>
          /\ \/ at' = "panic" /\ UNCHANGED request
             \/ /\ at' = "bootSector"
                /\ request' = [hdd |-> r.hdd, lba |-> (r.start + 0) % Wrap, n |-> 1]
      BY <3>1, <3>2, BootSectorRead, Zenon
    <3>4. (r.start + 0) % Wrap = r.start
      <4>1. r.start + 0 = r.start /\ Wrap \in Nat \ {0}
        BY <2>8, WrapFacts
      <4>2. ASSUME NEW a \in 0 .. Wrap - 1 PROVE a % Wrap = a
        BY WrapFacts, SmallMod
      <4> QED BY <2>8, <4>1, <4>2
    <3>5. /\ at' \in {"panic", "bootSector"} /\ request'.hdd = 1
          /\ at' = "bootSector" => request'.lba = r.start /\ request'.n = 1
      BY <1>3, <2>3, <2>8, <3>3, <3>4
    <3>6. FsTypeOK'
      BY <1>1, <2>8, <2>9, <3>3, <3>5 DEF FsTypeOK, Working, Roots
    <3>7. RootInv'
      <4>1. root'.hdd = 1 /\ root'.type = FAT16Type /\ hdds' = hdds /\ call' = NoCall
        BY <1>1, <1>3, <2>8, <2>9, <2>10, <3>3
      <4>2. at' \notin Mounted /\ at' # "scan" /\ at' # "detect" /\ at' # "mbr"
        BY <3>5 DEF Mounted
      <4>3. Parsed'
        BY <2>7, <2>8, <2>9, <4>1 DEF Parsed
      <4>4. request'.hdd \in DOMAIN hdds' /\ root'.hdd > 0 /\ root'.hdd <= Len(hdds')
        BY <1>3, <1>4, <2>3, <3>5, <4>1
      <4> QED BY <2>9, <3>5, <4>1, <4>2, <4>3, <4>4 DEF RootInv
    <3> QED BY <1>6, <3>3, <3>6, <3>7
  <2>11. CASE p.type # FAT16Type
    <3>1. at' = "scan" /\ UNCHANGED <<ports, hdds, ata, request, buf, drive>>
      BY <2>5, <2>11 DEF IsFat16, ataVars, ioVars
    <3>2. AtaTypeOK' /\ Answered'
      BY <3>1, DriverKeeps
    <3>3. FsTypeOK'
      BY <1>1, <2>8, <2>9, <3>1 DEF FsTypeOK, Roots
    <3>4. RootInv'
      <4>1. root'.hdd = 1 /\ request' = request /\ hdds' = hdds /\ call' = NoCall
        BY <1>1, <1>3, <2>8, <2>9, <3>1
      <4>2. at' \notin Mounted /\ at' \notin Working /\ at' # "detect"
        BY <3>1 DEF Mounted, Working
      <4>4. request'.hdd \in DOMAIN hdds' /\ root'.hdd <= Len(hdds')
        BY <1>3, <1>4, <2>3, <4>1
      <4> QED BY <3>1, <4>1, <4>2, <4>4 DEF RootInv
    <3> QED BY <1>6, <3>2, <3>3, <3>4
  <2> QED BY <2>10, <2>11
<1> QED BY <1>7, <1>8

LEMMA BuildRootKeeps ==
  ASSUME AtaTypeOK, Answered, FsTypeOK, RootInv, CallInv, BuildRoot
  PROVE  AtaTypeOK' /\ Answered' /\ FsTypeOK' /\ RootInv' /\ CallInv'
<1>1. at = "bootSector" /\ call' = call
  BY DEF BuildRoot
<1>2. UNCHANGED <<ports, hdds, ata, request, buf, drive>>
  BY DEF BuildRoot, ataVars, ioVars
<1>3. at \in Working \ {"mbr"}
  BY <1>1 DEF Working
<1> PICK d : d = hdds[1]
  OBVIOUS
<1>4. /\ root.hdd = 1 /\ 1 \in DOMAIN hdds /\ IsDrive(d) /\ d # Misread /\ request.hdd = 1
      /\ Disk = d /\ root \in Roots
  BY <1>3, AtRoot DEF Drive
<1>5. /\ call = NoCall /\ request.lba = root.start /\ request.n = 1 /\ root.type = FAT16Type
      /\ Parsed /\ root.hdd <= Len(hdds)
  BY <1>1, <1>3 DEF RootInv
<1>6. PICK v \in Seen(Chosen(d.entries).start, d.volume, d.junk.volume) :
        /\ root' = [root EXCEPT !.volume = v]
        /\ at' = IF v.bps = 0 THEN "divideError" ELSE "mounted"
  BY <1>4 DEF BuildRoot
<1>7. v \in Volume
  <2>1. d.volume \in Volume /\ d.junk.volume \in Volume
    BY <1>4 DEF IsDrive, Junk
  <2> QED BY <2>1 DEF Seen
<1>8. Delivers(d, 0, 1) /\ Delivers(d, Chosen(d.entries).start, 1) => v = d.volume
  <2> SUFFICES ASSUME Delivers(d, 0, 1), Delivers(d, Chosen(d.entries).start, 1)
               PROVE  v = d.volume
    OBVIOUS
  <2>1. root.start = Chosen(d.entries).start
    BY <1>5 DEF Parsed
  <2>2. Served
    BY <1>4, <1>5, <2>1 DEF Served
  <2>3. Intact
    BY <2>2, ServedIntact
  <2> QED BY <1>5, <2>1, <2>3 DEF Seen
<1>10. /\ root' \in Roots /\ root'.hdd = root.hdd /\ root'.type = root.type
       /\ root'.start = root.start /\ root'.size = root.size /\ root'.volume = v
  BY <1>4, <1>6, <1>7 DEF Roots
<1>11. AtaTypeOK' /\ Answered'
  BY <1>2, DriverKeeps
<1>12. at' \in {"divideError", "mounted"} /\ (at' = "mounted" => v.bps # 0)
  BY <1>6
<1>13. FsTypeOK'
  BY <1>1, <1>2, <1>10, <1>12 DEF FsTypeOK, Working, Mounted, Roots
<1>14. RootInv'
  <2>1. request'.hdd \in DOMAIN hdds' /\ root'.hdd = 1 /\ root'.hdd <= Len(hdds')
        /\ request'.hdd = root'.hdd /\ root'.type = FAT16Type
    BY <1>2, <1>4, <1>5, <1>10
  <2>2. Parsed'
    BY <1>2, <1>5, <1>10 DEF Parsed
  <2>3. Built'
    BY <1>2, <1>8, <1>10 DEF Built
  <2>4. at' \in Mounted => root'.volume.bps # 0
    BY <1>10, <1>12 DEF Mounted
  <2>5. at' \notin {"detect", "scan", "mbr", "bootSector"}
    BY <1>12
  <2> QED BY <2>1, <2>2, <2>3, <2>4, <2>5 DEF RootInv
<1>15. CallInv'
  <2>1. at' \notin {"size", "sized"}
    BY <1>12
  <2> QED BY <1>1, <2>1 DEF CallInv
<1> QED BY <1>11, <1>13, <1>14, <1>15

-----------------------------------------------------------------------------
(* read_file (fs.c:169-351): the root stays where it is.                     *)

Piecewise == [sector : Nat, bytes : Int, whole : BOOLEAN]
Calls == [name : Name \cup {<<>>}, size : Nat, len : Int, remain : Int, cluster : Int,
          got : Seq(Piecewise), copied : Int, starved : BOOLEAN]

LEMMA MountedFacts ==
  ASSUME FsTypeOK, RootInv, at \in Mounted
  PROVE  /\ at \in Working \ {"mbr"}
         /\ root.volume \in Volume /\ root.volume.bps # 0
         /\ RootSize \in Nat /\ RootRegion \in Nat /\ DataRegion \in Nat /\ BytesPerCluster \in Nat
         /\ root.volume.spc \in Nat /\ root.start \in Nat /\ root.size \in Nat
         /\ \A c \in Int : FirstSectorOf(c) \in Nat
         /\ root.volume.copies # 0 => Fat1Size \in Nat
<1>1. at \in Working \ {"mbr"}
  BY DEF Mounted, Working
<1> PICK v : v = root.volume
  OBVIOUS
<1>2. v \in Volume /\ v.bps # 0 /\ root.start \in Nat /\ root.size \in Nat
  BY DEF FsTypeOK, RootInv
<1>3. /\ v.bps \in Nat /\ v.spc \in Nat /\ v.copies \in Nat /\ v.spf \in Nat
      /\ DirectoryPlace(v) \in Nat /\ RootSectors(v) \in Nat
      /\ v.copies # 0 => (v.copies * v.spf) \div v.copies = v.spf
  BY <1>2, VolumeFacts
<1>4. RootSize \in Nat /\ RootRegion \in Nat /\ DataRegion \in Nat
  BY <1>3 DEF RootSize, RootRegion, DataRegion
<1>5. BytesPerCluster \in Nat
  BY <1>3, MultNat DEF BytesPerCluster
<1>6. ASSUME NEW c \in Int PROVE FirstSectorOf(c) \in Nat
  <2>1. (c - 2) * v.spc \in Int
    BY <1>3
  <2>2. DataRegion + (c - 2) * v.spc \in Int
    BY <1>4, <2>1
  <2>3. (DataRegion + (c - 2) * v.spc) % Wrap \in 0 .. Wrap - 1
    BY <2>2, WrapMod, Zenon
  <2> QED BY <2>3, WrapFacts DEF FirstSectorOf
<1>7. v.copies # 0 => Fat1Size \in Nat
  BY <1>3, Zenon DEF Fat1Size
<1> QED BY <1>1, <1>2, <1>3, <1>4, <1>5, <1>6, <1>7

LEMMA StaysMounted ==
  ASSUME FsTypeOK, RootInv, at \in Mounted, at' \in Mounted \cup {"panic", "divideError"},
         UNCHANGED <<ports, hdds, root>>, request' = request \/ request'.hdd = root.hdd,
         call' \in Calls
  PROVE  FsTypeOK' /\ RootInv'
<1>1. /\ at \notin {"detect", "scan", "mbr", "bootSector"}
      /\ at' \notin {"detect", "scan", "mbr", "bootSector"}
  BY DEF Mounted
<1>2. FsTypeOK'
  <2>1. at' \in Working \cup {"detect", "scan", "panic", "divideError"}
    BY DEF Working
  <2>2. hdds' = IF at' = "detect" THEN <<>> ELSE Table(Detected(ports'[1]) \o Detected(ports'[2]))
    BY <1>1 DEF FsTypeOK
  <2> QED BY <2>1, <2>2 DEF FsTypeOK, Calls, Piecewise
<1>3. RootInv'
  <2>1. /\ at \in Working \ {"mbr"} /\ root.hdd \in DOMAIN hdds /\ request.hdd = root.hdd
        /\ root.hdd = 1
    BY MountedFacts, AtRoot
  <2>2. root.hdd <= Len(hdds) /\ root.type = FAT16Type /\ Parsed /\ root.volume.bps # 0 /\ Built
    BY <2>1 DEF RootInv
  <2>3. Parsed' /\ Built'
    BY <2>2 DEF Parsed, Built
  <2>4. request'.hdd = root.hdd
    BY <2>1
  <2> QED BY <1>1, <2>1, <2>2, <2>3, <2>4 DEF RootInv
<1> QED BY <1>2, <1>3

\* A step of read_file that reads nothing.
LEMMA StepKeeps ==
  ASSUME AtaTypeOK, Answered, FsTypeOK, RootInv, at \in Mounted,
         at' \in Mounted \cup {"panic", "divideError"}, UNCHANGED <<ataVars, root>>,
         call' \in Calls
  PROVE  AtaTypeOK' /\ Answered' /\ FsTypeOK' /\ RootInv' /\ UNCHANGED <<hdds, root, request>>
<1>1. UNCHANGED <<ports, hdds, ata, request, buf, drive, root>>
  BY DEF ataVars, ioVars
<1>2. AtaTypeOK' /\ Answered'
  BY <1>1, DriverKeeps
<1> QED BY <1>1, <1>2, StaysMounted

\* A step of read_file that ends with a read.
LEMMA ReadKeeps ==
  ASSUME AtaTypeOK, Answered, FsTypeOK, RootInv, at \in Mounted, UNCHANGED root,
         NEW sector \in Nat, NEW n \in Nat, NEW next \in Mounted,
         PartitionRead(root, sector, n, next), call' \in Calls
  PROVE  /\ AtaTypeOK' /\ Answered' /\ FsTypeOK' /\ RootInv' /\ UNCHANGED <<hdds, root>>
         /\ \/ at' = "panic" /\ ~ (((sector + n) % Wrap) < root.size)
            \/ at' = next /\ request' = [hdd |-> root.hdd, lba |-> (root.start + sector) % Wrap,
                                         n |-> n]
<1>1. root.hdd \in Nat /\ root.start \in Nat /\ root.size \in Nat
  BY DEF FsTypeOK
<1>2. /\ AtaTypeOK' /\ Answered' /\ UNCHANGED <<ports, hdds>>
      /\ \/ at' = "panic" /\ UNCHANGED request /\ ~ (((sector + n) % Wrap) < root.size)
         \/ /\ at' = next
            /\ request' = [hdd |-> root.hdd, lba |-> (root.start + sector) % Wrap, n |-> n]
  BY <1>1, PartitionReadKeeps
<1>3. FsTypeOK' /\ RootInv'
  BY <1>2, StaysMounted
<1> QED BY <1>2, <1>3

-----------------------------------------------------------------------------
(* A volume the code can read.                                               *)

\* The root is what is on the disk, and directory and table are read where they are.
LEMMA SoundFacts ==
  ASSUME FsTypeOK, RootInv, at \in Mounted, NEW d, d = hdds[root.hdd], Sound(d)
  PROVE  LET p == Chosen(d.entries)
             v == d.volume
         IN  /\ root.volume = v /\ v \in Volume /\ root.start = p.start /\ root.size = p.size
             /\ v.bps = BytesPerSector /\ v.copies > 0
             /\ RootRegion = DirectoryPlace(v) /\ RootSize = RootSectors(v)
             /\ ((RootRegion + RootSize) % Wrap) < root.size
             /\ (root.start + RootRegion) % Wrap = p.start + DirectoryPlace(v)
             /\ Delivers(d, p.start + DirectoryPlace(v), RootSectors(v))
             /\ ((Fat1Start + Fat1Size) % Wrap) < root.size
<1> PICK v : v = d.volume
  OBVIOUS
<1> PICK p : p = Chosen(d.entries)
  OBVIOUS
<1>1. /\ root.hdd = 1 /\ IsDrive(d) /\ d # Misread /\ d = hdds[1]
      /\ RootSize \in Nat /\ RootRegion \in Nat
  BY MountedFacts, AtRoot DEF Drive
<1>2. /\ v.bps = BytesPerSector /\ v.copies > 0 /\ Delivers(d, 0, 1) /\ Within(d, 0, 1)
      /\ Within(d, DirectoryPlace(v), RootSectors(v))
  BY DEF Sound
<1>3. p.start \in 0 .. Wrap - 1 /\ p.size \in 0 .. Wrap - 1 /\ v \in Volume
  BY <1>1, ChosenIsEntry DEF IsDrive
<1>4. Delivers(d, p.start, 1)
  <2>1. Delivers(d, p.start + 0, 1)
    BY <1>2 DEF Within
  <2>2. p.start + 0 = p.start
    BY <1>3, WrapFacts
  <2> QED BY <2>1, <2>2
<1>5. root.start = p.start /\ root.size = p.size /\ root.volume = v
  <2>1. Parsed /\ Built
    BY MountedFacts DEF RootInv
  <2> QED BY <1>1, <1>2, <1>4, <2>1 DEF Parsed, Built
<1>6. RootRegion = DirectoryPlace(v) /\ RootSize = RootSectors(v)
  BY <1>5 DEF RootRegion, RootSize
<1>7. /\ ((RootRegion + RootSize) % Wrap) < p.size
      /\ (p.start + RootRegion) % Wrap = p.start + RootRegion
      /\ Delivers(d, p.start + RootRegion, RootSize)
  BY <1>1, <1>2, <1>6, WithinRead
<1>8. ((Fat1Start + Fat1Size) % Wrap) < p.size
  <2>1. v.spf \in Nat /\ DirectoryPlace(v) \in Nat /\ v.copies \in Nat
    BY <1>3, VolumeFacts
  <2>2. (v.copies * v.spf) \div v.copies = v.spf /\ v.spf <= DirectoryPlace(v)
    BY <1>2, <1>3, <2>1, VolumeFacts
  <2>3. Fat1Size = v.spf
    BY <1>5, <2>2 DEF Fat1Size
  <2>4. DirectoryPlace(v) + RootSectors(v) < p.size /\ RootSectors(v) \in Nat
    BY <1>1, <1>2, <1>6 DEF Within
  <2>5. v.spf < p.size /\ v.spf \in 0 .. Wrap - 1
    BY <1>3, <2>1, <2>2, <2>4, WrapFacts
  <2>6. v.spf % Wrap = v.spf
    BY <2>5, WrapFacts, SmallMod
  <2>7. Fat1Start + Fat1Size = v.spf
    BY <2>1, <2>3 DEF Fat1Start
  <2> QED BY <2>5, <2>6, <2>7
<1> QED BY <1>2, <1>3, <1>5, <1>6, <1>7, <1>8

-----------------------------------------------------------------------------
(* read_file: the directory.                                                 *)

LEMMA ElementOf == ASSUME NEW S, NEW s \in Seq(S), NEW i \in DOMAIN s PROVE s[i] \in S
OBVIOUS

LEMMA EntryFacts ==
  ASSUME NEW d, IsDrive(d), NEW i \in DOMAIN d.dir
  PROVE  /\ d.dir[i].size \in Int /\ d.dir[i].cluster \in Int
         /\ i \in 1 .. d.volume.rootEntries /\ DOMAIN d.dir = 1 .. d.volume.rootEntries
         /\ d.volume.rootEntries \in Nat
         /\ Len(d.dir[i].name) <= MaxName /\ (d.dir[i].end => d.dir[i].name = <<>>)
<1>1. d.dir \in Seq([name : Name, size : Int, cluster : Int, end : BOOLEAN])
  BY DEF IsDrive, Directory
<1>2. d.dir[i] \in [name : Name, size : Int, cluster : Int, end : BOOLEAN]
  BY <1>1, ElementOf, Zenon
<1>3. Len(d.dir) = d.volume.rootEntries /\ DOMAIN d.dir = 1 .. Len(d.dir) /\ Len(d.dir) \in Nat
  BY <1>1 DEF IsDrive
<1>4. Len(d.dir[i].name) <= MaxName /\ (d.dir[i].end => d.dir[i].name = <<>>)
  BY Zenon DEF IsDrive
<1>5. d.dir[i].size \in Int /\ d.dir[i].cluster \in Int
  BY <1>2
<1> QED BY <1>3, <1>4, <1>5

\* The file that is asked for.
LEMMA SmallFileFacts ==
  ASSUME FsTypeOK, NEW d, IsDrive(d), NEW i \in DOMAIN d.dir, SmallFile(d, i)
  PROVE  /\ call.name # <<>> /\ d.dir[i].name = call.name
         /\ Asked(d.dir[i]) \in Nat /\ Asked(d.dir[i]) > 0 /\ d.dir[i].size > 0
         /\ d.dir[i].cluster \in Int /\ d.dir[i].cluster >= 2
         /\ \A j \in 1 .. i - 1 : ~ Matches(call.name, d.dir[j])
         /\ Sound(d) /\ i * EntryWords <= RootSectors(d.volume) * Words
         /\ Asked(d.dir[i]) <= d.volume.bps * d.volume.spc
         /\ Within(d, FilePlace(d.volume, d.dir[i]), d.volume.spc)
<1>1. /\ d.dir[i].name = call.name /\ \A j \in 1 .. i - 1 : ~ Matches(call.name, d.dir[j])
      /\ Asked(d.dir[i]) > 0 /\ d.dir[i].name # <<>> /\ d.dir[i].cluster >= 2
      /\ Sound(d) /\ i * EntryWords <= RootSectors(d.volume) * Words
      /\ Asked(d.dir[i]) <= d.volume.bps * d.volume.spc
      /\ Within(d, FilePlace(d.volume, d.dir[i]), d.volume.spc)
  BY DEF SmallFile
<1>2. call.size \in Nat /\ d.dir[i].size \in Int /\ d.dir[i].cluster \in Int
  BY EntryFacts DEF FsTypeOK
<1>3. d.dir[i].size > 0 /\ Asked(d.dir[i]) \in Nat
  BY <1>1, <1>2 DEF Asked
<1> QED BY <1>1, <1>2, <1>3

\* While nothing about the call changes but how far it is, the files asked for stay
\* the same.
LEMMA SameFile ==
  ASSUME call'.name = call.name, call'.size = call.size, NEW d, NEW i
  PROVE  /\ SmallFile(d, i)' <=> SmallFile(d, i)
         /\ Piece(d, i)' = Piece(d, i) /\ Asked(d.dir[i])' = Asked(d.dir[i])
BY DEF SmallFile, Piece, Asked

\* A word of the directory is where the code looks for it.
LEMMA DirectoryWordAt ==
  ASSUME NEW d, Disk = d, IsDrive(d), d.volume.bps = BytesPerSector, NEW k \in Nat
  PROVE  DirectoryWord(k) = <<request.hdd,
           Chosen(d.entries).start + DirectoryPlace(d.volume) + k \div Words, k % Words>>
<1> PICK p : p = Chosen(d.entries).start
  OBVIOUS
<1> PICK s : s = DirectoryPlace(d.volume)
  OBVIOUS
<1>1. Words \in Nat \ {0}
  BY SizesFacts
<1>2. p \in Nat /\ s \in Nat
  <2>1. d.volume \in Volume /\ p \in 0 .. Wrap - 1
    BY ChosenIsEntry DEF IsDrive
  <2> QED BY <2>1, VolumeFacts, WrapFacts
<1>3. d.volume.bps \div 2 = Words
  <2>1. d.volume.bps = 2 * Words + 0
    BY <1>1 DEF BytesPerSector
  <2> QED BY <1>1, <2>1, Quotient
<1> PICK q \in Nat : q = k \div Words
  BY <1>1, DivNat
<1> PICK r \in 0 .. Words - 1 : r = k % Words
  BY <1>1, DivMod
<1>4. k = Words * q + r
  BY <1>1, DivMod
<1> PICK w : w = p * Words + s * Words + k
  OBVIOUS
<1>5. w \in Int /\ w = Words * (p + s + q) + r
  <2>1. ASSUME NEW m \in Nat, NEW a \in Nat, NEW b \in Nat, NEW c \in Nat
        PROVE  a * m + b * m + m * c = m * (a + b + c) /\ m * c \in Int /\ a * m + b * m \in Int
    OBVIOUS
  <2>2. /\ p * Words + s * Words + Words * q = Words * (p + s + q)
        /\ Words * q \in Int /\ p * Words + s * Words \in Int
    <3> PICK m \in Nat : m = Words
      BY <1>1
    <3> PICK a \in Nat : a = p
      BY <1>2
    <3> PICK b \in Nat : b = s
      BY <1>2
    <3>1. a * m + b * m + m * q = m * (a + b + q) /\ m * q \in Int /\ a * m + b * m \in Int
      BY <2>1
    <3> QED BY <3>1
  <2>3. r \in Int
    BY <1>1
  <2> QED BY <1>4, <2>2, <2>3
<1>6. w \div Words = p + s + q /\ w % Words = r
  <2>1. p + s + q \in Int
    BY <1>2
  <2> QED BY <1>1, <1>5, <2>1, Quotient
<1>7. PlaceOf(d, s, k) = w
  BY <1>3 DEF PlaceOf
<1> QED BY <1>6, <1>7, Zenon DEF DirectoryWord

\* A sector further in the buffer, and in a table.
LEMMA EntryWithin ==
  ASSUME NEW e \in Nat, NEW i \in Nat, NEW j \in 1 .. i, NEW m \in Nat, i * e <= m,
         NEW k \in (j - 1) * e .. j * e - 1
  PROVE  k \in Nat /\ k < m
<1>1. (j - 1) * e \in Nat /\ (i - j) * e \in Nat
  <2>1. j - 1 \in Nat /\ i - j \in Nat
    OBVIOUS
  <2> QED BY <2>1, MultNat
<1>2. i * e = (i - j) * e + j * e
  OBVIOUS
<1>3. j * e \in Int /\ i * e \in Int
  OBVIOUS
<1> QED BY <1>1, <1>2, <1>3

\* When the read of the directory is done, the entries up to the one asked for are
\* in the buffer.
LEMMA HeldUpTo ==
  ASSUME IInv, at \in {"size", "cluster"}, ata = "idle", NEW d, d = hdds[root.hdd],
         NEW i \in DOMAIN d.dir, SmallFile(d, i), Reading(d, i), NEW j \in 1 .. i
  PROVE  j \in DOMAIN d.dir /\ Held(j)
<1>1. AtaTypeOK /\ Answered /\ FsTypeOK /\ RootInv /\ at \in Mounted
  BY DEF IInv, Mounted
<1>2. /\ IsDrive(d) /\ d # Misread /\ Disk = d /\ request.hdd = root.hdd
      /\ root.hdd \in DOMAIN hdds
  BY <1>1, MountedFacts, AtRoot DEF Drive
<1>3. Sound(d) /\ i * EntryWords <= RootSectors(d.volume) * Words
  BY <1>1, <1>2, SmallFileFacts
<1> PICK a : a = Chosen(d.entries).start + DirectoryPlace(d.volume)
  OBVIOUS
<1>4. request.lba = a /\ request.n = RootSectors(d.volume)
  BY DEF Reading
<1>5. Delivers(d, a, RootSectors(d.volume)) /\ d.volume.bps = BytesPerSector
  BY <1>1, <1>3, SoundFacts
<1>6. Intact
  <2>1. Served
    BY <1>2, <1>4, <1>5 DEF Served
  <2> QED BY <1>1, <2>1, ServedIntact
<1>7. Len(buf) = RootSectors(d.volume) * Words /\ Len(buf) \in Nat
  BY <1>1, <1>4 DEF Answered, AtaTypeOK
<1>8. j \in DOMAIN d.dir /\ i \in Nat
  BY <1>2, EntryFacts
<1>9. ASSUME NEW k \in (j - 1) * EntryWords .. j * EntryWords - 1
      PROVE  k < Len(buf) /\ buf[k + 1] = DirectoryWord(k)
  <2>0. EntryWords \in Nat
    BY SizesAssumption DEF EntryWords
  <2>1. k \in Nat /\ k < Len(buf)
    BY <1>3, <1>7, <1>8, <2>0, EntryWithin
  <2>2. buf[k + 1] = <<request.hdd, a + k \div Words, k % Words>>
    <3>1. k + 1 \in 1 .. Len(buf) /\ (k + 1) - 1 = k
      BY <1>7, <2>1
    <3>2. buf[k + 1] = <<request.hdd, a + ((k + 1) - 1) \div Words, ((k + 1) - 1) % Words>>
      BY <1>4, <1>6, <3>1, Zenon DEF Intact
    <3> QED BY <3>1, <3>2
  <2>3. DirectoryWord(k) = <<request.hdd, a + k \div Words, k % Words>>
    BY <1>2, <1>5, <2>1, DirectoryWordAt
  <2> QED BY <2>1, <2>2, <2>3
<1> QED BY <1>2, <1>8, <1>9, Zenon DEF Held

\* What the search brings back is the file asked for.
LEMMA SearchFinds ==
  ASSUME IInv, at \in {"size", "cluster"}, ata = "idle", NEW d, d = hdds[root.hdd],
         NEW i \in DOMAIN d.dir, SmallFile(d, i), Reading(d, i),
         NEW e \in Found(call.name)
  PROVE  e = d.dir[i]
<1>1. FsTypeOK /\ RootInv /\ at \in Mounted
  BY DEF IInv, Mounted
<1>2. IsDrive(d) /\ Disk = d
  BY <1>1, MountedFacts, AtRoot DEF Drive
<1>3. /\ d.dir[i].name = call.name /\ call.name # <<>> /\ Sound(d)
      /\ \A j \in 1 .. i - 1 : ~ Matches(call.name, d.dir[j])
  BY <1>1, <1>2, SmallFileFacts
<1>4. root.volume = d.volume
  BY <1>1, <1>3, SoundFacts
<1>5. /\ d.volume.rootEntries \in Nat /\ i \in 1 .. d.volume.rootEntries
      /\ DOMAIN d.dir = 1 .. d.volume.rootEntries
  BY <1>2, EntryFacts
<1>6. Matches(call.name, d.dir[i]) /\ ~ d.dir[i].end
  <2>1. Len(call.name) <= MaxName /\ (d.dir[i].end => d.dir[i].name = <<>>)
    BY <1>2, <1>3, EntryFacts
  <2> QED BY <1>3, <2>1 DEF Matches
<1>7. \A j \in 1 .. i : Held(j)
  BY HeldUpTo
<1>8. ASSUME NEW j \in 1 .. i - 1 PROVE ~ d.dir[j].end
  <2>1. j \in DOMAIN d.dir
    BY <1>5
  <2>2. d.dir[j].end => d.dir[j].name = <<>>
    BY <1>2, <2>1, EntryFacts
  <2>3. Len(call.name) <= MaxName
    BY <1>6 DEF Matches
  <2>4. d.dir[j].name = <<>> => Matches(call.name, d.dir[j])
    BY <2>3 DEF Matches
  <2> QED BY <1>3, <2>2, <2>4
<1>9. PICK j \in 1 .. d.volume.rootEntries + 1 : ComesTo(call.name, j) /\ e \in Outcome(call.name, j)
  BY <1>4, Zenon DEF Found
<1>10. j \in Nat
  BY <1>5, <1>9
<1>11. ~ (i < j)
  <2> SUFFICES ASSUME i < j PROVE FALSE
    OBVIOUS
  <2>1. i \in 1 .. j - 1 /\ i \in 1 .. i
    BY <1>5, <1>10
  <2>2. ~ Matches(call.name, d.dir[i])
    BY <1>2, <1>7, <1>9, <2>1 DEF ComesTo
  <2> QED BY <1>6, <2>2
<1>12. j \in 1 .. i /\ j <= d.volume.rootEntries
  BY <1>5, <1>9, <1>10, <1>11
<1>13. Held(j)
  BY <1>7, <1>12
<1>14. e \in IF d.dir[j].end THEN {Missing} ELSE {f \in {d.dir[j]} : Matches(call.name, f)}
  <2>1. ~ (j > root.volume.rootEntries)
    BY <1>4, <1>5, <1>10, <1>12
  <2> QED BY <1>2, <1>9, <1>13, <2>1 DEF Outcome
<1>15. CASE j = i
  BY <1>6, <1>14, <1>15
<1>16. CASE j # i
  <2>1. j \in 1 .. i - 1
    BY <1>5, <1>12, <1>16
  <2> QED BY <1>3, <1>8, <1>14, <2>1
<1> QED BY <1>15, <1>16

\* What the search brings back, whatever was read.
LEMMA SearchTyped ==
  ASSUME IInv, at \in {"size", "cluster"}, NEW e \in Found(call.name)
  PROVE  e.size \in Int /\ e.cluster \in Int
<1>1. FsTypeOK /\ RootInv /\ at \in Mounted
  BY DEF IInv, Mounted
<1>2. IsDrive(Disk)
  BY <1>1, MountedFacts, AtRoot DEF Drive
<1>3. Missing.size \in Int /\ Missing.cluster \in Int
  BY DEF Missing
<1>4. Disk.junk.size \in Int /\ Disk.junk.cluster \in Int
  BY <1>2 DEF IsDrive, Junk
<1>5. PICK j \in 1 .. root.volume.rootEntries + 1 : e \in Outcome(call.name, j)
  BY Zenon DEF Found
<1>6. e \in {Missing, Disk.junk} \/ (Held(j) /\ e = Disk.dir[j])
  <2>1. CASE j > root.volume.rootEntries
    BY <1>5, <2>1 DEF Outcome
  <2>2. CASE j <= root.volume.rootEntries /\ ~ Held(j) /\ ~ (j > root.volume.rootEntries)
    BY <1>5, <2>2 DEF Outcome
  <2>3. CASE Held(j) /\ ~ (j > root.volume.rootEntries)
    <3>1. e \in IF Disk.dir[j].end THEN {Missing}
                ELSE {f \in {Disk.dir[j]} : Matches(call.name, f)}
      BY <1>5, <2>3 DEF Outcome
    <3> QED BY <2>3, <3>1
  <2>4. root.volume.rootEntries \in Nat
    BY <1>1, MountedFacts, VolumeFacts
  <2> QED BY <2>1, <2>2, <2>3, <2>4
<1>7. ASSUME Held(j) PROVE Disk.dir[j].size \in Int /\ Disk.dir[j].cluster \in Int
  <2>1. j \in DOMAIN Disk.dir
    BY <1>7 DEF Held
  <2> QED BY <1>2, <2>1, EntryFacts
<1> QED BY <1>3, <1>4, <1>6, <1>7

\* The read of the directory is never refused on a volume the code can read.
LEMMA DirectoryRead ==
  ASSUME AtaTypeOK, Answered, FsTypeOK, RootInv, at \in Mounted, UNCHANGED root, call' \in Calls,
         NEW name, NEW ok \in BOOLEAN, NEW next \in Mounted, NEW after \in Mounted,
         Search(name, ok, next, after)
  PROVE  /\ AtaTypeOK' /\ Answered' /\ FsTypeOK' /\ RootInv' /\ UNCHANGED <<hdds, root>>
         /\ ~ (name # <<>> /\ ok) => at' = after
         /\ name # <<>> /\ ok =>
              /\ at' \in {"panic", next}
              /\ Sound(hdds[root.hdd]) =>
                   LET d == hdds[root.hdd]
                   IN  /\ at' = next /\ request'.n = RootSectors(d.volume)
                       /\ request'.lba = Chosen(d.entries).start + DirectoryPlace(d.volume)
<1>1. CASE name # <<>> /\ ok
  <2>1. PartitionRead(root, RootRegion, RootSize, next)
    BY <1>1 DEF Search
  <2>2. RootRegion \in Nat /\ RootSize \in Nat
    BY MountedFacts
  <2>3. /\ AtaTypeOK' /\ Answered' /\ FsTypeOK' /\ RootInv' /\ UNCHANGED <<hdds, root>>
        /\ \/ at' = "panic" /\ ~ (((RootRegion + RootSize) % Wrap) < root.size)
           \/ at' = next /\ request' = [hdd |-> root.hdd, lba |-> (root.start + RootRegion) % Wrap,
                                        n |-> RootSize]
    BY <2>1, <2>2, ReadKeeps
  <2>4. ASSUME Sound(hdds[root.hdd])
        PROVE  LET d == hdds[root.hdd]
               IN  /\ at' = next /\ request'.n = RootSectors(d.volume)
                   /\ request'.lba = Chosen(d.entries).start + DirectoryPlace(d.volume)
    <3> PICK d : d = hdds[root.hdd]
      OBVIOUS
    <3>1. /\ RootSize = RootSectors(d.volume)
          /\ ((RootRegion + RootSize) % Wrap) < root.size
          /\ (root.start + RootRegion) % Wrap = Chosen(d.entries).start + DirectoryPlace(d.volume)
      BY <2>4, SoundFacts
    <3> QED BY <2>3, <3>1
  <2> QED BY <1>1, <2>3, <2>4
<1>2. CASE ~ (name # <<>> /\ ok)
  <2>1. at' = after /\ UNCHANGED ataVars
    BY <1>2 DEF Search
  <2> QED BY <1>2, <2>1, StepKeeps
<1> QED BY <1>1, <1>2

LEMMA ReadFileKeeps ==
  ASSUME IInv, NEW name \in Name, NEW size \in BufSize, NEW ok \in BOOLEAN,
         ReadFile(name, size, ok)
  PROVE  IInv'
<1>1. at = "mounted" /\ UNCHANGED root /\ Search(name, ok, "size", "sized")
  BY DEF ReadFile
<1>2. /\ call' = [name |-> name, size |-> size, len |-> -1, remain |-> 0, cluster |-> -1,
                  got |-> <<>>, copied |-> 0, starved |-> ~ ok]
  BY DEF ReadFile, NoCall
<1>3. size \in Nat
  BY SizesAssumption
<1>4. call' \in Calls
  BY <1>2, <1>3 DEF Calls
<1>5. AtaTypeOK /\ Answered /\ FsTypeOK /\ RootInv /\ at \in Mounted
  BY <1>1 DEF IInv, Mounted
<1> PICK d : d = hdds[root.hdd]
  OBVIOUS
<1>6. /\ AtaTypeOK' /\ Answered' /\ FsTypeOK' /\ RootInv' /\ UNCHANGED <<hdds, root>>
      /\ name # <<>> /\ ok /\ Sound(d) =>
           /\ at' = "size" /\ request'.n = RootSectors(d.volume)
           /\ request'.lba = Chosen(d.entries).start + DirectoryPlace(d.volume)
  <2>1. "size" \in Mounted /\ "sized" \in Mounted
    BY DEF Mounted
  <2> QED BY <1>1, <1>4, <1>5, <2>1, DirectoryRead
<1>7. CallInv'
  BY <1>2, <1>3 DEF CallInv
<1>8. FileInv'
  <2> SUFFICES ASSUME ~ call'.starved, NEW i \in DOMAIN d.dir, SmallFile(d, i)'
               PROVE  Reading(d, i)'
    BY <1>6 DEF FileInv
  <2>1. d.dir[i].name = name /\ d.dir[i].name # <<>> /\ Sound(d) /\ ok
    BY <1>2 DEF SmallFile
  <2>2. /\ at' = "size" /\ request'.n = RootSectors(d.volume)
        /\ request'.lba = Chosen(d.entries).start + DirectoryPlace(d.volume)
    BY <1>6, <2>1
  <2> QED BY <1>2, <2>2 DEF Reading
<1> QED BY <1>6, <1>7, <1>8 DEF IInv

LEMMA SizeKeeps == ASSUME IInv, Size PROVE IInv'
<1>1. at = "size" /\ ata = "idle" /\ at' = "sized" /\ UNCHANGED <<ataVars, root>>
  BY DEF Size
<1>2. PICK e \in Found(call.name) : call' = [call EXCEPT !.len = e.size]
  BY DEF Size
<1>3. AtaTypeOK /\ Answered /\ FsTypeOK /\ RootInv /\ CallInv /\ FileInv /\ at \in Mounted
  BY <1>1 DEF IInv, Mounted
<1>4. e.size \in Int
  BY <1>1, SearchTyped
<1>5. call \in Calls
  BY <1>3 DEF FsTypeOK, Calls, Piecewise
<1>6. /\ call' \in Calls /\ call'.name = call.name /\ call'.size = call.size
      /\ call'.len = e.size /\ call'.remain = call.remain /\ call'.got = call.got
      /\ call'.copied = call.copied /\ call'.starved = call.starved
  BY <1>2, <1>4, <1>5 DEF Calls
<1>7. AtaTypeOK' /\ Answered' /\ FsTypeOK' /\ RootInv' /\ UNCHANGED <<hdds, root, request>>
  BY <1>1, <1>3, <1>6, StepKeeps DEF Mounted
<1>8. CallInv'
  BY <1>1, <1>3, <1>6 DEF CallInv
<1>9. FileInv'
  <2> PICK d : d = hdds[root.hdd]
    OBVIOUS
  <2> SUFFICES ASSUME call.size > 0, ~ call.starved, NEW i \in DOMAIN d.dir, SmallFile(d, i)'
               PROVE  Reading(d, i)'
    BY <1>6, <1>7 DEF FileInv
  <2>1. SmallFile(d, i)
    BY <1>6, SameFile
  <2>2. Reading(d, i)
    BY <1>3, <2>1 DEF FileInv
  <2>3. e = d.dir[i]
    BY <1>1, <2>1, <2>2, SearchFinds
  <2>4. call'.got = <<>> /\ call'.len = d.dir[i].size
    BY <1>1, <1>6, <2>2, <2>3 DEF Reading
  <2> QED BY <1>1, <2>4 DEF Reading
<1> QED BY <1>7, <1>8, <1>9 DEF IInv

LEMMA ClusterKeeps == ASSUME IInv, Cluster PROVE IInv'
<1>1. at = "cluster" /\ ata = "idle" /\ at' = "loop" /\ UNCHANGED <<ataVars, root>>
  BY DEF Cluster
<1>2. PICK e \in Found(call.name) : call' = [call EXCEPT !.cluster = e.cluster]
  BY DEF Cluster
<1>3. AtaTypeOK /\ Answered /\ FsTypeOK /\ RootInv /\ CallInv /\ FileInv /\ at \in Mounted
  BY <1>1 DEF IInv, Mounted
<1>4. e.cluster \in Int
  BY <1>1, SearchTyped
<1>5. call \in Calls
  BY <1>3 DEF FsTypeOK, Calls, Piecewise
<1>6. /\ call' \in Calls /\ call'.name = call.name /\ call'.size = call.size
      /\ call'.cluster = e.cluster /\ call'.remain = call.remain /\ call'.got = call.got
      /\ call'.copied = call.copied /\ call'.starved = call.starved
  BY <1>2, <1>4, <1>5 DEF Calls
<1>7. AtaTypeOK' /\ Answered' /\ FsTypeOK' /\ RootInv' /\ UNCHANGED <<hdds, root, request>>
  BY <1>1, <1>3, <1>6, StepKeeps DEF Mounted
<1>8. CallInv'
  BY <1>1, <1>3, <1>6 DEF CallInv
<1>9. FileInv'
  <2> PICK d : d = hdds[root.hdd]
    OBVIOUS
  <2> SUFFICES ASSUME call.size > 0, ~ call.starved, NEW i \in DOMAIN d.dir, SmallFile(d, i)'
               PROVE  Reading(d, i)'
    BY <1>6, <1>7 DEF FileInv
  <2>1. SmallFile(d, i)
    BY <1>6, SameFile
  <2>2. Reading(d, i)
    BY <1>3, <2>1 DEF FileInv
  <2>3. e = d.dir[i]
    BY <1>1, <2>1, <2>2, SearchFinds
  <2>4. Asked(d.dir[i])' = Asked(d.dir[i])
    BY <1>6 DEF Asked
  <2>5. /\ call'.got = <<>> /\ call'.cluster = d.dir[i].cluster
        /\ call'.remain = Asked(d.dir[i])'
    BY <1>1, <1>6, <2>2, <2>3, <2>4 DEF Reading
  <2> QED BY <1>1, <2>5 DEF Reading
<1> QED BY <1>7, <1>8, <1>9 DEF IInv

LEMMA CallRemain == ASSUME NEW c \in Calls, NEW n \in Int PROVE [c EXCEPT !.remain = n] \in Calls
BY DEF Calls

LEMMA CallStarved ==
  ASSUME NEW c \in Calls, NEW st \in BOOLEAN PROVE [c EXCEPT !.starved = st] \in Calls
BY DEF Calls

With(c, st, n) == [c EXCEPT !.starved = st, !.remain = n]

LEMMA CallWith ==
  ASSUME NEW c \in Calls, NEW st \in BOOLEAN, NEW n \in Int
  PROVE  With(c, st, n) \in Calls
<1> PICK b : b = [c EXCEPT !.starved = st]
  OBVIOUS
<1>1. [b EXCEPT !.remain = n] \in Calls
  BY CallRemain, CallStarved, Zenon
<1>2. With(c, st, n) = [b EXCEPT !.remain = n]
  BY DEF With
<1> QED BY <1>1, <1>2

LEMMA StartClusterKeeps ==
  ASSUME IInv, NEW ok \in BOOLEAN, StartCluster(ok) PROVE IInv'
<1> DEFINE left == IF call.len >= 0 /\ call.size > call.len THEN call.len ELSE call.size
<1>1. /\ at = "sized" /\ UNCHANGED root /\ Search(call.name, ok, "cluster", "loop")
      /\ call' = [call EXCEPT !.starved = @ \/ ~ok, !.remain = left]
  BY DEF StartCluster
<1>3. AtaTypeOK /\ Answered /\ FsTypeOK /\ RootInv /\ CallInv /\ FileInv /\ at \in Mounted
  BY <1>1 DEF IInv, Mounted
<1>5. call \in Calls
  BY <1>3 DEF FsTypeOK, Calls, Piecewise
<1>4. call.len \in Int /\ call.size \in Nat /\ call.starved \in BOOLEAN /\ left \in Nat
      /\ left <= call.size
  BY <1>5 DEF Calls
<1>6. /\ call' \in Calls /\ call'.name = call.name /\ call'.size = call.size
      /\ call'.cluster = call.cluster /\ call'.remain = left /\ call'.got = call.got
      /\ call'.copied = call.copied /\ (~ call'.starved => ok /\ ~ call.starved)
  <2> HIDE DEF left
  <2>1. PICK st \in BOOLEAN : st = (call.starved \/ ~ ok)
    BY <1>4
  <2>2. call' = [call EXCEPT !.starved = st, !.remain = left]
    BY <1>1, <2>1
  <2>3. /\ call' \in Calls /\ call'.name = call.name /\ call'.size = call.size
        /\ call'.cluster = call.cluster /\ call'.remain = left /\ call'.got = call.got
        /\ call'.copied = call.copied /\ call'.starved = st
    <3>1. left \in Int
      BY <1>4
    <3>2. call' \in Calls
      <4>1. PICK c \in Calls : c = call
        BY <1>5
      <4>2. PICK m \in Int : m = left
        BY <3>1
      <4>3. With(c, st, m) \in Calls
        BY CallWith, Zenon
      <4> QED BY <2>2, <4>1, <4>2, <4>3, Zenon DEF With
    <3> QED BY <1>5, <2>2, <3>2 DEF Calls
  <2>4. ~ call'.starved => ok /\ ~ call.starved
    BY <2>1, <2>3, Zenon
  <2> QED BY <2>3, <2>4
<1> PICK d : d = hdds[root.hdd]
  OBVIOUS
<1>7. /\ AtaTypeOK' /\ Answered' /\ FsTypeOK' /\ RootInv' /\ UNCHANGED <<hdds, root>>
      /\ at' \in {"panic", "cluster", "loop"}
      /\ call.name # <<>> /\ ok /\ Sound(d) =>
           /\ at' = "cluster" /\ request'.n = RootSectors(d.volume)
           /\ request'.lba = Chosen(d.entries).start + DirectoryPlace(d.volume)
  <2>1. "cluster" \in Mounted /\ "loop" \in Mounted
    BY DEF Mounted
  <2> QED BY <1>1, <1>3, <1>6, <2>1, DirectoryRead
<1>8. CallInv'
  <2>1. call.copied = 0 /\ at' \notin {"size", "sized"}
    BY <1>1, <1>3, <1>7 DEF CallInv
  <2> HIDE DEF left
  <2> QED BY <1>4, <1>6, <2>1 DEF CallInv
<1>9. FileInv'
  <2> SUFFICES ASSUME call.size > 0, ~ call'.starved, NEW i \in DOMAIN d.dir, SmallFile(d, i)'
               PROVE  Reading(d, i)'
    BY <1>6, <1>7 DEF FileInv
  <2>0. ok /\ ~ call.starved
    BY <1>6
  <2>1. SmallFile(d, i)
    BY <1>6, SameFile
  <2>2. Reading(d, i)
    BY <1>3, <2>0, <2>1 DEF FileInv
  <2>3. IsDrive(d)
    BY <1>3, MountedFacts, AtRoot DEF Drive
  <2>4. d.dir[i].size > 0 /\ call.name # <<>> /\ Sound(d)
    BY <1>3, <2>1, <2>3, SmallFileFacts
  <2>5. /\ at' = "cluster" /\ request'.n = RootSectors(d.volume)
        /\ request'.lba = Chosen(d.entries).start + DirectoryPlace(d.volume)
    BY <1>7, <2>0, <2>4
  <2>6. call.len = d.dir[i].size /\ call.got = <<>>
    BY <1>1, <2>2 DEF Reading
  <2>7. d.dir[i].size \in Int
    BY <2>3, EntryFacts
  <2>8. left = Asked(d.dir[i])
    BY <1>4, <2>4, <2>6, <2>7 DEF Asked
  <2>9. Asked(d.dir[i])' = Asked(d.dir[i])
    BY <1>6 DEF Asked
  <2> HIDE DEF left
  <2> QED BY <1>6, <2>5, <2>6, <2>8, <2>9 DEF Reading
<1> QED BY <1>7, <1>8, <1>9 DEF IInv

\* The sector of the first cluster of a file.
LEMMA FileSector ==
  ASSUME FsTypeOK, RootInv, at \in Mounted, NEW d, d = hdds[root.hdd],
         NEW i \in DOMAIN d.dir, SmallFile(d, i)
  PROVE  LET f == FirstSectorOf(d.dir[i].cluster)
         IN  /\ ((f + d.volume.spc) % Wrap) < root.size
             /\ (root.start + f) % Wrap = Piece(d, i).sector
             /\ Delivers(d, Piece(d, i).sector, d.volume.spc)
<1>1. IsDrive(d)
  BY MountedFacts, AtRoot DEF Drive
<1>2. /\ Sound(d) /\ d.dir[i].cluster \in Int /\ d.dir[i].cluster >= 2
      /\ Within(d, FilePlace(d.volume, d.dir[i]), d.volume.spc)
  BY <1>1, SmallFileFacts
<1> PICK v : v = d.volume
  OBVIOUS
<1> PICK p : p = Chosen(d.entries)
  OBVIOUS
<1> PICK c \in Int : c = d.dir[i].cluster /\ c >= 2
  BY <1>2
<1> PICK f : f = FilePlace(v, d.dir[i])
  OBVIOUS
<1>3. /\ root.volume = v /\ v \in Volume /\ root.start = p.start /\ root.size = p.size
      /\ RootRegion = DirectoryPlace(v) /\ RootSize = RootSectors(v)
      /\ DataRegion \in Nat /\ v.spc \in Nat
  BY <1>2, SoundFacts, MountedFacts
<1>4. (c - 2) * v.spc \in Nat
  <2>1. c - 2 \in Nat
    OBVIOUS
  <2> QED BY <1>3, <2>1, MultNat
<1>5. f = DataRegion + (c - 2) * v.spc /\ f \in Nat
  BY <1>3, <1>4 DEF FilePlace, DataRegion
<1>6. /\ ((f + v.spc) % Wrap) < p.size
      /\ (p.start + f) % Wrap = p.start + f
      /\ Delivers(d, p.start + f, v.spc) /\ f % Wrap = f
  BY <1>1, <1>2, <1>3, <1>5, WithinRead
<1>7. FirstSectorOf(c) = f
  BY <1>3, <1>5, <1>6 DEF FirstSectorOf
<1>8. Piece(d, i).sector = p.start + f
  BY DEF Piece
<1> QED BY <1>3, <1>6, <1>7, <1>8

LEMMA LoopKeeps == ASSUME IInv, Loop PROVE IInv'
<1>1. at = "loop" /\ UNCHANGED <<root, call>>
  BY DEF Loop
<1>3. AtaTypeOK /\ Answered /\ FsTypeOK /\ RootInv /\ CallInv /\ FileInv /\ at \in Mounted
  BY <1>1 DEF IInv, Mounted
<1>5. call \in Calls /\ call' \in Calls /\ call.cluster \in Int /\ call.remain \in Int
  BY <1>1, <1>3 DEF FsTypeOK, Calls, Piecewise
<1> PICK f : f = FirstSectorOf(call.cluster)
  OBVIOUS
<1>7. /\ AtaTypeOK' /\ Answered' /\ FsTypeOK' /\ RootInv' /\ UNCHANGED <<hdds, root>>
      /\ \/ /\ call.remain > 0 /\ at' = "panic"
            /\ ~ (((f + root.volume.spc) % Wrap) < root.size)
         \/ /\ call.remain > 0 /\ at' = "data"
            /\ request'.lba = (root.start + f) % Wrap /\ request'.n = root.volume.spc
         \/ ~ (call.remain > 0) /\ at' = "mounted"
  <2>1. CASE call.remain > 0
    <3>1. PartitionRead(root, f, root.volume.spc, "data")
      BY <2>1 DEF Loop
    <3>2. f \in Nat /\ root.volume.spc \in Nat /\ "data" \in Mounted
      BY <1>3, <1>5, MountedFacts DEF Mounted
    <3>3. /\ AtaTypeOK' /\ Answered' /\ FsTypeOK' /\ RootInv' /\ UNCHANGED <<hdds, root>>
          /\ \/ at' = "panic" /\ ~ (((f + root.volume.spc) % Wrap) < root.size)
             \/ at' = "data" /\ request' = [hdd |-> root.hdd, lba |-> (root.start + f) % Wrap,
                                            n |-> root.volume.spc]
      BY <1>1, <1>3, <1>5, <3>1, <3>2, ReadKeeps
    <3> QED BY <2>1, <3>3
  <2>2. CASE ~ (call.remain > 0)
    <3>1. at' = "mounted" /\ UNCHANGED ataVars
      BY <2>2 DEF Loop
    <3> QED BY <1>1, <1>3, <1>5, <2>2, <3>1, StepKeeps DEF Mounted
  <2> QED BY <2>1, <2>2
<1>8. CallInv'
  BY <1>1, <1>3, <1>7 DEF CallInv
<1>9. FileInv'
  <2> PICK d : d = hdds[root.hdd]
    OBVIOUS
  <2> SUFFICES ASSUME call.size > 0, ~ call.starved, NEW i \in DOMAIN d.dir, SmallFile(d, i)'
               PROVE  Reading(d, i)'
    BY <1>1, <1>7 DEF FileInv
  <2>1. SmallFile(d, i)
    BY <1>1, SameFile
  <2>2. Reading(d, i)
    BY <1>3, <2>1 DEF FileInv
  <2>3. IsDrive(d)
    BY <1>3, MountedFacts, AtRoot DEF Drive
  <2>4. Asked(d.dir[i]) \in Nat /\ Asked(d.dir[i]) > 0 /\ Sound(d)
    BY <1>3, <2>1, <2>3, SmallFileFacts
  <2>5. \/ call.remain = 0 /\ call.got = <<Piece(d, i)>>
        \/ call.got = <<>> /\ call.remain = Asked(d.dir[i]) /\ call.cluster = d.dir[i].cluster
    BY <1>1, <2>2 DEF Reading
  <2>6. Asked(d.dir[i])' = Asked(d.dir[i]) /\ Piece(d, i)' = Piece(d, i)
    BY <1>1, SameFile
  <2>7. CASE call.remain = 0
    <3>1. at' = "mounted" /\ call.got = <<Piece(d, i)>>
      BY <1>7, <2>4, <2>5, <2>7
    <3> QED BY <1>1, <2>6, <3>1 DEF Reading
  <2>8. CASE call.remain # 0
    <3>1. /\ call.got = <<>> /\ call.remain = Asked(d.dir[i])
          /\ call.cluster = d.dir[i].cluster
      BY <2>5, <2>8
    <3>2. ((f + d.volume.spc) % Wrap) < root.size /\ (root.start + f) % Wrap = Piece(d, i).sector
      BY <1>3, <2>1, <3>1, FileSector
    <3>3. root.volume = d.volume
      BY <1>3, <2>4, SoundFacts
    <3>4. at' = "data" /\ request'.lba = Piece(d, i).sector /\ request'.n = d.volume.spc
      BY <1>7, <2>4, <3>1, <3>2, <3>3
    <3> QED BY <1>1, <2>6, <3>1, <3>4 DEF Reading
  <2> QED BY <2>7, <2>8
<1> QED BY <1>7, <1>8, <1>9 DEF IInv

-----------------------------------------------------------------------------
(* read_file: the data and the next cluster.                                 *)

Pieces == Seq(Piecewise)
Copied(c, m, k, g) == [c EXCEPT !.remain = m, !.copied = k, !.got = g]

LEMMA CallAmount == ASSUME NEW c \in Calls, NEW k \in Int PROVE [c EXCEPT !.copied = k] \in Calls
BY DEF Calls

LEMMA CallGot == ASSUME NEW c \in Calls, NEW g \in Pieces PROVE [c EXCEPT !.got = g] \in Calls
BY DEF Calls, Pieces

LEMMA CallCopied ==
  ASSUME NEW c \in Calls, NEW m \in Int, NEW k \in Int, NEW g \in Pieces
  PROVE  Copied(c, m, k, g) \in Calls
<1> PICK a : a = [c EXCEPT !.remain = m]
  OBVIOUS
<1> PICK b : b = [a EXCEPT !.copied = k]
  OBVIOUS
<1>1. a \in Calls
  BY CallRemain, Zenon
<1>2. b \in Calls
  BY <1>1, CallAmount, Zenon
<1>3. [b EXCEPT !.got = g] \in Calls
  BY <1>2, CallGot, Zenon
<1>4. Copied(c, m, k, g) = [b EXCEPT !.got = g]
  BY DEF Copied
<1> QED BY <1>3, <1>4

\* The cluster of a small file came whole.
LEMMA FileCame ==
  ASSUME IInv, at = "data", ata = "idle", NEW d, d = hdds[root.hdd],
         NEW i \in DOMAIN d.dir, SmallFile(d, i), Reading(d, i)
  PROVE  Intact /\ 2 * Len(buf) = BytesPerCluster /\ Asked(d.dir[i]) <= BytesPerCluster
<1>1. AtaTypeOK /\ Answered /\ FsTypeOK /\ RootInv /\ at \in Mounted
  BY DEF IInv, Mounted
<1>2. /\ IsDrive(d) /\ d # Misread /\ request.hdd = root.hdd /\ root.hdd \in DOMAIN hdds
  BY <1>1, MountedFacts, AtRoot DEF Drive
<1>3. Sound(d) /\ Asked(d.dir[i]) <= d.volume.bps * d.volume.spc
  BY <1>1, <1>2, SmallFileFacts
<1>4. root.volume = d.volume /\ d.volume.bps = BytesPerSector /\ d.volume \in Volume
  BY <1>1, <1>3, SoundFacts
<1>5. request.lba = Piece(d, i).sector /\ request.n = d.volume.spc
  BY DEF Reading
<1>6. Delivers(d, Piece(d, i).sector, d.volume.spc)
  BY <1>1, FileSector
<1>7. Served
  BY <1>2, <1>5, <1>6 DEF Served
<1>8. Intact
  BY <1>1, <1>7, ServedIntact
<1>9. Len(buf) = d.volume.spc * Words
  BY <1>1, <1>5 DEF Answered
<1>10. 2 * (d.volume.spc * Words) = (2 * Words) * d.volume.spc
  <2>1. d.volume.spc \in Nat /\ Words \in Nat
    BY <1>4, VolumeFacts, SizesFacts
  <2> QED BY <2>1
<1> QED BY <1>3, <1>4, <1>8, <1>9, <1>10 DEF BytesPerCluster, BytesPerSector

LEMMA CopyDataKeeps == ASSUME IInv, CopyData PROVE IInv'
<1> DEFINE n == ToRead(call.remain)
           whole == Intact /\ n <= 2 * Len(buf)
           piece == [sector |-> request.lba, bytes |-> n, whole |-> whole]
           g == IF n = 0 THEN call.got ELSE Append(call.got, piece)
<1>1. /\ at = "data" /\ ata = "idle" /\ UNCHANGED root
      /\ call' = [call EXCEPT !.remain = @ - n, !.copied = @ + n,
                              !.got = IF n = 0 THEN @ ELSE Append(@, piece)]
  BY DEF CopyData
<1>2. AtaTypeOK /\ Answered /\ FsTypeOK /\ RootInv /\ CallInv /\ FileInv /\ at \in Mounted
  BY <1>1 DEF IInv, Mounted
<1>3. call \in Calls
  BY <1>2 DEF FsTypeOK, Calls, Piecewise
<1>4. /\ call.remain \in Int /\ call.copied \in Int /\ call.got \in Pieces /\ call.size \in Nat
      /\ request.lba \in Nat
  BY <1>2, <1>3 DEF Calls, Pieces, AtaTypeOK
<1>5. BytesPerCluster \in Nat
  BY <1>2, MountedFacts
<1>6. call.remain >= 0 /\ call.copied >= 0 /\ call.copied + call.remain <= call.size
  BY <1>2 DEF CallInv
<1>7. n \in Nat /\ n <= call.remain
  BY <1>4, <1>5, <1>6 DEF ToRead
<1>w. whole \in BOOLEAN
  OBVIOUS
<1> HIDE DEF n, whole
<1>8. g \in Pieces
  <2>1. piece \in Piecewise
    BY <1>4, <1>7, <1>w DEF Piecewise
  <2> HIDE DEF piece
  <2>2. Append(call.got, piece) \in Pieces
    BY <1>4, <2>1 DEF Pieces
  <2> QED BY <1>4, <2>2
<1>9. call' = [call EXCEPT !.remain = call.remain - n, !.copied = call.copied + n, !.got = g]
  BY <1>1
<1> HIDE DEF g
<1>10. call' \in Calls
  <2>1. PICK c \in Calls : c = call
    BY <1>3
  <2>2. PICK m \in Int : m = call.remain - n
    BY <1>4, <1>7
  <2>3. PICK k \in Int : k = call.copied + n
    BY <1>4, <1>7
  <2>4. PICK h \in Pieces : h = g
    BY <1>8
  <2>5. Copied(c, m, k, h) \in Calls
    BY CallCopied, Zenon
  <2> QED BY <1>9, <2>1, <2>2, <2>3, <2>4, <2>5, Zenon DEF Copied
<1>11. /\ call'.name = call.name /\ call'.size = call.size /\ call'.starved = call.starved
       /\ call'.remain = call.remain - n /\ call'.copied = call.copied + n /\ call'.got = g
  BY <1>3, <1>9 DEF Calls
<1>12. /\ AtaTypeOK' /\ Answered' /\ FsTypeOK' /\ RootInv' /\ UNCHANGED <<hdds, root>>
       /\ \/ root.volume.copies = 0 /\ at' = "divideError"
          \/ at' = "panic" /\ ~ (((Fat1Start + Fat1Size) % Wrap) < root.size)
          \/ at' = "table"
  <2>1. CASE root.volume.copies = 0
    <3>1. at' = "divideError" /\ UNCHANGED ataVars
      BY <2>1 DEF CopyData
    <3> QED BY <1>1, <1>2, <1>10, <2>1, <3>1, StepKeeps
  <2>2. CASE root.volume.copies # 0
    <3>1. PartitionRead(root, Fat1Start, Fat1Size, "table")
      BY <2>2 DEF CopyData
    <3>2. Fat1Start \in Nat /\ Fat1Size \in Nat /\ "table" \in Mounted
      BY <1>2, <2>2, MountedFacts DEF Mounted, Fat1Start
    <3> QED BY <1>1, <1>2, <1>10, <3>1, <3>2, ReadKeeps
  <2> QED BY <2>1, <2>2
<1>13. CallInv'
  <2>1. at' \notin {"size", "sized"}
    BY <1>12
  <2>2. call'.remain >= 0 /\ call'.copied >= 0 /\ call'.copied + call'.remain <= call'.size
    BY <1>4, <1>6, <1>7, <1>11
  <2> QED BY <2>1, <2>2 DEF CallInv
<1>14. FileInv'
  <2> PICK d : d = hdds[root.hdd]
    OBVIOUS
  <2> SUFFICES ASSUME call.size > 0, ~ call.starved, NEW i \in DOMAIN d.dir, SmallFile(d, i)'
               PROVE  Reading(d, i)'
    BY <1>11, <1>12 DEF FileInv
  <2>1. SmallFile(d, i)
    BY <1>11, SameFile
  <2>2. Reading(d, i)
    BY <1>2, <2>1 DEF FileInv
  <2>3. IsDrive(d)
    BY <1>2, MountedFacts, AtRoot DEF Drive
  <2>4. Asked(d.dir[i]) \in Nat /\ Asked(d.dir[i]) > 0 /\ Sound(d)
    BY <1>2, <2>1, <2>3, SmallFileFacts
  <2>5. at' = "table"
    <3>1. root.volume.copies > 0 /\ ((Fat1Start + Fat1Size) % Wrap) < root.size
      BY <1>2, <2>4, SoundFacts
    <3> QED BY <1>12, <3>1
  <2>6. call.got = <<>> /\ call.remain = Asked(d.dir[i]) /\ request.lba = Piece(d, i).sector
    BY <1>1, <2>2 DEF Reading
  <2>7. Intact /\ 2 * Len(buf) = BytesPerCluster /\ Asked(d.dir[i]) <= BytesPerCluster
    BY <1>1, <2>1, <2>2, FileCame
  <2>8. n = Asked(d.dir[i])
    BY <1>4, <1>5, <2>6, <2>7 DEF n, ToRead
  <2>9. whole = TRUE
    BY <2>7, <2>8 DEF whole
  <2>10. call'.remain = 0
    BY <1>4, <1>11, <2>6, <2>8
  <2>11. g = <<Piece(d, i)>>
    <3>1. piece = Piece(d, i)
      BY <2>6, <2>8, <2>9 DEF Piece
    <3>2. n # 0
      BY <2>4, <2>8
    <3> QED BY <2>6, <3>1, <3>2 DEF g
  <2>12. Piece(d, i)' = Piece(d, i)
    BY <1>11, SameFile
  <2> QED BY <1>11, <2>5, <2>10, <2>11, <2>12 DEF Reading
<1> QED BY <1>12, <1>13, <1>14 DEF IInv

LEMMA NextClusterKeeps == ASSUME IInv, NextCluster PROVE IInv'
<1> DEFINE new == IF call.cluster + 1 \in DOMAIN buf
                  THEN WordValue(buf[call.cluster + 1]) ELSE Disk.junk.cluster
<1>1. /\ at = "table" /\ UNCHANGED <<ataVars, root>> /\ call' = [call EXCEPT !.cluster = new]
      /\ at' \in {"mounted", "loop"}
  BY DEF NextCluster
<1>2. AtaTypeOK /\ Answered /\ FsTypeOK /\ RootInv /\ CallInv /\ FileInv /\ at \in Mounted
  BY <1>1 DEF IInv, Mounted
<1>3. call \in Calls
  BY <1>2 DEF FsTypeOK, Calls, Piecewise
<1>4. new \in Int
  <2>1. IsDrive(Disk)
    BY <1>2, MountedFacts, AtRoot DEF Drive
  <2>2. Disk.junk.cluster \in Int
    BY <2>1 DEF IsDrive, Junk
  <2>3. \A i \in DOMAIN Disk.fat : Disk.fat[i] \in Int
    BY <2>1, Zenon DEF IsDrive
  <2>4. \A w : WordValue(w) \in Int
    BY <2>2, <2>3, Zenon DEF WordValue
  <2> QED BY <2>2, <2>4, Zenon
<1> HIDE DEF new
<1>5. call' \in Calls
  BY <1>1, <1>3, <1>4 DEF Calls
<1>6. /\ call'.name = call.name /\ call'.size = call.size /\ call'.starved = call.starved
      /\ call'.remain = call.remain /\ call'.copied = call.copied /\ call'.got = call.got
  BY <1>1, <1>3 DEF Calls
<1>7. AtaTypeOK' /\ Answered' /\ FsTypeOK' /\ RootInv' /\ UNCHANGED <<hdds, root, request>>
  BY <1>1, <1>2, <1>5, StepKeeps DEF Mounted
<1>8. CallInv'
  BY <1>1, <1>2, <1>6 DEF CallInv
<1>9. FileInv'
  <2> PICK d : d = hdds[root.hdd]
    OBVIOUS
  <2> SUFFICES ASSUME call.size > 0, ~ call.starved, NEW i \in DOMAIN d.dir, SmallFile(d, i)'
               PROVE  Reading(d, i)'
    BY <1>6, <1>7 DEF FileInv
  <2>1. SmallFile(d, i)
    BY <1>6, SameFile
  <2>2. Reading(d, i)
    BY <1>2, <2>1 DEF FileInv
  <2>3. call.remain = 0 /\ call.got = <<Piece(d, i)>>
    BY <1>1, <2>2 DEF Reading
  <2>4. Piece(d, i)' = Piece(d, i)
    BY <1>6, SameFile
  <2> QED BY <1>1, <1>6, <2>3, <2>4 DEF Reading
<1> QED BY <1>7, <1>8, <1>9 DEF IInv

-----------------------------------------------------------------------------
(* The inductive invariant and what follows from it.                         *)

LEMMA InitSatisfiesIInv == Init => IInv
<1> SUFFICES ASSUME Init PROVE IInv
  OBVIOUS
<1>1. /\ ports \in Machine /\ hdds = <<>> /\ ata = "idle" /\ buf = <<>>
      /\ request = [hdd |-> 0, lba |-> 0, n |-> 0]
      /\ drive = [sector |-> 0, word |-> 0, left |-> 0, busy |-> FALSE, err |-> FALSE]
      /\ at = "detect" /\ call = NoCall
      /\ root = [hdd |-> 0, type |-> 0, start |-> 0, size |-> 0, volume |-> ZeroVolume]
  BY DEF Init, AtaInit
<1>2. at \notin Mounted /\ at \notin Working /\ 0 \in 0 .. Words - 1
  BY <1>1, SizesFacts DEF Mounted, Working
<1>3. AtaTypeOK
  BY <1>1, <1>2 DEF AtaTypeOK
<1>4. Answered
  <2>1. ~ Served
    BY <1>1 DEF Served
  <2>2. Len(buf) = 0 /\ request.n * Words = 0
    BY <1>1, SizesFacts
  <2> QED BY <2>1, <2>2 DEF Answered
<1>5. FsTypeOK
  <2>1. call \in Calls
    BY <1>1 DEF Calls, NoCall, Piecewise
  <2>2. root \in Roots
    BY <1>1 DEF Roots, Volume, ZeroVolume
  <2> QED BY <1>1, <2>1, <2>2 DEF FsTypeOK, Calls, Piecewise, Roots
<1>6. RootInv
  BY <1>1, <1>2 DEF RootInv
<1>7. CallInv
  BY <1>1 DEF CallInv, NoCall
<1>8. FileInv
  BY <1>1 DEF FileInv, NoCall
<1> QED BY <1>3, <1>4, <1>5, <1>6, <1>7, <1>8 DEF IInv

\* Until there is a root no file is read.
LEMMA MountStep ==
  ASSUME IInv, InitHarddisks \/ TryDisk \/ ParseMbr \/ BuildRoot PROVE IInv'
<1>1. AtaTypeOK /\ Answered /\ FsTypeOK /\ RootInv /\ CallInv
  BY DEF IInv
<1>2. AtaTypeOK' /\ Answered' /\ FsTypeOK' /\ RootInv' /\ CallInv'
  BY <1>1, DetectKeeps, TryDiskKeeps, ParseMbrKeeps, BuildRootKeeps
<1>3. at \in {"detect", "scan", "mbr", "bootSector"} /\ UNCHANGED call
  BY DEF InitHarddisks, TryDisk, ParseMbr, BuildRoot
<1>4. call' = NoCall
  BY <1>1, <1>3 DEF RootInv
<1>5. FileInv'
  BY <1>4 DEF FileInv, NoCall
<1> QED BY <1>2, <1>5 DEF IInv

LEMMA TransferStep == ASSUME IInv, Transfer, UNCHANGED fsVars PROVE IInv'
<1>1. AtaTypeOK /\ Answered /\ FsTypeOK /\ RootInv /\ CallInv /\ FileInv
  BY DEF IInv
<1>2. AtaTypeOK' /\ Answered'
  BY <1>1, TransferKeeps
<1>3. UNCHANGED <<ports, hdds, request, at, root, call>>
  BY DEF Transfer, Poll, ReadWord, Return, Ready, fsVars
<1>4. FsTypeOK'
  BY <1>1, <1>3 DEF FsTypeOK
<1>5. RootInv'
  BY <1>1, <1>3 DEF RootInv, Parsed, Built
<1>6. CallInv'
  BY <1>1, <1>3 DEF CallInv
<1>7. FileInv'
  <2> PICK d : d = hdds[root.hdd]
    OBVIOUS
  <2> SUFFICES ASSUME call.size > 0, ~ call.starved, NEW i \in DOMAIN d.dir, SmallFile(d, i)'
               PROVE  Reading(d, i)'
    BY <1>3 DEF FileInv
  <2>1. /\ SmallFile(d, i) /\ Piece(d, i)' = Piece(d, i)
        /\ Asked(d.dir[i])' = Asked(d.dir[i])
    BY <1>3, SameFile
  <2>2. Reading(d, i)
    BY <1>1, <2>1 DEF FileInv
  <2> QED BY <1>3, <2>1, <2>2 DEF Reading
<1> QED BY <1>2, <1>4, <1>5, <1>6, <1>7 DEF IInv

LEMMA IdleStep == ASSUME IInv, UNCHANGED vars PROVE IInv'
<1>1. AtaTypeOK /\ Answered /\ FsTypeOK /\ RootInv /\ CallInv /\ FileInv
  BY DEF IInv
<1>2. UNCHANGED <<ports, hdds, ata, request, buf, drive, at, root, call>>
  BY DEF vars, ataVars, ioVars, fsVars
<1>3. AtaTypeOK' /\ Answered'
  BY <1>1, <1>2, DriverKeeps
<1>4. FsTypeOK'
  BY <1>1, <1>2 DEF FsTypeOK
<1>5. RootInv'
  BY <1>1, <1>2 DEF RootInv, Parsed, Built
<1>6. CallInv'
  BY <1>1, <1>2 DEF CallInv
<1>7. FileInv'
  <2> PICK d : d = hdds[root.hdd]
    OBVIOUS
  <2> SUFFICES ASSUME call.size > 0, ~ call.starved, NEW i \in DOMAIN d.dir, SmallFile(d, i)'
               PROVE  Reading(d, i)'
    BY <1>2 DEF FileInv
  <2>1. /\ SmallFile(d, i) /\ Piece(d, i)' = Piece(d, i)
        /\ Asked(d.dir[i])' = Asked(d.dir[i])
    BY <1>2, SameFile
  <2>2. Reading(d, i)
    BY <1>1, <2>1 DEF FileInv
  <2> QED BY <1>2, <2>1, <2>2 DEF Reading
<1> QED BY <1>3, <1>4, <1>5, <1>6, <1>7 DEF IInv

LEMMA IInvInductive == IInv /\ [Next]_vars => IInv'
<1> SUFFICES ASSUME IInv, [Next]_vars PROVE IInv'
  OBVIOUS
<1>1. CASE InitHarddisks \/ TryDisk \/ ParseMbr \/ BuildRoot
  BY <1>1, MountStep
<1>3. ASSUME NEW name \in Name, NEW size \in BufSize, NEW ok \in BOOLEAN,
             ReadFile(name, size, ok)
      PROVE  IInv'
  BY <1>3, ReadFileKeeps
<1>4. CASE Size
  BY <1>4, SizeKeeps
<1>5. ASSUME NEW ok \in BOOLEAN, StartCluster(ok) PROVE IInv'
  BY <1>5, StartClusterKeeps
<1>6. CASE Cluster
  BY <1>6, ClusterKeeps
<1>7. CASE Loop
  BY <1>7, LoopKeeps
<1>8. CASE CopyData
  BY <1>8, CopyDataKeeps
<1>9. CASE NextCluster
  BY <1>9, NextClusterKeeps
<1>10. CASE Stopped \/ UNCHANGED vars
  BY <1>10, IdleStep DEF Stopped
<1>11. CASE Transfer /\ UNCHANGED fsVars
  BY <1>11, TransferStep
<1> QED BY <1>1, <1>3, <1>4, <1>5, <1>6, <1>7, <1>8, <1>9, <1>10, <1>11
        DEF Next, FileSystem

LEMMA SpecIInv == Spec => []IInv
BY InitSatisfiesIInv, IInvInductive, PTL DEF Spec

\* Whatever the sector, the count and the size of a drive: sectors the drive can
\* give, as many as the count register can say, arrive as they were asked for, word by
\* word and in order.  Nothing is said of a drive that is busy or fails on the way, of a
\* longer request, or of the entry of the table that fs.c misreads, and the model
\* shows other words arriving there (harddisk.c:125-166).
THEOREM SectorsDelivered == Spec => []ReadDelivers
<1>1. ASSUME IInv PROVE ReadDelivers
  <2> SUFFICES ASSUME request.n > 0, hdds[request.hdd] # Misread,
                      Delivers(hdds[request.hdd], request.lba, request.n)
               PROVE  Intact
    BY DEF ReadDelivers
  <2>1. Answered /\ request.hdd \in DOMAIN hdds
    BY <1>1 DEF IInv, RootInv
  <2>2. Served
    BY <2>1 DEF Served
  <2> QED BY <2>1, <2>2, ServedIntact
<1> QED BY <1>1, SpecIInv, PTL

\* Whatever drives there are and whatever is on them, busy and failing ones included:
\* what runs behind init_root_filesystem has a FAT16 partition as its root, and one of
\* the first drive found; with a second entry in the table the search never gets past
\* it.  Partition and volume are those of the disk when the drive can give their
\* sectors (fs.c:64-131).
THEOREM RootIsFirstFat16 == Spec => []KernelHasRoot
<1>1. ASSUME IInv PROVE KernelHasRoot
  <2> SUFFICES ASSUME at \in Mounted PROVE KernelHasRoot
    BY DEF KernelHasRoot
  <2>1. FsTypeOK /\ RootInv
    BY <1>1 DEF IInv
  <2>2. at \in Working \ {"mbr"}
    BY <2>1, MountedFacts
  <2>3. root.hdd = 1 /\ root.type = FAT16Type /\ Parsed /\ Built
    BY <2>1, <2>2 DEF RootInv
  <2> QED BY <2>3 DEF KernelHasRoot, Parsed, Built
<1> QED BY <1>1, SpecIInv, PTL

\* Whatever directory, table and boot sector hold, whichever drive is busy or fails and
\* whichever allocation does: read_file writes no more than the caller's buffer holds
\* (fs.c:289-323).
THEOREM ReadFitsBuffer == Spec => []BufferNotOverrun
<1>1. ASSUME IInv PROVE BufferNotOverrun
  <2>1. call.remain \in Int /\ call.copied \in Int /\ call.size \in Nat
    BY <1>1 DEF IInv, FsTypeOK
  <2>2. call.remain >= 0 /\ call.copied + call.remain <= call.size
    BY <1>1 DEF IInv, CallInv
  <2> QED BY <2>1, <2>2 DEF BufferNotOverrun
<1> QED BY <1>1, SpecIInv, PTL

\* On every volume the code can read, one whose sectors are of the drive's size, with a
\* table, with directory and file before the last sector of the partition, on a drive
\* that can give them: what is asked of a file and lies in its first cluster is read
\* from there, whole and nothing else, and the call ends in no panic and no divide error
\* (fs.c:133-138, fs.c:188-323).
THEOREM SmallFilesAreRead == Spec => []SmallFilesRead
<1>1. ASSUME IInv PROVE SmallFilesRead
  <2> SUFFICES ASSUME at \in {"mounted", "panic", "divideError"}, call.size > 0, ~ call.starved,
                      NEW i \in DOMAIN hdds[root.hdd].dir, SmallFile(hdds[root.hdd], i)
               PROVE  at = "mounted" /\ call.got = <<Piece(hdds[root.hdd], i)>>
    BY Zenon DEF SmallFilesRead
  <2>1. FileInv
    BY <1>1 DEF IInv
  <2>2. Reading(hdds[root.hdd], i)
    BY <2>1, Zenon DEF FileInv
  <2> QED BY <2>2 DEF Reading
<1> QED BY <1>1, SpecIInv, PTL
=============================================================================
