----------------------------- MODULE BootProofs -----------------------------
(***************************************************************************)
(* Proofs about the boot: for a disk of any geometry, a file allocation    *)
(* table whose chains end, a directory of any length, any number of        *)
(* segments, and page tables whose two regions overlap in any way that     *)
(* PagesAssumption allows.  The inductive invariant of the boot is that of *)
(* its three stages; a step of one leaves the others alone.                *)
(*                                                                         *)
(* The chain of clusters is a recursive function.  That it is well defined,*)
(* and that an end of it stays its end, is shown by way of the least       *)
(* number that is an exception.                                            *)
(***************************************************************************)
EXTENDS Boot, SequenceTheorems, WellFoundedInduction, TLAPS

(* The address of a sector.                                                *)

LEMMA Division ==
  ASSUME NEW a \in Nat, NEW n \in Nat \ {0}
  PROVE  \E q \in Nat, r \in 0 .. n - 1 :
           q = a \div n /\ r = a % n /\ a = q * n + r
<1>1. PICK q \in Int : q = a \div n
  OBVIOUS
<1>2. PICK r \in Int : r = a % n
  OBVIOUS
<1>3. a = n * q + r
  BY <1>1, <1>2
<1>4. a = q * n + r
  BY <1>3
<1>5. q \in Nat /\ r \in 0 .. n - 1
  BY <1>1, <1>2
<1> QED BY <1>1, <1>2, <1>4, <1>5

\* The drive transfers the sector whose number the two divisions took apart.
LEMMA SectorOfAddress ==
  ASSUME NEW lba \in Nat
  PROVE  SectorAt(ChsOf(lba)) = lba
<1>1. SectorsPerTrack \in Nat \ {0} /\ Heads \in Nat \ {0}
  BY GeometryAssumption
<1>2. PICK q \in Nat, r \in 0 .. SectorsPerTrack - 1 :
        q = lba \div SectorsPerTrack /\ r = lba % SectorsPerTrack /\ lba = q * SectorsPerTrack + r
  BY <1>1, Division
<1>3. PICK c \in Nat, h \in 0 .. Heads - 1 :
        c = q \div Heads /\ h = q % Heads /\ q = c * Heads + h
  BY <1>1, Division
<1>4. ChsOf(lba) = [c |-> c, h |-> h, s |-> r + 1]
  BY <1>2, <1>3 DEF ChsOf
<1>5. r + 1 \in 1 .. SectorsPerTrack
  BY <1>1
<1>6. SectorAt(ChsOf(lba)) = (c * Heads + h) * SectorsPerTrack + (r + 1) - 1
  BY <1>4, <1>5 DEF SectorAt
<1>7. SectorAt(ChsOf(lba)) = q * SectorsPerTrack + (r + 1) - 1
  BY <1>3, <1>6
<1>8. PICK p \in Int : p = q * SectorsPerTrack
  BY <1>1
<1>9. SectorAt(ChsOf(lba)) = p + (r + 1) - 1
  BY <1>7, <1>8, Zenon
<1>10. lba = p + r
  BY <1>2, <1>8, Zenon
<1> QED BY <1>9, <1>10

-----------------------------------------------------------------------------
(* The boot sector.                                                        *)

LEMMA SectorNumbers ==
  /\ BS!First \in Nat /\ BS!Last \in Nat /\ BS!First <= BS!Last
  /\ BS!Buffer = 0 .. BS!Last - BS!First
<1>1. BS!FirstData \in Nat
  BY GeometryAssumption DEF BS!FirstData
<1> QED BY <1>1, GeometryAssumption DEF BS!First, BS!Last, BS!Buffer

LEMMA SectorOfBlock ==
  ASSUME NEW lba \in Nat
  PROVE  BS!SectorAt(BS!ChsOf(lba)) = lba
BY SectorOfAddress DEF ChsOf, SectorAt, BS!ChsOf, BS!SectorAt

\* What the stack is after the pops and pushes of one try.
LEMMA Try2 ==
  ASSUME NEW a \in Nat, NEW c \in Nat
  PROVE  /\ <<c, a>> \o <<>> = <<c, a>>
         /\ SubSeq(<<c, a>>, 3, Len(<<c, a>>)) = <<>>
         /\ <<c, a>>[1] = c /\ <<c, a>>[2] = a /\ <<c, a>> \in Seq(Nat)
         /\ Tail(<<c, a>>) \in Seq(Nat)
<1>1. <<c, a>> \in Seq(Nat) /\ Len(<<c, a>>) = 2 /\ <<c, a>>[1] = c /\ <<c, a>>[2] = a
  OBVIOUS
<1>2. <<c, a>> \o <<>> = <<c, a>>
  BY <1>1, ConcatEmptySeq
<1>3. SubSeq(<<c, a>>, 3, 2) = <<>>
  BY SubSeqEmpty
<1>4. Tail(<<c, a>>) \in Seq(Nat)
  BY <1>1
<1> QED BY <1>1, <1>2, <1>3, <1>4

LEMMA BootSectorInit == BS!Init => BS!IInv
BY SectorNumbers DEF BS!Init, BS!IInv, BS!TypeOK, BS!StackBalanced, BS!Sector, BS!NoSector

LEMMA BootSectorStep == BS!IInv /\ BS!Next => BS!IInv'
<1> SUFFICES ASSUME BS!IInv, BS!Next PROVE BS!IInv'
  OBVIOUS
<1> USE SectorNumbers DEF BS!IInv, BS!TypeOK, BS!StackBalanced, BS!Sector, BS!NoSector
<1>1. CASE BS!Call
  BY <1>1 DEF BS!Call
<1>2. CASE BS!Try
  <2>1. stack1 = <<>> /\ stack1' = <<cx1, ax1>> \o stack1 /\ cx1 \in 0 .. 2 /\ ax1 \in Nat
    BY <1>2 DEF BS!Try
  <2>2. stack1' = <<cx1, ax1>> /\ stack1' \in Seq(Nat)
    BY <2>1, Try2
  <2> QED BY <1>2, <2>1, <2>2 DEF BS!Try
<1>3. CASE BS!Success
  <2>1. PICK c \in 0 .. 2 : stack1 = <<c, ax1>>
    BY <1>3 DEF BS!Success
  <2>2. ax1 \in Nat /\ disk = BS!ChsOf(ax1) /\ bx1 \in BS!Buffer
    BY <1>3 DEF BS!Success
  <2>3. mem1' = [mem1 EXCEPT ![bx1] = ax1] /\ cx1' = c /\ stack1' = <<>>
    <3>1. BS!SectorAt(disk) = ax1
      BY <2>2, SectorOfBlock
    <3>2. cx1' = c /\ SubSeq(stack1, 3, Len(stack1)) = <<>>
      BY <1>3, <2>1, <2>2, Try2 DEF BS!Success
    <3> QED BY <1>3, <3>1, <3>2 DEF BS!Success
  <2>4. CASE ax1 > BS!Last - 1
    <3>1. pc1' = "jumped" /\ ax1' = ax1 /\ bx1' = bx1
      BY <1>3, <2>1, <2>4 DEF BS!Success
    <3> QED BY <2>2, <2>3, <2>4, <3>1
  <2>5. CASE ~(ax1 > BS!Last - 1)
    <3>1. pc1' = "load" /\ ax1' = ax1 + 1 /\ bx1' = bx1 + 1
      BY <1>3, <2>1, <2>5 DEF BS!Success
    <3>2. ax1' \in BS!First .. BS!Last /\ bx1' \in BS!Buffer /\ bx1' = ax1' - BS!First
      BY <2>2, <2>5, <3>1
    <3>3. mem1' \in [BS!Buffer -> (BS!First .. BS!Last) \cup {-1}]
      BY <2>2, <2>3
    <3>4. ASSUME NEW b \in BS!Buffer, b < bx1' PROVE mem1'[b] = BS!First + b
      <4>1. CASE b = bx1
        BY <2>2, <2>3, <4>1
      <4>2. CASE b # bx1
        <5>1. b < bx1
          BY <2>2, <3>1, <3>4, <4>2
        <5> QED BY <2>3, <4>2, <5>1
      <4> QED BY <4>1, <4>2
    <3>5. stack1' \in Seq(Nat) /\ cx1' \in 0 .. 3
      BY <2>3
    <3> QED BY <2>3, <3>1, <3>2, <3>3, <3>4, <3>5
  <2> QED BY <2>4, <2>5
<1>4. CASE BS!Error
  <2>1. disk = BS!ChsOf(ax1) /\ ax1 \in Nat
    BY <1>4 DEF BS!Error
  <2>2. PICK v \in {BS!NoSector, ax1} : mem1' = [mem1 EXCEPT ![bx1] = v]
    BY <1>4, <2>1, SectorOfBlock DEF BS!Error
  <2> QED BY <1>4, <2>2 DEF BS!Error
<1>5. CASE BS!ReadFail
  <2>1. PICK c \in 0 .. 2 : stack1 = <<c, ax1>>
    BY <1>5 DEF BS!ReadFail
  <2>2. ax1 \in Nat /\ c \in Nat
    OBVIOUS
  <2>3. cx1' = c + 1 /\ SubSeq(stack1, 3, Len(stack1)) = <<>> /\ Tail(stack1) \in Seq(Nat)
    BY <1>5, <2>1, <2>2, Try2 DEF BS!ReadFail
  <2>4. ax1' = ax1 /\ UNCHANGED <<bx1, disk, mem1>>
    BY <1>5, <2>1 DEF BS!ReadFail
  <2>5. \/ pc1' = "halted" /\ stack1' \in Seq(Nat)
        \/ pc1' = "try" /\ stack1' = <<>> /\ cx1' \in 0 .. 2
    BY <1>5, <2>1, <2>3 DEF BS!ReadFail
  <2>6. stack1' \in Seq(Nat)
    BY <2>5, EmptySeq
  <2>7. cx1' \in 0 .. 3
    BY <2>3
  <2> QED BY <2>4, <2>5, <2>6, <2>7
<1>6. CASE BS!Over
  BY <1>6 DEF BS!Over, BS!vars
<1> QED BY <1>1, <1>2, <1>3, <1>4, <1>5, <1>6 DEF BS!Next

-----------------------------------------------------------------------------
(* The page tables.                                                        *)

LEMMA PageNumbers ==
  /\ Identity \in Nat \ {0} /\ Kern \in Nat \ {0} /\ Tables \in Nat \ {0}
  /\ KernDir \in Nat /\ KernBlock \in Nat /\ Tab0 \in Nat \ {0} /\ Tab200 \in Nat
  /\ Identity <= KernDir /\ Kern <= Tables /\ KernBlock <= Identity
  /\ Tab0 + KernBlock <= Tab200 /\ Tab0 + Identity <= Tab200 + Tables
BY PagesAssumption

LEMMA PageTablesInit == PT!Init => PT!IInv
BY PageNumbers DEF PT!Init, PT!IInv, PT!TypeOK, PT!Absent, PT!DirIndex, PT!Page

\* A round of a loop that is not its last, and its last.
LEMMA RoundCases ==
  ASSUME NEW from, NEW count \in Nat, NEW to, PT!Round(from, count, to), ecx \in Nat, ecx < count
  PROVE  /\ pc3 = from
         /\ \/ pc3' = from /\ ecx' = ecx + 1 /\ ecx' < count
            \/ pc3' = to /\ ecx' = 0 /\ ecx = count - 1
BY DEF PT!Round

LEMMA PageTablesStep == PT!IInv /\ PT!Next => PT!IInv'
<1> SUFFICES ASSUME PT!IInv, PT!Next PROVE PT!IInv'
  OBVIOUS
<1> USE PageNumbers DEF PT!Absent, PT!DirIndex, PT!Page
<1>0. ecx \in Nat
  BY DEF PT!IInv, PT!TypeOK
<1>t. table \in [PT!Page -> Int]
  BY DEF PT!IInv, PT!TypeOK
<1>1. CASE PT!SetIdentityMapping
  <2>1. /\ pc3 = "identityEntries" /\ ecx < Identity
        /\ \/ pc3' = "identityEntries" /\ ecx' = ecx + 1 /\ ecx' < Identity
           \/ pc3' = "kernelEntries" /\ ecx' = 0 /\ ecx = Identity - 1
    BY <1>0, <1>1, RoundCases DEF PT!IInv, PT!SetIdentityMapping, PT!Round
  <2>2. pageDir' = [pageDir EXCEPT ![ecx] = Tab0 + ecx] /\ table' = table
    BY <1>1 DEF PT!SetIdentityMapping
  <2>3. PT!TypeOK'
    BY <1>0, <2>1, <2>2 DEF PT!IInv, PT!TypeOK
  <2>4. ASSUME NEW b \in 0 .. Identity - 1, pc3' # "identityEntries" \/ b < ecx'
        PROVE  pageDir'[b] = Tab0 + b
    <3>1. b \in PT!DirIndex /\ pageDir'[b] = IF b = ecx THEN Tab0 + ecx ELSE pageDir[b]
      BY <1>0, <2>2 DEF PT!IInv, PT!TypeOK
    <3>2. b = ecx \/ b < ecx
      BY <1>0, <2>1, <2>4
    <3> QED BY <2>1, <3>1, <3>2 DEF PT!IInv
  <2> QED BY <2>1, <2>2, <2>3, <2>4 DEF PT!IInv
<1>2. CASE PT!SetKernelMapping
  <2>1. /\ pc3 = "kernelEntries" /\ ecx < Kern
        /\ \/ pc3' = "kernelEntries" /\ ecx' = ecx + 1 /\ ecx' < Kern
           \/ pc3' = "identityTables" /\ ecx' = 0 /\ ecx = Kern - 1
    BY <1>0, <1>2, RoundCases DEF PT!IInv, PT!SetKernelMapping, PT!Round
  <2>2. pageDir' = [pageDir EXCEPT ![KernDir + ecx] = Tab200 + ecx] /\ table' = table
    BY <1>2 DEF PT!SetKernelMapping
  <2>3. PT!TypeOK'
    BY <1>0, <2>1, <2>2 DEF PT!IInv, PT!TypeOK
  <2>4. \A b \in 0 .. Identity - 1 : pageDir'[b] = Tab0 + b
    BY <1>0, <2>1, <2>2 DEF PT!IInv, PT!TypeOK
  <2>5. ASSUME NEW b \in 0 .. Kern - 1, pc3' # "kernelEntries" \/ b < ecx'
        PROVE  pageDir'[KernDir + b] = Tab200 + b
    <3>1. pageDir'[KernDir + b] = IF b = ecx THEN Tab200 + ecx ELSE pageDir[KernDir + b]
      BY <1>0, <2>2 DEF PT!IInv, PT!TypeOK
    <3>2. b = ecx \/ b < ecx
      BY <1>0, <2>1, <2>5
    <3> QED BY <2>1, <3>1, <3>2 DEF PT!IInv
  <2> QED BY <2>1, <2>2, <2>3, <2>4, <2>5 DEF PT!IInv
<1>3. CASE PT!FillIdentityTable
  <2>1. /\ pc3 = "identityTables" /\ ecx < Identity
        /\ \/ pc3' = "identityTables" /\ ecx' = ecx + 1 /\ ecx' < Identity
           \/ pc3' = "kernelTables" /\ ecx' = 0 /\ ecx = Identity - 1
    BY <1>0, <1>3, RoundCases DEF PT!IInv, PT!FillIdentityTable, PT!Round
  <2>2. table' = [table EXCEPT ![Tab0 + ecx] = ecx] /\ pageDir' = pageDir
    BY <1>3 DEF PT!FillIdentityTable
  <2>3. PT!TypeOK'
    <3>1. table' \in [PT!Page -> Int]
      <4>1. \A v \in Int, x \in PT!Page : [table EXCEPT ![x] = v] \in [PT!Page -> Int]
        BY <1>t
      <4>2. ecx \in Int /\ Tab0 + ecx \in PT!Page
        BY <1>0, <2>1
      <4> QED BY <2>2, <4>1, <4>2, Zenon
    <3>2. ecx' \in 0 .. Identity + Tables
      BY <1>0, <2>1
    <3>3. pc3' = "kernelTables" => Tab200 + ecx' \in PT!Page
      BY <2>1
    <3> QED BY <2>1, <2>2, <3>1, <3>2, <3>3 DEF PT!IInv, PT!TypeOK
  <2>4. ASSUME NEW b \in 0 .. KernBlock - 1, pc3' # "identityTables" \/ b < ecx'
        PROVE  table'[Tab0 + b] = b
    <3>1. table'[Tab0 + b] = IF b = ecx THEN ecx ELSE table[Tab0 + b]
      BY <1>0, <2>2 DEF PT!IInv, PT!TypeOK
    <3>2. b = ecx \/ b < ecx
      BY <1>0, <2>1, <2>4
    <3> QED BY <2>1, <3>1, <3>2 DEF PT!IInv
  <2> QED BY <2>1, <2>2, <2>3, <2>4 DEF PT!IInv
<1>4. CASE PT!FillKernelTable
  <2>1. /\ pc3 = "kernelTables" /\ ecx < Tables
        /\ \/ pc3' = "kernelTables" /\ ecx' = ecx + 1 /\ ecx' < Tables
           \/ pc3' = "paging" /\ ecx' = 0 /\ ecx = Tables - 1
    BY <1>0, <1>4, RoundCases DEF PT!IInv, PT!FillKernelTable, PT!Round
  <2>2. table' = [table EXCEPT ![Tab200 + ecx] = KernBlock + ecx] /\ pageDir' = pageDir
    BY <1>4 DEF PT!FillKernelTable
  <2>3. PT!TypeOK'
    <3>1. table' \in [PT!Page -> Int]
      <4>1. \A v \in Int, x \in PT!Page : [table EXCEPT ![x] = v] \in [PT!Page -> Int]
        BY <1>t
      <4>2. KernBlock + ecx \in Int /\ Tab200 + ecx \in PT!Page
        BY <1>0, <2>1
      <4> QED BY <2>2, <4>1, <4>2, Zenon
    <3>2. ecx' \in 0 .. Identity + Tables
      BY <1>0, <2>1
    <3>3. pc3' = "kernelTables" => Tab200 + ecx' \in PT!Page
      BY <1>0, <2>1
    <3> QED BY <2>1, <2>2, <3>1, <3>2, <3>3 DEF PT!IInv, PT!TypeOK
  <2>4. ASSUME NEW b \in 0 .. KernBlock - 1 PROVE table'[Tab0 + b] = b
    <3>1. Tab0 + b < Tab200 /\ Tab0 + b \in PT!Page
      OBVIOUS
    <3>2. table'[Tab0 + b] = table[Tab0 + b]
      <4>1. Tab0 + b # Tab200 + ecx
        BY <1>0, <3>1
      <4> QED BY <1>t, <2>2, <3>1, <4>1
    <3>3. table[Tab0 + b] = b
      BY <2>1 DEF PT!IInv
    <3> QED BY <3>2, <3>3
  <2>5. ASSUME NEW b \in 0 .. Kern - 1, pc3' # "kernelTables" \/ b < ecx'
        PROVE  table'[Tab200 + b] = KernBlock + b
    <3>1. table'[Tab200 + b] = IF b = ecx THEN KernBlock + ecx ELSE table[Tab200 + b]
      BY <1>0, <2>2 DEF PT!IInv, PT!TypeOK
    <3>2. b = ecx \/ b < ecx
      BY <1>0, <2>1, <2>5
    <3> QED BY <2>1, <3>1, <3>2 DEF PT!IInv
  <2> QED BY <2>1, <2>2, <2>3, <2>4, <2>5 DEF PT!IInv
<1>5. CASE PT!Running
  BY <1>5 DEF PT!Running, PT!vars, PT!IInv, PT!TypeOK
<1> QED BY <1>1, <1>2, <1>3, <1>4, <1>5 DEF PT!Next

LEMMA PageTablesGood == PT!IInv => PT!KernelSpaceMapped /\ PT!LowMemoryIdentity
<1> SUFFICES ASSUME PT!IInv, pc3 = "paging"
             PROVE  /\ \A b \in 0 .. Kern - 1 : PT!Translate(KernDir + b) = KernBlock + b
                    /\ \A b \in 0 .. KernBlock - 1 : PT!Translate(b) = b
  BY DEF PT!KernelSpaceMapped, PT!LowMemoryIdentity
<1>0. /\ \A b \in 0 .. Identity - 1 : pageDir[b] = Tab0 + b
      /\ \A b \in 0 .. Kern - 1 : pageDir[KernDir + b] = Tab200 + b
      /\ \A b \in 0 .. KernBlock - 1 : table[Tab0 + b] = b
      /\ \A b \in 0 .. Kern - 1 : table[Tab200 + b] = KernBlock + b
  BY DEF PT!IInv
<1>1. ASSUME NEW b \in 0 .. Kern - 1 PROVE PT!Translate(KernDir + b) = KernBlock + b
  <2>1. pageDir[KernDir + b] = Tab200 + b /\ table[Tab200 + b] = KernBlock + b
    BY <1>0
  <2>2. Tab200 + b # -1
    BY PageNumbers
  <2> QED BY <2>1, <2>2 DEF PT!Translate, PT!Absent
<1>2. ASSUME NEW b \in 0 .. KernBlock - 1 PROVE PT!Translate(b) = b
  <2>1. b \in 0 .. Identity - 1 /\ Tab0 + b # -1
    BY PageNumbers
  <2>2. pageDir[b] = Tab0 + b /\ table[Tab0 + b] = b
    BY <1>0, <2>1
  <2> QED BY <2>1, <2>2 DEF PT!Translate, PT!Absent
<1> QED BY <1>1, <1>2

-----------------------------------------------------------------------------
(* The chain of clusters.                                                  *)

\* The least element of a set of numbers, which stands in for induction here.
Less == {pair \in Nat \X Nat : pair[1] < pair[2]}

LEMMA LeastNumber ==
  ASSUME NEW S \in SUBSET Nat, S # {}
  PROVE  \E m \in S : \A k \in S : m <= k
<1>0. OpToRel(<, Nat) = Less
  BY DEF OpToRel, Less
<1>1. \A x, y \in Nat : <<y, x>> \in Less <=> y < x
  BY DEF Less
<1>2. PICK x \in S : \A y \in S : <<y, x>> \notin Less
  BY <1>0, NatLessThanWellFounded, WFMin
<1>3. \A y \in S : ~(y < x) /\ x \in Nat /\ y \in Nat
  BY <1>1, <1>2
<1>4. \A y \in S : x <= y
  BY <1>3
<1> QED BY <1>4

Entry == ST!Cluster \cup {ST!EndOfFile}

LEMMA ClusterNumbers ==
  /\ Clusters \in Nat \ {0} /\ ST!Cluster \subseteq 2 .. 4079 /\ ST!EndOfFile \notin ST!Cluster
  /\ ST!EndOfFile = 4095
BY LoadAssumption DEF ST!Cluster, ST!EndOfFile

\* The positions of the recursion, one after the other.
Follows(at, f, c, n) ==
  /\ at \in [0 .. n -> Entry]
  /\ at[0] = c
  /\ \A k \in 1 .. n : at[k] = IF at[k - 1] \in ST!Cluster THEN f[at[k - 1]] ELSE ST!EndOfFile

LEMMA FollowsExists ==
  ASSUME NEW c \in ST!Cluster, NEW f \in [ST!Cluster -> Entry], NEW n \in Nat
  PROVE  \E at : Follows(at, f, c, n)
<1> DEFINE Bad == {m \in Nat : ~ \E at : Follows(at, f, c, m)}
<1>1. ASSUME n \in Bad PROVE FALSE
  <2>1. PICK m \in Bad : \A k \in Bad : m <= k
    BY <1>1, LeastNumber
  <2>2. CASE m = 0
    <3>1. Follows([k \in 0 .. 0 |-> c], f, c, 0)
      BY DEF Follows, Entry
    <3> QED BY <2>1, <2>2, <3>1
  <2>3. CASE m # 0
    <3>1. m \in Nat /\ m - 1 \in Nat /\ m - 1 \notin Bad
      BY <2>1, <2>3
    <3>2. PICK at : Follows(at, f, c, m - 1)
      BY <3>1
    <3> DEFINE last == IF at[m - 1] \in ST!Cluster THEN f[at[m - 1]] ELSE ST!EndOfFile
               d == [k \in 0 .. m |-> IF k = m THEN last ELSE at[k]]
    <3>3. at[m - 1] \in Entry
      BY <3>1, <3>2 DEF Follows
    <3>4. last \in Entry
      BY <3>3 DEF Entry
    <3> HIDE DEF last
    <3>5. Follows(d, f, c, m)
      <4>1. d \in [0 .. m -> Entry] /\ d[0] = c
        BY <2>3, <3>1, <3>2, <3>4 DEF Follows
      <4>2. ASSUME NEW k \in 1 .. m
            PROVE  d[k] = IF d[k - 1] \in ST!Cluster THEN f[d[k - 1]] ELSE ST!EndOfFile
        <5>1. CASE k = m
          <6>1. d[k] = last /\ d[k - 1] = at[m - 1]
            BY <3>1, <5>1
          <6> QED BY <6>1 DEF last
        <5>2. CASE k # m
          <6>1. k \in 1 .. m - 1 /\ d[k] = at[k] /\ d[k - 1] = at[k - 1]
            BY <3>1, <5>2
          <6> QED BY <3>2, <6>1 DEF Follows
        <5> QED BY <5>1, <5>2
      <4> QED BY <4>1, <4>2 DEF Follows
    <3> QED BY <2>1, <3>5
  <2> QED BY <2>2, <2>3
<1> QED BY <1>1

\* The recursive function Follow is well defined.
LEMMA FollowFollows ==
  ASSUME NEW c \in ST!Cluster, NEW f \in [ST!Cluster -> Entry]
  PROVE  Follows(ST!Follow(f, c), f, c, Clusters)
<1>1. Clusters \in Nat
  BY ClusterNumbers
<1>2. PICK at : Follows(at, f, c, Clusters)
  BY <1>1, FollowsExists
<1> DEFINE Def(g) == [k \in 0 .. Clusters |->
                        IF k = 0 THEN c
                        ELSE IF g[k - 1] \in ST!Cluster THEN f[g[k - 1]] ELSE ST!EndOfFile]
           ch == CHOOSE g : g = Def(g)
<1>3. at = Def(at)
  BY <1>1, <1>2 DEF Follows
<1>4. ch = Def(ch)
  BY <1>3
<1>5. ST!Follow(f, c) = ch
  BY DEF ST!Follow
<1> HIDE DEF ch
<1>6. /\ DOMAIN ch = 0 .. Clusters /\ ch[0] = c
      /\ \A k \in 1 .. Clusters :
           ch[k] = IF ch[k - 1] \in ST!Cluster THEN f[ch[k - 1]] ELSE ST!EndOfFile
  BY <1>1, <1>4
<1>7. ASSUME NEW k \in 0 .. Clusters PROVE ch[k] \in Entry
  <2>1. CASE k = 0
    BY <1>6, <2>1 DEF Entry
  <2>2. CASE k # 0
    <3>1. k \in 1 .. Clusters
      BY <1>1, <2>2
    <3> QED BY <1>6, <3>1 DEF Entry
  <2> QED BY <2>1, <2>2
<1>8. ch \in [0 .. Clusters -> Entry]
  <2>1. ch = [k \in 0 .. Clusters |-> ch[k]]
    BY <1>4
  <2> QED BY <1>7, <2>1
<1> QED BY <1>5, <1>6, <1>8 DEF Follows

\* A chain that starts at no cluster starts there nonetheless.
LEMMA FollowElsewhere ==
  ASSUME NEW f, NEW c, c \notin ST!Cluster
  PROVE  ST!Follow(f, c)[0] = c
<1>1. Clusters \in Nat
  BY ClusterNumbers
<1> DEFINE Def(g) == [k \in 0 .. Clusters |->
                        IF k = 0 THEN c
                        ELSE IF g[k - 1] \in ST!Cluster THEN f[g[k - 1]] ELSE ST!EndOfFile]
           ch == CHOOSE g : g = Def(g)
           at == [k \in 0 .. Clusters |-> IF k = 0 THEN c ELSE ST!EndOfFile]
<1>2. at = Def(at)
  <2>1. ASSUME NEW k \in 0 .. Clusters, k # 0 PROVE at[k - 1] \notin ST!Cluster
    <3>1. k - 1 \in 0 .. Clusters
      BY <1>1, <2>1
    <3> QED BY <3>1, ClusterNumbers
  <2> HIDE DEF at
  <2>2. \A k \in 0 .. Clusters : at[k] = IF k = 0 THEN c ELSE ST!EndOfFile
    BY DEF at
  <2>3. \A k \in 0 .. Clusters : Def(at)[k] = at[k]
    BY <2>1, <2>2
  <2>4. at = [k \in 0 .. Clusters |-> at[k]] /\ Def(at) = [k \in 0 .. Clusters |-> Def(at)[k]]
    BY DEF at
  <2> QED BY <2>3, <2>4
<1>3. ch = Def(ch)
  BY <1>2
<1>4. ST!Follow(f, c) = ch
  BY DEF ST!Follow
<1> HIDE DEF ch
<1>5. ch[0] = c
  BY <1>1, <1>3
<1> QED BY <1>4, <1>5

\* A chain that has ended has ended for good.
LEMMA EndIsEnd ==
  ASSUME NEW f, NEW c, NEW at, Follows(at, f, c, Clusters),
         NEW k \in 0 .. Clusters, at[k] = ST!EndOfFile, NEW j \in k .. Clusters
  PROVE  at[j] = ST!EndOfFile
<1> DEFINE Bad == {m \in Nat : k <= m /\ m <= Clusters /\ at[m] # ST!EndOfFile}
<1>0. Clusters \in Nat
  BY ClusterNumbers
<1>1. ASSUME at[j] # ST!EndOfFile PROVE FALSE
  <2>0. j \in Bad /\ Bad \in SUBSET Nat
    BY <1>0, <1>1
  <2>1. PICK m \in Bad : \A i \in Bad : m <= i
    BY <2>0, LeastNumber
  <2>2. m \in Nat /\ k <= m /\ m <= Clusters /\ at[m] # ST!EndOfFile /\ m # k
    BY <2>1
  <2>3. m - 1 \in Nat /\ k <= m - 1 /\ m - 1 <= Clusters /\ ~(m <= m - 1) /\ m \in 1 .. Clusters
    BY <1>0, <2>2
  <2>4. m - 1 \notin Bad
    BY <2>1, <2>3
  <2>5. at[m - 1] = ST!EndOfFile
    BY <2>3, <2>4
  <2>6. at[m] = ST!EndOfFile
    BY <2>3, <2>5, ClusterNumbers DEF Follows
  <2> QED BY <2>2, <2>6
<1> QED BY <1>1

\* Two entries x and y of 12 bits as three bytes, and the entry cut out of two
\* of these.
Twelve == 0 .. 4095
Byte0(x) == x % 256
Byte1(x, y) == (x \div 256) + 16 * (y % 16)
Byte2(y) == y \div 16
Cut(low, high, pow) == ((low + 256 * high) \div pow) % 4096

LEMMA TwoEntries ==
  ASSUME NEW x \in Twelve, NEW y \in Twelve
  PROVE  Cut(Byte0(x), Byte1(x, y), 1) = x /\ Cut(Byte1(x, y), Byte2(y), 16) = y
BY SMT DEF Twelve, Byte0, Byte1, Byte2, Cut

\* The entry of a cluster is put together from two bytes of the table.
LEMMA EntryOfCluster ==
  ASSUME NEW f \in [ST!Cluster -> Entry], NEW c \in ST!Cluster
  PROVE  ST!NextCluster(f, c) = f[c]
<1>1. c \in Nat /\ Entry \subseteq Twelve /\ 0 \in Twelve
  BY ClusterNumbers DEF Entry, Twelve
<1>2. PICK e : e = [d \in Nat |-> IF d \in ST!Cluster THEN f[d] ELSE 0]
  OBVIOUS
<1>3. f[c] = e[c]
  BY <1>1, <1>2
<1>4. PICK q \in Nat : c = 2 * q \/ c = 2 * q + 1
  <2>1. /\ c \div 2 \in Nat
        /\ c = 2 * (c \div 2) \/ c = 2 * (c \div 2) + 1
    BY <1>1, SMT
  <2> QED BY <2>1
<1>5. ASSUME NEW d \in Nat PROVE e[d] \in Twelve
  <2>1. CASE d \in ST!Cluster
    <3>1. f[d] \in Entry
      BY <2>1
    <3>2. e[d] = f[d]
      BY <1>2, <2>1
    <3> QED BY <1>1, <3>1, <3>2, Zenon
  <2>2. CASE d \notin ST!Cluster
    <3>1. e[d] = 0
      BY <1>2, <2>2
    <3> QED BY <1>1, <3>1
  <2> QED BY <2>1, <2>2
<1>6. PICK x \in Twelve, y \in Twelve : x = e[2 * q] /\ y = e[2 * q + 1]
  <2>1. 2 * q \in Nat /\ 2 * q + 1 \in Nat
    OBVIOUS
  <2> QED BY <1>5, <2>1
<1>7. ASSUME NEW i \in Nat
      PROVE  /\ i % 3 = 0 => ST!FatByte(f, i) = Byte0(e[2 * (i \div 3)])
             /\ i % 3 = 1 => ST!FatByte(f, i) = Byte1(e[2 * (i \div 3)], e[2 * (i \div 3) + 1])
             /\ i % 3 = 2 => ST!FatByte(f, i) = Byte2(e[2 * (i \div 3) + 1])
  <2>1. 2 * (i \div 3) \in Nat /\ 2 * (i \div 3) + 1 \in Nat
    BY SMT
  <2> QED BY <1>2, <2>1 DEF ST!FatByte, Byte0, Byte1, Byte2
<1>8. /\ ST!FatByte(f, 3 * q) = Byte0(x)
      /\ ST!FatByte(f, 3 * q + 1) = Byte1(x, y)
      /\ ST!FatByte(f, 3 * q + 2) = Byte2(y)
  <2>1. /\ 2 * ((3 * q) \div 3) = 2 * q /\ (3 * q) % 3 = 0
        /\ 2 * ((3 * q + 1) \div 3) = 2 * q /\ (3 * q + 1) % 3 = 1
        /\ 2 * ((3 * q + 2) \div 3) = 2 * q /\ (3 * q + 2) % 3 = 2
    BY SMT
  <2>2. 3 * q \in Nat /\ 3 * q + 1 \in Nat /\ 3 * q + 2 \in Nat
    OBVIOUS
  <2>3. ST!FatByte(f, 3 * q) = Byte0(x)
    BY <1>6, <1>7, <2>1, <2>2, Zenon
  <2>4. ST!FatByte(f, 3 * q + 1) = Byte1(x, y)
    BY <1>6, <1>7, <2>1, <2>2, Zenon
  <2>5. ST!FatByte(f, 3 * q + 2) = Byte2(y)
    BY <1>6, <1>7, <2>1, <2>2, Zenon
  <2> QED BY <2>3, <2>4, <2>5
<1>9. ASSUME NEW o, NEW shift, NEW pow, o = (12 * c) \div 8, shift = (12 * c) % 8, pow = 2 ^ shift
      PROVE  ST!NextCluster(f, c) = Cut(ST!FatByte(f, o), ST!FatByte(f, o + 1), pow)
  BY <1>9 DEF ST!NextCluster, Cut
<1>10. CASE c = 2 * q
  <2>1. 3 * q = (12 * c) \div 8 /\ 0 = (12 * c) % 8 /\ 1 = 2 ^ 0
    BY <1>10, SMT
  <2>2. ST!NextCluster(f, c) = Cut(ST!FatByte(f, 3 * q), ST!FatByte(f, 3 * q + 1), 1)
    BY <1>9, <2>1, Zenon
  <2>3. ST!NextCluster(f, c) = Cut(Byte0(x), Byte1(x, y), 1)
    BY <1>8, <2>2, Zenon
  <2> QED BY <1>3, <1>6, <1>10, <2>3, TwoEntries, Zenon
<1>11. CASE c = 2 * q + 1
  <2>1. 3 * q + 1 = (12 * c) \div 8 /\ 4 = (12 * c) % 8 /\ 16 = 2 ^ 4 /\ 3 * q + 2 = 3 * q + 1 + 1
    BY <1>11, SMT
  <2>2. ST!NextCluster(f, c) = Cut(ST!FatByte(f, 3 * q + 1), ST!FatByte(f, 3 * q + 2), 16)
    BY <1>9, <2>1, Zenon
  <2>3. ST!NextCluster(f, c)
          = Cut(Byte1(x, y), Byte2(y), 16)
    BY <1>8, <2>2, Zenon
  <2> QED BY <1>3, <1>6, <1>11, <2>3, TwoEntries, Zenon
<1> QED BY <1>4, <1>10, <1>11

-----------------------------------------------------------------------------
(* The stack of the second stage.                                          *)

LEMMA Push ==
  ASSUME NEW s \in Seq(Int), NEW n \in Nat, NEW t \in Seq(Int), Len(t) = n
  PROVE  /\ t \o s \in Seq(Int) /\ Len(t \o s) = n + Len(s)
         /\ \A i \in 1 .. n : (t \o s)[i] = t[i]
         /\ \A i \in 1 .. Len(s) : (t \o s)[n + i] = s[i]
<1>1. /\ t \o s \in Seq(Int) /\ Len(t \o s) = n + Len(s)
      /\ \A i \in 1 .. n + Len(s) : (t \o s)[i] = IF i <= n THEN t[i] ELSE s[i - n]
  BY ConcatProperties
<1>2. Len(s) \in Nat
  OBVIOUS
<1>3. ASSUME NEW i \in 1 .. n PROVE (t \o s)[i] = t[i]
  BY <1>1, <1>2
<1>4. ASSUME NEW i \in 1 .. Len(s) PROVE (t \o s)[n + i] = s[i]
  <2>1. n + i \in 1 .. n + Len(s) /\ ~(n + i <= n) /\ n + i - n = i
    BY <1>2
  <2> QED BY <1>1, <2>1
<1> QED BY <1>1, <1>3, <1>4

LEMMA Pop ==
  ASSUME NEW s \in Seq(Int), NEW n \in Nat, n <= Len(s)
  PROVE  /\ SubSeq(s, n + 1, Len(s)) \in Seq(Int)
         /\ Len(SubSeq(s, n + 1, Len(s))) = Len(s) - n
         /\ \A i \in 1 .. Len(s) - n : SubSeq(s, n + 1, Len(s))[i] = s[n + i]
<1>1. Len(s) \in Nat /\ \A i \in n + 1 .. Len(s) : s[i] \in Int
  BY ElementOfSeq
<1>2. /\ SubSeq(s, n + 1, Len(s)) \in Seq(Int)
      /\ Len(SubSeq(s, n + 1, Len(s))) = IF n + 1 <= Len(s) THEN Len(s) - (n + 1) + 1 ELSE 0
      /\ \A i \in 1 .. Len(s) - (n + 1) + 1 : SubSeq(s, n + 1, Len(s))[i] = s[n + 1 + i - 1]
  BY <1>1, SubSeqProperties
<1>3. ASSUME NEW i \in 1 .. Len(s) - n PROVE SubSeq(s, n + 1, Len(s))[i] = s[n + i]
  <2>1. i \in 1 .. Len(s) - (n + 1) + 1 /\ n + 1 + i - 1 = n + i
    BY <1>1
  <2> QED BY <1>2, <2>1
<1> QED BY <1>1, <1>2, <1>3

LEMMA PushTwo ==
  ASSUME NEW a \in Int, NEW b \in Int
  PROVE  LET t == <<a, b>> \o <<>> IN
         t \in Seq(Int) /\ t = <<a, b>> /\ t[1] = a /\ t[2] = b
<1>1. <<a, b>> \in Seq(Int) /\ <<a, b>>[1] = a /\ <<a, b>>[2] = b
  OBVIOUS
<1>2. <<a, b>> \o <<>> = <<a, b>>
  BY <1>1, ConcatEmptySeq
<1> QED BY <1>1, <1>2

LEMMA PushThree ==
  ASSUME NEW a \in Int, NEW b \in Int, NEW c \in Int, NEW s \in Seq(Int)
  PROVE  LET t == <<a, b, c>> \o s IN
         /\ t \in Seq(Int) /\ Len(t) = Len(s) + 3
         /\ t[1] = a /\ t[2] = b /\ t[3] = c
         /\ Len(s) >= 1 => t[4] = s[1]
         /\ Len(s) >= 2 => t[5] = s[2]
<1>1. <<a, b, c>> \in Seq(Int) /\ Len(<<a, b, c>>) = 3
      /\ <<a, b, c>>[1] = a /\ <<a, b, c>>[2] = b /\ <<a, b, c>>[3] = c
  OBVIOUS
<1>2. PICK t : t = <<a, b, c>> \o s
  OBVIOUS
<1>3. /\ t \in Seq(Int) /\ Len(t) = 3 + Len(s)
      /\ \A i \in 1 .. 3 : t[i] = <<a, b, c>>[i]
      /\ \A i \in 1 .. Len(s) : t[3 + i] = s[i]
  BY <1>1, <1>2, Push
<1>4. Len(s) \in Nat
  OBVIOUS
<1>5. t[1] = a /\ t[2] = b /\ t[3] = c
  BY <1>1, <1>3
<1>6. (Len(s) >= 1 => t[3 + 1] = s[1]) /\ (Len(s) >= 2 => t[3 + 2] = s[2])
  BY <1>3, <1>4
<1>7. t[4] = t[3 + 1] /\ t[5] = t[3 + 2]
  OBVIOUS
<1> QED BY <1>2, <1>3, <1>4, <1>5, <1>6, <1>7

\* A sequence of five is the tuple of its elements.
LEMMA FiveWords ==
  ASSUME NEW t \in Seq(Int), Len(t) = 5
  PROVE  t = <<t[1], t[2], t[3], t[4], t[5]>>
<1>1. t[1] \in Int /\ t[2] \in Int /\ t[3] \in Int /\ t[4] \in Int /\ t[5] \in Int
  <2>1. \A i \in 1 .. 5 : t[i] \in Int
    BY ElementOfSeq
  <2> QED BY <2>1
<1>2. PICK u : u = <<t[1], t[2], t[3], t[4], t[5]>>
  OBVIOUS
<1>3. u \in Seq(Int) /\ Len(u) = 5 /\ u[1] = t[1] /\ u[2] = t[2] /\ u[3] = t[3] /\ u[4] = t[4] /\ u[5] = t[5]
  BY <1>1, <1>2
<1>4. \A i \in 1 .. Len(t) : t[i] = u[i]
  BY <1>3
<1> QED BY <1>2, <1>3, <1>4, SeqEqual

-----------------------------------------------------------------------------
(* The second stage.                                                       *)

LEMMA LoadNumbers ==
  /\ FatSectors \in Nat \ {0} /\ RootSectors \in Nat \ {0}
  /\ KernelSlot \in Nat /\ SegSlots \in Nat \ {0} /\ KernelSlot < SegSlots
  /\ FatSectors + RootSectors <= KernelSlot
  /\ Clusters \in Nat \ {0} /\ Files \in Nat \ {0}
  /\ ST!FirstData = 1 + 2 * FatSectors + RootSectors
  /\ ST!Slot = 0 .. KernelSlot + Clusters + FatSectors - 1
BY GeometryAssumption, LoadAssumption DEF ST!FirstData, ST!Slot

LEMMA FirstSegment ==
  ASSUME es = 0, NEW b \in Int
  PROVE  es * SegSlots + b = b
<1>1. SegSlots \in Int
  BY LoadNumbers
<1>2. 0 * SegSlots = 0
  BY <1>1
<1> QED BY <1>2

\* Where the three loops put a sector, and the sector they ask for.
LEMMA FatSlot ==
  ASSUME NEW c \in 0 .. FatSectors, c # 0
  PROVE  /\ FatSectors - c \in Nat /\ FatSectors - c < FatSectors
         /\ FatSectors - c < KernelSlot /\ FatSectors - c \in ST!Slot /\ 1 + (FatSectors - c) \in Nat
BY LoadNumbers

LEMMA RootSlot ==
  ASSUME NEW c \in 0 .. RootSectors, c # 0, NEW b, b = FatSectors + RootSectors - c
  PROVE  /\ b \in Nat /\ b >= FatSectors /\ b < KernelSlot /\ b \in ST!Slot
         /\ b \in FatSectors .. KernelSlot - 1 /\ RootSectors - c = b - FatSectors
         /\ RootSectors - c + 1 = b - FatSectors + 1
         /\ 1 + FatSectors + b \in Nat
BY LoadNumbers

LEMMA SectorOfCluster ==
  ASSUME NEW d \in ST!Cluster, NEW a, a = d + ST!FirstData - 2
  PROVE  a = ST!FirstData + d - 2 /\ a \in Nat
<1>1. d \in Nat /\ d >= 2
  BY ClusterNumbers
<1>2. PICK first \in Nat : first = ST!FirstData
  BY LoadNumbers
<1>3. a = d + first - 2
  BY <1>2
<1>4. a = first + d - 2 /\ a \in Nat
  BY <1>1, <1>3
<1> QED BY <1>2, <1>4

LEMMA SectorLoaded ==
  ASSUME NEW lba \in Nat
  PROVE  ST!SectorAt(ST!ChsOf(lba)) = lba
BY SectorOfAddress DEF ChsOf, SectorAt, ST!ChsOf, ST!SectorAt

\* Whatever the block number, what a drive transfers has a number.
LEMMA SectorIsNumber ==
  ASSUME NEW lba \in Int
  PROVE  ST!SectorAt(ST!ChsOf(lba)) \in Int
<1>1. SectorsPerTrack \in Nat \ {0} /\ Heads \in Nat \ {0}
  BY GeometryAssumption
<1>2. PICK q \in Int, r \in Int : q = lba \div SectorsPerTrack /\ r = lba % SectorsPerTrack
  BY <1>1
<1>3. PICK c \in Int, h \in Int : c = q \div Heads /\ h = q % Heads
  BY <1>1
<1>4. ST!ChsOf(lba) = [c |-> c, h |-> h, s |-> r + 1]
  BY <1>2, <1>3 DEF ST!ChsOf
<1>5. \/ ST!SectorAt(ST!ChsOf(lba)) = (c * Heads + h) * SectorsPerTrack + (r + 1) - 1
      \/ ST!SectorAt(ST!ChsOf(lba)) = -1
  BY <1>4 DEF ST!SectorAt
<1>6. PICK p \in Int : p = (c * Heads + h) * SectorsPerTrack
  BY <1>1
<1>7. \/ ST!SectorAt(ST!ChsOf(lba)) = p + (r + 1) - 1
      \/ ST!SectorAt(ST!ChsOf(lba)) = -1
  BY <1>5, <1>6, Zenon
<1> QED BY <1>7

\* The kernel's entry is the one the search stops at.
LEMMA EntryFound ==
  ASSUME NEW e \in DOMAIN dir, DOMAIN dir = 0 .. Files - 1, ST!IsKernel(e),
         \A d \in 0 .. e - 1 : ~ST!IsKernel(d)
  PROVE  ST!KernelEntry = e
<1>1. ASSUME NEW x \in DOMAIN dir, ST!IsKernel(x), \A d \in 0 .. x - 1 : ~ST!IsKernel(d)
      PROVE  x = e
  <2>1. x \in Nat /\ e \in Nat
    BY LoadNumbers
  <2>2. ~(x < e) /\ ~(e < x)
    BY <1>1, <2>1
  <2> QED BY <2>1, <2>2
<1> QED BY <1>1 DEF ST!KernelEntry

\* The disk is only read.
LEMMA DiskStays ==
  ASSUME fat' = fat, dir' = dir
  PROVE  ST!KernelChain' = ST!KernelChain
BY DEF ST!KernelChain, ST!KernelEntry, ST!IsKernel

LEMMA SecondStageInit == ST!Init => ST!IInv
<1> SUFFICES ASSUME ST!Init PROVE ST!IInv
  OBVIOUS
<1>1. /\ pc2 = "fat" /\ ax2 = 1 /\ bx2 = 0 /\ cx2 = FatSectors /\ dx = -2 /\ es = 0
      /\ stack2 = <<>> /\ mem2 = [s \in ST!Slot |-> -1] /\ failed = FALSE
  BY DEF ST!Init, ST!Junk, ST!NoSector
<1>2. ST!AtFat(cx2, bx2)
  <2>1. ST!FatIn(mem2, bx2)
    BY <1>1 DEF ST!FatIn
  <2>2. ST!NoKernel(mem2)
    BY <1>1, LoadNumbers DEF ST!NoKernel, ST!NoSector
  <2> QED BY <1>1, <2>1, <2>2, LoadNumbers DEF ST!AtFat
<1>3. /\ mem2 \in [ST!Slot -> Int] /\ stack2 \in Seq(Int) /\ dx \in ST!Word
      /\ ax2 \in Int /\ cx2 \in Int /\ failed \in BOOLEAN
  <2>1. mem2 \in [ST!Slot -> Int] /\ ax2 \in Int /\ cx2 \in Int
    BY <1>1, LoadNumbers
  <2>2. dx \in ST!Word
    BY <1>1 DEF ST!Word, ST!Returns, ST!FatReturn, ST!RootReturn, ST!KernelReturn
  <2>3. stack2 \in Seq(Int) /\ failed \in BOOLEAN
    BY <1>1, EmptySeq
  <2> QED BY <2>1, <2>2, <2>3
<1>4. ST!KernelInOrder
  BY <1>1 DEF ST!KernelInOrder
<1> QED BY <1>1, <1>2, <1>3, <1>4 DEF ST!Init, ST!IInv

\* Numbers that are no return address.
LEMMA Words ==
  /\ \A n \in Nat : n \in ST!Word
  /\ ST!Junk \in ST!Word /\ ST!Word \subseteq Int /\ ST!Returns \subseteq Int
  /\ ST!Returns = {ST!FatReturn, ST!RootReturn, ST!KernelReturn}
  /\ ST!FatReturn # ST!RootReturn /\ ST!FatReturn # ST!KernelReturn /\ ST!RootReturn # ST!KernelReturn
  /\ \A w \in ST!Word : w \notin ST!Returns
BY DEF ST!Word, ST!Junk, ST!Returns, ST!FatReturn, ST!RootReturn, ST!KernelReturn

LEMMA LoadFatStep == ST!IInv /\ ST!LoadFat => ST!IInv'
<1> SUFFICES ASSUME ST!IInv, ST!LoadFat PROVE ST!IInv'
  OBVIOUS
<1>1. /\ pc2 = "fat" /\ ~failed /\ stack2 = <<>> /\ ST!AtFat(cx2, bx2) /\ ax2 \in Int /\ dx \in ST!Word
  BY DEF ST!IInv, ST!LoadFat
<1>2. /\ cx2 \in 0 .. FatSectors /\ bx2 = FatSectors - cx2 /\ ax2 = 1 + bx2 /\ es = 0
      /\ ST!FatIn(mem2, bx2) /\ ST!NoKernel(mem2)
  BY <1>1 DEF ST!AtFat
<1>3. UNCHANGED <<dx, es, mem2, fat, dir, failed>>
  BY DEF ST!LoadFat
<1>4. CASE cx2 = 0
  <2>1. /\ pc2' = "root" /\ bx2' = FatSectors /\ cx2' = RootSectors /\ ax2' = 1 + 2 * FatSectors
        /\ stack2' = stack2
    BY <1>4 DEF ST!LoadFat
  <2>2. ST!FatIn(mem2', FatSectors) /\ ST!NoKernel(mem2')
    <3>1. bx2 = FatSectors
      BY <1>2, <1>4, LoadNumbers
    <3> QED BY <1>2, <1>3, <3>1
  <2>3. ST!RootIn(mem2', RootSectors - cx2')
    BY <2>1, LoadNumbers DEF ST!RootIn
  <2>4. ST!AtRoot(cx2, RootSectors - cx2)'
    <3>1. /\ cx2' \in 0 .. RootSectors /\ bx2' = FatSectors + RootSectors - cx2'
          /\ ax2' = 1 + FatSectors + bx2'
      BY <2>1, LoadNumbers
    <3> QED BY <1>2, <1>3, <2>2, <2>3, <3>1 DEF ST!AtRoot
  <2>5. ax2' \in Int /\ cx2' \in Int
    BY <2>1, LoadNumbers
  <2> QED BY <1>1, <1>3, <2>1, <2>4, <2>5 DEF ST!IInv, ST!KernelInOrder
<1>5. CASE cx2 # 0
  <2>1. /\ pc2' = "try" /\ ax2' = ax2 /\ cx2' = 0 /\ bx2' = bx2
        /\ stack2' = <<cx2, ST!FatReturn>> \o <<>>
    BY <1>1, <1>5 DEF ST!LoadFat, ST!Call
  <2>2. cx2 \in Int /\ ST!FatReturn \in Int /\ cx2 \in ST!Word
    BY <1>2, Words
  <2>3. /\ stack2' \in Seq(Int) /\ stack2' = <<cx2, ST!FatReturn>>
        /\ stack2'[1] = cx2 /\ stack2'[2] = ST!FatReturn
    BY <2>1, <2>2, PushTwo
  <2>4. ST!AtFat(stack2[1], bx2)'
    BY <1>2, <1>3, <2>1, <2>3 DEF ST!AtFat
  <2>5. ST!Calling(stack2[2], stack2[1], dx)'
    BY <1>5, <2>3, <2>4 DEF ST!Calling
  <2>6. stack2' = <<stack2'[1], stack2'[2]>> /\ stack2'[1] \in ST!Word /\ stack2'[2] \in ST!Returns
    BY <2>2, <2>3, Words
  <2> QED BY <1>1, <1>3, <2>1, <2>3, <2>5, <2>6 DEF ST!IInv, ST!KernelInOrder
<1> QED BY <1>4, <1>5

LEMMA LoadRootDirStep == ST!IInv /\ ST!LoadRootDir => ST!IInv'
<1> SUFFICES ASSUME ST!IInv, ST!LoadRootDir PROVE ST!IInv'
  OBVIOUS
<1>1. /\ pc2 = "root" /\ ~failed /\ stack2 = <<>> /\ ST!AtRoot(cx2, RootSectors - cx2)
      /\ ax2 \in Int /\ dx \in ST!Word
  BY DEF ST!IInv, ST!LoadRootDir
<1>2. /\ cx2 \in 0 .. RootSectors /\ bx2 = FatSectors + RootSectors - cx2
      /\ ax2 = 1 + FatSectors + bx2 /\ es = 0
      /\ ST!FatIn(mem2, FatSectors) /\ ST!RootIn(mem2, RootSectors - cx2) /\ ST!NoKernel(mem2)
  BY <1>1 DEF ST!AtRoot
<1>3. UNCHANGED <<bx2, dx, es, mem2, fat, dir, failed>>
  BY DEF ST!LoadRootDir
<1>4. CASE cx2 = 0
  <2>1. pc2' = "search" /\ UNCHANGED <<ax2, cx2, stack2>>
    BY <1>4 DEF ST!LoadRootDir
  <2>2. ST!RootIn(mem2', RootSectors)
    <3>1. RootSectors - cx2 = RootSectors
      BY <1>4, LoadNumbers
    <3> QED BY <1>2, <1>3, <3>1
  <2>3. cx2' \in ST!Word
    BY <1>2, <2>1, Words
  <2> QED BY <1>1, <1>2, <1>3, <2>1, <2>2, <2>3 DEF ST!IInv, ST!KernelInOrder
<1>5. CASE cx2 # 0
  <2>1. /\ pc2' = "try" /\ ax2' = ax2 /\ cx2' = 0
        /\ stack2' = <<cx2, ST!RootReturn>> \o <<>>
    BY <1>1, <1>5 DEF ST!LoadRootDir, ST!Call
  <2>2. cx2 \in Int /\ ST!RootReturn \in Int /\ cx2 \in ST!Word
    BY <1>2, Words
  <2>3. /\ stack2' \in Seq(Int) /\ stack2' = <<cx2, ST!RootReturn>>
        /\ stack2'[1] = cx2 /\ stack2'[2] = ST!RootReturn
    BY <2>1, <2>2, PushTwo
  <2>4. ST!AtRoot(stack2[1], RootSectors - stack2[1])'
    BY <1>2, <1>3, <2>1, <2>3 DEF ST!AtRoot
  <2>5. ST!Calling(stack2[2], stack2[1], dx)'
    BY <1>5, <2>3, <2>4 DEF ST!Calling
  <2>6. stack2' = <<stack2'[1], stack2'[2]>> /\ stack2'[1] \in ST!Word /\ stack2'[2] \in ST!Returns
    BY <2>2, <2>3, Words
  <2> QED BY <1>1, <1>3, <2>1, <2>3, <2>5, <2>6 DEF ST!IInv, ST!KernelInOrder
<1> QED BY <1>4, <1>5

LEMMA NextOfTableStep == ST!IInv /\ ST!NextOfTable => ST!IInv'
<1> SUFFICES ASSUME ST!IInv, ST!NextOfTable PROVE ST!IInv'
  OBVIOUS
<1>1. /\ cx2' = cx2 - 1 /\ ax2' = ax2 + 1 /\ bx2' = bx2 + 1
      /\ UNCHANGED <<dx, es, stack2, mem2, fat, dir, failed>>
  BY DEF ST!NextOfTable
<1>2. ~failed /\ stack2 = <<>> /\ cx2 # 0 /\ ax2' \in Int /\ cx2' \in Int
  BY <1>1 DEF ST!IInv, ST!NextOfTable
<1>3. CASE pc2 = "fatReturn"
  <2>1. pc2' = "fat" /\ ST!AtFat(cx2, bx2 + 1)
    BY <1>3 DEF ST!IInv, ST!NextOfTable
  <2>2. ST!AtFat(cx2, bx2)'
    <3>1. /\ cx2 \in 0 .. FatSectors /\ bx2 = FatSectors - cx2 /\ ax2 = 1 + bx2 /\ es = 0
          /\ ST!FatIn(mem2, bx2 + 1) /\ ST!NoKernel(mem2)
      BY <2>1 DEF ST!AtFat
    <3>2. cx2' \in 0 .. FatSectors /\ bx2' = FatSectors - cx2' /\ ax2' = 1 + bx2'
      BY <1>1, <1>2, <3>1, LoadNumbers
    <3> QED BY <1>1, <3>1, <3>2 DEF ST!AtFat
  <2> QED BY <1>1, <1>2, <2>1, <2>2 DEF ST!IInv, ST!KernelInOrder
<1>4. CASE pc2 = "rootReturn"
  <2>1. pc2' = "root" /\ ST!AtRoot(cx2, RootSectors - cx2 + 1)
    BY <1>4 DEF ST!IInv, ST!NextOfTable
  <2>2. ST!AtRoot(cx2, RootSectors - cx2)'
    <3>1. /\ cx2 \in 0 .. RootSectors /\ bx2 = FatSectors + RootSectors - cx2
          /\ ax2 = 1 + FatSectors + bx2 /\ es = 0 /\ ST!FatIn(mem2, FatSectors)
          /\ ST!RootIn(mem2, RootSectors - cx2 + 1) /\ ST!NoKernel(mem2)
      BY <2>1 DEF ST!AtRoot
    <3>2. /\ cx2' \in 0 .. RootSectors /\ bx2' = FatSectors + RootSectors - cx2'
          /\ ax2' = 1 + FatSectors + bx2' /\ RootSectors - cx2' = RootSectors - cx2 + 1
      BY <1>1, <1>2, <3>1, LoadNumbers
    <3> QED BY <1>1, <3>1, <3>2 DEF ST!AtRoot
  <2> QED BY <1>1, <1>2, <2>1, <2>2 DEF ST!IInv, ST!KernelInOrder
<1> QED BY <1>3, <1>4 DEF ST!NextOfTable

LEMMA LoadKernelFileStep == ST!IInv /\ ST!LoadKernelFile => ST!IInv'
<1> SUFFICES ASSUME ST!IInv, ST!LoadKernelFile PROVE ST!IInv'
  OBVIOUS
<1>1. /\ pc2 = "search" /\ ~failed /\ stack2 = <<>> /\ cx2 \in ST!Word /\ es = 0
      /\ ST!FatIn(mem2, FatSectors) /\ ST!RootIn(mem2, RootSectors) /\ ST!NoKernel(mem2)
      /\ UNCHANGED <<ax2, cx2, es, stack2, mem2, fat, dir, failed>>
  BY DEF ST!IInv, ST!LoadKernelFile
<1>2. CASE ~ \E e \in DOMAIN dir : ST!IsKernel(e)
  <2>1. pc2' = "halted" /\ UNCHANGED <<bx2, dx>>
    BY <1>2 DEF ST!LoadKernelFile
  <2> QED BY <1>1, <2>1 DEF ST!IInv, ST!KernelInOrder
<1>3. CASE \E e \in DOMAIN dir : ST!IsKernel(e)
  <2>1. PICK e \in DOMAIN dir :
          /\ ST!IsKernel(e) /\ \A d \in 0 .. e - 1 : ~ST!IsKernel(d)
          /\ dx' = dir[e].start /\ pc2' = "kernel" /\ bx2' = KernelSlot
    BY <1>3 DEF ST!LoadKernelFile
  <2>2. /\ fat \in [ST!Cluster -> Entry]
        /\ dir \in [0 .. Files - 1 -> [match : {9, 10}, start : ST!Cluster]]
    BY DEF ST!IInv, Entry
  <2>3. dx' \in ST!Cluster /\ ST!KernelEntry = e
    BY <2>1, <2>2, EntryFound
  <2>4. Follows(ST!KernelChain, fat, dx', Clusters)
    <3>1. ST!KernelChain = ST!Follow(fat, dx')
      BY <2>1, <2>3 DEF ST!KernelChain
    <3> QED BY <2>2, <2>3, <3>1, FollowFollows
  <2>5. ST!KernelChain[0] = dx'
    BY <2>4 DEF Follows
  <2>6. ST!KernelIn(mem2, ST!KernelChain, 0)
    BY <1>1 DEF ST!NoKernel, ST!KernelIn
  <2>7. ST!KernelChain' = ST!KernelChain
    BY <1>1, DiskStays
  <2>8. /\ 0 \in 0 .. Clusters - 1 /\ es' \in Nat /\ bx2' \in 0 .. SegSlots - 1
        /\ es' * SegSlots + bx2' = KernelSlot + 0
    BY <1>1, <2>1, LoadNumbers
  <2>9. ST!AtKernel(0, dx, 0)'
    BY <1>1, <2>3, <2>5, <2>6, <2>7, <2>8 DEF ST!AtKernel
  <2>10. dx' \in ST!Word
    BY <2>3, ClusterNumbers, Words
  <2> QED BY <1>1, <2>1, <2>8, <2>9, <2>10 DEF ST!IInv, ST!KernelInOrder
<1> QED BY <1>2, <1>3

LEMMA LoadClusterStep == ST!IInv /\ ST!LoadCluster => ST!IInv'
<1> SUFFICES ASSUME ST!IInv, ST!LoadCluster PROVE ST!IInv'
  OBVIOUS
<1>1. /\ pc2 = "kernel" /\ ~failed /\ stack2 = <<>> /\ cx2 \in ST!Word /\ dx \in ST!Word
      /\ UNCHANGED <<bx2, dx, es, mem2, fat, dir, failed>>
  BY DEF ST!IInv, ST!LoadCluster
<1>2. PICK k \in 0 .. Clusters - 1 : ST!AtKernel(k, dx, k)
  BY <1>1 DEF ST!IInv
<1>3. /\ pc2' = "try" /\ ax2' = dx + ST!FirstData - 2 /\ cx2' = 0
      /\ stack2' = <<cx2, ST!KernelReturn>> \o <<>>
  BY <1>1 DEF ST!LoadCluster, ST!Call
<1>4. cx2 \in Int /\ dx \in Int /\ ST!KernelReturn \in Int
  BY <1>1, Words
<1>5. /\ stack2' \in Seq(Int) /\ stack2' = <<cx2, ST!KernelReturn>>
      /\ stack2'[1] = cx2 /\ stack2'[2] = ST!KernelReturn
  BY <1>3, <1>4, PushTwo
<1>6. ST!AtKernel(k, dx, k)'
  <2>1. ST!KernelChain' = ST!KernelChain
    BY <1>1, DiskStays
  <2> QED BY <1>1, <1>2, <2>1 DEF ST!AtKernel
<1>7. ST!Calling(stack2[2], stack2[1], dx)'
  BY <1>1, <1>3, <1>5, <1>6 DEF ST!Calling
<1>8. stack2' = <<stack2'[1], stack2'[2]>> /\ stack2'[1] \in ST!Word /\ stack2'[2] \in ST!Returns
  BY <1>1, <1>5, Words
<1>9. ax2' \in Int
  BY <1>3, <1>4, LoadNumbers
<1> QED BY <1>1, <1>3, <1>5, <1>7, <1>8, <1>9 DEF ST!IInv, ST!KernelInOrder

LEMMA TryStep == ST!IInv /\ ST!Try => ST!IInv'
<1> SUFFICES ASSUME ST!IInv, ST!Try PROVE ST!IInv'
  OBVIOUS
<1>1. /\ pc2 = "try" /\ pc2' = "int13" /\ dx' = ST!Junk
      /\ stack2' = <<cx2, ax2, dx>> \o stack2
      /\ UNCHANGED <<ax2, bx2, cx2, es, mem2, fat, dir, failed>>
  BY DEF ST!Try
<1>2. cx2 \in Int /\ ax2 \in Int /\ dx \in ST!Word /\ dx \in Int /\ stack2 \in Seq(Int)
  BY Words DEF ST!IInv
<1>3. /\ stack2' \in Seq(Int) /\ Len(stack2') = Len(stack2) + 3
      /\ stack2'[1] = cx2 /\ stack2'[2] = ax2 /\ stack2'[3] = dx
      /\ Len(stack2) >= 1 => stack2'[4] = stack2[1]
      /\ Len(stack2) >= 2 => stack2'[5] = stack2[2]
  BY <1>1, <1>2, PushThree
<1>4. dx' \in ST!Word /\ Len(stack2) \in Nat
  BY <1>1, <1>2, Words
<1>5. CASE failed
  <2>1. Len(stack2) >= 2 /\ stack2[1] \in ST!Word /\ stack2[2] \in ST!Word
    BY <1>1, <1>5 DEF ST!IInv
  <2>2. Len(stack2) >= 1 /\ Len(stack2') >= 5
    BY <1>3, <1>4, <2>1
  <2>3. stack2'[3] \in ST!Word /\ stack2'[4] \in ST!Word /\ stack2'[5] \in ST!Word
    BY <1>2, <1>3, <2>1, <2>2
  <2>4. \A i \in 3 .. 5 : stack2'[i] \in ST!Word
    BY <2>3
  <2> QED BY <1>1, <1>3, <1>4, <1>5, <2>2, <2>4 DEF ST!IInv, ST!KernelInOrder
<1>6. CASE ~failed
  <2>1. /\ cx2 = 0 /\ stack2 = <<stack2[1], stack2[2]>> /\ stack2[1] \in ST!Word
        /\ stack2[2] \in ST!Returns /\ ST!Calling(stack2[2], stack2[1], dx)
    BY <1>1, <1>6 DEF ST!IInv
  <2>2. Len(stack2) = 2
    BY <2>1
  <2>3. stack2'[4] = stack2[1] /\ stack2'[5] = stack2[2] /\ Len(stack2') = 5
    BY <1>3, <2>2
  <2>4. stack2' = <<stack2'[1], stack2'[2], stack2'[3], stack2'[4], stack2'[5]>>
    BY <1>3, <2>3, FiveWords
  <2>5. stack2' = <<0, ax2', stack2'[3], stack2'[4], stack2'[5]>>
    BY <1>1, <1>3, <2>1, <2>4
  <2>6. ST!Calling(stack2[5], stack2[4], stack2[3])'
    <3>1. ST!KernelChain' = ST!KernelChain
      BY <1>1, DiskStays
    <3>2. PICK p, c, d : p = stack2[2] /\ c = stack2[1] /\ d = dx /\ ST!Calling(p, c, d)
      BY <2>1
    <3>3. p = stack2'[5] /\ c = stack2'[4] /\ d = stack2'[3]
      BY <1>3, <2>3, <3>2
    <3>4. CASE p = ST!FatReturn /\ c # 0 /\ ST!AtFat(c, bx2)
      BY <1>1, <3>3, <3>4 DEF ST!Calling, ST!AtFat
    <3>5. CASE p = ST!RootReturn /\ c # 0 /\ ST!AtRoot(c, RootSectors - c)
      BY <1>1, <3>3, <3>5 DEF ST!Calling, ST!AtRoot
    <3>6. CASE /\ p = ST!KernelReturn /\ ax2 = d + ST!FirstData - 2
               /\ \E k \in 0 .. Clusters - 1 : ST!AtKernel(k, d, k)
      BY <1>1, <3>1, <3>3, <3>6 DEF ST!Calling, ST!AtKernel
    <3> QED BY <3>2, <3>4, <3>5, <3>6 DEF ST!Calling
  <2>7. stack2'[3] \in ST!Word /\ stack2'[4] \in ST!Word /\ stack2'[5] \in ST!Returns
    BY <1>2, <1>3, <2>1, <2>3
  <2> QED BY <1>1, <1>3, <1>4, <1>6, <2>5, <2>6, <2>7 DEF ST!IInv, ST!KernelInOrder
<1> QED BY <1>5, <1>6

LEMMA ErrorStep == ST!IInv /\ ST!Error => ST!IInv'
<1> SUFFICES ASSUME ST!IInv, ST!Error PROVE ST!IInv'
  OBVIOUS
<1>1. /\ pc2 = "int13" /\ failed' = TRUE /\ cx2' = stack2[1] + 1
      /\ UNCHANGED <<bx2, dx, es, mem2, fat, dir>>
  BY DEF ST!Error
<1>2. /\ stack2 \in Seq(Int) /\ ax2 \in Int /\ dx \in ST!Word
      /\ Len(stack2) >= 5 /\ stack2[3] \in ST!Word /\ stack2[4] \in ST!Word
  <2>1. stack2 \in Seq(Int) /\ ax2 \in Int /\ dx \in ST!Word
    BY DEF ST!IInv
  <2>2. CASE failed
    BY <1>1, <2>1, <2>2 DEF ST!IInv
  <2>3. CASE ~failed
    <3>1. /\ stack2 = <<0, ax2, stack2[3], stack2[4], stack2[5]>>
          /\ stack2[3] \in ST!Word /\ stack2[4] \in ST!Word
      BY <1>1, <2>3 DEF ST!IInv
    <3>2. Len(stack2) = 5
      BY <3>1
    <3> QED BY <2>1, <3>1, <3>2
  <2> QED BY <2>2, <2>3
<1>3. Len(stack2) \in Nat /\ stack2[1] \in Int /\ stack2[2] \in Int
  BY <1>2, ElementOfSeq
<1>4. cx2' \in Int
  BY <1>1, <1>3
<1>5. CASE cx2' = 3
  <2>1. pc2' = "halted" /\ stack2' = Tail(stack2) /\ ax2' = ax2
    BY <1>5 DEF ST!Error
  <2>2. stack2' \in Seq(Int)
    <3>1. stack2 # <<>>
      BY <1>2
    <3> QED BY <1>2, <2>1, <3>1, HeadTailProperties
  <2> QED BY <1>1, <1>2, <1>4, <2>1, <2>2 DEF ST!IInv, ST!KernelInOrder
<1>6. CASE cx2' # 3
  <2>1. pc2' = "try" /\ ax2' = stack2[2] /\ stack2' = SubSeq(stack2, 2 + 1, Len(stack2))
    BY <1>6 DEF ST!Error
  <2>2. /\ stack2' \in Seq(Int) /\ Len(stack2') = Len(stack2) - 2
        /\ \A i \in 1 .. Len(stack2) - 2 : stack2'[i] = stack2[2 + i]
    BY <1>2, <1>3, <2>1, Pop
  <2>3. Len(stack2') >= 2 /\ stack2'[1] = stack2[3] /\ stack2'[2] = stack2[4]
    BY <1>2, <1>3, <2>2
  <2> QED BY <1>1, <1>2, <1>3, <1>4, <2>1, <2>2, <2>3 DEF ST!IInv, ST!KernelInOrder
<1> QED BY <1>5, <1>6

LEMMA OverStep == ST!IInv /\ UNCHANGED vars2 => ST!IInv'
<1> SUFFICES ASSUME ST!IInv, UNCHANGED vars2 PROVE ST!IInv'
  OBVIOUS
<1>1. UNCHANGED <<pc2, ax2, bx2, cx2, dx, es, stack2, mem2, fat, dir, failed>>
  BY DEF vars2
<1>2. ST!KernelChain' = ST!KernelChain
  BY <1>1, DiskStays
<1>3. /\ ST!AtFat(cx2, bx2) => ST!AtFat(cx2, bx2)'
      /\ ST!AtFat(cx2, bx2 + 1) => ST!AtFat(cx2, bx2 + 1)'
      /\ ST!AtRoot(cx2, RootSectors - cx2) => ST!AtRoot(cx2, RootSectors - cx2)'
      /\ ST!AtRoot(cx2, RootSectors - cx2 + 1) => ST!AtRoot(cx2, RootSectors - cx2 + 1)'
  BY <1>1 DEF ST!AtFat, ST!AtRoot
<1>4. /\ ST!Calling(stack2[2], stack2[1], dx) => ST!Calling(stack2[2], stack2[1], dx)'
      /\ ST!Calling(stack2[5], stack2[4], stack2[3]) => ST!Calling(stack2[5], stack2[4], stack2[3])'
  BY <1>1, <1>2 DEF ST!Calling, ST!AtFat, ST!AtRoot, ST!AtKernel
<1>5. /\ (\E k \in 0 .. Clusters - 1 : ST!AtKernel(k, dx, k))
           => (\E k \in 0 .. Clusters - 1 : ST!AtKernel(k, dx, k))'
      /\ (\E k \in 0 .. Clusters - 1 : ST!AtKernel(k, dx, k + 1))
           => (\E k \in 0 .. Clusters - 1 : ST!AtKernel(k, dx, k + 1))'
  BY <1>1, <1>2 DEF ST!AtKernel
<1>6. ST!KernelInOrder => ST!KernelInOrder'
  BY <1>1 DEF ST!KernelInOrder, ST!KernelEntry, ST!IsKernel
<1>7. /\ (ax2 \in Int /\ cx2 \in Int /\ dx \in ST!Word /\ stack2 \in Seq(Int))'
      /\ (mem2 \in [ST!Slot -> Int] /\ failed \in BOOLEAN)'
      /\ (fat \in [ST!Cluster -> ST!Cluster \cup {ST!EndOfFile}])'
      /\ (\A c \in ST!Cluster : ST!ChainEnds(fat, c))'
      /\ (dir \in [0 .. Files - 1 -> [match : {9, 10}, start : ST!Cluster]])'
  BY <1>1 DEF ST!IInv
<1>8. pc2' \in {"try", "int13"} => ST!IInv'
  BY <1>1, <1>4, <1>7 DEF ST!IInv, ST!KernelInOrder
<1>9. pc2' \notin {"try", "int13"} => ST!IInv'
  BY <1>1, <1>3, <1>5, <1>6, <1>7 DEF ST!IInv
<1> QED BY <1>8, <1>9

\* The segment and the offset behind the sector at es:bx.
LEMMA NextSlot ==
  ASSUME NEW e \in Nat, NEW b \in 0 .. SegSlots - 1, NEW e2, NEW b2,
         b2 = (b + 1) % SegSlots, e2 = IF b2 = 0 THEN e + 1 ELSE e
  PROVE  e2 \in Nat /\ b2 \in 0 .. SegSlots - 1 /\ e2 * SegSlots + b2 = e * SegSlots + b + 1
<1>1. SegSlots \in Nat \ {0}
  BY LoadNumbers
<1>2. PICK p \in Int : p = e * SegSlots
  BY <1>1
<1>3. CASE b + 1 = SegSlots
  <2>1. b2 = 0
    BY <1>1, <1>3
  <2>2. e2 = e + 1
    BY <2>1
  <2>3. e2 * SegSlots = e * SegSlots + SegSlots
    BY <1>1, <2>2
  <2> QED BY <1>1, <1>2, <1>3, <2>1, <2>2, <2>3
<1>4. CASE b + 1 # SegSlots
  <2>1. b + 1 \in 1 .. SegSlots - 1
    BY <1>1, <1>4
  <2>2. b2 = b + 1 /\ e2 = e
    BY <1>1, <2>1
  <2> QED BY <1>1, <1>2, <2>1, <2>2
<1> QED BY <1>3, <1>4

LEMMA NextOfKernelStep == ST!IInv /\ ST!NextOfKernel => ST!IInv'
<1> SUFFICES ASSUME ST!IInv, ST!NextOfKernel PROVE ST!IInv'
  OBVIOUS
<1>1. /\ pc2 = "kernelReturn" /\ ~failed /\ stack2 = <<>> /\ ax2' = ST!Junk /\ cx2' = ST!Junk
      /\ UNCHANGED <<stack2, mem2, fat, dir, failed>>
  BY DEF ST!IInv, ST!NextOfKernel
<1>2. PICK k \in 0 .. Clusters - 1 : ST!AtKernel(k, dx, k + 1)
  BY <1>1 DEF ST!IInv
<1>3. /\ dx = ST!KernelChain[k] /\ \A i \in 0 .. k : ST!KernelChain[i] \in ST!Cluster
      /\ es \in Nat /\ bx2 \in 0 .. SegSlots - 1 /\ es * SegSlots + bx2 = KernelSlot + k
      /\ ST!FatIn(mem2, FatSectors) /\ ST!RootIn(mem2, RootSectors)
      /\ ST!KernelIn(mem2, ST!KernelChain, k + 1)
  BY <1>2 DEF ST!AtKernel
<1>4. /\ fat \in [ST!Cluster -> Entry] /\ dx \in ST!Word /\ k \in Nat
      /\ \A c \in ST!Cluster : ST!ChainEnds(fat, c)
  BY DEF ST!IInv, Entry
<1>5. ST!KernelChain' = ST!KernelChain
  BY <1>1, DiskStays
<1>6. PICK c0 : c0 = dir[ST!KernelEntry].start /\ ST!KernelChain = ST!Follow(fat, c0)
  BY DEF ST!KernelChain
<1>7. dx \in ST!Cluster
  BY <1>3, <1>4
<1>8. c0 \in ST!Cluster /\ Follows(ST!KernelChain, fat, c0, Clusters)
  <2>1. ST!KernelChain[0] \in ST!Cluster
    BY <1>3, <1>4
  <2>2. c0 \in ST!Cluster
    BY <1>6, <2>1, FollowElsewhere
  <2> QED BY <1>4, <1>6, <2>2, FollowFollows
<1>9. ST!KernelChain[Clusters] = ST!EndOfFile
  BY <1>4, <1>6, <1>8 DEF ST!ChainEnds
<1>10. PICK c : c = fat[dx] /\ ST!NextCluster(fat, dx) = c /\ c \in Entry
  BY <1>4, <1>7, EntryOfCluster
<1>11. k + 1 \in 0 .. Clusters /\ ST!KernelChain[k + 1] = c
  <2>1. k + 1 \in 1 .. Clusters /\ k + 1 - 1 = k
    BY <1>4, LoadNumbers
  <2> QED BY <1>3, <1>7, <1>8, <1>10, <2>1 DEF Follows
<1>12. ax2' \in ST!Word /\ cx2' \in ST!Word /\ ax2' \in Int /\ cx2' \in Int
  BY <1>1, Words
<1>13. CASE c > 4079
  <2>1. pc2' = "kernelLoaded" /\ UNCHANGED <<dx, bx2, es>>
    BY <1>10, <1>13 DEF ST!NextOfKernel
  <2>2. c = ST!EndOfFile
    BY <1>10, <1>13, ClusterNumbers DEF Entry
  <2>3. ASSUME NEW i \in 0 .. Clusters - 1
        PROVE  mem2[KernelSlot + i] =
                 IF ST!KernelChain[i] = ST!EndOfFile THEN ST!NoSector
                 ELSE ST!FirstData + ST!KernelChain[i] - 2
    <3>1. CASE i <= k
      <4>1. ST!KernelChain[i] \in ST!Cluster /\ i < k + 1
        BY <1>3, <1>4, <3>1
      <4>2. ST!KernelChain[i] # ST!EndOfFile
        BY <4>1, ClusterNumbers
      <4> QED BY <1>3, <4>1, <4>2 DEF ST!KernelIn
    <3>2. CASE ~(i <= k)
      <4>1. i \in k + 1 .. Clusters /\ ~(i < k + 1)
        BY <1>4, <3>2, LoadNumbers
      <4>2. ST!KernelChain[i] = ST!EndOfFile
        BY <1>8, <1>11, <2>2, <4>1, EndIsEnd
      <4> QED BY <1>3, <4>1, <4>2 DEF ST!KernelIn
    <3> QED BY <3>1, <3>2
  <2>4. ST!KernelInOrder'
    <3>1. (ST!Follow(fat, dir[ST!KernelEntry].start))' = ST!KernelChain
      BY <1>5 DEF ST!KernelChain
    <3>2. /\ \A i \in 0 .. FatSectors - 1 : mem2'[i] = 1 + i
          /\ \A i \in 0 .. RootSectors - 1 : mem2'[FatSectors + i] = 1 + 2 * FatSectors + i
      BY <1>1, <1>3 DEF ST!FatIn, ST!RootIn
    <3> QED BY <1>1, <2>3, <3>1, <3>2 DEF ST!KernelInOrder
  <2> QED BY <1>1, <1>12, <2>1, <2>4 DEF ST!IInv
<1>14. CASE ~(c > 4079)
  <2>1. /\ pc2' = "kernel" /\ dx' = c /\ bx2' = (bx2 + 1) % SegSlots
        /\ es' = IF bx2' = 0 THEN es + 1 ELSE es
    BY <1>10, <1>14 DEF ST!NextOfKernel
  <2>2. c \in ST!Cluster
    BY <1>10, <1>14, ClusterNumbers DEF Entry
  <2>3. k + 1 \in 0 .. Clusters - 1
    <3>1. k + 1 # Clusters
      BY <1>9, <1>11, <2>2, ClusterNumbers
    <3> QED BY <1>11, <3>1, LoadNumbers
  <2>4. es' \in Nat /\ bx2' \in 0 .. SegSlots - 1 /\ es' * SegSlots + bx2' = es * SegSlots + bx2 + 1
    BY <1>3, <2>1, NextSlot
  <2>5. es' * SegSlots + bx2' = KernelSlot + (k + 1)
    <3>1. es' * SegSlots + bx2' = KernelSlot + k + 1
      BY <1>3, <2>4, Zenon
    <3> QED BY <1>4, <3>1, LoadNumbers
  <2>6. \A i \in 0 .. k + 1 : ST!KernelChain[i] \in ST!Cluster
    <3>1. \A i \in 0 .. k + 1 : i \in 0 .. k \/ i = k + 1
      BY <1>4
    <3> QED BY <1>3, <1>11, <2>2, <3>1
  <2>7. ST!AtKernel(k + 1, dx, k + 1)'
    BY <1>1, <1>3, <1>5, <1>11, <2>1, <2>3, <2>4, <2>5, <2>6 DEF ST!AtKernel
  <2>8. dx' \in ST!Word
    BY <2>1, <2>2, ClusterNumbers, Words
  <2> QED BY <1>1, <1>12, <2>1, <2>3, <2>7, <2>8 DEF ST!IInv, ST!KernelInOrder
<1> QED BY <1>13, <1>14

\* One more sector of a part of memory is loaded; the others stay.
LEMMA OneMore ==
  ASSUME NEW m \in [ST!Slot -> Int], NEW s \in ST!Slot, NEW v \in Int, NEW m2,
         m2 = [m EXCEPT ![s] = v]
  PROVE  /\ m2 \in [ST!Slot -> Int]
         /\ (s >= FatSectors /\ ST!FatIn(m, FatSectors)) => ST!FatIn(m2, FatSectors)
         /\ (s < FatSectors /\ ST!FatIn(m, s) /\ v = 1 + s) => ST!FatIn(m2, s + 1)
         /\ s < KernelSlot /\ ST!NoKernel(m) => ST!NoKernel(m2)
         /\ s >= KernelSlot /\ ST!RootIn(m, RootSectors) => ST!RootIn(m2, RootSectors)
         /\ s \in FatSectors .. KernelSlot - 1 /\ ST!RootIn(m, s - FatSectors) /\ v = 1 + FatSectors + s
              => ST!RootIn(m2, s - FatSectors + 1)
<1>1. m2 \in [ST!Slot -> Int] /\ \A i \in ST!Slot : m2[i] = IF i = s THEN v ELSE m[i]
  OBVIOUS
<1>2. /\ s \in Nat /\ \A i \in 0 .. FatSectors - 1 : i \in ST!Slot
      /\ \A i \in 0 .. RootSectors - 1 : FatSectors + i \in ST!Slot
      /\ \A i \in 0 .. Clusters - 1 : KernelSlot + i \in ST!Slot
      /\ \A i \in 0 .. s : i \in ST!Slot
  BY LoadNumbers
<1>3. ASSUME s >= FatSectors, ST!FatIn(m, FatSectors) PROVE ST!FatIn(m2, FatSectors)
  BY <1>1, <1>2, <1>3, LoadNumbers DEF ST!FatIn
<1>4. ASSUME s < FatSectors, ST!FatIn(m, s), v = 1 + s PROVE ST!FatIn(m2, s + 1)
  <2>1. ASSUME NEW i \in 0 .. (s + 1) - 1 PROVE m2[i] = 1 + i
    <3>1. i \in ST!Slot /\ (i = s \/ i \in 0 .. s - 1)
      BY <1>2
    <3> QED BY <1>1, <1>4, <3>1 DEF ST!FatIn
  <2> QED BY <2>1 DEF ST!FatIn
<1>5. ASSUME s < KernelSlot, ST!NoKernel(m) PROVE ST!NoKernel(m2)
  BY <1>1, <1>2, <1>5, LoadNumbers DEF ST!NoKernel
<1>6. ASSUME s >= KernelSlot, ST!RootIn(m, RootSectors) PROVE ST!RootIn(m2, RootSectors)
  BY <1>1, <1>2, <1>6, LoadNumbers DEF ST!RootIn
<1>7. ASSUME s \in FatSectors .. KernelSlot - 1, ST!RootIn(m, s - FatSectors), v = 1 + FatSectors + s
      PROVE  ST!RootIn(m2, s - FatSectors + 1)
  <2>1. ASSUME NEW i \in 0 .. (s - FatSectors + 1) - 1 PROVE m2[FatSectors + i] = 1 + 2 * FatSectors + i
    <3>1. FatSectors + i \in ST!Slot /\ (i = s - FatSectors \/ i \in 0 .. (s - FatSectors) - 1)
      BY <1>2, <1>7, LoadNumbers
    <3>2. CASE i = s - FatSectors
      BY <1>1, <1>2, <1>7, <3>1, <3>2, LoadNumbers
    <3>3. CASE i \in 0 .. (s - FatSectors) - 1
      <4>1. FatSectors + i # s /\ m[FatSectors + i] = 1 + 2 * FatSectors + i
        BY <1>2, <1>7, <3>3, LoadNumbers DEF ST!RootIn
      <4> QED BY <1>1, <3>1, <4>1
    <3> QED BY <3>1, <3>2, <3>3
  <2> QED BY <2>1 DEF ST!RootIn
<1> QED BY <1>1, <1>3, <1>4, <1>5, <1>6, <1>7

LEMMA SuccessStep == ST!IInv /\ ST!Success => ST!IInv'
<1> SUFFICES ASSUME ST!IInv, ST!Success PROVE ST!IInv'
  OBVIOUS
<1>1. /\ pc2 = "int13" /\ ax2' = stack2[2] /\ dx' = stack2[3] /\ cx2' = stack2[4]
      /\ stack2' = SubSeq(stack2, 5 + 1, Len(stack2))
      /\ mem2' = [mem2 EXCEPT ![es * SegSlots + bx2] = ST!SectorAt(ST!ChsOf(stack2[2]))]
      /\ ST!Return(stack2[5])
      /\ UNCHANGED <<bx2, es, fat, dir, failed>>
  BY DEF ST!Success
<1>2. /\ stack2 \in Seq(Int) /\ ax2 \in Int /\ mem2 \in [ST!Slot -> Int]
      /\ Len(stack2) >= 5 /\ stack2[3] \in ST!Word /\ stack2[4] \in ST!Word
  <2>1. stack2 \in Seq(Int) /\ ax2 \in Int /\ mem2 \in [ST!Slot -> Int]
    BY DEF ST!IInv
  <2>2. CASE failed
    BY <1>1, <2>1, <2>2 DEF ST!IInv
  <2>3. CASE ~failed
    <3>1. /\ stack2 = <<0, ax2, stack2[3], stack2[4], stack2[5]>>
          /\ stack2[3] \in ST!Word /\ stack2[4] \in ST!Word
      BY <1>1, <2>3 DEF ST!IInv
    <3>2. Len(stack2) = 5
      BY <3>1
    <3> QED BY <2>1, <3>1, <3>2
  <2> QED BY <2>2, <2>3
<1>3. Len(stack2) \in Nat /\ stack2[2] \in Int
  BY <1>2, ElementOfSeq
<1>4. /\ stack2' \in Seq(Int) /\ Len(stack2') = Len(stack2) - 5
  BY <1>1, <1>2, <1>3, Pop
<1>5. ax2' \in Int /\ cx2' \in Int /\ cx2' \in ST!Word /\ dx' \in ST!Word
  BY <1>1, <1>2, <1>3, Words
<1>6. PICK v \in Int : v = ST!SectorAt(ST!ChsOf(stack2[2]))
  BY <1>3, SectorIsNumber
<1>7. PICK s : s = es * SegSlots + bx2
  OBVIOUS
<1>8. mem2' = [mem2 EXCEPT ![s] = v]
  BY <1>1, <1>6, <1>7
<1>9. CASE failed
  <2>1. stack2[5] \in ST!Word
    BY <1>1, <1>9 DEF ST!IInv
  <2>2. pc2' = "wild"
    BY <1>1, <2>1, Words DEF ST!Return
  <2>3. mem2' \in [ST!Slot -> Int]
    BY <1>2, <1>8
  <2> QED BY <1>1, <1>4, <1>5, <1>9, <2>2, <2>3 DEF ST!IInv, ST!KernelInOrder
<1>10. CASE ~failed
  <2>1. /\ stack2 = <<0, ax2, stack2[3], stack2[4], stack2[5]>>
        /\ stack2[5] \in ST!Returns /\ ST!Calling(stack2[5], stack2[4], stack2[3])
    BY <1>1, <1>10 DEF ST!IInv
  <2>2. Len(stack2) = 5 /\ stack2[2] = ax2
    BY <2>1
  <2>3. stack2' = <<>> /\ ax2' = ax2
    BY <1>1, <1>4, <2>2, EmptySeq
  <2>4. ax2 \in Nat => v = ax2
    BY <1>6, <2>2, SectorLoaded
  <2>5. CASE stack2[5] = ST!FatReturn
    <3>1. pc2' = "fatReturn"
      BY <1>1, <2>5, Words DEF ST!Return
    <3>2. cx2' # 0 /\ ST!AtFat(cx2', bx2)
      BY <1>1, <2>1, <2>5, Words DEF ST!Calling
    <3>3. /\ cx2' \in 0 .. FatSectors /\ bx2 = FatSectors - cx2' /\ ax2 = 1 + bx2 /\ es = 0
          /\ ST!FatIn(mem2, bx2) /\ ST!NoKernel(mem2)
      BY <3>2 DEF ST!AtFat
    <3>4. /\ s = bx2 /\ s \in ST!Slot /\ s < FatSectors /\ s < KernelSlot /\ v = 1 + s
      <4>1. /\ bx2 \in Nat /\ bx2 < FatSectors /\ bx2 < KernelSlot
            /\ bx2 \in ST!Slot /\ 1 + bx2 \in Nat
        BY <3>2, <3>3, FatSlot, Zenon
      <4>2. s = bx2
        BY <1>7, <3>3, <4>1, FirstSegment
      <4> QED BY <2>4, <3>3, <4>1, <4>2, Zenon
    <3>5. mem2' \in [ST!Slot -> Int] /\ ST!FatIn(mem2', bx2 + 1) /\ ST!NoKernel(mem2')
      BY <1>2, <1>8, <3>3, <3>4, OneMore
    <3>6. ST!AtFat(cx2, bx2 + 1)'
      BY <1>1, <2>3, <3>3, <3>5 DEF ST!AtFat
    <3> QED BY <1>1, <1>4, <1>5, <1>10, <2>3, <3>1, <3>2, <3>5, <3>6 DEF ST!IInv, ST!KernelInOrder
  <2>6. CASE stack2[5] = ST!RootReturn
    <3>1. pc2' = "rootReturn"
      BY <1>1, <2>6, Words DEF ST!Return
    <3>2. cx2' # 0 /\ ST!AtRoot(cx2', RootSectors - cx2')
      BY <1>1, <2>1, <2>6, Words DEF ST!Calling
    <3>3. /\ cx2' \in 0 .. RootSectors /\ bx2 = FatSectors + RootSectors - cx2'
          /\ ax2 = 1 + FatSectors + bx2 /\ es = 0
          /\ ST!FatIn(mem2, FatSectors) /\ ST!RootIn(mem2, RootSectors - cx2') /\ ST!NoKernel(mem2)
      BY <3>2 DEF ST!AtRoot
    <3>4. /\ s = bx2 /\ s \in ST!Slot /\ s >= FatSectors /\ s < KernelSlot
          /\ s \in FatSectors .. KernelSlot - 1 /\ v = 1 + FatSectors + s
          /\ RootSectors - cx2' = s - FatSectors
      <4>1. /\ bx2 \in Nat /\ bx2 >= FatSectors /\ bx2 < KernelSlot /\ bx2 \in ST!Slot
            /\ bx2 \in FatSectors .. KernelSlot - 1 /\ RootSectors - cx2' = bx2 - FatSectors
            /\ 1 + FatSectors + bx2 \in Nat
        BY <3>2, <3>3, RootSlot, Zenon
      <4>2. s = bx2
        BY <1>7, <3>3, <4>1, FirstSegment
      <4> QED BY <2>4, <3>3, <4>1, <4>2, Zenon
    <3>5. /\ mem2' \in [ST!Slot -> Int] /\ ST!FatIn(mem2', FatSectors)
          /\ ST!RootIn(mem2', s - FatSectors + 1) /\ ST!NoKernel(mem2')
      <4>1. ST!RootIn(mem2, s - FatSectors)
        BY <3>3, <3>4, Zenon
      <4>2. ST!FatIn(mem2, FatSectors) /\ ST!NoKernel(mem2)
        BY <3>3
      <4>3. PICK m2 : m2 = mem2'
        OBVIOUS
      <4>4. m2 \in [ST!Slot -> Int] /\ ST!FatIn(m2, FatSectors)
        <5>1. s \in ST!Slot /\ s >= FatSectors
          BY <3>4
        <5> QED BY <1>2, <1>8, <4>2, <4>3, <5>1, OneMore
      <4>5. ST!NoKernel(m2)
        <5>1. s \in ST!Slot /\ s < KernelSlot
          BY <3>4
        <5> QED BY <1>2, <1>8, <4>2, <4>3, <5>1, OneMore
      <4>6. ST!RootIn(m2, s - FatSectors + 1)
        BY <1>2, <1>8, <3>4, <4>1, <4>3, OneMore
      <4> QED BY <4>3, <4>4, <4>5, <4>6
    <3>6. ST!AtRoot(cx2, RootSectors - cx2 + 1)'
      BY <1>1, <2>3, <3>3, <3>4, <3>5 DEF ST!AtRoot
    <3> QED BY <1>1, <1>4, <1>5, <1>10, <2>3, <3>1, <3>2, <3>5, <3>6 DEF ST!IInv, ST!KernelInOrder
  <2>7. CASE stack2[5] = ST!KernelReturn
    <3>1. pc2' = "kernelReturn"
      BY <1>1, <2>7, Words DEF ST!Return
    <3>2. PICK k \in 0 .. Clusters - 1 : ST!AtKernel(k, dx', k) /\ ax2 = dx' + ST!FirstData - 2
      BY <1>1, <2>1, <2>7, Words DEF ST!Calling
    <3>3. /\ dx' = ST!KernelChain[k] /\ \A i \in 0 .. k : ST!KernelChain[i] \in ST!Cluster
          /\ es \in Nat /\ bx2 \in 0 .. SegSlots - 1 /\ es * SegSlots + bx2 = KernelSlot + k
          /\ ST!FatIn(mem2, FatSectors) /\ ST!RootIn(mem2, RootSectors)
          /\ ST!KernelIn(mem2, ST!KernelChain, k)
      BY <3>2 DEF ST!AtKernel
    <3>4. k \in Nat /\ s = KernelSlot + k /\ s \in ST!Slot /\ s >= KernelSlot /\ s >= FatSectors
      BY <1>7, <3>3, LoadNumbers
    <3>5. dx' \in ST!Cluster
      BY <3>3, <3>4
    <3>6. v = ST!FirstData + ST!KernelChain[k] - 2
      <4>1. ax2 = ST!FirstData + ST!KernelChain[k] - 2 /\ ax2 \in Nat
        <5>1. ax2 = ST!FirstData + dx' - 2 /\ ax2 \in Nat
          BY <3>2, <3>5, SectorOfCluster, Zenon
        <5> QED BY <3>3, <5>1, Zenon
      <4> QED BY <2>4, <4>1
    <3>7. mem2' \in [ST!Slot -> Int] /\ ST!FatIn(mem2', FatSectors) /\ ST!RootIn(mem2', RootSectors)
      BY <1>2, <1>8, <3>3, <3>4, OneMore
    <3>8. ST!KernelIn(mem2', ST!KernelChain, k + 1)
      <4>1. ASSUME NEW i \in 0 .. Clusters - 1
            PROVE  mem2'[KernelSlot + i] =
                     IF i < k + 1 THEN ST!FirstData + ST!KernelChain[i] - 2 ELSE ST!NoSector
        <5>1. KernelSlot + i \in ST!Slot /\ i \in Nat
          BY LoadNumbers
        <5>2. CASE i = k
          <6>1. mem2'[KernelSlot + i] = v /\ i < k + 1
            BY <1>2, <1>8, <3>4, <5>1, <5>2
          <6> QED BY <3>6, <5>2, <6>1
        <5>3. CASE i # k
          <6>1. mem2'[KernelSlot + i] = mem2[KernelSlot + i]
            <7>1. KernelSlot + i # s
              BY <3>4, <5>1, <5>3, LoadNumbers
            <7> QED BY <1>2, <1>8, <5>1, <7>1
          <6>2. i < k + 1 <=> i < k
            BY <3>4, <5>1, <5>3
          <6> QED BY <3>3, <6>1, <6>2 DEF ST!KernelIn
        <5> QED BY <5>2, <5>3
      <4> QED BY <4>1 DEF ST!KernelIn
    <3>9. ST!KernelChain' = ST!KernelChain
      BY <1>1, DiskStays
    <3>10. ST!AtKernel(k, dx, k + 1)'
      BY <1>1, <3>3, <3>7, <3>8, <3>9 DEF ST!AtKernel
    <3> QED BY <1>1, <1>4, <1>5, <1>10, <2>3, <3>1, <3>7, <3>10 DEF ST!IInv, ST!KernelInOrder
  <2> QED BY <2>1, <2>5, <2>6, <2>7, Words
<1> QED BY <1>9, <1>10

LEMMA SecondStageStep == ST!IInv /\ ST!Next => ST!IInv'
<1>1. ST!Over => UNCHANGED vars2
  BY DEF ST!Over, ST!vars, vars2
<1> QED BY <1>1, LoadFatStep, LoadRootDirStep, NextOfTableStep, LoadKernelFileStep, LoadClusterStep,
           NextOfKernelStep, TryStep, SuccessStep, ErrorStep, OverStep DEF ST!Next

-----------------------------------------------------------------------------
(* The boot.                                                               *)

LEMMA IInvInit == Init => IInv
BY BootSectorInit, SecondStageInit, PageTablesInit DEF Init, IInv

LEMMA BootSectorStays == BS!IInv /\ UNCHANGED vars1 => BS!IInv'
BY DEF BS!IInv, BS!TypeOK, BS!StackBalanced, vars1

LEMMA PageTablesStay == PT!IInv /\ UNCHANGED vars3 => PT!IInv'
BY DEF PT!IInv, PT!TypeOK, vars3

LEMMA IInvStep == IInv /\ [Next]_vars => IInv'
<1> SUFFICES ASSUME IInv, [Next]_vars PROVE IInv'
  OBVIOUS
<1>1. BS!IInv /\ ST!IInv /\ PT!IInv
  BY DEF IInv
<1>2. CASE FirstStage
  <2>1. BS!Next /\ UNCHANGED vars2 /\ UNCHANGED vars3
    BY <1>2 DEF FirstStage
  <2> QED BY <1>1, <2>1, BootSectorStep, OverStep, PageTablesStay DEF IInv
<1>3. CASE SecondStage
  <2>1. ST!Next /\ UNCHANGED vars1 /\ UNCHANGED vars3
    BY <1>3 DEF SecondStage
  <2> QED BY <1>1, <2>1, BootSectorStays, SecondStageStep, PageTablesStay DEF IInv
<1>4. CASE Bootstrap
  <2>1. PT!Next /\ UNCHANGED vars1 /\ UNCHANGED vars2
    BY <1>4 DEF Bootstrap
  <2> QED BY <1>1, <2>1, BootSectorStays, OverStep, PageTablesStep DEF IInv
<1>5. CASE UNCHANGED vars
  <2>1. UNCHANGED vars1 /\ UNCHANGED vars2 /\ UNCHANGED vars3
    BY <1>5 DEF vars
  <2> QED BY <1>1, <2>1, BootSectorStays, OverStep, PageTablesStay DEF IInv
<1> QED BY <1>2, <1>3, <1>4, <1>5 DEF Next

LEMMA IInvHolds == Spec => []IInv
BY IInvInit, IInvStep, PTL DEF Spec

\* Every sector of the second stage is in its place when it is started, for a
\* disk of any geometry and however the tries fail (bootloader.nas:53-70).
THEOREM BootSecondStageLoaded == Spec => []SecondStageLoaded
<1>1. IInv => SecondStageLoaded
  BY DEF IInv, SecondStageLoaded, BS!SecondStageLoaded, BS!IInv
<1> QED BY <1>1, IInvHolds, PTL

\* read_sector of the boot sector leaves the stack as it found it
\* (bootloader.nas:81-83, 118-142).
THEOREM BootStackBalanced == Spec => []StackBalanced
<1>1. IInv => StackBalanced
  BY DEF IInv, StackBalanced, BS!IInv
<1> QED BY <1>1, IInvHolds, PTL

\* The kernel's clusters lie in the order of their chain when the second stage
\* jumps, whatever the table, the directory and the number of segments
\* (ntmio.sys.nas:34-117).
THEOREM BootKernelInOrder == Spec => []KernelInOrder
<1>1. IInv => KernelInOrder
  BY DEF IInv, KernelInOrder, ST!IInv
<1> QED BY <1>1, IInvHolds, PTL

\* The two regions of page tables may overlap as PagesAssumption allows, and
\* the mapping is the designed one (kernel_bootstrap.nas:49-103).
THEOREM BootPagingAsDesigned == Spec => []PagingAsDesigned
<1>1. IInv => PagingAsDesigned
  BY PageTablesGood DEF IInv, PagingAsDesigned
<1> QED BY <1>1, IInvHolds, PTL
=============================================================================
