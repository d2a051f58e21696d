-------------------------------- MODULE Fat16 -------------------------------
(***************************************************************************)
(* The file system (fs.c) on top of the disk driver: the detection of the  *)
(* drives, the choice of the root partition (init_root_filesystem), and    *)
(* read_file with the directory search and the walk along the chain of     *)
(* clusters.  Every action runs up to the next call of ata_pio_lba_read,   *)
(* which AtaPio carries out.                                               *)
(*                                                                         *)
(* The disks are data: their partition table, the parameters of the        *)
(* volume, its directory and its allocation table.                         *)
(***************************************************************************)
EXTENDS AtaPio

CONSTANTS
  Name,      \* file names, those asked for and those in directories
  MaxName,   \* letters of a name in a directory entry, 8
  EntrySize, \* bytes of a directory entry, 32
  BufSize,   \* sizes of the callers' buffers, in bytes
  Wrap       \* values of an unsigned word, 2^32

VARIABLES
  at,        \* where the code is
  root,      \* g_root_filesystem
  call       \* read_file: arguments, locals, and the pieces it has copied

fsVars == <<at, root, call>>
vars == <<ataVars, fsVars>>

BytesPerSector == 2 * Words   \* of the drive
EntryWords == EntrySize \div 2
FAT16Type == 6
ZeroVolume ==
  [bps |-> 0, spc |-> 0, reserved |-> 0, copies |-> 0, rootEntries |-> 0, spf |-> 0]
NoCall == [name |-> <<>>, size |-> 0, len |-> 0, remain |-> 0, cluster |-> 0, got |-> <<>>,
           copied |-> 0, starved |-> FALSE]

Init ==
  /\ AtaInit
  /\ at = "detect"
  /\ root = [hdd |-> 0, type |-> 0, start |-> 0, size |-> 0, volume |-> ZeroVolume]
  /\ call = NoCall

-----------------------------------------------------------------------------
(* What is on the disks, and what the code takes a buffer for.              *)

Disk == hdds[request.hdd]

\* The first valid entry of the partition table, or the first one.
Chosen(entries) ==
  LET valid == {i \in DOMAIN entries : entries[i].valid}
  IN  IF valid = {} THEN entries[1]
      ELSE entries[CHOOSE i \in valid : \A j \in valid : i <= j]

\* A sector that was asked for at its place and came whole is what the disk has
\* there; any other buffer may hold that or something else.
Seen(place, value, other) ==
  IF Intact /\ request.lba = place THEN {value} ELSE {value, other}

\* The places on the disk, in words: of word k of the directory and of word k of
\* the allocation tables.  The volume counts in sectors of a size of its own.
PlaceOf(d, sectors, k) ==
  Chosen(d.entries).start * Words + sectors * (d.volume.bps \div 2) + k
DirectoryPlace(v) == v.reserved + v.copies * v.spf
DirectoryWord(k) ==
  LET w == PlaceOf(Disk, DirectoryPlace(Disk.volume), k)
  IN  <<request.hdd, w \div Words, w % Words>>

\* Entry i of the directory is in the buffer, at the place where the code looks.
Held(i) ==
  /\ i \in DOMAIN Disk.dir
  /\ \A k \in (i - 1) * EntryWords .. i * EntryWords - 1 :
       k < Len(buf) /\ buf[k + 1] = DirectoryWord(k)

\* The value of a word the drive delivered, taken as an entry of the allocation
\* table.  Outside of the tables there is other data.
WordValue(w) ==
  LET i == w[2] * Words + w[3] - PlaceOf(Disk, Disk.volume.reserved, 0)
  IN  IF w # Garbage /\ i \in DOMAIN Disk.fat THEN Disk.fat[i] ELSE Disk.junk.cluster

-----------------------------------------------------------------------------
(* init_harddisks and init_root_filesystem.                                *)

InitHarddisks ==
  /\ at = "detect" /\ at' = "scan"
  /\ AtaDetect /\ UNCHANGED <<root, call>>

\* partition_read: nothing is read at or past the last sector of the partition.
PartitionRead(r, sector, n, next) ==
  IF (sector + n) % Wrap >= r.size
  THEN at' = "panic" /\ UNCHANGED ataVars
  ELSE at' = next /\ Call(r.hdd, (r.start + sector) % Wrap, n)

\* init_root_filesystem takes the next disk.  Without a file system it looks
\* for a file nonetheless: partition_read panics on an empty partition, and on
\* another one get_next_cluster divides by the number of tables, 0.
TryDisk ==
  /\ at = "scan"
  /\ IF root.hdd < Len(hdds)
     THEN /\ at' = "mbr" /\ root' = [root EXCEPT !.hdd = @ + 1]
          /\ Call(root.hdd + 1, 0, 1)
     ELSE /\ at' = IF root.size = 0 THEN "panic" ELSE "divideError"
          /\ UNCHANGED <<ataVars, root>>
  /\ UNCHANGED call

\* Deviation of IsFat16: any partition will do.
AnyType(type) == type # 0

\* build_root_fs: only a FAT16 partition becomes the root.
IsFat16(type) == type = FAT16Type

\* The boot signature as parse_mbr sees it; where no drive answers there is none.
Signatures == IF Disk = Misread THEN {FALSE} ELSE Seen(0, Disk.signature, FALSE)

\* parse_mbr and build_root_fs.
ParseMbr ==
  /\ at = "mbr" /\ ata = "idle"
  /\ \E signature \in Signatures :
       IF ~signature
       THEN at' = "panic" /\ UNCHANGED <<ataVars, root>>
       ELSE \E p \in Seen(0, Chosen(Disk.entries), Disk.junk.part) :
              LET r == [root EXCEPT !.type = p.type, !.start = p.start, !.size = p.size]
              IN  /\ root' = r
                  /\ IF IsFat16(p.type)
                     THEN PartitionRead(r, 0, 1, "bootSector")
                     ELSE at' = "scan" /\ UNCHANGED ataVars
  /\ UNCHANGED call

\* build_root_fs_from_fat16: the regions follow from the fields of the boot sector;
\* the size of the directory is divided by the size of a sector.
BuildRoot ==
  /\ at = "bootSector" /\ ata = "idle"
  /\ \E v \in Seen(Chosen(Disk.entries).start, Disk.volume, Disk.junk.volume) :
       /\ root' = [root EXCEPT !.volume = v]
       /\ at' = IF v.bps = 0 THEN "divideError" ELSE "mounted"
  /\ UNCHANGED <<ataVars, call>>

RootRegion == DirectoryPlace(root.volume)
RootSectors(v) == (v.rootEntries * EntrySize) \div v.bps
RootSize == RootSectors(root.volume)
DataRegion == RootRegion + RootSize

BytesPerCluster == root.volume.bps * root.volume.spc

\* Deviation of FirstSectorOf: clusters are counted from 0.
FirstSectorFrom0(c) == (DataRegion + c * root.volume.spc) % Wrap

FirstSectorOf(c) == (DataRegion + (c - 2) * root.volume.spc) % Wrap

-----------------------------------------------------------------------------
(* What the disks are assumed to be: tables and sizes are what their fields  *)
(* can hold.  The drive takes sector numbers of 28 bits.                     *)
Addresses == 16 * Byte * Byte * Byte

ASSUME SizesAssumption ==
  /\ EntrySize \in Nat
  /\ BufSize \subseteq Nat
  /\ Wrap \in Nat /\ Addresses <= Wrap

Partition == [valid : BOOLEAN, type : Nat, start : 0 .. Wrap - 1, size : 0 .. Wrap - 1]
Volume == [bps : Nat, spc : Nat, reserved : Nat, copies : Nat, rootEntries : Nat, spf : Nat]
Directory == Seq([name : Name, size : Int, cluster : Int, end : BOOLEAN])
Junk == [part : Partition, volume : Volume, size : Int, cluster : Int]

\* A drive and what is on it; junk is what other data look like to the code.
IsDrive(d) ==
  /\ d.signature \in BOOLEAN /\ d.slow \in BOOLEAN /\ d.spill \in BOOLEAN
  /\ d.entries \in Seq(Partition) /\ d.entries # <<>>
  /\ d.volume \in Volume
  /\ \A i \in DOMAIN d.fat : d.fat[i] \in Int
  /\ d.junk \in Junk
  /\ d.dir \in Directory /\ Len(d.dir) = d.volume.rootEntries
  /\ \A i \in DOMAIN d.dir :
       Len(d.dir[i].name) <= MaxName /\ (d.dir[i].end => d.dir[i].name = <<>>)

ASSUME DrivesAssumption ==
  \A m \in Machine : \A port \in 1 .. 2 :
    m[port] = NoDisk \/ (IsDrive(m[port]) /\ m[port] # Misread)

-----------------------------------------------------------------------------
(* read_file.                                                              *)

\* get_file_size or get_file_start_cluster up to the read of the directory, ok
\* when k_malloc has a buffer for it; without a name or a buffer the answer is
\* -1 and the code goes on at once.
Search(name, ok, next, after) ==
  IF name # <<>> /\ ok
  THEN PartitionRead(root, RootRegion, RootSize, next)
  ELSE at' = after /\ UNCHANGED ataVars

ReadFile(name, size, ok) ==
  /\ at = "mounted"
  /\ call' = [NoCall EXCEPT !.name = name, !.size = size, !.len = -1, !.cluster = -1,
                            !.starved = ~ok]
  /\ Search(name, ok, "size", "sized")
  /\ UNCHANGED root

\* fat16_filename_cmp: names compare as far as the shorter of the two goes.
Matches(name, e) ==
  /\ Len(name) <= MaxName
  /\ \A i \in DOMAIN name \cap DOMAIN e.name : name[i] = e.name[i]

Missing == [size |-> -1, cluster |-> -1]

\* What the search makes of entry i when it comes to it, and the entries it comes
\* to.  Memory that the read did not fill may show it anything.  (The test for
\* deleted entries compares a signed char with 0xe5 and never holds; such a name
\* matches nothing anyway.)
Outcome(name, i) ==
  CASE i > root.volume.rootEntries -> {Missing}
    [] i <= root.volume.rootEntries /\ ~Held(i) -> {Missing, Disk.junk}
    [] OTHER -> IF Disk.dir[i].end THEN {Missing}
                ELSE {e \in {Disk.dir[i]} : Matches(name, e)}
ComesTo(name, i) ==
  \A j \in 1 .. i - 1 : Held(j) => ~Disk.dir[j].end /\ ~Matches(name, Disk.dir[j])
Found(name) ==
  UNION {Outcome(name, i) : i \in {j \in 1 .. root.volume.rootEntries + 1 : ComesTo(name, j)}}

\* get_file_size is through.
Size ==
  /\ at = "size" /\ ata = "idle"
  /\ \E e \in Found(call.name) : call' = [call EXCEPT !.len = e.size]
  /\ at' = "sized"
  /\ UNCHANGED <<ataVars, root>>

StartCluster(ok) ==
  /\ at = "sized"
  /\ call' = [call EXCEPT !.starved = @ \/ ~ok,
       !.remain = IF call.len >= 0 /\ call.size > call.len THEN call.len ELSE call.size]
  /\ Search(call.name, ok, "cluster", "loop")
  /\ UNCHANGED root

Cluster ==
  /\ at = "cluster" /\ ata = "idle"
  /\ \E e \in Found(call.name) : call' = [call EXCEPT !.cluster = e.cluster]
  /\ at' = "loop"
  /\ UNCHANGED <<ataVars, root>>

\* The loop of read_file, up to the read of a cluster; with nothing left to
\* read it returns.
Loop ==
  /\ at = "loop"
  /\ IF call.remain > 0
     THEN PartitionRead(root, FirstSectorOf(call.cluster), root.volume.spc, "data")
     ELSE at' = "mounted" /\ UNCHANGED ataVars
  /\ UNCHANGED <<root, call>>

\* Deviation of ToRead: whole clusters are copied.
WholeClusters(remain) == BytesPerCluster

ToRead(remain) == IF remain > BytesPerCluster THEN BytesPerCluster ELSE remain

\* Where get_next_cluster takes the first table from: the function that should
\* give the place of the table returns nothing, and what the caller finds in its
\* place is the number of the copy, 0.
Fat1Start == 0
Fat1Size == (root.volume.copies * root.volume.spf) \div root.volume.copies

\* The copy of a cluster's data, and get_next_cluster up to the read of the
\* table.  Where k_malloc has nothing for these buffers the code goes on with the
\* memory at address 0, which takes the data as well.  A piece is whole when all of
\* it was read.
CopyData ==
  /\ at = "data" /\ ata = "idle"
  /\ LET n == ToRead(call.remain)
         piece == [sector |-> request.lba, bytes |-> n, whole |-> Intact /\ n <= 2 * Len(buf)]
     IN  call' = [call EXCEPT !.remain = @ - n, !.copied = @ + n,
                              !.got = IF n = 0 THEN @ ELSE Append(@, piece)]
  /\ IF root.volume.copies = 0
     THEN at' = "divideError" /\ UNCHANGED ataVars
     ELSE PartitionRead(root, Fat1Start, Fat1Size, "table")
  /\ UNCHANGED root

\* The entry of the cluster is the next one; 0 ends the loop.
NextCluster ==
  /\ at = "table" /\ ata = "idle"
  /\ LET c == IF call.cluster + 1 \in DOMAIN buf
              THEN WordValue(buf[call.cluster + 1]) ELSE Disk.junk.cluster
     IN  /\ call' = [call EXCEPT !.cluster = c]
         /\ at' = IF c <= 0 THEN "mounted" ELSE "loop"
  /\ UNCHANGED <<ataVars, root>>

\* _panic, and an exception nobody handles.
Stopped == at \in {"panic", "divideError"} /\ UNCHANGED vars

FileSystem ==
  \/ InitHarddisks \/ TryDisk \/ ParseMbr \/ BuildRoot
  \/ \E name \in Name, size \in BufSize, ok \in BOOLEAN : ReadFile(name, size, ok)
  \/ Size \/ Cluster \/ \E ok \in BOOLEAN : StartCluster(ok)
  \/ Loop \/ CopyData \/ NextCluster
  \/ Stopped

Next == FileSystem \/ (Transfer /\ UNCHANGED fsVars)

Spec == Init /\ [][Next]_vars

-----------------------------------------------------------------------------
(* Properties.                                                             *)

Mounted == {"mounted", "size", "sized", "cluster", "loop", "data", "table"}

\* The kernel goes on behind init_root_filesystem only with a FAT16 volume, and
\* only that of the first drive found; the loop over the other drives ends in the
\* panic for a missing signature, for fs.c reads their entries at the wrong place.
\* Partition table and boot sector are those of the disk where the drive can give
\* them (fs.c:64-131).
KernelHasRoot ==
  at \in Mounted =>
    LET d == hdds[1]
        p == Chosen(d.entries)
    IN  /\ root.hdd = 1 /\ root.type = FAT16Type
        /\ Delivers(d, 0, 1) /\ Delivers(d, p.start, 1) =>
             root.start = p.start /\ root.size = p.size /\ root.volume = d.volume

\* read_file never writes behind the caller's buffer, whatever file name, failed
\* allocation or table entry it meets (fs.c:289-323).
BufferNotOverrun == call.copied <= call.size

\* The drive can give n sectors of the partition, and partition_read lets the code
\* have them: they end before the last one of the partition.
Within(d, sector, n) ==
  LET p == Chosen(d.entries)
  IN  sector + n < p.size /\ Delivers(d, p.start + sector, n)

\* The volume is one the code can read: its sectors are the drive's, there is a
\* table, and the drive gives boot sector and directory.
Sound(d) ==
  LET v == d.volume
  IN  /\ v.bps = BytesPerSector /\ v.copies > 0
      /\ Delivers(d, 0, 1) /\ Within(d, 0, 1)
      /\ Within(d, DirectoryPlace(v), RootSectors(v))

\* Entry i of drive d is the file that was asked for, its entry is in the sectors
\* the code reads, and as far as it was asked for it lies in one cluster, one that
\* the drive can give.
Asked(e) == IF e.size < call.size THEN e.size ELSE call.size
FilePlace(v, e) == DirectoryPlace(v) + RootSectors(v) + (e.cluster - 2) * v.spc
SmallFile(d, i) ==
  LET e == d.dir[i]
      v == d.volume
  IN  /\ e.name = call.name /\ \A j \in 1 .. i - 1 : ~Matches(call.name, d.dir[j])
      /\ Asked(e) > 0 /\ Asked(e) <= v.bps * v.spc
      /\ Sound(d) /\ i * EntryWords <= RootSectors(v) * Words
      /\ e.name # <<>> /\ e.cluster >= 2 /\ Within(d, FilePlace(v, e), v.spc)
Piece(d, i) ==
  [sector |-> Chosen(d.entries).start + FilePlace(d.volume, d.dir[i]),
   bytes |-> Asked(d.dir[i]), whole |-> TRUE]

\* A file that lies in one cluster, or the part of a file that does, is read from
\* that cluster, whole and nothing else, and read_file ends in no panic and no divide
\* error, on a volume the code can read, unless the heap is exhausted or the name is
\* like that of a file before it.  Excepted by name are the volumes it cannot read:
\* with sectors of another size, without a table, up to the last sector of the
\* partition, or on a drive that is busy or fails (fs.c:133-138, fs.c:188-323).
SmallFilesRead ==
  at \in {"mounted", "panic", "divideError"} /\ call.size > 0 /\ ~call.starved =>
    LET d == hdds[root.hdd]
    IN  \A i \in DOMAIN d.dir : SmallFile(d, i) => at = "mounted" /\ call.got = <<Piece(d, i)>>

\* "We currently assume that FAT 1 table is always correct" (fs.c:327): what
\* read_file follows is the entry of the cluster in the first table.
FollowsFat1 ==
  at = "table" /\ ata = "idle" /\ Intact /\ call.cluster >= 2 /\ call.cluster < Fat1Size * Words =>
    LET w == buf[call.cluster + 1]
    IN  (w[2] - root.start - root.volume.reserved) * Words + w[3] = call.cluster

-----------------------------------------------------------------------------
(* Types.                                                                    *)

Working == Mounted \cup {"mbr", "bootSector"}

FsTypeOK ==
  /\ ports \in Machine
  /\ hdds = IF at = "detect" THEN <<>> ELSE Table(Detected(ports[1]) \o Detected(ports[2]))
  /\ at \in Working \cup {"detect", "scan", "panic", "divideError"}
  /\ root \in [hdd : Nat, type : Nat, start : Nat, size : Nat, volume : Volume]
  /\ call \in [name : Name \cup {<<>>}, size : Nat, len : Int, remain : Int, cluster : Int,
               got : Seq([sector : Nat, bytes : Int, whole : BOOLEAN]), copied : Int, starved : BOOLEAN]
=============================================================================
