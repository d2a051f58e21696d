------------------------------ MODULE MCFat16 -------------------------------
(* Instance of Fat16 for TLC: sectors of four words, registers of two bits,  *)
(* machines with up to two disks, good and bad ones.                         *)
EXTENDS Fat16, TLC

CONSTANTS none, misread

A == <<"a">>
AB == <<"a", "b">>
C == <<"c">>
MCName == {<<>>, A, AB, C, <<"a", "b", "c">>}

Entry(name, size, cluster) == [name |-> name, size |-> size, cluster |-> cluster, end |-> FALSE]
End == [name |-> <<>>, size |-> 0, cluster |-> 0, end |-> TRUE]

Part(valid, type, start, size) == [valid |-> valid, type |-> type, start |-> start, size |-> size]
Unused == Part(FALSE, 0, 0, 0)

\* What other data look like: no FAT16 partition, or one with a directory elsewhere.
Dull(cluster) == [part |-> Unused, volume |-> ZeroVolume, size |-> 0, cluster |-> cluster]
Wild == [part |-> Part(TRUE, 6, 1, 30), size |-> 200, cluster |-> 3,
         volume |-> [bps |-> 4, spc |-> 1, reserved |-> 1, copies |-> 1, rootEntries |-> 2, spf |-> 1]]

\* One sector to a cluster; "ab" takes two clusters.
Small(entries, junk) ==
  [signature |-> TRUE, slow |-> FALSE, spill |-> FALSE, bad |-> {}, entries |-> entries,
   volume |-> [bps |-> 8, spc |-> 1, reserved |-> 1, copies |-> 2, rootEntries |-> 4, spf |-> 1],
   dir |-> <<Entry(AB, 13, 3), Entry(C, 6, 2), End, Entry(A, 4, 2)>>,
   fat |-> (0 :> 15 @@ 1 :> 15 @@ 2 :> 15 @@ 3 :> 2), junk |-> junk]

\* Two sectors to a cluster, tables of four sectors, high sector numbers.
Large(entries) ==
  [signature |-> TRUE, slow |-> FALSE, spill |-> FALSE, bad |-> {}, entries |-> entries,
   volume |-> [bps |-> 8, spc |-> 2, reserved |-> 2, copies |-> 1, rootEntries |-> 4, spf |-> 4],
   dir |-> <<Entry(A, 15, 4), Entry(AB, 20, 2), Entry(C, 0, 0), End>>,
   fat |-> [c \in 0 .. 15 |-> IF c = 2 THEN 3 ELSE 15], junk |-> Dull(2)]

Table1(p) == <<p, Unused, Unused, Unused>>
NotMbr == [Small(Table1(Unused), Dull(0)) EXCEPT !.signature = FALSE]
Linux == Small(Table1(Part(TRUE, 131, 1, 20)), Dull(0))
Empty == Small(Table1(Unused), Dull(0))
First(junk) == Small(Table1(Part(TRUE, 6, 5, 20)), junk)
High == Large(<<Unused, Part(TRUE, 6, 66, 20), Part(TRUE, 6, 1, 9), Unused>>)

\* Partitions that end with their data, at the boot sector, or in the directory, and
\* one behind the end of the drive.
Full == Small(<<Unused, Part(TRUE, 6, 5, 7), Unused, Unused>>, Dull(3))
Tiny == Small(Table1(Part(TRUE, 6, 5, 1)), Dull(0))
Short == Small(Table1(Part(TRUE, 6, 5, 5)), Dull(0))
Beyond == Small(Table1(Part(TRUE, 6, 99, 20)), Dull(0))

\* Drives that are busy, or fail at the second sector of the directory or of a cluster.
Slow == [First(Wild) EXCEPT !.slow = TRUE]
BadDir == [First(Wild) EXCEPT !.bad = {9}]
BadData == [High EXCEPT !.bad = {75, 79}]

\* Volumes with sectors of another size: none, half and twice that of the drive.
Sized(bps) == [First(Wild) EXCEPT !.volume.bps = bps]
Twice == [Sized(16) EXCEPT !.volume.reserved = 0, !.volume.spf = 0]

MCMachine ==
  {<<none, none>>, <<NotMbr, First(Dull(0))>>, <<Linux, none>>, <<Empty, none>>, <<Tiny, none>>,
   <<First(Dull(0)), none>>, <<First(Dull(3)), High>>, <<First(Dull(200)), none>>,
   <<Linux, High>>, <<[Linux EXCEPT !.spill = TRUE], none>>, <<none, High>>, <<Full, none>>,
   <<Short, none>>, <<Beyond, none>>, <<Slow, none>>, <<BadDir, none>>, <<BadData, none>>,
   <<Sized(0), none>>, <<Sized(4), none>>, <<Twice, none>>}
=============================================================================
