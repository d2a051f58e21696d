------------------------------- MODULE MCBoot -------------------------------
(* Instance of Boot for TLC: a small floppy disk whose tracks, tables and    *)
(* segments are crossed, with every allocation table whose chains end, and   *)
(* page tables that overlap as those of the code do, an eighth in number.    *)
EXTENDS Boot
=============================================================================
