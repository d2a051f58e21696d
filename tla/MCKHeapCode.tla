---------------------------- MODULE MCKHeapCode -----------------------------
(* Instance of KHeapCode for TLC: five pages of two bytes, two tasks inside  *)
(* k_free at once, requests of one page, of three and of more than there are. *)
EXTENDS KHeapCode
CONSTANTS c1, c2
MCClient == {c1, c2}
=============================================================================
