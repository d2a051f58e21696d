---------------------------- MODULE MCInterrupts ----------------------------
(* Instance of Interrupts for TLC: the two tasks there are after boot, the   *)
(* key A going down, and a code behind the end of the table.                 *)
EXTENDS Interrupts

CONSTANTS t1, t2

Codes == {\h1E, \hE0}
=============================================================================
