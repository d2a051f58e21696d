---------------------------- MODULE MCProcesses -----------------------------
(* Instance of Processes, and so of Scheduler, for TLC: five slots, so that  *)
(* three tasks besides the idle and the default task can wait, identifiers   *)
(* up to MaxId, and a process table that crosses a 64 KB boundary.           *)
EXTENDS Processes

MCTableBase == \h7012F454
=============================================================================
