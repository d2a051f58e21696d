------------------------------- MODULE MCGui --------------------------------
(* Instance of Gui for TLC: two tasks and a text screen of three lines, and  *)
(* three layers on a screen of two places.                                    *)
EXTENDS Gui

CONSTANTS t1, t2
=============================================================================
