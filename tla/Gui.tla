-------------------------------- MODULE Gui ---------------------------------
(***************************************************************************)
(* The two uses gui.c can make of the screen: the text console of the      *)
(* module Console, or the window layers of the module Layers.  The mode of *)
(* the display, chosen before the kernel starts, decides which.            *)
(***************************************************************************)
EXTENDS Console

CONSTANTS Size, Pixel, None, MaxMisused

\* There is room for the background and the mouse (gui.c:42-62).
ASSUME LayersAssumption ==
  /\ Size \in Nat /\ Size >= 2
  /\ 0 \in Pixel
  /\ None \notin 0 .. Size - 1
  /\ MaxMisused \in Nat

VARIABLES mode, flags, z, place, layer_stack, z_top, screen, misused

L == INSTANCE Layers

layers == <<flags, z, place, layer_stack, z_top, screen, misused>>
gvars == <<vars, layers, mode>>

GuiInit == mode \in {"text", "graphics"} /\ Init /\ L!InitScreen

GuiNext ==
  /\ \/ mode = "text" /\ Next /\ UNCHANGED layers
     \/ mode = "graphics" /\ L!LayersNext /\ UNCHANGED vars
  /\ UNCHANGED mode

GuiSpec == GuiInit /\ [][GuiNext]_gvars

\* The screen shows the highest layer, until a call parts stack and heights
\* (Layers, gui.c:91-159).
ScreenShowsTop == L!ScreenShowsTop
=============================================================================
