------------------------------- MODULE Layers -------------------------------
(***************************************************************************)
(* The stack of window layers (gui.c).  A shown layer has a height z, and  *)
(* layer_stack[0 .. z_top] lists the shown layers from bottom to top;      *)
(* every change of the stack paints the screen again, bottom first, and    *)
(* never clears it.                                                        *)
(*                                                                         *)
(* Two calls part the stack and the heights, and are recorded: a layer put *)
(* in below a shown one leaves numbers where the stack has pointers, and a *)
(* shown layer raised above z_top takes in the entry behind the end.       *)
(* Layers are moved and released only by those that were given them.       *)
(***************************************************************************)
EXTENDS Integers

CONSTANTS
  Size,      \* LAYER_STACK_SIZE, 256; layers are their indices
  Pixel,     \* places on the screen, 0 the first
  None,      \* what is no layer: a null pointer, a number, a picture
  MaxMisused \* bound: the calls that are followed once the two have parted

VARIABLES
  flags,     \* allocated?
  z,         \* the height of a layer, -1 when it is hidden
  place,     \* where a layer lies: a pixel
  layer_stack, z_top,
  screen,    \* [Pixel -> the layer last painted there, None when it is unknown]
  misused    \* history: the calls from the first one on that parts the two

Layer == 0 .. Size - 1

\* The word behind the stack is the first of layers[0], its picture.
Entry == 0 .. Size

\* The first layer is the background and covers the screen.  The picture of
\* what is no layer is whatever low memory holds, and may go anywhere.
Covers(l, p, at) == l \in {0, None} \/ at[l] = p

\* layer_stack is painted from 0 to z_top: what is highest is seen.
Painted(p, stack, top, at) ==
  {k \in 0 .. top : Covers(stack[k], p, at)}

Highest(ks) == CHOOSE k \in ks : \A m \in ks : m <= k

refresh_screen(stack, top, at) ==
  [p \in Pixel |-> IF Painted(p, stack, top, at) = {} THEN screen[p]
                   ELSE stack[Highest(Painted(p, stack, top, at))]]

\* init_screen: the background, and the layer of the mouse above it.
InitScreen ==
  /\ flags = [l \in Layer |-> l <= 1]
  /\ z = [l \in Layer |-> IF l = 1 THEN 1 ELSE 0]
  /\ place = [l \in Layer |-> 0]
  /\ layer_stack = [k \in Entry |-> IF k <= 1 THEN k ELSE None]
  /\ z_top = 1
  /\ screen = [p \in Pixel |-> IF p = place[1] THEN 1 ELSE 0]
  /\ misused = 0

\* A call is counted if it parts stack and heights, and after one that did.
Counts(parts) == misused' = IF parts \/ misused > 0 THEN misused + 1 ELSE 0

\* The first layer that is free; its old place and picture are kept.
alloc_layer(l) ==
  /\ ~ flags[l] /\ \A m \in 0 .. l - 1 : flags[m]
  /\ flags' = [flags EXCEPT ![l] = TRUE]
  /\ z' = [z EXCEPT ![l] = -1]
  /\ Counts(FALSE)
  /\ UNCHANGED <<place, layer_stack, z_top, screen>>

\* The height asked for, no higher than on top and no lower than hidden.
Clamped(nz) ==
  LET low == IF nz > z_top + 1 THEN z_top + 1 ELSE nz IN IF low < -1 THEN -1 ELSE low

\* Deviation of Top: a layer that is hidden is still counted.
TopKept(old, nz) == IF old = -1 /\ nz >= 0 THEN z_top + 1 ELSE z_top

\* z_top after a layer has moved.
Top(old, nz) ==
  IF old = -1 /\ nz >= 0 THEN z_top + 1 ELSE IF old >= 0 /\ nz = -1 THEN z_top - 1 ELSE z_top

\* A shown layer that is lowered, raised or hidden moves the entries between
\* the two heights by one; each layer among them is told its new height.
MovedUp(old, nz) == IF nz >= 0 THEN nz + 1 .. old ELSE {}
MovedDown(old, nz) == IF old >= 0 THEN old .. (IF nz = -1 THEN z_top ELSE nz) - 1 ELSE {}

\* A hidden layer that is shown moves the entries above it, but what they get is
\* the number of the entry.
Numbered(old, nz) == IF old = -1 /\ nz >= 0 THEN nz + 1 .. z_top + 1 ELSE {}

Stack(l, old, nz) ==
  [k \in Entry |-> CASE k = nz /\ old # nz -> l
                     [] k \in MovedUp(old, nz) -> layer_stack[k - 1]
                     [] k \in MovedDown(old, nz) -> layer_stack[k + 1]
                     [] k \in Numbered(old, nz) -> None
                     [] OTHER -> layer_stack[k]]

\* The entry a loop from "old" towards "nz" comes to last.
LastOf(ks, old, nz) ==
  IF old > nz /\ nz >= 0 THEN CHOOSE k \in ks : \A m \in ks : k <= m ELSE Highest(ks)

Heights(l, old, nz) ==
  LET EntriesOf(m) == {k \in MovedUp(old, nz) \cup MovedDown(old, nz) :
                         Stack(l, old, nz)[k] = m}
  IN [m \in Layer |-> IF EntriesOf(m) # {} THEN LastOf(EntriesOf(m), old, nz)
                      ELSE IF m = l THEN nz ELSE z[m]]

\* Insertion below a shown layer, and a shown layer raised above the top.
Misuse(old, nz) == \/ old = -1 /\ nz \in 0 .. z_top
                   \/ old >= 0 /\ old < nz /\ nz = z_top + 1

MoveZ(l, nz) ==
  /\ layer_stack' = Stack(l, z[l], nz)
  /\ z' = Heights(l, z[l], nz)
  /\ z_top' = Top(z[l], nz)
  /\ screen' = refresh_screen(layer_stack', z_top', place)
  /\ Counts(Misuse(z[l], nz))

mov_layer_z(l, nz) == flags[l] /\ MoveZ(l, Clamped(nz)) /\ UNCHANGED <<flags, place>>

mov_layer(l, p) ==
  /\ flags[l]
  /\ place' = [place EXCEPT ![l] = p]
  /\ screen' = IF z[l] >= 0 THEN refresh_screen(layer_stack, z_top, place') ELSE screen
  /\ Counts(FALSE)
  /\ UNCHANGED <<flags, z, layer_stack, z_top>>

free_layer(l) ==
  /\ flags[l]
  /\ flags' = [flags EXCEPT ![l] = FALSE]
  /\ IF z[l] >= 0 THEN MoveZ(l, -1)
     ELSE Counts(FALSE) /\ UNCHANGED <<z, layer_stack, z_top, screen>>
  /\ UNCHANGED place

LayersNext ==
  /\ misused < MaxMisused
  /\ \E l \in Layer :
       \/ alloc_layer(l) \/ free_layer(l)
       \/ \E nz \in -2 .. Size : mov_layer_z(l, nz)
       \/ \E p \in Pixel : mov_layer(l, p)

-----------------------------------------------------------------------------
Shown(p) == {l \in Layer : flags[l] /\ z[l] >= 0 /\ Covers(l, p, place)}

\* Until a layer is put in below a shown one or a shown one is raised above the
\* top, the screen shows, wherever a shown layer lies, the highest of them,
\* whatever else was allocated, moved, hidden and released before: the heights
\* the layers remember and the order of the stack have not parted
\* (gui.c:91-137, gui.c:139-159).
ScreenShowsTop ==
  \A p \in Pixel : Shown(p) # {} /\ misused = 0 =>
    screen[p] \in Shown(p) /\ \A l \in Shown(p) : z[l] <= z[screen[p]]

-----------------------------------------------------------------------------
(* The inductive invariant, as long as nothing is misused.                   *)
LayersTypeOK ==
  /\ flags \in [Layer -> BOOLEAN]
  /\ z \in [Layer -> -1 .. Size - 1]
  /\ place \in [Layer -> Pixel]
  /\ layer_stack \in [Entry -> Layer \cup {None}]
  /\ z_top \in -1 .. Size - 1

\* The stack and the heights of the shown layers are inverse to each other.
Inverse ==
  /\ \A k \in 0 .. z_top : /\ layer_stack[k] \in Layer
                           /\ flags[layer_stack[k]]
                           /\ z[layer_stack[k]] = k
  /\ \A l \in Layer : flags[l] /\ z[l] >= 0 => z[l] <= z_top /\ layer_stack[z[l]] = l

\* Painting again would change nothing.
UpToDate == screen = refresh_screen(layer_stack, z_top, place)

LayersInv == LayersTypeOK /\ Inverse /\ UpToDate
=============================================================================
