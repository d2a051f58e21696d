CONSTANTS
  t1 = t1
  t2 = t2
  Task = {t1, t2}
  Columns = 3
  Lines = 3
  Size = 3
  Pixel = {0, 1}
  None = None
  MaxMisused = 3
SPECIFICATION GuiSpec
CHECK_DEADLOCK FALSE
INVARIANTS
  CursorOnScreen
  WritesNearScreen
  ScreenShowsTop
