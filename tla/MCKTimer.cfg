CONSTANTS
  T = 3
  p = p
  q = q
  Task <- MCTask
  W = 6
  MaxTickMisused = 1
  Quantum = 2
  Delays <- MCDelays
  Nil = Nil
SPECIFICATION Spec
INVARIANTS
  ListHoldsArmedTimers
  SwitchTimerStaysArmed
PROPERTIES
  FiresOnTime
SYMMETRY Symmetry
