CONSTANTS
  T = 3
  p = p
  q = q
  Task <- MCOneTask
  W = 6
  MaxTickMisused = 2
  Quantum = 2
  Delays <- MCDelays
  Nil = Nil
SPECIFICATION Spec
PROPERTIES
  ArmedTimerFires
