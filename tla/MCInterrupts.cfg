CONSTANTS
  t1 = t1
  t2 = t2
  Task = {t1, t2}
  ScanCode <- Codes
SPECIFICATION Spec
INVARIANTS
  InterruptsAcknowledged
  CommandsArrive
PROPERTIES
  KeyBecomesEvent
  TicksKeepComing
