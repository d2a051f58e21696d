CONSTANTS
  d = d
  w1 = w1
  w2 = w2
  n1 = n1
  n2 = n2
  n3 = n3
  n4 = n4
  RingSlots = 4
  RingNode <- MCRingNode
  Unwritten = Unwritten
  Default = d
  Started <- MCStarted
  Slots = 2
  Node = {n1, n2, n3, n4}
  NoNode = NoNode
SPECIFICATION EventsSpec
INVARIANTS
  NodesAccounted
  NoLostWakeup
PROPERTIES
  ImplementsFifo
  ImplementsEventDelivery
