SPECIFICATION FairSpec
CONSTANTS
  Worker = {W1, W2}
  Net = {}
  Import = {I1}
  Subscriber = {S1}
  MaxPending = 0
  MaxEvents = 2
  MaxRegs = 2
INVARIANTS
  CountsAreExact
  QueueIsServed
  NobodyMissesEvents
CHECK_DEADLOCK FALSE
PROPERTIES
  EventsInOrder
  EverybodyGetsOn
