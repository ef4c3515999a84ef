SPECIFICATION Spec
CONSTANTS
  e1 = e1
  e2 = e2
  s1 = s1
  s2 = s2
  Events <- TwoEvents
  Subs <- OneSub
  Wants <- OneWants
  Buffer = 1
  MaxRetries = 3
  NoEvent = NoEvent
CHECK_DEADLOCK FALSE
INVARIANT
  StopFinishesDeliveries
