SPECIFICATION FairSpec
CONSTANTS
  e1 = e1
  e2 = e2
  s1 = s1
  s2 = s2
  Events <- TwoEvents
  Subs <- TwoSubs
  Wants <- TwoWant
  Buffer = 1
  MaxRetries = 1
  NoEvent = NoEvent
CHECK_DEADLOCK FALSE
INVARIANTS
  TypeOK
  NeverPanics
  QuietAfterStop
  NothingAfterDeletion
  LossExplained
PROPERTIES
  ImplementsDelivery
  StopReturns
  DeliveriesEnd
