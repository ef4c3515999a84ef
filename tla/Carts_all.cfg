SPECIFICATION FairSpec
CONSTANTS
  Requests = {r1, r2, r3}
  p1 = p1
  p2 = p2
  Products <- MCProducts
  Price <- MCPrice
  Stock <- MCStock
  NoSuchProduct = NoSuchProduct
  NoSuchCart = NoSuchCart
  Quantities <- AllQuantities
  NoCart = NoCart
  NoReq = NoReq
CHECK_DEADLOCK FALSE
INVARIANTS
  TypeOK
  LinesWellFormed
  LostOnlyByOverlap
  EditsApplied
PROPERTY
  EveryRequestServed
