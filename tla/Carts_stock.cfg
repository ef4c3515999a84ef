SPECIFICATION Spec
CONSTANTS
  Requests = {r1, r2, r3}
  p1 = p1
  p2 = p2
  Products <- MCProducts
  Price <- MCPrice
  Stock <- MCStock
  NoSuchProduct = NoSuchProduct
  NoSuchCart = NoSuchCart
  Quantities <- FewQuantities
  NoCart = NoCart
  NoReq = NoReq
SYMMETRY Symmetric
CHECK_DEADLOCK FALSE
INVARIANT
  CartWithinStock
