SPECIFICATION Spec
CONSTANTS
  Requests = {r1, r2, r3}
  c1 = c1
  t1 = t1
  t2 = t2
  empty = empty
  small = small
  large = large
  Tokens <- OneToken
  SpendLimit <- LimitOne
  PaymentsWriters <- OneToken
  CartIds <- MCCartIds
  Contents <- TwoLists
  EmptyItems <- empty
  Total <- TwoTotals
  Mandates <- OneMandate
  NoCart = NoCart
  NoMandate = NoMandate
  NoReq = NoReq
  UnknownId = UnknownId
SYMMETRY Symmetric
CHECK_DEADLOCK FALSE
INVARIANT
  ChargedAtMostOnce
