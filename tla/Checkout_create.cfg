SPECIFICATION Spec
CONSTANTS
  Requests = {r1, r2}
  c1 = c1
  t1 = t1
  t2 = t2
  empty = empty
  small = small
  large = large
  Tokens <- TwoTokens
  SpendLimit <- LimitTwo
  PaymentsWriters <- OneToken
  CartIds <- MCCartIds
  Contents <- ThreeLists
  EmptyItems <- empty
  Total <- ThreeTotals
  Mandates <- AllMandates
  NoCart = NoCart
  NoMandate = NoMandate
  NoReq = NoReq
  UnknownId = UnknownId
SYMMETRY Symmetric
CHECK_DEADLOCK FALSE
INVARIANTS
  TypeOK
  ChargedIsAuthorized
  DisclosedIsConfirmable
