SPECIFICATION RetriesSpec
CONSTANTS
  Requests = {r1, r2, r3}
  c1 = c1
  t1 = t1
  t2 = t2
  empty = empty
  small = small
  large = large
  Tokens <- OneToken
  SpendLimit <- LimitOne
  PaymentsWriters <- OneToken
  CartIds <- MCCartIds
  Contents <- TwoLists
  EmptyItems <- empty
  Total <- TwoTotals
  Mandates <- OneMandate
  NoCart = NoCart
  NoMandate = NoMandate
  NoReq = NoReq
  UnknownId = UnknownId
  Keys = {k1}
  NoKey = NoKey
  TTL = 2
  NoReply = NoReply
SYMMETRY Symmetric
CHECK_DEADLOCK FALSE
INVARIANTS
  RetryLeavesNoTrace
  ReplayStillTrue
