SPECIFICATION RaceSpec
CONSTANTS
  Requests = {r1, r2, r3}
  c1 = c1
  t1 = t1
  t2 = t2
  empty = empty
  small = small
  large = large
  Tokens <- TwoTokens
  SpendLimit <- LimitTwo
  PaymentsWriters <- TwoTokens
  CartIds <- MCCartIds
  Contents <- TwoLists
  EmptyItems <- empty
  Total <- TwoTotals
  Mandates <- OneMandate
  NoCart = NoCart
  NoMandate = NoMandate
  NoReq = NoReq
  UnknownId = UnknownId
CHECK_DEADLOCK FALSE
INVARIANTS
  SpendWithinLimit
  BudgetRespected
  OneSuccessPerIntent
  AnswersTruthful
  TerminalEventsAgree
PROPERTIES
  NothingSpentAfterExpiry
  ImplementsContract
  EveryRequestServed
  CapturedIsSettled
  SuccessIsAnnounced
