SPECIFICATION AgentFairSpec
CONSTANTS
  a1 = a1
  a2 = a2
  c1 = c1
  t1 = t1
  empty = empty
  small = small
  Attempts <- TwoAttempts
  MandateId <- Ids
  NoToken = NoToken
  Requests <- Calls
  Tokens <- OneToken
  SpendLimit <- Limits
  PaymentsWriters <- OneToken
  CartIds <- OneCart
  Contents <- TwoLists
  EmptyItems <- empty
  Total <- Totals
  Mandates <- AgentMandates
  NoCart = NoCart
  NoMandate = NoMandate
  NoReq = NoReq
  UnknownId = UnknownId
CHECK_DEADLOCK FALSE
INVARIANTS
  AgentTypeOK
  SuccessReportIsTrue
  RefusalReportIsTrue
  ChargedAtMostOnce
PROPERTIES
  UsesCheckout
  ToolReturns
