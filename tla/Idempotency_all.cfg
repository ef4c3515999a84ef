SPECIFICATION FairSpec
CONSTANTS
  Requests = {r1, r2, r3}
  Keys = {k1, k2}
  NoKey = NoKey
  TTL = 2
  NoReq = NoReq
  NoReply = NoReply
INVARIANTS
  TypeOK
  ReplayIsFaithful
  SecondRunExplained
PROPERTIES
  EveryRequestServed
  EntriesLeave
