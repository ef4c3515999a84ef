SPECIFICATION Spec
CONSTANTS
  Requests = {r1, r2}
  Keys = {k1}
  NoKey = NoKey
  TTL = 2
  NoReq = NoReq
  NoReply = NoReply
SYMMETRY Symmetric
PROPERTY
  EvictedOnlyWhenExpired
