SPECIFICATION Spec
CONSTANTS
  Requests = {r1, r2}
  Kids = {k1, k2}
  Ttl = 2
  FetchLimit = 1
  OpaLimit = 1
  Drift = 1
  Expiries = {3, 6}
  MaxTime = 6
SYMMETRY Symmetry
CHECK_DEADLOCK FALSE
INVARIANTS AcceptedKeyIsRecent RefusedKeyIsNew UsedTokenIsLive
