SPECIFICATION Spec
CONSTANTS
  r1 = r1
  r2 = r2
  r3 = r3
  Request <- MCPair
  Input <- MCNamed
  Config <- MCJustP
  Subject <- MCSubject
  Limits <- MCLimits
  NoToken = NoToken
  NoProof = NoProof
  Window = 60
  MaxLen = 5000
INVARIANT ReplayFlagMeansReplay
CHECK_DEADLOCK FALSE
