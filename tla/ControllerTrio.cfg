SPECIFICATION FairSpec
CONSTANTS
  r1 = r1
  r2 = r2
  r3 = r3
  Request <- MCRequest
  Input <- MCTrio
  Config <- MCJustP
  Subject <- MCSubject
  Limits <- MCLimits
  NoToken = NoToken
  NoProof = NoProof
  Window = 60
  MaxLen = 5000
INVARIANTS ProofAdmitsOnce EnrolledKeyIsProven ForeignDeviceScored
PROPERTIES EnrolmentNeverExtended EveryRequestSettled
CHECK_DEADLOCK FALSE
