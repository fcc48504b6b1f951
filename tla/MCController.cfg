SPECIFICATION Spec
CONSTANTS
  r1 = r1
  r2 = r2
  r3 = r3
  Request <- MCPair
  Input <- MCInput
  Config <- MCConfig
  Subject <- MCSubject
  Limits <- MCLimits
  NoToken = NoToken
  NoProof = NoProof
  Window = 60
  MaxLen = 5000
INVARIANTS
  TypeOK CompleteMediation DenyHardPreempted AuditMatchesOutcome ChecksTellTruth
PROPERTIES ImplementsGateway
CHECK_DEADLOCK FALSE
