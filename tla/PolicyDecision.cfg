SPECIFICATION Spec
CONSTANTS
  Velocities = {0, 60000}
  CallRates = {30, 31}
  Continuities = {499, 500}
  FailureRates = {100, 101}
  AllowLimits = {40, 70}
  DenyLimits = {40, 70}
CHECK_DEADLOCK FALSE
INVARIANTS AllowMeansLowRisk AgreesWithLocal WorseSignalsNeverSofter AblationNeverTightens
