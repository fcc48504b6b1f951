SPECIFICATION Spec
CONSTANTS
  Window = 1200
  MaxLen = 5000
  Skew = 1200
  TokenLife = 6000
  Suites <- MCBinding
  SlowTicks = 100
CHECK_DEADLOCK FALSE
INVARIANTS BindingAblationAsPublished
