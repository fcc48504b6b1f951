SPECIFICATION LoadSpec
CONSTANTS
  Window = 1200
  MaxLen = 5000
  Skew = 1200
  TokenLife = 6000
  Loads <- MCLoads
  StartUp = 100
CHECK_DEADLOCK FALSE
INVARIANTS FrictionFollowsRegion LoadTablesHold
