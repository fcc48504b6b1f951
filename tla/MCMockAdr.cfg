SPECIFICATION Spec
CONSTANTS
  Seeds = {42, 43}
  MaxUsers = 2
  AccountsPerUser = 2
  TransactionsPerAccount = 1
  TokenSeed = 42
  HarnessSeed = 42
CHECK_DEADLOCK FALSE
INVARIANTS OnlyOwnObjects OwnObjectsReachable A5RefusedByOwnership
