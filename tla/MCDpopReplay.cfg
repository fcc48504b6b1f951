\* Two proofs that may share a jti, a cache of one entry, a clock set back once.
SPECIFICATION Spec
CONSTANTS
  Proof = {p1, p2}
  Jti = {j1, j2}
  Skew = 1
  Ttl = 4
  MaxSize = 1
  Ahead = 1
  MaxBack = 1
  MaxTime = 7
SYMMETRY Symmetry
CHECK_DEADLOCK FALSE
INVARIANTS NoReplay ReplayRefusalJustified
