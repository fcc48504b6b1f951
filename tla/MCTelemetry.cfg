\* One subject is enough: subjects share no state.  Window 2 puts events on
\* both sides of the boundary and on it; MaxLen 2 < MaxEvents fills the deque.
SPECIFICATION Spec
CONSTANTS
  Window = 2
  MaxLen = 2
  Subject = {alice}
  Geo = {au, nz}
  Session = {s1, s2}
  Fp = {f1, f2}
  MaxTime = 4
  MaxEvents = 3
SYMMETRY Symmetry
CHECK_DEADLOCK FALSE
INVARIANTS HistoryIsWindow VelocityMeansRegionChange BaselineIsFirstFp FailureRateIsCumulative
