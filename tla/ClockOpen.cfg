CONSTANTS
  Workers = {a, u}
  Bound = {a}
  Late = {u}
  Guests = {u}
  Schedulers = {s, r}
  Early = {s}
  MaxTime = 3
  MaxEpoch = 1
  Quantum = 1
  NoOwner = NoOwner
SPECIFICATION Spec
INVARIANTS
  RunningExact
  BarrierNotifyNotLost
CHECK_DEADLOCK FALSE
