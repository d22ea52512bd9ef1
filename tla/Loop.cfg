\* An actor and a guest that floods the data queue; whoever asks for wakes is
\* registered or a callback.
CONSTANTS
  a = a
  g = g
  Actors = {a}
  Guests = {g}
  Schedulers = {a}
  Flooders = {g}
  Batch = 2
  CappedMax = 2
  Stalls = TRUE
  MaxTime = 2
  MaxSends = 2
  MaxQueue = 2
SPECIFICATION FairSpec
INVARIANTS
  RequestsCurrent
PROPERTIES
  NoDeadlinePassed
  DrivesOnInstant
  WakesFire
CHECK_DEADLOCK FALSE
