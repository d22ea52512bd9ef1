CONSTANTS
  Rates = {0, 1, 2}
  Totals = {0, 1}
  Cadence = 2
  MaxWalk = 2
  Operate = 2
  Release = 1
  Window = 3
  Bounces = 2
  MaxTime = 6
  MaxMoves = 4
SPECIFICATION Spec
CHECK_DEADLOCK FALSE
INVARIANTS
  PulsesCountedOnce
  RestsWhereItStops
  ContactSettles
