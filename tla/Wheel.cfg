\* A component that asks for one-shots and chains, and a pulse train, on one
\* wheel; the run ends at the last instant.
CONSTANTS
  c = c
  p = p
  Components = {c}
  Endpoints = {p}
  MaxTime = 4
  MaxPeriod = 2
  MaxEntries = 3
SPECIFICATION WheelSpec
INVARIANTS
  NothingOverdue
  WokenOnTime
PROPERTY TrainsRestOnTime
CHECK_DEADLOCK FALSE
