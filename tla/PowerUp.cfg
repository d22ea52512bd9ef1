CONSTANTS
  b = b
  Banks = {b}
  Delay = 1
  Answers = {"restarts", "cannot"}
  Instants = {4}
  Periods = {1}
  MaxTime = 5
  MaxAsks = 1
  StartUp = 2
  Discharge = TRUE
  OpenEnables = TRUE
  TPd = 1
  TPr = 2
  Inputs = {2}
  Enables = {0}
  Grounds = {0, 1}
  Straps = {1}
  MaxMoves = 4
SPECIFICATION SystemSpec
CHECK_DEADLOCK FALSE
INVARIANTS
  UpOnTime
  DetectorSettles
  RunsPowered
PROPERTIES
  StartsOnTime
  OnlyRunningWoken
