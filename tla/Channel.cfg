\* The smallest modulus; a quit, or a process that ends, ends the run.
CONSTANTS
  Runs = {r1, r2}
  Quit = quit
  Torn = torn
  SeqMod = 2
SPECIFICATION FairChannelSpec
INVARIANTS
  NoWakeLost
PROPERTIES
  TurnsEnd
  ProgramEnds
  TakesTurns
CHECK_DEADLOCK FALSE
