\* Crossed sends, a callback that drives and a sender that dies. A stopped engine ends the run.
CONSTANTS
  a = a
  b = b
  Senders = {a, b}
  Mortal = {a}
  Engine = Engine
  Echo = {b}
  Prompt = TRUE
  WakeArmed = {TRUE, FALSE}
  MaxDrives = 5
  GapIdlePolls = 3
SPECIFICATION FairSpec
INVARIANTS
  AppliedInOrder
PROPERTIES
  ImplementsDriveOrder
  DrivesApplied
CHECK_DEADLOCK FALSE
