CONSTANTS
  Sent <- McSent
  DataBits = 1
  Period <- McPeriod
  QueueMax = 1
  OutboundMax = 1
  PtyRoom = 1
  Races = FALSE
  MaxCuts = 1

SPECIFICATION Spec
CHECK_DEADLOCK FALSE
INVARIANTS
  EchoInOrder
  EchoArrives
CONSTRAINT Kept
VIEW View
