\* One board with a rail, a bus, a clock and timed faults.
CONSTANTS
  Nets <- BoardNets
  Pins <- BoardPins
  NetOf <- BoardNetOf
  Rails <- BoardRails
  Idle = {1}
  Faults <- BoardFaults
  AnyPin = 0
  MaxSeen = 3
  Resistors <- BoardResistors
  Capacitors <- BoardCapacitors
  AnalogNets = {5}
  Publishes <- BoardPublishes
  IdleDrive <- BoardIdle
  Probed = {5}
  Senses <- BoardSenses
SPECIFICATION PlaneSpec
INVARIANTS
  NothingStale
  ReadersCurrent
  NeverFights
  HiddenExactlyInWindow
PROPERTIES
  FaultsEnd
