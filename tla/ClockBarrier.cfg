\* Every worker registered before the run: the discipline the clock asks for.
CONSTANTS
  Workers = {a, b, c}
  Bound = {a, b, c}
  Late = {}
  Guests = {}
  Schedulers = {s}
  Early = {s}
  MaxTime = 3
  MaxEpoch = 0
  Quantum = 2
  NoOwner = NoOwner
SPECIFICATION FairSpec
PROPERTIES
  MovesOnlyQuiescent
  ImplementsSimTime
  SleepersReturn
  SpinnersYield
